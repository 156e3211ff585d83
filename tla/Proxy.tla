-------------------------------- MODULE Proxy --------------------------------
(***************************************************************************)
(* One hop of a proxied connection: the client's side is Socks5Outbound,   *)
(* HttpConnectOutbound, the NEW frame of a link or an application; the     *)
(* server's side is Socks5Inbound, HttpConnectInbound, the reader of a     *)
(* link or another SOCKS5 server.  The target crosses the hop in the       *)
(* encoding of its protocol, then both sides relay bytes.                  *)
(*                                                                         *)
(* Bytes are numbers below B (256 in the code, at least 8 here so that the *)
(* protocol's own constants fit); an IPv6 address has Ip6Len of them.  An  *)
(* HTTP header is one element of its stream: read_until returns when it is *)
(* there, with any number of the elements that follow.  A frame of a link  *)
(* is one element as well: NEW its encoded target, ACK and RESET numbers   *)
(* that no relayed byte has.                                               *)
(***************************************************************************)
EXTENDS Naturals, Sequences

CONSTANTS B, NameLens, UserLens, PassLens, MaxBytes

Ip6Len == 5     \* 16 in the code
ASSUME ByteAssumption == B \in Nat /\ B >= 8 /\ MaxBytes \in 1..(B - 1)
ASSUME LensAssumption == \A lens \in {NameLens, UserLens, PassLens} : lens \subseteq Nat

VARIABLES
  hop,         \* who talks to whom, with which configuration and target
  c2s, s2c,    \* bytes under way
  cpc, spc,    \* where the two coroutines are
  extra,       \* Socks5Outbound: bytes of the bound address still to skip
  req,         \* the SessionRequest's target, when the server has dispatched it
  upSent, up, downSent, down,  \* relayed bytes: sent by an end, received by the other
  upLost, downLost             \* bytes dropped with a streambuf (history)

vars == <<hop, c2s, s2c, cpc, spc, extra, req, upSent, up, downSent, down, upLost, downLost>>
relayVars == <<upSent, up, downSent, down, upLost, downLost>>

Text(n) == [i \in 1..n |-> 6]
Quad == <<1, 0, 2, 0, 3, 0, 4>>    \* the name "1.2.3.4", with 0 for the dots
NoTarget == [type |-> 0, host |-> <<>>, port |-> 0]
Target(type, host) == {[type |-> type, host |-> host, port |-> p] : p \in {0, B + 2}}

Targets ==
  Target(1, <<1, 2, 3, 4>>) \cup Target(2, [i \in 1..Ip6Len |-> i]) \cup Target(3, Quad)
  \cup UNION {Target(3, Text(n)) : n \in NameLens \cup {1}}

Logins == {<<Text(u), Text(p)>> : u \in UserLens, p \in PassLens}
Anonymous == <<<<>>, <<>>>>
ACK == 0
RESET == B
Success == <<5, 0, 0, 1, 0, 0, 0, 0, 0, 0>>
OtherReplies ==   \* what another server may answer: bound addresses of every kind, errors
  {<<5, 0, 0, 4>> \o Text(Ip6Len + 2), <<5, 0, 0, 3, 2, 6, 6, 0, 0>>,
   <<5, 0, 0, 7>>, <<5, 1, 0, 1, 0, 0, 0, 0, 0, 0>>}
Commands == {1, 2, 3}              \* CONNECT, BIND, UDP ASSOCIATE
Greetings == {<<5, 1, 0>>, <<5, 1, 2>>, <<5, 2, 2, 0>>, <<5, 0>>, <<4, 1, 0>>}

Hop(kind, by, cmd, t, login, slogin, greeting, reply) ==
  [kind |-> kind, by |-> by, cmd |-> cmd, target |-> t, login |-> login, slogin |-> slogin,
   greeting |-> greeting, reply |-> reply]
-------------------------------------------------------------------------------
(***************************************************************************)
(* Encodings of addresses.                                                 *)
(***************************************************************************)
Least(a, b) == IF a < b THEN a ELSE b
PortBytes(p) == <<p \div B, p % B>>
PortOf(s) == s[1] * B + s[2]

\* The length byte is capped, the bytes that follow are all there.
Socks5Address(t) ==
  (CASE t.type = 1 -> <<1>>
     [] t.type = 2 -> <<4>>
     [] t.type = 3 -> <<3, Least(B - 1, Len(t.host))>>
     [] OTHER -> <<t.type>>) \o t.host \o PortBytes(t.port)

\* Bytes of a request that must be there before handleClient can go on.
RequestLen(s) ==
  IF Len(s) < 4 \/ s[1] # 5 \/ s[2] \notin {1, 3} THEN 4
  ELSE CASE s[4] = 1 -> 10
         [] s[4] = 4 -> 4 + Ip6Len + 2
         [] s[4] = 3 -> IF Len(s) < 5 THEN 5 ELSE 5 + s[5] + 2
         [] OTHER -> 4

\* Mutant: the port is read before the name's last byte.
RequestTargetShort(s) ==
  LET n == RequestLen(s)  from == IF s[4] = 3 THEN 6 ELSE 5 IN
  [type |-> CASE s[4] = 1 -> 1 [] s[4] = 4 -> 2 [] OTHER -> 3,
   host |-> SubSeq(s, from, n - 2), port |-> PortOf(SubSeq(s, n - 2, n - 1))]

RequestTarget(s) ==
  LET n == RequestLen(s)  from == IF s[4] = 3 THEN 6 ELSE 5 IN
  [type |-> CASE s[4] = 1 -> 1 [] s[4] = 4 -> 2 [] OTHER -> 3,
   host |-> SubSeq(s, from, n - 2), port |-> PortOf(SubSeq(s, n - 1, n))]

\* toBinary cuts the name, parseBinary refuses an empty one.
toBinary(t) ==
  LET n == Least(Len(t.host), B - 1) IN
  <<t.type, n>> \o SubSeq(t.host, 1, n) \o PortBytes(t.port)

parseBinary(b) ==
  LET n == b[2]
      good == CASE b[1] = 1 -> n = 4 [] b[1] = 2 -> n = Ip6Len [] b[1] = 3 -> n # 0
                [] OTHER -> FALSE
  IN IF Len(b) < 4 \/ Len(b) < n + 4 \/ ~good THEN NoTarget
     ELSE [type |-> b[1], host |-> SubSeq(b, 3, n + 2), port |-> PortOf(SubSeq(b, n + 3, n + 4))]

\* parseHostPort of toString: port 0 is refused, a dotted name becomes an address.
IsQuad(t) == t.type = 3 /\ Len(t.host) = 7 /\ \A i \in {2, 4, 6} : t.host[i] = 0
AsAddress(t) ==
  IF IsQuad(t) THEN [t EXCEPT !.type = 1, !.host = [i \in 1..4 |-> t.host[2 * i - 1]]] ELSE t
parseHostPort(t) == IF t.port = 0 THEN NoTarget ELSE AsAddress(t)
-------------------------------------------------------------------------------
\* Socks5Outbound with Socks5Inbound, and with another server.
OwnHops == {Hop("socks5", "outbound", 1, t, l, sl, <<>>, Success) :
              t \in Targets, l \in Logins, sl \in Logins}
OtherHops == {Hop("socks5", "outbound", 1, t, <<Text(1), <<>>>>, Anonymous, <<>>, r) :
                t \in Target(3, Text(1)), r \in OtherReplies}

\* An application with Socks5Inbound.
AppHops == {Hop("socks5", "app", m, t, l, sl, g, Success) :
              t \in Target(3, Text(1)) \cup {[NoTarget EXCEPT !.type = 7]},
              l \in Logins, sl \in Logins, g \in Greetings, m \in Commands}

HttpHops == {Hop("http", b, m, t, Anonymous, Anonymous, <<>>, Success) :
               t \in Targets, b \in {"outbound", "app"}, m \in {1, 2}}
LinkHops == {Hop("link", "outbound", 1, t, Anonymous, Anonymous, <<>>, Success) : t \in Targets}

Hops == OwnHops \cup OtherHops \cup AppHops \cup HttpHops \cup LinkHops

Init ==
  /\ hop \in Hops
  /\ hop.by = "outbound" => hop.cmd = 1
  /\ c2s = <<>> /\ s2c = <<>> /\ cpc = "start" /\ spc = "start" /\ extra = 0 /\ req = NoTarget
  /\ upSent = 0 /\ up = <<>> /\ downSent = 0 /\ down = <<>> /\ upLost = 0 /\ downLost = 0

Drop(s, n) == SubSeq(s, n + 1, Len(s))
Client(from, n, to) == cpc = from /\ Len(s2c) >= n /\ cpc' = to /\ s2c' = Drop(s2c, n)
Server(from, n, to) == spc = from /\ Len(c2s) >= n /\ spc' = to /\ c2s' = Drop(c2s, n)
-------------------------------------------------------------------------------
(***************************************************************************)
(* The client.  When a coroutine returns early its socket is closed.       *)
(***************************************************************************)
\* Mutant: the same length for both greetings.
GreetingThree(login) == <<5, 2, 0>>

\* glen: without a user the second method is announced and not sent.
Greeting(login) == IF login[1] # <<>> THEN <<5, 2, 0, 2>> ELSE <<5, 2, 0>>

\* Resolve and connect, then the first message; openSession returns, and the
\* relay begins, when NEW is queued.
Connect ==
  /\ cpc = "start"
  /\ \/ cpc' = "failed" /\ UNCHANGED c2s
     \/ /\ cpc' = CASE hop.kind = "socks5" -> "method" [] hop.kind = "http" -> "status"
                    [] OTHER -> "relay"
        /\ c2s' = CASE hop.kind = "socks5" -> IF hop.by = "app" THEN hop.greeting
                                              ELSE Greeting(hop.login)
                    [] hop.kind = "http" -> <<hop.target>>
                    [] OTHER -> <<toBinary(hop.target)>>
  /\ UNCHANGED <<hop, s2c, spc, extra, req, relayVars>>

Login(l, version) == <<version, Len(l[1]) % B>> \o l[1] \o <<Len(l[2]) % B>> \o l[2]
Request == <<5, hop.cmd, 0>> \o Socks5Address(hop.target)

Method ==
  /\ \/ Client("method", 2, "failed") /\ (s2c[1] # 5 \/ s2c[2] = B - 1) /\ UNCHANGED c2s
     \/ /\ Client("method", 2, "auth") /\ s2c[1] = 5 /\ s2c[2] = 2
        /\ \E v \in (IF hop.by = "app" THEN {1, 5} ELSE {1}) : c2s' = c2s \o Login(hop.login, v)
     \/ Client("method", 2, "reply") /\ s2c[1] = 5 /\ s2c[2] \notin {2, B - 1}
        /\ c2s' = c2s \o Request
  /\ UNCHANGED <<hop, spc, extra, req, relayVars>>

Auth ==
  /\ \/ Client("auth", 2, "failed") /\ s2c[2] # 0 /\ UNCHANGED c2s
     \/ Client("auth", 2, "reply") /\ s2c[2] = 0 /\ c2s' = c2s \o Request
  /\ UNCHANGED <<hop, spc, extra, req, relayVars>>

\* Mutant: the port of the bound address is not skipped.
ToSkipHost(n) == n

ToSkip(n) == n + 2

Reply ==
  /\ \/ Client("reply", 4, "failed") /\ (s2c[2] # 0 \/ s2c[4] \notin {1, 3, 4}) /\ UNCHANGED extra
     \/ /\ Client("reply", 4, "skip") /\ s2c[2] = 0 /\ s2c[4] \in {1, 4}
        /\ extra' = ToSkip(IF s2c[4] = 1 THEN 4 ELSE Ip6Len)
     \/ Client("reply", 4, "length") /\ s2c[2] = 0 /\ s2c[4] = 3 /\ UNCHANGED extra
     \/ Client("length", 1, "skip") /\ extra' = ToSkip(s2c[1])
  /\ UNCHANGED <<hop, c2s, spc, req, relayVars>>

Skip ==
  /\ Client("skip", extra, "relay")
  /\ UNCHANGED <<hop, c2s, spc, extra, req, relayVars>>

\* HttpConnectOutbound: what was read past the header goes with the streambuf.
StatusLine ==
  /\ \E n \in 1..Len(s2c) :
       /\ Client("status", n, IF s2c[1] = 200 THEN "relay" ELSE "failed")
       /\ downLost' = n - 1
  /\ UNCHANGED <<hop, c2s, spc, extra, req, upSent, up, downSent, down, upLost>>

\* The client's dispatchFrame: nothing waits for ACK, RESET ends the session.
OnAck ==
  /\ hop.kind = "link" /\ Client("relay", 1, "relay") /\ s2c[1] = ACK
  /\ UNCHANGED <<hop, c2s, spc, extra, req, relayVars>>

OnReset ==
  /\ hop.kind = "link" /\ Client("relay", 1, "failed") /\ s2c[1] = RESET
  /\ UNCHANGED <<hop, c2s, spc, extra, req, relayVars>>
-------------------------------------------------------------------------------
(***************************************************************************)
(* The server.                                                             *)
(***************************************************************************)
NeedsLogin == hop.slogin # Anonymous

\* Bytes of a greeting that must be there before the next step of reading it.
HelloLen(s) == IF Len(s) < 2 \/ s[1] # 5 THEN 2 ELSE 2 + s[2]

Hello ==
  /\ hop.kind = "socks5" /\ spc = "start" /\ Len(c2s) >= HelloLen(c2s)
  /\ LET n == HelloLen(c2s)
         chosen == IF NeedsLogin THEN 2 ELSE 0
         offered == \E i \in 3..n : c2s[i] = chosen
     IN \/ n = 2 /\ Server("start", n, "closed") /\ UNCHANGED s2c
        \/ /\ n > 2
           /\ Server("start", n, IF ~offered THEN "closed"
                                 ELSE IF NeedsLogin THEN "login" ELSE "request")
           /\ s2c' = s2c \o <<5, IF offered THEN chosen ELSE B - 1>>
  /\ UNCHANGED <<hop, cpc, extra, req, relayVars>>

\* Bytes of a login that must be there before the next step of reading it.
LoginLen(s) ==
  IF s # <<>> /\ s[1] # 1 THEN 1
  ELSE IF Len(s) < 2 THEN 2
  ELSE IF Len(s) < 3 + s[2] THEN 3 + s[2]
  ELSE 3 + s[2] + s[3 + s[2]]

\* Mutant: a login without a password is not checked for one.
KnownUser(user, pass) == user = hop.slogin[1] /\ (pass = <<>> \/ pass = hop.slogin[2])

Known(user, pass) == user = hop.slogin[1] /\ pass = hop.slogin[2]

CheckLogin ==
  /\ LET n == LoginLen(c2s)
         user == SubSeq(c2s, 3, 2 + c2s[2])
         pass == SubSeq(c2s, 4 + c2s[2], n)
         good == Known(user, pass)
     IN /\ spc = "login" /\ Len(c2s) >= n
        /\ \/ c2s[1] # 1 /\ Server("login", n, "closed") /\ UNCHANGED s2c
           \/ /\ c2s[1] = 1 /\ Server("login", n, IF good THEN "request" ELSE "closed")
              /\ s2c' = s2c \o <<1, IF good THEN 0 ELSE 1>>
  /\ UNCHANGED <<hop, cpc, extra, req, relayVars>>

\* Success is answered before the router and the outbound are asked; another
\* server answers as it likes.
HandleRequest ==
  /\ LET n == RequestLen(c2s)
         refused == c2s[1] # 5 \/ c2s[2] \notin {1, 3}
     IN /\ spc = "request" /\ Len(c2s) >= n
        /\ \/ /\ refused /\ Server("request", n, "closed")
              /\ s2c' = s2c \o <<5, 7, 0, 1, 0, 0, 0, 0, 0, 0>> /\ UNCHANGED req
           \/ /\ ~refused /\ c2s[4] \notin {1, 3, 4}
              /\ Server("request", n, "closed") /\ UNCHANGED <<s2c, req>>
           \/ /\ ~refused /\ c2s[4] \in {1, 3, 4} /\ c2s[2] = 1
              /\ Server("request", n, "relay")
              /\ s2c' = s2c \o hop.reply /\ req' = RequestTarget(c2s)
           \/ /\ ~refused /\ c2s[4] \in {1, 3, 4} /\ c2s[2] = 3
              /\ Server("request", n, "association")
              /\ s2c' = s2c \o Success /\ UNCHANGED req
  /\ UNCHANGED <<hop, cpc, extra, relayVars>>

\* HttpConnectInbound, with the same fate for what follows the header.
Header ==
  /\ hop.kind = "http"
  /\ \E n \in 1..Len(c2s) :
       LET t == parseHostPort(c2s[1])
           status == IF hop.cmd # 1 THEN 405 ELSE IF t = NoTarget THEN 400 ELSE 200
       IN /\ Server("start", n, IF status = 200 THEN "relay" ELSE "closed")
          /\ s2c' = <<status>> /\ upLost' = n - 1
          /\ req' = IF status = 200 THEN t ELSE req
  /\ UNCHANGED <<hop, cpc, extra, upSent, up, downSent, down, downLost>>

\* dispatchFrame on NEW; the DATA of a session that was refused is dropped.
NewFrame ==
  /\ hop.kind = "link"
  /\ Server("start", 1, IF parseBinary(c2s[1]) = NoTarget THEN "closed" ELSE "relay")
  /\ req' = parseBinary(c2s[1])
  /\ s2c' = <<IF parseBinary(c2s[1]) = NoTarget THEN RESET ELSE ACK>>
  /\ UNCHANGED <<hop, cpc, extra, relayVars>>
-------------------------------------------------------------------------------
(***************************************************************************)
(* A socket that the other side has closed, and the relayed bytes.         *)
(***************************************************************************)
ClientEof ==
  /\ cpc \notin {"start", "relay", "failed"} /\ spc = "closed" /\ cpc' = "failed"
  /\ UNCHANGED <<hop, c2s, s2c, spc, extra, req, relayVars>>

ServerEof ==
  /\ spc \notin {"relay", "association", "closed"} /\ cpc = "failed" /\ spc' = "closed"
  /\ UNCHANGED <<hop, c2s, s2c, cpc, extra, req, relayVars>>

\* An application may send data behind its header without waiting.
Eager == hop.by = "app" /\ hop.kind = "http" /\ cpc = "status"

SendUp ==
  /\ cpc = "relay" \/ Eager
  /\ hop.cmd = 1 /\ upSent < MaxBytes
  /\ upSent' = upSent + 1 /\ c2s' = Append(c2s, upSent + 1)
  /\ UNCHANGED <<hop, s2c, cpc, spc, extra, req, up, downSent, down, upLost, downLost>>

SendDown ==
  /\ spc = "relay" /\ downSent < MaxBytes
  /\ downSent' = downSent + 1 /\ s2c' = Append(s2c, downSent + 1)
  /\ UNCHANGED <<hop, c2s, cpc, spc, extra, req, upSent, up, down, upLost, downLost>>

ReceiveUp ==
  /\ Server("relay", 1, "relay") /\ up' = Append(up, c2s[1])
  /\ UNCHANGED <<hop, s2c, cpc, extra, req, upSent, downSent, down, upLost, downLost>>

ReceiveDown ==
  /\ Client("relay", 1, "relay") /\ (hop.kind = "link" => s2c[1] \notin {ACK, RESET})
  /\ down' = Append(down, s2c[1])
  /\ UNCHANGED <<hop, c2s, spc, extra, req, upSent, up, downSent, upLost, downLost>>

ClientStep == Connect \/ Method \/ Auth \/ Reply \/ Skip \/ StatusLine \/ OnAck \/ OnReset \/ ClientEof
ServerStep == Hello \/ CheckLogin \/ HandleRequest \/ Header \/ NewFrame \/ ServerEof
Relay == SendUp \/ SendDown \/ ReceiveUp \/ ReceiveDown

Next == ClientStep \/ ServerStep \/ Relay
Spec == Init /\ [][Next]_vars

\* TCP delivers, and a coroutine whose read can complete is resumed.
FairSpec == Spec /\ WF_vars(ClientStep) /\ WF_vars(ServerStep)
-------------------------------------------------------------------------------
TypeOK ==
  /\ hop.target \in Targets \cup {[NoTarget EXCEPT !.type = 7]}
  /\ cpc \in {"start", "method", "auth", "reply", "length", "skip", "status", "relay", "failed"}
  /\ spc \in {"start", "login", "request", "relay", "association", "closed"}
  /\ {extra, upSent, downSent, upLost, downLost} \subseteq Nat

\* A name, a user and a password fit when their lengths can be written in one byte.
NameFits == hop.target.type # 3 \/ Len(hop.target.host) < B
LoginFits == Len(hop.login[1]) < B /\ Len(hop.login[2]) < B
Fits == NameFits /\ LoginFits

\* The target the server dispatches is the client's, through every encoding: of
\* any length over HTTP, and if it fits over SOCKS5 and over a link (a longer name
\* is cut by toBinary, and by the length byte of Socks5Outbound, whose other bytes
\* the server then reads as the port and as data; a longer login runs into the
\* request in the same way).
TargetKept ==
  /\ TypeOK
  /\ (req # NoTarget /\ (Fits \/ hop.kind = "http"))
       => req = IF hop.kind = "http" THEN AsAddress(hop.target) ELSE hop.target

Received(got, lost) == got = [i \in 1..Len(got) |-> lost + i]

\* What is relayed arrives complete and in order in both directions, whatever the
\* reply before it looks like.  Only what read_until took in with an HTTP header
\* is missing, at the start: of the client's data if it did not wait for the
\* answer, of the target's data if the target speaks first.
StreamKept ==
  (Fits \/ hop.kind = "http") =>
    /\ Received(up, upLost) /\ Received(down, downLost)
    /\ hop.by = "outbound" => upLost = 0
    /\ hop.kind # "http" => downLost = 0

Took == spc \in {"relay", "association"}

\* A client with a login that fits relays through a server that took its request,
\* or, on a link, which does not wait for an answer, while its NEW or the RESET that
\* refuses it is under way; data comes back only from a server that took the request;
\* and a SOCKS5 server with a login takes requests only from clients that know it.
RelayAccepted ==
  LoginFits =>
    /\ cpc = "relay" => \/ Took
                        \/ hop.kind = "link" /\ spc = "start" /\ c2s # <<>>
                        \/ hop.kind = "link" /\ spc = "closed" /\ s2c = <<RESET>>
    /\ down # <<>> => Took
    /\ Took /\ NeedsLogin => hop.login = hop.slogin

Answered == cpc \in {"relay", "failed"}

\* Neither side waits for bytes that the other does not send: a negotiation ends,
\* except that of a Socks5Outbound that has no user.
NegotiationEnds ==
  (cpc # "start" /\ ~(hop.kind = "socks5" /\ hop.by = "outbound" /\ hop.login[1] = <<>>))
    ~> Answered

\* "offer no-auth and userpass" (socks5_outbound.cpp:48): whatever it is configured
\* with, Socks5Outbound's greeting is one that Socks5Inbound answers.
OutboundAnswered ==
  (cpc # "start" /\ hop.kind = "socks5" /\ hop.by = "outbound") ~> Answered
===============================================================================
