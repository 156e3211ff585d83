----------------------------- MODULE ProxyProofs -----------------------------
(***************************************************************************)
(* Proofs about one hop (module Proxy), for every size of a byte, every    *)
(* set of name, user and password lengths and every amount of relayed      *)
(* data: the target that is dispatched is the client's (TargetArrives),    *)
(* what is relayed arrives in order (StreamArrives), and a client relays   *)
(* only through a server that took its request, or, on a link, while the   *)
(* request or its refusal is under way (RelaysWhenAccepted).               *)
(***************************************************************************)
EXTENDS Proxy, TLAPS

(***************************************************************************)
(* The inductive invariant.  For each protocol it says, for every pair of  *)
(* places the two coroutines can be in together, which bytes are under     *)
(* way: nothing, the rest of one known message, or that and the relayed    *)
(* bytes behind it.                                                        *)
(***************************************************************************)
\* The relayed bytes from a + 1 to b.
Seg(a, b) == [i \in 1..(b - a) |-> a + i]

Flows ==
  /\ extra \in Nat /\ upSent \in Nat /\ downSent \in Nat /\ upLost \in Nat /\ downLost \in Nat
  /\ down \in Seq(Nat) /\ downLost + Len(down) <= downSent /\ Received(down, downLost)

\* Nothing has been relayed.
Quiet ==
  /\ upSent = 0 /\ up = <<>> /\ downSent = 0 /\ down = <<>> /\ upLost = 0 /\ downLost = 0
  /\ req = NoTarget

UpStream ==
  /\ up \in Seq(Nat) /\ upLost + Len(up) <= upSent /\ Received(up, upLost)
  /\ c2s = Seg(upLost + Len(up), upSent)

DownSeg == Seg(downLost + Len(down), downSent)

Hello1 == IF hop.by = "app" THEN hop.greeting ELSE Greeting(hop.login)
Refusal == <<5, 7, 0, 1, 0, 0, 0, 0, 0, 0>>
LoggedIn == NeedsLogin => hop.login = hop.slogin
Answer == IF spc = "relay" THEN hop.reply ELSE Success

SocksStart == Quiet /\ s2c = <<>> /\ \/ cpc \in {"start", "failed"} /\ c2s = <<>>
                                     \/ cpc = "method" /\ c2s = Hello1
SocksLogin ==
  /\ Quiet /\ NeedsLogin
  /\ \/ cpc = "method" /\ c2s = <<>> /\ s2c = <<5, 2>>
     \/ cpc = "auth" /\ s2c = <<>> /\ \E v \in {1, 5} : c2s = Login(hop.login, v)
SocksRequest ==
  /\ Quiet /\ LoggedIn
  /\ \/ cpc = "method" /\ c2s = <<>> /\ s2c = <<5, 0>>
     \/ cpc = "auth" /\ c2s = <<>> /\ s2c = <<1, 0>>
     \/ cpc = "reply" /\ c2s = Request /\ s2c = <<>>
SocksClosed ==
  /\ Quiet
  /\ \/ cpc = "failed"
     \/ cpc = "method" /\ s2c \in {<<>>, <<5, B - 1>>}
     \/ cpc = "auth" /\ s2c \in {<<>>, <<1, 1>>}
     \/ cpc = "reply" /\ s2c \in {<<>>, Refusal}
SocksRelay ==
  /\ upLost = 0 /\ downLost = 0 /\ LoggedIn
  /\ \/ cpc = "reply" /\ down = <<>> /\ s2c = Answer \o DownSeg
     \/ /\ cpc = "length" /\ down = <<>> /\ Answer[2] = 0 /\ Answer[4] = 3
        /\ s2c = Drop(Answer, 4) \o DownSeg
     \/ /\ cpc = "skip" /\ down = <<>> /\ extra <= Len(Answer)
        /\ s2c = Drop(Answer, Len(Answer) - extra) \o DownSeg
     \/ cpc = "relay" /\ s2c = DownSeg
     \/ cpc = "failed"
  /\ Fits => UpStream /\ req \in {NoTarget, hop.target}

SocksInv ==
  /\ spc \in {"start", "login", "request", "closed", "relay", "association"}
  /\ spc = "start" => SocksStart
  /\ spc = "login" => SocksLogin
  /\ spc = "request" => SocksRequest
  /\ spc = "closed" => SocksClosed
  /\ spc \in {"relay", "association"} => SocksRelay

HttpStart ==
  /\ up = <<>> /\ down = <<>> /\ downSent = 0 /\ upLost = 0 /\ downLost = 0 /\ req = NoTarget
  /\ s2c = <<>>
  /\ \/ cpc \in {"start", "failed"} /\ c2s = <<>> /\ upSent = 0
     \/ /\ cpc = "status" /\ c2s = <<hop.target>> \o Seg(0, upSent)
        /\ hop.by = "outbound" => upSent = 0
HttpClosed ==
  /\ up = <<>> /\ down = <<>> /\ downLost = 0 /\ req = NoTarget
  /\ cpc = "failed" \/ (cpc = "status" /\ s2c \in {<<400>>, <<405>>})
HttpRelay ==
  /\ UpStream /\ req = AsAddress(hop.target)
  /\ \/ cpc = "status" /\ down = <<>> /\ downLost = 0 /\ s2c = <<200>> \o Seg(0, downSent)
     \/ cpc = "relay" /\ s2c = DownSeg
HttpInv ==
  /\ spc \in {"start", "closed", "relay"}
  /\ hop.by = "outbound" => upLost = 0
  /\ spc = "start" => HttpStart
  /\ spc = "closed" => HttpClosed
  /\ spc = "relay" => HttpRelay

LinkStart ==
  /\ up = <<>> /\ down = <<>> /\ downSent = 0 /\ req = NoTarget /\ s2c = <<>>
  /\ \/ cpc \in {"start", "failed"} /\ c2s = <<>> /\ upSent = 0
     \/ cpc = "relay" /\ c2s = <<toBinary(hop.target)>> \o Seg(0, upSent)
LinkClosed ==
  /\ up = <<>> /\ down = <<>> /\ req = NoTarget
  /\ cpc = "failed" \/ (cpc = "relay" /\ s2c = <<RESET>>)
LinkRelay ==
  /\ UpStream /\ cpc = "relay" /\ (Fits => req = hop.target)
  /\ \/ down = <<>> /\ s2c = <<ACK>> \o Seg(0, downSent)
     \/ s2c = DownSeg
LinkInv ==
  /\ spc \in {"start", "closed", "relay"}
  /\ upLost = 0 /\ downLost = 0 /\ downSent <= MaxBytes
  /\ spc = "start" => LinkStart
  /\ spc = "closed" => LinkClosed
  /\ spc = "relay" => LinkRelay

\* All that is known of a hop whose login does not fit: its length bytes wrap, and the
\* server takes the rest of the login for a request.
Unfit ==
  /\ hop.kind = "socks5"
  /\ {extra, upSent, downSent, upLost, downLost} \subseteq Nat /\ s2c \in Seq(Nat)
  /\ cpc \in {"start", "method", "auth", "reply", "length", "skip", "relay", "failed"}
  /\ spc \in {"start", "login", "request", "closed", "relay", "association"}

Inv ==
  /\ hop \in Hops /\ (hop.by = "outbound" => hop.cmd = 1)
  /\ ~LoginFits => Unfit
  /\ LoginFits => /\ Flows
                  /\ hop.kind = "socks5" => SocksInv
                  /\ hop.kind = "http" => HttpInv
                  /\ hop.kind = "link" => LinkInv
-------------------------------------------------------------------------------
(***************************************************************************)
(* Sequences.                                                              *)
(***************************************************************************)
\* Two sequences with the same elements in the same places are equal.
LEMMA SameSeq ==
  ASSUME NEW S, NEW s \in Seq(S), NEW t \in Seq(S), Len(s) = Len(t),
         \A i \in 1..Len(s) : s[i] = t[i]
  PROVE  s = t
OBVIOUS

\* What is left of a sequence when its first n elements have been read.
LEMMA DropIs ==
  ASSUME NEW S, NEW s \in Seq(S), NEW n \in 0..Len(s)
  PROVE  /\ Drop(s, n) \in Seq(S) /\ Len(Drop(s, n)) = Len(s) - n
         /\ \A i \in 1..(Len(s) - n) : Drop(s, n)[i] = s[n + i]
BY DEF Drop

\* What a concatenation holds.
LEMMA ConcatIs ==
  ASSUME NEW S, NEW s \in Seq(S), NEW t \in Seq(S)
  PROVE  /\ s \o t \in Seq(S) /\ Len(s \o t) = Len(s) + Len(t)
         /\ \A i \in 1..Len(s) : (s \o t)[i] = s[i]
         /\ \A i \in 1..Len(t) : (s \o t)[Len(s) + i] = t[i]
OBVIOUS

\* Reading from the first of two messages leaves the second alone.
LEMMA DropFirst ==
  ASSUME NEW S, NEW s \in Seq(S), NEW t \in Seq(S), NEW n \in 0..Len(s)
  PROVE  Drop(s \o t, n) = Drop(s, n) \o t
<1> DEFINE c == s \o t  d == Drop(s, n)  l == Drop(c, n)  r == d \o t
<1>1. /\ c \in Seq(S) /\ Len(c) = Len(s) + Len(t)
      /\ \A i \in 1..Len(s) : c[i] = s[i]
      /\ \A i \in 1..Len(t) : c[Len(s) + i] = t[i]
  BY ConcatIs
<1>2. d \in Seq(S) /\ Len(d) = Len(s) - n /\ \A i \in 1..(Len(s) - n) : d[i] = s[n + i]
  BY DropIs
<1> HIDE DEF c, d
<1>3. n \in 0..Len(c)
  BY <1>1
<1>4. l \in Seq(S) /\ Len(l) = Len(c) - n /\ \A i \in 1..(Len(c) - n) : l[i] = c[n + i]
  BY <1>1, <1>3, DropIs, Zenon
<1>0. d \in Seq(S)
  BY <1>2
<1>5. /\ r \in Seq(S) /\ Len(r) = Len(d) + Len(t)
      /\ \A i \in 1..Len(d) : r[i] = d[i]
      /\ \A i \in 1..Len(t) : r[Len(d) + i] = t[i]
  BY <1>0, ConcatIs
<1> HIDE DEF l, r
<1>6. Len(l) = Len(r) /\ Len(l) \in Nat
  BY <1>1, <1>2, <1>4, <1>5
<1>7. ASSUME NEW i \in 1..Len(l)
      PROVE  l[i] = r[i]
  <2>1. l[i] = c[n + i]
    BY <1>4
  <2>2. CASE i <= Len(s) - n
    <3>1. n + i \in 1..Len(s) /\ i \in 1..Len(d) /\ i \in 1..(Len(s) - n)
      BY <1>2, <2>2
    <3> QED
      BY <1>1, <1>2, <1>5, <2>1, <3>1, Zenon
  <2>3. CASE i > Len(s) - n
    <3> DEFINE k == i - (Len(s) - n)
    <3>1. k \in 1..Len(t) /\ n + i = Len(s) + k /\ i = Len(d) + k
      BY <1>1, <1>2, <1>4, <2>3
    <3> HIDE DEF k
    <3> QED
      BY <1>1, <1>5, <2>1, <3>1
  <2> QED
    BY <2>2, <2>3
<1>8. l = r
  BY <1>4, <1>5, <1>6, <1>7, SameSeq, Zenon
<1> QED
  BY <1>8 DEF l, r, c, d

\* Reading nothing, reading everything, and the empty message.
LEMMA Ends ==
  ASSUME NEW S, NEW s \in Seq(S)
  PROVE  Drop(s, 0) = s /\ Drop(s, Len(s)) = <<>> /\ s \o <<>> = s /\ <<>> \o s = s
BY DEF Drop

\* Reading two times.
LEMMA DropTwice ==
  ASSUME NEW S, NEW s \in Seq(S), NEW n \in 0..Len(s), NEW m \in 0..(Len(s) - n)
  PROVE  Drop(Drop(s, n), m) = Drop(s, n + m)
<1> DEFINE d == Drop(s, n)  l == Drop(d, m)  r == Drop(s, n + m)
<1>1. d \in Seq(S) /\ Len(d) = Len(s) - n /\ \A i \in 1..(Len(s) - n) : d[i] = s[n + i]
  BY DropIs
<1> HIDE DEF d
<1>2. m \in 0..Len(d) /\ n + m \in 0..Len(s)
  BY <1>1
<1>3. l \in Seq(S) /\ Len(l) = Len(d) - m /\ \A i \in 1..(Len(d) - m) : l[i] = d[m + i]
  BY <1>1, <1>2, DropIs, SMTT(20)
<1>4. /\ r \in Seq(S) /\ Len(r) = Len(s) - (n + m)
      /\ \A i \in 1..(Len(s) - (n + m)) : r[i] = s[(n + m) + i]
  BY <1>2, DropIs, Zenon
<1> HIDE DEF l, r
<1>5. Len(l) = Len(r)
  BY <1>1, <1>3, <1>4
<1>6. ASSUME NEW i \in 1..Len(l)
      PROVE  l[i] = r[i]
  <2>1. i \in 1..(Len(d) - m) /\ m + i \in 1..(Len(s) - n) /\ i \in 1..(Len(s) - (n + m))
        /\ n + (m + i) = (n + m) + i
    BY <1>1, <1>3
  <2> QED
    BY <1>1, <1>3, <1>4, <2>1, Zenon
<1>7. l = r
  BY <1>3, <1>4, <1>5, <1>6, SameSeq, Zenon
<1> QED
  BY <1>7 DEF l, r, d

\* A stretch of the relayed bytes.
LEMMA SegIs ==
  ASSUME NEW a \in Nat, NEW b \in Nat, a <= b
  PROVE  /\ Seg(a, b) \in Seq(Nat) /\ Len(Seg(a, b)) = b - a
         /\ \A i \in 1..(b - a) : Seg(a, b)[i] = a + i
BY DEF Seg

\* An empty stretch.
LEMMA SegEmpty ==
  ASSUME NEW a \in Nat
  PROVE  Seg(a, a) = <<>>
BY DEF Seg

\* Reading from a stretch leaves a later one.
LEMMA SegDrop ==
  ASSUME NEW a \in Nat, NEW b \in Nat, a <= b, NEW n \in 0..(b - a)
  PROVE  Drop(Seg(a, b), n) = Seg(a + n, b)
<1> DEFINE s == Seg(a, b)
<1>1. s \in Seq(Nat) /\ Len(s) = b - a /\ \A i \in 1..(b - a) : s[i] = a + i
  BY SegIs
<1>2. a + n \in Nat /\ a + n <= b
  OBVIOUS
<1>3. /\ Seg(a + n, b) \in Seq(Nat) /\ Len(Seg(a + n, b)) = b - (a + n)
      /\ \A i \in 1..(b - (a + n)) : Seg(a + n, b)[i] = a + n + i
  BY <1>2, SegIs
<1> DEFINE l == Drop(s, n)  r == Seg(a + n, b)
<1> HIDE DEF s
<1>4. n \in 0..Len(s)
  BY <1>1
<1>5. l \in Seq(Nat) /\ Len(l) = Len(s) - n /\ \A i \in 1..(Len(s) - n) : l[i] = s[n + i]
  BY <1>1, <1>4, DropIs, Zenon
<1> HIDE DEF l, r
<1>6. r \in Seq(Nat) /\ Len(l) = Len(r) /\ \A i \in 1..Len(l) : l[i] = r[i]
  BY <1>1, <1>3, <1>5 DEF r
<1>7. l = r
  BY <1>5, <1>6, SameSeq, Zenon
<1> QED
  BY <1>7 DEF s, l, r

\* One more byte is sent.
LEMMA SegGrows ==
  ASSUME NEW a \in Nat, NEW b \in Nat, a <= b
  PROVE  Append(Seg(a, b), b + 1) = Seg(a, b + 1)
BY DEF Seg

\* One more byte is sent behind a message.
LEMMA AppendBehind ==
  ASSUME NEW S, NEW s \in Seq(S), NEW t \in Seq(S), NEW x \in S
  PROVE  Append(s \o t, x) = s \o Append(t, x)
OBVIOUS

\* Concatenation is associative.
LEMMA ConcatAssoc ==
  ASSUME NEW S, NEW r \in Seq(S), NEW s \in Seq(S), NEW t \in Seq(S)
  PROVE  r \o (s \o t) = (r \o s) \o t
OBVIOUS

\* Appending is concatenating.
LEMMA AppendIs ==
  ASSUME NEW S, NEW s \in Seq(S), NEW x
  PROVE  Append(s, x) = s \o <<x>>
OBVIOUS

Numbers == Seq(Nat)

\* Concatenation of numbers is associative.
LEMMA NumbersAssoc ==
  ASSUME NEW r \in Numbers, NEW s \in Numbers, NEW t \in Numbers
  PROVE  r \o (s \o t) = (r \o s) \o t
<1> DEFINE S == Nat
<1>1. r \in Seq(S) /\ s \in Seq(S) /\ t \in Seq(S)
  BY Zenon DEF Numbers
<1> HIDE DEF S
<1> QED
  BY <1>1, ConcatAssoc

\* The same of numbers: one more is sent behind a message.
LEMMA NumberBehind ==
  ASSUME NEW s \in Numbers, NEW t \in Numbers, NEW x, <<x>> \in Numbers
  PROVE  Append(s \o t, x) = s \o Append(t, x)
<1>1. s \o t \in Seq(Nat)
  BY DEF Numbers
<1>2. Append(s \o t, x) = (s \o t) \o <<x>>
  BY <1>1, AppendIs, Zenon
<1>3. Append(t, x) = t \o <<x>>
  BY AppendIs, Zenon DEF Numbers
<1>4. s \o (t \o <<x>>) = (s \o t) \o <<x>>
  BY NumbersAssoc, Zenon
<1> QED
  BY <1>2, <1>3, <1>4, Zenon

\* The byte that is received next continues the stream.
LEMMA ReceivedGrows ==
  ASSUME NEW got \in Seq(Nat), NEW lost \in Nat, Received(got, lost)
  PROVE  /\ Append(got, lost + Len(got) + 1) \in Seq(Nat)
         /\ Len(Append(got, lost + Len(got) + 1)) = Len(got) + 1
         /\ Received(Append(got, lost + Len(got) + 1), lost)
BY DEF Received

-------------------------------------------------------------------------------
(***************************************************************************)
(* Targets, logins and their encodings.                                    *)
(***************************************************************************)
\* A message of three parts, and where its parts are.
LEMMA Layout ==
  ASSUME NEW S, NEW a \in Seq(S), NEW b \in Seq(S), NEW c \in Seq(S)
  PROVE  LET s == a \o b \o c
             n == Len(a) + Len(b)
         IN /\ s \in Seq(S) /\ Len(s) = n + Len(c)
            /\ \A i \in 1..Len(a) : s[i] = a[i]
            /\ SubSeq(s, Len(a) + 1, n) = b
            /\ SubSeq(s, n + 1, n + Len(c)) = c
OBVIOUS

IsTarget(t) ==
  /\ t = [type |-> t.type, host |-> t.host, port |-> t.port]
  /\ t.type \in {1, 2, 3} /\ t.host \in Seq(Nat) /\ t.port \in {0, B + 2}
  /\ t.type = 1 => Len(t.host) = 4
  /\ t.type = 2 => Len(t.host) = Ip6Len

\* The targets are numeric addresses of their length, and names.
LEMMA TargetIs ==
  ASSUME NEW t \in Targets
  PROVE  IsTarget(t)
<1>1. \A n \in Nat : Text(n) \in Seq(Nat)
  BY DEF Text
<1>2. ASSUME NEW type \in {1, 2, 3}, NEW host \in Seq(Nat), NEW u \in Target(type, host),
             type = 1 => Len(host) = 4, type = 2 => Len(host) = Ip6Len
      PROVE  IsTarget(u)
  BY <1>2 DEF Target, IsTarget
<1>3. CASE t \in Target(1, <<1, 2, 3, 4>>)
  <2>1. <<1, 2, 3, 4>> \in Seq(Nat) /\ Len(<<1, 2, 3, 4>>) = 4
    OBVIOUS
  <2>2. PICK host \in Seq(Nat) : Len(host) = 4 /\ t \in Target(1, host)
    BY <1>3, <2>1, Zenon
  <2> QED
    BY <2>2 DEF Target, IsTarget
<1>4. CASE t \in Target(2, [i \in 1..Ip6Len |-> i])
  <2>1. [i \in 1..Ip6Len |-> i] \in Seq(Nat) /\ Len([i \in 1..Ip6Len |-> i]) = Ip6Len
    BY DEF Ip6Len
  <2>2. PICK host \in Seq(Nat) : Len(host) = Ip6Len /\ t \in Target(2, host)
    BY <1>4, <2>1, Zenon
  <2> QED
    BY <2>2 DEF Target, IsTarget
<1>5. CASE t \in Target(3, Quad)
  <2>1. Quad \in Seq(Nat)
    BY DEF Quad
  <2> QED
    BY <1>5, <2>1 DEF Target, IsTarget
<1>6. CASE \E n \in NameLens \cup {1} : t \in Target(3, Text(n))
  BY <1>1, <1>2, <1>6, LensAssumption
<1> QED
  BY <1>3, <1>4, <1>5, <1>6 DEF Targets

\* A port comes back from its two bytes.
LEMMA PortBack ==
  ASSUME NEW p \in {0, B + 2}
  PROVE  /\ PortBytes(p) \in Seq(Nat) /\ Len(PortBytes(p)) = 2
         /\ PortOf(PortBytes(p)) = p
<1>1. (0 \div B) = 0 /\ (0 % B) = 0 /\ ((B + 2) \div B) = 1 /\ ((B + 2) % B) = 2
  BY ByteAssumption
<1> QED
  BY <1>1, ByteAssumption DEF PortBytes, PortOf

Prefix(t) ==
  CASE t.type = 1 -> <<1>> [] t.type = 2 -> <<4>>
    [] t.type = 3 -> <<3, Least(B - 1, Len(t.host))>> [] OTHER -> <<t.type>>

\* A request: its fixed fields and the kind of the address, then the address itself.
LEMMA RequestShape ==
  ASSUME NEW t, NEW cmd \in {1, 2, 3}, IsTarget(t)
  PROVE  LET pre == <<5, cmd, 0>> \o Prefix(t) IN
         /\ pre \in Seq(Nat)
         /\ <<5, cmd, 0>> \o Socks5Address(t) = pre \o t.host \o PortBytes(t.port)
         /\ pre[1] = 5 /\ pre[2] = cmd
         /\ t.type = 1 => Len(pre) = 4 /\ pre[4] = 1
         /\ t.type = 2 => Len(pre) = 4 /\ pre[4] = 4
         /\ t.type = 3 => Len(pre) = 5 /\ pre[4] = 3 /\ pre[5] = Least(B - 1, Len(t.host))
<1> DEFINE a == <<5, cmd, 0>>  c == Prefix(t)  h == t.host  q == PortBytes(t.port)
<1>1. h \in Seq(Nat) /\ q \in Seq(Nat)
  BY PortBack DEF IsTarget
<1>2. a \in Seq(Nat) /\ Len(a) = 3 /\ a[1] = 5 /\ a[2] = cmd
  OBVIOUS
<1>3. Least(B - 1, Len(h)) \in Nat
  BY <1>1, ByteAssumption DEF Least
<1>4. /\ c \in Seq(Nat)
      /\ t.type = 1 => Len(c) = 1 /\ c[1] = 1
      /\ t.type = 2 => Len(c) = 1 /\ c[1] = 4
      /\ t.type = 3 => Len(c) = 2 /\ c[1] = 3 /\ c[2] = Least(B - 1, Len(h))
  BY <1>3 DEF Prefix, IsTarget
<1>5. Socks5Address(t) = (c \o h) \o q
  BY Zenon DEF Socks5Address, Prefix
<1> DEFINE pre == a \o c
<1> HIDE DEF a, c, h, q
<1>6. a \in Seq(Nat) /\ c \in Seq(Nat)
  BY <1>2, <1>4
<1>7. c \o h \in Seq(Nat)
  BY <1>1, <1>6, ConcatIs
<1>8. a \o ((c \o h) \o q) = (a \o (c \o h)) \o q
  <2> DEFINE x == c \o h
  <2>1. a \in Seq(Nat) /\ x \in Seq(Nat) /\ q \in Seq(Nat)
    BY <1>1, <1>6, <1>7
  <2> HIDE DEF x
  <2>2. a \o (x \o q) = (a \o x) \o q
    BY <2>1, NumbersAssoc, Zenon DEF Numbers
  <2> QED
    BY <2>2 DEF x
<1>9. a \o (c \o h) = (a \o c) \o h
  BY <1>1, <1>6, ConcatAssoc, SMTT(20)
<1>10. /\ pre \in Seq(Nat) /\ Len(pre) = Len(a) + Len(c)
       /\ \A i \in 1..Len(a) : pre[i] = a[i]
       /\ \A i \in 1..Len(c) : pre[Len(a) + i] = c[i]
  BY <1>6, ConcatIs
<1> HIDE DEF pre
<1>11. pre[1] = 5 /\ pre[2] = cmd
  BY <1>2, <1>10
<1>12. /\ t.type = 1 => Len(pre) = 4 /\ pre[4] = 1
       /\ t.type = 2 => Len(pre) = 4 /\ pre[4] = 4
       /\ t.type = 3 => Len(pre) = 5 /\ pre[4] = 3 /\ pre[5] = Least(B - 1, Len(h))
  <2>1. Len(c) >= 1 => pre[4] = c[1]
    BY <1>2, <1>6, <1>10
  <2>2. Len(c) >= 2 => pre[5] = c[2]
    BY <1>2, <1>6, <1>10
  <2>3. Len(pre) = 3 + Len(c)
    BY <1>2, <1>10
  <2>4. ASSUME t.type \in {1, 2}
        PROVE  Len(pre) = 4 /\ pre[4] = c[1]
    <3>1. Len(c) = 1
      BY <1>4, <2>4, Zenon
    <3> QED
      BY <2>1, <2>3, <3>1
  <2>5. ASSUME t.type = 3
        PROVE  Len(pre) = 5 /\ pre[4] = c[1] /\ pre[5] = c[2]
    <3>1. Len(c) = 2
      BY <1>4, <2>5, Zenon
    <3> QED
      BY <2>1, <2>2, <2>3, <3>1
  <2> QED
    BY <1>4, <2>4, <2>5
<1>13. a \o Socks5Address(t) = pre \o h \o q
  BY <1>5, <1>8, <1>9, Zenon DEF pre
<1> QED
  BY <1>10, <1>11, <1>12, <1>13, Zenon DEF a, c, h, q, pre

\* Socks5Inbound reads a request whose name fits to its end, and finds the target
\* in it that Socks5Outbound wrote.
LEMMA RequestBack ==
  ASSUME NEW t, NEW cmd \in {1, 3}, IsTarget(t), t.type # 3 \/ Len(t.host) < B
  PROVE  LET s == <<5, cmd, 0>> \o Socks5Address(t) IN
         /\ s \in Seq(Nat) /\ RequestLen(s) = Len(s) /\ RequestTarget(s) = t
<1> DEFINE pre == <<5, cmd, 0>> \o Prefix(t)  s == <<5, cmd, 0>> \o Socks5Address(t)
           k == Len(pre)  n == k + Len(t.host)
<1>1. /\ pre \in Seq(Nat) /\ s = pre \o t.host \o PortBytes(t.port)
      /\ pre[1] = 5 /\ pre[2] = cmd
      /\ t.type = 1 => Len(pre) = 4 /\ pre[4] = 1
      /\ t.type = 2 => Len(pre) = 4 /\ pre[4] = 4
      /\ t.type = 3 => Len(pre) = 5 /\ pre[4] = 3 /\ pre[5] = Least(B - 1, Len(t.host))
  <2>1. cmd \in {1, 2, 3}
    OBVIOUS
  <2> QED
    BY <2>1, RequestShape, Zenon
<1>2. /\ t.host \in Seq(Nat) /\ t.type \in {1, 2, 3} /\ t.port \in {0, B + 2}
      /\ t.type = 1 => Len(t.host) = 4
      /\ t.type = 2 => Len(t.host) = Ip6Len
  BY DEF IsTarget
<1>3. /\ PortBytes(t.port) \in Seq(Nat) /\ Len(PortBytes(t.port)) = 2
      /\ PortOf(PortBytes(t.port)) = t.port
  BY <1>2, PortBack
<1>4. t.type = 3 => Least(B - 1, Len(t.host)) = Len(t.host)
  BY <1>2, ByteAssumption DEF Least
<1> HIDE DEF pre, s
<1>5. /\ s \in Seq(Nat) /\ Len(s) = n + 2
      /\ \A i \in 1..k : s[i] = pre[i]
      /\ SubSeq(s, k + 1, n) = t.host
      /\ SubSeq(s, n + 1, n + 2) = PortBytes(t.port)
  <2> DEFINE h == t.host  q == PortBytes(t.port)
  <2>1. pre \in Seq(Nat) /\ h \in Seq(Nat) /\ q \in Seq(Nat)
    BY <1>1, <1>2, <1>3
  <2> HIDE DEF h, q
  <2> DEFINE m == Len(pre) + Len(h)  z == pre \o h \o q
  <2>2. /\ z \in Seq(Nat) /\ Len(z) = m + Len(q)
        /\ \A i \in 1..Len(pre) : z[i] = pre[i]
        /\ SubSeq(z, Len(pre) + 1, m) = h
        /\ SubSeq(z, m + 1, m + Len(q)) = q
    BY <2>1, Layout
  <2>3. Len(q) = 2 /\ s = z /\ m = n /\ h = t.host
    BY <1>1, <1>3 DEF h, q
  <2> HIDE DEF m, z
  <2> QED
    BY <2>2, <2>3, Zenon DEF q
<1>6. /\ k \in {4, 5} /\ Len(t.host) \in Nat /\ s[1] = 5 /\ s[2] = cmd /\ s[4] = pre[4]
      /\ k = 5 => s[5] = pre[5]
  <2>1. k \in {4, 5} /\ Len(t.host) \in Nat
    BY <1>1, <1>2
  <2>2. s[1] = pre[1] /\ s[2] = pre[2] /\ s[4] = pre[4] /\ (k = 5 => s[5] = pre[5])
    BY <1>5, <2>1, SMTT(20)
  <2>3. pre[1] = 5 /\ pre[2] = cmd
    BY <1>1
  <2> QED
    BY <2>1, <2>2, <2>3
<1>7. /\ t.type = 1 => k = 4 /\ s[4] = 1 /\ n = 8
      /\ t.type = 2 => k = 4 /\ s[4] = 4 /\ n = 4 + Ip6Len
      /\ t.type = 3 => k = 5 /\ s[4] = 3 /\ s[5] = Len(t.host)
  <2>1. ASSUME t.type = 1 PROVE k = 4 /\ s[4] = 1 /\ n = 8
    <3>1. Len(pre) = 4 /\ pre[4] = 1 /\ Len(t.host) = 4
      BY <1>1, <1>2, <2>1
    <3> QED
      BY <1>6, <3>1
  <2>2. ASSUME t.type = 2 PROVE k = 4 /\ s[4] = 4 /\ n = 4 + Ip6Len
    BY <1>1, <1>2, <1>6, <2>2, Zenon
  <2>3. ASSUME t.type = 3 PROVE k = 5 /\ s[4] = 3 /\ s[5] = Len(t.host)
    BY <1>1, <1>4, <1>6, <2>3, Zenon
  <2> QED
    BY <2>1, <2>2, <2>3
<1> DEFINE m == Len(t.host)
<1>8. RequestLen(s) = n + 2
  <2>0. Len(s) = n + 2 /\ n >= 4 /\ n \in Nat
    BY <1>5, <1>6, SMTT(20)
  <2> HIDE DEF k, n, m
  <2>1. CASE t.type = 1
    BY <1>6, <1>7, <2>0, <2>1 DEF RequestLen
  <2>2. CASE t.type = 2
    BY <1>6, <1>7, <2>0, <2>2 DEF RequestLen, Ip6Len
  <2>3. CASE t.type = 3
    <3>1. s[5] = m /\ s[4] = 3 /\ n = 5 + m /\ m \in Nat
      BY <1>6, <1>7, <2>3 DEF m, n
    <3> QED
      BY <1>6, <2>0, <3>1 DEF RequestLen
  <2> QED
    BY <1>2, <2>1, <2>2, <2>3
<1>11. /\ (IF s[4] = 3 THEN 6 ELSE 5) = k + 1
      /\ (CASE s[4] = 1 -> 1 [] s[4] = 4 -> 2 [] OTHER -> 3) = t.type
  <2> HIDE DEF k, n
  <2>1. CASE t.type = 1
    BY <1>7, <2>1
  <2>2. CASE t.type = 2
    BY <1>7, <2>2
  <2>3. CASE t.type = 3
    BY <1>7, <2>3
  <2> QED
    BY <1>2, <2>1, <2>2, <2>3
<1>9. /\ (n + 2) - 2 = n /\ (n + 2) - 1 = n + 1
  BY <1>6
<1>10. RequestTarget(s) = [type |-> t.type, host |-> t.host, port |-> t.port]
  BY <1>3, <1>5, <1>8, <1>9, <1>11, Zenon DEF RequestTarget
<1> QED
  BY <1>5, <1>8, <1>10, Zenon DEF IsTarget, s

\* The bytes of a login: the version, a length byte and the user, a length byte and
\* the password.
LEMMA LoginShape ==
  ASSUME NEW u \in Nat, NEW p \in Nat, NEW v \in {1, 5}
  PROVE  LET c == Login(<<Text(u), Text(p)>>, v) IN
         /\ c \in Seq(Nat) /\ Len(c) = 3 + u + p /\ c[1] = v /\ c[2] = (u % B)
         /\ c[3 + u] = (p % B)
<1> DEFINE m == u % B  l == p % B
           a == <<v, m>>  tu == Text(u)  q == <<l>>  tp == Text(p)
           x == a \o tu  y == x \o q  c == y \o tp
<1>1. m \in Nat /\ l \in Nat
  BY ByteAssumption
<1>3. tu \in Seq(Nat) /\ Len(tu) = u
  BY DEF Text
<1>5. tp \in Seq(Nat) /\ Len(tp) = p
  BY DEF Text
<1>6. Login(<<Text(u), Text(p)>>, v) = c
  <2>1. <<tu, tp>>[1] = tu /\ <<tu, tp>>[2] = tp
    OBVIOUS
  <2> HIDE DEF tu, tp
  <2>2. Login(<<tu, tp>>, v) = c
    BY <1>1, <1>3, <1>5, <2>1 DEF Login
  <2> QED
    BY <2>2, Zenon DEF tu, tp
<1> HIDE DEF m, l
<1>2. a \in Seq(Nat) /\ Len(a) = 2 /\ a[1] = v /\ a[2] = m
  BY <1>1
<1>4. q \in Seq(Nat) /\ Len(q) = 1 /\ q[1] = l
  BY <1>1
<1> HIDE DEF a, tu, q, tp
<1>7. x \in Seq(Nat) /\ Len(x) = 2 + u /\ x[1] = v /\ x[2] = m
  <2>1. a \in Seq(Nat) /\ tu \in Seq(Nat)
    BY <1>2, <1>3
  <2>2. /\ x \in Seq(Nat) /\ Len(x) = Len(a) + Len(tu)
        /\ \A i \in 1..Len(a) : x[i] = a[i]
    BY <2>1, ConcatIs
  <2> HIDE DEF x
  <2> QED
    BY <1>2, <1>3, <2>2
<1> HIDE DEF x
<1>8. /\ y \in Seq(Nat) /\ Len(y) = 3 + u /\ y[1] = v /\ y[2] = m
      /\ y[3 + u] = l
  <2>1. x \in Seq(Nat) /\ q \in Seq(Nat)
    BY <1>4, <1>7
  <2>2. /\ y \in Seq(Nat) /\ Len(y) = Len(x) + Len(q)
        /\ \A i \in 1..Len(x) : y[i] = x[i]
        /\ \A i \in 1..Len(q) : y[Len(x) + i] = q[i]
    BY <2>1, ConcatIs
  <2> HIDE DEF y
  <2>3. Len(y) = 3 + u /\ \A i \in 1..(2 + u) : y[i] = x[i]
    BY <1>4, <1>7, <2>2
  <2>4. y[(2 + u) + 1] = q[1]
    BY <1>4, <1>7, <2>2
  <2>5. (2 + u) + 1 = 3 + u /\ q[1] = l
    BY <1>4
  <2>6. y[1] = v /\ y[2] = m
    BY <1>7, <2>3
  <2> QED
    BY <2>2, <2>3, <2>4, <2>5, <2>6
<1> HIDE DEF y
<1>9. /\ c \in Seq(Nat) /\ Len(c) = 3 + u + p /\ c[1] = v /\ c[2] = m
      /\ c[3 + u] = l
  <2>1. y \in Seq(Nat) /\ tp \in Seq(Nat)
    BY <1>5, <1>8
  <2>2. /\ c \in Seq(Nat) /\ Len(c) = Len(y) + Len(tp)
        /\ \A i \in 1..Len(y) : c[i] = y[i]
    BY <2>1, ConcatIs
  <2> HIDE DEF c
  <2> QED
    BY <1>5, <1>8, <2>2
<1> HIDE DEF c
<1> QED
  BY <1>6, <1>9, Zenon DEF m, l

\* What Socks5Inbound finds in a login are a user of w bytes and a password of q.
Reads(c, w, q) ==
  SubSeq(c, 3, 2 + c[2]) = Text(w) /\ SubSeq(c, 4 + c[2], LoginLen(c)) = Text(q)

\* What Socks5Inbound finds in a login that fits is the login that was sent, and it
\* reads it to its end.
LEMMA LoginBack ==
  ASSUME NEW u \in Nat, NEW p \in Nat, u < B, p < B, NEW w \in Nat, NEW q \in Nat,
         Reads(Login(<<Text(u), Text(p)>>, 1), w, q)
  PROVE  /\ u = w /\ p = q
         /\ LoginLen(Login(<<Text(u), Text(p)>>, 1)) = Len(Login(<<Text(u), Text(p)>>, 1))
<1> DEFINE c == Login(<<Text(u), Text(p)>>, 1)
<1>0. SubSeq(c, 3, 2 + c[2]) = Text(w) /\ SubSeq(c, 4 + c[2], LoginLen(c)) = Text(q)
  BY SMTT(20) DEF Reads
<1>1. /\ c \in Seq(Nat) /\ Len(c) = 3 + u + p /\ c[1] = 1 /\ c[2] = (u % B)
      /\ c[3 + u] = (p % B)
  BY LoginShape, Zenon
<1> HIDE DEF c
<1>2. Len(Text(w)) = w /\ Len(Text(q)) = q
  BY DEF Text
<1>3. (u % B) = u /\ (p % B) = p
  BY ByteAssumption
<1>4. c[1] = 1 /\ c[2] = u /\ c[3 + u] = p /\ Len(c) = 3 + u + p
  BY <1>1, <1>3, Zenon
<1>5. LoginLen(c) = 3 + u + p
  <2>1. ~(Len(c) < 2) /\ ~(Len(c) < 3 + u)
    BY <1>4
  <2> QED
    BY <1>4, <2>1 DEF LoginLen
<1>6. Len(SubSeq(c, 3, 2 + u)) = u /\ Len(SubSeq(c, 4 + u, 3 + u + p)) = p
  <2>1. c \in Seq(Nat) /\ 2 + u <= Len(c) /\ 3 + u + p <= Len(c)
    BY <1>1
  <2> QED
    BY <2>1
<1>7. u = w /\ p = q /\ LoginLen(c) = Len(c)
  BY <1>0, <1>2, <1>4, <1>5, <1>6, Zenon
<1> QED
  BY <1>7 DEF c

\* parseBinary finds in toBinary's bytes the target they were made of, or (an empty
\* name) refuses them.
LEMMA BinaryBack ==
  ASSUME NEW t, IsTarget(t)
  PROVE  /\ toBinary(t) \in Seq(Nat)
         /\ (t.type # 3 \/ Len(t.host) < B) => parseBinary(toBinary(t)) \in {t, NoTarget}
<1> DEFINE h == t.host  n == Least(Len(h), B - 1)  a == <<t.type, n>>  m == SubSeq(h, 1, n)
           q == PortBytes(t.port)  s == a \o m \o q
<1>1. h \in Seq(Nat) /\ t.type \in {1, 2, 3} /\ t.port \in {0, B + 2}
  BY DEF IsTarget
<1>2. n \in Nat /\ n <= Len(h) /\ n <= B - 1
  BY <1>1, ByteAssumption DEF Least
<1> HIDE DEF h, n
<1>3. m \in Seq(Nat) /\ Len(m) = n
  BY <1>1, <1>2
<1>4. a \in Seq(Nat) /\ Len(a) = 2 /\ a[1] = t.type /\ a[2] = n
  BY <1>1, <1>2
<1>5. q \in Seq(Nat) /\ Len(q) = 2 /\ PortOf(q) = t.port
  BY <1>1, PortBack
<1>6. toBinary(t) = s
  BY Zenon DEF toBinary, h, n
<1> HIDE DEF a, m, q
<1>7. a \in Seq(Nat) /\ m \in Seq(Nat) /\ q \in Seq(Nat)
  BY <1>3, <1>4, <1>5
<1> DEFINE k == Len(a) + Len(m)
<1>8. /\ s \in Seq(Nat) /\ Len(s) = k + Len(q)
      /\ \A i \in 1..Len(a) : s[i] = a[i]
      /\ SubSeq(s, Len(a) + 1, k) = m
      /\ SubSeq(s, k + 1, k + Len(q)) = q
  BY <1>7
<1> HIDE DEF s
<1>9. s \in Seq(Nat) /\ Len(s) = n + 4 /\ s[1] = t.type /\ s[2] = n
  BY <1>2, <1>3, <1>4, <1>5, <1>8
<1>10. SubSeq(s, 3, n + 2) = m /\ SubSeq(s, n + 3, n + 4) = q
  <2>1. Len(a) + 1 = 3 /\ k = n + 2 /\ k + 1 = n + 3 /\ k + Len(q) = n + 4
    BY <1>2, <1>3, <1>4, <1>5
  <2> QED
    BY <1>8, <2>1, Zenon
<1>11. ASSUME t.type # 3 \/ Len(t.host) < B
       PROVE  parseBinary(s) \in {t, NoTarget}
  <2>1. (t.type = 1 => Len(h) = 4) /\ (t.type = 2 => Len(h) = 5)
    BY DEF IsTarget, Ip6Len, h
  <2>2. n = Len(h)
    <3>1. Len(h) < B /\ Len(h) \in Nat
      <4>1. Len(h) \in Nat /\ B \in Nat /\ B >= 8
        BY <1>1, ByteAssumption
      <4>2. t.type # 3 \/ Len(h) < B
        BY <1>11 DEF h
      <4>3. t.type # 3 => Len(h) = 4 \/ Len(h) = 5
        BY <1>1, <2>1
      <4>4. \A x, b \in Nat : b >= 8 /\ (x = 4 \/ x = 5) => x < b
        OBVIOUS
      <4> QED
        BY <4>1, <4>2, <4>3, <4>4, Zenon
    <3> QED
      BY <3>1, ByteAssumption DEF Least, n
  <2>3. m = h
    BY <1>1, <2>2 DEF m
  <2>4. PortOf(q) = t.port
    BY <1>5
  <2>5. t = [type |-> t.type, host |-> h, port |-> t.port]
    BY DEF IsTarget, h
  <2>6. parseBinary(s) \in {NoTarget, [type |-> s[1], host |-> SubSeq(s, 3, s[2] + 2),
                                       port |-> PortOf(SubSeq(s, s[2] + 3, s[2] + 4))]}
    BY DEF parseBinary
  <2>7. parseBinary(s) \in {NoTarget, [type |-> t.type, host |-> h, port |-> t.port]}
    BY <1>9, <1>10, <2>3, <2>4, <2>6, Zenon
  <2> QED
    BY <2>5, <2>7
<1> QED
  BY <1>6, <1>9, <1>11

Stranger == [NoTarget EXCEPT !.type = 7]
Creds == {<<Text(u), Text(p)>> : u \in Nat, p \in Nat}

HopOk ==
  /\ hop.kind \in {"socks5", "http", "link"} /\ hop.by \in {"outbound", "app"}
  /\ hop.cmd \in {1, 2, 3} /\ hop.target \in Targets \cup {Stranger}
  /\ hop.reply \in {Success} \cup OtherReplies
  /\ hop.login \in Creds /\ hop.slogin \in Creds
  /\ hop.by = "app" /\ hop.kind = "socks5" => hop.greeting \in Greetings
  /\ hop.kind # "socks5" =>
       hop.login = Anonymous /\ hop.slogin = Anonymous /\ hop.target \in Targets

\* The configurations a hop may have.
LEMMA HopIs ==
  ASSUME hop \in Hops
  PROVE  HopOk
<1>1. Logins \subseteq Creds
  BY LensAssumption DEF Logins, Creds
<1>2. Text(0) = <<>>
  BY DEF Text
<1>3. Anonymous \in Creds /\ <<Text(1), <<>>>> \in Creds
  BY <1>2 DEF Anonymous, Creds
<1>4. Target(3, Text(1)) \subseteq Targets
  BY DEF Targets
<1>5. CASE hop \in OwnHops
  BY <1>1, <1>5 DEF HopOk, Hop, OwnHops
<1>6. CASE hop \in OtherHops
  BY <1>3, <1>4, <1>6 DEF HopOk, Hop, OtherHops
<1>7. CASE hop \in AppHops
  <2>1. \E t \in Target(3, Text(1)) \cup {Stranger}, l \in Logins, sl \in Logins,
           g \in Greetings, m \in Commands : hop = Hop("socks5", "app", m, t, l, sl, g, Success)
    BY <1>7 DEF AppHops, Stranger
  <2> QED
    BY <1>1, <1>4, <2>1 DEF HopOk, Hop, Commands
<1>8. CASE hop \in HttpHops
  BY <1>3, <1>8 DEF HopOk, Hop, HttpHops
<1>9. CASE hop \in LinkHops
  BY <1>3, <1>9 DEF HopOk, Hop, LinkHops
<1> QED
  BY <1>5, <1>6, <1>7, <1>8, <1>9, Zenon DEF Hops

\* What is known of a reply: the length that its fields announce is its length.
LEMMA ReplyIs ==
  ASSUME NEW r \in {Success} \cup OtherReplies
  PROVE  /\ r \in Seq(Nat) /\ Len(r) >= 4
         /\ r[4] = 1 => Len(r) = 10
         /\ r[4] = 4 => Len(r) = 4 + Ip6Len + 2
         /\ r[4] = 3 => Len(r) >= 5 /\ Len(r) = 5 + r[5] + 2
<1>1. CASE r = Success
  BY <1>1 DEF Success
<1>2. CASE r = <<5, 0, 0, 4>> \o Text(Ip6Len + 2)
  <2> DEFINE a == <<5, 0, 0, 4>>  b == Text(Ip6Len + 2)
  <2>1. a \in Seq(Nat) /\ Len(a) = 4 /\ a[4] = 4
    OBVIOUS
  <2>2. b \in Seq(Nat) /\ Len(b) = Ip6Len + 2
    BY DEF Text, Ip6Len
  <2> HIDE DEF a, b
  <2>3. a \o b \in Seq(Nat) /\ Len(a \o b) = 4 + Ip6Len + 2 /\ (a \o b)[4] = 4
    <3>1. a \in Seq(Nat) /\ b \in Seq(Nat)
      BY <2>1, <2>2
    <3>2. /\ a \o b \in Seq(Nat) /\ Len(a \o b) = Len(a) + Len(b)
          /\ \A i \in 1..Len(a) : (a \o b)[i] = a[i]
      BY <3>1, ConcatIs
    <3> QED
      BY <2>1, <2>2, <3>2 DEF Ip6Len
  <2> QED
    BY <1>2, <2>3 DEF a, b, Ip6Len
<1>3. CASE r = <<5, 0, 0, 3, 2, 6, 6, 0, 0>>
  BY <1>3
<1>4. CASE r = <<5, 0, 0, 7>>
  BY <1>4
<1>5. CASE r = <<5, 1, 0, 1, 0, 0, 0, 0, 0, 0>>
  BY <1>5
<1> QED
  BY <1>1, <1>2, <1>3, <1>4, <1>5, Zenon DEF OtherReplies

\* A greeting that Socks5Inbound reads past its first two bytes is read to its end.
LEMMA GreetingIs ==
  ASSUME NEW g \in Greetings \cup {<<5, 2, 0, 2>>, <<5, 2, 0>>}
  PROVE  /\ g \in Seq(Nat) /\ HelloLen(g) \in Nat
         /\ HelloLen(g) > 2 /\ Len(g) >= HelloLen(g) => HelloLen(g) = Len(g)
<1>1. CASE g \in {<<5, 1, 0>>, <<5, 1, 2>>}
  <2>1. g \in Seq(Nat) /\ Len(g) = 3 /\ g[1] = 5 /\ g[2] = 1
    <3>1. CASE g = <<5, 1, 0>>
      BY <3>1
    <3>2. CASE g = <<5, 1, 2>>
      BY <3>2
    <3> QED
      BY <1>1, <3>1, <3>2, Zenon
  <2> QED
    BY <2>1 DEF HelloLen
<1>2. CASE g \in {<<5, 2, 2, 0>>, <<5, 2, 0, 2>>}
  <2>1. g \in Seq(Nat) /\ Len(g) = 4 /\ g[1] = 5 /\ g[2] = 2
    BY <1>2
  <2> QED
    BY <2>1 DEF HelloLen
<1>3. CASE g = <<5, 0>>
  <2>1. g \in Seq(Nat) /\ Len(g) = 2 /\ g[1] = 5 /\ g[2] = 0
    BY <1>3
  <2> QED
    BY <2>1 DEF HelloLen
<1>4. CASE g = <<4, 1, 0>>
  <2>1. g \in Seq(Nat) /\ g[1] = 4
    BY <1>4
  <2> QED
    BY <2>1 DEF HelloLen
<1>5. CASE g = <<5, 2, 0>>
  <2>1. g \in Seq(Nat) /\ Len(g) = 3 /\ g[1] = 5 /\ g[2] = 2
    BY <1>5
  <2> QED
    BY <2>1 DEF HelloLen
<1> QED
  BY <1>1, <1>2, <1>3, <1>4, <1>5, Zenon DEF Greetings
-------------------------------------------------------------------------------
(***************************************************************************)
(* SOCKS5.                                                                 *)
(***************************************************************************)
\* What depends on the configuration only stays as it is.
LEMMA HopKept ==
  ASSUME hop' = hop
  PROVE  /\ Hello1' = Hello1 /\ Request' = Request
         /\ NeedsLogin' = NeedsLogin /\ LoggedIn' = LoggedIn /\ Fits' = Fits
         /\ LoginFits' = LoginFits
BY Zenon DEF Hello1, Request, NeedsLogin, LoggedIn, Fits, NameFits, LoginFits

\* A step that relays nothing.
LEMMA NothingRelayed ==
  ASSUME relayVars' = relayVars
  PROVE  /\ Flows /\ extra' \in Nat => Flows'
         /\ Quiet /\ req' = req => Quiet'
         /\ DownSeg' = DownSeg
<1>1. /\ upSent' = upSent /\ up' = up /\ downSent' = downSent /\ down' = down
      /\ upLost' = upLost /\ downLost' = downLost
  BY DEF relayVars
<1> QED
  BY <1>1, Zenon DEF Flows, Quiet, DownSeg, Received

\* Where the two coroutines can be together.
LEMMA SocksPlaces ==
  ASSUME SocksInv
  PROVE  /\ cpc \in {"start", "method", "auth", "reply", "length", "skip", "relay", "failed"}
         /\ cpc = "start" => spc = "start"
         /\ cpc = "method" => spc \in {"start", "login", "request", "closed"}
         /\ cpc = "auth" => spc \in {"login", "request", "closed"}
         /\ cpc = "reply" => spc \in {"request", "closed", "relay", "association"}
         /\ cpc \in {"length", "skip", "relay"} => spc \in {"relay", "association"}
BY DEF SocksInv, SocksStart, SocksLogin, SocksRequest, SocksClosed, SocksRelay

\* The invariant at each of the server's places.
LEMMA SocksAt ==
  /\ spc' = "start" /\ SocksStart' => SocksInv'
  /\ spc' = "login" /\ SocksLogin' => SocksInv'
  /\ spc' = "request" /\ SocksRequest' => SocksInv'
  /\ spc' = "closed" /\ SocksClosed' => SocksInv'
  /\ spc' \in {"relay", "association"} /\ SocksRelay' => SocksInv'
BY DEF SocksInv

\* The first message.
LEMMA SocksConnect ==
  ASSUME Flows, SocksInv, HopOk, hop.kind = "socks5", Connect
  PROVE  Flows' /\ SocksInv'
<1>1. /\ spc' = spc /\ hop' = hop /\ s2c' = s2c /\ extra' = extra /\ req' = req
      /\ relayVars' = relayVars
  BY DEF Connect
<1>2. spc = "start" /\ SocksStart
  BY SocksPlaces DEF Connect, SocksInv
<1>3. \/ cpc' = "failed" /\ c2s' = c2s
      \/ cpc' = "method" /\ c2s' = Hello1
  BY DEF Connect, Hello1
<1>4. cpc = "start"
  BY DEF Connect
<1>5. SocksStart'
  BY <1>1, <1>2, <1>3, <1>4, HopKept, NothingRelayed DEF SocksStart
<1> QED
  BY <1>1, <1>2, <1>5, NothingRelayed, SocksAt DEF Flows

\* A request is a sequence of bytes; an unknown kind of address shows in its fourth.
LEMMA RequestSeq ==
  ASSUME HopOk
  PROVE  /\ Request \in Seq(Nat) /\ Len(Request) >= 4
         /\ Request[1] = 5 /\ Request[2] = hop.cmd
         /\ hop.target = Stranger => Request[4] = 7
         /\ hop.target # Stranger => IsTarget(hop.target)
<1> DEFINE t == hop.target
<1>1. CASE t = Stranger
  <2>1. t.type = 7 /\ t.host = <<>> /\ t.port = 0
    BY <1>1 DEF Stranger, NoTarget
  <2>2. PortBytes(0) \in Seq(Nat) /\ Len(PortBytes(0)) = 2
    BY PortBack
  <2> DEFINE q == PortBytes(0)
  <2>3. Socks5Address(t) = <<7>> \o <<>> \o q
    BY <2>1 DEF Socks5Address
  <2> HIDE DEF q
  <2>4. q \in Seq(Nat)
    BY <2>2 DEF q
  <2>5. <<7>> \o <<>> \o q = <<7>> \o q
    BY <2>4
  <2> DEFINE a == <<5, hop.cmd, 0>>  b == <<7>> \o q
  <2>6. b \in Seq(Nat) /\ Len(b) >= 1 /\ b[1] = 7
    BY <2>4
  <2>7. a \in Seq(Nat) /\ Len(a) = 3 /\ a[1] = 5 /\ a[2] = hop.cmd
    BY DEF HopOk
  <2>8. Request = a \o b
    BY <2>3, <2>5 DEF Request
  <2> HIDE DEF a, b
  <2>9. a \in Seq(Nat) /\ b \in Seq(Nat)
    BY <2>6, <2>7
  <2>10. /\ a \o b \in Seq(Nat) /\ Len(a \o b) = Len(a) + Len(b)
         /\ \A i \in 1..Len(a) : (a \o b)[i] = a[i]
         /\ \A i \in 1..Len(b) : (a \o b)[Len(a) + i] = b[i]
    BY <2>9, ConcatIs
  <2>11. (a \o b)[4] = 7 /\ Len(a \o b) >= 4 /\ (a \o b)[1] = 5 /\ (a \o b)[2] = hop.cmd
    BY <2>6, <2>7, <2>10
  <2> QED
    BY <1>1, <2>8, <2>10, <2>11
<1>2. CASE t # Stranger
  <2>1. IsTarget(t) /\ hop.cmd \in {1, 2, 3}
    BY <1>2, TargetIs DEF HopOk
  <2> DEFINE pre == <<5, hop.cmd, 0>> \o Prefix(t)  h == t.host  q == PortBytes(t.port)
  <2>2. /\ pre \in Seq(Nat) /\ pre[1] = 5 /\ pre[2] = hop.cmd
        /\ Request = pre \o h \o q
        /\ t.type = 1 => Len(pre) = 4 /\ pre[4] = 1
        /\ t.type = 2 => Len(pre) = 4 /\ pre[4] = 4
        /\ t.type = 3 => Len(pre) = 5 /\ pre[4] = 3 /\ pre[5] = Least(B - 1, Len(t.host))
    BY <2>1, RequestShape, Zenon DEF Request
  <2>3. h \in Seq(Nat) /\ q \in Seq(Nat) /\ t.type \in {1, 2, 3}
    BY <2>1, PortBack DEF IsTarget
  <2> HIDE DEF pre, h, q
  <2>4. pre \in Seq(Nat) /\ h \in Seq(Nat) /\ q \in Seq(Nat)
    BY <2>2, <2>3
  <2> DEFINE s == pre \o h \o q
  <2>5. /\ s \in Seq(Nat) /\ Len(s) = Len(pre) + Len(h) + Len(q)
        /\ \A i \in 1..Len(pre) : s[i] = pre[i]
    BY <2>4
  <2> HIDE DEF s
  <2>6. Len(pre) = 4 \/ Len(pre) = 5
    BY <2>2, <2>3
  <2>7. Len(s) >= 4 /\ s[1] = pre[1] /\ s[2] = pre[2]
    <3>0. \A n \in Nat : n = 4 \/ n = 5 => 1 \in 1..n /\ 2 \in 1..n /\ n >= 4
      OBVIOUS
    <3>4. Len(h) \in Nat /\ Len(q) \in Nat /\ Len(pre) \in Nat
      BY <2>4
    <3>1. 1 \in 1..Len(pre) /\ 2 \in 1..Len(pre) /\ Len(pre) >= 4
      BY <2>6, <3>0, <3>4, Zenon
    <3>2. s[1] = pre[1] /\ s[2] = pre[2]
      BY <2>5, <3>1, Zenon
    <3>3. Len(s) = Len(pre) + Len(h) + Len(q)
      BY <2>5
    <3> QED
      BY <3>1, <3>2, <3>3, <3>4
  <2>8. Request = s /\ pre[1] = 5 /\ pre[2] = hop.cmd
    BY <2>2 DEF s
  <2> QED
    BY <1>2, <2>1, <2>5, <2>7, <2>8
<1> QED
  BY <1>1, <1>2

\* The methods, the login and the refusals.
LEMMA SocksMethod ==
  ASSUME Flows, SocksInv, HopOk, hop.kind = "socks5", Method
  PROVE  Flows' /\ SocksInv'
<1>1. /\ spc' = spc /\ hop' = hop /\ extra' = extra /\ req' = req /\ relayVars' = relayVars
      /\ cpc = "method" /\ Len(s2c) >= 2 /\ s2c' = Drop(s2c, 2)
  BY DEF Method, Client
<1>2. Flows' /\ (Quiet => Quiet')
  BY <1>1, NothingRelayed DEF Flows
<1>3. spc \in {"start", "login", "request", "closed"}
  BY <1>1, SocksPlaces
<1>4. CASE spc = "start"
  BY <1>1, <1>4 DEF SocksInv, SocksStart
<1>5. CASE spc = "login"
  <2>1. SocksLogin /\ c2s = <<>> /\ s2c = <<5, 2>>
    BY <1>1, <1>5 DEF SocksInv, SocksLogin
  <2>2. s2c[1] = 5 /\ s2c[2] = 2 /\ s2c' = <<>> /\ 2 # B - 1
    BY <1>1, <2>1, ByteAssumption DEF Drop
  <2>3. cpc' = "auth" /\ \E v \in {1, 5} : c2s' = c2s \o Login(hop.login, v)
    BY <2>2, Zenon DEF Method, Client
  <2>4. PICK v \in {1, 5} : c2s' = c2s \o Login(hop.login, v)
    BY <2>3
  <2>5. Login(hop.login, v) \in Seq(Nat)
    <3>1. PICK u \in Nat, p \in Nat : hop.login = <<Text(u), Text(p)>>
      BY DEF HopOk, Creds
    <3> QED
      BY <3>1, LoginShape, Zenon
  <2>6. c2s' = Login(hop'.login, v)
    BY <1>1, <2>1, <2>4, <2>5
  <2>7. SocksLogin'
    BY <1>1, <1>2, <2>1, <2>2, <2>3, <2>6, HopKept DEF SocksLogin
  <2> QED
    BY <1>1, <1>2, <1>5, <2>7, SocksAt
<1>6. CASE spc = "request"
  <2>1. SocksRequest /\ c2s = <<>> /\ s2c = <<5, 0>>
    BY <1>1, <1>6 DEF SocksInv, SocksRequest
  <2>2. s2c[1] = 5 /\ s2c[2] = 0 /\ s2c' = <<>>
    BY <1>1, <2>1 DEF Drop
  <2>3. cpc' = "reply" /\ c2s' = c2s \o Request
    BY <2>2, ByteAssumption DEF Method, Client
  <2>4. c2s' = Request
    BY <2>1, <2>3, RequestSeq
  <2>5. SocksRequest'
    BY <1>1, <1>2, <2>1, <2>2, <2>3, <2>4, HopKept DEF SocksRequest
  <2> QED
    BY <1>1, <1>2, <1>6, <2>5, SocksAt
<1>7. CASE spc = "closed"
  <2>1. SocksClosed /\ s2c = <<5, B - 1>>
    BY <1>1, <1>7 DEF SocksInv, SocksClosed
  <2>2. s2c[1] = 5 /\ s2c[2] = B - 1
    BY <2>1
  <2>3. cpc' = "failed"
    BY <2>2, ByteAssumption DEF Method, Client
  <2>4. SocksClosed'
    BY <1>1, <1>2, <2>1, <2>3 DEF SocksClosed
  <2> QED
    BY <1>1, <1>2, <1>7, <2>4, SocksAt
<1> QED
  BY <1>3, <1>4, <1>5, <1>6, <1>7

\* The answer to the login.
LEMMA SocksAuth ==
  ASSUME Flows, SocksInv, HopOk, hop.kind = "socks5", Auth
  PROVE  Flows' /\ SocksInv'
<1>1. /\ spc' = spc /\ hop' = hop /\ extra' = extra /\ req' = req /\ relayVars' = relayVars
      /\ cpc = "auth" /\ Len(s2c) >= 2 /\ s2c' = Drop(s2c, 2)
  BY DEF Auth, Client
<1>2. Flows' /\ (Quiet => Quiet')
  BY <1>1, NothingRelayed DEF Flows
<1>3. spc \in {"login", "request", "closed"}
  BY <1>1, SocksPlaces
<1>4. CASE spc = "login"
  BY <1>1, <1>4 DEF SocksInv, SocksLogin
<1>5. CASE spc = "request"
  <2>1. SocksRequest /\ c2s = <<>> /\ s2c = <<1, 0>>
    BY <1>1, <1>5 DEF SocksInv, SocksRequest
  <2>2. s2c[2] = 0 /\ s2c' = <<>>
    BY <1>1, <2>1 DEF Drop
  <2>3. cpc' = "reply" /\ c2s' = c2s \o Request
    BY <2>2 DEF Auth, Client
  <2>4. c2s' = Request
    BY <2>1, <2>3, RequestSeq
  <2>5. SocksRequest'
    BY <1>1, <1>2, <2>1, <2>2, <2>3, <2>4, HopKept DEF SocksRequest
  <2> QED
    BY <1>1, <1>2, <1>5, <2>5, SocksAt
<1>6. CASE spc = "closed"
  <2>1. SocksClosed /\ s2c = <<1, 1>>
    BY <1>1, <1>6 DEF SocksInv, SocksClosed
  <2>2. s2c[2] = 1
    BY <2>1
  <2>3. cpc' = "failed"
    BY <2>2 DEF Auth, Client
  <2>4. SocksClosed'
    BY <1>1, <1>2, <2>1, <2>3 DEF SocksClosed
  <2> QED
    BY <1>1, <1>2, <1>6, <2>4, SocksAt
<1> QED
  BY <1>3, <1>4, <1>5, <1>6

\* What the server answers is one of the replies.
LEMMA AnswerIs ==
  ASSUME HopOk
  PROVE  Answer \in {Success} \cup OtherReplies
BY DEF HopOk, Answer

\* Reading the reply: its first four bytes, and a name's length.
LEMMA SocksReply ==
  ASSUME Flows, SocksInv, HopOk, hop.kind = "socks5", Reply
  PROVE  Flows' /\ SocksInv'
<1>1. /\ spc' = spc /\ hop' = hop /\ req' = req /\ relayVars' = relayVars /\ c2s' = c2s
  BY DEF Reply, Client
<1>2. (Quiet => Quiet') /\ DownSeg' = DownSeg /\ (extra' \in Nat => Flows')
  BY <1>1, NothingRelayed
<1>3. Answer' = Answer /\ LoggedIn' = LoggedIn /\ Fits' = Fits
  BY <1>1, HopKept DEF Answer
<1>4. UpStream => UpStream'
  BY <1>1 DEF UpStream, relayVars, Received
<1> DEFINE r == Answer  d == DownSeg
<1>5. /\ r \in Seq(Nat) /\ Len(r) >= 4
      /\ r[4] = 1 => Len(r) = 10
      /\ r[4] = 4 => Len(r) = 4 + Ip6Len + 2
      /\ r[4] = 3 => Len(r) >= 5 /\ Len(r) = 5 + r[5] + 2
  BY AnswerIs, ReplyIs
<1>6. d \in Seq(Nat)
  <2>1. downLost + Len(down) \in Nat /\ downSent \in Nat /\ downLost + Len(down) <= downSent
    BY DEF Flows
  <2> QED
    BY <2>1, SegIs DEF DownSeg
<1> HIDE DEF r, d
<1>7. r \in Seq(Nat)
  BY <1>5
<1>8. CASE cpc = "reply"
  <2>1. Len(s2c) >= 4 /\ s2c' = Drop(s2c, 4) /\ spc \in {"request", "closed", "relay", "association"}
    BY <1>8, SocksPlaces DEF Reply, Client
  <2>2. CASE spc = "request"
    BY <1>8, <2>1, <2>2 DEF SocksInv, SocksRequest
  <2>3. CASE spc = "closed"
    <3>1. SocksClosed /\ s2c = Refusal
      BY <1>8, <2>1, <2>3 DEF SocksInv, SocksClosed
    <3>2. s2c[2] = 7
      BY <3>1 DEF Refusal
    <3>3. cpc' = "failed" /\ extra' = extra
      BY <1>8, <3>2 DEF Reply, Client
    <3>4. SocksClosed'
      BY <1>1, <1>2, <3>1, <3>3 DEF SocksClosed
    <3> QED
      BY <1>1, <1>2, <2>3, <3>3, <3>4, SocksAt DEF Flows
  <2>4. CASE spc \in {"relay", "association"}
    <3>1. SocksRelay /\ s2c = r \o d /\ down = <<>>
      BY <1>8, <2>4 DEF SocksInv, SocksRelay, r, d
    <3>2. /\ r \o d \in Seq(Nat) /\ Len(r \o d) = Len(r) + Len(d)
          /\ \A i \in 1..Len(r) : (r \o d)[i] = r[i]
      BY <1>6, <1>7, ConcatIs
    <3>3. s2c[2] = r[2] /\ s2c[4] = r[4]
      BY <1>5, <3>1, <3>2
    <3>4. 4 \in 0..Len(r)
      BY <1>5
    <3>5. s2c' = Drop(r, 4) \o d
      BY <1>6, <1>7, <2>1, <3>1, <3>4, DropFirst, Zenon
    <3>6. CASE cpc' = "failed"
      <4>1. extra' = extra
        BY <1>8, <3>6 DEF Reply, Client
      <4>2. SocksRelay'
        BY <1>1, <1>2, <1>3, <1>4, <3>1, <3>6 DEF SocksRelay, relayVars
      <4> QED
        BY <1>1, <1>2, <2>4, <4>1, <4>2, SocksAt DEF Flows
    <3>7. CASE cpc' = "skip"
      <4>1. s2c[4] \in {1, 4} /\ extra' = ToSkip(IF s2c[4] = 1 THEN 4 ELSE Ip6Len)
        BY <1>8, <3>7 DEF Reply, Client
      <4>2. extra' \in Nat /\ extra' = Len(r) - 4
        BY <1>5, <3>3, <4>1 DEF ToSkip, Ip6Len
      <4>3. Len(r) - extra' = 4 /\ extra' <= Len(r)
        BY <1>5, <4>2
      <4>4. SocksRelay'
        BY <1>1, <1>2, <1>3, <1>4, <3>1, <3>5, <3>7, <4>3 DEF SocksRelay, relayVars, r, d
      <4> QED
        BY <1>1, <1>2, <2>4, <4>2, <4>4, SocksAt
    <3>8. CASE cpc' = "length"
      <4>1. s2c[2] = 0 /\ s2c[4] = 3 /\ extra' = extra
        BY <1>8, <3>8 DEF Reply, Client
      <4>2. SocksRelay'
        BY <1>1, <1>2, <1>3, <1>4, <3>1, <3>3, <3>5, <3>8, <4>1 DEF SocksRelay, relayVars, r, d
      <4> QED
        BY <1>1, <1>2, <2>4, <4>1, <4>2, SocksAt DEF Flows
    <3> QED
      BY <1>8, <3>6, <3>7, <3>8 DEF Reply, Client
  <2> QED
    BY <2>1, <2>2, <2>3, <2>4
<1>9. CASE cpc = "length"
  <2>1. /\ Len(s2c) >= 1 /\ s2c' = Drop(s2c, 1) /\ spc \in {"relay", "association"}
        /\ cpc' = "skip" /\ extra' = ToSkip(s2c[1])
    BY <1>9, SocksPlaces DEF Reply, Client
  <2>2. SocksRelay /\ s2c = Drop(r, 4) \o d /\ r[4] = 3 /\ down = <<>>
    BY <1>9, <2>1 DEF SocksInv, SocksRelay, r, d
  <2> DEFINE e == Drop(r, 4)
  <2>3. Len(r) >= 5 /\ Len(r) = 5 + r[5] + 2 /\ 4 \in 0..Len(r)
    BY <1>5, <2>2
  <2>4. e \in Seq(Nat) /\ Len(e) = Len(r) - 4 /\ \A i \in 1..(Len(r) - 4) : e[i] = r[4 + i]
    BY <1>7, <2>3, DropIs, ZenonT(30)
  <2> HIDE DEF e
  <2>5. e[1] = r[5] /\ r[5] \in Nat
    <3>1. 1 \in 1..(Len(r) - 4) /\ 4 + 1 = 5 /\ 5 \in 1..Len(r)
      BY <1>7, <2>3
    <3>2. e[1] = r[4 + 1]
      BY <2>4, <3>1
    <3>3. r[5] \in Nat
      BY <1>7, <3>1
    <3> QED
      BY <3>2, <3>3
  <2>6. Drop(e, 1) = Drop(r, 5)
    <3>1. 1 \in 0..(Len(r) - 4)
      BY <1>7, <2>3
    <3>2. Drop(e, 1) = Drop(r, 4 + 1)
      BY <1>7, <2>3, <3>1, DropTwice DEF e
    <3> QED
      BY <3>2
  <2>7. e \in Seq(Nat) /\ Len(e) >= 1
    BY <1>7, <2>3, <2>4
  <2>8. s2c' = Drop(r, 5) \o d /\ s2c[1] = r[5]
    <3>1. s2c = e \o d /\ 1 \in 0..Len(e)
      BY <2>2, <2>7 DEF e
    <3>2. Drop(e \o d, 1) = Drop(e, 1) \o d
      BY <1>6, <2>7, <3>1, DropFirst
    <3>3. (e \o d)[1] = e[1]
      BY <1>6, <2>7
    <3> QED
      BY <2>1, <2>5, <2>6, <3>1, <3>2, <3>3
  <2>9. extra' \in Nat /\ Len(r) - extra' = 5 /\ extra' <= Len(r)
    BY <2>1, <2>3, <2>5, <2>8 DEF ToSkip
  <2>10. SocksRelay'
    BY <1>1, <1>2, <1>3, <1>4, <2>1, <2>2, <2>8, <2>9, Zenon DEF SocksRelay, relayVars, r, d
  <2> QED
    BY <1>1, <1>2, <2>1, <2>9, <2>10, SocksAt
<1> QED
  BY <1>8, <1>9 DEF Reply, Client

\* Skipping the bound address: what is left are the relayed bytes.
LEMMA SocksSkip ==
  ASSUME Flows, SocksInv, HopOk, hop.kind = "socks5", Skip
  PROVE  Flows' /\ SocksInv'
<1>1. /\ spc' = spc /\ hop' = hop /\ req' = req /\ relayVars' = relayVars /\ c2s' = c2s
      /\ extra' = extra /\ cpc = "skip" /\ cpc' = "relay" /\ s2c' = Drop(s2c, extra)
  BY DEF Skip, Client
<1>2. DownSeg' = DownSeg /\ Flows'
  BY <1>1, NothingRelayed DEF Flows
<1>3. LoggedIn' = LoggedIn /\ Fits' = Fits
  BY <1>1, HopKept
<1>4. UpStream => UpStream'
  BY <1>1 DEF UpStream, relayVars, Received
<1>5. spc \in {"relay", "association"} /\ SocksRelay
  BY <1>1, SocksPlaces DEF SocksInv
<1> DEFINE r == Answer  d == DownSeg  e == Drop(r, Len(r) - extra)
<1>6. r \in Seq(Nat)
  BY AnswerIs, ReplyIs
<1>7. d \in Seq(Nat)
  <2>1. downLost + Len(down) \in Nat /\ downSent \in Nat /\ downLost + Len(down) <= downSent
    BY DEF Flows
  <2> QED
    BY <2>1, SegIs DEF DownSeg
<1>8. extra <= Len(r) /\ extra \in Nat /\ s2c = e \o d
  BY <1>1, <1>5 DEF SocksRelay, Flows
<1> HIDE DEF r, d
<1>9. (Len(r) - extra) \in 0..Len(r)
  BY <1>6, <1>8
<1>10. e \in Seq(Nat) /\ Len(e) = Len(r) - (Len(r) - extra)
  BY <1>6, <1>9, DropIs
<1> HIDE DEF e
<1>11. e \in Seq(Nat) /\ Len(e) = extra
  BY <1>6, <1>8, <1>10
<1>12. Drop(e \o d, Len(e)) = d
  <2>1. Len(e) \in 0..Len(e)
    BY <1>11, <1>8
  <2>2. Drop(e \o d, Len(e)) = Drop(e, Len(e)) \o d
    BY <1>7, <1>11, <2>1, DropFirst, Zenon
  <2>3. Drop(e, Len(e)) = <<>> /\ <<>> \o d = d
    BY <1>7, <1>11, Ends
  <2> QED
    BY <2>2, <2>3
<1>13. s2c' = DownSeg'
  BY <1>1, <1>2, <1>8, <1>11, <1>12 DEF d
<1>14. SocksRelay'
  BY <1>1, <1>3, <1>4, <1>5, <1>13 DEF SocksRelay, relayVars
<1> QED
  BY <1>1, <1>2, <1>5, <1>14, SocksAt

\* A side sees that the other has gone.
LEMMA SocksEof ==
  ASSUME Flows, SocksInv, HopOk, hop.kind = "socks5", ClientEof \/ ServerEof
  PROVE  Flows' /\ SocksInv'
<1>1. /\ hop' = hop /\ req' = req /\ relayVars' = relayVars /\ extra' = extra /\ s2c' = s2c
  BY DEF ClientEof, ServerEof
<1>2. Flows' /\ (Quiet => Quiet')
  BY <1>1, NothingRelayed DEF Flows
<1>3. Quiet /\ cpc' = "failed" /\ spc' = "closed"
  BY DEF ClientEof, ServerEof, SocksInv, SocksStart, SocksLogin, SocksRequest, SocksClosed
<1>4. SocksClosed'
  BY <1>2, <1>3 DEF SocksClosed
<1> QED
  BY <1>2, <1>3, <1>4, SocksAt

\* The greeting.
LEMMA SocksHello ==
  ASSUME Flows, SocksInv, HopOk, hop.kind = "socks5", Hello
  PROVE  Flows' /\ SocksInv'
<1> DEFINE n == HelloLen(c2s)
           offered == \E i \in 3..n : c2s[i] = (IF NeedsLogin THEN 2 ELSE 0)
<1>1. /\ hop' = hop /\ req' = req /\ relayVars' = relayVars /\ extra' = extra /\ cpc' = cpc
      /\ spc = "start" /\ Len(c2s) >= n /\ c2s' = Drop(c2s, n)
      /\ \/ n = 2 /\ spc' = "closed" /\ s2c' = s2c
         \/ n > 2 /\ ~offered /\ spc' = "closed" /\ s2c' = s2c \o <<5, B - 1>>
         \/ n > 2 /\ offered /\ NeedsLogin /\ spc' = "login" /\ s2c' = s2c \o <<5, 2>>
         \/ n > 2 /\ offered /\ ~NeedsLogin /\ spc' = "request" /\ s2c' = s2c \o <<5, 0>>
  BY Zenon DEF Hello, Server
<1>2. Flows' /\ (Quiet => Quiet')
  BY <1>1, NothingRelayed DEF Flows
<1>3. LoggedIn' = LoggedIn /\ NeedsLogin' = NeedsLogin
  BY <1>1, HopKept
<1>4. SocksStart
  BY <1>1 DEF SocksInv
<1>5. c2s = Hello1 /\ cpc = "method"
  <2>1. CASE c2s = <<>>
    <3>1. n = 2
      BY <2>1 DEF HelloLen
    <3> QED
      BY <1>1, <2>1, <3>1
  <2> QED
    BY <1>4, <2>1 DEF SocksStart
<1>6. Hello1 \in Greetings \cup {<<5, 2, 0, 2>>, <<5, 2, 0>>}
  BY DEF Hello1, HopOk, Greeting
<1>7. c2s \in Seq(Nat) /\ n \in Nat /\ (n > 2 => n = Len(c2s))
  BY <1>1, <1>5, <1>6, GreetingIs
<1>8. n > 2 => c2s' = <<>>
  BY <1>1, <1>7, Ends
<1>9. /\ s2c = <<>> /\ Quiet
      /\ <<>> \o <<5, B - 1>> = <<5, B - 1>> /\ <<>> \o <<5, 2>> = <<5, 2>>
      /\ <<>> \o <<5, 0>> = <<5, 0>>
  BY <1>4, ByteAssumption DEF SocksStart
<1> HIDE DEF n, offered
<1>10. CASE spc' = "closed"
  <2>1. SocksClosed'
    BY <1>1, <1>2, <1>5, <1>9, <1>10 DEF SocksClosed
  <2> QED
    BY <1>2, <1>10, <2>1, SocksAt
<1>11. CASE spc' = "login"
  <2>1. SocksLogin'
    BY <1>1, <1>2, <1>3, <1>5, <1>8, <1>9, <1>11 DEF SocksLogin
  <2> QED
    BY <1>2, <1>11, <2>1, SocksAt
<1>12. CASE spc' = "request"
  <2>1. LoggedIn
    BY <1>1, <1>12 DEF LoggedIn
  <2>2. SocksRequest'
    BY <1>1, <1>2, <1>3, <1>5, <1>8, <1>9, <1>12, <2>1 DEF SocksRequest
  <2> QED
    BY <1>2, <1>12, <2>2, SocksAt
<1> QED
  BY <1>1, <1>10, <1>11, <1>12

\* The login: a client whose login is known has sent the configured one.
LEMMA SocksCheckLogin ==
  ASSUME Flows, SocksInv, HopOk, hop.kind = "socks5", LoginFits, CheckLogin
  PROVE  Flows' /\ SocksInv'
<1> DEFINE n == LoginLen(c2s)
           good == Known(SubSeq(c2s, 3, 2 + c2s[2]), SubSeq(c2s, 4 + c2s[2], n))
<1>1. /\ hop' = hop /\ req' = req /\ relayVars' = relayVars /\ extra' = extra /\ cpc' = cpc
      /\ spc = "login" /\ Len(c2s) >= n /\ c2s' = Drop(c2s, n)
      /\ \/ c2s[1] # 1 /\ spc' = "closed" /\ s2c' = s2c
         \/ c2s[1] = 1 /\ ~good /\ spc' = "closed" /\ s2c' = s2c \o <<1, 1>>
         \/ c2s[1] = 1 /\ good /\ spc' = "request" /\ s2c' = s2c \o <<1, 0>>
  BY SMTT(20) DEF CheckLogin, Server
<1>2. Flows' /\ (Quiet => Quiet')
  BY <1>1, NothingRelayed DEF Flows
<1>3. LoggedIn' = LoggedIn
  BY <1>1, HopKept
<1>4. SocksLogin
  BY <1>1 DEF SocksInv
<1>5. cpc = "auth" /\ s2c = <<>> /\ Quiet /\ \E v \in {1, 5} : c2s = Login(hop.login, v)
  <2>1. CASE c2s = <<>>
    <3>1. n = 2
      BY <2>1 DEF LoginLen
    <3> QED
      BY <1>1, <2>1, <3>1
  <2> QED
    BY <1>4, <2>1 DEF SocksLogin
<1>6. <<>> \o <<1, 1>> = <<1, 1>> /\ <<>> \o <<1, 0>> = <<1, 0>>
  OBVIOUS
<1>7. CASE spc' = "closed"
  <2> HIDE DEF good
  <2>1. SocksClosed'
    BY <1>1, <1>2, <1>5, <1>6, <1>7 DEF SocksClosed
  <2> QED
    BY <1>2, <1>7, <2>1, SocksAt
<1>8. CASE spc' = "request"
  <2>1. c2s[1] = 1 /\ good /\ s2c' = s2c \o <<1, 0>>
    BY <1>1, <1>8
  <2>2. PICK u \in Nat, p \in Nat : hop.login = <<Text(u), Text(p)>>
    BY DEF HopOk, Creds
  <2>3. PICK w \in Nat, q \in Nat : hop.slogin = <<Text(w), Text(q)>>
    BY DEF HopOk, Creds
  <2>4. PICK v \in {1, 5} : c2s = Login(hop.login, v)
    BY <1>5
  <2>5. c2s \in Seq(Nat) /\ c2s[1] = v
    <3>1. c2s = Login(<<Text(u), Text(p)>>, v)
      BY <2>2, <2>4
    <3> QED
      BY <3>1, LoginShape, Zenon
  <2>6. c2s = Login(<<Text(u), Text(p)>>, 1)
    BY <2>1, <2>2, <2>4, <2>5
  <2>7. SubSeq(c2s, 3, 2 + c2s[2]) = Text(w) /\ SubSeq(c2s, 4 + c2s[2], LoginLen(c2s)) = Text(q)
    BY <2>1, <2>3 DEF Known
  <2>8. u = w /\ p = q /\ n = Len(c2s)
    <3>1. u = w /\ p = q /\ LoginLen(c2s) = Len(c2s)
      <4>1. Reads(c2s, w, q)
        BY <2>7 DEF Reads
      <4>2. Reads(Login(<<Text(u), Text(p)>>, 1), w, q)
        BY <2>6, <4>1
      <4>3. u = w /\ p = q /\ LoginLen(Login(<<Text(u), Text(p)>>, 1))
                                = Len(Login(<<Text(u), Text(p)>>, 1))
        <5>1. u < B /\ p < B
          <6>1. Len(Text(u)) = u /\ Len(Text(p)) = p
            BY DEF Text
          <6>2. hop.login[1] = Text(u) /\ hop.login[2] = Text(p)
            BY <2>2
          <6> QED
            BY <6>1, <6>2 DEF LoginFits
        <5> QED
          BY <4>2, <5>1, LoginBack, Zenon
      <4> QED
        BY <2>6, <4>3, Zenon
    <3> QED
      BY <3>1
  <2>9. c2s' = <<>>
    BY <1>1, <2>5, <2>8, Ends
  <2>10. LoggedIn
    BY <2>2, <2>3, <2>8 DEF LoggedIn
  <2>11. SocksRequest'
    BY <1>1, <1>2, <1>3, <1>5, <1>6, <2>1, <2>9, <2>10 DEF SocksRequest
  <2> QED
    BY <1>2, <1>8, <2>11, SocksAt
<1> QED
  BY <1>1, <1>7, <1>8

\* The request: the target that is dispatched is the one that was sent, if it fits.
LEMMA SocksHandleRequest ==
  ASSUME Flows, SocksInv, HopOk, hop.kind = "socks5", HandleRequest
  PROVE  Flows' /\ SocksInv'
<1> DEFINE n == RequestLen(c2s)
<1>1. /\ hop' = hop /\ relayVars' = relayVars /\ extra' = extra /\ cpc' = cpc
      /\ spc = "request" /\ Len(c2s) >= n /\ c2s' = Drop(c2s, n)
      /\ \/ spc' = "closed" /\ s2c' = s2c \o Refusal /\ req' = req
         \/ spc' = "closed" /\ s2c' = s2c /\ req' = req
         \/ /\ c2s[2] = 1 /\ c2s[4] \in {1, 3, 4} /\ spc' = "relay" /\ s2c' = s2c \o hop.reply
            /\ req' = RequestTarget(c2s)
         \/ /\ c2s[2] = 3 /\ c2s[4] \in {1, 3, 4} /\ spc' = "association"
            /\ s2c' = s2c \o Success /\ req' = req
  BY Zenon DEF HandleRequest, Server, Refusal
<1>2. Flows' /\ (Quiet /\ req' = req => Quiet') /\ DownSeg' = DownSeg
  BY <1>1, NothingRelayed DEF Flows
<1>3. LoggedIn' = LoggedIn /\ Fits' = Fits
  BY <1>1, HopKept
<1>4. SocksRequest
  BY <1>1 DEF SocksInv
<1>5. cpc = "reply" /\ s2c = <<>> /\ c2s = Request /\ Quiet /\ LoggedIn
  <2>1. CASE c2s = <<>>
    <3>1. n = 4
      BY <2>1 DEF RequestLen
    <3> QED
      BY <1>1, <2>1, <3>1
  <2> QED
    BY <1>4, <2>1 DEF SocksRequest
<1>6. CASE spc' = "closed"
  <2>1. Refusal \in Seq(Nat) /\ <<>> \o Refusal = Refusal
    BY DEF Refusal
  <2> HIDE DEF n
  <2>2. s2c' \in {<<>>, Refusal} /\ req' = req
    BY <1>1, <1>5, <1>6, <2>1
  <2>3. SocksClosed'
    BY <1>1, <1>2, <1>5, <2>2 DEF SocksClosed
  <2> QED
    BY <1>2, <1>6, <2>3, SocksAt
<1>7. CASE spc' \in {"relay", "association"}
  <2>1. c2s[2] \in {1, 3} /\ c2s[4] \in {1, 3, 4}
    BY <1>1, <1>7
  <2>2. hop.cmd \in {1, 3} /\ IsTarget(hop.target)
    BY <1>5, <2>1, RequestSeq
  <2>3. s2c' = Answer'
    <3>1. Answer' \in Seq(Nat)
      <4>1. Answer' \in {Success} \cup OtherReplies
        BY <1>1 DEF HopOk, Answer
      <4> QED
        BY <4>1, ReplyIs
    <3>2. s2c' = <<>> \o Answer'
      BY <1>1, <1>5, <1>7 DEF Answer
    <3> QED
      BY <3>1, <3>2, Ends
  <2>4. DownSeg' = <<>> /\ Answer' \o <<>> = Answer' /\ down' = <<>> /\ upLost' = 0 /\ downLost' = 0
    <3>1. Seg(0, 0) = <<>>
      BY SegEmpty
    <3>2. DownSeg = <<>>
      BY <1>5, <3>1 DEF Quiet, DownSeg
    <3>3. Answer' \in {Success} \cup OtherReplies
      BY <1>1 DEF HopOk, Answer
    <3>4. Answer' \in Seq(Nat)
      BY <3>3, ReplyIs
    <3>5. down' = <<>> /\ upLost' = 0 /\ downLost' = 0
      BY <1>1, <1>5 DEF Quiet, relayVars
    <3> QED
      BY <1>2, <3>2, <3>4, <3>5, Ends
  <2>5. ASSUME Fits
        PROVE  UpStream' /\ req' \in {NoTarget, hop'.target}
    <3>1. c2s \in Seq(Nat) /\ n = Len(c2s) /\ RequestTarget(c2s) = hop.target
      BY <1>5, <2>2, <2>5, RequestBack, Zenon DEF Fits, NameFits, Request
    <3>2. c2s' = <<>>
      BY <1>1, <3>1, Ends
    <3>3. up' = <<>> /\ upLost' = 0 /\ upSent' = 0
      BY <1>1, <1>5 DEF Quiet, relayVars
    <3>4. Seg(0, 0) = <<>>
      BY SegEmpty
    <3>5. UpStream'
      BY <3>2, <3>3, <3>4 DEF UpStream, Received
    <3>6. req' \in {NoTarget, hop.target}
      BY <1>1, <1>5, <1>7, <3>1 DEF Quiet
    <3> QED
      BY <1>1, <3>5, <3>6
  <2>6. SocksRelay'
    BY <1>1, <1>3, <1>5, <2>3, <2>4, <2>5 DEF SocksRelay
  <2> QED
    BY <1>2, <1>7, <2>6, SocksAt
<1> QED
  BY <1>1, <1>6, <1>7
-------------------------------------------------------------------------------
(***************************************************************************)
(* The relayed bytes, the same for SOCKS5 and HTTP.                        *)
(***************************************************************************)
\* The bytes under way to the client are a sequence.
LEMMA DownSegIs ==
  ASSUME Flows
  PROVE  /\ DownSeg \in Seq(Nat) /\ Len(DownSeg) = downSent - (downLost + Len(down))
         /\ Len(DownSeg) >= 1 => DownSeg[1] = downLost + Len(down) + 1
<1>1. downLost + Len(down) \in Nat /\ downSent \in Nat /\ downLost + Len(down) <= downSent
  BY DEF Flows
<1> DEFINE a == downLost + Len(down)
<1> HIDE DEF a
<1>2. Seg(a, downSent) \in Seq(Nat) /\ Len(Seg(a, downSent)) = downSent - a
      /\ \A i \in 1..(downSent - a) : Seg(a, downSent)[i] = a + i
  BY <1>1, SegIs, Zenon DEF a
<1>3. Len(Seg(a, downSent)) >= 1 => Seg(a, downSent)[1] = a + 1
  BY <1>1, <1>2 DEF a
<1> QED
  BY <1>2, <1>3 DEF DownSeg, a

\* A byte of the client's.
LEMMA UpSends ==
  ASSUME Flows, SendUp
  PROVE  /\ Flows' /\ DownSeg' = DownSeg
         /\ UpStream => UpStream'
<1>1. /\ upSent' = upSent + 1 /\ c2s' = Append(c2s, upSent + 1) /\ up' = up /\ upLost' = upLost
      /\ extra' = extra /\ down' = down /\ downSent' = downSent /\ downLost' = downLost
  BY DEF SendUp
<1>2. Flows'
  <2>1. Received(down, downLost)'
    BY <1>1 DEF Received, Flows
  <2> QED
    BY <1>1, <2>1 DEF Flows
<1>3. DownSeg' = DownSeg
  BY <1>1 DEF DownSeg
<1>4. ASSUME UpStream
      PROVE  UpStream'
  <2> DEFINE a == upLost + Len(up)
  <2>1. a \in Nat /\ upSent \in Nat /\ a <= upSent /\ c2s = Seg(a, upSent)
    BY <1>4 DEF UpStream, Flows
  <2>2. c2s' = Seg(a, upSent + 1)
    <3> HIDE DEF a
    <3> QED
      BY <1>1, <2>1, SegGrows, Zenon
  <2>3. a' = a /\ a' <= upSent'
    BY <1>1, <2>1
  <2>4. Received(up, upLost)' /\ up' \in Seq(Nat)
    BY <1>1, <1>4 DEF UpStream, Received
  <2> QED
    BY <1>1, <2>2, <2>3, <2>4 DEF UpStream
<1> QED
  BY <1>2, <1>3, <1>4

\* A byte of the target's.
LEMMA DownSends ==
  ASSUME Flows, SendDown
  PROVE  /\ Flows' /\ DownSeg' = Append(DownSeg, downSent + 1)
         /\ UpStream => UpStream'
<1>1. /\ downSent' = downSent + 1 /\ up' = up /\ upLost' = upLost /\ upSent' = upSent /\ c2s' = c2s
      /\ extra' = extra /\ down' = down /\ downLost' = downLost
  BY DEF SendDown
<1>2. Flows'
  <2>1. Received(down, downLost)'
    BY <1>1 DEF Received, Flows
  <2> QED
    BY <1>1, <2>1 DEF Flows
<1>3. DownSeg' = Append(DownSeg, downSent + 1)
  <2> DEFINE a == downLost + Len(down)
  <2>1. a \in Nat /\ downSent \in Nat /\ a <= downSent
    BY DEF Flows
  <2>2. DownSeg' = Seg(a, downSent + 1) /\ DownSeg = Seg(a, downSent)
    BY <1>1 DEF DownSeg
  <2> HIDE DEF a
  <2> QED
    BY <2>1, <2>2, SegGrows
<1>4. UpStream => UpStream'
  BY <1>1 DEF UpStream, Received
<1> QED
  BY <1>2, <1>3, <1>4

\* The server's side takes a byte.
LEMMA UpReceives ==
  ASSUME Flows, ReceiveUp
  PROVE  /\ Flows' /\ DownSeg' = DownSeg
         /\ UpStream => UpStream'
<1>1. /\ c2s' = Drop(c2s, 1) /\ Len(c2s) >= 1 /\ up' = Append(up, c2s[1])
      /\ upSent' = upSent /\ upLost' = upLost
      /\ extra' = extra /\ down' = down /\ downSent' = downSent /\ downLost' = downLost
  BY DEF ReceiveUp, Server
<1>2. Flows'
  <2>1. Received(down, downLost)'
    BY <1>1 DEF Received, Flows
  <2> QED
    BY <1>1, <2>1 DEF Flows
<1>3. DownSeg' = DownSeg
  BY <1>1 DEF DownSeg
<1>4. ASSUME UpStream
      PROVE  UpStream'
  <2> DEFINE a == upLost + Len(up)
  <2>1. a \in Nat /\ upSent \in Nat /\ a <= upSent /\ c2s = Seg(a, upSent)
    BY <1>4 DEF UpStream, Flows
  <2>2. /\ c2s' = Seg(a + 1, upSent) /\ c2s[1] = a + 1 /\ a + 1 <= upSent
    <3> HIDE DEF a
    <3>1. Len(c2s) = upSent - a /\ \A i \in 1..(upSent - a) : c2s[i] = a + i
      BY <2>1, SegIs, Zenon
    <3>2. 1 \in 0..(upSent - a) /\ 1 \in 1..(upSent - a)
      BY <1>1, <2>1, <3>1
    <3>3. Drop(Seg(a, upSent), 1) = Seg(a + 1, upSent)
      BY <2>1, <3>2, SegDrop
    <3> QED
      BY <1>1, <2>1, <3>1, <3>2, <3>3
  <2>3. up \in Seq(Nat) /\ upLost \in Nat /\ Received(up, upLost) /\ up' = Append(up, upLost + Len(up) + 1)
    BY <1>1, <1>4, <2>2 DEF UpStream, Flows
  <2>4. up' \in Seq(Nat) /\ Len(up') = Len(up) + 1 /\ Received(up', upLost)
    BY <2>3, ReceivedGrows
  <2>5. upLost' + Len(up') = a + 1
    BY <1>1, <2>3, <2>4
  <2>6. Received(up, upLost)'
    BY <1>1, <2>4, Zenon DEF Received
  <2> QED
    BY <1>1, <2>2, <2>4, <2>5, <2>6 DEF UpStream
<1> QED
  BY <1>2, <1>3, <1>4

\* The client takes a byte.
LEMMA DownReceives ==
  ASSUME Flows, ReceiveDown, s2c = DownSeg
  PROVE  /\ Flows' /\ s2c' = DownSeg'
         /\ UpStream => UpStream'
<1>1. /\ s2c' = Drop(s2c, 1) /\ Len(s2c) >= 1 /\ down' = Append(down, s2c[1])
      /\ upSent' = upSent /\ upLost' = upLost /\ up' = up /\ c2s' = c2s
      /\ extra' = extra /\ downSent' = downSent /\ downLost' = downLost
  BY DEF ReceiveDown, Client
<1> DEFINE a == downLost + Len(down)
<1>2. a \in Nat /\ downSent \in Nat /\ a <= downSent /\ s2c = Seg(a, downSent)
  BY DEF Flows, DownSeg
<1>3. s2c' = Seg(a + 1, downSent) /\ s2c[1] = a + 1 /\ a + 1 <= downSent
  <2> HIDE DEF a
  <2>1. Len(s2c) = downSent - a /\ \A i \in 1..(downSent - a) : s2c[i] = a + i
    BY <1>2, SegIs, Zenon
  <2>2. 1 \in 0..(downSent - a) /\ 1 \in 1..(downSent - a)
    BY <1>1, <1>2, <2>1
  <2>3. Drop(Seg(a, downSent), 1) = Seg(a + 1, downSent)
    BY <1>2, <2>2, SegDrop
  <2> QED
    BY <1>1, <1>2, <2>1, <2>2, <2>3
<1>4. /\ down \in Seq(Nat) /\ downLost \in Nat /\ Received(down, downLost)
      /\ down' = Append(down, downLost + Len(down) + 1)
  BY <1>1, <1>3 DEF Flows
<1>5. down' \in Seq(Nat) /\ Len(down') = Len(down) + 1 /\ Received(down', downLost)
  BY <1>4, ReceivedGrows
<1>6. downLost' + Len(down') = a + 1
  BY <1>1, <1>4, <1>5
<1>7. Received(down, downLost)'
  BY <1>1, <1>5, Zenon DEF Received
<1>8. Flows'
  BY <1>1, <1>3, <1>5, <1>6, <1>7 DEF Flows
<1>9. s2c' = DownSeg'
  BY <1>1, <1>3, <1>6 DEF DownSeg
<1>10. UpStream => UpStream'
  BY <1>1 DEF UpStream, Received
<1> QED
  BY <1>8, <1>9, <1>10

\* The relayed bytes behind a SOCKS5 negotiation.
LEMMA SocksRelays ==
  ASSUME Flows, SocksInv, HopOk, hop.kind = "socks5", Relay
  PROVE  Flows' /\ SocksInv'
<1>1. hop' = hop /\ req' = req /\ extra' = extra /\ spc' = spc /\ cpc' = cpc
      /\ upLost' = upLost /\ downLost' = downLost
  BY DEF Relay, SendUp, SendDown, ReceiveUp, ReceiveDown, Client, Server
<1>2. spc \in {"relay", "association"}
  BY SocksPlaces DEF Relay, SendUp, SendDown, ReceiveUp, ReceiveDown, Client, Server, Eager
<1>3. SocksRelay
  BY <1>2 DEF SocksInv
<1>4. Answer' = Answer /\ LoggedIn' = LoggedIn /\ Fits' = Fits
  BY <1>1, HopKept DEF Answer
<1>5. CASE SendUp \/ ReceiveUp
  <2>1. Flows' /\ DownSeg' = DownSeg /\ (UpStream => UpStream')
    BY <1>5, UpSends, UpReceives
  <2>2. s2c' = s2c /\ down' = down
    BY <1>5 DEF SendUp, ReceiveUp
  <2>3. SocksRelay'
    BY <1>1, <1>3, <1>4, <2>1, <2>2, SMTT(20) DEF SocksRelay
  <2> QED
    BY <1>1, <1>2, <2>1, <2>3, SocksAt
<1>6. CASE SendDown
  <2> DEFINE d == DownSeg
  <2>1. Flows' /\ DownSeg' = Append(d, downSent + 1) /\ (UpStream => UpStream')
    BY <1>6, DownSends
  <2>2. s2c' = Append(s2c, downSent + 1) /\ down' = down
    BY <1>6 DEF SendDown
  <2>3. d \in Seq(Nat) /\ downSent + 1 \in Nat
    BY DownSegIs DEF Flows
  <2>4. ASSUME NEW p \in Seq(Nat), s2c = p \o d
        PROVE  s2c' = p \o DownSeg'
    <3> DEFINE x == downSent + 1
    <3> HIDE DEF d, x
    <3>1. p \in Numbers /\ d \in Numbers /\ <<x>> \in Numbers
      BY <2>3 DEF x, Numbers
    <3>2. Append(p \o d, x) = p \o Append(d, x)
      BY <3>1, NumberBehind, ZenonT(30)
    <3> QED
      BY <2>1, <2>2, <2>4, <3>2, Zenon DEF x
  <2>5. Answer \in Seq(Nat) /\ Len(Answer) >= 4
    BY AnswerIs, ReplyIs
  <2>6. CASE cpc = "reply"
    <3>0. s2c = Answer \o d
      BY <1>3, <2>6 DEF SocksRelay
    <3>1. s2c' = Answer \o DownSeg'
      BY <2>4, <2>5, <3>0, Zenon
    <3>2. SocksRelay'
      BY <1>1, <1>3, <1>4, <2>1, <2>2, <2>6, <3>1 DEF SocksRelay
    <3> QED
      BY <1>1, <1>2, <2>1, <3>2, SocksAt
  <2>7. CASE cpc = "length"
    <3>1. 4 \in 0..Len(Answer)
      BY <2>5
    <3>2. Drop(Answer, 4) \in Seq(Nat)
      BY <2>5, <3>1, DropIs
    <3>0. s2c = Drop(Answer, 4) \o d
      BY <1>3, <2>7 DEF SocksRelay
    <3>3. s2c' = Drop(Answer, 4) \o DownSeg'
      BY <2>4, <3>0, <3>2, Zenon
    <3>4. SocksRelay'
      BY <1>1, <1>3, <1>4, <2>1, <2>2, <2>7, <3>3 DEF SocksRelay
    <3> QED
      BY <1>1, <1>2, <2>1, <3>4, SocksAt
  <2>8. CASE cpc = "skip"
    <3>1. extra <= Len(Answer) /\ extra \in Nat
      BY <1>3, <2>8 DEF SocksRelay, Flows
    <3>2. (Len(Answer) - extra) \in 0..Len(Answer)
      BY <2>5, <3>1
    <3>3. Drop(Answer, Len(Answer) - extra) \in Seq(Nat)
      BY <2>5, <3>2, DropIs
    <3>0. s2c = Drop(Answer, Len(Answer) - extra) \o d
      BY <1>3, <2>8 DEF SocksRelay
    <3>4. s2c' = Drop(Answer, Len(Answer) - extra) \o DownSeg'
      BY <2>4, <3>0, <3>3, Zenon
    <3>5. SocksRelay'
      BY <1>1, <1>3, <1>4, <2>1, <2>2, <2>8, <3>4, Zenon DEF SocksRelay
    <3> QED
      BY <1>1, <1>2, <2>1, <3>5, SocksAt
  <2>9. CASE cpc = "relay"
    <3>1. s2c' = DownSeg'
      BY <1>3, <2>1, <2>2, <2>9 DEF SocksRelay
    <3>2. SocksRelay'
      BY <1>1, <1>3, <1>4, <2>1, <2>2, <2>9, <3>1 DEF SocksRelay
    <3> QED
      BY <1>1, <1>2, <2>1, <3>2, SocksAt
  <2>10. CASE cpc = "failed"
    <3>1. SocksRelay'
      BY <1>1, <1>3, <1>4, <2>1, <2>2, <2>10 DEF SocksRelay
    <3> QED
      BY <1>1, <1>2, <2>1, <3>1, SocksAt
  <2> QED
    BY <1>3, <2>6, <2>7, <2>8, <2>9, <2>10 DEF SocksRelay
<1>7. CASE ReceiveDown
  <2>1. cpc = "relay" /\ s2c = DownSeg
    BY <1>3, <1>7 DEF ReceiveDown, Client, SocksRelay
  <2>2. Flows' /\ s2c' = DownSeg' /\ (UpStream => UpStream')
    BY <1>7, <2>1, DownReceives
  <2>3. SocksRelay'
    BY <1>1, <1>3, <1>4, <2>1, <2>2 DEF SocksRelay
  <2> QED
    BY <1>1, <1>2, <2>2, <2>3, SocksAt
<1> QED
  BY <1>5, <1>6, <1>7 DEF Relay

\* Every step of a SOCKS5 hop.
LEMMA SocksNext ==
  ASSUME Flows, SocksInv, HopOk, hop.kind = "socks5", LoginFits, Next
  PROVE  Flows' /\ SocksInv'
<1>1. cpc # "status"
  BY SocksPlaces
<1>2. ~StatusLine /\ ~OnAck /\ ~OnReset /\ ~Header /\ ~NewFrame
  BY <1>1 DEF StatusLine, OnAck, OnReset, Header, NewFrame, Client
<1> QED
  BY <1>2, SocksConnect, SocksMethod, SocksAuth, SocksReply, SocksSkip, SocksEof, SocksHello,
     SocksCheckLogin, SocksHandleRequest, SocksRelays DEF Next, ClientStep, ServerStep
-------------------------------------------------------------------------------
(***************************************************************************)
(* HTTP.                                                                   *)
(***************************************************************************)
\* Where the two coroutines can be together.
LEMMA HttpPlaces ==
  ASSUME HttpInv
  PROVE  /\ cpc \in {"start", "status", "relay", "failed"}
         /\ spc \in {"start", "closed", "relay"}
         /\ cpc = "start" => spc = "start"
         /\ cpc = "relay" => spc = "relay"
BY DEF HttpInv, HttpStart, HttpClosed, HttpRelay

\* The first message.
LEMMA HttpConnect ==
  ASSUME Flows, HttpInv, hop.kind = "http", Connect
  PROVE  Flows' /\ HttpInv'
<1>1. /\ spc' = spc /\ hop' = hop /\ s2c' = s2c /\ extra' = extra /\ req' = req
      /\ relayVars' = relayVars /\ cpc = "start"
  BY DEF Connect
<1>2. spc = "start" /\ HttpStart
  BY <1>1, HttpPlaces DEF HttpInv
<1>3. \/ cpc' = "failed" /\ c2s' = c2s
      \/ cpc' = "status" /\ c2s' = <<hop.target>>
  BY DEF Connect
<1>4. /\ upSent' = upSent /\ up' = up /\ downSent' = downSent /\ down' = down
      /\ upLost' = upLost /\ downLost' = downLost
  BY <1>1 DEF relayVars
<1>5. <<hop.target>> \o Seg(0, 0) = <<hop.target>>
  <2>1. Seg(0, 0) = <<>>
    BY SegEmpty
  <2>2. <<hop.target>> \in Seq({hop.target})
    OBVIOUS
  <2> QED
    BY <2>1, <2>2, Ends, Zenon
<1>6. upSent = 0 /\ c2s = <<>>
  BY <1>1, <1>2 DEF HttpStart
<1>7. HttpStart'
  BY <1>1, <1>2, <1>3, <1>4, <1>5, <1>6, Zenon DEF HttpStart
<1> QED
  BY <1>1, <1>2, <1>4, <1>7, NothingRelayed DEF HttpInv, Flows

\* A header, and with it some of what follows, is read.
LEMMA DropHead ==
  ASSUME NEW S, NEW x \in S, NEW t \in Seq(S), NEW n \in 1..(Len(t) + 1)
  PROVE  /\ Drop(<<x>> \o t, n) = Drop(t, n - 1)
         /\ <<x>> \o t \in Seq(S) /\ Len(<<x>> \o t) = Len(t) + 1 /\ (<<x>> \o t)[1] = x
<1> DEFINE p == <<x>>  c == p \o t
<1>1. p \in Seq(S) /\ Len(p) = 1 /\ p[1] = x
  OBVIOUS
<1> HIDE DEF p
<1>2. p \in Seq(S)
  BY <1>1
<1>3. c \in Seq(S) /\ Len(c) = Len(p) + Len(t) /\ \A i \in 1..Len(p) : c[i] = p[i]
  BY <1>2, ConcatIs
<1>4. Drop(c, 1) = t
  <2>1. 1 \in 0..Len(p) /\ Len(p) = 1
    BY <1>1
  <2>2. Drop(p \o t, 1) = Drop(p, 1) \o t
    BY <1>2, <2>1, DropFirst, Zenon
  <2>3. Drop(p, 1) = <<>> /\ <<>> \o t = t
    BY <1>2, <2>1, Ends, Zenon
  <2> QED
    BY <2>2, <2>3
<1> HIDE DEF c
<1>5. c \in Seq(S) /\ 1 \in 0..Len(c) /\ (n - 1) \in 0..(Len(c) - 1) /\ 1 + (n - 1) = n
      /\ Len(c) = Len(t) + 1 /\ c[1] = x
  BY <1>1, <1>3
<1>6. Drop(Drop(c, 1), n - 1) = Drop(c, 1 + (n - 1))
  <2> DEFINE m == n - 1
  <2>1. c \in Seq(S) /\ 1 \in 0..Len(c) /\ m \in 0..(Len(c) - 1)
    BY <1>5
  <2> HIDE DEF m
  <2>2. Drop(Drop(c, 1), m) = Drop(c, 1 + m)
    BY <2>1, DropTwice
  <2> QED
    BY <2>2 DEF m
<1> QED
  BY <1>4, <1>5, <1>6 DEF c, p

\* The answer to CONNECT.
LEMMA HttpStatus ==
  ASSUME Flows, HttpInv, hop.kind = "http", StatusLine
  PROVE  Flows' /\ HttpInv'
<1>1. /\ hop' = hop /\ c2s' = c2s /\ spc' = spc /\ extra' = extra /\ req' = req
      /\ upSent' = upSent /\ up' = up /\ downSent' = downSent /\ down' = down
      /\ upLost' = upLost /\ cpc = "status"
  BY DEF StatusLine, Client
<1>2. PICK n \in 1..Len(s2c) : /\ cpc' = (IF s2c[1] = 200 THEN "relay" ELSE "failed")
                               /\ s2c' = Drop(s2c, n) /\ downLost' = n - 1
  BY DEF StatusLine, Client
<1>3. UpStream => UpStream'
  BY <1>1 DEF UpStream, Received
<1>4. CASE spc = "start"
  BY <1>2, <1>4 DEF HttpInv, HttpStart
<1>5. CASE spc = "closed"
  <2>1. HttpClosed /\ s2c \in {<<400>>, <<405>>}
    BY <1>1, <1>5 DEF HttpInv, HttpClosed
  <2>2. Len(s2c) = 1 /\ s2c[1] # 200
    BY <2>1
  <2>3. cpc' = "failed" /\ downLost' = 0
    BY <1>2, <2>2
  <2>4. down = <<>> /\ downLost = 0
    BY <2>1 DEF HttpClosed
  <2>5. Flows'
    BY <1>1, <2>3, <2>4 DEF Flows, Received
  <2>6. HttpClosed'
    BY <1>1, <2>1, <2>3 DEF HttpClosed
  <2> QED
    BY <1>1, <1>5, <2>5, <2>6 DEF HttpInv
<1>6. CASE spc = "relay"
  <2> DEFINE d == Seg(0, downSent)
  <2>1. HttpRelay /\ s2c = <<200>> \o d /\ down = <<>> /\ downLost = 0
    BY <1>1, <1>6 DEF HttpInv, HttpRelay
  <2>2. d \in Seq(Nat) /\ Len(d) = downSent /\ downSent \in Nat
    BY DEF Flows, Seg
  <2> HIDE DEF d
  <2>3. Len(<<200>> \o d) = Len(d) + 1
    BY <2>2
  <2>4. n \in 1..(Len(d) + 1) /\ (n - 1) \in 0..(downSent - 0) /\ n - 1 <= downSent /\ n - 1 \in Nat
    BY <1>2, <2>1, <2>2, <2>3
  <2>5. Drop(<<200>> \o d, n) = Drop(d, n - 1) /\ (<<200>> \o d)[1] = 200
    <3> DEFINE S == Nat
    <3> HIDE DEF S
    <3>1. 200 \in S /\ d \in Seq(S) /\ n \in 1..(Len(d) + 1)
      BY <2>2, <2>4 DEF S
    <3>2. ASSUME NEW x \in S
          PROVE  Drop(<<x>> \o d, n) = Drop(d, n - 1) /\ (<<x>> \o d)[1] = x
      BY <3>1, DropHead
    <3> QED
      BY <3>1, <3>2, ZenonT(30)
  <2>6. Drop(d, n - 1) = Seg(0 + (n - 1), downSent)
    BY <2>2, <2>4, SegDrop DEF d
  <2>7. s2c' = Seg(n - 1, downSent) /\ cpc' = "relay"
    BY <1>2, <2>1, <2>4, <2>5, <2>6
  <2>8. Flows'
    BY <1>1, <1>2, <2>1, <2>4 DEF Flows, Received
  <2>9. downLost' + Len(down') = n - 1
    BY <1>1, <1>2, <2>1, <2>4
  <2>10. s2c' = DownSeg'
    BY <1>1, <2>7, <2>9 DEF DownSeg
  <2>11. HttpRelay'
    BY <1>1, <1>3, <2>1, <2>7, <2>10 DEF HttpRelay
  <2> QED
    BY <1>1, <1>6, <2>8, <2>11 DEF HttpInv
<1> QED
  BY <1>4, <1>5, <1>6, HttpPlaces

\* CONNECT: the target that is dispatched is the one that was sent, or the address
\* it is the name of.
LEMMA HttpHeader ==
  ASSUME Flows, HttpInv, hop.kind = "http", Header
  PROVE  Flows' /\ HttpInv'
<1> DEFINE t == hop.target  d == Seg(0, upSent)  S == Nat \cup {hop.target}
           status == IF hop.cmd # 1 THEN 405 ELSE IF parseHostPort(c2s[1]) = NoTarget THEN 400
                     ELSE 200
<1>1. /\ hop' = hop /\ cpc' = cpc /\ extra' = extra /\ upSent' = upSent /\ up' = up
      /\ downSent' = downSent /\ down' = down /\ downLost' = downLost /\ spc = "start"
  BY DEF Header, Server
<1>2. PICK n \in 1..Len(c2s) :
        /\ spc' = (IF status = 200 THEN "relay" ELSE "closed")
        /\ c2s' = Drop(c2s, n) /\ s2c' = <<status>> /\ upLost' = n - 1
        /\ req' = IF status = 200 THEN parseHostPort(c2s[1]) ELSE req
  BY DEF Header, Server
<1>3. HttpStart
  BY <1>1 DEF HttpInv
<1>4. /\ cpc = "status" /\ c2s = <<t>> \o d /\ (hop.by = "outbound" => upSent = 0)
      /\ up = <<>> /\ down = <<>> /\ downSent = 0 /\ downLost = 0 /\ req = NoTarget
  BY <1>2, <1>3 DEF HttpStart
<1>5. upSent \in Nat /\ t \in S
  BY DEF Flows
<1>6. d \in Seq(S) /\ Len(d) = upSent
  BY <1>5 DEF Seg
<1> HIDE DEF d, S, status
<1>7. Len(<<t>> \o d) = Len(d) + 1
  <2>1. 1 \in 1..(Len(d) + 1)
    BY <1>5, <1>6
  <2> QED
    BY <1>5, <1>6, <2>1, DropHead
<1>8. n \in 1..(Len(d) + 1) /\ (n - 1) \in 0..(upSent - 0) /\ n - 1 <= upSent /\ n - 1 \in Nat
  BY <1>2, <1>4, <1>5, <1>6, <1>7
<1>9. Drop(<<t>> \o d, n) = Drop(d, n - 1) /\ (<<t>> \o d)[1] = t
  BY <1>5, <1>6, <1>8, DropHead
<1>10. Drop(d, n - 1) = Seg(0 + (n - 1), upSent)
  BY <1>5, <1>8, SegDrop DEF d
<1>11. c2s' = Seg(n - 1, upSent) /\ c2s[1] = t
  BY <1>2, <1>4, <1>8, <1>9, <1>10
<1>12. Flows'
  BY <1>1, <1>2, <1>4, <1>8 DEF Flows, Received
<1>13. hop'.by = "outbound" => upLost' = 0
  BY <1>1, <1>2, <1>4, <1>8
<1>14. CASE status = 200
  <2>1. parseHostPort(c2s[1]) = AsAddress(t)
    BY <1>11, <1>14 DEF parseHostPort, status
  <2>2. spc' = "relay" /\ s2c' = <<200>> /\ req' = AsAddress(t)
    BY <1>2, <1>14, <2>1
  <2>3. <<200>> \o Seg(0, 0) = <<200>>
    <3>1. Seg(0, 0) = <<>>
      BY SegEmpty
    <3>2. <<200>> \in Seq(Nat)
      OBVIOUS
    <3> QED
      BY <3>1, <3>2, Ends, ZenonT(30)
  <2>4. up' = <<>> /\ upLost' + Len(up') = n - 1
    BY <1>1, <1>2, <1>4, <1>8
  <2>5. UpStream'
    BY <1>1, <1>8, <1>11, <2>4 DEF UpStream, Received
  <2>6. HttpRelay'
    BY <1>1, <1>4, <2>2, <2>3, <2>5, Zenon DEF HttpRelay
  <2> QED
    BY <1>12, <1>13, <2>2, <2>6 DEF HttpInv
<1>15. CASE status # 200
  <2>1. status \in {400, 405}
    BY <1>15 DEF status
  <2>2. HttpClosed' /\ spc' = "closed"
    BY <1>1, <1>2, <1>4, <1>15, <2>1 DEF HttpClosed
  <2> QED
    BY <1>12, <1>13, <2>2 DEF HttpInv
<1> QED
  BY <1>14, <1>15

\* A side sees that the other has gone.
LEMMA HttpEof ==
  ASSUME Flows, HttpInv, hop.kind = "http", ClientEof \/ ServerEof
  PROVE  Flows' /\ HttpInv'
<1>1. /\ hop' = hop /\ req' = req /\ relayVars' = relayVars /\ extra' = extra
  BY DEF ClientEof, ServerEof
<1>2. Flows'
  BY <1>1, NothingRelayed DEF Flows
<1>3. /\ up' = up /\ down' = down /\ upLost' = upLost /\ downLost' = downLost
  BY <1>1 DEF relayVars
<1>4. cpc' = "failed" /\ spc' = "closed" /\ up = <<>> /\ down = <<>> /\ downLost = 0 /\ req = NoTarget
  BY DEF ClientEof, ServerEof, HttpInv, HttpStart, HttpClosed
<1>5. HttpClosed'
  BY <1>1, <1>3, <1>4 DEF HttpClosed
<1> QED
  BY <1>1, <1>2, <1>3, <1>4, <1>5 DEF HttpInv

\* The relayed bytes, those that the client sends behind its header among them.
LEMMA HttpRelays ==
  ASSUME Flows, HttpInv, hop.kind = "http", Relay
  PROVE  Flows' /\ HttpInv'
<1>1. /\ hop' = hop /\ req' = req /\ extra' = extra /\ spc' = spc /\ cpc' = cpc
      /\ upLost' = upLost /\ downLost' = downLost
  BY DEF Relay, SendUp, SendDown, ReceiveUp, ReceiveDown, Client, Server
<1>2. spc \in {"start", "closed", "relay"} /\ (cpc = "relay" => spc = "relay")
  BY HttpPlaces
<1>3. CASE spc = "relay"
  <2>1. HttpRelay
    BY <1>3 DEF HttpInv
  <2>2. Flows' /\ HttpRelay'
    <3>1. CASE SendUp \/ ReceiveUp
      <4>1. Flows' /\ DownSeg' = DownSeg /\ (UpStream => UpStream')
        BY <3>1, UpSends, UpReceives
      <4>2. s2c' = s2c /\ down' = down /\ downSent' = downSent
        BY <3>1, ZenonT(30) DEF SendUp, ReceiveUp
      <4> QED
        BY <1>1, <2>1, <4>1, <4>2 DEF HttpRelay
    <3>2. CASE SendDown
      <4>1. Flows' /\ DownSeg' = Append(DownSeg, downSent + 1) /\ (UpStream => UpStream')
        BY <3>2, DownSends
      <4>2. s2c' = Append(s2c, downSent + 1) /\ down' = down /\ downSent' = downSent + 1
        BY <3>2 DEF SendDown
      <4>3. CASE cpc = "relay"
        BY <1>1, <2>1, <4>1, <4>2, <4>3 DEF HttpRelay
      <4>4. CASE cpc = "status"
        <5> DEFINE d == Seg(0, downSent)
        <5>1. s2c = <<200>> \o d /\ down = <<>> /\ downLost = 0
          BY <2>1, <4>4 DEF HttpRelay
        <5>2. downSent \in Nat /\ 0 \in Nat /\ 0 <= downSent
          BY DEF Flows
        <5>3. Append(d, downSent + 1) = Seg(0, downSent + 1)
          BY <5>2, SegGrows, Zenon
        <5>4. d \in Seq(Nat)
          BY <5>2 DEF Seg
        <5> HIDE DEF d
        <5>5. <<200>> \in Seq(Nat) /\ d \in Seq(Nat) /\ downSent + 1 \in Nat
          BY <5>2, <5>4
        <5>6. Append(<<200>> \o d, downSent + 1) = <<200>> \o Append(d, downSent + 1)
          BY <5>5, AppendBehind
        <5>7. s2c' = <<200>> \o Seg(0, downSent')
          BY <4>2, <5>1, <5>3, <5>6, Zenon
        <5> QED
          BY <1>1, <2>1, <4>1, <4>2, <4>4, <5>1, <5>7, Zenon DEF HttpRelay
      <4> QED
        BY <2>1, <4>3, <4>4 DEF HttpRelay
    <3>3. CASE ReceiveDown
      <4>1. cpc = "relay" /\ s2c = DownSeg
        BY <2>1, <3>3 DEF ReceiveDown, Client, HttpRelay
      <4>2. Flows' /\ s2c' = DownSeg' /\ (UpStream => UpStream')
        BY <3>3, <4>1, DownReceives
      <4> QED
        BY <1>1, <2>1, <4>1, <4>2 DEF HttpRelay
    <3> QED
      BY <3>1, <3>2, <3>3 DEF Relay
  <2> QED
    BY <1>1, <1>3, <2>2 DEF HttpInv
<1>4. CASE spc # "relay"
  <2>1. SendUp /\ Eager
    BY <1>2, <1>4 DEF Relay, SendUp, SendDown, ReceiveUp, ReceiveDown, Client, Server
  <2>2. Flows'
    BY <2>1, UpSends
  <2>3. /\ upSent' = upSent + 1 /\ c2s' = Append(c2s, upSent + 1) /\ up' = up /\ s2c' = s2c
        /\ down' = down /\ downSent' = downSent /\ cpc = "status" /\ hop.by = "app"
    BY <2>1 DEF SendUp, Eager
  <2>4. CASE spc = "closed"
    <3>1. HttpClosed'
      BY <1>1, <2>3, <2>4 DEF HttpInv, HttpClosed
    <3> QED
      BY <1>1, <2>2, <2>4, <3>1 DEF HttpInv
  <2>5. CASE spc = "start"
    <3> DEFINE d == Seg(0, upSent)  S == Nat \cup {hop.target}
    <3>1. HttpStart /\ c2s = <<hop.target>> \o d
      BY <2>3, <2>5 DEF HttpInv, HttpStart
    <3>2. upSent \in Nat /\ 0 \in Nat /\ 0 <= upSent
      BY DEF Flows
    <3>3. Append(d, upSent + 1) = Seg(0, upSent + 1)
      BY <3>2, SegGrows, Zenon
    <3>4. d \in Seq(S)
      BY <3>2 DEF Seg
    <3>5. <<hop.target>> \in Seq(S) /\ upSent + 1 \in S
      BY <3>2
    <3> DEFINE a == <<hop.target>>  x == upSent + 1
    <3> HIDE DEF d, S, a, x
    <3>6. a \in Seq(S) /\ d \in Seq(S) /\ x \in S
      BY <3>4, <3>5 DEF a, x
    <3>7. Append(a \o d, x) = a \o Append(d, x)
      BY <3>6, SMTT(20)
    <3>8. c2s' = <<hop'.target>> \o Seg(0, upSent')
      BY <1>1, <2>3, <3>1, <3>3, <3>7, Zenon DEF a, x
    <3>9. HttpStart'
      BY <1>1, <2>3, <3>1, <3>8, Zenon DEF HttpStart
    <3> QED
      BY <1>1, <2>2, <2>5, <3>9 DEF HttpInv
  <2> QED
    BY <1>2, <1>4, <2>4, <2>5
<1> QED
  BY <1>3, <1>4

\* Every step of an HTTP hop.
LEMMA HttpNext ==
  ASSUME Flows, HttpInv, hop.kind = "http", Next
  PROVE  Flows' /\ HttpInv'
<1>1. /\ cpc \in {"start", "status", "relay", "failed"}
      /\ spc \in {"start", "closed", "relay"}
  BY HttpPlaces
<1>2. ~Method /\ ~Auth /\ ~Reply /\ ~Skip /\ ~OnAck /\ ~OnReset
  BY <1>1 DEF Method, Auth, Reply, Skip, OnAck, OnReset, Client
<1>3. ~Hello /\ ~CheckLogin /\ ~HandleRequest /\ ~NewFrame
  BY <1>1 DEF Hello, CheckLogin, HandleRequest, NewFrame
<1> QED
  BY <1>2, <1>3, HttpConnect, HttpStatus, HttpHeader, HttpEof, HttpRelays
     DEF Next, ClientStep, ServerStep
-------------------------------------------------------------------------------
(***************************************************************************)
(* A link.                                                                 *)
(***************************************************************************)
\* Where the two ends can be together.
LEMMA LinkPlaces ==
  ASSUME LinkInv
  PROVE  /\ cpc \in {"start", "relay", "failed"} /\ spc \in {"start", "closed", "relay"}
         /\ cpc = "start" => spc = "start"
         /\ cpc = "failed" => spc # "relay"
BY DEF LinkInv, LinkStart, LinkClosed, LinkRelay

\* NEW is queued.
LEMMA LinkConnect ==
  ASSUME Flows, LinkInv, hop.kind = "link", Connect
  PROVE  Flows' /\ LinkInv'
<1>1. /\ spc' = spc /\ hop' = hop /\ s2c' = s2c /\ extra' = extra /\ req' = req
      /\ relayVars' = relayVars /\ cpc = "start"
  BY DEF Connect
<1>2. spc = "start" /\ LinkStart
  BY <1>1, LinkPlaces DEF LinkInv
<1> DEFINE new == toBinary(hop.target)
<1>3. \/ cpc' = "failed" /\ c2s' = c2s
      \/ cpc' = "relay" /\ c2s' = <<new>>
  BY DEF Connect
<1> HIDE DEF new
<1>4. /\ upSent' = upSent /\ up' = up /\ downSent' = downSent /\ down' = down
      /\ upLost' = upLost /\ downLost' = downLost
  BY <1>1 DEF relayVars
<1>5. <<new>> \o Seg(0, 0) = <<new>>
  <2>1. Seg(0, 0) = <<>>
    BY SegEmpty
  <2>2. <<new>> \in Seq({new})
    OBVIOUS
  <2> QED
    BY <2>1, <2>2, Ends, Zenon
<1>6. upSent = 0 /\ c2s = <<>>
  BY <1>1, <1>2 DEF LinkStart
<1>7. LinkStart'
  BY <1>1, <1>2, <1>3, <1>4, <1>5, <1>6, Zenon DEF LinkStart, new
<1> QED
  BY <1>1, <1>2, <1>4, <1>7, NothingRelayed DEF LinkInv, Flows

\* The server takes NEW, or refuses it; the client's data may be right behind.
LEMMA LinkNew ==
  ASSUME Flows, LinkInv, HopOk, hop.kind = "link", NewFrame
  PROVE  Flows' /\ LinkInv'
<1> DEFINE new == toBinary(hop.target)  d == Seg(0, upSent)  S == Nat \cup {new}
<1>1. /\ hop' = hop /\ cpc' = cpc /\ extra' = extra /\ relayVars' = relayVars
      /\ spc = "start" /\ Len(c2s) >= 1 /\ c2s' = Drop(c2s, 1)
      /\ req' = parseBinary(c2s[1])
      /\ spc' = (IF parseBinary(c2s[1]) = NoTarget THEN "closed" ELSE "relay")
      /\ s2c' = <<IF parseBinary(c2s[1]) = NoTarget THEN RESET ELSE ACK>>
  BY DEF NewFrame, Server
<1>2. /\ upSent' = upSent /\ up' = up /\ downSent' = downSent /\ down' = down
      /\ upLost' = upLost /\ downLost' = downLost
  BY <1>1 DEF relayVars
<1>3. Flows'
  BY <1>1, NothingRelayed DEF Flows
<1>4. LinkStart
  BY <1>1 DEF LinkInv
<1>5. /\ cpc = "relay" /\ c2s = <<new>> \o d /\ up = <<>> /\ down = <<>> /\ downSent = 0
  BY <1>1, <1>4 DEF LinkStart
<1>6. upSent \in Nat /\ new \in S
  BY DEF Flows
<1>7. d \in Seq(S) /\ Len(d) = upSent /\ 1 \in 1..(Len(d) + 1)
  BY <1>6 DEF Seg
<1>8. d \in Seq(Nat)
  BY <1>6 DEF Seg
<1>9. Fits => parseBinary(new) \in {hop.target, NoTarget}
  <2>1. IsTarget(hop.target)
    BY TargetIs DEF HopOk
  <2> QED
    BY <2>1, BinaryBack, Zenon DEF Fits, NameFits
<1> HIDE DEF d, S, new
<1>10. Drop(<<new>> \o d, 1) = Drop(d, 1 - 1) /\ (<<new>> \o d)[1] = new
  BY <1>6, <1>7, DropHead
<1>11. Drop(d, 0) = d
  BY <1>8, Ends, Zenon
<1>12. c2s' = d /\ c2s[1] = new
  BY <1>1, <1>5, <1>10, <1>11
<1>13. CASE parseBinary(new) = NoTarget
  <2>1. spc' = "closed" /\ s2c' = <<RESET>> /\ req' = NoTarget
    BY <1>1, <1>12, <1>13, Zenon
  <2>2. LinkClosed'
    BY <1>1, <1>2, <1>5, <2>1, Zenon DEF LinkClosed, RESET
  <2> QED
    BY <1>2, <1>3, <2>1, <2>2 DEF LinkInv
<1>14. CASE parseBinary(new) # NoTarget
  <2>1. spc' = "relay" /\ s2c' = <<ACK>> /\ req' = parseBinary(new)
    BY <1>1, <1>12, <1>14, Zenon
  <2>2. Fits' => req' = hop'.target
    <3>1. Fits' = Fits
      BY <1>1, HopKept
    <3> QED
      BY <1>1, <1>9, <1>14, <2>1, <3>1
  <2>3. UpStream'
    <3>1. upLost' + Len(up') = 0 /\ up' = <<>> /\ upLost' = 0
      BY <1>2, <1>5 DEF LinkInv
    <3>2. up' \in Seq(Nat) /\ Received(up', upLost') /\ upLost' + Len(up') <= upSent'
      BY <1>2, <1>6, <3>1 DEF Received
    <3>3. c2s' = Seg(upLost' + Len(up'), upSent')
      <4>1. Seg(upLost' + Len(up'), upSent') = Seg(0, upSent)
        BY <1>2, <3>1
      <4> QED
        BY <1>12, <4>1 DEF d
    <3> QED
      BY <3>2, <3>3 DEF UpStream
  <2>4. <<ACK>> \o Seg(0, 0) = <<ACK>>
    <3>1. Seg(0, 0) = <<>>
      BY SegEmpty
    <3>2. <<ACK>> \in Seq(Nat)
      BY DEF ACK
    <3> QED
      BY <3>1, <3>2, Ends, ZenonT(30)
  <2>5. LinkRelay'
    BY <1>1, <1>2, <1>5, <2>1, <2>2, <2>3, <2>4, Zenon DEF LinkRelay
  <2> QED
    BY <1>2, <1>3, <2>1, <2>5 DEF LinkInv
<1> QED
  BY <1>13, <1>14

\* ACK and RESET, and only they: no relayed byte is taken for one of them.
LEMMA LinkAnswer ==
  ASSUME Flows, LinkInv, hop.kind = "link", OnAck \/ OnReset
  PROVE  Flows' /\ LinkInv'
<1>1. /\ hop' = hop /\ c2s' = c2s /\ spc' = spc /\ extra' = extra /\ req' = req
      /\ relayVars' = relayVars /\ cpc = "relay" /\ Len(s2c) >= 1 /\ s2c' = Drop(s2c, 1)
      /\ \/ cpc' = "relay" /\ s2c[1] = 0
         \/ cpc' = "failed" /\ s2c[1] = B
  BY DEF OnAck, OnReset, Client, ACK, RESET
<1>2. /\ upSent' = upSent /\ up' = up /\ downSent' = downSent /\ down' = down
      /\ upLost' = upLost /\ downLost' = downLost
  BY <1>1 DEF relayVars
<1>3. Flows'
  BY <1>1, NothingRelayed DEF Flows
<1>4. CASE spc = "start"
  BY <1>1, <1>4 DEF LinkInv, LinkStart
<1>5. CASE spc = "closed"
  <2>1. LinkClosed /\ s2c = <<B>>
    BY <1>1, <1>5 DEF LinkInv, LinkClosed, RESET
  <2>2. cpc' = "failed"
    BY <1>1, <2>1, ByteAssumption
  <2>3. LinkClosed'
    BY <1>1, <1>2, <2>1, <2>2 DEF LinkClosed
  <2> QED
    BY <1>1, <1>2, <1>3, <1>5, <2>3 DEF LinkInv
<1>6. CASE spc = "relay"
  <2>1. LinkRelay
    BY <1>6 DEF LinkInv
  <2>2. CASE s2c = DownSeg
    <3>1. /\ DownSeg \in Seq(Nat) /\ Len(DownSeg) = downSent - (downLost + Len(down))
          /\ Len(DownSeg) >= 1 => DownSeg[1] = downLost + Len(down) + 1
      BY DownSegIs
    <3>2. downLost = 0 /\ downSent <= MaxBytes /\ Len(down) \in Nat /\ downSent \in Nat
      BY DEF LinkInv, Flows
    <3>3. s2c[1] \in 1..MaxBytes
      BY <1>1, <2>2, <3>1, <3>2, ByteAssumption
    <3> QED
      BY <1>1, <3>3, ByteAssumption
  <2>3. CASE s2c # DownSeg
    <3> DEFINE d == Seg(0, downSent)
    <3>1. down = <<>> /\ s2c = <<0>> \o d /\ downLost = 0
      BY <2>1, <2>3 DEF LinkRelay, LinkInv, ACK
    <3>2. d \in Seq(Nat) /\ 1 \in 1..(Len(d) + 1)
      BY DEF Flows, Seg
    <3> HIDE DEF d
    <3>3. Drop(<<0>> \o d, 1) = Drop(d, 1 - 1) /\ (<<0>> \o d)[1] = 0
      <4> DEFINE S == Nat
      <4> HIDE DEF S
      <4>1. 0 \in S /\ d \in Seq(S) /\ 1 \in 1..(Len(d) + 1)
        BY <3>2 DEF S
      <4>2. ASSUME NEW x \in S
            PROVE  Drop(<<x>> \o d, 1) = Drop(d, 1 - 1) /\ (<<x>> \o d)[1] = x
        BY <4>1, DropHead
      <4> QED
        BY <4>1, <4>2, ZenonT(30)
    <3>4. Drop(d, 0) = d
      BY <3>2, Ends, Zenon
    <3>5. s2c' = d /\ cpc' = "relay"
      BY <1>1, <3>1, <3>3, <3>4, ByteAssumption
    <3>6. DownSeg' = d
      <4>1. downLost' + Len(down') = 0
        BY <1>2, <3>1
      <4> QED
        BY <1>2, <4>1, Zenon DEF DownSeg, d
    <3>7. UpStream' = UpStream /\ Fits' = Fits
      BY <1>1, <1>2, HopKept, Zenon DEF UpStream, Received
    <3>8. LinkRelay'
      BY <1>1, <2>1, <3>5, <3>6, <3>7, Zenon DEF LinkRelay
    <3> QED
      BY <1>1, <1>2, <1>3, <1>6, <3>8 DEF LinkInv
  <2> QED
    BY <2>2, <2>3
<1> QED
  BY <1>4, <1>5, <1>6, LinkPlaces

\* The client has failed before it sent NEW.
LEMMA LinkEof ==
  ASSUME Flows, LinkInv, hop.kind = "link", ClientEof \/ ServerEof
  PROVE  Flows' /\ LinkInv'
<1>1. ServerEof
  BY LinkPlaces DEF ClientEof
<1>2. /\ hop' = hop /\ req' = req /\ relayVars' = relayVars /\ extra' = extra
      /\ cpc' = "failed" /\ spc' = "closed" /\ spc = "start"
  BY <1>1, LinkPlaces DEF ServerEof
<1>3. Flows'
  BY <1>2, NothingRelayed DEF Flows
<1>4. /\ up' = up /\ down' = down /\ upLost' = upLost /\ downLost' = downLost /\ downSent' = downSent
  BY <1>2 DEF relayVars
<1>5. up = <<>> /\ down = <<>> /\ req = NoTarget
  BY <1>2 DEF LinkInv, LinkStart
<1>6. LinkClosed'
  BY <1>2, <1>4, <1>5 DEF LinkClosed
<1> QED
  BY <1>2, <1>3, <1>4, <1>6 DEF LinkInv

\* The relayed bytes, those that the client sends behind NEW and those that the server
\* sends behind ACK among them.
LEMMA LinkRelays ==
  ASSUME Flows, LinkInv, hop.kind = "link", Relay
  PROVE  Flows' /\ LinkInv'
<1>1. /\ hop' = hop /\ req' = req /\ extra' = extra /\ spc' = spc /\ cpc' = cpc
      /\ upLost' = upLost /\ downLost' = downLost
  BY DEF Relay, SendUp, SendDown, ReceiveUp, ReceiveDown, Client, Server
<1>2. downSent' <= MaxBytes
  <2>1. downSent' = downSent \/ (downSent < MaxBytes /\ downSent' = downSent + 1)
    BY Zenon DEF Relay, SendUp, SendDown, ReceiveUp, ReceiveDown
  <2>2. downSent <= MaxBytes /\ downSent \in Nat /\ MaxBytes \in Nat
    BY ByteAssumption DEF LinkInv, Flows
  <2> QED
    BY <2>1, <2>2
<1>3. CASE spc = "relay"
  <2>1. LinkRelay
    BY <1>3 DEF LinkInv
  <2>0. Fits' = Fits
    BY <1>1, HopKept
  <2>2. Flows' /\ LinkRelay'
    <3>1. CASE SendUp \/ ReceiveUp
      <4>1. Flows' /\ DownSeg' = DownSeg /\ (UpStream => UpStream')
        BY <3>1, UpSends, UpReceives
      <4>2. s2c' = s2c /\ down' = down /\ downSent' = downSent
        BY <3>1, ZenonT(30) DEF SendUp, ReceiveUp
      <4> QED
        BY <1>1, <2>0, <2>1, <4>1, <4>2, Zenon DEF LinkRelay
    <3>2. CASE SendDown
      <4>1. Flows' /\ DownSeg' = Append(DownSeg, downSent + 1) /\ (UpStream => UpStream')
        BY <3>2, DownSends
      <4>2. s2c' = Append(s2c, downSent + 1) /\ down' = down /\ downSent' = downSent + 1
        BY <3>2 DEF SendDown
      <4>3. CASE s2c = DownSeg
        BY <1>1, <2>0, <2>1, <4>1, <4>2, <4>3, Zenon DEF LinkRelay
      <4>4. CASE s2c # DownSeg
        <5> DEFINE d == Seg(0, downSent)  ack == <<ACK>>
        <5>1. s2c = ack \o d /\ down = <<>>
          BY <2>1, <4>4 DEF LinkRelay
        <5>2. downSent \in Nat /\ 0 \in Nat /\ 0 <= downSent
          BY DEF Flows
        <5>3. Append(d, downSent + 1) = Seg(0, downSent + 1)
          BY <5>2, SegGrows, Zenon
        <5>4. d \in Seq(Nat) /\ ack \in Seq(Nat) /\ downSent + 1 \in Nat
          BY <5>2 DEF Seg, ACK
        <5> HIDE DEF d, ack
        <5>5. ack \in Seq(Nat) /\ d \in Seq(Nat) /\ downSent + 1 \in Nat
          BY <5>4
        <5>6. Append(ack \o d, downSent + 1) = ack \o Append(d, downSent + 1)
          <6>1. <<downSent + 1>> \in Seq(Nat)
            BY <5>5
          <6> QED
            BY <5>5, <6>1, NumberBehind, ZenonT(30) DEF Numbers
        <5>7. s2c' = <<ACK>> \o Seg(0, downSent')
          BY <4>2, <5>1, <5>3, <5>6, Zenon DEF ack
        <5> QED
          BY <1>1, <2>0, <2>1, <4>1, <4>2, <5>1, <5>7, Zenon DEF LinkRelay
      <4> QED
        BY <4>3, <4>4
    <3>3. CASE ReceiveDown
      <4>1. s2c[1] # ACK
        BY <3>3 DEF ReceiveDown
      <4>2. (<<ACK>> \o Seg(0, downSent))[1] = ACK
        <5>1. Seg(0, downSent) \in Seq(Nat)
          BY DEF Flows, Seg
        <5> DEFINE d == Seg(0, downSent)
        <5> HIDE DEF d
        <5>2. d \in Seq(Nat) /\ ACK \in Nat
          BY <5>1 DEF d, ACK
        <5>3. (<<ACK>> \o d)[1] = ACK
          BY <5>2
        <5> QED
          BY <5>3 DEF d
      <4>3. s2c = DownSeg
        BY <2>1, <4>1, <4>2, Zenon DEF LinkRelay
      <4>4. Flows' /\ s2c' = DownSeg' /\ (UpStream => UpStream')
        BY <3>3, <4>3, DownReceives
      <4> QED
        BY <1>1, <2>0, <2>1, <4>4, Zenon DEF LinkRelay
    <3> QED
      BY <3>1, <3>2, <3>3 DEF Relay
  <2> QED
    BY <1>1, <1>2, <1>3, <2>2 DEF LinkInv
<1>4. CASE spc # "relay"
  <2>1. ~ReceiveDown
    <3>1. ASSUME ReceiveDown
          PROVE  FALSE
      <4>1. cpc = "relay" /\ Len(s2c) >= 1 /\ s2c[1] # RESET
        BY <3>1 DEF ReceiveDown, Client
      <4>2. s2c \in {<<>>, <<RESET>>}
        BY <1>4, <4>1 DEF LinkInv, LinkStart, LinkClosed
      <4> QED
        BY <4>1, <4>2
    <3> QED
      BY <3>1
  <2>2. SendUp
    BY <1>4, <2>1 DEF Relay, SendDown, ReceiveUp, Server
  <2>3. Flows'
    BY <2>2, UpSends
  <2>4. /\ upSent' = upSent + 1 /\ c2s' = Append(c2s, upSent + 1) /\ up' = up /\ s2c' = s2c
        /\ down' = down /\ downSent' = downSent /\ cpc = "relay"
    BY <2>2 DEF SendUp, Eager
  <2>5. CASE spc = "closed"
    <3>1. LinkClosed'
      BY <1>1, <2>4, <2>5, Zenon DEF LinkInv, LinkClosed, RESET
    <3> QED
      BY <1>1, <1>2, <2>3, <2>5, <3>1 DEF LinkInv
  <2>6. CASE spc = "start"
    <3> DEFINE d == Seg(0, upSent)  new == toBinary(hop.target)  S == Nat \cup {new}
               a == <<new>>  x == upSent + 1
    <3>1. LinkStart /\ c2s = a \o d
      BY <2>4, <2>6 DEF LinkInv, LinkStart
    <3>2. upSent \in Nat /\ 0 \in Nat /\ 0 <= upSent
      BY DEF Flows
    <3>3. Append(d, x) = Seg(0, x)
      BY <3>2, SegGrows, Zenon
    <3>4. d \in Seq(S) /\ x \in S
      BY <3>2 DEF Seg
    <3>5. a \in Seq(S)
      OBVIOUS
    <3> HIDE DEF d, S, a, x, new
    <3>6. a \in Seq(S) /\ d \in Seq(S) /\ x \in S
      BY <3>4, <3>5
    <3>7. Append(a \o d, x) = a \o Append(d, x)
      BY <3>6, SMTT(20)
    <3>8. c2s' = <<toBinary(hop'.target)>> \o Seg(0, upSent')
      BY <1>1, <2>4, <3>1, <3>3, <3>7, Zenon DEF a, x, new
    <3>9. LinkStart'
      BY <1>1, <2>4, <3>1, <3>8, Zenon DEF LinkStart
    <3> QED
      BY <1>1, <1>2, <2>3, <2>6, <3>9 DEF LinkInv
  <2> QED
    BY <1>4, <2>5, <2>6, LinkPlaces
<1> QED
  BY <1>3, <1>4

\* Every step of a session's hop over a link.
LEMMA LinkNext ==
  ASSUME Flows, LinkInv, HopOk, hop.kind = "link", Next
  PROVE  Flows' /\ LinkInv'
<1>1. cpc \in {"start", "relay", "failed"} /\ spc \in {"start", "closed", "relay"}
  BY LinkPlaces
<1>2. ~Method /\ ~Auth /\ ~Reply /\ ~Skip /\ ~StatusLine
  BY <1>1, SMTT(20) DEF Method, Auth, Reply, Skip, StatusLine, Client
<1>3. ~Hello /\ ~CheckLogin /\ ~HandleRequest /\ ~Header
  BY <1>1 DEF Hello, CheckLogin, HandleRequest, Header
<1> QED
  BY <1>2, <1>3, LinkConnect, LinkNew, LinkAnswer, LinkEof, LinkRelays
     DEF Next, ClientStep, ServerStep
-------------------------------------------------------------------------------
(***************************************************************************)
(* The invariant, and what it says.                                        *)
(***************************************************************************)
\* Reading from numbers leaves numbers, and so does writing them.
LEMMA NumbersKept ==
  ASSUME NEW s \in Seq(Nat)
  PROVE  /\ \A n \in 0..Len(s) : Drop(s, n) \in Seq(Nat)
         /\ \A t \in Seq(Nat) : s \o t \in Seq(Nat)
         /\ \A x \in Nat : Append(s, x) \in Seq(Nat)
BY SMTT(20) DEF Drop

\* The steps of a hop whose login does not fit.
LEMMA UnfitNext ==
  ASSUME Unfit, HopOk, Next
  PROVE  Unfit'
<1> USE DEF Unfit
<1>0. /\ \A n \in 0..Len(s2c) : Drop(s2c, n) \in Seq(Nat)
      /\ \A t \in Seq(Nat) : s2c \o t \in Seq(Nat)
      /\ \A x \in Nat : Append(s2c, x) \in Seq(Nat)
  BY NumbersKept, SMTT(20)
<1>1. ~StatusLine /\ ~OnAck /\ ~OnReset /\ ~Header /\ ~NewFrame
  BY DEF StatusLine, OnAck, OnReset, Header, NewFrame, Client
<1>2. CASE Connect \/ ClientEof \/ ServerEof \/ SendUp \/ ReceiveUp
  BY <1>2 DEF Connect, ClientEof, ServerEof, SendUp, ReceiveUp, Server, relayVars
<1>3. CASE Method \/ Auth
  BY <1>0, <1>3, SMTT(20) DEF Method, Auth, Client, relayVars
<1>4. CASE Reply
  <2>1. /\ hop' = hop /\ spc' = spc /\ relayVars' = relayVars
        /\ cpc' \in {"failed", "skip", "length"}
        /\ \E n \in {1, 4} : Len(s2c) >= n /\ s2c' = Drop(s2c, n)
    BY <1>4 DEF Reply, Client
  <2>2. extra' \in Nat
    <3>1. ToSkip(4) \in Nat /\ ToSkip(Ip6Len) \in Nat
      BY DEF ToSkip, Ip6Len
    <3>2. Len(s2c) >= 1 => ToSkip(s2c[1]) \in Nat
      BY DEF ToSkip
    <3> QED
      BY <1>4, <3>1, <3>2, SMTT(20) DEF Reply, Client
  <2>3. s2c' \in Seq(Nat)
    BY <1>0, <2>1
  <2> QED
    BY <2>1, <2>2, <2>3 DEF relayVars
<1>5. CASE Skip \/ ReceiveDown
  BY <1>0, <1>5 DEF Skip, ReceiveDown, Client, relayVars
<1>6. CASE Hello
  <2>1. /\ hop' = hop /\ cpc' = cpc /\ extra' = extra /\ relayVars' = relayVars
        /\ \/ spc' = "closed" /\ s2c' = s2c
           \/ spc' = "closed" /\ s2c' = s2c \o <<5, B - 1>>
           \/ spc' = "login" /\ s2c' = s2c \o <<5, 2>>
           \/ spc' = "request" /\ s2c' = s2c \o <<5, 0>>
    BY <1>6, Zenon DEF Hello, Server
  <2>2. <<5, B - 1>> \in Seq(Nat) /\ <<5, 2>> \in Seq(Nat) /\ <<5, 0>> \in Seq(Nat)
    BY ByteAssumption
  <2>3. s2c' \in Seq(Nat)
    BY <1>0, <2>1, <2>2, Zenon
  <2> QED
    BY <2>1, <2>3 DEF relayVars
<1>7. CASE CheckLogin
  <2>1. /\ hop' = hop /\ cpc' = cpc /\ extra' = extra /\ relayVars' = relayVars
        /\ \/ spc' = "closed" /\ s2c' = s2c
           \/ spc' = "closed" /\ s2c' = s2c \o <<1, 1>>
           \/ spc' = "request" /\ s2c' = s2c \o <<1, 0>>
    BY <1>7, ZenonT(30) DEF CheckLogin, Server
  <2>2. <<1, 1>> \in Seq(Nat) /\ <<1, 0>> \in Seq(Nat)
    OBVIOUS
  <2>3. s2c' \in Seq(Nat)
    BY <1>0, <2>1, <2>2, Zenon
  <2> QED
    BY <2>1, <2>3 DEF relayVars
<1>8. CASE HandleRequest
  <2>1. /\ hop' = hop /\ cpc' = cpc /\ extra' = extra /\ relayVars' = relayVars
        /\ \/ spc' = "closed" /\ s2c' = s2c \o Refusal
           \/ spc' = "closed" /\ s2c' = s2c
           \/ spc' = "relay" /\ s2c' = s2c \o hop.reply
           \/ spc' = "association" /\ s2c' = s2c \o Success
    BY <1>8, ZenonT(30) DEF HandleRequest, Server, Refusal
  <2>2. Refusal \in Seq(Nat) /\ Success \in Seq(Nat)
    BY DEF Refusal, Success
  <2>3. hop.reply \in Seq(Nat)
    BY ReplyIs DEF HopOk
  <2>4. s2c' \in Seq(Nat)
    BY <1>0, <2>1, <2>2, <2>3, Zenon
  <2> QED
    BY <2>1, <2>4 DEF relayVars
<1>9. CASE SendDown
  BY <1>0, <1>9 DEF SendDown
<1> QED
  BY <1>1, <1>2, <1>3, <1>4, <1>5, <1>6, <1>7, <1>8, <1>9 DEF Next, ClientStep, ServerStep, Relay

\* Only SOCKS5 has logins that do not fit.
LEMMA OthersFit ==
  ASSUME HopOk, hop.kind # "socks5"
  PROVE  LoginFits
BY ByteAssumption DEF HopOk, LoginFits, Anonymous

\* It holds at the start.
LEMMA InvInit ==
  ASSUME Init
  PROVE  Inv
<1>1. Flows
  BY DEF Init, Flows, Received
<1>2. Quiet
  BY DEF Init, Quiet
<1>3. SocksInv
  BY <1>2 DEF Init, SocksInv, SocksStart
<1>4. HttpInv
  BY DEF Init, HttpInv, HttpStart
<1>5. LinkInv
  BY ByteAssumption DEF Init, LinkInv, LinkStart
<1>6. HopOk
  BY HopIs DEF Init
<1>7. ~LoginFits => Unfit
  BY <1>6, OthersFit DEF Init, Unfit, HopOk
<1> QED
  BY <1>1, <1>3, <1>4, <1>5, <1>7, Zenon DEF Init, Inv

\* The hop the invariant speaks of is one of those the program opens.
LEMMA InvHop ==
  ASSUME Inv
  PROVE  HopOk
<1>1. hop \in Hops
  BY Zenon DEF Inv
<1> QED
  BY <1>1, HopIs, Zenon

\* Every step keeps it.
LEMMA InvNext ==
  ASSUME Inv, [Next]_vars
  PROVE  Inv'
<1>1. CASE Next
  <2>1. HopOk
    BY InvHop, Zenon
  <2>2. hop' = hop
    BY <1>1, Zenon DEF Next, ClientStep, ServerStep, Relay, Connect, Method, Auth, Reply, Skip, StatusLine,
                OnAck, OnReset, ClientEof, Hello, CheckLogin, HandleRequest, Header, NewFrame, ServerEof,
                SendUp, SendDown, ReceiveUp, ReceiveDown
  <2>0. LoginFits' = LoginFits
    BY <2>2, HopKept
  <2>6. CASE ~LoginFits
    <3>1. Unfit'
      BY <1>1, <2>1, <2>6, UnfitNext DEF Inv
    <3> QED
      BY <2>0, <2>2, <2>6, <3>1 DEF Inv
  <2>3. CASE hop.kind = "socks5" /\ LoginFits
    <3>1. Flows' /\ SocksInv'
      BY <1>1, <2>1, <2>3, SocksNext DEF Inv
    <3> QED
      BY <2>0, <2>2, <2>3, <3>1 DEF Inv
  <2>4. CASE hop.kind = "http"
    <3>1. LoginFits
      BY <2>1, <2>4, OthersFit
    <3>2. Flows' /\ HttpInv'
      BY <1>1, <2>4, <3>1, HttpNext DEF Inv
    <3> QED
      BY <2>0, <2>2, <2>4, <3>1, <3>2 DEF Inv
  <2>5. CASE hop.kind = "link"
    <3>1. LoginFits
      BY <2>1, <2>5, OthersFit
    <3>2. Flows' /\ LinkInv'
      BY <1>1, <2>1, <2>5, <3>1, LinkNext DEF Inv
    <3> QED
      BY <2>0, <2>2, <2>5, <3>1, <3>2 DEF Inv
  <2> QED
    BY <2>1, <2>3, <2>4, <2>5, <2>6 DEF HopOk
<1>2. CASE UNCHANGED vars
  <2>1. /\ hop' = hop /\ c2s' = c2s /\ s2c' = s2c /\ cpc' = cpc /\ spc' = spc /\ extra' = extra
        /\ req' = req /\ upSent' = upSent /\ up' = up /\ downSent' = downSent /\ down' = down
        /\ upLost' = upLost /\ downLost' = downLost
    BY <1>2 DEF vars
  <2>2. Flows' = Flows /\ Quiet' = Quiet /\ UpStream' = UpStream /\ DownSeg' = DownSeg
    BY <2>1, Zenon DEF Flows, Quiet, UpStream, DownSeg, Received
  <2>3. /\ Hello1' = Hello1 /\ Request' = Request /\ NeedsLogin' = NeedsLogin
        /\ LoggedIn' = LoggedIn /\ Fits' = Fits /\ LoginFits' = LoginFits /\ Answer' = Answer
    BY <2>1, HopKept, Zenon DEF Answer
  <2>4. SocksInv' = SocksInv
    BY <2>1, <2>2, <2>3, Zenon
       DEF SocksInv, SocksStart, SocksLogin, SocksRequest, SocksClosed, SocksRelay
  <2>5. HttpInv' = HttpInv
    <3>1. HttpStart' = HttpStart /\ HttpClosed' = HttpClosed
      BY <2>1, <2>2, ZenonT(30) DEF HttpStart, HttpClosed
    <3>2. HttpRelay' = HttpRelay
      BY <2>1, <2>2, Zenon DEF HttpRelay
    <3> QED
      BY <2>1, <3>1, <3>2, Zenon DEF HttpInv
  <2>6. LinkInv' = LinkInv
    <3>1. LinkStart' = LinkStart /\ LinkClosed' = LinkClosed
      BY <2>1, <2>2, Zenon DEF LinkStart, LinkClosed, RESET
    <3>2. LinkRelay' = LinkRelay
      BY <2>1, <2>2, <2>3, Zenon DEF LinkRelay
    <3> QED
      BY <2>1, <3>1, <3>2, Zenon DEF LinkInv
  <2>7. Unfit' = Unfit
    BY <2>1, Zenon DEF Unfit
  <2> QED
    BY <2>1, <2>2, <2>3, <2>4, <2>5, <2>6, <2>7, Zenon DEF Inv
<1> QED
  BY <1>1, <1>2

\* The invariant holds in every state of a hop.
LEMMA Always == Spec => []Inv
BY InvInit, InvNext, PTL DEF Spec

\* The target that the server dispatches is the one the client was given: over HTTP
\* always (a dotted name has become the address it writes), over SOCKS5 and over a
\* link whenever its length can be written in one byte; Socks5Outbound, Socks5Inbound,
\* HttpConnectOutbound, HttpConnectInbound, toBinary and parseBinary.
THEOREM TargetArrives == Spec => []TargetKept
<1>1. ASSUME Inv
      PROVE  TargetKept
  <2>1. HopOk
    BY <1>1, InvHop, Zenon
  <2>2. LoginFits => Flows
    BY <1>1 DEF Inv
  <2>6. CASE ~LoginFits
    <3>1. Unfit
      BY <1>1, <2>6 DEF Inv
    <3>2. TypeOK
      BY <2>1, <3>1 DEF TypeOK, HopOk, Unfit, Stranger
    <3> QED
      BY <2>6, <3>1, <3>2 DEF TargetKept, Unfit, Fits
  <2>3. CASE hop.kind = "socks5" /\ LoginFits
    <3>1. SocksInv
      BY <1>1, <2>3 DEF Inv
    <3>2. /\ cpc \in {"start", "method", "auth", "reply", "length", "skip", "relay", "failed"}
          /\ spc \in {"start", "login", "request", "closed", "relay", "association"}
      BY <3>1, SocksPlaces DEF SocksInv
    <3>3. TypeOK
      BY <2>1, <2>2, <2>3, <3>2, SMTT(20) DEF TypeOK, HopOk, Flows, Stranger
    <3>4. Fits => req \in {NoTarget, hop.target}
      BY <3>1 DEF SocksInv, SocksStart, SocksLogin, SocksRequest, SocksClosed, SocksRelay, Quiet
    <3> QED
      BY <2>3, <3>3, <3>4 DEF TargetKept
  <2>4. CASE hop.kind = "http"
    <3>0. LoginFits
      BY <2>1, <2>4, OthersFit
    <3>1. HttpInv
      BY <1>1, <2>4, <3>0 DEF Inv
    <3>2. cpc \in {"start", "status", "relay", "failed"} /\ spc \in {"start", "closed", "relay"}
      BY <3>1, HttpPlaces
    <3>3. TypeOK
      BY <2>1, <2>2, <3>0, <3>2 DEF TypeOK, HopOk, Flows, Stranger
    <3>4. req \in {NoTarget, AsAddress(hop.target)}
      BY <3>1 DEF HttpInv, HttpStart, HttpClosed, HttpRelay
    <3> QED
      BY <2>4, <3>3, <3>4 DEF TargetKept
  <2>5. CASE hop.kind = "link"
    <3>0. LoginFits
      BY <2>1, <2>5, OthersFit
    <3>1. LinkInv
      BY <1>1, <2>5, <3>0 DEF Inv
    <3>2. cpc \in {"start", "relay", "failed"} /\ spc \in {"start", "closed", "relay"}
      BY <3>1, LinkPlaces
    <3>3. TypeOK
      BY <2>1, <2>2, <3>0, <3>2 DEF TypeOK, HopOk, Flows, Stranger
    <3>4. Fits => req \in {NoTarget, hop.target}
      BY <3>1 DEF LinkInv, LinkStart, LinkClosed, LinkRelay
    <3> QED
      BY <2>5, <3>3, <3>4 DEF TargetKept
  <2> QED
    BY <2>1, <2>3, <2>4, <2>5, <2>6 DEF HopOk
<1> QED
  BY <1>1, Always, PTL

\* What is relayed arrives complete and in order in both directions, behind every
\* negotiation and every form of reply; only what read_until took in with an HTTP
\* header is missing, at the start.
THEOREM StreamArrives == Spec => []StreamKept
<1>1. ASSUME Inv
      PROVE  StreamKept
  <2>1. HopOk
    BY <1>1, InvHop, Zenon
  <2>2. CASE ~LoginFits
    BY <1>1, <2>2 DEF Inv, Unfit, StreamKept, Fits
  <2>3. ASSUME LoginFits
        PROVE  Received(down, downLost) /\ (up = <<>> => Received(up, upLost))
    <3>1. Flows
      BY <1>1, <2>3, Zenon DEF Inv
    <3>2. Received(<<>>, upLost)
      BY <3>1 DEF Received, Flows
    <3> QED
      BY <3>1, <3>2, Zenon DEF Flows
  <2>4. CASE hop.kind = "socks5" /\ LoginFits
    <3>1. SocksInv
      BY <1>1, <2>4 DEF Inv
    <3>2. upLost = 0 /\ downLost = 0 /\ (Fits => up = <<>> \/ Received(up, upLost))
      BY <3>1 DEF SocksInv, SocksStart, SocksLogin, SocksRequest, SocksClosed, SocksRelay, Quiet,
                  UpStream
    <3> QED
      BY <2>3, <2>4, <3>2, SMTT(20) DEF StreamKept
  <2>5. CASE hop.kind = "http"
    <3>0. LoginFits
      BY <2>1, <2>5, OthersFit
    <3>1. HttpInv
      BY <1>1, <2>5, <3>0 DEF Inv
    <3>2. (hop.by = "outbound" => upLost = 0) /\ (up = <<>> \/ Received(up, upLost))
      BY <3>1 DEF HttpInv, HttpStart, HttpClosed, HttpRelay, UpStream
    <3> QED
      BY <2>3, <2>5, <3>0, <3>2 DEF StreamKept
  <2>6. CASE hop.kind = "link"
    <3>0. LoginFits
      BY <2>1, <2>6, OthersFit
    <3>1. LinkInv
      BY <1>1, <2>6, <3>0 DEF Inv
    <3>2. (up = <<>> \/ Received(up, upLost)) /\ upLost = 0 /\ downLost = 0
      BY <3>1 DEF LinkInv, LinkStart, LinkClosed, LinkRelay, UpStream
    <3> QED
      BY <2>3, <3>0, <3>2 DEF StreamKept
  <2> QED
    BY <2>1, <2>2, <2>4, <2>5, <2>6 DEF HopOk
<1> QED
  BY <1>1, Always, PTL

\* A client with a login that fits relays through a server that took its request or,
\* on a link, whose openSession returns before any answer, while NEW or the RESET that
\* refuses it is under way; it receives nothing from a server that did not take it;
\* and a Socks5Inbound with a login, of any length, takes requests only from clients
\* that know it.
THEOREM RelaysWhenAccepted == Spec => []RelayAccepted
<1>1. ASSUME Inv, LoginFits
      PROVE  RelayAccepted
  <2>1. HopOk
    BY <1>1, InvHop, Zenon
  <2>2. CASE hop.kind = "socks5"
    <3>1. SocksInv
      BY <1>1, <2>2 DEF Inv
    <3>2. cpc = "relay" => Took
      BY <3>1, SocksPlaces DEF Took
    <3>3. Took => LoggedIn
      BY <3>1 DEF SocksInv, SocksRelay, Took
    <3>4. down # <<>> => Took
      BY <3>1 DEF SocksInv, SocksStart, SocksLogin, SocksRequest, SocksClosed, Quiet, Took
    <3> QED
      BY <3>2, <3>3, <3>4 DEF RelayAccepted, LoggedIn
  <2>3. CASE hop.kind # "socks5"
    <3>1. ~NeedsLogin
      BY <2>1, <2>3 DEF HopOk, NeedsLogin
    <3>2. CASE hop.kind = "http"
      <4>1. HttpInv
        BY <1>1, <3>2 DEF Inv
      <4>2. (cpc = "relay" => Took) /\ (down # <<>> => Took)
        BY <4>1 DEF HttpInv, HttpStart, HttpClosed, HttpRelay, Took
      <4> QED
        BY <3>1, <4>2 DEF RelayAccepted
    <3>3. CASE hop.kind = "link"
      <4>1. LinkInv
        BY <1>1, <3>3 DEF Inv
      <4>2. down # <<>> => Took
        BY <4>1, SMTT(20) DEF LinkInv, LinkStart, LinkClosed, Took
      <4>3. CASE spc = "start" /\ cpc = "relay"
        <5> DEFINE d == Seg(0, upSent)  new == toBinary(hop.target)  S == Nat \cup {new}
        <5>1. c2s = <<new>> \o d
          BY <4>1, <4>3 DEF LinkInv, LinkStart
        <5>2. upSent \in Nat
          BY <1>1 DEF Inv, Flows
        <5>3. d \in Seq(S) /\ <<new>> \in Seq(S)
          BY <5>2 DEF Seg
        <5> HIDE DEF d, new, S
        <5>4. c2s # <<>>
          BY <5>1, <5>3
        <5> QED
          BY <3>1, <3>3, <4>2, <4>3, <5>4 DEF RelayAccepted
      <4>4. CASE spc # "start" /\ cpc = "relay"
        <5>1. Took \/ (spc = "closed" /\ s2c = <<RESET>>)
          BY <4>1, <4>4 DEF LinkInv, LinkClosed, Took
        <5> QED
          BY <3>1, <3>3, <4>2, <5>1 DEF RelayAccepted
      <4> QED
        BY <3>1, <4>2, <4>3, <4>4 DEF RelayAccepted
    <3> QED
      BY <2>1, <2>3, <3>2, <3>3 DEF HopOk
  <2> QED
    BY <2>2, <2>3
<1>2. Inv => RelayAccepted
  BY <1>1 DEF RelayAccepted
<1> QED
  BY <1>2, Always, PTL
===============================================================================
