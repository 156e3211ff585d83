------------------------------ MODULE UdpAssoc ------------------------------
(***************************************************************************)
(* One UDP association from end to end.  The client's datagram stream is a *)
(* Socks5UdpStream with its control connection and the coroutine that      *)
(* monitors it, or the Session a peer opened with NEW_UDP; the first       *)
(* datagram chooses the route and is replayed by InjectedStream; the two   *)
(* halves of DirectOutbound::handleUdp, with its DNS cache, or of          *)
(* ShineOutbound::handle, over a Session of another link, relay the rest.  *)
(*                                                                         *)
(* A datagram is numbered by its arrival; `ok' says whether its header     *)
(* parses.  `inq' is the kernel's queue of us_, or udp_inbox_, which       *)
(* onUdpData fills with try_send.                                          *)
(***************************************************************************)
EXTENDS Naturals, Sequences, FiniteSets

CONSTANTS
    Domains, Ips,   \* hosts a datagram can name
    Ports,
    Senders,        \* UDP endpoints that can reach us_
    InboxLimit,     \* 1024 in the code: udp_inbox_
    CacheLimit,     \* 1024 in the code
    TTL,            \* 60 s in the code, here in ticks
    MaxIn,          \* bound: datagrams that arrive
    MaxBack,        \* bound: answers from remote hosts
    None

ASSUME BoundsAssumption ==
    {InboxLimit, CacheLimit, MaxIn, MaxBack} \subseteq Nat /\ TTL \in Nat \ {0}

\* A host is a name or an address, and None stands for no endpoint.
ASSUME HostsAssumption == Domains \cap Ips = {} /\ None \notin Senders

VARIABLES
    via,        \* [in |-> "socks5" or "session", out |-> "direct" or "shine"]
    tcp,        \* control connection: "open", "over" (EOF or a byte to read), "closed"
    near, far,  \* us_ or the client's session, the outbound's socket or session:
                \* "none", "open", "ended" (the peer's CLOSE), "reset", "closed"
    inq,        \* datagrams waiting in us_ or udp_inbox_
    arrived,    \* number of datagrams that came
    clientEp,   \* client_ep_
    handler,    \* handleClient or the session's handler: "first", "route", "relay", "done"
    monitor,    \* "none", "wait", "done"
    injected,   \* p_ and t_ of InjectedStream
    rc, cur,    \* read_client: where it is, the datagram and destination it holds
    rr,         \* read_remote: "idle", "recv", "send", "done"
    cache,      \* domain -> [dest, age]
    out,        \* history: datagrams sent to remote hosts
    back,       \* history: endpoints answers were sent to
    recent      \* history: <<domain, ip, age>> for every answer of the resolver

vars == <<via, tcp, near, far, inq, arrived, clientEp, handler, monitor, injected,
          rc, cur, rr, cache, out, back, recent>>
queue == <<near, inq, arrived, clientEp>>
control == <<via, tcp, handler, monitor, injected>>
names == <<cache, recent>>

Socks5 == via.in = "socks5"
Shine == via.out = "shine"
Targets == [host : Domains \cup Ips, port : Ports]
Datagrams == [id : 1..MaxIn, from : Senders \cup {None}, ok : BOOLEAN, target : Targets]
Dests == [ip : Ips, port : Ports]
NoCur == [msg |-> None, dest |-> None]

Init ==
    /\ via \in [in : {"socks5", "session"}, out : {"direct", "shine"}]
    /\ tcp = (IF Socks5 THEN "open" ELSE "closed")
    /\ near = "open" /\ far = "none" /\ inq = <<>> /\ arrived = 0
    /\ clientEp = None /\ handler = "first" /\ monitor = "none" /\ injected = None
    /\ rc = "idle" /\ cur = NoCur /\ rr = "idle"
    /\ cache = << >> /\ out = <<>> /\ back = <<>> /\ recent = {}

(***************************************************************************)
(* The environment: datagrams arrive, time passes, the client ends the     *)
(* control connection or writes a byte on it, the peer of a session closes *)
(* it (onPeerClose) or it is reset with its link (onReset).                *)
(***************************************************************************)
\* us_ is the kernel's; a full udp_inbox_ drops the datagram.
Queued(d) == IF ~Socks5 /\ Len(inq) >= InboxLimit THEN inq ELSE Append(inq, d)

Arrive(from, ok, target) ==
    /\ near = "open" /\ arrived < MaxIn
    /\ IF Socks5 THEN from \in Senders ELSE from = None /\ ok
    /\ arrived' = arrived + 1
    /\ inq' = Queued([id |-> arrived + 1, from |-> from, ok |-> ok, target |-> target])
    /\ UNCHANGED <<near, far, clientEp, control, rc, cur, rr, out, back, names>>

Older(n) == IF n < TTL THEN n + 1 ELSE TTL

Tick ==
    /\ cache' = [d \in DOMAIN cache |-> [cache[d] EXCEPT !.age = Older(@)]]
    /\ recent' = {<<a[1], a[2], Older(a[3])>> : a \in recent}
    /\ UNCHANGED <<queue, far, control, rc, cur, rr, out, back>>

ClientLeaves ==
    /\ tcp = "open" /\ tcp' = "over"
    /\ UNCHANGED <<via, queue, far, handler, monitor, injected, rc, cur, rr, out, back, names>>

Ends(st, st2) == (st = "open" /\ st2 = "ended") \/ (st \in {"open", "ended"} /\ st2 = "reset")

NearEnds ==
    /\ ~Socks5 /\ \E st2 \in {"ended", "reset"} : Ends(near, st2) /\ near' = st2
    /\ UNCHANGED <<far, inq, arrived, clientEp, control, rc, cur, rr, out, back, names>>

FarEnds ==
    /\ Shine /\ \E st2 \in {"ended", "reset"} : Ends(far, st2) /\ far' = st2
    /\ UNCHANGED <<queue, control, rc, cur, rr, out, back, names>>

(***************************************************************************)
(* The client's stream.                                                    *)
(***************************************************************************)
\* A datagram that receiveFrom returns rather than skips.
Accepts(d) == clientEp \in {None, d.from} /\ d.ok

\* client_ep_ is learnt from the first sender, before its header is looked at.
Learn(d) == clientEp' = IF clientEp = None THEN d.from ELSE clientEp

\* Session::receiveFrom and Session::sendTo look at the state before they touch
\* the channel or the link: after the peer's CLOSE only the writing half is left.
Receivable(st) == st = "open"
Sendable(st) == st \in {"open", "ended"}

receiveFrom(d) ==
    /\ Receivable(near)
    /\ inq # <<>> /\ d = Head(inq)
    /\ inq' = Tail(inq) /\ Learn(d)
    /\ UNCHANGED <<near, arrived>>

\* Socks5UdpStream::close, or Session::close, which takes the session out of the
\* table of its link and sends CLOSE.
close == near' = "closed" /\ inq' = <<>> /\ tcp' = "closed"

(***************************************************************************)
(* The handler: the first datagram, the route, the outbound.               *)
(***************************************************************************)
FirstSkip ==
    /\ handler = "first"
    /\ \E d \in Datagrams : receiveFrom(d) /\ ~Accepts(d)
    /\ UNCHANGED <<control, far, rc, cur, rr, out, back, names>>

FirstTake ==
    /\ handler = "first"
    /\ \E d \in Datagrams : receiveFrom(d) /\ Accepts(d) /\ injected' = d
    /\ handler' = "route" /\ monitor' = (IF Socks5 THEN "wait" ELSE "none")
    /\ UNCHANGED <<via, tcp, far, rc, cur, rr, out, back, names>>

\* The handler of a session returns without closing it.
FirstFails ==
    /\ handler = "first" /\ ~Receivable(near) /\ handler' = "done"
    /\ UNCHANGED <<via, tcp, monitor, injected, queue, far, rc, cur, rr, out, back, names>>

\* Mutant: the monitor closes the control connection only.
MonitorFiresTcpOnly ==
    /\ monitor = "wait" /\ tcp # "open"
    /\ monitor' = "done" /\ tcp' = "closed"
    /\ UNCHANGED <<via, queue, far, handler, injected, rc, cur, rr, out, back, names>>

MonitorFires ==
    /\ monitor = "wait" /\ tcp # "open"
    /\ monitor' = "done" /\ close
    /\ UNCHANGED <<via, arrived, clientEp, far, handler, injected, rc, cur, rr, out, back, names>>

\* The outbound's handler returned: a control connection is closed.
HandlerEnds ==
    /\ handler' = "done" /\ tcp' = "closed"
    /\ UNCHANGED <<via, queue, far, monitor, injected, rc, cur, rr, out, back, names>>

\* No route, no socket, or no session on a link.
RelayFails == handler = "route" /\ HandlerEnds

StartRelay ==
    /\ handler = "route" /\ handler' = "relay"
    /\ far' = "open" /\ rc' = "recv" /\ rr' = "recv"
    /\ UNCHANGED <<via, tcp, queue, monitor, injected, cur, out, back, names>>

RelayEnds == handler = "relay" /\ rc = "done" /\ rr = "done" /\ HandlerEnds

(***************************************************************************)
(* read_client.                                                            *)
(***************************************************************************)
\* Mutant: an entry does not expire.
FreshAlways(entry) == TRUE

Fresh(entry) == entry.age < TTL

Cached(d) == d.target.host \in DOMAIN cache /\ Fresh(cache[d.target.host])

\* What read_client does with a datagram before it can send it; a cached
\* endpoint has the port it was resolved with, and a session sends the name.
Classify(d) ==
    \/ /\ ~Shine /\ d.target.host \in Ips
       /\ rc' = "send" /\ cur' = [msg |-> d, dest |-> [ip |-> d.target.host, port |-> d.target.port]]
    \/ /\ ~Shine /\ d.target.host \in Domains /\ Cached(d)
       /\ rc' = "send" /\ cur' = [msg |-> d, dest |-> cache[d.target.host].dest]
    \/ /\ ~Shine /\ d.target.host \in Domains /\ ~Cached(d)
       /\ rc' = "resolve" /\ cur' = [msg |-> d, dest |-> None]
    \/ Shine /\ rc' = "send" /\ cur' = [msg |-> d, dest |-> None]

\* Mutant: the first datagram is not forgotten.
ReplayedAgain(d) == d

Replayed(d) == None

ReadInjected ==
    /\ rc = "recv" /\ injected # None
    /\ Classify(injected) /\ injected' = Replayed(injected)
    /\ UNCHANGED <<via, tcp, queue, far, handler, monitor, rr, out, back, names>>

ReadSkip ==
    /\ rc = "recv" /\ injected = None
    /\ \E d \in Datagrams : receiveFrom(d) /\ ~Accepts(d)
    /\ UNCHANGED <<control, far, rc, cur, rr, out, back, names>>

ReadTake ==
    /\ rc = "recv" /\ injected = None
    /\ \E d \in Datagrams : receiveFrom(d) /\ Accepts(d) /\ Classify(d)
    /\ UNCHANGED <<control, far, rr, out, back, names>>

\* receiveFrom fails: the outbound's socket or session is closed.
ReadClosed ==
    /\ rc = "recv" /\ injected = None /\ ~Receivable(near)
    /\ rc' = "done" /\ far' = "closed" /\ cur' = NoCur
    /\ UNCHANGED <<control, queue, rr, out, back, names>>

Stored(d, dest) ==
    IF Cardinality(DOMAIN cache) < CacheLimit \/ d \in DOMAIN cache
    THEN [e \in DOMAIN cache \cup {d} |->
              IF e = d THEN [dest |-> dest, age |-> 0] ELSE cache[e]]
    ELSE cache

Resolved(ip) ==
    /\ rc = "resolve" /\ rc' = "send"
    /\ LET t == cur.msg.target
           dest == [ip |-> ip, port |-> t.port]
       IN /\ cache' = Stored(t.host, dest)
          /\ cur' = [cur EXCEPT !.dest = dest]
          /\ recent' = recent \cup {<<t.host, ip, 0>>}
    /\ UNCHANGED <<control, queue, far, rr, out, back>>

ResolveFails ==
    /\ rc = "resolve" /\ rc' = "recv" /\ cur' = NoCur
    /\ UNCHANGED <<control, queue, far, rr, out, back, names>>

\* async_send_to, whose error is ignored, or sendTo on a session that is open.
SendOut ==
    /\ rc = "send" /\ rc' = "recv" /\ cur' = NoCur
    /\ Shine => Sendable(far)
    /\ \/ Sendable(far) /\ out' = Append(out, cur)
       \/ UNCHANGED out
    /\ UNCHANGED <<control, queue, far, rr, back, names>>

\* sendTo fails: the link or the session is closed.
SendOutFails ==
    /\ rc = "send" /\ Shine /\ rc' = "done" /\ far' = "closed" /\ cur' = NoCur
    /\ UNCHANGED <<control, queue, rr, out, back, names>>

(***************************************************************************)
(* read_remote.                                                            *)
(***************************************************************************)
RemoteAnswers ==
    /\ rr = "recv" /\ Receivable(far) /\ out # <<>> /\ Len(back) < MaxBack
    /\ rr' = "send"
    /\ UNCHANGED <<control, queue, far, rc, cur, out, back, names>>

SendBack ==
    /\ rr = "send" /\ Sendable(near)
    /\ rr' = "recv" /\ back' = Append(back, clientEp)
    /\ UNCHANGED <<control, queue, far, rc, cur, out, names>>

\* The receive failed, or sendTo did: the client's stream is closed.
RemoteLoopEnds ==
    /\ \/ rr = "recv" /\ ~Receivable(far)
       \/ rr = "send"
    /\ rr' = "done" /\ close
    /\ UNCHANGED <<via, arrived, clientEp, handler, monitor, injected, far, rc, cur, out, back,
                   names>>

ReadClient ==
    \/ ReadInjected \/ ReadSkip \/ ReadTake \/ ReadClosed
    \/ (\E ip \in Ips : Resolved(ip)) \/ ResolveFails \/ SendOut \/ SendOutFails

Next ==
    \/ \E s \in Senders \cup {None}, ok \in BOOLEAN, t \in Targets : Arrive(s, ok, t)
    \/ Tick \/ ClientLeaves \/ NearEnds \/ FarEnds \/ RemoteAnswers
    \/ FirstSkip \/ FirstTake \/ FirstFails \/ RelayFails \/ StartRelay \/ RelayEnds
    \/ MonitorFires \/ ReadClient \/ SendBack \/ RemoteLoopEnds

Spec == Init /\ [][Next]_vars

\* Each coroutine that can run is eventually resumed; a resolver query ends.
Fairness ==
    /\ WF_vars(FirstSkip \/ FirstTake \/ FirstFails \/ RelayFails \/ StartRelay \/ RelayEnds)
    /\ WF_vars(MonitorFires)
    /\ WF_vars(ReadClient)
    /\ WF_vars(SendBack \/ RemoteLoopEnds)

FairSpec == Spec /\ Fairness
-----------------------------------------------------------------------------
(***************************************************************************)
(* The types of the variables.  "the cache is strictly limited"            *)
(* (docs/UDP_AND_ROUTING_DESIGN.md 3.2): handleUdp never keeps more than   *)
(* CacheLimit names, expired ones included.                                *)
(***************************************************************************)
TypeOK ==
    /\ tcp \in {"open", "over", "closed"}
    /\ {near, far} \subseteq {"none", "open", "ended", "reset", "closed"}
    /\ inq \in Seq(Datagrams) /\ arrived \in 0..MaxIn
    /\ clientEp \in Senders \cup {None}
    /\ handler \in {"first", "route", "relay", "done"}
    /\ monitor \in {"none", "wait", "done"} /\ injected \in Datagrams \cup {None}
    /\ rc \in {"idle", "recv", "resolve", "send", "done"}
    /\ rr \in {"idle", "recv", "send", "done"}
    /\ cur.dest \in (IF rc = "send" /\ ~Shine THEN Dests ELSE {None})
    /\ \A d \in DOMAIN cache : d \in Domains /\ cache[d] \in [dest : Dests, age : 0..TTL]
    /\ Cardinality(DOMAIN cache) <= CacheLimit

(***************************************************************************)
(* Whatever is skipped, dropped or replayed, datagrams leave in the order  *)
(* in which they arrived, none leaves twice, and a Socks5UdpStream serves  *)
(* one endpoint: all of them came from the sender that receiveFrom learnt  *)
(* first, and every answer went back to it.                                *)
(***************************************************************************)
RelayedOnce ==
    /\ TypeOK
    /\ \A i, j \in 1..Len(out) : i < j => out[i].msg.id < out[j].msg.id
    /\ \A i \in 1..Len(out) : out[i].msg.from = clientEp
    /\ \A i \in 1..Len(back) : back[i] = clientEp

(***************************************************************************)
(* handleUdp chooses the address of a name only from an answer the         *)
(* resolver gave for that very name less than TTL ago.                     *)
(***************************************************************************)
DestFresh ==
    [][(rc # "send" /\ rc' = "send" /\ ~Shine /\ cur'.msg.target.host \in Domains)
         => \E a \in recent' : /\ a[1] = cur'.msg.target.host
                               /\ a[2] = cur'.dest.ip
                               /\ a[3] < TTL]_vars

Held(st) == st \in {"open", "ended"}
Released == ~Held(near) /\ ~Held(far) /\ handler = "done"
Over == tcp = "over" \/ near # "open" \/ far \notin {"none", "open"}

(***************************************************************************)
(* An association ends as a whole: once it is relayed (for SOCKS5: once    *)
(* the first datagram was read), the end of the control connection, the    *)
(* CLOSE of either peer or the failure of either link closes both sockets, *)
(* takes both sessions out of their tables and lets the handler return,    *)
(* wherever the two halves of the relay were waiting.                      *)
(***************************************************************************)
AssocEnds == (Over /\ (handler = "relay" \/ (handler = "route" /\ Socks5))) ~> Released
=============================================================================
