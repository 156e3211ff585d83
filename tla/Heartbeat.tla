------------------------------- MODULE Heartbeat ------------------------------
(***************************************************************************)
(* PING and PONG on an open link: heartbeatLoop, the PING and PONG cases   *)
(* of dispatchFrame, the frames they share the queues with, and a peer     *)
(* that may stop answering, or may ping on its own, so that both readers   *)
(* can wait for room to answer.                                            *)
(*                                                                         *)
(* Time is discrete.  The code only compares differences with now, so the  *)
(* state holds ages: pong_age is now - last_pong_ns_, sent_age is          *)
(* now - last_ping_sent_ns_.  Time may not pass over a step that is due: a *)
(* timer that has expired, a frame that has been under way for MaxDelay.   *)
(* Ages saturate where no test can tell them apart.  An end sends a PING   *)
(* only when its last one was answered, so nonces are left out.            *)
(*                                                                         *)
(* A queue holds the frames in write_chan_ and the socket behind it, the   *)
(* first QueueCap of them, and then those of the coroutines suspended in   *)
(* enqueueFrame, which get room in the order in which they asked.          *)
(***************************************************************************)
EXTENDS Naturals, Sequences

CONSTANTS
  TickLen,       \* the loop's timer, 1 s
  PingInterval, PongTimeout,
  MaxDelay,      \* bound: longest transit of a frame to a peer that reads
  QueueCap,      \* bound of write_chan_ and the socket behind it
  Waiters,       \* bound: sessions suspended in enqueueFrame
  Scenarios      \* what the link is exposed to; one is chosen at the start

ASSUME HeartbeatAssumption ==
  /\ TickLen \in Nat \ {0} /\ QueueCap \in Nat \ {0}
  /\ {PingInterval, PongTimeout, MaxDelay, Waiters} \subseteq Nat
  /\ Scenarios \subseteq {"dying peer", "busy link", "busy link, slow reader",
                          "busy link, both ping"}

VARIABLES
  scenario,
  link_closed,
  tick_age,    \* time since the loop's timer was set
  pending,     \* pending_ping_nonce_ # 0
  sent_age, pong_age,
  to_peer, from_peer,     \* the two queues of frames, [type, age]
  blocked,     \* readerLoop is suspended in onData
  alive,       \* the peer reads and answers
  peer_pending \* pending_ping_nonce_ # 0 at the peer

heartbeatVars == <<scenario, link_closed, tick_age, pending, sent_age, pong_age, to_peer,
                   from_peer, blocked, alive, peer_pending>>
ours == <<link_closed, tick_age, pending, sent_age, pong_age>>

PeerMayDie == scenario = "dying peer"               \* it stops reading and answering
Busy == scenario # "dying peer"                     \* sessions send DATA both ways
SlowReader == scenario = "busy link, slow reader"   \* an inbox_ may stay full
BothPing == scenario = "busy link, both ping"       \* the peer has its own heartbeat

\* The handshake is complete; last_pong_ns_ was set when it started.
HeartbeatInit ==
  /\ scenario \in Scenarios
  /\ link_closed = FALSE /\ tick_age = 0
  /\ pending = FALSE /\ sent_age = 0 /\ pong_age \in 0..PingInterval
  /\ to_peer = <<>> /\ from_peer = <<>> /\ blocked = FALSE /\ alive = TRUE
  /\ peer_pending = FALSE

Bound == PingInterval + PongTimeout + 2 * TickLen
AtMost(n, max) == IF n < max THEN n ELSE max
-------------------------------------------------------------------------------
\* enqueueFrame.
Enqueue(q, type) == Append(q, [type |-> type, age |-> 0])

\* The coroutine that sends a frame of this type is suspended in enqueueFrame.
Suspended(q, type) == \E i \in (QueueCap + 1)..Len(q) : q[i].type = type

Reads == ~blocked /\ ~Suspended(to_peer, "PONG")
PeerReads == alive /\ ~Suspended(from_peer, "PONG")
Asleep == ~Suspended(to_peer, "PING")

Older(q) == [i \in 1..Len(q) |-> IF i > QueueCap THEN q[i] ELSE [q[i] EXCEPT !.age = @ + 1]]
Overdue(q) == \E i \in 1..Len(q) : q[i].age >= MaxDelay

\* Time passes.
Tick ==
  /\ ~link_closed
  /\ Asleep => tick_age < TickLen
  /\ PeerReads => ~Overdue(to_peer)
  /\ Reads => ~Overdue(from_peer)
  /\ tick_age' = IF Asleep THEN tick_age + 1 ELSE tick_age
  /\ sent_age' = IF pending THEN AtMost(sent_age + 1, PongTimeout + TickLen + 1) ELSE 0
  /\ pong_age' = AtMost(pong_age + 1, Bound + 1)
  /\ to_peer' = IF PeerReads THEN Older(to_peer) ELSE to_peer
  /\ from_peer' = IF Reads THEN Older(from_peer) ELSE from_peer
  /\ UNCHANGED <<scenario, link_closed, pending, blocked, alive, peer_pending>>
-------------------------------------------------------------------------------
Due == ~link_closed /\ Asleep /\ tick_age = TickLen

\* Mutant: >= for >.
ExpiredEager == pending /\ sent_age >= PongTimeout

\* Mutant: a full queue counts as a sign of life.
ExpiredQuiet == pending /\ sent_age > PongTimeout /\ Len(to_peer) < QueueCap

Expired == pending /\ sent_age > PongTimeout

\* Mutant: the interval is counted from the end of pong_timeout.
LongIdleLate == ~pending /\ pong_age > PingInterval + PongTimeout

LongIdle == ~pending /\ pong_age > PingInterval

\* An outstanding ping has exceeded pong_timeout: failLink.
PingTimeout ==
  /\ Due /\ Expired
  /\ link_closed' = TRUE
  /\ UNCHANGED <<scenario, tick_age, pending, sent_age, pong_age, to_peer, from_peer, blocked,
                 alive, peer_pending>>

\* No ping outstanding and the last PONG is old: note the time, then enqueue; the
\* timer is set again when enqueueFrame returns.
SendPing ==
  /\ Due /\ ~Expired /\ LongIdle
  /\ pending' = TRUE /\ sent_age' = 0 /\ tick_age' = 0
  /\ to_peer' = Enqueue(to_peer, "PING")
  /\ UNCHANGED <<scenario, link_closed, pong_age, from_peer, blocked, alive, peer_pending>>

Idle ==
  /\ Due /\ ~Expired /\ ~LongIdle
  /\ tick_age' = 0
  /\ UNCHANGED <<scenario, link_closed, pending, sent_age, pong_age, to_peer, from_peer, blocked,
                 alive, peer_pending>>

\* A session sends a DATA frame.
SendData ==
  /\ Busy /\ ~link_closed /\ Len(to_peer) < QueueCap + Waiters
  /\ to_peer' = Enqueue(to_peer, "DATA")
  /\ UNCHANGED <<scenario, ours, from_peer, blocked, alive, peer_pending>>
-------------------------------------------------------------------------------
\* The peer: it reads a frame and answers a PING ...
PeerReceives ==
  /\ PeerReads /\ to_peer # <<>>
  /\ to_peer' = Tail(to_peer)
  /\ from_peer' = IF Head(to_peer).type = "PING" THEN Enqueue(from_peer, "PONG") ELSE from_peer
  /\ peer_pending' = (peer_pending /\ Head(to_peer).type # "PONG")
  /\ UNCHANGED <<scenario, ours, blocked, alive>>

\* ... its sessions and its heartbeat send ...
PeerSends(type) ==
  /\ Busy /\ alive /\ Len(from_peer) < QueueCap + Waiters
  /\ type = "PING" => BothPing /\ ~peer_pending
  /\ from_peer' = Enqueue(from_peer, type)
  /\ peer_pending' = (peer_pending \/ type = "PING")
  /\ UNCHANGED <<scenario, ours, to_peer, blocked, alive>>

\* ... and it may stop.
PeerDies ==
  /\ PeerMayDie /\ alive /\ alive' = FALSE
  /\ UNCHANGED <<scenario, ours, to_peer, from_peer, blocked, peer_pending>>
-------------------------------------------------------------------------------
Receive(type) ==
  /\ ~link_closed /\ Reads
  /\ from_peer # <<>> /\ Head(from_peer).type = type
  /\ from_peer' = Tail(from_peer)

\* PONG: the nonce matches, the ping is no longer outstanding.
OnPong ==
  /\ Receive("PONG")
  /\ pending' = FALSE /\ pong_age' = 0
  /\ UNCHANGED <<scenario, link_closed, tick_age, sent_age, to_peer, blocked, alive, peer_pending>>

\* PING: readerLoop itself queues the answer, and is suspended without room.
OnPing ==
  /\ Receive("PING")
  /\ to_peer' = Enqueue(to_peer, "PONG")
  /\ UNCHANGED <<scenario, ours, blocked, alive, peer_pending>>

\* DATA: with inbox_ full the reader is suspended until the session is read.
OnData ==
  /\ Receive("DATA")
  /\ blocked' \in {FALSE, SlowReader}
  /\ UNCHANGED <<scenario, ours, to_peer, alive, peer_pending>>

InboxDrained ==
  /\ blocked /\ blocked' = FALSE
  /\ UNCHANGED <<scenario, ours, to_peer, from_peer, alive, peer_pending>>
-------------------------------------------------------------------------------
Loop == PingTimeout \/ SendPing \/ Idle
Reader == OnPong \/ OnPing \/ OnData
HeartbeatNext ==
  \/ Tick \/ Loop \/ Reader \/ InboxDrained \/ SendData \/ PeerReceives \/ PeerDies
  \/ \E type \in {"DATA", "PING"} : PeerSends(type)

HeartbeatSpec == HeartbeatInit /\ [][HeartbeatNext]_heartbeatVars

\* Time passes and both ends run; neither sessions nor the peer's heartbeat owe
\* anything.
HeartbeatFairSpec ==
  /\ HeartbeatSpec
  /\ WF_heartbeatVars(Tick) /\ WF_heartbeatVars(Loop)
  /\ WF_heartbeatVars(Reader) /\ WF_heartbeatVars(PeerReceives)
-------------------------------------------------------------------------------
HeartbeatTypeOK ==
  /\ scenario \in Scenarios
  /\ {link_closed, pending, blocked, alive, peer_pending} \subseteq BOOLEAN
  /\ tick_age \in 0..TickLen
  /\ sent_age \in 0..(PongTimeout + TickLen + 1) /\ pong_age \in 0..(Bound + 1)
  /\ {Len(to_peer), Len(from_peer)} \subseteq 0..(QueueCap + Waiters + 2)

\* An open link has had a PONG, or was started, within ping_interval +
\* pong_timeout and two periods of the loop: a dead peer is noticed by then
\* (DESIGN.md section 3.6).  On a busy link it is not: with write_chan_ full the
\* loop is suspended in enqueueFrame and tests no timeout.
PongRecent == HeartbeatTypeOK /\ (~Busy /\ ~link_closed => pong_age <= Bound)

\* A round trip and the waits for room at both ends fit into pong_timeout: a queue
\* is emptied within MaxDelay, and when that has happened n times even the last of
\* those who wait has had room.
InTime ==
  \E n \in 1..(Waiters + 1) : Waiters < n * QueueCap /\ 2 * (n + 1) * MaxDelay <= PongTimeout

\* A link is closed for a ping timeout only when its peer has stopped
\* answering, if a round trip and the waits for room at both ends fit into
\* pong_timeout, no full inbox_ suspends readerLoop before a PONG, and the two
\* readers do not wait for each other.
NoFalseTimeout == link_closed /\ ~SlowReader /\ ~BothPing /\ InTime => ~alive

\* Both readers answer PING through a queue that only the other empties.  When
\* both wait for room the link does not hang: the PING one of them is answering is
\* outstanding at the other end, whose heartbeat loop cannot itself be waiting for
\* room, and which closes the link after pong_timeout.
JamEnds == Suspended(to_peer, "PONG") ~> (~Suspended(to_peer, "PONG") \/ link_closed)
===============================================================================
