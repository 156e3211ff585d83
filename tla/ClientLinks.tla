----------------------------- MODULE ClientLinks -----------------------------
(***************************************************************************)
(* The client side of the links: handle() calls of ShineOutbound share a   *)
(* pool of links, dial when it is empty, and open one session each; a link *)
(* keeps its sessions in a table, and failLink, closeNow and stop() end    *)
(* them.  Calls run on the worker threads, outside the strands of links:   *)
(* a step is a critical section of pool_mu_ or sessions_mu_, an access to  *)
(* an atomic, or a suspension.  A link lives on after the calls that use   *)
(* it: its own coroutines hold it until it is closed.  What a session does *)
(* between opening and closing is in Session.tla, what waitHandshake does  *)
(* in Handshake.tla.                                                       *)
(***************************************************************************)
EXTENDS Naturals, FiniteSets

CONSTANTS Calls,      \* handle() calls; each opens at most one session
          Links,      \* bound: links that may be dialled
          PoolSize,   \* cfg_.pool_size
          None        \* the null LinkPtr

ASSUME LinksAssumption == PoolSize \in Nat \ {0} /\ None \notin Links

VARIABLES
  pool,        \* pool_, whose order only rr_ sees
  stop_pc,     \* stop(): "idle", "flag" (stopping_ is set), "done"
  link,        \* "none", "live"; closed: "stopped" (closeNow), "failing", "failed" (failLink)
  pc, using,   \* where each call stands and the link it holds
  table,       \* sessions in the sessions_ of their links
  over,        \* sessions whose inbox is closed: a read returns
  resetting,   \* sessions failLink has copied and not reset yet
  wire,        \* sessions whose NEW the server has and has not lost
  before,      \* calls that had begun when stopping_ was set (history)
  pooled,      \* open links that have been in the pool (history)
  up_done, down_done,  \* relays whose half copy to, from the session has ended
  lost         \* sessions whose answer did not find them (history)

vars == <<pool, stop_pc, link, pc, using, table, over, resetting, wire, before, pooled,
          up_done, down_done, lost>>
poolVars == <<pool, stop_pc, before, pooled>>
halves == <<up_done, down_done>>
sessionVars == <<table, over, resetting, wire, halves, lost>>

Init ==
  /\ pool = {} /\ stop_pc = "idle"
  /\ link = [l \in Links |-> "none"]
  /\ pc = [c \in Calls |-> "start"] /\ using = [c \in Calls |-> None]
  /\ table = {} /\ over = {} /\ resetting = {} /\ wire = {}
  /\ before = {} /\ pooled = {} /\ lost = {} /\ up_done = {} /\ down_done = {}

Goto(c, there) == pc' = [pc EXCEPT ![c] = there]
Closed(l) == link[l] \in {"stopped", "failing", "failed"}
On(l) == {c \in Calls : using[c] = l}
-------------------------------------------------------------------------------
\* Mutant: the flag is not looked at.
BeginAlways(c) ==
  /\ pc[c] = "start" /\ Goto(c, "pick")
  /\ UNCHANGED <<poolVars, link, using, sessionVars>>

\* handle(): refuse once stop() has begun.
Begin(c) ==
  /\ pc[c] = "start"
  /\ Goto(c, IF stop_pc = "idle" THEN "pick" ELSE "done")
  /\ UNCHANGED <<poolVars, link, using, sessionVars>>

\* pickOrMakeLink, first critical section: drop closed links and take one;
\* rr_ only spreads the calls, so any pooled link may be the next.
Pick(c) ==
  /\ pc[c] = "pick"
  /\ pool' = {l \in pool : ~Closed(l)}
  /\ IF pool' = {}
       THEN Goto(c, "dial") /\ UNCHANGED using
       ELSE /\ \E l \in pool' : using' = [using EXCEPT ![c] = l]
            /\ Goto(c, "open")
  /\ UNCHANGED <<stop_pc, before, pooled, link, sessionVars>>

\* dialNewLink: resolve and connect, start the link, or give up.
Dial(c) ==
  /\ pc[c] = "dial" /\ Goto(c, "push")
  /\ \E l \in Links :
       /\ link[l] = "none"
       /\ link' = [link EXCEPT ![l] = "live"]
       /\ using' = [using EXCEPT ![c] = l]
  /\ UNCHANGED <<poolVars, sessionVars>>

DialFails(c) ==
  /\ pc[c] = "dial" /\ Goto(c, "done")
  /\ UNCHANGED <<poolVars, link, using, sessionVars>>

\* Mutant: the room found before the dial is not looked for again.
HasRoomAlways == TRUE

HasRoom == Cardinality(pool) < PoolSize

\* Second critical section: pool the link if there is room.
Push(c) ==
  /\ pc[c] = "push" /\ Goto(c, "open")
  /\ IF HasRoom THEN /\ pool' = pool \cup {using[c]}
                    /\ pooled' = pooled \cup ({using[c]} \ {l \in Links : Closed(l)})
               ELSE UNCHANGED <<pool, pooled>>
  /\ UNCHANGED <<stop_pc, before, link, using, sessionVars>>
-------------------------------------------------------------------------------
\* Mutant: NEW is queued before the session is registered.
OpenCheckSends(c) ==
  /\ pc[c] = "open" /\ Goto(c, IF Closed(using[c]) THEN "done" ELSE "checked")
  /\ wire' = IF Closed(using[c]) THEN wire ELSE wire \cup {c}
  /\ UNCHANGED <<poolVars, link, using, table, over, resetting, halves, lost>>

\* waitHandshake has returned; openSession tests closed_ ...
OpenCheck(c) ==
  /\ pc[c] = "open" /\ Goto(c, IF Closed(using[c]) THEN "done" ELSE "checked")
  /\ UNCHANGED <<poolVars, link, using, sessionVars>>

\* ... draws a sid and emplaces the session ...
OpenInsert(c) ==
  /\ pc[c] = "checked" /\ Goto(c, "inserted")
  /\ table' = table \cup {c}
  /\ UNCHANGED <<poolVars, link, using, over, resetting, wire, halves, lost>>

\* ... queues NEW (enqueueFrame drops it when the link is closed) and returns.
OpenReturn(c) ==
  /\ pc[c] = "inserted" /\ Goto(c, "relay")
  /\ wire' = IF Closed(using[c]) THEN wire ELSE wire \cup {c}
  /\ UNCHANGED <<poolVars, link, using, table, over, resetting, halves, lost>>

\* The server's CLOSE or RESET is dispatched: findSession must know a session
\* that is still relaying; its inbox is closed, which ends the session's reads.
\* RESET, and CLOSE when this side had closed already, erase the session.
Dispatch(c) ==
  /\ c \in wire /\ link[using[c]] = "live"
  /\ wire' = wire \ {c}
  /\ over' = IF c \in table THEN over \cup {c} ELSE over
  /\ lost' = IF c \in table \/ pc[c] = "done" THEN lost ELSE lost \cup {c}
  /\ table' \in {table, table \ {c}}
  /\ UNCHANGED <<poolVars, link, pc, using, resetting, halves>>

\* bidiCopy.  The half that feeds the session ends when the local stream ends or
\* a write fails, which nobody promises; shutdownWrite erases a session whose
\* other direction is closed (or onPeerClose, at the same moment, undoes it).
UpEnds(c) ==
  /\ pc[c] = "relay" /\ c \notin up_done /\ up_done' = up_done \cup {c}
  /\ table' \in {table} \cup (IF c \in over /\ ~Closed(using[c]) THEN {table \ {c}} ELSE {})
  /\ UNCHANGED <<poolVars, link, pc, using, over, resetting, wire, down_done, lost>>

\* The half that drains it ends when read() does ...
DownDone(c) ==
  /\ pc[c] = "relay" /\ c \notin down_done /\ down_done' = down_done \cup {c}
  /\ UNCHANGED <<poolVars, link, pc, using, table, over, resetting, wire, up_done, lost>>

DownEnds(c) == c \in over /\ DownDone(c)

\* ... or the local stream takes no more.
DownFails(c) == DownDone(c)

\* With both halves done bidiCopy closes the session, which erases it, and
\* handle() returns; an answer that comes later finds nothing.
RelayEnds(c) ==
  /\ pc[c] = "relay" /\ c \in up_done \cap down_done /\ Goto(c, "done")
  /\ table' = table \ {c} /\ over' = over \ {c}
  /\ up_done' = up_done \ {c} /\ down_done' = down_done \ {c}
  /\ UNCHANGED <<poolVars, link, using, resetting, wire, lost>>
-------------------------------------------------------------------------------
\* failLink, from any loop of the link: win the exchange of closed_, after which
\* nothing more is dispatched ...
FailExchange(l) ==
  /\ link[l] = "live" /\ link' = [link EXCEPT ![l] = "failing"] /\ pooled' = pooled \ {l}
  /\ wire' = wire \ On(l)
  /\ UNCHANGED <<pool, stop_pc, before, pc, using, table, over, resetting, halves, lost>>

\* Mutant: the table is cleared before it is copied, so nothing is.
CopiedLate(l) == {}

Copied(l) == table \cap On(l)

\* ... under sessions_mu_, copy and clear the table ...
FailClear(l) ==
  /\ link[l] = "failing" /\ link' = [link EXCEPT ![l] = "failed"]
  /\ resetting' = resetting \cup Copied(l) /\ table' = table \ On(l)
  /\ UNCHANGED <<poolVars, pc, using, over, wire, halves, lost>>

\* ... and reset each session copied.
FailReset(c) ==
  /\ c \in resetting
  /\ resetting' = resetting \ {c} /\ over' = over \cup {c}
  /\ UNCHANGED <<poolVars, link, pc, using, table, wire, halves, lost>>

\* stop(): the flag first, then closeNow on every pooled link; closeNow leaves
\* sessions_ alone, and a failLink that comes later loses the exchange.
StopFlag ==
  /\ stop_pc = "idle" /\ stop_pc' = "flag"
  /\ before' = {c \in Calls : pc[c] # "start"}
  /\ UNCHANGED <<pool, pooled, link, pc, using, sessionVars>>

StopPool ==
  /\ stop_pc = "flag" /\ stop_pc' = "done"
  /\ link' = [l \in Links |-> IF l \in pool /\ link[l] = "live"
                                THEN "stopped" ELSE link[l]]
  /\ wire' = wire \ UNION {On(l) : l \in pool} /\ pool' = {}
  /\ pooled' = {l \in pooled : link'[l] = "live"}
  /\ UNCHANGED <<before, pc, using, table, over, resetting, halves, lost>>
-------------------------------------------------------------------------------
Handle(c) == Begin(c) \/ Pick(c) \/ Dial(c) \/ DialFails(c) \/ Push(c)
             \/ OpenCheck(c) \/ OpenInsert(c) \/ OpenReturn(c) \/ DownEnds(c) \/ RelayEnds(c)

Next ==
  \/ \E c \in Calls : Handle(c) \/ UpEnds(c) \/ DownFails(c) \/ Dispatch(c) \/ FailReset(c)
  \/ \E l \in Links : FailExchange(l) \/ FailClear(l)
  \/ StopFlag \/ StopPool

Spec == Init /\ [][Next]_vars

\* Coroutines that can run do run; the server, the network and the local client
\* owe nothing.
FairSpec ==
  /\ Spec
  /\ \A c \in Calls : WF_vars(Handle(c)) /\ WF_vars(FailReset(c))
  /\ \A l \in Links : WF_vars(FailClear(l))
-------------------------------------------------------------------------------
\* The table's entries are sessions that were opened and have not ended, on
\* links whose table was not cleared before they were entered.
TypeOK ==
  /\ pool \subseteq Links /\ pooled \subseteq Links /\ stop_pc \in {"idle", "flag", "done"}
  /\ link \in [Links -> {"none", "live", "stopped", "failing", "failed"}]
  /\ pc \in [Calls -> {"start", "pick", "dial", "push", "open", "checked", "inserted",
                       "relay", "done"}]
  /\ using \in [Calls -> Links \cup {None}]
  /\ table \subseteq {c \in Calls : pc[c] \in {"inserted", "relay"}}
  /\ \A v \in {up_done, down_done} : v \subseteq {c \in Calls : pc[c] = "relay"}
  /\ \A v \in {over, resetting, wire, before, lost} : v \subseteq Calls

\* However many calls dial at once, the pool holds at most pool_size links,
\* each dialled and pushed once (in well-typed states).
PoolBounded ==
  /\ TypeOK
  /\ Cardinality(pool) <= PoolSize
  /\ \A l \in pool : link[l] # "none"
  /\ \A c \in Calls : pc[c] = "push" => using[c] \notin pool

\* No open link is out of stop()'s reach but those of calls that had begun: the
\* pool gives up a link only when it is closed (pickOrMakeLink drops the closed
\* ones, stop() closes before it clears), and a link that is open after stop()
\* belongs to a call that had begun before it, one that was still dialling or
\* had found the pool full.
StopBounds ==
  /\ pooled \subseteq pool
  /\ stop_pc = "done" =>
       \A l \in Links : link[l] = "live" => \E c \in before : using[c] = l

\* No answer is lost: the session is in the table before its NEW can reach the
\* server and until its relay is over, so the frame that answers it finds it.
AnswerFindsSession == lost = {}

\* A relay whose link has failed is over, or it only waits for its local client:
\* the session's reads have ended.  One that openSession entered after failLink
\* had cleared the table is the exception; nobody resets it.
Released(c) ==
  pc[c] \in {"inserted", "relay"} /\ link[using[c]] \in {"failing", "failed"} =>
    \/ c \in down_done \ up_done
    \/ link[using[c]] = "failed" /\ c \in table

\* failLink reaches every session but those: whatever opens, ends or stops at the
\* same time, no relay keeps waiting for a server that is gone.
RegisteredAreReset == \A c \in Calls : []<>Released(c)
===============================================================================
