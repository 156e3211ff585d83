--------------------------- MODULE LifecycleProofs ----------------------------
(***************************************************************************)
(* How links are kept and let go: the pool of a client and its session     *)
(* tables (module ClientLinks), and the inbound links and the coroutine of *)
(* a process that shuts down (module Shutdown).                            *)
(***************************************************************************)
EXTENDS ClientLinks, Shutdown, FiniteSetTheorems, TLAPS

(***************************************************************************)
(* The pool and the tables, for any number of calls and links and any      *)
(* pool size.                                                              *)
(***************************************************************************)

\* The link a call holds was dialled by it or found in the pool; until it is
\* pushed nobody else holds it.
UsingInv ==
  /\ \A c \in Calls : pc[c] \in {"start", "pick", "dial"} => using[c] = None
  /\ \A c \in Calls : pc[c] \in {"push", "open", "checked", "inserted", "relay"} =>
       using[c] \in Links
  /\ \A c \in Calls : using[c] \in Links => link[using[c]] # "none"
  /\ \A c \in Calls : pc[c] = "push" =>
       using[c] \notin pool /\ \A d \in Calls : using[d] = using[c] => d = c

\* The pool has room for what it holds, and only closed links leave it.
PoolInv ==
  /\ IsFiniteSet(pool) /\ Cardinality(pool) <= PoolSize
  /\ \A l \in pool : link[l] # "none"
  /\ pooled \subseteq {l \in pool : link[l] = "live"}

\* Every link has the call that dialled it; once stopping_ is set, a call that
\* had not begun gets no link.
StopInv ==
  /\ \A l \in Links : link[l] # "none" => \E c \in Calls : using[c] = l
  /\ stop_pc # "idle" =>
       \A c \in Calls \ before : pc[c] \in {"start", "done"} /\ using[c] = None

\* A session whose NEW is with the server is in the table of an open link until
\* its relay is over.
TableInv ==
  /\ \A c \in wire : /\ using[c] \in Links /\ link[using[c]] = "live"
                     /\ pc[c] = "done" \/ (pc[c] = "relay" /\ c \in table)
                     /\ c \notin over
  /\ \A c \in Calls : pc[c] = "inserted" => Closed(using[c]) \/ c \in table
  /\ \A c \in over : pc[c] = "relay" \/ (using[c] \in Links /\ Closed(using[c]))
  /\ \A c \in resetting : using[c] \in Links /\ Closed(using[c])
  /\ lost = {}

IndInv == TypeOK /\ UsingInv /\ PoolInv /\ StopInv /\ TableInv
-------------------------------------------------------------------------------
\* Nothing is dialled, held or pooled at the start.
LEMMA InitInv == Init => IndInv
<1> SUFFICES ASSUME Init PROVE IndInv  OBVIOUS
<1> USE DEF Init
<1>1. TypeOK  BY DEF TypeOK
<1>2. UsingInv  BY LinksAssumption DEF UsingInv
<1>3. PoolInv  BY FS_EmptySet, LinksAssumption DEF PoolInv
<1>4. StopInv  BY DEF StopInv
<1>5. TableInv  BY DEF TableInv
<1>. QED  BY <1>1, <1>2, <1>3, <1>4, <1>5 DEF IndInv

\* The steps of a call that change neither links nor tables.
LEMMA BeginInv ==
  ASSUME NEW c \in Calls, IndInv, Begin(c) \/ DialFails(c) \/ OpenCheck(c)
  PROVE  IndInv'
<1> USE DEF IndInv, Begin, DialFails, OpenCheck, Goto, poolVars, sessionVars, halves
<1>1. TypeOK'  BY DEF TypeOK
<1>2. UsingInv'  BY LinksAssumption DEF UsingInv, TypeOK
<1>3. PoolInv'  BY DEF PoolInv
<1>4. StopInv'  BY DEF StopInv, TypeOK
<1>5. TableInv'  BY DEF TableInv, TypeOK, Closed
<1>. QED  BY <1>1, <1>2, <1>3, <1>4, <1>5

\* A call that finds a live link in the pool holds it from then on; otherwise it will dial.
LEMMA PickInv == ASSUME NEW c \in Calls, IndInv, Pick(c) PROVE IndInv'
<1> USE DEF IndInv, Pick, Goto, sessionVars, halves
<1>1. TypeOK'  BY DEF TypeOK
<1>2. UsingInv'
  <2>1. CASE pool' = {}  BY <2>1 DEF UsingInv, TypeOK
  <2>2. CASE pool' # {}
    <3> PICK l \in pool' : using' = [using EXCEPT ![c] = l]  BY <2>2
    <3>1. l \in pool /\ l \in Links /\ link[l] # "none"  BY DEF PoolInv, TypeOK
    <3>2. pc' = [pc EXCEPT ![c] = "open"]  BY <2>2
    <3>. QED  BY <3>1, <3>2 DEF UsingInv, TypeOK
  <2>. QED  BY <2>1, <2>2
<1>3. PoolInv'
  <2>1. IsFiniteSet(pool') /\ Cardinality(pool') <= Cardinality(pool)
    BY FS_Subset DEF PoolInv
  <2>2. Cardinality(pool) \in Nat /\ Cardinality(pool') \in Nat /\ PoolSize \in Nat
    BY <2>1, FS_CardinalityType, LinksAssumption DEF PoolInv
  <2>3. Cardinality(pool') <= PoolSize  BY <2>1, <2>2 DEF PoolInv
  <2>. QED  BY <2>1, <2>3 DEF PoolInv, Closed
<1>4. StopInv'  BY LinksAssumption DEF StopInv, UsingInv, TypeOK
<1>5. TableInv'  BY LinksAssumption DEF TableInv, UsingInv, TypeOK, Closed
<1>. QED  BY <1>1, <1>2, <1>3, <1>4, <1>5

\* A link that has just been dialled is held by the call that dialled it, and by no other.
LEMMA DialInv == ASSUME NEW c \in Calls, IndInv, Dial(c) PROVE IndInv'
<1> PICK l \in Links : /\ link[l] = "none" /\ link' = [link EXCEPT ![l] = "live"]
                       /\ using' = [using EXCEPT ![c] = l]
  BY Zenon DEF Dial
<1> USE DEF IndInv, Dial, Goto, poolVars, sessionVars, halves
<1>1. TypeOK'  BY DEF TypeOK
<1>2. UsingInv'
  <2>1. l \notin pool /\ \A d \in Calls : using[d] # l  BY DEF UsingInv, PoolInv
  <2>2. pc' = [pc EXCEPT ![c] = "push"]  OBVIOUS
  <2>. QED  BY <2>1, <2>2 DEF UsingInv, TypeOK
<1>3. PoolInv'  BY DEF PoolInv, TypeOK
<1>4. StopInv'
  <2>1. \A k \in Links : link'[k] # "none" => \E d \in Calls : using'[d] = k
    BY LinksAssumption DEF StopInv, UsingInv, TypeOK
  <2>2. stop_pc' # "idle" =>
          \A d \in Calls \ before' : pc'[d] \in {"start", "done"} /\ using'[d] = None
    BY DEF StopInv, TypeOK
  <2>. QED  BY <2>1, <2>2 DEF StopInv
<1>5. TableInv'  BY LinksAssumption DEF TableInv, UsingInv, TypeOK, Closed
<1>. QED  BY <1>1, <1>2, <1>3, <1>4, <1>5

\* A link enters the pool only while there is room, and after the dead ones have left.
LEMMA PushInv == ASSUME NEW c \in Calls, IndInv, Push(c) PROVE IndInv'
<1> USE DEF IndInv, Push, Goto, sessionVars, halves
<1>1. TypeOK'  BY DEF TypeOK, UsingInv
<1>2. UsingInv'  BY LinksAssumption DEF UsingInv, TypeOK
<1>3. PoolInv'
  <2>1. CASE HasRoom
    <3>1. /\ IsFiniteSet(pool') /\ Cardinality(pool') = Cardinality(pool) + 1
      BY <2>1, FS_AddElement DEF PoolInv, UsingInv
    <3>2. Cardinality(pool') <= PoolSize
      BY <2>1, <3>1, FS_CardinalityType, LinksAssumption DEF HasRoom, PoolInv
    <3>3. \A l \in pool' : link'[l] # "none"  BY <2>1 DEF PoolInv, UsingInv
    <3>4. pooled' \subseteq {l \in pool' : link'[l] = "live"}
      BY <2>1 DEF PoolInv, UsingInv, TypeOK, Closed
    <3>. QED  BY <3>1, <3>2, <3>3, <3>4 DEF PoolInv
  <2>2. CASE ~HasRoom  BY <2>2 DEF PoolInv
  <2>. QED  BY <2>1, <2>2
<1>4. StopInv'  BY DEF StopInv, TypeOK
<1>5. TableInv'  BY DEF TableInv, TypeOK, Closed
<1>. QED  BY <1>1, <1>2, <1>3, <1>4, <1>5

\* openSession, and the relay to its end.
LEMMA OpenInv ==
  ASSUME NEW c \in Calls, IndInv,
         OpenInsert(c) \/ OpenReturn(c) \/ UpEnds(c) \/ DownDone(c) \/ RelayEnds(c)
  PROVE  IndInv'
<1> USE DEF IndInv, OpenInsert, OpenReturn, UpEnds, DownDone, RelayEnds, Goto, poolVars, halves
<1>1. TypeOK'  BY DEF TypeOK
<1>2. UsingInv'  BY DEF UsingInv, TypeOK
<1>3. PoolInv'  BY DEF PoolInv
<1>4. StopInv'  BY DEF StopInv, TypeOK
<1>5. TableInv'
  <2>1. CASE OpenInsert(c)  BY <2>1 DEF TableInv, TypeOK, Closed
  <2>2. CASE OpenReturn(c)  BY <2>2 DEF TableInv, UsingInv, TypeOK, Closed
  <2>3. CASE UpEnds(c)  BY <2>3 DEF TableInv, TypeOK, Closed
  <2>4. CASE DownDone(c)  BY <2>4 DEF TableInv, TypeOK, Closed
  <2>5. CASE RelayEnds(c)  BY <2>5, SMTT(20) DEF TableInv, TypeOK, Closed
  <2>. QED  BY <2>1, <2>2, <2>3, <2>4, <2>5
<1>. QED  BY <1>1, <1>2, <1>3, <1>4, <1>5

\* The dispatcher, and the reset of a session failLink has copied.
LEMMA DispatchInv ==
  ASSUME NEW c \in Calls, IndInv, Dispatch(c) \/ FailReset(c)
  PROVE  IndInv'
<1> USE DEF IndInv, Dispatch, FailReset, poolVars, halves
<1>1. TypeOK'  BY DEF TypeOK
<1>2. UsingInv'  BY DEF UsingInv
<1>3. PoolInv'  BY DEF PoolInv
<1>4. StopInv'  BY DEF StopInv
<1>5. TableInv'
  <2>1. CASE Dispatch(c)  BY <2>1 DEF TableInv, TypeOK, Closed
  <2>2. CASE FailReset(c)  BY <2>2 DEF TableInv, TypeOK, Closed
  <2>. QED  BY <2>1, <2>2
<1>. QED  BY <1>1, <1>2, <1>3, <1>4, <1>5

\* A link that fails stays where it is, and clearing its table removes sessions only.
LEMMA FailInv == ASSUME NEW l \in Links, IndInv, FailExchange(l) \/ FailClear(l) PROVE IndInv'
<1> USE DEF IndInv, FailExchange, FailClear, Copied, On, poolVars, halves
<1>1. TypeOK'  BY DEF TypeOK
<1>2. UsingInv'  BY DEF UsingInv, TypeOK
<1>3. PoolInv'  BY DEF PoolInv, TypeOK
<1>4. StopInv'  BY DEF StopInv, TypeOK
<1>5. TableInv'
  <2>1. CASE FailExchange(l)  BY <2>1 DEF TableInv, UsingInv, TypeOK, Closed
  <2>2. CASE FailClear(l)  BY <2>2 DEF TableInv, UsingInv, TypeOK, Closed
  <2>. QED  BY <2>1, <2>2
<1>. QED  BY <1>1, <1>2, <1>3, <1>4, <1>5

\* stopping_ sorts the calls into those that had begun and those that had not.
LEMMA StopFlagInv == IndInv /\ StopFlag => IndInv'
<1> SUFFICES ASSUME IndInv, StopFlag PROVE IndInv'  OBVIOUS
<1> USE DEF IndInv, StopFlag, sessionVars, halves
<1>1. TypeOK'  BY DEF TypeOK
<1>2. UsingInv'  BY DEF UsingInv
<1>3. PoolInv'  BY DEF PoolInv
<1>4. StopInv'  BY DEF StopInv, UsingInv
<1>5. TableInv'  BY DEF TableInv, Closed
<1>. QED  BY <1>1, <1>2, <1>3, <1>4, <1>5

\* stop() closes the links of the pool; the others have calls that had begun.
LEMMA StopPoolInv == IndInv /\ StopPool => IndInv'
<1> SUFFICES ASSUME IndInv, StopPool PROVE IndInv'  OBVIOUS
<1> USE DEF IndInv, StopPool, On, halves
<1>1. TypeOK'  BY DEF TypeOK
<1>2. UsingInv'  BY DEF UsingInv, TypeOK
<1>3. PoolInv'  BY FS_EmptySet, LinksAssumption DEF PoolInv, TypeOK
<1>4. StopInv'  BY DEF StopInv, TypeOK
<1>5. TableInv'  BY DEF TableInv, UsingInv, TypeOK, Closed
<1>. QED  BY <1>1, <1>2, <1>3, <1>4, <1>5

\* Every step keeps the invariant.
LEMMA IndInvAlways == Spec => []IndInv
<1>1. IndInv /\ [Next]_vars => IndInv'
  <2> SUFFICES ASSUME IndInv, [Next]_vars PROVE IndInv'  OBVIOUS
  <2>1. ASSUME NEW c \in Calls,
               Handle(c) \/ UpEnds(c) \/ DownFails(c) \/ Dispatch(c) \/ FailReset(c)
        PROVE  IndInv'
    BY <2>1, BeginInv, PickInv, DialInv, PushInv, OpenInv, DispatchInv
       DEF Handle, DownEnds, DownFails
  <2>2. ASSUME NEW l \in Links, FailExchange(l) \/ FailClear(l) PROVE IndInv'
    BY <2>2, FailInv
  <2>3. CASE StopFlag \/ StopPool  BY <2>3, StopFlagInv, StopPoolInv
  <2>4. CASE UNCHANGED vars
    BY <2>4 DEF vars, IndInv, TypeOK, UsingInv, PoolInv, StopInv, TableInv, Closed
  <2>. QED  BY <2>1, <2>2, <2>3, <2>4 DEF Next
<1>. QED  BY InitInv, <1>1, PTL DEF Spec

\* For any number of calls that dial at once, pickOrMakeLink keeps the pool
\* within pool_size and pushes a link once.
THEOREM PoolNeverExceeds == Spec => []PoolBounded
<1>1. IndInv => PoolBounded  BY DEF IndInv, PoolInv, UsingInv, PoolBounded
<1>. QED  BY <1>1, IndInvAlways, PTL

\* For any number of calls and links, the pool gives up only closed links, and
\* what is open after stop() belongs to a call that had begun before.
THEOREM StopReaches == Spec => []StopBounds
<1>1. IndInv => StopBounds
  BY LinksAssumption DEF IndInv, PoolInv, StopInv, StopBounds, TypeOK
<1>. QED  BY <1>1, IndInvAlways, PTL

\* For any number of sessions, the answer to a NEW finds its session, although
\* the table is entered, cleared and looked up by different threads.
THEOREM AnswersArrive == Spec => []AnswerFindsSession
<1>1. IndInv => AnswerFindsSession  BY DEF IndInv, TableInv, AnswerFindsSession
<1>. QED  BY <1>1, IndInvAlways, PTL
-------------------------------------------------------------------------------
(***************************************************************************)
(* Safety of the shutdown for any number of worker threads, relays and     *)
(* inbound links.                                                          *)
(***************************************************************************)

Unwinding == {"unwind", "~Scheduler", "returned"}

\* The coroutine exists only when start-up succeeded; main unwinds either
\* without it or after every worker has left io_.run().
CoInv ==
    /\ main = "starting" => co = "none"
    /\ co = "none" => \A w \in Workers : run[w] # "co"
    /\ main \in Unwinding => co = "none" \/ \A w \in Workers : run[w] = "exited"

\* stop() sets stopping_ before it takes links_mu_.
ShutdownStopInv ==
    /\ main = "links" => stopping
    /\ co = "links" => stopping
    /\ cleared => stopping

\* One worker at a time runs acceptLoop, and only it holds a link that is open
\* and not in links_.
AcceptInv ==
    /\ \A w \in Workers : run[w] = "accept" => accept \in InboundLinks
    /\ \A v, w \in Workers : run[v] = "accept" /\ run[w] = "accept" => v = w
    /\ open \ kept \subseteq {accept}
    /\ accept = "done" => stopping

\* After stop() at most one link is open: the one acceptLoop holds or pushed last.
ClearedInv ==
    cleared => /\ \E l \in InboundLinks \cup {"wait"} : open \subseteq {l}
               /\ accept # "done" => open \subseteq {accept}

ShutdownInv == ShutdownTypeOK /\ CoInv /\ ShutdownStopInv /\ AcceptInv /\ ClearedInv
-------------------------------------------------------------------------------
\* Before start-up there is no coroutine and no link.
LEMMA ShutdownStarts == ShutdownInit => ShutdownInv
<1> SUFFICES ASSUME ShutdownInit PROVE ShutdownInv  OBVIOUS
<1> USE DEF ShutdownInit
<1>1. ShutdownTypeOK  BY Zenon DEF ShutdownTypeOK
<1>2. CoInv  BY DEF CoInv, Unwinding
<1>3. ShutdownStopInv  BY DEF ShutdownStopInv
<1>4. AcceptInv  BY DEF AcceptInv
<1>5. ClearedInv  BY DEF ClearedInv
<1>. QED  BY <1>1, <1>2, <1>3, <1>4, <1>5 DEF ShutdownInv

\* What main does.
LEMMA MainInv == ShutdownInv /\ Main => ShutdownInv'
<1> SUFFICES ASSUME ShutdownInv, Main PROVE ShutdownInv'  OBVIOUS
<1> USE DEF ShutdownInv, StartUp, StartFails, MainRegisters, MainStops, MainStopsScheduler,
            MainJoins, Unwind, Return, MainTo, StopAccepting, StopLinks, stop, sched, inbound
<1>1. ShutdownTypeOK'
  <2> USE DEF ShutdownTypeOK
  <2>1. CASE StartUp  BY <2>1
  <2>2. CASE StartFails  BY <2>2
  <2>3. CASE MainRegisters  BY <2>3
  <2>4. CASE MainStops
    <3>1. CASE MainTo("wait", "inbounds") /\ UNCHANGED inbound  BY <2>4, <3>1
    <3>2. CASE MainTo("inbounds", "links") /\ StopAccepting  BY <2>4, <3>2
    <3>3. CASE MainTo("links", "outbounds") /\ StopLinks  BY <2>4, <3>3
    <3>4. CASE MainTo("outbounds", "exporter") /\ UNCHANGED inbound  BY <2>4, <3>4
    <3>. QED  BY <2>4, <3>1, <3>2, <3>3, <3>4, Zenon
  <2>5. CASE MainStopsScheduler
    <3>1. CASE stopped  BY <2>5, <3>1
    <3>2. CASE ~stopped  BY <2>5, <3>2, Zenon
    <3>. QED  BY <3>1, <3>2
  <2>6. CASE MainJoins  BY <2>6
  <2>7. CASE Unwind
    <3>1. CASE stopped  BY <2>7, <3>1
    <3>2. CASE ~stopped  BY <2>7, <3>2, Zenon
    <3>. QED  BY <3>1, <3>2
  <2>8. CASE Return  BY <2>8
  <2>. QED  BY <2>1, <2>2, <2>3, <2>4, <2>5, <2>6, <2>7, <2>8, Zenon DEF Main
<1>2. CoInv'  BY DEF Main, CoInv, Unwinding, joined
<1>3. ShutdownStopInv'  BY DEF Main, ShutdownStopInv
<1>4. AcceptInv'  BY DEF Main, AcceptInv
<1>5. ClearedInv'  BY ShutdownAssumption, Zenon DEF Main, ClearedInv, AcceptInv, ShutdownTypeOK
<1>. QED  BY <1>1, <1>2, <1>3, <1>4, <1>5

\* The signal, the timer and the links.
LEMMA OthersInv ==
  ShutdownInv /\ (Signal \/ GraceOver \/ (\E l \in InboundLinks : LinkCloses(l))) => ShutdownInv'
<1> SUFFICES ASSUME ShutdownInv, Signal \/ GraceOver \/ (\E l \in InboundLinks : LinkCloses(l)) PROVE ShutdownInv'
  OBVIOUS
<1> USE DEF ShutdownInv, Signal, GraceOver, LinkCloses, Registered, sched, inbound
<1>1. ShutdownTypeOK'
  <2> USE DEF ShutdownTypeOK
  <2>1. CASE Signal  BY <2>1
  <2>2. CASE GraceOver  BY <2>2
  <2>3. CASE \E l \in InboundLinks : LinkCloses(l)  BY <2>3
  <2>. QED  BY <2>1, <2>2, <2>3, Zenon
<1>2. CoInv'  BY DEF CoInv, Unwinding
<1>3. ShutdownStopInv'  BY DEF ShutdownStopInv
<1>4. AcceptInv'  BY DEF AcceptInv
<1>5. ClearedInv'  BY Zenon DEF ClearedInv
<1>. QED  BY <1>1, <1>2, <1>3, <1>4, <1>5

\* The steps of the termination coroutine.
LEMMA CoroutineInv ==
  ASSUME NEW w \in Workers, ShutdownInv,
         CoRegisters(w) \/ CoResumes(w) \/ CoStopsInbounds(w) \/ CoStopsRest(w)
  PROVE  ShutdownInv'
<1> USE DEF ShutdownInv, CoRegisters, CoResumes, CoStopsInbounds, CoStopsRest, CanRun,
            StopAccepting, StopLinks, sched, inbound
<1>1. ShutdownTypeOK'
  <2> USE DEF ShutdownTypeOK
  <2>1. CASE CoRegisters(w)  BY <2>1
  <2>2. CASE CoResumes(w)  BY <2>2
  <2>3. CASE CoStopsInbounds(w)
    <3>1. CASE co = "inbounds"  BY <2>3, <3>1
    <3>2. CASE co = "links"  BY <2>3, <3>2
    <3>. QED  BY <2>3, <3>1, <3>2
  <2>4. CASE CoStopsRest(w)  BY <2>4, SMTT(20)
  <2>. QED  BY <2>1, <2>2, <2>3, <2>4, Zenon
<1>2. CoInv'  BY DEF CoInv, Unwinding, ShutdownTypeOK
<1>3. ShutdownStopInv'  BY DEF ShutdownStopInv
<1>4. AcceptInv'  BY DEF AcceptInv, ShutdownTypeOK
<1>a. /\ accept' = accept
      /\ \/ open' = open /\ cleared' = cleared
         \/ open' = open \ kept
  BY Zenon
<1>b. /\ accept \in InboundLinks \cup {"wait", "done"} /\ open \subseteq InboundLinks
      /\ open \ kept \subseteq {accept} /\ "done" \notin InboundLinks
  BY ShutdownAssumption DEF AcceptInv, ShutdownTypeOK
<1>5. ClearedInv'
  <2>1. CASE open' = open /\ cleared' = cleared  BY <1>a, <2>1, Zenon DEF ClearedInv
  <2>2. CASE open' = open \ kept  BY <1>a, <1>b, <2>2 DEF ClearedInv
  <2>. QED  BY <1>a, <2>1, <2>2, Zenon
<1>. QED  BY <1>1, <1>2, <1>3, <1>4, <1>5

\* The relays, and a worker that leaves io_.run().
LEMMA RelayInv ==
  ASSUME NEW w \in Workers, ShutdownInv,
         WorkerExits(w) \/ \E s \in Sessions : SessionRuns(w, s) \/ SessionYields(w, s)
  PROVE  ShutdownInv'
<1> USE DEF ShutdownInv, WorkerExits, SessionRuns, SessionYields, CanRun, sched, inbound
<1>1. ShutdownTypeOK'
  <2> USE DEF ShutdownTypeOK
  <2>1. CASE WorkerExits(w)  BY <2>1
  <2>2. ASSUME NEW s \in Sessions, SessionRuns(w, s) PROVE ShutdownTypeOK'  BY <2>2
  <2>3. ASSUME NEW s \in Sessions, SessionYields(w, s) PROVE ShutdownTypeOK'  BY <2>3
  <2>. QED  BY <2>1, <2>2, <2>3
<1>u. /\ main' = main /\ co' = co /\ stopping' = stopping /\ cleared' = cleared
      /\ accept' = accept /\ kept' = kept /\ open' = open
  BY Zenon
<1>r. \E x \in Sessions \cup {"idle", "exited"} : run' = [run EXCEPT ![w] = x]
  BY ZenonT(30)
<1>x. run[w] # "exited" /\ ("idle" \notin Sessions /\ "exited" \notin Sessions)
  BY ShutdownAssumption, ZenonT(30)
<1>2. CoInv'
  BY <1>u, <1>r, <1>x, ShutdownAssumption DEF CoInv, Unwinding, ShutdownTypeOK
<1>3. ShutdownStopInv'  BY <1>u, Zenon DEF ShutdownStopInv
<1>4. AcceptInv'  BY <1>u, <1>r, ShutdownAssumption DEF AcceptInv, ShutdownTypeOK
<1>5. ClearedInv'  BY <1>u, ZenonT(30) DEF ClearedInv
<1>. QED  BY <1>1, <1>2, <1>3, <1>4, <1>5, ZenonT(30)

\* acceptLoop.
LEMMA AcceptLoopInv ==
  ASSUME NEW w \in Workers, ShutdownInv, Accepts(w) \/ AcceptPushes(w) \/ AcceptFails(w)
  PROVE  ShutdownInv'
<1> USE DEF ShutdownInv, Accepts, AcceptPushes, AcceptFails, Pruned, CanRun, sched
<1>1. ShutdownTypeOK'
  <2> USE DEF ShutdownTypeOK
  <2>1. CASE Accepts(w)  BY <2>1
  <2>2. CASE AcceptPushes(w)  BY <2>2 DEF AcceptInv
  <2>3. CASE AcceptFails(w)  BY <2>3
  <2>. QED  BY <2>1, <2>2, <2>3
<1>2. CoInv'  BY SMTT(20) DEF CoInv, Unwinding, ShutdownTypeOK
<1>3. ShutdownStopInv'  BY SMTT(20) DEF ShutdownStopInv
<1>4. AcceptInv'
  <2>1. CASE Accepts(w)  BY <2>1, ShutdownAssumption DEF AcceptInv, ShutdownTypeOK
  <2>2. CASE AcceptPushes(w)  BY <2>2, ShutdownAssumption DEF AcceptInv, ShutdownTypeOK
  <2>3. CASE AcceptFails(w)  BY <2>3, ShutdownAssumption, SMTT(20) DEF AcceptInv, ShutdownTypeOK
  <2>. QED  BY <2>1, <2>2, <2>3
<1>5. ClearedInv'
  <2>1. CASE Accepts(w)  BY <2>1 DEF ClearedInv, ShutdownStopInv
  <2>2. CASE AcceptPushes(w)  BY <2>2, ShutdownAssumption DEF ClearedInv, ShutdownStopInv, AcceptInv
  <2>3. CASE AcceptFails(w)  BY <2>3 DEF ClearedInv
  <2>. QED  BY <2>1, <2>2, <2>3
<1>. QED  BY <1>1, <1>2, <1>3, <1>4, <1>5, ZenonT(30)

\* Every step of main, of a worker and of acceptLoop keeps the invariant.
LEMMA ShutdownAlways == ShutdownSpec => []ShutdownInv
<1>1. ShutdownInv /\ [ShutdownNext]_shutdownVars => ShutdownInv'
  <2> SUFFICES ASSUME ShutdownInv, [ShutdownNext]_shutdownVars PROVE ShutdownInv'  OBVIOUS
  <2>1. CASE Main  BY <2>1, MainInv
  <2>2. CASE Signal \/ GraceOver \/ \E l \in InboundLinks : LinkCloses(l)  BY <2>2, OthersInv
  <2>3. ASSUME NEW w \in Workers,
               Worker(w) \/ Accepts(w) \/ \E s \in Sessions : SessionRuns(w, s)
        PROVE  ShutdownInv'
    BY <2>3, CoroutineInv, RelayInv, AcceptLoopInv DEF Worker
  <2>4. CASE UNCHANGED shutdownVars
    BY <2>4 DEF shutdownVars, ShutdownInv, ShutdownTypeOK, CoInv, ShutdownStopInv, AcceptInv, ClearedInv, Unwinding
  <2>. QED  BY <2>1, <2>2, <2>3, <2>4 DEF ShutdownNext
<1>. QED  BY ShutdownStarts, <1>1, PTL DEF ShutdownSpec

\* For any number of threads and relays, the termination coroutine does not run
\* once main has begun to destroy what it refers to.
THEOREM MainOutlivesCoroutine == ShutdownSpec => []NoUseAfterReturn
<1>1. ShutdownInv => NoUseAfterReturn
  BY DEF ShutdownInv, CoInv, NoUseAfterReturn, Unwinding
<1>. QED  BY <1>1, ShutdownAlways, PTL

\* For any number of links, stop() of ShineInbound leaves at most one open, and
\* only one that acceptLoop had made and not pushed yet.
THEOREM LinksClosed == ShutdownSpec => []StopClosesLinks
<1>1. ShutdownInv => StopClosesLinks
  <2> SUFFICES ASSUME ShutdownInv, cleared
               PROVE  Cardinality(open) <= 1 /\ \A l \in open : accept \in {l, "done"}
    BY DEF StopClosesLinks
  <2>1. PICK l : open \subseteq {l}  BY DEF ShutdownInv, ClearedInv
  <2>2. IsFiniteSet({l}) /\ Cardinality({l}) = 1  BY FS_Singleton, Zenon
  <2>3. Cardinality(open) <= 1  BY <2>1, <2>2, FS_Subset
  <2>4. \A k \in open : accept \in {k, "done"}
    BY DEF ShutdownInv, ClearedInv
  <2>. QED  BY <2>3, <2>4
<1>. QED  BY <1>1, ShutdownAlways, PTL
===============================================================================
