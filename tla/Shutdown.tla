------------------------------ MODULE Shutdown ------------------------------
(***************************************************************************)
(* The life of the process: main, the worker threads of Scheduler, and the *)
(* two parties that react to SIGTERM, the signal set main waits on and the *)
(* coroutine waitForTermination that main spawned on the workers.  Asio    *)
(* hands a signal to every signal_set registered when it arrives; while    *)
(* there is none the signal ends the process.  Both parties stop the       *)
(* inbounds; one of these is a ShineInbound, with its accept loop and the  *)
(* links it keeps.                                                         *)
(*                                                                         *)
(* The handlers of io_ are the termination coroutine, the accept loop and  *)
(* the sessions; the timer of a year that main also spawns is work that    *)
(* never ends.                                                             *)
(***************************************************************************)
EXTENDS Naturals, FiniteSets

CONSTANTS
    Workers,        \* threads of Scheduler
    Sessions,       \* relays in flight
    InboundLinks    \* bound: links a ShineInbound may accept

ASSUME ShutdownAssumption ==
    /\ InboundLinks \cap {"wait", "done"} = {}
    /\ Sessions \cap {"idle", "co", "accept", "exited"} = {}

VARIABLES
    main,       \* where main is
    sent,       \* SIGINT or SIGTERM was sent (once)
    got,        \* the signal sets it was handed to: "main", "co"
    co,         \* the termination coroutine
    grace,      \* graceful_timeout: "off", "running", "over"
    run,        \* run[w]: "idle", "co", "accept", a session, or "exited"
    guard,      \* guard_ still holds work
    ioStopped,  \* io_.stop() was called
    stopped,    \* stopped_ of Scheduler
    live,       \* sessions that have not ended
    stopping,   \* ShineInbound: stopping_ is set and acceptor_ closed
    cleared,    \* a call of ShineInbound::stop has returned
    accept,     \* acceptLoop: "wait", the link it has made, "done"
    kept,       \* links_
    open        \* links that are not closed

shutdownVars == <<main, sent, got, co, grace, run, guard, ioStopped, stopped, live,
                  stopping, cleared, accept, kept, open>>
sched == <<guard, ioStopped, stopped>>
inbound == <<stopping, cleared, accept, kept, open>>

\* sched.run() has started the workers; the inbounds are being started.
ShutdownInit ==
    /\ main = "starting" /\ sent = FALSE /\ got = {} /\ co = "none" /\ grace = "off"
    /\ run = [w \in Workers |-> "idle"] /\ guard = TRUE /\ ioStopped = FALSE
    /\ stopped = FALSE /\ live = Sessions
    /\ stopping = FALSE /\ cleared = FALSE /\ accept = "wait" /\ kept = {} /\ open = {}

(***************************************************************************)
(* main.                                                                   *)
(***************************************************************************)
MainTo(here, there) == main = here /\ main' = there

\* All inbounds are started; the coroutines are spawned.
StartUp ==
    /\ MainTo("starting", "spawned") /\ co' = "spawned"
    /\ UNCHANGED <<sent, got, grace, run, sched, live, inbound>>

\* An inbound fails to start: return 2, straight to ~Scheduler.
StartFails ==
    /\ MainTo("starting", "unwind")
    /\ UNCHANGED <<sent, got, co, grace, run, sched, live, inbound>>

\* main constructs its signal set and waits.
MainRegisters ==
    /\ MainTo("spawned", "wait")
    /\ UNCHANGED <<sent, got, co, grace, run, sched, live, inbound>>

Registered ==
    {p \in {"main", "co"} :
        IF p = "main" THEN main \notin {"starting", "spawned", "unwind"}
        ELSE co \notin {"none", "spawned"}}

Signal ==
    /\ main \in {"starting", "spawned", "wait"} /\ ~sent /\ sent' = TRUE
    /\ got' = Registered
    /\ main' = IF Registered = {} THEN "killed" ELSE main
    /\ UNCHANGED <<co, grace, run, sched, live, inbound>>

\* ShineInbound::stop: the flag and the acceptor, then the links under links_mu_.
StopAccepting == stopping' = TRUE /\ UNCHANGED <<cleared, accept, kept, open>>

StopLinks ==
    /\ open' = open \ kept /\ kept' = {} /\ cleared' = TRUE
    /\ UNCHANGED <<stopping, accept>>

\* The handler of main's signal set: inbounds, outbounds, exporter, scheduler.
MainStops ==
    /\ \/ "main" \in got /\ MainTo("wait", "inbounds") /\ UNCHANGED inbound
       \/ MainTo("inbounds", "links") /\ StopAccepting
       \/ MainTo("links", "outbounds") /\ StopLinks
       \/ MainTo("outbounds", "exporter") /\ UNCHANGED inbound
    /\ UNCHANGED <<sent, got, co, grace, run, sched, live>>

\* Mutant: only the work guard is reset.
stopGuardOnly ==
    IF stopped THEN UNCHANGED sched
    ELSE guard' = FALSE /\ stopped' = TRUE /\ UNCHANGED ioStopped

\* Scheduler::stop.
stop ==
    IF stopped THEN UNCHANGED sched
    ELSE guard' = FALSE /\ ioStopped' = TRUE /\ stopped' = TRUE

MainStopsScheduler ==
    /\ MainTo("exporter", "join") /\ stop
    /\ UNCHANGED <<sent, got, co, grace, run, live, inbound>>

\* Mutant: join waits for one thread.
joinedAny == \E w \in Workers : run[w] = "exited"

\* Scheduler::join returns.
joined == \A w \in Workers : run[w] = "exited"

MainJoins ==
    /\ MainTo("join", "unwind") /\ joined
    /\ UNCHANGED <<sent, got, co, grace, run, sched, live, inbound>>

\* main's locals die (those the coroutine refers to), then ~Scheduler stops.
Unwind ==
    /\ MainTo("unwind", "~Scheduler") /\ stop
    /\ UNCHANGED <<sent, got, co, grace, run, live, inbound>>

Return ==
    /\ MainTo("~Scheduler", "returned") /\ joined
    /\ UNCHANGED <<sent, got, co, grace, run, sched, live, inbound>>

(***************************************************************************)
(* The workers: io_.run().                                                 *)
(***************************************************************************)
CanRun(w) == run[w] = "idle" /\ ~ioStopped /\ main # "killed"

\* The coroutine starts: it registers its signal set.
CoRegisters(w) ==
    /\ CanRun(w) /\ co = "spawned" /\ co' = "wait"
    /\ UNCHANGED <<main, sent, got, grace, run, sched, live, inbound>>

\* The coroutine is resumed by the signal or by its timer.
CoResumes(w) ==
    /\ CanRun(w)
    /\ \/ co = "wait" /\ "co" \in got /\ co' = "inbounds"
       \/ co = "timer" /\ grace = "over" /\ co' = "outbounds"
    /\ run' = [run EXCEPT ![w] = "co"]
    /\ UNCHANGED <<main, sent, got, grace, sched, live, inbound>>

\* It stops the inbounds and waits for graceful_timeout.
CoStopsInbounds(w) ==
    /\ run[w] = "co"
    /\ \/ co = "inbounds" /\ co' = "links" /\ StopAccepting /\ UNCHANGED <<grace, run>>
       \/ /\ co = "links" /\ co' = "timer" /\ StopLinks
          /\ grace' = "running" /\ run' = [run EXCEPT ![w] = "idle"]
    /\ UNCHANGED <<main, sent, got, sched, live>>

\* After it, it stops the outbounds and the exporter, and ends.
CoStopsRest(w) ==
    /\ run[w] = "co"
    /\ \/ co = "outbounds" /\ co' = "exporter" /\ UNCHANGED run
       \/ co = "exporter" /\ co' = "done" /\ run' = [run EXCEPT ![w] = "idle"]
    /\ UNCHANGED <<main, sent, got, grace, sched, live, inbound>>

GraceOver ==
    /\ grace = "running" /\ grace' = "over"
    /\ UNCHANGED <<main, sent, got, co, run, sched, live, inbound>>

SessionRuns(w, s) ==
    /\ CanRun(w) /\ s \in live /\ \A v \in Workers : run[v] # s
    /\ run' = [run EXCEPT ![w] = s]
    /\ UNCHANGED <<main, sent, got, co, grace, sched, live, inbound>>

\* Its handler returns: the relay awaits again, or has ended.
SessionYields(w, s) ==
    /\ run[w] = s /\ run' = [run EXCEPT ![w] = "idle"]
    /\ live' \in {live, live \ {s}}
    /\ UNCHANGED <<main, sent, got, co, grace, sched, inbound>>

\* acceptLoop: a connection comes, its link is made and started ...
Accepts(w) ==
    /\ CanRun(w) /\ accept = "wait" /\ ~stopping
    /\ \E l \in InboundLinks \ (open \cup kept) : accept' = l /\ open' = open \cup {l}
    /\ run' = [run EXCEPT ![w] = "accept"]
    /\ UNCHANGED <<main, sent, got, co, grace, sched, live, stopping, cleared, kept>>

\* Mutant: the links that are not closed are erased.
PrunedOpen == kept \ open

Pruned == kept \cap open

\* ... pushed, after the closed ones are erased; then the flag is tested again.
AcceptPushes(w) ==
    /\ run[w] = "accept" /\ run' = [run EXCEPT ![w] = "idle"]
    /\ kept' = Pruned \cup {accept}
    /\ accept' = IF stopping THEN "done" ELSE "wait"
    /\ UNCHANGED <<main, sent, got, co, grace, sched, live, stopping, cleared, open>>

\* The acceptor is closed under async_accept, or before it.
AcceptFails(w) ==
    /\ CanRun(w) /\ accept = "wait" /\ stopping /\ accept' = "done"
    /\ UNCHANGED <<main, sent, got, co, grace, run, sched, live, stopping, cleared, kept, open>>

\* A link fails or its peer leaves.
LinkCloses(l) ==
    /\ l \in open /\ main # "killed" /\ open' = open \ {l}
    /\ UNCHANGED <<main, sent, got, co, grace, run, sched, live, stopping, cleared, accept, kept>>

\* The year's timer: io_ has work as long as it is not stopped.
HasWork == guard \/ co # "none"

WorkerExits(w) ==
    /\ run[w] = "idle" /\ (ioStopped \/ ~HasWork)
    /\ run' = [run EXCEPT ![w] = "exited"]
    /\ UNCHANGED <<main, sent, got, co, grace, sched, live, inbound>>

Main ==
    \/ StartUp \/ StartFails \/ MainRegisters \/ MainStops \/ MainStopsScheduler \/ MainJoins
    \/ Unwind \/ Return

Worker(w) ==
    \/ CoRegisters(w) \/ CoResumes(w) \/ CoStopsInbounds(w) \/ CoStopsRest(w) \/ WorkerExits(w)
    \/ AcceptPushes(w) \/ AcceptFails(w) \/ \E s \in Sessions : SessionYields(w, s)

ShutdownNext ==
    \/ Main \/ Signal \/ GraceOver
    \/ \E w \in Workers : Worker(w) \/ Accepts(w) \/ \E s \in Sessions : SessionRuns(w, s)
    \/ \E l \in InboundLinks : LinkCloses(l)

ShutdownSpec == ShutdownInit /\ [][ShutdownNext]_shutdownVars

\* The operating system schedules every thread; no handler runs forever.
ShutdownFairSpec ==
    ShutdownSpec /\ WF_shutdownVars(Main) /\ \A w \in Workers : WF_shutdownVars(Worker(w))
-----------------------------------------------------------------------------
(***************************************************************************)
(* The types of the variables.                                             *)
(***************************************************************************)
ShutdownTypeOK ==
    /\ main \in {"starting", "spawned", "killed", "wait", "inbounds", "links", "outbounds",
                 "exporter", "join", "unwind", "~Scheduler", "returned"}
    /\ co \in {"none", "spawned", "wait", "inbounds", "links", "timer", "outbounds", "exporter", "done"}
    /\ grace \in {"off", "running", "over"} /\ sent \in BOOLEAN
    /\ got \subseteq {"main", "co"}
    /\ run \in [Workers -> {"idle", "co", "accept", "exited"} \cup Sessions]
    /\ guard \in BOOLEAN /\ ioStopped \in BOOLEAN /\ stopped \in BOOLEAN /\ live \subseteq Sessions
    /\ stopping \in BOOLEAN /\ cleared \in BOOLEAN /\ accept \in {"wait", "done"} \cup InboundLinks
    /\ kept \subseteq InboundLinks /\ open \subseteq InboundLinks

(***************************************************************************)
(* The termination coroutine holds references to main's inbounds,          *)
(* outbounds and exporter: it is never running once main has begun to      *)
(* destroy them, whichever of the two parties stopped what first.          *)
(***************************************************************************)
NoUseAfterReturn ==
    /\ ShutdownTypeOK
    /\ main \in {"unwind", "~Scheduler", "returned"} => \A w \in Workers : run[w] # "co"

(***************************************************************************)
(* A signal that reaches main, or an inbound that does not start, ends the *)
(* process: every worker leaves io_.run() although relays and timers are   *)
(* pending, and whatever the coroutine is doing.                           *)
(***************************************************************************)
Exits == ("main" \in got \/ main = "unwind") ~> (main = "returned")

(***************************************************************************)
(* stop() leaves no inbound link behind, called by either party or by both *)
(* at once: all that were accepted are closed, except the one acceptLoop   *)
(* may have had in its hands, made and not pushed yet.                     *)
(***************************************************************************)
StopClosesLinks ==
    cleared => /\ Cardinality(open) <= 1
               /\ \A l \in open : accept \in {l, "done"}
=============================================================================
