------------------------------ MODULE Handshake -------------------------------
(***************************************************************************)
(* Opening a link: Link::start, handshakeClient, handshakeServer, their    *)
(* timers, failLink, and the client's concurrent callers of waitHandshake, *)
(* who then open sessions.  Each link runs on its strand, a step from one  *)
(* suspension to the next; the callers run on the thread pool, a step per  *)
(* atomic or channel operation.                                            *)
(***************************************************************************)
EXTENDS Naturals, Sequences

CONSTANTS Callers,     \* concurrent ShineOutbound::handle calls on the link
          Passwords    \* passwords that may be configured; "" is none

ASSUME HandshakeAssumption == "" \in Passwords

Ends == {"client", "server"}
Peer(e) == IF e = "client" THEN "server" ELSE "client"

VARIABLES
  pw,          \* opts_.password of each end, fixed
  pc,          \* where the handshake coroutine stands
  timer,       \* "off", "armed", "due" (its handler is queued) or "gone"
  closed, done,                 \* closed_ and handshake_done_
  stopping,    \* closeNow has posted the closing of the socket
  signal_msg, signal_open,      \* handshake_signal_ of the client
  wire,        \* frames under way from each end
  caller,      \* where each caller stands
  served       \* NEW frames the server has dispatched

links == <<pc, timer, closed, done, stopping, signal_msg, signal_open>>
vars  == <<pw, links, wire, caller, served>>

Init ==
  /\ pw \in [Ends -> Passwords]
  /\ pc = [e \in Ends |-> "start"]
  /\ timer = [e \in Ends |-> "off"]
  /\ closed = [e \in Ends |-> FALSE] /\ done = [e \in Ends |-> FALSE]
  /\ signal_msg = FALSE /\ signal_open = TRUE
  /\ wire = [e \in Ends |-> <<>>]
  /\ caller = [c \in Callers |-> "call"]
  /\ stopping = [e \in Ends |-> FALSE]
  /\ served = 0

Set(f, e, x) == [f EXCEPT ![e] = x]
Send(e, f) == [wire EXCEPT ![e] = Append(@, f)]
-------------------------------------------------------------------------------
\* What is closed with the socket: unsent frames are lost, waiters released.
CloseSocket(e) ==
  /\ signal_open' = (signal_open /\ e # "client")
  /\ \E k \in 0..Len(wire[e]) :
       wire' = [wire EXCEPT ![e] = SubSeq(@, 1, k), ![Peer(e)] = <<>>]

\* failLink, called by the handshake coroutine or the reader; returning from
\* the handshake destroys the timer, which cancels it unless it is due.
FailLink(e) ==
  /\ closed' = Set(closed, e, TRUE)
  /\ pc' = Set(pc, e, "failed")
  /\ timer' = Set(timer, e, IF timer[e] = "due" THEN "due" ELSE "gone")
  /\ CloseSocket(e)
  /\ UNCHANGED <<pw, done, stopping, signal_msg, caller, served>>

\* Mutant: no handshake timeout.
StartNoTimer(e) ==
  /\ pc[e] = "start"
  /\ wire' = IF e = "client" THEN Send(e, "HELLO") ELSE wire
  /\ pc' = Set(pc, e, "hello")
  /\ UNCHANGED <<pw, timer, closed, done, stopping, signal_msg, signal_open, caller,
                 served>>

\* The client says HELLO, then starts its timer; the server only the timer.
Start(e) ==
  /\ pc[e] = "start"
  /\ wire' = IF e = "client" THEN Send(e, "HELLO") ELSE wire
  /\ timer' = Set(timer, e, "armed")
  /\ pc' = Set(pc, e, "hello")
  /\ UNCHANGED <<pw, closed, done, stopping, signal_msg, signal_open, caller, served>>

Running(e, at) == ~closed[e] /\ pc[e] = at
Next_(e) == IF wire[Peer(e)] = <<>> THEN "" ELSE Head(wire[Peer(e)])
Take(e) == [wire EXCEPT ![Peer(e)] = Tail(@)]
Exchange(e, f) == [wire EXCEPT ![Peer(e)] = Tail(@), ![e] = Append(@, f)]

\* Reaching the end of the handshake cancels the timer, unless it is due.
Finish(e) ==
  /\ pc' = Set(pc, e, "finish")
  /\ timer' = Set(timer, e, IF timer[e] = "due" THEN "due" ELSE "gone")

\* The server answers HELLO and, with a password, waits for AUTH.
ServerHello ==
  /\ Running("server", "hello") /\ Next_("server") = "HELLO"
  /\ wire' = Exchange("server", "HELLO")
  /\ IF pw["server"] # ""
       THEN pc' = Set(pc, "server", "auth") /\ UNCHANGED timer
       ELSE Finish("server")
  /\ UNCHANGED <<pw, closed, done, stopping, signal_msg, signal_open, caller, served>>

\* Mutant: any AUTH is accepted.
ServerAuthAny ==
  /\ Running("server", "auth") /\ Next_("server") = "AUTH"
  /\ wire' = Exchange("server", "OK")
  /\ Finish("server")
  /\ UNCHANGED <<pw, closed, done, stopping, signal_msg, signal_open, caller, served>>

\* AUTH carries the password of the client.
ServerAuth ==
  /\ Running("server", "auth") /\ Next_("server") = "AUTH"
  /\ LET ok == pw["client"] = pw["server"] IN
     /\ wire' = Exchange("server", IF ok THEN "OK" ELSE "ERR")
     /\ IF ok THEN Finish("server")
              ELSE pc' = Set(pc, "server", "reject") /\ UNCHANGED timer
  /\ UNCHANGED <<pw, closed, done, stopping, signal_msg, signal_open, caller, served>>

\* After ERR is enqueued the server fails the link.
ServerReject == Running("server", "reject") /\ FailLink("server")

ClientHello ==
  /\ Running("client", "hello") /\ Next_("client") = "HELLO"
  /\ IF pw["client"] # ""
       THEN /\ wire' = Exchange("client", "AUTH")
            /\ pc' = Set(pc, "client", "auth") /\ UNCHANGED timer
       ELSE wire' = Take("client") /\ Finish("client")
  /\ UNCHANGED <<pw, closed, done, stopping, signal_msg, signal_open, caller, served>>

ClientOk ==
  /\ Running("client", "auth") /\ Next_("client") = "OK"
  /\ wire' = Take("client") /\ Finish("client")
  /\ UNCHANGED <<pw, closed, done, stopping, signal_msg, signal_open, caller, served>>

\* Any other frame at these points fails the link.
Expected(e) == CASE pc[e] = "hello" -> "HELLO"
                 [] pc[e] = "auth"  -> IF e = "server" THEN "AUTH" ELSE "OK"
Unexpected(e) ==
  /\ ~closed[e] /\ pc[e] \in {"hello", "auth"}
  /\ Next_(e) \notin {"", Expected(e)}
  /\ FailLink(e)

\* read error or EOF after the peer closed its socket.
Eof(e) ==
  /\ ~closed[e] /\ closed[Peer(e)] /\ wire[Peer(e)] = <<>>
  /\ pc[e] \in {"hello", "auth", "mux"}
  /\ FailLink(e)

\* Mutant: the waiters are woken before handshake_done_ is stored.
FinishStoreSignalFirst(e) ==
  /\ Running(e, "finish")
  /\ pc' = Set(pc, e, "signal")
  /\ IF e = "client" THEN signal_msg' = TRUE /\ signal_open' = FALSE
                     ELSE UNCHANGED <<signal_msg, signal_open>>
  /\ UNCHANGED <<pw, timer, closed, done, stopping, wire, caller, served>>

\* start(): closed_ is tested, handshake_done_ stored ...
FinishStore(e) ==
  /\ Running(e, "finish")
  /\ done' = Set(done, e, TRUE)
  /\ pc' = Set(pc, e, "signal")
  /\ UNCHANGED <<pw, timer, closed, stopping, signal_msg, signal_open, wire, caller, served>>

\* Mutant: one message and no close().
FinishSignalOne(e) ==
  /\ pc[e] = "signal"
  /\ pc' = Set(pc, e, "mux")
  /\ signal_msg' = (e = "client" \/ signal_msg)
  /\ UNCHANGED <<pw, timer, closed, done, stopping, signal_open, wire, caller, served>>

\* ... then handshake_signal_ gets a message and is closed.
FinishSignal(e) ==
  /\ pc[e] = "signal"
  /\ pc' = Set(pc, e, "mux")
  /\ IF e = "client" THEN signal_msg' = TRUE /\ signal_open' = FALSE
                     ELSE UNCHANGED <<signal_msg, signal_open>>
  /\ UNCHANGED <<pw, timer, closed, done, stopping, wire, caller, served>>

\* The handshake timer expires ...
TimerExpires(e) ==
  /\ timer[e] = "armed"
  /\ timer' = Set(timer, e, "due")
  /\ UNCHANGED <<pw, pc, closed, done, stopping, signal_msg, signal_open, wire, caller, served>>

\* ... and its handler runs on the strand: failLink, a no-op on a closed link.
\* After the handshake the handler reads a closure that is gone: with its memory
\* intact it still closes the link, otherwise it may find no link to close.
TimerRuns(e) ==
  /\ timer[e] = "due"
  /\ pc[e] # "signal" /\ (pc[e] = "finish" => closed[e])
  /\ timer' = Set(timer, e, "gone")
  /\ \/ /\ closed[e] \/ done[e]
        /\ UNCHANGED <<pc, closed, signal_open, wire>>
     \/ /\ ~closed[e]
        /\ closed' = Set(closed, e, TRUE) /\ pc' = Set(pc, e, "failed") /\ CloseSocket(e)
  /\ UNCHANGED <<pw, done, stopping, signal_msg, caller, served>>

\* closeNow, from another thread: closed_ at once, the socket on the strand.
CloseNow(e) ==
  /\ ~closed[e]
  /\ closed' = Set(closed, e, TRUE)
  /\ stopping' = Set(stopping, e, TRUE)
  /\ UNCHANGED <<pw, pc, timer, done, signal_msg, signal_open, wire, caller, served>>

CloseNowPosted(e) ==
  /\ stopping[e] /\ pc[e] # "signal"
  /\ stopping' = Set(stopping, e, FALSE)
  /\ CloseSocket(e)
  /\ UNCHANGED <<pw, pc, timer, closed, done, signal_msg, caller, served>>

\* readerLoop in the mux phase: handshake frames are ignored, NEW is served.
Mux(e) ==
  /\ Running(e, "mux") /\ Next_(e) # ""
  /\ wire' = Take(e)
  /\ served' = IF e = "server" /\ Next_(e) = "NEW" THEN served + 1 ELSE served
  /\ UNCHANGED <<pw, links, caller>>

-------------------------------------------------------------------------------
(* waitHandshake, then openSession, by the client's callers. *)

Wait(c) ==
  /\ caller[c] = "call"
  /\ caller' = Set(caller, c, IF done["client"] THEN "open" ELSE "check")
  /\ UNCHANGED <<pw, links, wire, served>>

WaitCheck(c) ==
  /\ caller[c] = "check"
  /\ caller' = Set(caller, c, IF closed["client"] THEN "no" ELSE "receive")
  /\ UNCHANGED <<pw, links, wire, served>>

WaitReceive(c) ==
  /\ caller[c] = "receive"
  /\ signal_msg \/ ~signal_open
  /\ signal_msg' = FALSE
  /\ caller' = Set(caller, c, IF done["client"] THEN "open" ELSE "no")
  /\ UNCHANGED <<pw, pc, timer, closed, done, stopping, signal_open, wire, served>>

OpenSession(c) ==
  /\ caller[c] = "open"
  /\ caller' = Set(caller, c, IF closed["client"] THEN "refused" ELSE "opened")
  /\ wire' = IF closed["client"] THEN wire ELSE Send("client", "NEW")
  /\ UNCHANGED <<pw, links, served>>
-------------------------------------------------------------------------------
Strand(e) == Start(e) \/ Unexpected(e) \/ Eof(e) \/ FinishStore(e) \/ FinishSignal(e)
             \/ TimerExpires(e) \/ TimerRuns(e) \/ CloseNowPosted(e) \/ Mux(e)
Talk   == ServerHello \/ ServerAuth \/ ServerReject \/ ClientHello \/ ClientOk
Call(c) == Wait(c) \/ WaitCheck(c) \/ WaitReceive(c) \/ OpenSession(c)

Next == \/ Talk
        \/ \E e \in Ends : Strand(e) \/ CloseNow(e)
        \/ \E c \in Callers : Call(c)

\* Coroutines and timers run on; nobody has to call closeNow.
Fairness == /\ WF_vars(Talk) /\ \A c \in Callers : WF_vars(Call(c))
            /\ \A e \in Ends : /\ WF_vars(Strand(e)) /\ WF_vars(TimerExpires(e))
                               /\ WF_vars(TimerRuns(e))
Spec     == Init /\ [][Next]_vars
FairSpec == Spec /\ Fairness
-------------------------------------------------------------------------------
Frames == {"HELLO", "AUTH", "OK", "ERR", "NEW"}

TypeOK ==
  /\ pw \in [Ends -> Passwords]
  /\ pc \in [Ends -> {"start", "hello", "auth", "reject", "finish", "signal",
                      "mux", "failed"}]
  /\ timer \in [Ends -> {"off", "armed", "due", "gone"}]
  /\ closed \in [Ends -> BOOLEAN] /\ done \in [Ends -> BOOLEAN]
  /\ stopping \in [Ends -> BOOLEAN]
  /\ signal_msg \in BOOLEAN /\ signal_open \in BOOLEAN
  /\ wire \in [Ends -> Seq(Frames)]
  /\ caller \in [Callers -> {"call", "check", "receive", "open", "no", "refused", "opened"}]
  /\ served \in Nat

Agree == pw["client"] = pw["server"]

\* Both ends authenticate.  A server with a password enters the mux phase, and
\* serves a NEW, only when the client has presented that password
\* (handshakeServer, dispatchFrame); a client with a password enters it only
\* after the server has accepted it: the server is past its handshake or its
\* link is closed (handshakeClient).
Authenticated ==
  /\ TypeOK
  /\ pw["server"] # "" /\ ~Agree => ~done["server"] /\ served = 0
  /\ done["client"] /\ pw["client"] # "" =>
       Agree /\ (pc["server"] \in {"finish", "signal", "mux"} \/ closed["server"])

\* waitHandshake answers no only when the link is closed: the flag is stored
\* before the signal, so no caller is woken too early.
RefusedOnlyIfClosed == \A c \in Callers : caller[c] = "no" => closed["client"]

\* Every caller of waitHandshake returns, although the signal holds one
\* message for any number of callers and closeNow may run at any time.
CallersReturn ==
  \A c \in Callers : <>(caller[c] \in {"no", "refused", "opened"})

\* An end that never reaches the mux phase closes its link.
HandshakeEnds == \A e \in Ends : <>(done[e] \/ closed[e])
===============================================================================
