------------------------------ MODULE LinkProofs ------------------------------
(***************************************************************************)
(* A link from its handshake to its end: safety of the handshake (module   *)
(* Handshake) and of the heartbeat (module Heartbeat, second half).        *)
(***************************************************************************)
EXTENDS Handshake, Heartbeat, TLAPS

(***************************************************************************)
(* The handshake, for any passwords and any number of callers.             *)
(***************************************************************************)

\* The server is past its handshake, or its link is closed.
Past == pc["server"] \in {"finish", "signal", "mux"} \/ closed["server"]

\* A server that was shown no matching password stays in its handshake.
ServerInv ==
  pw["server"] # "" /\ ~Agree =>
    /\ pc["server"] \notin {"finish", "signal", "mux"}
    /\ done["server"] = FALSE /\ served = 0

\* OK is on its way only from a server that has accepted the password.
HasOk(q) == \E i \in 1..Len(q) : q[i] = "OK"
OkInv == HasOk(wire["server"]) => Agree /\ Past

\* A client with a password is past its handshake only after that OK.
ClientInv ==
  pw["client"] # "" /\ (pc["client"] \in {"finish", "signal", "mux"} \/ done["client"] = TRUE)
    => Agree /\ Past

\* Waiters are released by the end of the handshake or of the link.
SignalInv ==
  /\ pc["client"] \in {"signal", "mux"} => done["client"] = TRUE
  /\ \A e \in Ends : stopping[e] = TRUE => closed[e] = TRUE
  /\ signal_msg = TRUE \/ signal_open = FALSE => done["client"] = TRUE \/ closed["client"] = TRUE
  /\ \A c \in Callers : caller[c] = "no" => closed["client"] = TRUE

IndInv == TypeOK /\ ServerInv /\ OkInv /\ ClientInv /\ SignalInv
-------------------------------------------------------------------------------
\* What receiving, sending and losing frames does to a queue of frames.
LEMMA Empty == <<>> \in Seq(Frames) /\ ~HasOk(<<>>)
BY DEF HasOk

\* A frame that is sent makes an OK of the queue only if it is one.
LEMMA Sent ==
  ASSUME NEW q \in Seq(Frames), NEW f \in Frames
  PROVE  Append(q, f) \in Seq(Frames) /\ (HasOk(Append(q, f)) => HasOk(q) \/ f = "OK")
BY DEF HasOk

\* Taking a frame brings no OK into the queue.
LEMMA Taken ==
  ASSUME NEW q \in Seq(Frames), q # <<>>
  PROVE  /\ Tail(q) \in Seq(Frames) /\ (HasOk(Tail(q)) => HasOk(q))
         /\ Head(q) = "OK" => HasOk(q)
<1>1. Len(q) \in Nat \ {0}  OBVIOUS
<1>2. Tail(q) \in Seq(Frames) /\ (HasOk(Tail(q)) => HasOk(q))
  BY <1>1 DEF HasOk
<1>3. Head(q) = q[1]  OBVIOUS
<1>4. Head(q) = "OK" => HasOk(q)  BY <1>1, <1>3 DEF HasOk
<1>. QED  BY <1>2, <1>4

\* Losing the end of a queue brings no OK into it.
LEMMA Lost ==
  ASSUME NEW q \in Seq(Frames), NEW k \in 0..Len(q)
  PROVE  SubSeq(q, 1, k) \in Seq(Frames) /\ (HasOk(SubSeq(q, 1, k)) => HasOk(q))
<1>1. Len(q) \in Nat /\ \A i \in 1..k : q[i] \in Frames  OBVIOUS
<1>2. /\ SubSeq(q, 1, k) \in Seq(Frames)
      /\ Len(SubSeq(q, 1, k)) = IF 1 <= k THEN k - 1 + 1 ELSE 0
      /\ \A i \in 1..(k - 1 + 1) : SubSeq(q, 1, k)[i] = q[1 + i - 1]
  BY <1>1
<1>. QED  BY <1>1, <1>2 DEF HasOk

\* Before the handshake nothing is under way and nobody is past it.
LEMMA InitInv == Init => IndInv
<1> SUFFICES ASSUME Init PROVE IndInv  OBVIOUS
<1> USE DEF Init, Ends
<1>1. TypeOK
  <2>1. wire \in [Ends -> Seq(Frames)]  BY Empty
  <2>2. /\ closed \in [Ends -> BOOLEAN] /\ done \in [Ends -> BOOLEAN]
        /\ stopping \in [Ends -> BOOLEAN]
    OBVIOUS
  <2>3. /\ pc \in [Ends -> {"start", "hello", "auth", "reject", "finish", "signal",
                            "mux", "failed"}]
        /\ timer \in [Ends -> {"off", "armed", "due", "gone"}]
    OBVIOUS
  <2>. QED  BY <2>1, <2>2, <2>3, Zenon DEF TypeOK
<1>2. ServerInv  BY DEF ServerInv
<1>3. OkInv  BY Empty DEF OkInv
<1>4. ClientInv  BY DEF ClientInv
<1>5. SignalInv  BY DEF SignalInv
<1>. QED  BY <1>1, <1>2, <1>3, <1>4, <1>5 DEF IndInv

\* The callers.
LEMMA CallInv == ASSUME NEW c \in Callers, IndInv, Call(c) PROVE IndInv'
<1> USE DEF IndInv, Call, Wait, WaitCheck, WaitReceive, OpenSession, Set, links, Ends
<1>1. /\ wire' \in [Ends -> Seq(Frames)]
      /\ wire'["server"] = wire["server"]
  <2>1. Append(wire["client"], "NEW") \in Seq(Frames)  BY Sent DEF TypeOK, Frames
  <2>2. wire' = wire \/ wire' = Send("client", "NEW")  OBVIOUS
  <2>3. wire \in [Ends -> Seq(Frames)]  BY DEF TypeOK
  <2>4. CASE wire' = Send("client", "NEW")  BY <2>1, <2>3, <2>4 DEF Send
  <2>. QED  BY <2>2, <2>3, <2>4
<1>2. TypeOK'
  <2> USE DEF TypeOK
  <2>1. CASE Wait(c)  BY <2>1
  <2>2. CASE WaitCheck(c)  BY <2>2
  <2>3. CASE WaitReceive(c)  BY <2>3, Zenon
  <2>4. CASE OpenSession(c)  BY <1>1, <2>4
  <2>. QED  BY <2>1, <2>2, <2>3, <2>4, Zenon
<1>3. ServerInv'  BY DEF ServerInv, Agree
<1>4. OkInv'  BY <1>1 DEF OkInv, Agree, Past
<1>5. ClientInv'  BY DEF ClientInv, Agree, Past
<1>6. SignalInv'  BY DEF SignalInv, TypeOK
<1>. QED  BY <1>2, <1>3, <1>4, <1>5, <1>6

\* The server's side of the handshake.
LEMMA ServerHelloInv == ASSUME IndInv, ServerHello PROVE IndInv'
<1> USE DEF IndInv, ServerHello, Set, Finish, Running, Ends
<1>1. /\ wire' \in [Ends -> Seq(Frames)]
      /\ HasOk(wire'["server"]) => HasOk(wire["server"])
  <2>1. wire["server"] \in Seq(Frames) /\ wire["client"] \in Seq(Frames)  BY DEF TypeOK
  <2>2. wire["client"] # <<>>  BY DEF Next_, Peer
  <2>3. Tail(wire["client"]) \in Seq(Frames)  BY <2>1, <2>2, Taken
  <2>4. /\ Append(wire["server"], "HELLO") \in Seq(Frames)
        /\ HasOk(Append(wire["server"], "HELLO")) => HasOk(wire["server"])
    BY <2>1, Sent DEF Frames
  <2>. QED  BY <2>3, <2>4 DEF TypeOK, Exchange, Peer
<1>2. TypeOK'
  <2> HIDE DEF ServerHello, Finish
  <2>1. \/ Finish("server")
        \/ pc' = [pc EXCEPT !["server"] = "auth"] /\ timer' = timer
    BY Zenon DEF ServerHello
  <2>2. /\ timer' \in [Ends -> {"off", "armed", "due", "gone"}]
        /\ pc' \in [Ends -> {"start", "hello", "auth", "reject", "finish", "signal",
                            "mux", "failed"}]
    BY <2>1 DEF TypeOK, Finish
  <2>3. UNCHANGED <<pw, closed, done, stopping, signal_msg, signal_open, caller, served>>
    BY DEF ServerHello
  <2>. QED  BY <1>1, <2>2, <2>3 DEF TypeOK
<1>3. ServerInv'  BY DEF ServerInv, Agree, TypeOK
<1>4. OkInv'  BY <1>1 DEF OkInv, Agree, Past, TypeOK
<1>5. ClientInv'  BY DEF ClientInv, Agree, Past, TypeOK
<1>6. SignalInv'  BY DEF SignalInv, TypeOK
<1>. QED  BY <1>2, <1>3, <1>4, <1>5, <1>6

\* The server answers OK just when the passwords agree, and is then past its handshake.
LEMMA ServerAuthInv == ASSUME IndInv, ServerAuth PROVE IndInv'
<1> USE DEF IndInv, ServerAuth, Set, Finish, Running, Ends
<1>1. /\ wire' \in [Ends -> Seq(Frames)]
      /\ HasOk(wire'["server"]) => HasOk(wire["server"]) \/ Agree
  <2>1. wire["server"] \in Seq(Frames) /\ wire["client"] \in Seq(Frames)  BY DEF TypeOK
  <2>2. wire["client"] # <<>>  BY DEF Next_, Peer
  <2>3. Tail(wire["client"]) \in Seq(Frames)  BY <2>1, <2>2, Taken
  <2>4. \A f \in {"OK", "ERR"} :
          /\ Append(wire["server"], f) \in Seq(Frames)
          /\ HasOk(Append(wire["server"], f)) => HasOk(wire["server"]) \/ f = "OK"
    BY <2>1, Sent DEF Frames
  <2>. QED  BY <2>3, <2>4, Zenon DEF TypeOK, Exchange, Peer, Agree
<1>2. TypeOK'  BY <1>1 DEF TypeOK
<1>3. ServerInv'  BY DEF ServerInv, Agree, TypeOK
<1>4. OkInv'  BY <1>1 DEF OkInv, Agree, Past, TypeOK
<1>5. ClientInv'  BY DEF ClientInv, Agree, Past, TypeOK
<1>6. SignalInv'  BY DEF SignalInv, TypeOK
<1>. QED  BY <1>2, <1>3, <1>4, <1>5, <1>6

\* The client's side.
LEMMA ClientHelloInv == ASSUME IndInv, ClientHello PROVE IndInv'
<1> USE DEF IndInv, ClientHello, Set, Finish, Running, Ends
<1>1. /\ wire' \in [Ends -> Seq(Frames)]
      /\ HasOk(wire'["server"]) => HasOk(wire["server"])
  <2>1. wire["server"] \in Seq(Frames) /\ wire["client"] \in Seq(Frames)  BY DEF TypeOK
  <2>2. wire["server"] # <<>>  BY DEF Next_, Peer
  <2>3. /\ Tail(wire["server"]) \in Seq(Frames)
        /\ HasOk(Tail(wire["server"])) => HasOk(wire["server"])
    BY <2>1, <2>2, Taken
  <2>4. Append(wire["client"], "AUTH") \in Seq(Frames)  BY <2>1, Sent DEF Frames
  <2>5. wire \in [Ends -> Seq(Frames)]  BY DEF TypeOK
  <2>6. wire' = Exchange("client", "AUTH") \/ wire' = Take("client")  OBVIOUS
  <2>7. CASE wire' = Exchange("client", "AUTH")
    <3>1. /\ wire' \in [Ends -> Seq(Frames)]
          /\ wire'["server"] = Tail(wire["server"])
      BY <2>3, <2>4, <2>5, <2>7 DEF Exchange, Peer
    <3>. QED  BY <2>3, <3>1
  <2>8. CASE wire' = Take("client")
    <3>1. /\ wire' \in [Ends -> Seq(Frames)]
          /\ wire'["server"] = Tail(wire["server"])
      BY <2>3, <2>5, <2>8 DEF Take, Peer
    <3>. QED  BY <2>3, <3>1
  <2>. QED  BY <2>6, <2>7, <2>8
<1>2. TypeOK'
  <2>1. CASE pw["client"] # ""  BY <1>1, <2>1 DEF TypeOK
  <2>2. CASE pw["client"] = ""
    <3>1. pc' = [pc EXCEPT !["client"] = "finish"]  BY <2>2
    <3>2. timer' \in [Ends -> {"off", "armed", "due", "gone"}]  BY <2>2 DEF TypeOK
    <3>. QED  BY <1>1, <3>1, <3>2 DEF TypeOK
  <2>. QED  BY <2>1, <2>2
<1>3. ServerInv'  BY DEF ServerInv, Agree, TypeOK
<1>4. OkInv'  BY <1>1 DEF OkInv, Agree, Past, TypeOK
<1>5. ClientInv'  BY DEF ClientInv, Agree, Past, TypeOK
<1>6. SignalInv'  BY DEF SignalInv, TypeOK
<1>. QED  BY <1>2, <1>3, <1>4, <1>5, <1>6

\* A client that takes an OK knows that the server is past its handshake.
LEMMA ClientOkInv == ASSUME IndInv, ClientOk PROVE IndInv'
<1> USE DEF IndInv, ClientOk, Set, Finish, Running, Ends
<1>1. /\ wire' \in [Ends -> Seq(Frames)]
      /\ HasOk(wire'["server"]) => HasOk(wire["server"])
      /\ HasOk(wire["server"])
  <2>1. wire["server"] \in Seq(Frames) /\ wire["client"] \in Seq(Frames)  BY DEF TypeOK
  <2>2. wire["server"] # <<>> /\ Head(wire["server"]) = "OK"  BY DEF Next_, Peer
  <2>3. /\ Tail(wire["server"]) \in Seq(Frames)
        /\ HasOk(Tail(wire["server"])) => HasOk(wire["server"])
        /\ HasOk(wire["server"])
    BY <2>1, <2>2, Taken
  <2>. QED  BY <2>3 DEF TypeOK, Take, Peer
<1>2. TypeOK'  BY <1>1 DEF TypeOK
<1>3. ServerInv'  BY DEF ServerInv, Agree, TypeOK
<1>4. OkInv'  BY <1>1 DEF OkInv, Agree, Past, TypeOK
<1>5. ClientInv'  BY <1>1 DEF ClientInv, OkInv, Agree, Past, TypeOK
<1>6. SignalInv'  BY DEF SignalInv, TypeOK
<1>. QED  BY <1>2, <1>3, <1>4, <1>5, <1>6

\* What closing the socket does to the frames and the waiters.
LEMMA SocketStep ==
  ASSUME TypeOK, NEW e \in Ends, CloseSocket(e)
  PROVE  /\ wire' \in [Ends -> Seq(Frames)]
         /\ HasOk(wire'["server"]) => HasOk(wire["server"])
         /\ signal_open' \in BOOLEAN
         /\ signal_open' = FALSE => signal_open = FALSE \/ e = "client"
<1> USE DEF Ends
<1>1. PICK k \in 0..Len(wire[e]) :
        wire' = [wire EXCEPT ![e] = SubSeq(@, 1, k), ![Peer(e)] = <<>>]
  BY Zenon DEF CloseSocket
<1>2. /\ SubSeq(wire[e], 1, k) \in Seq(Frames)
      /\ HasOk(SubSeq(wire[e], 1, k)) => HasOk(wire[e])
  BY Lost DEF TypeOK
<1>3. /\ wire' \in [Ends -> Seq(Frames)]
      /\ HasOk(wire'["server"]) => HasOk(wire["server"])
  BY <1>1, <1>2, Empty, Zenon DEF TypeOK, Peer
<1>4. /\ signal_open' \in BOOLEAN
      /\ signal_open' = FALSE => signal_open = FALSE \/ e = "client"
  BY Zenon DEF CloseSocket, TypeOK
<1>. QED  BY <1>3, <1>4

\* failLink: by the coroutine, the reader or the timer.
LEMMA CloseInv ==
  ASSUME IndInv, NEW e \in Ends,
         closed' = Set(closed, e, TRUE), pc' = Set(pc, e, "failed"), CloseSocket(e),
         timer' \in [Ends -> {"off", "armed", "due", "gone"}],
         UNCHANGED <<pw, done, stopping, signal_msg, caller, served>>
  PROVE  IndInv'
<1> USE DEF IndInv, Set, Ends
<1>1. /\ wire' \in [Ends -> Seq(Frames)]
      /\ HasOk(wire'["server"]) => HasOk(wire["server"])
      /\ signal_open' \in BOOLEAN
      /\ signal_open' = FALSE => signal_open = FALSE \/ e = "client"
  BY SocketStep, Zenon
<1>2. TypeOK'  BY <1>1 DEF TypeOK
<1>3. ServerInv'  BY DEF ServerInv, Agree, TypeOK
<1>4. OkInv'  BY <1>1 DEF OkInv, Agree, Past, TypeOK
<1>5. ClientInv'  BY DEF ClientInv, Agree, Past, TypeOK
<1>6. SignalInv'  BY <1>1 DEF SignalInv, TypeOK
<1>. QED  BY <1>2, <1>3, <1>4, <1>5, <1>6

\* A link that fails is closed when its waiters are released.
LEMMA FailLinkInv == ASSUME NEW e \in Ends, IndInv, FailLink(e) PROVE IndInv'
<1>1. timer' \in [Ends -> {"off", "armed", "due", "gone"}]
  BY DEF IndInv, TypeOK, FailLink, Set, Ends
<1>. QED  BY <1>1, CloseInv, Zenon DEF FailLink

\* The handler of the deadline closes the link as failLink does.
LEMMA TimerRunsInv == ASSUME NEW e \in Ends, IndInv, TimerRuns(e) PROVE IndInv'
<1>1. timer' \in [Ends -> {"off", "armed", "due", "gone"}]
  BY DEF IndInv, TypeOK, TimerRuns, Set, Ends
<1>2. CASE UNCHANGED <<pc, closed, signal_open, wire>>
  <2> USE <1>2 DEF IndInv, TimerRuns
  <2>1. TypeOK'  BY <1>1 DEF TypeOK
  <2>2. ServerInv' /\ OkInv' /\ ClientInv' /\ SignalInv'
    BY DEF ServerInv, OkInv, ClientInv, SignalInv, Agree, Past
  <2>. QED  BY <2>1, <2>2
<1>3. CASE /\ closed' = Set(closed, e, TRUE) /\ pc' = Set(pc, e, "failed")
           /\ CloseSocket(e)
  BY <1>1, <1>3, CloseInv, Zenon DEF TimerRuns
<1>. QED  BY <1>2, <1>3, Zenon DEF TimerRuns

\* Starting an end puts at most HELLO on the wire.
LEMMA StartInv == ASSUME NEW e \in Ends, IndInv, Start(e) PROVE IndInv'
<1> USE DEF IndInv, Start, Set, Ends
<1>1. /\ wire' \in [Ends -> Seq(Frames)]
      /\ HasOk(wire'["server"]) => HasOk(wire["server"])
  <2>1. Append(wire["client"], "HELLO") \in Seq(Frames)  BY Sent DEF TypeOK, Frames
  <2>. QED  BY <2>1 DEF TypeOK, Send
<1>2. TypeOK'  BY <1>1 DEF TypeOK
<1>3. ServerInv'  BY DEF ServerInv, Agree, TypeOK
<1>4. OkInv'  BY <1>1 DEF OkInv, Agree, Past, TypeOK
<1>5. ClientInv'  BY DEF ClientInv, Agree, Past, TypeOK
<1>6. SignalInv'  BY <1>1 DEF SignalInv, TypeOK
<1>. QED  BY <1>2, <1>3, <1>4, <1>5, <1>6

\* handshake_done_ is set before the signal.
LEMMA FinishStoreInv == ASSUME NEW e \in Ends, IndInv, FinishStore(e) PROVE IndInv'
<1> USE DEF IndInv, FinishStore, Set, Running, Ends
<1>1. TypeOK'  BY DEF TypeOK
<1>2. ServerInv'  BY DEF ServerInv, Agree, TypeOK
<1>3. OkInv'  BY DEF OkInv, Agree, Past, TypeOK
<1>4. ClientInv'  BY DEF ClientInv, Agree, Past, TypeOK
<1>5. SignalInv'  BY DEF SignalInv, TypeOK
<1>. QED  BY <1>1, <1>2, <1>3, <1>4, <1>5

\* The waiters are signalled when handshake_done_ is set.
LEMMA FinishSignalInv == ASSUME NEW e \in Ends, IndInv, FinishSignal(e) PROVE IndInv'
<1> USE DEF IndInv, FinishSignal, Set, Ends
<1>1. TypeOK'  BY Zenon DEF TypeOK
<1>2. ServerInv'  BY DEF ServerInv, Agree, TypeOK
<1>3. OkInv'  BY DEF OkInv, Agree, Past, TypeOK
<1>4. ClientInv'  BY DEF ClientInv, Agree, Past, TypeOK
<1>5. SignalInv'  BY DEF SignalInv, TypeOK
<1>. QED  BY <1>1, <1>2, <1>3, <1>4, <1>5

\* The expiry alone only queues the handler.
LEMMA TimerExpiresInv == ASSUME NEW e \in Ends, IndInv, TimerExpires(e) PROVE IndInv'
<1> USE DEF IndInv, TimerExpires, Set, Ends
<1>1. TypeOK'  BY DEF TypeOK
<1>2. ServerInv'  BY DEF ServerInv, Agree, TypeOK
<1>3. OkInv'  BY DEF OkInv, Agree, Past, TypeOK
<1>4. ClientInv'  BY DEF ClientInv, Agree, Past, TypeOK
<1>5. SignalInv'  BY DEF SignalInv, TypeOK
<1>. QED  BY <1>1, <1>2, <1>3, <1>4, <1>5

\* closeNow marks the link closed before it posts the rest.
LEMMA CloseNowInv == ASSUME NEW e \in Ends, IndInv, CloseNow(e) PROVE IndInv'
<1> USE DEF IndInv, CloseNow, Set, Ends
<1>1. TypeOK'  BY DEF TypeOK
<1>2. ServerInv'  BY DEF ServerInv, Agree, TypeOK
<1>3. OkInv'  BY DEF OkInv, Agree, Past, TypeOK
<1>4. ClientInv'  BY DEF ClientInv, Agree, Past, TypeOK
<1>5. SignalInv'  BY DEF SignalInv, TypeOK
<1>. QED  BY <1>1, <1>2, <1>3, <1>4, <1>5

\* The posted part of closeNow releases waiters of a closed link.
LEMMA CloseNowPostedInv == ASSUME NEW e \in Ends, IndInv, CloseNowPosted(e) PROVE IndInv'
<1> USE DEF IndInv, CloseNowPosted, Set, Ends
<1>1. /\ wire' \in [Ends -> Seq(Frames)]
      /\ HasOk(wire'["server"]) => HasOk(wire["server"])
      /\ signal_open' \in BOOLEAN
      /\ signal_open' = FALSE => signal_open = FALSE \/ e = "client"
  BY SocketStep, Zenon
<1>2. TypeOK'  BY <1>1 DEF TypeOK
<1>3. ServerInv'  BY DEF ServerInv, Agree, TypeOK
<1>4. OkInv'  BY <1>1 DEF OkInv, Agree, Past, TypeOK
<1>5. ClientInv'  BY DEF ClientInv, Agree, Past, TypeOK
<1>6. SignalInv'  BY <1>1 DEF SignalInv, TypeOK
<1>. QED  BY <1>2, <1>3, <1>4, <1>5, <1>6

\* A frame is served only by an end that is past its handshake.
LEMMA MuxInv == ASSUME NEW e \in Ends, IndInv, Mux(e) PROVE IndInv'
<1> USE DEF IndInv, Mux, Set, Running, links, Ends
<1>1. /\ wire' \in [Ends -> Seq(Frames)]
      /\ HasOk(wire'["server"]) => HasOk(wire["server"])
  <2>1. wire[Peer(e)] \in Seq(Frames) /\ wire[Peer(e)] # <<>>
    BY DEF TypeOK, Next_, Peer
  <2>2. /\ Tail(wire[Peer(e)]) \in Seq(Frames)
        /\ HasOk(Tail(wire[Peer(e)])) => HasOk(wire[Peer(e)])
    BY <2>1, Taken
  <2>. QED  BY <2>2 DEF TypeOK, Take, Peer
<1>2. TypeOK'
  <2>1. served' = served \/ served' = served + 1  BY Zenon
  <2>2. UNCHANGED <<pw, links, caller>>  OBVIOUS
  <2> HIDE DEF Mux
  <2>3. served' \in Nat  BY <2>1 DEF TypeOK
  <2>. QED  BY <1>1, <2>2, <2>3 DEF TypeOK
<1>3. ServerInv'  BY DEF ServerInv, Agree, TypeOK
<1>4. OkInv'  BY <1>1 DEF OkInv, Agree, Past, TypeOK
<1>5. ClientInv'  BY DEF ClientInv, Agree, Past, TypeOK
<1>6. SignalInv'  BY <1>1 DEF SignalInv, TypeOK
<1>. QED  BY <1>2, <1>3, <1>4, <1>5, <1>6

\* Every step keeps the invariant.
LEMMA StepInv == IndInv /\ [Next]_vars => IndInv'
<1> SUFFICES ASSUME IndInv, [Next]_vars PROVE IndInv'  OBVIOUS
<1>1. CASE Talk
  <2>1. CASE ServerReject  BY <2>1, FailLinkInv DEF ServerReject, Ends
  <2>. QED  BY <1>1, <2>1, ServerHelloInv, ServerAuthInv, ClientHelloInv, ClientOkInv
            DEF Talk
<1>2. CASE \E e \in Ends : Strand(e) \/ CloseNow(e)
  <2>1. PICK e \in Ends : Strand(e) \/ CloseNow(e)  BY <1>2
  <2>2. CASE Unexpected(e) \/ Eof(e)  BY <2>2, FailLinkInv DEF Unexpected, Eof
  <2>. QED  BY <2>1, <2>2, StartInv, FinishStoreInv, FinishSignalInv, TimerExpiresInv,
               TimerRunsInv, CloseNowInv, CloseNowPostedInv, MuxInv DEF Strand
<1>3. CASE \E c \in Callers : Call(c)  BY <1>3, CallInv
<1>4. CASE UNCHANGED vars
  BY <1>4 DEF IndInv, TypeOK, ServerInv, OkInv, ClientInv, SignalInv, Agree, Past, vars, links
<1>. QED  BY <1>1, <1>2, <1>3, <1>4 DEF Next

\* The invariant holds always.
LEMMA Invariance == Spec => []IndInv
BY InitInv, StepInv, PTL DEF Spec

\* handshakeServer and handshakeClient authenticate for any two configured
\* passwords, any number of callers, any closeNow and any late timer.
THEOREM BothAuthenticate == Spec => []Authenticated
<1>1. IndInv => Authenticated
  BY DEF IndInv, TypeOK, ServerInv, ClientInv, Authenticated, Past, Ends
<1>. QED  BY <1>1, Invariance, PTL

\* waitHandshake refuses none of any number of callers while the link is open.
THEOREM RefusalMeansClosed == Spec => []RefusedOnlyIfClosed
<1>1. IndInv => RefusedOnlyIfClosed  BY DEF IndInv, SignalInv, RefusedOnlyIfClosed
<1>. QED  BY <1>1, Invariance, PTL
-------------------------------------------------------------------------------
(***************************************************************************)
(* Proofs about Heartbeat, for every choice of the intervals, the queue    *)
(* bound and the number of sessions that wait for room: a dead peer is     *)
(* noticed in time on an idle link, and a link is not closed for a ping    *)
(* timeout while its peer answers in time.                                 *)
(*                                                                         *)
(* An outstanding PING is one frame: the PING on its way out, or the PONG  *)
(* on its way back.  Where that frame is says how old the PING can be.     *)
(***************************************************************************)

FrameTypes == {"PING", "PONG", "DATA"}
BeatFrames == [type : FrameTypes, age : 0..MaxDelay]

Types ==
  /\ scenario \in Scenarios
  /\ link_closed \in BOOLEAN /\ pending \in BOOLEAN /\ blocked \in BOOLEAN
  /\ alive \in BOOLEAN /\ peer_pending \in BOOLEAN
  /\ tick_age \in 0..TickLen
  /\ sent_age \in 0..(PongTimeout + TickLen + 1) /\ pong_age \in 0..(Bound + 1)
  /\ to_peer \in Seq(BeatFrames) /\ from_peer \in Seq(BeatFrames)

\* A frame of the type is on the queue; at most one is.
Has(q, t) == \E i \in 1..Len(q) : q[i].type = t
Single(q, t) == \A i, j \in 1..Len(q) : q[i].type = t /\ q[j].type = t => i = j

\* A PING that is not answered is one frame, on its way out or back.
Trip(unanswered, out, back) ==
  /\ Single(out, "PING") /\ Single(back, "PONG")
  /\ ~(Has(out, "PING") /\ Has(back, "PONG"))
  /\ unanswered = (Has(out, "PING") \/ Has(back, "PONG"))

Outstanding ==
  Trip(pending, to_peer, from_peer) /\ Trip(peer_pending, from_peer, to_peer)

\* Only sessions wait behind QueueCap + Waiters frames.
Room(q) == \A i \in 1..Len(q) : q[i].type = "DATA" => i <= QueueCap + Waiters

\* What the scenarios leave out.
Exposed ==
  /\ ~BothPing => ~peer_pending
  /\ ~SlowReader => ~blocked
  /\ ~Busy => ~Has(to_peer, "DATA") /\ ~Has(from_peer, "DATA")

\* On an idle link the loop's timer bounds both ages.
Ages ==
  ~Busy /\ ~link_closed =>
    /\ ~pending => pong_age <= PingInterval + tick_age
    /\ pending => /\ sent_age <= PongTimeout + tick_age
                  /\ pong_age <= PingInterval + TickLen + sent_age

\* A frame of type t that is k queues from the head was sent n - k times MaxDelay
\* and the age of the frames in front of it ago, and base before that; s is the
\* time since the PING was sent.
Punctual(q, t, n, base, s) ==
  \A i \in 1..Len(q) : q[i].type = t =>
    /\ i <= (n + 1) * QueueCap
    /\ \A k \in 0..n : \A j \in 1..QueueCap :
         k * QueueCap + j <= i => s <= base + (n - k) * MaxDelay + q[j].age

\* The frame a PING has become is on time, if the peer is alive and no reader is
\* suspended.
Timely ==
  ~SlowReader /\ ~BothPing /\ alive =>
    \A n \in 1..(Waiters + 1) : Waiters < n * QueueCap =>
      /\ Punctual(to_peer, "PING", n, 0, sent_age)
      /\ Punctual(from_peer, "PONG", n, (n + 1) * MaxDelay, sent_age)
-------------------------------------------------------------------------------
\* The constants are natural numbers.
LEMMA Constants ==
  /\ TickLen \in Nat /\ QueueCap \in Nat /\ TickLen >= 1 /\ QueueCap >= 1
  /\ PingInterval \in Nat /\ PongTimeout \in Nat /\ MaxDelay \in Nat /\ Waiters \in Nat
  /\ Bound \in Nat
<1>1. TickLen \in Nat \ {0} /\ QueueCap \in Nat \ {0}
  BY HeartbeatAssumption, Zenon
<1>2. {PingInterval, PongTimeout, MaxDelay, Waiters} \subseteq Nat
  BY HeartbeatAssumption, Zenon
<1>3. PingInterval \in Nat /\ PongTimeout \in Nat /\ MaxDelay \in Nat /\ Waiters \in Nat
  BY <1>2, Zenon
<1> QED
  BY <1>1, <1>3 DEF Bound

\* Multiples of a bound.
LEMMA Multiples ==
  ASSUME NEW k \in Nat, NEW c \in Nat
  PROVE  k * c \in Nat /\ (k + 1) * c = k * c + c /\ 0 * c = 0 /\ c <= (k + 1) * c
OBVIOUS

\* One unit of time later.
LEMMA OneLater ==
  ASSUME NEW s \in Nat, NEW u \in Nat, NEW b \in Nat, NEW c \in Nat, NEW a \in Nat,
         u <= s + 1, s <= b + c + a
  PROVE  u <= b + c + (a + 1)
OBVIOUS

\* One queue further.
LEMMA OneFurther ==
  ASSUME NEW s \in Nat, NEW b \in Nat, NEW c \in Nat, NEW d \in Nat,
         NEW a \in 0..d, NEW x \in 0..d, s <= b + c + a
  PROVE  s <= b + (c + d) + x
OBVIOUS

\* An older queue holds the same frames, those that have room one unit older.
LEMMA OlderFacts ==
  ASSUME NEW q \in Seq(BeatFrames), ~Overdue(q)
  PROVE  /\ Older(q) \in Seq(BeatFrames) /\ Len(Older(q)) = Len(q)
         /\ \A i \in 1..Len(q) : /\ Older(q)[i].type = q[i].type
                                 /\ i <= QueueCap => Older(q)[i].age = q[i].age + 1
<1>1. Len(q) \in Nat /\ \A i \in 1..Len(q) : q[i] \in BeatFrames
  OBVIOUS
<1>2. ASSUME NEW i \in 1..Len(q)
      PROVE  /\ i > QueueCap => Older(q)[i] = q[i]
             /\ ~(i > QueueCap) => Older(q)[i] = [q[i] EXCEPT !.age = q[i].age + 1]
  BY Zenon DEF Older
<1>3. ASSUME NEW i \in 1..Len(q)
      PROVE  q[i].type \in FrameTypes /\ q[i].age \in 0..MaxDelay /\ q[i].age < MaxDelay
  BY <1>1, Constants DEF BeatFrames, Overdue
<1>4. ASSUME NEW i \in 1..Len(q)
      PROVE  /\ Older(q)[i] \in BeatFrames /\ Older(q)[i].type = q[i].type
             /\ i <= QueueCap => Older(q)[i].age = q[i].age + 1
  <2> DEFINE f == q[i]
             g == Older(q)[i]
  <2>1. /\ i > QueueCap => g = f
        /\ ~(i > QueueCap) => g = [f EXCEPT !.age = f.age + 1]
    BY <1>2, Zenon
  <2>2. f \in BeatFrames /\ i \in Nat /\ f.age < MaxDelay
    BY <1>1, <1>3
  <2> HIDE DEF f, g
  <2>3. CASE i > QueueCap
    <3>1. g = f /\ ~(i <= QueueCap)
      BY <2>1, <2>2, <2>3, Constants
    <3> QED
      BY <2>2, <3>1, Zenon DEF f, g
  <2>4. CASE ~(i > QueueCap)
    <3>1. g = [f EXCEPT !.age = f.age + 1]
      BY <2>1, <2>4, Zenon
    <3>2. g \in BeatFrames /\ g.type = f.type /\ g.age = f.age + 1
      <4> DEFINE a == f.age + 1
      <4>1. a \in 0..MaxDelay
        BY <2>2, Constants DEF BeatFrames
      <4>2. g = [f EXCEPT !.age = a]
        BY <3>1, Zenon
      <4> HIDE DEF a
      <4>3. g \in BeatFrames /\ g.type = f.type /\ g.age = a
        BY <2>2, <4>1, <4>2 DEF BeatFrames
      <4> QED
        BY <4>3, Zenon DEF a
    <3> QED
      BY <3>2, Zenon DEF f, g
  <2> QED
    BY <2>3, <2>4, Zenon
<1>5. Older(q) \in Seq(BeatFrames) /\ Len(Older(q)) = Len(q)
  <2>1. Older(q) \in [1..Len(q) -> BeatFrames]
    BY <1>4, Zenon DEF Older
  <2> QED
    BY <1>1, <2>1
<1> QED
  BY <1>4, <1>5

\* A queue without its first frame.
LEMMA TailFacts ==
  ASSUME NEW q \in Seq(BeatFrames), q # <<>>
  PROVE  /\ Tail(q) \in Seq(BeatFrames) /\ Len(q) \in Nat /\ Len(q) >= 1
         /\ Len(Tail(q)) = Len(q) - 1 /\ Head(q) = q[1] /\ q[1] \in BeatFrames
         /\ \A i \in 1..(Len(q) - 1) : Tail(q)[i] = q[i + 1]
OBVIOUS

\* A queue with one more frame.
LEMMA EnqueueFacts ==
  ASSUME NEW q \in Seq(BeatFrames), NEW t \in FrameTypes
  PROVE  /\ Enqueue(q, t) \in Seq(BeatFrames) /\ Len(q) \in Nat
         /\ Len(Enqueue(q, t)) = Len(q) + 1
         /\ \A i \in 1..Len(q) : Enqueue(q, t)[i] = q[i]
         /\ Enqueue(q, t)[Len(q) + 1].type = t /\ Enqueue(q, t)[Len(q) + 1].age = 0
<1>1. [type |-> t, age |-> 0] \in BeatFrames
  BY Constants DEF BeatFrames
<1> QED
  BY <1>1 DEF Enqueue

\* What an older queue keeps.
LEMMA OlderKeeps ==
  ASSUME NEW q \in Seq(BeatFrames), ~Overdue(q)
  PROVE  /\ \A t : Has(Older(q), t) = Has(q, t) /\ (Single(q, t) => Single(Older(q), t))
         /\ Room(q) => Room(Older(q))
<1>1. /\ Len(Older(q)) = Len(q)
      /\ \A i \in 1..Len(q) : Older(q)[i].type = q[i].type
  BY OlderFacts
<1> QED
  BY <1>1, Zenon DEF Has, Single, Room

\* What a queue keeps without its first frame.
LEMMA TailKeeps ==
  ASSUME NEW q \in Seq(BeatFrames), q # <<>>
  PROVE  /\ Has(q, Head(q).type)
         /\ \A t : /\ Has(Tail(q), t) => Has(q, t)
                   /\ Has(q, t) => Has(Tail(q), t) \/ Head(q).type = t
                   /\ Single(q, t) => Single(Tail(q), t)
                   /\ Single(q, t) /\ Head(q).type = t => ~Has(Tail(q), t)
         /\ Room(q) => Room(Tail(q))
<1> DEFINE r == Tail(q)
           n == Len(q)
<1>1. /\ n \in Nat /\ n >= 1 /\ Len(r) = n - 1 /\ Head(q) = q[1]
      /\ \A i \in 1..(n - 1) : r[i] = q[i + 1]
  BY TailFacts
<1>2. Len(q) = n
  OBVIOUS
<1> HIDE DEF r, n
<1>3. Has(q, Head(q).type)
  BY <1>1, <1>2 DEF Has
<1>4. ASSUME NEW t
      PROVE  /\ Has(r, t) => Has(q, t)
             /\ Has(q, t) => Has(r, t) \/ Head(q).type = t
             /\ Single(q, t) => Single(r, t)
             /\ Single(q, t) /\ Head(q).type = t => ~Has(r, t)
  <2>1. ASSUME NEW i \in 1..Len(r)
        PROVE  i \in Nat /\ i + 1 \in 1..n /\ i + 1 # 1 /\ r[i] = q[i + 1]
    BY <1>1
  <2>2. Has(r, t) => Has(q, t)
    BY <1>2, <2>1, Zenon DEF Has
  <2>3. ASSUME NEW i \in 1..n, q[i].type = t, Head(q).type # t
        PROVE  Has(r, t)
    <3>1. i # 1
      BY <1>1, <2>3, Zenon
    <3>2. i - 1 \in 1..Len(r) /\ (i - 1) + 1 = i
      BY <1>1, <3>1
    <3>3. r[i - 1].type = t
      BY <2>1, <2>3, <3>2
    <3> QED
      BY <3>2, <3>3, Zenon DEF Has
  <2>4. Has(q, t) => Has(r, t) \/ Head(q).type = t
    BY <1>2, <2>3, Zenon DEF Has
  <2>5. ASSUME Single(q, t), NEW i \in 1..Len(r), NEW j \in 1..Len(r),
               r[i].type = t, r[j].type = t
        PROVE  i = j
    <3>1. i + 1 = j + 1
      BY <1>2, <2>1, <2>5, Zenon DEF Single
    <3> QED
      BY <2>1, <3>1
  <2>6. ASSUME Single(q, t), Head(q).type = t, NEW i \in 1..Len(r), r[i].type = t
        PROVE  FALSE
    <3>1. 1 \in 1..n
      BY <1>1
    <3>2. i + 1 = 1
      BY <1>1, <1>2, <2>1, <2>6, <3>1, Zenon DEF Single
    <3> QED
      BY <2>1, <3>2, Zenon
  <2>7. Single(q, t) => Single(r, t)
    BY <2>5, Zenon DEF Single
  <2>8. Single(q, t) /\ Head(q).type = t => ~Has(r, t)
    BY <2>6, Zenon DEF Has
  <2> QED
    BY <2>2, <2>4, <2>7, <2>8, Zenon
<1>5. ASSUME Room(q), NEW i \in 1..Len(r), r[i].type = "DATA"
      PROVE  i <= QueueCap + Waiters
  <2>1. i \in Nat /\ i + 1 \in 1..n /\ r[i] = q[i + 1]
    BY <1>1
  <2>2. i + 1 <= QueueCap + Waiters
    BY <1>2, <1>5, <2>1, Zenon DEF Room
  <2> QED
    BY <2>1, <2>2, Constants
<1>6. Room(q) => Room(r)
  BY <1>5, Zenon DEF Room
<1> QED
  BY <1>3, <1>4, <1>6, Zenon DEF r

\* What a queue keeps, and gains, with one more frame.
LEMMA EnqueueKeeps ==
  ASSUME NEW q \in Seq(BeatFrames), NEW u \in FrameTypes
  PROVE  /\ \A t : /\ Has(Enqueue(q, u), t) = (Has(q, t) \/ t = u)
                   /\ Single(q, t) /\ (t # u \/ ~Has(q, t)) => Single(Enqueue(q, u), t)
         /\ Room(q) /\ (u # "DATA" \/ Len(q) < QueueCap + Waiters) => Room(Enqueue(q, u))
<1> DEFINE r == Enqueue(q, u)
           n == Len(q)
<1>1. /\ n \in Nat /\ Len(r) = n + 1 /\ \A i \in 1..n : r[i] = q[i]
      /\ r[n + 1].type = u
  BY EnqueueFacts
<1>2. Len(q) = n
  OBVIOUS
<1> HIDE DEF r, n
<1>3. /\ \A i \in 1..Len(r) : i \in 1..n \/ i = n + 1
      /\ n + 1 \in 1..Len(r) /\ \A i \in 1..n : i \in 1..Len(r)
  BY <1>1
<1>4. ASSUME NEW t
      PROVE  /\ Has(r, t) = (Has(q, t) \/ t = u)
             /\ Single(q, t) /\ (t # u \/ ~Has(q, t)) => Single(r, t)
  <2>1. Has(r, t) => Has(q, t) \/ t = u
    BY <1>1, <1>2, <1>3, Zenon DEF Has
  <2>2. Has(q, t) \/ t = u => Has(r, t)
    BY <1>1, <1>2, <1>3, Zenon DEF Has
  <2>3. Single(q, t) /\ (t # u \/ ~Has(q, t)) => Single(r, t)
    BY <1>1, <1>2, <1>3, Zenon DEF Has, Single
  <2>4. Has(r, t) \in BOOLEAN /\ (Has(q, t) \/ t = u) \in BOOLEAN
    BY Zenon DEF Has
  <2> QED
    BY <2>1, <2>2, <2>3, <2>4, Zenon
<1>5. ASSUME Room(q), u # "DATA" \/ n < QueueCap + Waiters,
             NEW i \in 1..Len(r), r[i].type = "DATA"
      PROVE  i <= QueueCap + Waiters
  <2>1. CASE i \in 1..n
    BY <1>1, <1>2, <1>5, <2>1, Zenon DEF Room
  <2>2. CASE i = n + 1
    <3>1. n < QueueCap + Waiters
      BY <1>1, <1>5, <2>2, Zenon
    <3> QED
      BY <1>1, <2>2, <3>1, Constants
  <2> QED
    BY <1>3, <2>1, <2>2, Zenon
<1>6. Room(q) /\ (u # "DATA" \/ n < QueueCap + Waiters) => Room(r)
  BY <1>5, Zenon DEF Room
<1> QED
  BY <1>4, <1>6, Zenon DEF r, n
-------------------------------------------------------------------------------
\* The queues as the invariants see them.
Queues == Outstanding /\ Room(to_peer) /\ Room(from_peer) /\ Exposed

\* At the start nothing is under way.
LEMMA QueuesInit ==
  HeartbeatInit => Types /\ Queues
<1> SUFFICES ASSUME HeartbeatInit PROVE Types /\ Queues
  OBVIOUS
<1>1. Types
  <2>1. /\ tick_age \in 0..TickLen /\ sent_age \in 0..(PongTimeout + TickLen + 1)
        /\ pong_age \in 0..(Bound + 1)
    BY Constants DEF HeartbeatInit, Bound
  <2>2. to_peer \in Seq(BeatFrames) /\ from_peer \in Seq(BeatFrames)
    BY DEF HeartbeatInit
  <2> QED
    BY <2>1, <2>2, Zenon DEF HeartbeatInit, Types
<1>2. Len(to_peer) = 0 /\ Len(from_peer) = 0
  BY DEF HeartbeatInit
<1>3. \A t : /\ ~Has(to_peer, t) /\ ~Has(from_peer, t)
             /\ Single(to_peer, t) /\ Single(from_peer, t)
  BY <1>2 DEF Has, Single
<1>4. Room(to_peer) /\ Room(from_peer)
  BY <1>2 DEF Room
<1>5. Outstanding /\ Exposed
  BY <1>3, Zenon DEF HeartbeatInit, Outstanding, Trip, Exposed
<1> QED
  BY <1>1, <1>4, <1>5, Zenon DEF Queues

\* While time passes the frames stay where they are.
LEMMA TickQueues ==
  ASSUME Types, Tick
  PROVE  /\ to_peer' \in Seq(BeatFrames) /\ from_peer' \in Seq(BeatFrames)
         /\ \A t : /\ Has(to_peer, t)' = Has(to_peer, t) /\ Has(from_peer, t)' = Has(from_peer, t)
                   /\ Single(to_peer, t) => Single(to_peer, t)'
                   /\ Single(from_peer, t) => Single(from_peer, t)'
         /\ Room(to_peer) => Room(to_peer)'
         /\ Room(from_peer) => Room(from_peer)'
<1>1. to_peer \in Seq(BeatFrames) /\ from_peer \in Seq(BeatFrames)
  BY Zenon DEF Types
<1>2. to_peer' = to_peer \/ (~Overdue(to_peer) /\ to_peer' = Older(to_peer))
  BY Zenon DEF Tick
<1>3. from_peer' = from_peer \/ (~Overdue(from_peer) /\ from_peer' = Older(from_peer))
  BY Zenon DEF Tick
<1>4. /\ to_peer' \in Seq(BeatFrames)
      /\ \A t : /\ Has(to_peer', t) = Has(to_peer, t)
                /\ Single(to_peer, t) => Single(to_peer', t)
      /\ Room(to_peer) => Room(to_peer')
  BY <1>1, <1>2, OlderFacts, OlderKeeps, Zenon
<1>5. /\ from_peer' \in Seq(BeatFrames)
      /\ \A t : /\ Has(from_peer', t) = Has(from_peer, t)
                /\ Single(from_peer, t) => Single(from_peer', t)
      /\ Room(from_peer) => Room(from_peer')
  BY <1>1, <1>3, OlderFacts, OlderKeeps, Zenon
<1> QED
  BY <1>4, <1>5, Zenon DEF Has, Single, Room

\* Every step keeps the types.
LEMMA TypesStep ==
  ASSUME Types, HeartbeatNext
  PROVE  Types'
<1>1. to_peer \in Seq(BeatFrames) /\ from_peer \in Seq(BeatFrames)
  BY Zenon DEF Types
<1>2. \A t \in FrameTypes : /\ Enqueue(to_peer, t) \in Seq(BeatFrames)
                            /\ Enqueue(from_peer, t) \in Seq(BeatFrames)
  BY <1>1, EnqueueFacts, Zenon
<1>3. "PING" \in FrameTypes /\ "PONG" \in FrameTypes /\ "DATA" \in FrameTypes
  BY DEF FrameTypes
<1>4. /\ to_peer # <<>> => Tail(to_peer) \in Seq(BeatFrames)
      /\ from_peer # <<>> => Tail(from_peer) \in Seq(BeatFrames)
  BY <1>1, TailFacts, Zenon
<1>5. 0 \in 0..TickLen /\ 0 \in 0..(PongTimeout + TickLen + 1) /\ 0 \in 0..(Bound + 1)
  BY Constants
<1>6. CASE Tick
  <2>1. tick_age' \in 0..TickLen
    BY <1>6, Constants DEF Tick, Types
  <2>2. sent_age' \in 0..(PongTimeout + TickLen + 1)
    BY <1>6, Constants DEF Tick, Types, AtMost
  <2>3. pong_age' \in 0..(Bound + 1)
    BY <1>6, Constants DEF Tick, Types, AtMost
  <2>4. to_peer' \in Seq(BeatFrames) /\ from_peer' \in Seq(BeatFrames)
    BY <1>6, TickQueues
  <2> QED
    BY <1>6, <2>1, <2>2, <2>3, <2>4, Zenon DEF Tick, Types
<1>7. CASE Loop
  BY <1>2, <1>3, <1>5, <1>7, Zenon DEF Loop, PingTimeout, SendPing, Idle, Types
<1>8. CASE Reader
  <2>1. CASE OnPong
    BY <1>4, <1>5, <2>1, Zenon DEF OnPong, Receive, Types
  <2>2. CASE OnPing
    BY <1>2, <1>3, <1>4, <2>2, Zenon DEF OnPing, Receive, Types, ours
  <2>3. CASE OnData
    <3>1. SlowReader \in BOOLEAN
      BY Zenon DEF SlowReader
    <3> QED
      BY <1>4, <2>3, <3>1, Zenon DEF OnData, Receive, Types, ours
  <2> QED
    BY <1>8, <2>1, <2>2, <2>3, Zenon DEF Reader
<1>9. CASE SendData \/ InboxDrained \/ PeerDies
  BY <1>2, <1>3, <1>9, Zenon DEF SendData, InboxDrained, PeerDies, Types, ours
<1>10. CASE PeerReceives
  BY <1>2, <1>3, <1>4, <1>10, Zenon DEF PeerReceives, Types, ours
<1>11. ASSUME NEW type \in {"DATA", "PING"}, PeerSends(type) PROVE Types'
  <2>1. type \in FrameTypes
    BY DEF FrameTypes
  <2>2. peer_pending' \in BOOLEAN
    BY <1>11, Zenon DEF PeerSends
  <2> QED
    BY <1>2, <1>11, <2>1, <2>2, Zenon DEF PeerSends, Types, ours
<1> QED
  BY <1>6, <1>7, <1>8, <1>9, <1>10, <1>11, Zenon DEF HeartbeatNext

\* r holds the frames of type t that q holds.
Same(q, r, t) == Has(r, t) = Has(q, t) /\ (Single(q, t) => Single(r, t))

\* A frame of another type leaves the queue.
LEMMA TailSame ==
  ASSUME NEW q \in Seq(BeatFrames), q # <<>>, NEW t, Head(q).type # t
  PROVE  Same(q, Tail(q), t)
<1>1. (Has(Tail(q), t) <=> Has(q, t)) /\ (Single(q, t) => Single(Tail(q), t))
  BY TailKeeps, Zenon
<1> QED
  BY <1>1, Zenon DEF Same, Has

\* A frame of another type is put on the queue.
LEMMA EnqueueSame ==
  ASSUME NEW q \in Seq(BeatFrames), NEW u \in FrameTypes, NEW t, t # u
  PROVE  Same(q, Enqueue(q, u), t)
<1>1. (Has(Enqueue(q, u), t) <=> Has(q, t)) /\ (Single(q, t) => Single(Enqueue(q, u), t))
  BY EnqueueKeeps, Zenon
<1> QED
  BY <1>1, Zenon DEF Same, Has

\* Every step keeps an unanswered PING one frame, and the bound on the queues.
LEMMA QueuesStep ==
  ASSUME Types, Queues, HeartbeatNext
  PROVE  Queues'
<1> DEFINE Q(o, b) == Trip(pending', o, b) /\ Trip(peer_pending', b, o) /\ Room(o) /\ Room(b)
<1>1. to_peer \in Seq(BeatFrames) /\ from_peer \in Seq(BeatFrames)
  BY Zenon DEF Types
<1>2. /\ Trip(pending, to_peer, from_peer) /\ Trip(peer_pending, from_peer, to_peer)
      /\ Room(to_peer) /\ Room(from_peer) /\ Exposed
  BY Zenon DEF Queues, Outstanding
<1>3. "PING" \in FrameTypes /\ "PONG" \in FrameTypes /\ "DATA" \in FrameTypes
  BY DEF FrameTypes
<1>a. \A u \in FrameTypes : \A t : t # u => /\ Same(to_peer, Enqueue(to_peer, u), t)
                                           /\ Same(from_peer, Enqueue(from_peer, u), t)
  BY <1>1, EnqueueSame, Zenon
<1>4. scenario' = scenario
  BY Zenon DEF HeartbeatNext, Tick, Loop, PingTimeout, SendPing, Idle, Reader, OnPong, OnPing, OnData,
     InboxDrained, SendData, PeerReceives, PeerSends, PeerDies
<1>5. SUFFICES /\ Q(to_peer', from_peer')
               /\ ~BothPing => ~peer_pending'
               /\ ~SlowReader => ~blocked'
               /\ ~Busy => ~Has(to_peer', "DATA") /\ ~Has(from_peer', "DATA")
  BY <1>4, Zenon DEF Queues, Outstanding, Trip, Room, Has, Single, Exposed, BothPing, SlowReader,
     Busy
<1>6. CASE Tick
  <2>1. /\ \A t : /\ Has(to_peer', t) = Has(to_peer, t) /\ Has(from_peer', t) = Has(from_peer, t)
                  /\ Single(to_peer, t) => Single(to_peer', t)
                  /\ Single(from_peer, t) => Single(from_peer', t)
        /\ Room(to_peer) => Room(to_peer')
        /\ Room(from_peer) => Room(from_peer')
    BY <1>6, TickQueues, Zenon DEF Has, Single, Room
  <2>2. pending' = pending /\ peer_pending' = peer_pending /\ blocked' = blocked
    BY <1>6, Zenon DEF Tick
  <2> QED
    BY <1>2, <2>1, <2>2, Zenon DEF Trip, Exposed
<1>7. CASE PingTimeout \/ Idle \/ PeerDies
  <2>1. /\ to_peer' = to_peer /\ from_peer' = from_peer /\ pending' = pending
        /\ peer_pending' = peer_pending /\ blocked' = blocked
    BY <1>7, Zenon DEF PingTimeout, Idle, PeerDies, ours
  <2> QED
    BY <1>2, <2>1, Zenon DEF Exposed
<1>8. CASE SendPing
  <2>1. /\ ~pending /\ pending' = TRUE /\ to_peer' = Enqueue(to_peer, "PING")
        /\ from_peer' = from_peer /\ peer_pending' = peer_pending /\ blocked' = blocked
    BY <1>8, Zenon DEF SendPing, LongIdle
  <2> QED
    BY <1>1, <1>2, <1>3, <2>1, EnqueueKeeps, Zenon DEF Trip, Exposed
<1>9. CASE SendData
  <2>1. /\ Busy /\ Len(to_peer) < QueueCap + Waiters /\ to_peer' = Enqueue(to_peer, "DATA")
        /\ from_peer' = from_peer /\ peer_pending' = peer_pending /\ blocked' = blocked
        /\ pending' = pending
    BY <1>9, Zenon DEF SendData, ours
  <2>2. /\ Same(to_peer, to_peer', "PING") /\ Same(to_peer, to_peer', "PONG")
        /\ Room(to_peer')
    <3>1. Room(to_peer')
      BY <1>1, <1>2, <1>3, <2>1, EnqueueKeeps, Zenon
    <3> QED
      BY <1>3, <1>a, <2>1, <3>1, Zenon
  <2> QED
    BY <1>2, <2>1, <2>2, Zenon DEF Trip, Exposed, Same
<1>10. CASE PeerReceives
  <2>1. /\ to_peer # <<>> /\ to_peer' = Tail(to_peer) /\ pending' = pending /\ blocked' = blocked
        /\ peer_pending' = (peer_pending /\ Head(to_peer).type # "PONG")
        /\ \/ Head(to_peer).type = "PING" /\ from_peer' = Enqueue(from_peer, "PONG")
           \/ Head(to_peer).type # "PING" /\ from_peer' = from_peer
    BY <1>10, Zenon DEF PeerReceives, ours
  <2>2. CASE Head(to_peer).type = "PING" /\ from_peer' = Enqueue(from_peer, "PONG")
    <3>1. /\ Same(to_peer, to_peer', "PONG") /\ Room(to_peer') /\ Has(to_peer, "PING")
          /\ Single(to_peer', "PING") /\ ~Has(to_peer', "PING")
          /\ Has(to_peer', "DATA") => Has(to_peer, "DATA")
      <4>1. Same(to_peer, to_peer', "PONG")
        <5>1. Head(to_peer).type # "PONG"
          BY <2>2
        <5> QED
          BY <1>1, <2>1, <5>1, TailSame, Zenon
      <4> QED
        BY <1>1, <1>2, <2>1, <2>2, <4>1, TailKeeps, Zenon DEF Trip
    <3>2. /\ Same(from_peer, from_peer', "PING") /\ Same(from_peer, from_peer', "DATA")
          /\ Room(from_peer') /\ Has(from_peer', "PONG")
      <4>1. Room(from_peer') /\ Has(from_peer', "PONG")
        BY <1>1, <1>2, <1>3, <2>2, EnqueueKeeps, Zenon
      <4> QED
        BY <1>3, <1>a, <2>2, <4>1, Zenon
    <3>3. Single(from_peer', "PONG")
      BY <1>1, <1>2, <1>3, <2>2, <3>1, EnqueueKeeps, Zenon DEF Trip
    <3>4. peer_pending' = peer_pending
      BY <1>2, <2>1, <2>2, Zenon DEF Types
    <3> QED
      BY <1>2, <2>1, <3>1, <3>2, <3>3, <3>4, Zenon DEF Trip, Exposed, Same
  <2>3. CASE Head(to_peer).type # "PING" /\ from_peer' = from_peer
    <3>1. /\ Same(to_peer, to_peer', "PING") /\ Room(to_peer') /\ Single(to_peer', "PONG")
          /\ Has(to_peer', "DATA") => Has(to_peer, "DATA")
      <4>1. Same(to_peer, to_peer', "PING")
        BY <1>1, <2>1, <2>3, TailSame, Zenon
      <4> QED
        BY <1>1, <1>2, <2>1, <4>1, TailKeeps, Zenon DEF Trip
    <3>2. CASE Head(to_peer).type = "PONG"
      <4>1. Has(to_peer, "PONG") /\ ~Has(to_peer', "PONG") /\ peer_pending' = FALSE
        BY <1>1, <1>2, <2>1, <3>2, TailKeeps, Zenon DEF Trip
      <4> QED
        BY <1>2, <2>1, <2>3, <3>1, <4>1, Zenon DEF Trip, Exposed, Same
    <3>3. CASE Head(to_peer).type # "PONG"
      <4>1. Has(to_peer', "PONG") = Has(to_peer, "PONG")
        BY <1>1, <2>1, <3>3, TailSame, Zenon DEF Same
      <4>2. peer_pending' = peer_pending
        BY <2>1, <3>3, Zenon DEF Types
      <4> QED
        BY <1>2, <2>1, <2>3, <3>1, <4>1, <4>2, Zenon DEF Trip, Exposed, Same
    <3> QED
      BY <3>2, <3>3, Zenon
  <2> QED
    BY <2>1, <2>2, <2>3, Zenon
<1>11. ASSUME NEW type \in {"DATA", "PING"}, PeerSends(type)
       PROVE  /\ Q(to_peer', from_peer')
              /\ ~BothPing => ~peer_pending'
              /\ ~SlowReader => ~blocked'
              /\ ~Busy => ~Has(to_peer', "DATA") /\ ~Has(from_peer', "DATA")
  <2>1. /\ Busy /\ Len(from_peer) < QueueCap + Waiters /\ from_peer' = Enqueue(from_peer, type)
        /\ type = "PING" => BothPing /\ ~peer_pending
        /\ peer_pending' = (peer_pending \/ type = "PING")
        /\ to_peer' = to_peer /\ pending' = pending /\ blocked' = blocked
    BY <1>11, Zenon DEF PeerSends, ours
  <2>2. CASE type = "PING"
    BY <1>1, <1>2, <1>3, <2>1, <2>2, EnqueueKeeps, Zenon DEF Trip, Exposed
  <2>3. CASE type = "DATA"
    <3>1. /\ Same(from_peer, from_peer', "PING") /\ Same(from_peer, from_peer', "PONG")
          /\ Room(from_peer')
      <4>1. Room(from_peer')
        BY <1>1, <1>2, <1>3, <2>1, <2>3, EnqueueKeeps, Zenon
      <4> QED
        BY <1>3, <1>a, <2>1, <2>3, <4>1, Zenon
    <3>2. peer_pending' = peer_pending
      BY <2>1, <2>3, Zenon DEF Types
    <3> QED
      BY <1>2, <2>1, <3>1, <3>2, Zenon DEF Trip, Exposed, Same
  <2> QED
    BY <2>2, <2>3, Zenon
<1>12. CASE Reader
  <2>1. from_peer # <<>> /\ from_peer' = Tail(from_peer) /\ peer_pending' = peer_pending
    BY <1>12, Zenon DEF Reader, OnPong, OnPing, OnData, Receive, ours
  <2>2. CASE OnPong
    <3>1. /\ Head(from_peer).type = "PONG" /\ pending' = FALSE
          /\ to_peer' = to_peer /\ blocked' = blocked
      BY <2>2, Zenon DEF OnPong, Receive
    <3> QED
      BY <1>1, <1>2, <2>1, <3>1, TailKeeps, Zenon DEF Trip, Exposed
  <2>3. CASE OnPing
    <3>1. /\ Head(from_peer).type = "PING" /\ pending' = pending
          /\ to_peer' = Enqueue(to_peer, "PONG") /\ blocked' = blocked
      BY <2>3, Zenon DEF OnPing, Receive, ours
    <3> QED
      <4>1. /\ Same(from_peer, from_peer', "PONG") /\ Room(from_peer') /\ Has(from_peer, "PING")
            /\ Single(from_peer', "PING") /\ ~Has(from_peer', "PING")
            /\ Has(from_peer', "DATA") => Has(from_peer, "DATA")
        <5>1. Same(from_peer, from_peer', "PONG")
          <6>1. Head(from_peer).type # "PONG"
            BY <3>1
          <6> QED
            BY <1>1, <2>1, <6>1, TailSame, Zenon
        <5> QED
          BY <1>1, <1>2, <2>1, <3>1, <5>1, TailKeeps, Zenon DEF Trip
      <4>2. /\ Same(to_peer, to_peer', "PING") /\ Same(to_peer, to_peer', "DATA")
            /\ Room(to_peer') /\ Has(to_peer', "PONG")
        <5>1. Room(to_peer') /\ Has(to_peer', "PONG")
          BY <1>1, <1>2, <1>3, <3>1, EnqueueKeeps, Zenon
        <5> QED
          BY <1>3, <1>a, <3>1, <5>1, Zenon
      <4>3. Single(to_peer', "PONG")
        BY <1>1, <1>2, <1>3, <3>1, <4>1, EnqueueKeeps, Zenon DEF Trip
      <4> QED
        BY <1>2, <2>1, <3>1, <4>1, <4>2, <4>3, Zenon DEF Trip, Exposed, Same
  <2>4. CASE OnData
    <3>1. /\ Head(from_peer).type = "DATA" /\ pending' = pending
          /\ to_peer' = to_peer /\ blocked' \in {FALSE, SlowReader}
      BY <2>4, Zenon DEF OnData, Receive, ours
    <3> QED
      <4>1. /\ Same(from_peer, from_peer', "PING") /\ Same(from_peer, from_peer', "PONG")
        <5>1. Head(from_peer).type # "PING" /\ Head(from_peer).type # "PONG"
          BY <3>1
        <5> QED
          BY <1>1, <2>1, <5>1, TailSame, Zenon
      <4>2. Room(from_peer') /\ (Has(from_peer', "DATA") => Has(from_peer, "DATA"))
        BY <1>1, <1>2, <2>1, TailKeeps, Zenon
      <4>3. ~SlowReader => ~blocked'
        BY <3>1 DEF SlowReader
      <4> QED
        BY <1>2, <2>1, <3>1, <4>1, <4>2, <4>3, Zenon DEF Trip, Exposed, Same
  <2> QED
    BY <1>12, <2>2, <2>3, <2>4, Zenon DEF Reader
<1>13. CASE InboxDrained
  BY <1>2, <1>13, Zenon DEF InboxDrained, Exposed, ours
<1> QED
  BY <1>6, <1>7, <1>8, <1>9, <1>10, <1>11, <1>12, <1>13, Zenon DEF HeartbeatNext, Loop
-------------------------------------------------------------------------------
\* A queue with frames of one type, at most one of them, holds at most one frame.
LEMMA AtMostOne ==
  ASSUME NEW q \in Seq(BeatFrames), NEW t, Single(q, t), \A i \in 1..Len(q) : q[i].type = t
  PROVE  Len(q) <= 1
<1> DEFINE n == Len(q)
<1>1. n \in Nat
  OBVIOUS
<1>2. \A i, j \in 1..n : i = j
  BY Zenon DEF Single
<1> HIDE DEF n
<1>3. n <= 1
  BY <1>1, <1>2
<1> QED
  BY <1>3 DEF n

\* BeatFrames are of the three types.
LEMMA ThreeTypes ==
  ASSUME NEW q \in Seq(BeatFrames), NEW i \in 1..Len(q)
  PROVE  q[i].type = "PING" \/ q[i].type = "PONG" \/ q[i].type = "DATA"
<1>1. q[i] \in BeatFrames
  OBVIOUS
<1> QED
  BY <1>1 DEF BeatFrames, FrameTypes

\* On an idle link the loop never waits for room.
LEMMA IdleSleeps ==
  ASSUME Types, Queues, ~Busy
  PROVE  Asleep
<1>1. to_peer \in Seq(BeatFrames)
  BY Zenon DEF Types
<1>2. ~peer_pending
  BY Zenon DEF Queues, Exposed, Busy, BothPing
<1>3. ~Has(to_peer, "PONG") /\ ~Has(to_peer, "DATA") /\ Single(to_peer, "PING")
  BY <1>2, Zenon DEF Queues, Outstanding, Trip, Exposed
<1>4. Len(to_peer) <= 1
  <2>1. \A i \in 1..Len(to_peer) : to_peer[i].type = "PING"
    BY <1>1, <1>3, ThreeTypes, Zenon DEF Has
  <2> QED
    BY <1>1, <1>3, <2>1, AtMostOne, Zenon
<1>5. Len(to_peer) \in Nat
  BY <1>1
<1>6. (QueueCap + 1)..Len(to_peer) = {}
  BY <1>4, <1>5, Constants
<1> QED
  BY <1>6, Zenon DEF Asleep, Suspended

\* Every step keeps the ages on an idle link.
LEMMA AgesStep ==
  ASSUME Types, Queues, Ages, HeartbeatNext
  PROVE  Ages'
<1> DEFINE Quiet == ~pending => pong_age <= PingInterval + tick_age
           Waiting == pending => /\ sent_age <= PongTimeout + tick_age
                                 /\ pong_age <= PingInterval + TickLen + sent_age
<1>1. SUFFICES ASSUME ~Busy', ~link_closed' PROVE Quiet' /\ Waiting'
  BY Zenon DEF Ages
<1>2. ~Busy /\ ~link_closed
  <2>1. scenario' = scenario /\ (link_closed' = link_closed \/ link_closed' = TRUE)
    BY Zenon DEF HeartbeatNext, Tick, Loop, PingTimeout, SendPing, Idle, Reader, OnPong, OnPing,
       OnData, InboxDrained, SendData, PeerReceives, PeerSends, PeerDies, ours
  <2>2. ~Busy
    BY <1>1, <2>1, Zenon DEF Busy
  <2>3. ~link_closed
    BY <1>1, <2>1, Zenon
  <2> QED
    BY <2>2, <2>3
<1>3. Quiet /\ Waiting
  BY <1>2, Zenon DEF Ages
<1>4. /\ tick_age \in 0..TickLen /\ sent_age \in Nat /\ pong_age \in Nat
      /\ pending \in BOOLEAN
  BY Constants DEF Types
<1>5. CASE Tick
  <2>1. Asleep
    BY <1>2, IdleSleeps
  <2>2. /\ tick_age < TickLen /\ tick_age' = tick_age + 1 /\ pending' = pending
        /\ pending => sent_age' = AtMost(sent_age + 1, PongTimeout + TickLen + 1)
        /\ pong_age' = AtMost(pong_age + 1, Bound + 1)
    BY <1>5, <2>1, Zenon DEF Tick
  <2>3. pong_age' <= pong_age + 1 /\ pong_age' \in Nat
    BY <1>4, <2>2, Constants DEF AtMost
  <2>4. CASE pending
    <3>1. sent_age <= PongTimeout + tick_age /\ pong_age <= PingInterval + TickLen + sent_age
      BY <1>3, <2>4, Zenon
    <3>2. sent_age' = sent_age + 1
      BY <1>4, <2>2, <2>4, <3>1, Constants DEF AtMost
    <3>3. /\ sent_age' <= PongTimeout + tick_age'
          /\ pong_age' <= PingInterval + TickLen + sent_age'
      BY <1>4, <2>2, <2>3, <3>1, <3>2, Constants
    <3> QED
      BY <2>2, <2>4, <3>3, Zenon
  <2>5. CASE ~pending
    <3>1. pong_age' <= PingInterval + tick_age'
      BY <1>3, <1>4, <2>2, <2>3, <2>5, Constants
    <3> QED
      BY <2>2, <2>5, <3>1, Zenon
  <2> QED
    BY <2>4, <2>5
<1>6. CASE SendPing
  <2>1. /\ pending' = TRUE /\ sent_age' = 0 /\ tick_age' = 0 /\ pong_age' = pong_age
        /\ ~pending /\ tick_age = TickLen
    BY <1>6, Zenon DEF SendPing, LongIdle, Due
  <2>2. /\ sent_age' <= PongTimeout + tick_age'
        /\ pong_age' <= PingInterval + TickLen + sent_age'
    BY <1>3, <1>4, <2>1, Constants
  <2> QED
    BY <2>1, <2>2, Zenon
<1>7. CASE Idle
  <2>1. /\ pending' = pending /\ sent_age' = sent_age /\ tick_age' = 0 /\ pong_age' = pong_age
        /\ pending => ~(sent_age > PongTimeout)
        /\ ~pending => ~(pong_age > PingInterval)
    BY <1>7, Zenon DEF Idle, LongIdle, Expired
  <2>2. CASE pending
    BY <1>3, <1>4, <2>1, <2>2, Constants
  <2>3. CASE ~pending
    BY <1>3, <1>4, <2>1, <2>3, Constants
  <2> QED
    BY <2>2, <2>3
<1>8. CASE OnPong
  <2>1. pending' = FALSE /\ pong_age' = 0 /\ tick_age' = tick_age
    BY <1>8, Zenon DEF OnPong
  <2>2. pong_age' <= PingInterval + tick_age'
    BY <1>4, <2>1, Constants
  <2> QED
    BY <2>1, <2>2, Zenon
<1>9. CASE UNCHANGED <<pending, sent_age, pong_age, tick_age>>
  BY <1>3, <1>9, Zenon
<1>10. Tick \/ SendPing \/ Idle \/ OnPong \/ UNCHANGED <<pending, sent_age, pong_age, tick_age>>
  BY <1>1, Zenon DEF HeartbeatNext, Loop, PingTimeout, Reader, OnPing, OnData, InboxDrained, SendData,
     PeerReceives, PeerSends, PeerDies, ours
<1> QED
  BY <1>5, <1>6, <1>7, <1>8, <1>9, <1>10, Zenon
-------------------------------------------------------------------------------
\* A queue without such a frame is on time.
LEMMA PunctualNone ==
  ASSUME NEW q, NEW t, ~Has(q, t), NEW n, NEW base, NEW s
  PROVE  Punctual(q, t, n, base, s)
BY Zenon DEF Has, Punctual

\* Time passes for the frame and for those in front of it.
LEMMA PunctualOlder ==
  ASSUME NEW q \in Seq(BeatFrames), ~Overdue(q), NEW t, NEW n \in Nat, NEW base \in Nat,
         NEW s \in Nat, NEW u \in Nat, u <= s + 1, Punctual(q, t, n, base, s)
  PROVE  Punctual(Older(q), t, n, base, u)
<1> DEFINE r == Older(q)
           l == Len(q)
<1>1. /\ l \in Nat /\ Len(r) = l /\ r \in Seq(BeatFrames)
      /\ \A i \in 1..l : /\ r[i].type = q[i].type /\ q[i].age \in Nat
                         /\ i <= QueueCap => r[i].age = q[i].age + 1
  <2>1. \A i \in 1..l : q[i] \in BeatFrames
    OBVIOUS
  <2>2. \A i \in 1..l : q[i].age \in Nat
    BY <2>1, Constants DEF BeatFrames
  <2> QED
    BY <2>2, OlderFacts
<1>2. \A i \in 1..l : q[i].type = t =>
        /\ i <= (n + 1) * QueueCap
        /\ \A k \in 0..n : \A j \in 1..QueueCap :
             k * QueueCap + j <= i => s <= base + (n - k) * MaxDelay + q[j].age
  BY Zenon DEF Punctual
<1> HIDE DEF r, l
<1>3. ASSUME NEW i \in 1..l, r[i].type = t, NEW k \in 0..n, NEW j \in 1..QueueCap,
             k * QueueCap + j <= i
      PROVE  u <= base + (n - k) * MaxDelay + r[j].age
  <2> DEFINE c == (n - k) * MaxDelay
             d == k * QueueCap
  <2>1. c \in Nat /\ d \in Nat
    <3>1. n - k \in Nat /\ k \in Nat
      OBVIOUS
    <3> QED
      BY <3>1, Multiples, Constants
  <2>2. s <= base + c + q[j].age
    BY <1>1, <1>2, <1>3, Zenon
  <2>3. d + j <= i
    BY <1>3
  <2> HIDE DEF c, d
  <2>4. j \in 1..l /\ j <= QueueCap
    BY <1>1, <2>1, <2>3, Constants
  <2>5. r[j].age = q[j].age + 1 /\ q[j].age \in Nat
    BY <1>1, <2>4, Zenon
  <2>6. u <= base + c + r[j].age
    BY <2>1, <2>2, <2>5, OneLater, Zenon
  <2> QED
    BY <2>6, Zenon DEF c
<1>4. \A i \in 1..l : r[i].type = t => i <= (n + 1) * QueueCap
  BY <1>1, <1>2, Zenon
<1> QED
  BY <1>1, <1>3, <1>4, Zenon DEF Punctual, r

\* The first frame leaves, at most MaxDelay old: what waited behind a full queue
\* has gained one queue, or the frames in front of it are one fewer.
LEMMA PunctualTail ==
  ASSUME NEW q \in Seq(BeatFrames), q # <<>>, NEW t, NEW n \in Nat, NEW base \in Nat,
         NEW s \in Nat, Punctual(q, t, n, base, s)
  PROVE  Punctual(Tail(q), t, n, base, s)
<1> DEFINE r == Tail(q)
           l == Len(q)
<1>1. /\ l \in Nat /\ l >= 1 /\ Len(r) = l - 1
      /\ \A i \in 1..(l - 1) : r[i] = q[i + 1] /\ i \in Nat /\ i + 1 \in 1..l
      /\ \A i \in 1..l : q[i].age \in 0..MaxDelay
  <2>1. \A i \in 1..l : q[i] \in BeatFrames
    OBVIOUS
  <2>2. \A i \in 1..l : q[i].age \in 0..MaxDelay
    BY <2>1, Zenon DEF BeatFrames
  <2>3. l \in Nat /\ l >= 1 /\ Len(r) = l - 1 /\ \A i \in 1..(l - 1) : r[i] = q[i + 1]
    BY TailFacts
  <2>4. \A i \in 1..(l - 1) : i \in Nat /\ i + 1 \in 1..l
    BY <2>3
  <2> QED
    BY <2>2, <2>3, <2>4, Zenon
<1>2. \A i \in 1..l : q[i].type = t =>
        /\ i <= (n + 1) * QueueCap
        /\ \A k \in 0..n : \A j \in 1..QueueCap :
             k * QueueCap + j <= i => s <= base + (n - k) * MaxDelay + q[j].age
  BY Zenon DEF Punctual
<1> HIDE DEF r, l
<1>3. ASSUME NEW i \in 1..(l - 1), r[i].type = t
      PROVE  i <= (n + 1) * QueueCap
  <2>1. i + 1 <= (n + 1) * QueueCap /\ i \in Nat
    BY <1>1, <1>2, <1>3, Zenon
  <2>2. (n + 1) * QueueCap \in Nat
    BY Multiples, Constants
  <2> QED
    BY <2>1, <2>2
<1>4. ASSUME NEW i \in 1..(l - 1), r[i].type = t, NEW k \in 0..n, NEW j \in 1..QueueCap,
             k * QueueCap + j <= i
      PROVE  s <= base + (n - k) * MaxDelay + r[j].age
  <2> DEFINE c == (n - k) * MaxDelay
             d == k * QueueCap
             m == (n + 1) * QueueCap
  <2>1. n - k \in Nat /\ k \in Nat /\ k + 1 \in Nat
    OBVIOUS
  <2>2. /\ c \in Nat /\ d \in Nat /\ m \in Nat /\ (k + 1) * QueueCap = d + QueueCap
        /\ k = n => d + QueueCap = m
    BY <2>1, Multiples, Constants
  <2>3. i \in Nat /\ i + 1 \in 1..l /\ q[i + 1].type = t /\ i + 1 <= m
    BY <1>1, <1>2, <1>4, Zenon
  <2>4. d + j <= i
    BY <1>4
  <2>5. CASE j < QueueCap
    <3> HIDE DEF c, d, m
    <3>1. j + 1 \in 1..QueueCap /\ d + (j + 1) <= i + 1 /\ j \in 1..(l - 1)
      BY <1>1, <2>2, <2>3, <2>4, <2>5, Constants
    <3>2. s <= base + c + q[j + 1].age
      BY <1>2, <2>3, <3>1, Zenon DEF c, d
    <3>3. r[j] = q[j + 1]
      BY <1>1, <3>1, Zenon
    <3> QED
      BY <3>2, <3>3, Zenon DEF c
  <2>6. CASE j = QueueCap
    <3> DEFINE b == (n - (k + 1)) * MaxDelay
    <3>1. k + 1 \in 0..n
      <4> HIDE DEF c, d, m
      <4>1. k # n
        BY <2>2, <2>3, <2>4, <2>6, Constants
      <4> QED
        BY <2>1, <4>1
    <3>2. b \in Nat /\ c = b + MaxDelay
      <4>1. n - (k + 1) \in Nat /\ (n - (k + 1)) + 1 = n - k
        BY <2>1, <3>1
      <4> QED
        BY <4>1, Multiples, Constants, Zenon
    <3>3. 1 \in 1..QueueCap /\ (k + 1) * QueueCap + 1 <= i + 1
      <4> HIDE DEF c, d, m, b
      <4> QED
        BY <2>2, <2>3, <2>4, <2>6, Constants
    <3>4. s <= base + b + q[1].age
      BY <1>2, <2>3, <3>1, <3>3, Zenon
    <3>5. q[1].age \in 0..MaxDelay
      BY <1>1
    <3>6. j \in 1..(l - 1)
      <4> HIDE DEF c, d, m, b
      <4> QED
        BY <1>1, <2>2, <2>3, <2>4, Constants
    <3>7. r[j].age \in 0..MaxDelay
      BY <1>1, <3>6, Zenon
    <3> HIDE DEF b, c
    <3>8. s <= base + c + r[j].age
      BY <3>2, <3>4, <3>5, <3>7, Constants, OneFurther, Zenon
    <3> QED
      BY <3>8, Zenon DEF c
  <2>7. j < QueueCap \/ j = QueueCap
    BY Constants
  <2> QED
    BY <2>5, <2>6, <2>7, Zenon
<1> QED
  BY <1>1, <1>3, <1>4, Zenon DEF Punctual, r

\* A frame of another type is put behind it.
LEMMA PunctualEnqueue ==
  ASSUME NEW q \in Seq(BeatFrames), NEW v \in FrameTypes, NEW t, t # v, NEW n \in Nat, NEW base, NEW s,
         Punctual(q, t, n, base, s)
  PROVE  Punctual(Enqueue(q, v), t, n, base, s)
<1> DEFINE r == Enqueue(q, v)
           l == Len(q)
<1>1. /\ l \in Nat /\ Len(r) = l + 1 /\ r[l + 1].type = v
      /\ \A i \in 1..l : r[i] = q[i]
  BY EnqueueFacts
<1>2. \A i \in 1..l : q[i].type = t =>
        /\ i <= (n + 1) * QueueCap
        /\ \A k \in 0..n : \A j \in 1..QueueCap :
             k * QueueCap + j <= i => s <= base + (n - k) * MaxDelay + q[j].age
  BY Zenon DEF Punctual
<1> HIDE DEF r, l
<1>3. ASSUME NEW i \in 1..(l + 1), r[i].type = t
      PROVE  i \in 1..l /\ q[i].type = t
  <2>1. i # l + 1
    BY <1>1, <1>3, Zenon
  <2>2. i \in 1..l
    BY <1>1, <2>1
  <2> QED
    BY <1>1, <1>3, <2>2, Zenon
<1>4. ASSUME NEW i \in 1..(l + 1), r[i].type = t, NEW k \in 0..n, NEW j \in 1..QueueCap,
             k * QueueCap + j <= i
      PROVE  s <= base + (n - k) * MaxDelay + r[j].age
  <2> DEFINE d == k * QueueCap
  <2>1. d \in Nat
    BY Multiples, Constants
  <2>2. i \in 1..l /\ d + j <= i
    BY <1>3, <1>4
  <2> HIDE DEF d
  <2>3. j \in 1..l
    BY <1>1, <2>1, <2>2, Constants
  <2>4. r[j] = q[j]
    BY <1>1, <2>3, Zenon
  <2> QED
    BY <1>2, <1>3, <1>4, <2>4, Zenon
<1>5. \A i \in 1..(l + 1) : r[i].type = t => i <= (n + 1) * QueueCap
  BY <1>2, <1>3, Zenon
<1> QED
  BY <1>1, <1>4, <1>5, Zenon DEF Punctual, r

\* The frame is put on the queue no later than base.
LEMMA PunctualFresh ==
  ASSUME NEW q \in Seq(BeatFrames), NEW t \in FrameTypes, ~Has(q, t), NEW n \in Nat,
         NEW base \in Nat, NEW s \in Nat, s <= base, Len(q) + 1 <= (n + 1) * QueueCap
  PROVE  Punctual(Enqueue(q, t), t, n, base, s)
<1> DEFINE r == Enqueue(q, t)
           l == Len(q)
<1>1. /\ l \in Nat /\ Len(r) = l + 1 /\ r \in Seq(BeatFrames)
      /\ \A i \in 1..l : r[i] = q[i] /\ q[i].type # t
  <2>1. \A i \in 1..l : q[i].type # t
    BY Zenon DEF Has
  <2> QED
    BY <2>1, EnqueueFacts
<1>2. \A i \in 1..(l + 1) : r[i].age \in Nat
  <2>1. \A i \in 1..(l + 1) : r[i] \in BeatFrames
    BY <1>1, SMTT(20)
  <2> QED
    BY <2>1, Constants DEF BeatFrames
<1>3. l + 1 <= (n + 1) * QueueCap
  OBVIOUS
<1> HIDE DEF r, l
<1>4. ASSUME NEW i \in 1..(l + 1), r[i].type = t
      PROVE  i = l + 1
  <2>1. i \in 1..l \/ i = l + 1
    BY <1>1
  <2> QED
    BY <1>1, <1>4, <2>1, Zenon
<1>5. ASSUME NEW i \in 1..(l + 1), r[i].type = t, NEW k \in 0..n, NEW j \in 1..QueueCap,
             k * QueueCap + j <= i
      PROVE  s <= base + (n - k) * MaxDelay + r[j].age
  <2> DEFINE c == (n - k) * MaxDelay
             d == k * QueueCap
  <2>1. c \in Nat /\ d \in Nat
    <3>1. n - k \in Nat /\ k \in Nat
      OBVIOUS
    <3> QED
      BY <3>1, Multiples, Constants
  <2>2. d + j <= i
    BY <1>5
  <2> HIDE DEF c, d
  <2>3. j \in 1..(l + 1)
    BY <1>1, <2>1, <2>2, Constants
  <2>4. r[j].age \in Nat
    BY <1>2, <2>3, Zenon
  <2>5. s <= base + c + r[j].age
    BY <2>1, <2>4
  <2> QED
    BY <2>5, Zenon DEF c
<1> QED
  BY <1>1, <1>3, <1>4, <1>5, Zenon DEF Punctual, r

\* Such a frame is never later than base and n + 1 times MaxDelay.
LEMMA PunctualBound ==
  ASSUME NEW q \in Seq(BeatFrames), NEW t, Has(q, t), NEW n \in Nat, NEW base \in Nat,
         NEW s \in Nat, Punctual(q, t, n, base, s)
  PROVE  s <= base + (n + 1) * MaxDelay
<1>1. PICK i \in 1..Len(q) : q[i].type = t
  BY Zenon DEF Has
<1> DEFINE c == (n - 0) * MaxDelay
           m == (n + 1) * MaxDelay
           d == 0 * QueueCap
<1>2. c \in Nat /\ m = c + MaxDelay /\ d = 0
  <2>1. n - 0 = n
    OBVIOUS
  <2> QED
    BY <2>1, Multiples, Constants
<1>3. Len(q) \in Nat /\ 1 \in 1..Len(q) /\ i \in Nat /\ i >= 1
  OBVIOUS
<1>4. q[1].age \in 0..MaxDelay
  <2>1. q[1] \in BeatFrames
    BY <1>3
  <2> QED
    BY <2>1, Zenon DEF BeatFrames
<1>5. 0 \in 0..n /\ 1 \in 1..QueueCap
  BY Constants
<1>6. d + 1 <= i
  <2> HIDE DEF d, c, m
  <2> QED
    BY <1>2, <1>3
<1>7. s <= base + c + q[1].age
  BY <1>1, <1>5, <1>6, Zenon DEF Punctual
<1> HIDE DEF c, m
<1>8. s <= base + m
  BY <1>2, <1>4, <1>7, Constants
<1> QED
  BY <1>8, Zenon DEF m

\* A queue of DATA alone leaves a place among the first n + 1 times QueueCap.
LEMMA PlaceLeft ==
  ASSUME NEW q \in Seq(BeatFrames), Room(q), ~Has(q, "PING"), ~Has(q, "PONG"),
         NEW n \in Nat, Waiters < n * QueueCap
  PROVE  Len(q) + 1 <= (n + 1) * QueueCap
<1> DEFINE l == Len(q)
           m == n * QueueCap
<1>1. l \in Nat /\ m \in Nat /\ (n + 1) * QueueCap = m + QueueCap /\ Waiters < m
  BY Multiples, Constants
<1>2. \A i \in 1..l : i <= QueueCap + Waiters
  BY ThreeTypes, Zenon DEF Has, Room
<1> HIDE DEF l, m
<1>3. l <= QueueCap + Waiters
  <2>1. l = 0 \/ l \in 1..l
    BY <1>1
  <2> QED
    BY <1>1, <1>2, <2>1, Constants
<1>4. l + 1 <= m + QueueCap
  BY <1>1, <1>3, Constants
<1> QED
  BY <1>1, <1>4 DEF l
-------------------------------------------------------------------------------
\* What the readers do where Timely says something: both read, unless the peer waits
\* for room for its PONG.
LEMMA BothRead ==
  ASSUME Types, Queues, ~SlowReader, ~BothPing, alive
  PROVE  /\ Reads /\ (~Has(from_peer, "PONG") => PeerReads)
         /\ ~Has(from_peer, "PING") /\ ~Has(to_peer, "PONG")
<1>1. ~blocked /\ ~peer_pending
  BY Zenon DEF Queues, Exposed
<1>2. ~Has(from_peer, "PING") /\ ~Has(to_peer, "PONG")
  BY <1>1, Zenon DEF Queues, Outstanding, Trip
<1>3. ASSUME NEW q \in Seq(BeatFrames), Suspended(q, "PONG") PROVE Has(q, "PONG")
  <2>1. Len(q) \in Nat /\ \A i \in (QueueCap + 1)..Len(q) : i \in 1..Len(q)
    BY Constants
  <2> QED
    BY <1>3, <2>1, Zenon DEF Suspended, Has
<1>4. to_peer \in Seq(BeatFrames) /\ from_peer \in Seq(BeatFrames)
  BY Zenon DEF Types
<1> QED
  BY <1>1, <1>2, <1>3, <1>4, Zenon DEF Reads, PeerReads

\* Every step keeps the frame a PING has become on time.
LEMMA TimelyStep ==
  ASSUME Types, Types', Queues, Timely, HeartbeatNext
  PROVE  Timely'
<1>1. scenario' = scenario /\ (alive' => alive)
  <2>1. scenario' = scenario /\ (alive' = alive \/ alive' = FALSE)
    BY Zenon DEF HeartbeatNext, Tick, Loop, PingTimeout, SendPing, Idle, Reader, OnPong, OnPing, OnData,
       InboxDrained, SendData, PeerReceives, PeerSends, PeerDies
  <2>2. CASE alive' = alive
    BY <2>1, <2>2, Zenon
  <2>3. CASE alive' = FALSE
    BY <2>1, <2>3, Zenon
  <2> QED
    BY <2>1, <2>2, <2>3, Zenon
<1>2. SUFFICES ASSUME ~SlowReader, ~BothPing, alive,
                      NEW n \in 1..(Waiters + 1), Waiters < n * QueueCap
               PROVE  /\ Punctual(to_peer', "PING", n, 0, sent_age')
                      /\ Punctual(from_peer', "PONG", n, (n + 1) * MaxDelay, sent_age')
  BY <1>1, Zenon DEF Timely, SlowReader, BothPing, Punctual
<1> DEFINE m == (n + 1) * MaxDelay
<1>3. /\ Punctual(to_peer, "PING", n, 0, sent_age)
      /\ Punctual(from_peer, "PONG", n, m, sent_age)
  BY <1>2, Zenon DEF Timely
<1>4. n \in Nat /\ m \in Nat /\ 0 \in Nat /\ sent_age \in Nat /\ sent_age' \in Nat
  <2>1. n \in Nat
    BY Constants
  <2>2. sent_age \in Nat /\ sent_age' \in Nat
    BY Constants DEF Types
  <2> QED
    BY <2>1, <2>2, Multiples, Constants
<1>5. to_peer \in Seq(BeatFrames) /\ from_peer \in Seq(BeatFrames)
  BY Zenon DEF Types
<1>6. /\ Reads /\ (~Has(from_peer, "PONG") => PeerReads)
      /\ ~Has(from_peer, "PING") /\ ~Has(to_peer, "PONG")
  BY <1>2, BothRead, Zenon
<1>7. /\ Room(to_peer) /\ Room(from_peer)
      /\ ~(Has(to_peer, "PING") /\ Has(from_peer, "PONG"))
      /\ ~pending => ~Has(to_peer, "PING") /\ ~Has(from_peer, "PONG")
  BY Zenon DEF Queues, Outstanding, Trip
<1>8. "PING" \in FrameTypes /\ "PONG" \in FrameTypes /\ "DATA" \in FrameTypes
  BY DEF FrameTypes
<1> HIDE DEF m
<1>9. CASE Tick
  <2>1. /\ from_peer' = Older(from_peer) /\ ~Overdue(from_peer)
        /\ PeerReads => to_peer' = Older(to_peer) /\ ~Overdue(to_peer)
    BY <1>6, <1>9, Zenon DEF Tick
  <2>2. /\ ~Has(to_peer, "PING") => ~Has(to_peer', "PING")
        /\ ~Has(from_peer, "PONG") => ~Has(from_peer', "PONG")
    BY <1>9, TickQueues, Zenon DEF Has
  <2>3. pending => sent_age' <= sent_age + 1
    <3>1. pending => sent_age' = AtMost(sent_age + 1, PongTimeout + TickLen + 1)
      BY <1>9, Zenon DEF Tick
    <3> QED
      BY <1>4, <3>1, Constants DEF AtMost
  <2>4. CASE Has(to_peer, "PING")
    <3>1. Punctual(Older(to_peer), "PING", n, 0, sent_age') /\ to_peer' = Older(to_peer)
      BY <1>3, <1>4, <1>5, <1>6, <1>7, <2>1, <2>3, <2>4, PunctualOlder, Zenon
    <3>2. Punctual(from_peer', "PONG", n, m, sent_age')
      BY <1>7, <2>2, <2>4, PunctualNone, Zenon
    <3> QED
      BY <3>1, <3>2, Zenon DEF m
  <2>5. CASE Has(from_peer, "PONG")
    <3>1. Punctual(Older(from_peer), "PONG", n, m, sent_age')
      BY <1>3, <1>4, <1>5, <1>7, <2>1, <2>3, <2>5, PunctualOlder, Zenon
    <3>2. Punctual(to_peer', "PING", n, 0, sent_age')
      BY <1>7, <2>2, <2>5, PunctualNone, Zenon
    <3> QED
      BY <2>1, <3>1, <3>2, Zenon DEF m
  <2>6. CASE ~Has(to_peer, "PING") /\ ~Has(from_peer, "PONG")
    BY <2>2, <2>6, PunctualNone, Zenon
  <2> QED
    BY <2>4, <2>5, <2>6, Zenon
<1>10. CASE SendPing
  <2>1. /\ ~pending /\ sent_age' = 0 /\ to_peer' = Enqueue(to_peer, "PING")
        /\ from_peer' = from_peer
    BY <1>10, Zenon DEF SendPing, LongIdle
  <2>2. Len(to_peer) + 1 <= (n + 1) * QueueCap
    BY <1>2, <1>4, <1>5, <1>6, <1>7, <2>1, PlaceLeft, Zenon
  <2>3. 0 <= 0
    OBVIOUS
  <2>4. Punctual(Enqueue(to_peer, "PING"), "PING", n, 0, 0)
    BY <1>4, <1>5, <1>7, <1>8, <2>1, <2>2, <2>3, PunctualFresh, Zenon
  <2>5. Punctual(from_peer, "PONG", n, m, 0)
    BY <1>7, <2>1, PunctualNone, Zenon
  <2> QED
    BY <2>1, <2>4, <2>5, Zenon DEF m
<1>11. CASE PeerReceives
  <2>1. /\ to_peer # <<>> /\ to_peer' = Tail(to_peer) /\ sent_age' = sent_age
        /\ \/ Head(to_peer).type = "PING" /\ from_peer' = Enqueue(from_peer, "PONG")
           \/ from_peer' = from_peer
    BY <1>11, Zenon DEF PeerReceives, ours
  <2>2. Punctual(Tail(to_peer), "PING", n, 0, sent_age)
    BY <1>3, <1>4, <1>5, <2>1, PunctualTail, Zenon
  <2>3. CASE Head(to_peer).type = "PING" /\ from_peer' = Enqueue(from_peer, "PONG")
    <3>1. Has(to_peer, "PING")
      BY <1>5, <2>1, <2>3, TailKeeps, Zenon
    <3>2. ~Has(from_peer, "PONG")
      BY <1>7, <3>1, Zenon
    <3>3. sent_age <= 0 + m
      BY <1>3, <1>4, <1>5, <3>1, PunctualBound, Zenon DEF m
    <3>4. sent_age <= m
      BY <1>4, <3>3
    <3>5. Len(from_peer) + 1 <= (n + 1) * QueueCap
      BY <1>2, <1>4, <1>5, <1>6, <1>7, <3>2, PlaceLeft, Zenon
    <3>6. Punctual(Enqueue(from_peer, "PONG"), "PONG", n, m, sent_age)
      BY <1>4, <1>5, <1>8, <3>2, <3>4, <3>5, PunctualFresh, Zenon
    <3> QED
      BY <2>1, <2>2, <2>3, <3>6, Zenon DEF m
  <2>4. CASE from_peer' = from_peer
    BY <1>3, <2>1, <2>2, <2>4, Zenon DEF m
  <2> QED
    BY <2>1, <2>3, <2>4, Zenon
<1>12. CASE SendData
  <2>1. to_peer' = Enqueue(to_peer, "DATA") /\ from_peer' = from_peer /\ sent_age' = sent_age
    BY <1>12, Zenon DEF SendData, ours
  <2>2. "PING" # "DATA"
    OBVIOUS
  <2>3. Punctual(Enqueue(to_peer, "DATA"), "PING", n, 0, sent_age)
    BY <1>3, <1>4, <1>5, <1>8, <2>2, PunctualEnqueue, Zenon
  <2> QED
    BY <1>3, <2>1, <2>3, Zenon DEF m
<1>13. ASSUME NEW type \in {"DATA", "PING"}, PeerSends(type)
       PROVE  /\ Punctual(to_peer', "PING", n, 0, sent_age')
              /\ Punctual(from_peer', "PONG", n, m, sent_age')
  <2>1. from_peer' = Enqueue(from_peer, type) /\ to_peer' = to_peer /\ sent_age' = sent_age
    BY <1>13, Zenon DEF PeerSends, ours
  <2>2. "PONG" # type /\ type \in FrameTypes
    BY DEF FrameTypes
  <2>3. Punctual(Enqueue(from_peer, type), "PONG", n, m, sent_age)
    BY <1>3, <1>4, <1>5, <2>2, PunctualEnqueue, Zenon
  <2> QED
    BY <1>3, <2>1, <2>3, Zenon
<1>14. CASE Reader
  <2>1. /\ from_peer # <<>> /\ from_peer' = Tail(from_peer) /\ sent_age' = sent_age
        /\ to_peer' = to_peer \/ to_peer' = Enqueue(to_peer, "PONG")
    BY <1>14, Zenon DEF Reader, OnPong, OnPing, OnData, Receive, ours
  <2>2. Punctual(Tail(from_peer), "PONG", n, m, sent_age)
    BY <1>3, <1>4, <1>5, <2>1, PunctualTail, Zenon
  <2>3. "PING" # "PONG"
    OBVIOUS
  <2>4. Punctual(Enqueue(to_peer, "PONG"), "PING", n, 0, sent_age)
    BY <1>3, <1>4, <1>5, <1>8, <2>3, PunctualEnqueue, Zenon
  <2> QED
    BY <1>3, <2>1, <2>2, <2>4, Zenon DEF m
<1>15. CASE UNCHANGED <<to_peer, from_peer, sent_age>>
  BY <1>3, <1>15, Zenon DEF m
<1>16. \/ Tick \/ SendPing \/ PeerReceives \/ SendData \/ Reader
       \/ \E type \in {"DATA", "PING"} : PeerSends(type)
       \/ UNCHANGED <<to_peer, from_peer, sent_age>>
  BY Zenon DEF HeartbeatNext, Loop, PingTimeout, Idle, InboxDrained, PeerDies, ours
<1> QED
  BY <1>9, <1>10, <1>11, <1>12, <1>13, <1>14, <1>15, <1>16, Zenon DEF m

\* A PING that is outstanding in time has not expired.
LEMMA NotExpired ==
  ASSUME Types, Queues, Timely, ~SlowReader, ~BothPing, InTime, alive
  PROVE  ~Expired
<1>1. SUFFICES ASSUME pending PROVE sent_age <= PongTimeout
  <2>1. sent_age \in Nat
    BY Constants DEF Types
  <2> QED
    BY <2>1, Constants DEF Expired
<1>2. PICK n \in 1..(Waiters + 1) :
        Waiters < n * QueueCap /\ 2 * (n + 1) * MaxDelay <= PongTimeout
  BY Zenon DEF InTime
<1> DEFINE m == (n + 1) * MaxDelay
<1>3. n \in Nat /\ m \in Nat /\ 0 \in Nat /\ m + m <= PongTimeout /\ sent_age \in Nat
  <2>1. n \in Nat
    BY Constants
  <2>2. m \in Nat
    BY <2>1, Multiples, Constants
  <2>3. 2 * (n + 1) * MaxDelay = m + m
    BY <2>1, Constants
  <2>4. sent_age \in Nat
    BY Constants DEF Types
  <2> QED
    BY <1>2, <2>1, <2>2, <2>3, <2>4, Zenon
<1>4. /\ Punctual(to_peer, "PING", n, 0, sent_age)
      /\ Punctual(from_peer, "PONG", n, m, sent_age)
  BY <1>2, Zenon DEF Timely
<1>5. to_peer \in Seq(BeatFrames) /\ from_peer \in Seq(BeatFrames)
  BY Zenon DEF Types
<1>6. Has(to_peer, "PING") \/ Has(from_peer, "PONG")
  BY <1>1, Zenon DEF Queues, Outstanding, Trip
<1>7. sent_age <= 0 + m \/ sent_age <= m + m
  BY <1>3, <1>4, <1>5, <1>6, PunctualBound, Zenon
<1> HIDE DEF m
<1> QED
  BY <1>3, <1>7, Constants

\* BeatFrames are DATA within the bound, and at most one PING and one PONG behind them.
LEMMA QueueLength ==
  ASSUME NEW q \in Seq(BeatFrames), Room(q), Single(q, "PING"), Single(q, "PONG")
  PROVE  Len(q) \in 0..(QueueCap + Waiters + 2)
<1> DEFINE l == Len(q)
           b == QueueCap + Waiters
<1>1. l \in Nat /\ b \in Nat
  BY Constants
<1>2. \A i \in 1..l : i <= b \/ q[i].type = "PING" \/ q[i].type = "PONG"
  BY ThreeTypes, Zenon DEF Room
<1>3. \A i, j \in 1..l : /\ q[i].type = "PING" /\ q[j].type = "PING" => i = j
                         /\ q[i].type = "PONG" /\ q[j].type = "PONG" => i = j
  BY Zenon DEF Single
<1> HIDE DEF l, b
<1>4. ASSUME l >= b + 3 PROVE FALSE
  <2>1. /\ b + 1 \in 1..l /\ b + 2 \in 1..l /\ b + 3 \in 1..l
        /\ ~(b + 1 <= b) /\ ~(b + 2 <= b) /\ ~(b + 3 <= b)
        /\ b + 1 # b + 2 /\ b + 1 # b + 3 /\ b + 2 # b + 3
    BY <1>1, <1>4
  <2> QED
    BY <1>2, <1>3, <2>1, Zenon
<1>5. l \in 0..(b + 2)
  BY <1>1, <1>4
<1> QED
  BY <1>5 DEF l, b
-------------------------------------------------------------------------------
Inv == Types /\ Queues /\ Ages /\ Timely /\ NoFalseTimeout

\* The invariant holds when the link is opened.
LEMMA InvInit ==
  HeartbeatInit => Inv
<1> SUFFICES ASSUME HeartbeatInit PROVE Inv
  OBVIOUS
<1>1. Types /\ Queues
  BY QueuesInit
<1>2. Ages
  <2>1. pong_age <= PingInterval + tick_age /\ ~pending
    BY Constants DEF HeartbeatInit
  <2> QED
    BY <2>1, Zenon DEF Ages
<1>3. ~Has(to_peer, "PING") /\ ~Has(from_peer, "PONG")
  BY <1>1, Zenon DEF Queues, Outstanding, Trip, HeartbeatInit
<1>4. Timely
  BY <1>3, PunctualNone, Zenon DEF Timely
<1>5. NoFalseTimeout
  BY Zenon DEF HeartbeatInit, NoFalseTimeout
<1> QED
  BY <1>1, <1>2, <1>4, <1>5, Zenon DEF Inv

\* Every step keeps the invariant.
LEMMA InvNext ==
  Inv /\ [HeartbeatNext]_heartbeatVars => Inv'
<1> SUFFICES ASSUME Inv, [HeartbeatNext]_heartbeatVars PROVE Inv'
  OBVIOUS
<1>1. Types /\ Queues /\ Ages /\ Timely /\ NoFalseTimeout
  BY Zenon DEF Inv
<1>2. CASE HeartbeatNext
  <2>1. Types'
    BY <1>1, <1>2, TypesStep, Zenon
  <2>2. Queues' /\ Ages' /\ Timely'
    BY <1>1, <1>2, <2>1, QueuesStep, AgesStep, TimelyStep, Zenon
  <2>3. NoFalseTimeout'
    <3>1. \/ scenario' = scenario /\ link_closed' = link_closed /\ (alive' = alive \/ alive' = FALSE)
          \/ PingTimeout /\ scenario' = scenario /\ alive' = alive
      BY <1>2, Zenon DEF HeartbeatNext, Tick, Loop, PingTimeout, SendPing, Idle, Reader, OnPong, OnPing,
         OnData, Receive, InboxDrained, SendData, PeerReceives, PeerSends, PeerDies, ours
    <3>2. CASE scenario' = scenario /\ link_closed' = link_closed /\ alive' = alive
      BY <1>1, <3>2, Zenon DEF NoFalseTimeout, InTime, SlowReader, BothPing
    <3>3. CASE alive' = FALSE
      BY <3>3, Zenon DEF NoFalseTimeout
    <3>4. CASE PingTimeout /\ scenario' = scenario /\ alive' = alive
      <4>1. Expired
        BY <3>4, Zenon DEF PingTimeout
      <4>2. ~SlowReader /\ ~BothPing /\ InTime => ~alive
        BY <1>1, <4>1, NotExpired, Zenon
      <4> QED
        BY <3>4, <4>2, Zenon DEF NoFalseTimeout, InTime, SlowReader, BothPing
    <3> QED
      BY <3>1, <3>2, <3>3, <3>4, Zenon
  <2> QED
    BY <2>1, <2>2, <2>3, Zenon DEF Inv
<1>3. CASE UNCHANGED heartbeatVars
  BY <1>1, <1>3, Zenon DEF Inv, heartbeatVars, Types, Queues, Outstanding, Trip, Exposed, Has, Single, Room,
     Ages, Timely, Punctual, NoFalseTimeout, InTime, Busy, SlowReader, BothPing
<1> QED
  BY <1>2, <1>3

\* The invariant always holds.
LEMMA InvAlways ==
  HeartbeatSpec => []Inv
<1>1. HeartbeatInit => Inv
  BY InvInit
<1>2. Inv /\ [HeartbeatNext]_heartbeatVars => Inv'
  BY InvNext
<1> QED
  BY <1>1, <1>2, PTL DEF HeartbeatSpec

\* A dead peer is noticed in time: on an idle link that is open, the last PONG, or
\* the start, is at most ping_interval + pong_timeout and two periods of
\* heartbeatLoop ago.
THEOREM DeadPeerNoticed ==
  HeartbeatSpec => []PongRecent
<1>1. ASSUME Inv PROVE PongRecent
  <2>1. Types /\ Queues /\ Ages
    BY <1>1, Zenon DEF Inv
  <2>2. /\ Len(to_peer) \in 0..(QueueCap + Waiters + 2)
        /\ Len(from_peer) \in 0..(QueueCap + Waiters + 2)
    BY <2>1, QueueLength, Zenon DEF Types, Queues, Outstanding, Trip
  <2>3. HeartbeatTypeOK
    BY <2>1, <2>2, Zenon DEF HeartbeatTypeOK, Types
  <2>4. ASSUME ~Busy, ~link_closed PROVE pong_age <= Bound
    <3>1. tick_age \in 0..TickLen /\ sent_age \in Nat /\ pong_age \in Nat
      BY <2>1, Constants DEF Types
    <3>2. CASE pending
      <4>1. /\ sent_age <= PongTimeout + tick_age
            /\ pong_age <= PingInterval + TickLen + sent_age
        BY <2>1, <2>4, <3>2, Zenon DEF Ages
      <4> QED
        BY <3>1, <4>1, Constants DEF Bound
    <3>3. CASE ~pending
      <4>1. pong_age <= PingInterval + tick_age
        BY <2>1, <2>4, <3>3, Zenon DEF Ages
      <4> QED
        BY <3>1, <4>1, Constants DEF Bound
    <3> QED
      BY <3>2, <3>3
  <2> QED
    BY <2>3, <2>4, Zenon DEF PongRecent
<1> QED
  BY <1>1, InvAlways, PTL

\* heartbeatLoop closes a link only when its peer has stopped answering, as long as
\* a round trip and the waits for room fit into pong_timeout and no reader is
\* suspended.
THEOREM TimeoutIsReal ==
  HeartbeatSpec => []NoFalseTimeout
<1>1. Inv => NoFalseTimeout
  BY Zenon DEF Inv
<1> QED
  BY <1>1, InvAlways, PTL
===============================================================================
