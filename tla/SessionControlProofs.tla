------------------------- MODULE SessionControlProofs -------------------------
(***************************************************************************)
(* Proofs about where the ends of a Session stand, for every window, queue *)
(* and inbox size, every number of payloads and every kind of failure.     *)
(*                                                                         *)
(* Four invariants, each proved from the ones before it: Types and Limits  *)
(* (what the guards alone give); First (NEW is the client's first frame);  *)
(* Control (where the copy loops stand when a CLOSE, a RESET or a load of  *)
(* state_ exists); Strand (the server's load of state_ is never stale).    *)
(***************************************************************************)
EXTENDS Session, TLAPS

FrameTypes == {"NEW", "ACK", "DATA", "WINDOW", "CLOSE", "RESET"}
Frames == [type : FrameTypes, n : Nat]
Ups == {"none", "connect", "failed", "refused", "read", "wait", "enqueue", "sendclose", "done"}
Downs == {"none", "receive", "window", "write", "done"}

\* A chunk that write() has paid for and not enqueued.
Framed(e) == IF up[e] = "enqueue" THEN 1 ELSE 0

\* TypeOK without the upper limits of the counters that need Credits.
Types ==
  /\ state \in [Ends -> States \cup {"none"}]
  /\ loaded \in [Ends -> States \cup {"none"}]
  /\ registered \in [Ends -> BOOLEAN] /\ link_closed \in [Ends -> BOOLEAN]
  /\ inbox_open \in [Ends -> BOOLEAN] /\ signal_open \in [Ends -> BOOLEAN]
  /\ eof \in [Ends -> BOOLEAN] /\ ended \in [Ends -> BOOLEAN] /\ pend \in [Ends -> BOOLEAN]
  /\ signal \in [Ends -> {0, 1}]
  /\ credit \in [Ends -> Nat] /\ unacked \in [Ends -> Nat]
  /\ app \in [Ends -> Nat] /\ sent \in [Ends -> Nat]
  /\ up \in [Ends -> Ups] /\ down \in [Ends -> Downs]
  /\ wire \in [Ends -> Seq(Frames)]
  /\ inbox \in [Ends -> Seq(Nat)] /\ out \in [Ends -> Seq(Nat)]

\* The limits that follow from the guards alone.
Counts(e) ==
  /\ app[e] <= AppFrames(e)
  /\ sent[e] + Framed(e) <= app[e]
  /\ up[e] = "wait" => sent[e] < app[e]

Room(e) == Len(wire[e]) <= QueueCap /\ Len(inbox[e]) <= InboxCap

Limits == \A e \in Ends : Counts(e) /\ Room(e)

\* Frames of a type on their way from e.
Carries(e, t) == \E i \in 1..Len(wire[e]) : wire[e][i].type = t

\* Before the server has made the session, or when it has refused it.
Before(e) ==
  up[e] \in {"none", "refused"} =>
     state[e] = "none" /\ loaded[e] = "none" /\ ~registered[e] /\ credit[e] = 0 /\ sent[e] = 0

\* bidiCopy has left the session.
Over(e) ==
  /\ ended[e] => Copied(e) /\ ~registered[e]
  /\ pend[e] => ended[e]

\* CLOSE is sent, and seen by the peer, only when the loop that feeds e is done;
\* RESET only by a server that has refused the session.
LastWord(e) ==
  /\ Carries(e, "CLOSE") \/ loaded[Peer(e)] # "none" => up[e] = "done"
  /\ Carries(e, "RESET") => up[e] = "refused"
  /\ \A i, j \in 1..Len(wire[e]) :
        wire[e][i].type = "CLOSE" /\ wire[e][j].type = "DATA" => j < i

\* What state_ says of the two directions.
Halves(e) ==
  /\ "HalfClosedLocal" \in {state[e], loaded[e]} => up[e] \in {"sendclose", "done"}
  /\ state[e] = "HalfClosedRemote" => up[Peer(e)] = "done"
  /\ state[e] = "Closed" =>
       /\ ~registered[e]
       /\ \/ ended[e] \/ link_closed[e] \/ up[Peer(e)] = "refused"
          \/ up[e] \in {"sendclose", "done"} /\ up[Peer(e)] = "done"

\* Where the copy loops stand.
Control == \A e \in Ends : Before(e) /\ Over(e) /\ LastWord(e) /\ Halves(e)

\* onPeerClose on the server's strand stores what follows from the present state_.
Strand == loaded["server"] \in {"none", state["server"]}

\* NEW is the first frame of the client and the session is made from it.
First ==
  /\ \A e \in Ends : \A i \in 1..Len(wire[e]) :
        wire[e][i].type = "NEW" =>
          e = "client" /\ i = 1 /\ up["server"] = "none" /\ wire[e][i].n = Window
  /\ up["server"] = "none" /\ ~link_closed["server"] =>
        \/ link_closed["client"] /\ wire["client"] = <<>>
        \/ wire["client"] # <<>> /\ wire["client"][1].type = "NEW"

-------------------------------------------------------------------------------
(* The two ends. *)

\* A sequence with an element more.
LEMMA Appended ==
  ASSUME NEW S, NEW s \in Seq(S), NEW x \in S
  PROVE  /\ Append(s, x) \in Seq(S) /\ Append(s, x) # <<>> /\ Len(Append(s, x)) = Len(s) + 1
         /\ \A i \in 1..Len(s) : Append(s, x)[i] = s[i]
         /\ Append(s, x)[Len(s) + 1] = x
OBVIOUS

\* A sequence without its first element.
LEMMA FirstTaken ==
  ASSUME NEW S, NEW s \in Seq(S), s # <<>>
  PROVE  /\ Head(s) \in S /\ Head(s) = s[1]
         /\ Tail(s) \in Seq(S) /\ Len(Tail(s)) = Len(s) - 1
         /\ \A i \in 1..Len(Tail(s)) : Tail(s)[i] = s[i + 1]
OBVIOUS

\* No frames are a sequence of frames.
LEMMA NoFrames == <<>> \in Seq(Frames)
OBVIOUS

\* The front of a sequence.
LEMMA FrontKept ==
  ASSUME NEW S, NEW s \in Seq(S), NEW k \in 0..Len(s)
  PROVE  /\ SubSeq(s, 1, k) \in Seq(S) /\ Len(SubSeq(s, 1, k)) = k
         /\ \A i \in 1..k : SubSeq(s, 1, k)[i] = s[i]
OBVIOUS

\* There are two ends, each the peer of the other.
LEMMA PeerFacts ==
  /\ Peer("client") = "server" /\ Peer("server") = "client"
  /\ \A e \in Ends : Peer(e) \in Ends /\ Peer(e) # e /\ Peer(Peer(e)) = e
<1>1. Peer("client") = "server"
  BY DEF Peer, Ends
<1>2. Peer("server") = "client"
  BY DEF Peer, Ends
<1> QED
  BY <1>1, <1>2 DEF Ends

\* An end other than e is its peer.
LEMMA TwoEnds == \A e, x \in Ends : x = e \/ x = Peer(e)
  BY PeerFacts DEF Ends

\* Next, one disjunct per action.
LEMMA Actions ==
  ASSUME Next
  PROVE  \/ OnNew \/ OnNewRefused \/ Connected \/ ConnectFailed
         \/ \E e \in Ends :
              \/ UpData(e) \/ UpEof(e) \/ UpWake(e) \/ UpEnqueue(e) \/ UpSendClose(e)
              \/ DownReceive(e) \/ DownClosed(e) \/ DownWindow(e) \/ DownWrote(e)
              \/ DownFailed(e) \/ Close(e) \/ CloseSend(e)
              \/ OnAck(e) \/ OnData(e) \/ OnWindow(e) \/ OnClose(e) \/ OnPeerClose(e)
              \/ OnReset(e) \/ FailLink(e)
  BY Zenon DEF Next, Serve, Up, Writes, Down, Dispatch, LinkEof, LinkBreaks

-------------------------------------------------------------------------------
(* What the operations on the queues do. *)

\* The first frame of the peer's queue is of type t and taken off it ...
Took(e, t) ==
  LET p == Peer(e) IN
  /\ wire' \in [Ends -> Seq(Frames)] /\ wire'[e] = wire[e]
  /\ wire[p] # <<>> /\ wire'[p] = Tail(wire[p])
  /\ Head(wire[p]) = wire[p][1] /\ wire[p][1] \in Frames /\ wire[p][1].type = t
  /\ Len(wire[p]) = Len(wire'[p]) + 1
  /\ \A i \in 1..Len(wire'[p]) : wire'[p][i] = wire[p][i + 1]

\* ... a frame is put behind those of e ...
Put(e, f) ==
  /\ wire' \in [Ends -> Seq(Frames)] /\ wire'[Peer(e)] = wire[Peer(e)]
  /\ wire'[e] = Append(wire[e], f)
  /\ Len(wire'[e]) = Len(wire[e]) + 1 /\ wire'[e][Len(wire[e]) + 1] = f
  /\ \A i \in 1..Len(wire[e]) : wire'[e][i] = wire[e][i]

\* ... both, by the server's answer to NEW ...
Answered(f) ==
  /\ wire' \in [Ends -> Seq(Frames)]
  /\ wire["client"] # <<>> /\ wire'["client"] = Tail(wire["client"])
  /\ Head(wire["client"]) = wire["client"][1] /\ wire["client"][1] \in Frames
  /\ wire["client"][1].type = "NEW"
  /\ Len(wire["client"]) = Len(wire'["client"]) + 1
  /\ \A i \in 1..Len(wire'["client"]) : wire'["client"][i] = wire["client"][i + 1]
  /\ wire'["server"] = Append(wire["server"], f)
  /\ Len(wire'["server"]) = Len(wire["server"]) + 1
  /\ wire'["server"][Len(wire["server"]) + 1] = f
  /\ \A i \in 1..Len(wire["server"]) : wire'["server"][i] = wire["server"][i]

\* ... or a failing link drops its peer's frames and keeps a prefix of its own.
Cut(e) ==
  /\ wire' \in [Ends -> Seq(Frames)] /\ wire'[Peer(e)] = <<>> /\ Len(wire'[Peer(e)]) = 0
  /\ \E k \in 0..Len(wire[e]) : wire'[e] = SubSeq(wire[e], 1, k) /\ Len(wire'[e]) = k
  /\ Len(wire'[e]) <= Len(wire[e])
  /\ \A i \in 1..Len(wire'[e]) : wire'[e][i] = wire[e][i]

\* Pop, for a frame that has arrived.
LEMMA PopFacts ==
  ASSUME Types, NEW e \in Ends, NEW t, Arrives(e, t), Pop(e)
  PROVE  Took(e, t)
<1>1. /\ wire \in [Ends -> Seq(Frames)] /\ wire' = [wire EXCEPT ![Peer(e)] = Tail(@)]
      /\ wire[Peer(e)] # <<>> /\ Head(wire[Peer(e)]).type = t
  BY DEF Types, Arrives, Pop
<1> DEFINE w == wire[Peer(e)]
<1>2. w \in Seq(Frames) /\ w # <<>>
  BY <1>1, PeerFacts
<1> HIDE DEF w
<1>3. /\ Head(w) \in Frames /\ Tail(w) \in Seq(Frames) /\ Len(Tail(w)) = Len(w) - 1
      /\ \A i \in 1..Len(Tail(w)) : Tail(w)[i] = w[i + 1]
  BY <1>2, FirstTaken
<1>4. Head(w) = w[1] /\ Len(w) = Len(Tail(w)) + 1
  BY <1>2, <1>3
<1>5. wire' \in [Ends -> Seq(Frames)] /\ wire'[e] = wire[e] /\ wire'[Peer(e)] = Tail(w)
  BY <1>1, <1>3, PeerFacts DEF w
<1> QED
  BY <1>1, <1>2, <1>3, <1>4, <1>5, Zenon DEF w, Took

\* enqueueFrame, on a link that is not closed.
LEMMA EnqueueFacts ==
  ASSUME Types, NEW e \in Ends, NEW f \in Frames, Enqueue(e, f)
  PROVE  IF link_closed[e] THEN wire' = wire ELSE Put(e, f)
<1>1. /\ wire \in [Ends -> Seq(Frames)]
      /\ wire' = IF link_closed[e] THEN wire ELSE [wire EXCEPT ![e] = Append(@, f)]
  BY DEF Types, Enqueue
<1>2. /\ Append(wire[e], f) \in Seq(Frames)
      /\ Len(Append(wire[e], f)) = Len(wire[e]) + 1
      /\ Append(wire[e], f)[Len(wire[e]) + 1] = f
      /\ \A i \in 1..Len(wire[e]) : Append(wire[e], f)[i] = wire[e][i]
  BY <1>1, Appended
<1> QED
  BY <1>1, <1>2, PeerFacts DEF Put

\* The answer to a NEW that has arrived.
LEMMA AnswerFacts ==
  ASSUME Types, Arrives("server", "NEW"), NEW f \in Frames,
         wire' = Each(Tail(wire["client"]), Append(wire["server"], f))
  PROVE  Answered(f)
<1>1. /\ wire["client"] \in Seq(Frames) /\ wire["server"] \in Seq(Frames)
      /\ wire["client"] # <<>> /\ Head(wire["client"]).type = "NEW"
  BY PeerFacts DEF Types, Arrives, Ends
<1>2. /\ wire'["client"] = Tail(wire["client"])
      /\ wire'["server"] = Append(wire["server"], f)
  BY DEF Each, Ends
<1>3. /\ Head(wire["client"]) \in Frames /\ Tail(wire["client"]) \in Seq(Frames)
      /\ Len(Tail(wire["client"])) = Len(wire["client"]) - 1
      /\ \A i \in 1..Len(Tail(wire["client"])) : Tail(wire["client"])[i] = wire["client"][i + 1]
  BY <1>1, FirstTaken
<1>4. /\ Head(wire["client"]) = wire["client"][1]
      /\ Len(wire["client"]) = Len(Tail(wire["client"])) + 1
  BY <1>1, <1>3
<1>5. /\ Append(wire["server"], f) \in Seq(Frames)
      /\ Len(Append(wire["server"], f)) = Len(wire["server"]) + 1
      /\ Append(wire["server"], f)[Len(wire["server"]) + 1] = f
      /\ \A i \in 1..Len(wire["server"]) : Append(wire["server"], f)[i] = wire["server"][i]
  BY <1>1, Appended
<1>6. wire' \in [Ends -> Seq(Frames)]
  BY <1>3, <1>5 DEF Each, Ends
<1> QED
  BY <1>1, <1>2, <1>3, <1>4, <1>5, <1>6, Zenon DEF Answered

\* failLink.
LEMMA FailFacts ==
  ASSUME Types, NEW e \in Ends, FailLink(e)
  PROVE  Cut(e)
<1>1. wire \in [Ends -> Seq(Frames)] /\ Len(wire[e]) \in Nat
  BY DEF Types
<1>2. PICK k \in 0..Len(wire[e]) :
         wire' = [wire EXCEPT ![e] = SubSeq(@, 1, k), ![Peer(e)] = <<>>]
  BY Zenon DEF FailLink
<1>3. \A i \in 1..k : wire[e][i] \in Frames
  BY <1>1, <1>2
<1>4. /\ SubSeq(wire[e], 1, k) \in Seq(Frames) /\ Len(SubSeq(wire[e], 1, k)) = k
      /\ \A i \in 1..k : SubSeq(wire[e], 1, k)[i] = wire[e][i]
  BY <1>1, <1>2, <1>3, FrontKept
<1>5. wire'[e] = SubSeq(wire[e], 1, k) /\ wire'[Peer(e)] = <<>>
  BY <1>1, <1>2, PeerFacts
<1>6. wire' \in [Ends -> Seq(Frames)]
  BY <1>1, <1>2, <1>4, NoFrames, PeerFacts, Zenon
<1>7. k <= Len(wire[e]) /\ Len(<<>>) = 0
  BY <1>1, <1>2
<1> QED
  BY <1>2, <1>4, <1>5, <1>6, <1>7, Zenon DEF Cut

\* The frames the program builds.
LEMMA WireFrames ==
  /\ \A n \in Nat : Wire("DATA", n) \in Frames /\ Wire("WINDOW", n) \in Frames
  /\ \A t \in {"ACK", "RESET", "CLOSE"} : Wire(t, 0) \in Frames
  /\ \A t \in FrameTypes : \A n \in Nat : Wire(t, n).type = t /\ Wire(t, n).n = n
  BY DEF Wire, Frames, FrameTypes

-------------------------------------------------------------------------------
(* Types and Limits. *)

\* The first state is well typed and within the limits.
LEMMA TypesInit == Init => Types /\ Limits
<1> SUFFICES ASSUME Init PROVE Types /\ Limits
  OBVIOUS
<1>1. Types
  BY SessionAssumption DEF Init, Types, Each, All, Ends, States, Ups, Downs, Frames, FrameTypes, Wire
<1>2. Limits
  BY SessionAssumption DEF Init, Limits, Counts, Room, Each, All, Ends, Framed, AppFrames, Wire
<1> QED
  BY <1>1, <1>2

\* The two ways write() goes on, and the two of a dispatcher with a session.
LEMMA PartTypes ==
  ASSUME Types, NEW e \in Ends
  PROVE  /\ ShutdownWrite(e) \/ TakeCredit(e) =>
              /\ state' \in [Ends -> States \cup {"none"}] /\ registered' \in [Ends -> BOOLEAN]
              /\ up' \in [Ends -> Ups] /\ credit' \in [Ends -> Nat]
         /\ Reset(e) =>
              /\ state' \in [Ends -> States \cup {"none"}] /\ registered' \in [Ends -> BOOLEAN]
              /\ inbox_open' \in [Ends -> BOOLEAN] /\ signal_open' \in [Ends -> BOOLEAN]
<1>1. ASSUME ShutdownWrite(e)
      PROVE  /\ state' \in [Ends -> States \cup {"none"}] /\ registered' \in [Ends -> BOOLEAN]
             /\ up' \in [Ends -> Ups] /\ credit' \in [Ends -> Nat]
  BY <1>1 DEF Types, ShutdownWrite, States, Ups
<1>2. ASSUME TakeCredit(e)
      PROVE  /\ state' \in [Ends -> States \cup {"none"}] /\ registered' \in [Ends -> BOOLEAN]
             /\ up' \in [Ends -> Ups] /\ credit' \in [Ends -> Nat]
  <2>1. CASE credit[e] <= 0
    BY <1>2, <2>1, Zenon DEF Types, TakeCredit, Ups
  <2>2. CASE ~(credit[e] <= 0)
    <3>1. credit' = [credit EXCEPT ![e] = @ - 1] /\ credit[e] - 1 \in Nat
      BY <1>2, <2>2 DEF Types, TakeCredit
    <3>2. up' = [up EXCEPT ![e] = "enqueue"] /\ UNCHANGED <<state, registered>>
      BY <1>2, <2>2, Zenon DEF TakeCredit
    <3> QED
      BY <3>1, <3>2 DEF Types, Ups
  <2> QED
    BY <2>1, <2>2
<1>3. ASSUME Reset(e)
      PROVE  /\ state' \in [Ends -> States \cup {"none"}] /\ registered' \in [Ends -> BOOLEAN]
             /\ inbox_open' \in [Ends -> BOOLEAN] /\ signal_open' \in [Ends -> BOOLEAN]
  BY <1>3, Zenon DEF Types, Reset, States
<1> QED
  BY <1>1, <1>2, <1>3, Zenon

\* read() finds the session over, or waits for it.
LEMMA ReadEntryTypes ==
  ASSUME Types, NEW e \in Ends, ReadEntry(e)
  PROVE  down' \in [Ends -> Downs] /\ eof' \in [Ends -> BOOLEAN]
<1> DEFINE over == state[e] \in {"Closed", "HalfClosedRemote"}
           d == IF over THEN "done" ELSE "receive"
<1>1. over \in BOOLEAN /\ d \in Downs
  BY DEF Downs
<1>2. /\ down' = [down EXCEPT ![e] = d] /\ eof' = [eof EXCEPT ![e] = over]
      /\ down \in [Ends -> Downs] /\ eof \in [Ends -> BOOLEAN]
  BY Zenon DEF ReadEntry, Types
<1> HIDE DEF over, d
<1> QED
  BY <1>1, <1>2, Zenon

\* Every step keeps the types.
LEMMA TypesStep ==
  ASSUME Types, Next
  PROVE  Types'
<1> USE DEF Types
<1>1. CASE OnNew
  <2>1. Answered(Wire("ACK", 0))
    BY <1>1, WireFrames, AnswerFacts, Zenon DEF OnNew, Types
  <2>2. wire' \in [Ends -> Seq(Frames)] /\ Head(wire["client"]).n \in Nat
    BY <2>1, Zenon DEF Answered, Frames
  <2> QED
    BY <1>1, <2>2, Zenon DEF OnNew, States, Ups, box
<1>2. CASE OnNewRefused
  <2>1. Answered(Wire("RESET", 0))
    BY <1>2, WireFrames, AnswerFacts, Zenon DEF OnNewRefused, Types
  <2>2. wire' \in [Ends -> Seq(Frames)]
    BY <2>1 DEF Answered
  <2> QED
    BY <1>2, <2>2, Zenon DEF OnNewRefused, Ups, flow, box, life
<1>3. CASE Connected
  <2>1. up' \in [Ends -> Ups]
    BY <1>3, Zenon DEF Connected, Ups
  <2>2. down' \in [Ends -> Downs] /\ eof' \in [Ends -> BOOLEAN]
    BY <1>3, ReadEntryTypes, Zenon DEF Connected, Ends
  <2> QED
    BY <1>3, <2>1, <2>2, Zenon DEF Connected, flow, box, life
<1>4. CASE ConnectFailed
  BY <1>4 DEF ConnectFailed, Ups, Ends, flow, box, life
<1>5. ASSUME NEW e \in Ends, UpData(e) PROVE Types'
  <2>1. ShutdownWrite(e) \/ TakeCredit(e)
    BY <1>5, Zenon DEF UpData
  <2>2. app' \in [Ends -> Nat]
    BY <1>5 DEF UpData
  <2> QED
    BY <1>5, <2>1, <2>2, PartTypes, Zenon DEF UpData, box
<1>6. ASSUME NEW e \in Ends, UpEof(e) PROVE Types'
  BY <1>6, PartTypes, Zenon DEF UpEof, box
<1>7. ASSUME NEW e \in Ends, UpWake(e) PROVE Types'
  BY <1>7, PartTypes, Zenon DEF UpWake, box
<1>8. ASSUME NEW e \in Ends, UpEnqueue(e) PROVE Types'
  <2>1. Wire("DATA", sent[e] + 1) \in Frames
    BY WireFrames
  <2>2. wire' \in [Ends -> Seq(Frames)]
    BY <1>8, <2>1, EnqueueFacts, Zenon DEF UpEnqueue, Put
  <2>3. sent' \in [Ends -> Nat] /\ up' \in [Ends -> Ups]
    BY <1>8 DEF UpEnqueue, Ups
  <2> QED
    BY <1>8, <2>2, <2>3, Zenon DEF UpEnqueue, flow, box, life
<1>9. ASSUME NEW e \in Ends, UpSendClose(e) PROVE Types'
  <2>1. wire' \in [Ends -> Seq(Frames)]
    BY <1>9, WireFrames, EnqueueFacts, Zenon DEF UpSendClose, Put
  <2>2. up' \in [Ends -> Ups]
    BY <1>9 DEF UpSendClose, Ups
  <2> QED
    BY <1>9, <2>1, <2>2, Zenon DEF UpSendClose, flow, box, life
<1>10. ASSUME NEW e \in Ends, DownReceive(e) PROVE Types'
  <2>1. Head(inbox[e]) \in Nat /\ Tail(inbox[e]) \in Seq(Nat)
    <3>1. inbox[e] \in Seq(Nat) /\ inbox[e] # <<>>
      BY <1>10 DEF DownReceive
    <3> HIDE DEF Types
    <3> QED
      BY <3>1, FirstTaken
  <2>2. Append(out[e], Head(inbox[e])) \in Seq(Nat)
    BY <2>1
  <2>3. inbox' \in [Ends -> Seq(Nat)] /\ out' \in [Ends -> Seq(Nat)]
    <3>1. /\ inbox' = [inbox EXCEPT ![e] = Tail(inbox[e])]
          /\ out' = [out EXCEPT ![e] = Append(out[e], Head(inbox[e]))]
          /\ inbox \in [Ends -> Seq(Nat)] /\ out \in [Ends -> Seq(Nat)]
      BY <1>10, Zenon DEF DownReceive
    <3> HIDE DEF Types
    <3> QED
      BY <2>1, <2>2, <3>1, Zenon
  <2>5. unacked' \in [Ends -> Nat]
    <3>1. unacked[e] + 1 \in Nat
      OBVIOUS
    <3> QED
      BY <1>10, <3>1, Zenon DEF DownReceive
  <2>4. down' \in [Ends -> Downs]
    BY <1>10 DEF DownReceive, Downs
  <2> QED
    BY <1>10, <2>3, <2>4, <2>5, Zenon DEF DownReceive, life
<1>11. ASSUME NEW e \in Ends, DownClosed(e) PROVE Types'
  BY <1>11 DEF DownClosed, Downs, flow, box, life
<1>12. ASSUME NEW e \in Ends, DownWindow(e) PROVE Types'
  <2>1. wire' \in [Ends -> Seq(Frames)]
    BY <1>12, WireFrames, EnqueueFacts, Zenon DEF DownWindow, Put
  <2>2. down' \in [Ends -> Downs] /\ unacked' \in [Ends -> Nat]
    BY <1>12 DEF DownWindow, Downs
  <2> QED
    BY <1>12, <2>1, <2>2, Zenon DEF DownWindow, box, life
<1>13. ASSUME NEW e \in Ends, DownWrote(e) PROVE Types'
  <2>1. down' \in [Ends -> Downs] /\ eof' \in [Ends -> BOOLEAN]
    BY <1>13, ReadEntryTypes, Zenon DEF DownWrote
  <2> QED
    BY <1>13, <2>1, Zenon DEF DownWrote, flow, box, life
<1>14. ASSUME NEW e \in Ends, DownFailed(e) PROVE Types'
  BY <1>14 DEF DownFailed, Downs, flow, box, life
<1>15. ASSUME NEW e \in Ends, Close(e) PROVE Types'
  BY <1>15 DEF Close, States
<1>16. ASSUME NEW e \in Ends, CloseSend(e) PROVE Types'
  <2>1. wire' \in [Ends -> Seq(Frames)]
    BY <1>16, WireFrames, EnqueueFacts, Zenon DEF CloseSend, Put
  <2>2. pend' \in [Ends -> BOOLEAN]
    BY <1>16 DEF CloseSend
  <2> QED
    BY <1>16, <2>1, <2>2, Zenon DEF CloseSend, flow, box, life
<1>17. ASSUME NEW e \in Ends, OnAck(e) PROVE Types'
  BY <1>17, PopFacts, Zenon DEF Took, OnAck, copy, flow, box, life
<1>18. ASSUME NEW e \in Ends, OnData(e) PROVE Types'
  <2>1. Head(wire[Peer(e)]).n \in Nat /\ wire' \in [Ends -> Seq(Frames)]
    BY <1>18, PopFacts, Zenon DEF Took, OnData, Frames
  <2>2. inbox' \in [Ends -> Seq(Nat)]
    <3>1. CASE registered[e] /\ inbox_open[e]
      <4>1. Queued(e, Head(wire[Peer(e)]).n)
        BY <1>18, <3>1, Zenon DEF OnData
      <4> QED
        BY <2>1, <4>1 DEF Queued
    <3>2. CASE ~(registered[e] /\ inbox_open[e])
      BY <1>18, <3>2, Zenon DEF OnData
    <3> QED
      BY <3>1, <3>2
  <2> QED
    BY <1>18, <2>1, <2>2, Zenon DEF OnData, copy, flow, life
<1>19. ASSUME NEW e \in Ends, OnWindow(e) PROVE Types'
  <2>1. Head(wire[Peer(e)]).n \in Nat /\ wire' \in [Ends -> Seq(Frames)]
    BY <1>19, PopFacts, Zenon DEF Took, OnWindow, Frames
  <2>2. credit' \in [Ends -> Nat] /\ signal' \in [Ends -> {0, 1}]
    <3>1. CASE registered[e]
      <4>1. /\ credit' = [credit EXCEPT ![e] = @ + Head(wire[Peer(e)]).n]
            /\ signal' = [signal EXCEPT ![e] = IF signal_open[e] THEN 1 ELSE @]
        BY <1>19, <3>1, Zenon DEF OnWindow
      <4>2. \A k \in Nat : [credit EXCEPT ![e] = @ + k] \in [Ends -> Nat]
        OBVIOUS
      <4>3. credit' \in [Ends -> Nat]
        BY <2>1, <4>1, <4>2, Zenon
      <4>4. signal' \in [Ends -> {0, 1}]
        BY <4>1
      <4> QED
        BY <4>3, <4>4
    <3>2. CASE ~registered[e]
      BY <1>19, <3>2 DEF OnWindow
    <3> QED
      BY <3>1, <3>2
  <2> QED
    BY <1>19, <2>1, <2>2, Zenon DEF OnWindow, copy, box, life
<1>20. ASSUME NEW e \in Ends, OnClose(e) PROVE Types'
  BY <1>20, PopFacts, Zenon DEF Took, OnClose, copy, flow, box
<1>21. ASSUME NEW e \in Ends, OnPeerClose(e) PROVE Types'
  <2>1. /\ state' \in [Ends -> States \cup {"none"}] /\ registered' \in [Ends -> BOOLEAN]
        /\ inbox_open' \in [Ends -> BOOLEAN] /\ loaded' \in [Ends -> States \cup {"none"}]
    BY <1>21 DEF OnPeerClose, PeerClosed, InboxCloses, States
  <2> QED
    BY <1>21, <2>1, Zenon DEF OnPeerClose, copy, flow
<1>22. ASSUME NEW e \in Ends, OnReset(e) PROVE Types'
  BY <1>22, PopFacts, PartTypes, Zenon DEF Took, OnReset, copy
<1>23. ASSUME NEW e \in Ends, FailLink(e) PROVE Types'
  BY <1>23, FailFacts, PartTypes, Zenon DEF Cut, FailLink, copy
<1> QED
  BY <1>1, <1>2, <1>3, <1>4, <1>5, <1>6, <1>7, <1>8, <1>9, <1>10, <1>11, <1>12, <1>13,
     <1>14, <1>15, <1>16, <1>17, <1>18, <1>19, <1>20, <1>21, <1>22, <1>23, Actions, Zenon


\* The two answers to NEW.
LEMMA NewAnswered ==
  ASSUME Types
  PROVE  /\ OnNew => Answered(Wire("ACK", 0))
         /\ OnNewRefused => Answered(Wire("RESET", 0))
  BY WireFrames, AnswerFacts, Zenon DEF OnNew, OnNewRefused

\* What a step does to the queues of the link.
LEMMA WireCases ==
  ASSUME Types, Next
  PROVE  \/ wire' = wire
         \/ \E e \in Ends, f \in Frames :
              f.type # "NEW" /\ ~link_closed[e] /\ Len(wire[e]) < QueueCap /\ Put(e, f)
         \/ \E e \in Ends, t \in FrameTypes : t # "NEW" /\ Took(e, t)
         \/ \E f \in Frames : /\ f.type # "NEW" /\ (OnNew \/ OnNewRefused)
                              /\ Len(wire["server"]) < QueueCap /\ Answered(f)
         \/ \E e \in Ends : FailLink(e) /\ Cut(e)
<1>1. ASSUME NEW e \in Ends, NEW f \in Frames, CanEnqueue(e), Enqueue(e, f)
      PROVE  \/ wire' = wire
             \/ ~link_closed[e] /\ Len(wire[e]) < QueueCap /\ Put(e, f)
  BY <1>1, EnqueueFacts, Zenon DEF CanEnqueue
<1>2. \A e \in Ends : sent[e] + 1 \in Nat /\ unacked[e] \in Nat
  BY DEF Types
<1>f. /\ \A n \in Nat : Wire("DATA", n).type # "NEW" /\ Wire("WINDOW", n).type # "NEW"
      /\ \A t \in {"ACK", "RESET", "CLOSE"} : Wire(t, 0).type # "NEW"
  BY DEF Wire
<1>3. ASSUME NEW e \in Ends,
             UpEnqueue(e) \/ UpSendClose(e) \/ DownWindow(e) \/ CloseSend(e)
      PROVE  \/ wire' = wire
             \/ \E f \in Frames :
                  f.type # "NEW" /\ ~link_closed[e] /\ Len(wire[e]) < QueueCap /\ Put(e, f)
  BY <1>1, <1>2, <1>3, <1>f, WireFrames, Zenon DEF UpEnqueue, UpSendClose, DownWindow, CloseSend
<1>4. ASSUME NEW e \in Ends, OnAck(e) \/ OnData(e) \/ OnWindow(e) \/ OnClose(e) \/ OnReset(e)
      PROVE  \E t \in FrameTypes : t # "NEW" /\ Took(e, t)
  BY <1>4, PopFacts DEF OnAck, OnData, OnWindow, OnClose, OnReset, FrameTypes
<1>5. ASSUME OnNew \/ OnNewRefused
      PROVE  \E f \in Frames : f.type # "NEW" /\ Len(wire["server"]) < QueueCap /\ Answered(f)
  BY <1>5, <1>f, WireFrames, NewAnswered, Zenon DEF OnNew, OnNewRefused
<1>6. ASSUME Connected \/ ConnectFailed
      PROVE  wire' = wire
  BY <1>6, Zenon DEF Connected, ConnectFailed
<1>7. ASSUME NEW e \in Ends,
             \/ UpData(e) \/ UpEof(e) \/ UpWake(e) \/ DownReceive(e) \/ DownClosed(e)
             \/ DownWrote(e) \/ DownFailed(e) \/ Close(e) \/ OnPeerClose(e)
      PROVE  wire' = wire
  BY <1>7, Zenon DEF UpData, UpEof, UpWake, DownReceive, DownClosed, DownWrote, DownFailed,
     Close, OnPeerClose
<1>8. ASSUME NEW e \in Ends, FailLink(e)
      PROVE  Cut(e)
  BY <1>8, FailFacts
<1> QED
  BY <1>3, <1>4, <1>5, <1>6, <1>7, <1>8, Actions, Zenon

\* Every step keeps the limits of the queues.
LEMMA RoomStep ==
  ASSUME Types, Types', Next, NEW x \in Ends, Room(x)
  PROVE  Room(x)'
<1>0. /\ QueueCap \in Nat /\ InboxCap \in Nat
      /\ Len(wire[x]) \in Nat /\ Len(wire'[x]) \in Nat
      /\ Len(inbox[x]) \in Nat /\ Len(inbox'[x]) \in Nat
  <2>1. QueueCap \in Nat /\ InboxCap \in Nat
    BY SessionAssumption
  <2>2. /\ wire[x] \in Seq(Frames) /\ wire'[x] \in Seq(Frames)
        /\ inbox[x] \in Seq(Nat) /\ inbox'[x] \in Seq(Nat)
    BY Zenon DEF Types
  <2> QED
    BY <2>1, <2>2
<1>1. Len(wire'[x]) <= QueueCap
  <2>0. Len(wire[x]) <= QueueCap
    BY DEF Room
  <2>1. CASE wire' = wire
    BY <2>0, <2>1
  <2>2. ASSUME NEW e \in Ends, NEW f \in Frames, Len(wire[e]) < QueueCap, Put(e, f)
        PROVE  Len(wire'[x]) <= QueueCap
    BY <1>0, <2>0, <2>2, TwoEnds, SMTT(20) DEF Put
  <2>3. ASSUME NEW e \in Ends, NEW t, Took(e, t)
        PROVE  Len(wire'[x]) <= QueueCap
    <3>1. wire'[x] = wire[x] \/ Len(wire[x]) = Len(wire'[x]) + 1
      BY <2>3, TwoEnds, Zenon DEF Took
    <3> QED
      BY <1>0, <2>0, <3>1
  <2>4. ASSUME NEW f, Len(wire["server"]) < QueueCap, Answered(f)
        PROVE  Len(wire'[x]) <= QueueCap
    BY <1>0, <2>0, <2>4 DEF Answered, Ends
  <2>5. ASSUME NEW e \in Ends, Cut(e)
        PROVE  Len(wire'[x]) <= QueueCap
    <3>1. Len(wire'[x]) = 0 \/ Len(wire'[x]) <= Len(wire[x])
      BY <2>5, TwoEnds, Zenon DEF Cut
    <3> QED
      BY <1>0, <2>0, <3>1
  <2> QED
    BY <2>1, <2>2, <2>3, <2>4, <2>5, WireCases, Zenon
<1>2. Len(inbox'[x]) <= InboxCap
  <2>0. Len(inbox[x]) <= InboxCap
    BY DEF Room
  <2>1. ASSUME NEW e \in Ends, DownReceive(e)
        PROVE  Len(inbox'[x]) <= InboxCap
    BY <1>0, <2>0, <2>1, FirstTaken DEF DownReceive, Types
  <2>2. ASSUME NEW e \in Ends, OnData(e)
        PROVE  Len(inbox'[x]) <= InboxCap
    <3>1. CASE UNCHANGED inbox
      BY <2>0, <3>1
    <3>2. CASE Queued(e, Head(wire[Peer(e)]).n)
      BY <1>0, <2>0, <3>2 DEF Queued, Types
    <3> QED
      BY <2>2, <3>1, <3>2, Zenon DEF OnData
  <2>3. inbox' = inbox \/ \E e \in Ends : DownReceive(e) \/ OnData(e)
    BY Actions, Zenon DEF OnNew, OnNewRefused, Connected, ConnectFailed, UpData, UpEof, UpWake,
       UpEnqueue, UpSendClose, DownClosed, DownWindow, DownWrote, DownFailed, Close, CloseSend,
       OnAck, OnWindow, OnClose, OnPeerClose, OnReset, FailLink, box
  <2> QED
    BY <2>0, <2>1, <2>2, <2>3
<1> QED
  BY <1>1, <1>2 DEF Room

\* What the two ways write() goes on do to one end.
LEMMA PartMoves ==
  ASSUME Types, NEW e \in Ends, NEW x \in Ends
  PROVE  /\ ShutdownWrite(e) =>
              /\ credit'[x] = credit[x]
              /\ up'[x] = up[x] \/ (x = e /\ up'[x] \in {"sendclose", "done"})
         /\ TakeCredit(e) =>
              \/ up'[x] = up[x] /\ credit'[x] = credit[x] /\ x # e
              \/ up'[x] = "wait" /\ credit'[x] = credit[x] /\ x = e
              \/ up'[x] = "enqueue" /\ credit'[x] = credit[x] - 1 /\ x = e
<1>1. ASSUME ShutdownWrite(e)
      PROVE  /\ credit'[x] = credit[x]
             /\ up'[x] = up[x] \/ (x = e /\ up'[x] \in {"sendclose", "done"})
  BY <1>1 DEF ShutdownWrite, Types
<1>2. up \in [Ends -> Ups] /\ credit \in [Ends -> Nat]
  BY Zenon DEF Types
<1>3. ASSUME TakeCredit(e)
      PROVE  \/ up'[x] = up[x] /\ credit'[x] = credit[x] /\ x # e
             \/ up'[x] = "wait" /\ credit'[x] = credit[x] /\ x = e
             \/ up'[x] = "enqueue" /\ credit'[x] = credit[x] - 1 /\ x = e
  <2>1. \/ up' = [up EXCEPT ![e] = "wait"] /\ credit' = credit
        \/ up' = [up EXCEPT ![e] = "enqueue"] /\ credit' = [credit EXCEPT ![e] = credit[e] - 1]
    BY <1>3, Zenon DEF TakeCredit
  <2>2. CASE up' = [up EXCEPT ![e] = "wait"] /\ credit' = credit
    BY <1>2, <2>2, Zenon
  <2>3. CASE up' = [up EXCEPT ![e] = "enqueue"] /\ credit' = [credit EXCEPT ![e] = credit[e] - 1]
    BY <1>2, <2>3, Zenon
  <2> QED
    BY <2>1, <2>2, <2>3, Zenon
<1>4. TakeCredit(e) =>
        \/ up'[x] = up[x] /\ credit'[x] = credit[x] /\ x # e
        \/ up'[x] = "wait" /\ credit'[x] = credit[x] /\ x = e
        \/ up'[x] = "enqueue" /\ credit'[x] = credit[x] - 1 /\ x = e
  BY <1>3, Zenon
<1> QED
  BY <1>1, <1>4, Zenon

\* Every step keeps the limits of the counters.
LEMMA CountsStep ==
  ASSUME Types, Types', Next, NEW x \in Ends, Counts(x)
  PROVE  Counts(x)'
<1>0. /\ AppFrames(x) \in Nat
      /\ app[x] \in Nat /\ app'[x] \in Nat /\ sent[x] \in Nat /\ sent'[x] \in Nat
  BY SessionAssumption DEF Types, AppFrames
<1>1. ASSUME app'[x] = app[x], sent'[x] = sent[x],
             up'[x] = up[x] \/ up'[x] \notin {"enqueue", "wait"} \/ up[x] = "wait"
      PROVE  Counts(x)'
  BY <1>0, <1>1 DEF Counts, Framed
<1>2. ASSUME app[x] < AppFrames(x), app'[x] = app[x] + 1, sent'[x] = sent[x]
      PROVE  Counts(x)'
  BY <1>0, <1>2 DEF Counts, Framed
<1>3. ASSUME app'[x] = app[x], up[x] = "enqueue", up'[x] = "read",
             sent'[x] = sent[x] \/ sent'[x] = sent[x] + 1
      PROVE  Counts(x)'
  BY <1>0, <1>3 DEF Counts, Framed
<1>4. ASSUME NEW e \in Ends, UpData(e)
      PROVE  Counts(x)'
  <2>1. CASE x = e
    BY <1>2, <1>4, <2>1 DEF UpData, Types
  <2>2. CASE x # e
    <3>1. app'[x] = app[x] /\ sent'[x] = sent[x]
      BY <1>4, <2>2 DEF UpData, Types
    <3>2. up'[x] = up[x]
      BY <1>4, <2>2, PartMoves, Zenon DEF UpData
    <3> QED
      BY <1>1, <3>1, <3>2
  <2> QED
    BY <2>1, <2>2
<1>5. ASSUME NEW e \in Ends, UpEof(e) \/ UpWake(e)
      PROVE  Counts(x)'
  <2>1. app'[x] = app[x] /\ sent'[x] = sent[x]
    BY <1>5, Zenon DEF UpEof, UpWake
  <2>2. CASE ShutdownWrite(e)
    <3>1. up'[x] = up[x] \/ up'[x] \notin {"enqueue", "wait"}
      BY <2>2, PartMoves
    <3> QED
      BY <1>1, <2>1, <3>1
  <2>3. CASE UpWake(e) /\ TakeCredit(e)
    <3>1. up'[x] = up[x] \/ up[x] = "wait"
      BY <2>3, PartMoves, Zenon DEF UpWake
    <3> QED
      BY <1>1, <2>1, <3>1
  <2> QED
    BY <1>5, <2>2, <2>3, Zenon DEF UpEof, UpWake
<1>6. ASSUME NEW e \in Ends, UpEnqueue(e)
      PROVE  Counts(x)'
  <2>1. CASE x = e
    <3>1. sent'[x] = sent[x] \/ sent'[x] = sent[x] + 1
      BY <1>6, <2>1 DEF UpEnqueue, Types
    <3>2. app'[x] = app[x] /\ up[x] = "enqueue" /\ up'[x] = "read"
      BY <1>6, <2>1 DEF UpEnqueue, Types
    <3> QED
      BY <1>3, <3>1, <3>2
  <2>2. CASE x # e
    <3>1. app'[x] = app[x] /\ sent'[x] = sent[x] /\ up'[x] = up[x]
      BY <1>6, <2>2 DEF UpEnqueue, Types
    <3> QED
      BY <1>1, <3>1
  <2> QED
    BY <2>1, <2>2
<1>7. ASSUME \/ OnNew \/ OnNewRefused \/ Connected \/ ConnectFailed
             \/ \E e \in Ends : UpSendClose(e)
      PROVE  Counts(x)'
  <2>1. app'[x] = app[x] /\ sent'[x] = sent[x]
    BY <1>7, Zenon DEF OnNew, OnNewRefused, Connected, ConnectFailed, UpSendClose
  <2>2. up'[x] = up[x] \/ up'[x] \notin {"enqueue", "wait"}
    BY <1>7, Zenon DEF OnNew, OnNewRefused, Connected, ConnectFailed, UpSendClose, Types, Ends
  <2> QED
    BY <1>1, <2>1, <2>2
<1>8. ASSUME UNCHANGED <<app, sent, up>>
      PROVE  Counts(x)'
  BY <1>1, <1>8
<1>9. \/ UNCHANGED <<app, sent, up>>
      \/ OnNew \/ OnNewRefused \/ Connected \/ ConnectFailed
      \/ \E e \in Ends : UpData(e) \/ UpEof(e) \/ UpWake(e) \/ UpEnqueue(e) \/ UpSendClose(e)
  BY Actions, Zenon DEF DownReceive, DownClosed, DownWindow, DownWrote, DownFailed, Close,
     CloseSend, OnAck, OnData, OnWindow, OnClose, OnPeerClose, OnReset, FailLink, copy
<1> QED
  BY <1>4, <1>5, <1>6, <1>7, <1>8, <1>9, Zenon

-------------------------------------------------------------------------------
(* Where the loop that feeds the session goes, and where NEW is. *)

\* One step of the loop that reads the local stream.
LEMMA UpMoves ==
  ASSUME Types, Next, NEW x \in Ends
  PROVE  \/ up'[x] = up[x]
         \/ up[x] \in {"read", "wait"} /\ up'[x] \in {"wait", "enqueue", "sendclose", "done"}
         \/ up[x] = "enqueue" /\ up'[x] = "read"
         \/ up[x] = "sendclose" /\ up'[x] = "done"
         \/ x = "server" /\ up[x] = "connect" /\ up'[x] \in {"read", "failed"}
         \/ x = "server" /\ OnNew /\ up'[x] = "connect"
         \/ x = "server" /\ OnNewRefused /\ up'[x] = "refused"
<1>1. CASE OnNew \/ OnNewRefused \/ Connected \/ ConnectFailed
  <2>1. CASE x = "server"
    BY <1>1, <2>1, Zenon DEF OnNew, OnNewRefused, Connected, ConnectFailed, Types
  <2>2. CASE x # "server"
    BY <1>1, <2>2 DEF OnNew, OnNewRefused, Connected, ConnectFailed, Types
  <2> QED
    BY <2>1, <2>2
<1>2. ASSUME NEW e \in Ends, UpData(e) \/ UpEof(e) \/ UpWake(e)
      PROVE  \/ up'[x] = up[x]
             \/ up[x] \in {"read", "wait"} /\ up'[x] \in {"wait", "enqueue", "sendclose", "done"}
  <2>1. up[e] \in {"read", "wait"} /\ (ShutdownWrite(e) \/ TakeCredit(e))
    BY <1>2, Zenon DEF UpData, UpEof, UpWake
  <2> QED
    BY <2>1, PartMoves
<1>3. ASSUME NEW e \in Ends, UpEnqueue(e) \/ UpSendClose(e)
      PROVE  \/ up'[x] = up[x]
             \/ up[x] = "enqueue" /\ up'[x] = "read"
             \/ up[x] = "sendclose" /\ up'[x] = "done"
  BY <1>3 DEF UpEnqueue, UpSendClose, Types
<1>4. \/ UNCHANGED up
      \/ OnNew \/ OnNewRefused \/ Connected \/ ConnectFailed
      \/ \E e \in Ends : UpData(e) \/ UpEof(e) \/ UpWake(e) \/ UpEnqueue(e) \/ UpSendClose(e)
  BY Actions, Zenon DEF DownReceive, DownClosed, DownWindow, DownWrote, DownFailed, Close,
     CloseSend, OnAck, OnData, OnWindow, OnClose, OnPeerClose, OnReset, FailLink, copy
<1> QED
  BY <1>1, <1>2, <1>3, <1>4, Zenon

\* A link that is closed and a session that has ended stay so.
LEMMA OnceClosed ==
  ASSUME Types, Next, NEW x \in Ends
  PROVE  /\ link_closed[x] => link_closed'[x]
         /\ ended[x] => ended'[x]
<1>1. UNCHANGED link_closed \/ \E e \in Ends : FailLink(e)
  BY Actions, Zenon DEF OnNew, OnNewRefused, Connected, ConnectFailed, UpData, UpEof, UpWake,
     UpEnqueue, UpSendClose, DownReceive, DownClosed, DownWindow, DownWrote, DownFailed, Close,
     CloseSend, OnAck, OnData, OnWindow, OnClose, OnPeerClose, OnReset, life
<1>2. UNCHANGED ended \/ \E e \in Ends : Close(e)
  BY Actions, Zenon DEF OnNew, OnNewRefused, Connected, ConnectFailed, UpData, UpEof, UpWake,
     UpEnqueue, UpSendClose, DownReceive, DownClosed, DownWindow, DownWrote, DownFailed,
     CloseSend, OnAck, OnData, OnWindow, OnClose, OnPeerClose, OnReset, FailLink, copy
<1>3. ASSUME NEW e \in Ends, FailLink(e) PROVE link_closed[x] => link_closed'[x]
  BY <1>3 DEF FailLink, Types
<1>4. ASSUME NEW e \in Ends, Close(e) PROVE ended[x] => ended'[x]
  BY <1>4 DEF Close, Types
<1> QED
  BY <1>1, <1>2, <1>3, <1>4, Zenon

\* openSession has put NEW on the queue of the client.
LEMMA FirstInit == Init => First
<1> SUFFICES ASSUME Init PROVE First
  OBVIOUS
<1>1. wire["client"] = <<Wire("NEW", Window)>> /\ wire["server"] = <<>>
  BY DEF Init, Each, Ends
<1>2. up["server"] = "none"
  BY DEF Init, Each, Ends
<1> QED
  BY <1>1, <1>2 DEF First, Ends, Wire

\* NEW keeps its place until the server has answered it.
LEMMA FirstStep ==
  ASSUME Types, Types', First, Next
  PROVE  First'
<1> DEFINE NewFirst(e) ==
      \A i \in 1..Len(wire[e]) : wire[e][i].type = "NEW" =>
          e = "client" /\ i = 1 /\ up["server"] = "none" /\ wire[e][i].n = Window
<1> DEFINE Begins ==
      up["server"] = "none" /\ ~link_closed["server"] =>
        \/ link_closed["client"] /\ wire["client"] = <<>>
        \/ wire["client"] # <<>> /\ wire["client"][1].type = "NEW"
<1>0. \A e \in Ends : /\ wire[e] \in Seq(Frames) /\ wire'[e] \in Seq(Frames)
                      /\ Len(wire[e]) \in Nat /\ Len(wire'[e]) \in Nat
  BY DEF Types
<1>1. Begins /\ \A e \in Ends : NewFirst(e)
  BY Zenon DEF First
<1>2. ASSUME OnNew \/ OnNewRefused
      PROVE  Begins' /\ \A e \in Ends : NewFirst(e)'
  <2>1. PICK f \in Frames : f.type # "NEW" /\ Answered(f)
    <3>1. Wire("ACK", 0).type # "NEW" /\ Wire("RESET", 0).type # "NEW"
      BY DEF Wire
    <3> QED
      BY <1>2, <3>1, WireFrames, NewAnswered, Zenon
  <2>2. up'["server"] # "none"
    BY <1>2, Zenon DEF OnNew, OnNewRefused, Types, Ends
  <2>3. NewFirst("client")'
    <3>1. ASSUME NEW i \in 1..Len(wire'["client"])
          PROVE  /\ i + 1 \in 1..Len(wire["client"]) /\ i + 1 # 1
                 /\ wire'["client"][i] = wire["client"][i + 1]
      BY <1>0, <2>1 DEF Answered, Ends
    <3>2. \A i \in 1..Len(wire'["client"]) : wire'["client"][i].type # "NEW"
      BY <1>1, <3>1, Zenon DEF Ends
    <3> QED
      BY <3>2
  <2>4. NewFirst("server")'
    BY <1>0, <1>1, <2>1 DEF Answered, Ends
  <2> QED
    BY <2>2, <2>3, <2>4 DEF Ends
<1>3. ASSUME ~OnNew, ~OnNewRefused
      PROVE  Begins' /\ \A e \in Ends : NewFirst(e)'
  <2>1. up'["server"] = "none" <=> up["server"] = "none"
    BY <1>3, UpMoves DEF Ends
  <2>2. ~link_closed'["server"] => ~link_closed["server"]
    BY OnceClosed DEF Ends
  <2>3. CASE wire' = wire
    <3>1. link_closed["client"] => link_closed'["client"]
      BY OnceClosed DEF Ends
    <3> QED
      BY <1>1, <2>1, <2>2, <2>3, <3>1, Zenon
  <2>4. ASSUME NEW x \in Ends, NEW f \in Frames, f.type # "NEW", ~link_closed[x], Put(x, f)
        PROVE  Begins' /\ \A e \in Ends : NewFirst(e)'
    <3>1. ASSUME NEW e \in Ends, NEW i \in 1..Len(wire'[e]), wire'[e][i].type = "NEW"
          PROVE  i \in 1..Len(wire[e]) /\ wire'[e][i] = wire[e][i]
      <4>1. CASE e = x
        BY <1>0, <2>4, <3>1, <4>1 DEF Put
      <4>2. CASE e = Peer(x)
        BY <2>4, <3>1, <4>2 DEF Put
      <4> QED
        BY <4>1, <4>2, TwoEnds
    <3>2. \A e \in Ends : NewFirst(e)'
      BY <1>1, <2>1, <3>1
    <3>3. CASE x = "client"
      <4>1. /\ wire'["client"] # <<>>
            /\ wire["client"] # <<>> => wire'["client"][1] = wire["client"][1]
        BY <1>0, <2>4, <3>3 DEF Put
      <4> QED
        BY <1>1, <2>1, <2>2, <2>4, <3>2, <3>3, <4>1, Zenon
    <3>4. CASE x = "server"
      <4>1. wire'["client"] = wire["client"]
        BY <2>4, <3>4, PeerFacts DEF Put
      <4>2. link_closed["client"] => link_closed'["client"]
        BY OnceClosed DEF Ends
      <4> QED
        BY <1>1, <2>1, <2>2, <3>2, <4>1, <4>2, Zenon
    <3> QED
      BY <3>2, <3>3, <3>4 DEF Ends
  <2>5. ASSUME NEW x \in Ends, NEW t, t # "NEW", Took(x, t)
        PROVE  Begins' /\ \A e \in Ends : NewFirst(e)'
    <3>1. wire[Peer(x)][1].type # "NEW" /\ wire[Peer(x)] # <<>> /\ wire'[x] = wire[x]
      BY <2>5, Zenon DEF Took
    <3>2. NewFirst(x)'
      BY <1>1, <2>1, <3>1
    <3>3. NewFirst(Peer(x))'
      BY <1>0, <1>1, <2>1, <2>5, PeerFacts DEF Took
    <3>4. CASE x = "client"
      <4>1. link_closed["client"] => link_closed'["client"]
        BY OnceClosed DEF Ends
      <4> QED
        <5>1. Begins'
          BY <1>1, <2>1, <2>2, <3>1, <3>4, <4>1, Zenon
        <5> QED
          BY <3>2, <3>3, <5>1, TwoEnds, Zenon
    <3>5. CASE x = "server"
      <4>1. ~(up["server"] = "none" /\ ~link_closed["server"])
        BY <1>1, <3>1, <3>5, PeerFacts, Zenon
      <4> QED
        BY <2>1, <2>2, <3>2, <3>3, <4>1, TwoEnds, Zenon
    <3> QED
      BY <3>4, <3>5 DEF Ends
  <2>6. ASSUME NEW x \in Ends, FailLink(x), Cut(x)
        PROVE  Begins' /\ \A e \in Ends : NewFirst(e)'
    <3>1. NewFirst(x)'
      BY <1>0, <1>1, <2>1, <2>6 DEF Cut
    <3>2. NewFirst(Peer(x))'
      BY <2>6 DEF Cut
    <3>3. link_closed'[x]
      BY <2>6 DEF FailLink, Types
    <3>4. CASE x = "client"
      <4>1. \/ wire'["client"] = <<>>
            \/ wire'["client"] # <<>> /\ wire["client"] # <<>> /\ wire'["client"][1] = wire["client"][1]
        BY <1>0, <2>6, <3>4 DEF Cut
      <4>2. Begins'
        BY <1>1, <2>1, <2>2, <3>3, <3>4, <4>1
      <4> QED
        BY <3>1, <3>2, <4>2, TwoEnds, Zenon
    <3>5. CASE x = "server"
      BY <3>1, <3>2, <3>3, <3>5, TwoEnds, Zenon
    <3> QED
      BY <3>4, <3>5 DEF Ends
  <2> QED
    BY <1>3, <2>3, <2>4, <2>5, <2>6, WireCases, Zenon
<1> QED
  BY <1>2, <1>3, Zenon DEF First

\* NEW arrives before the server has a session and offers the client's window.
LEMMA NewComesFirst ==
  ASSUME Types, First, OnNew \/ OnNewRefused
  PROVE  up["server"] = "none" /\ Head(wire["client"]).n = Window
<1>1. /\ wire["client"] # <<>> /\ wire["client"] \in Seq(Frames)
      /\ Head(wire["client"]) = wire["client"][1] /\ wire["client"][1].type = "NEW"
  BY NewAnswered, Zenon DEF Answered, Types, Ends
<1>2. 1 \in 1..Len(wire["client"])
  BY <1>1
<1> QED
  BY <1>1, <1>2, Zenon DEF First, Ends

\* A loop that is done, or about to send CLOSE, does not go back.
LEMMA UpStays ==
  ASSUME Types, First, Next, NEW x \in Ends
  PROVE  /\ up[x] = "done" => up'[x] = "done"
         /\ up[x] = "refused" => up'[x] = "refused"
         /\ up[x] \in {"sendclose", "done"} => up'[x] \in {"sendclose", "done"}
         /\ up'[x] = "none" => up[x] = "none"
         /\ up'[x] = "refused" => up[x] = "refused" \/ OnNewRefused
  BY UpMoves, NewComesFirst

-------------------------------------------------------------------------------
(* Control. *)

\* The ways state_ and the table entry change.
LEMMA StateMoves ==
  ASSUME Types, Next, NEW x \in Ends
  PROVE  \/ state'[x] = state[x] /\ registered'[x] = registered[x]
         \/ /\ ~link_closed[x] /\ up'[x] = "sendclose"
            /\ UpData(x) \/ UpEof(x) \/ UpWake(x)
            /\ \/ state[x] = "Open" /\ state'[x] = "HalfClosedLocal"
                    /\ registered'[x] = registered[x]
               \/ state[x] = "HalfClosedRemote" /\ state'[x] = "Closed" /\ ~registered'[x]
         \/ Close(x)
         \/ OnPeerClose(x)
         \/ /\ registered[x] /\ state'[x] = "Closed" /\ ~registered'[x]
            /\ OnReset(x) \/ FailLink(x)
         \/ x = "server" /\ OnNew /\ state'[x] = "Open"
<1>1. CASE OnNew
  BY <1>1, Zenon DEF OnNew, Types
<1>2. ASSUME NEW e \in Ends, UpData(e) \/ UpEof(e) \/ UpWake(e)
      PROVE  \/ state'[x] = state[x] /\ registered'[x] = registered[x]
             \/ /\ x = e /\ ~link_closed[x] /\ up'[x] = "sendclose"
                /\ \/ state[x] = "Open" /\ state'[x] = "HalfClosedLocal"
                        /\ registered'[x] = registered[x]
                   \/ state[x] = "HalfClosedRemote" /\ state'[x] = "Closed" /\ ~registered'[x]
  <2>1. CASE ShutdownWrite(e)
    <3>1. CASE x # e
      BY <2>1, <3>1 DEF ShutdownWrite, Types
    <3>2. CASE x = e /\ ~link_closed[x] /\ state[x] = "Open"
      BY <2>1, <3>2 DEF ShutdownWrite, SecondHalf, Types
    <3>3. CASE x = e /\ ~link_closed[x] /\ state[x] = "HalfClosedRemote"
      BY <2>1, <3>3 DEF ShutdownWrite, SecondHalf, Types
    <3>4. CASE x = e /\ (link_closed[x] \/ state[x] \notin {"Open", "HalfClosedRemote"})
      BY <2>1, <3>4 DEF ShutdownWrite, SecondHalf, Types
    <3> QED
      BY <3>1, <3>2, <3>3, <3>4
  <2>2. CASE TakeCredit(e)
    BY <2>2 DEF TakeCredit
  <2> QED
    BY <1>2, <2>1, <2>2, Zenon DEF UpData, UpEof, UpWake
<1>3. ASSUME NEW e \in Ends, Close(e), x # e
      PROVE  state'[x] = state[x] /\ registered'[x] = registered[x]
  BY <1>3 DEF Close, Types
<1>4. ASSUME NEW e \in Ends, OnPeerClose(e), x # e
      PROVE  state'[x] = state[x] /\ registered'[x] = registered[x]
  BY <1>4 DEF OnPeerClose, Types
<1>5. ASSUME NEW e \in Ends, Reset(e)
      PROVE  \/ state'[x] = state[x] /\ registered'[x] = registered[x]
             \/ x = e /\ registered[x] /\ state'[x] = "Closed" /\ ~registered'[x]
  <2>1. CASE registered[e]
    <3>1. /\ state' = [state EXCEPT ![e] = "Closed"] /\ registered' = [registered EXCEPT ![e] = FALSE]
          /\ DOMAIN state = Ends /\ DOMAIN registered = Ends
      BY <1>5, <2>1, Zenon DEF Reset, Types
    <3> QED
      BY <2>1, <3>1, Zenon
  <2>2. CASE ~registered[e]
    BY <1>5, <2>2, Zenon DEF Reset, Types
  <2> QED
    BY <2>1, <2>2
<1>6. \/ UNCHANGED <<state, registered>>
      \/ OnNew
      \/ \E e \in Ends : \/ UpData(e) \/ UpEof(e) \/ UpWake(e) \/ Close(e) \/ OnPeerClose(e)
                         \/ Reset(e) /\ (OnReset(e) \/ FailLink(e))
  BY Actions, Zenon DEF OnNewRefused, Connected, ConnectFailed, UpEnqueue, UpSendClose,
     DownReceive, DownClosed, DownWindow, DownWrote, DownFailed, CloseSend, OnAck, OnData,
     OnWindow, OnClose, OnReset, FailLink, life
<1> QED
  BY <1>1, <1>2, <1>3, <1>4, <1>5, <1>6, Zenon

\* The ways a dispatcher holds a value of state_.
LEMMA LoadMoves ==
  ASSUME Types, Next, NEW x \in Ends
  PROVE  \/ loaded'[x] = loaded[x]
         \/ OnClose(x) /\ registered[x] /\ loaded'[x] = state[x]
         \/ OnPeerClose(x) /\ loaded'[x] = "none"
<1>1. ASSUME NEW e \in Ends, OnClose(e)
      PROVE  loaded'[x] = loaded[x] \/ (x = e /\ registered[x] /\ loaded'[x] = state[x])
  BY <1>1 DEF OnClose, Types
<1>2. ASSUME NEW e \in Ends, OnPeerClose(e)
      PROVE  loaded'[x] = loaded[x] \/ (x = e /\ loaded'[x] = "none")
  BY <1>2 DEF OnPeerClose, Types
<1>3. UNCHANGED loaded \/ \E e \in Ends : OnClose(e) \/ OnPeerClose(e)
  BY Actions, Zenon DEF OnNew, OnNewRefused, Connected, ConnectFailed, UpData, UpEof, UpWake,
     UpEnqueue, UpSendClose, DownReceive, DownClosed, DownWindow, DownWrote, DownFailed, Close,
     CloseSend, OnAck, OnData, OnWindow, OnReset, FailLink, life
<1> QED
  BY <1>1, <1>2, <1>3, Zenon

\* The ways the queue of one end changes.
Shifted(x) ==
  /\ wire[x] # <<>> /\ Len(wire[x]) = Len(wire'[x]) + 1
  /\ \A i \in 1..Len(wire'[x]) : wire'[x][i] = wire[x][i + 1]
Kept(x) ==
  /\ Len(wire'[x]) <= Len(wire[x])
  /\ \A i \in 1..Len(wire'[x]) : wire'[x][i] = wire[x][i]
Longer(x, f) ==
  /\ Len(wire'[x]) = Len(wire[x]) + 1 /\ wire'[x][Len(wire[x]) + 1] = f
  /\ \A i \in 1..Len(wire[x]) : wire'[x][i] = wire[x][i]

\* How the queue of x can change, and in which step.
WireMove(x) ==
  \/ wire'[x] = wire[x]
  \/ /\ Shifted(x)
     /\ \/ OnAck(Peer(x)) \/ OnData(Peer(x)) \/ OnWindow(Peer(x)) \/ OnClose(Peer(x))
        \/ OnReset(Peer(x)) \/ (x = "client" /\ (OnNew \/ OnNewRefused))
  \/ Kept(x) /\ (FailLink(x) \/ (FailLink(Peer(x)) /\ Len(wire'[x]) = 0))
  \/ Longer(x, Wire("DATA", sent[x] + 1)) /\ UpEnqueue(x) /\ ~link_closed[x]
  \/ Longer(x, Wire("CLOSE", 0)) /\ (UpSendClose(x) \/ CloseSend(x))
  \/ Longer(x, Wire("WINDOW", unacked[x])) /\ DownWindow(x) /\ ~link_closed[x]
  \/ x = "server" /\ OnNew /\ Longer(x, Wire("ACK", 0))
  \/ x = "server" /\ OnNewRefused /\ Longer(x, Wire("RESET", 0))

\* Every step changes a queue in one of these ways.
LEMMA WireMoves ==
  ASSUME Types, Next, NEW x \in Ends
  PROVE  WireMove(x)
<1>1. ASSUME NEW e \in Ends, NEW f \in Frames, Enqueue(e, f)
      PROVE  wire'[x] = wire[x] \/ (x = e /\ ~link_closed[e] /\ Longer(x, f))
  <2>1. CASE x = e
    BY <1>1, <2>1, EnqueueFacts, Zenon DEF Put, Longer
  <2>2. CASE x = Peer(e)
    BY <1>1, <2>2, EnqueueFacts, Zenon DEF Put
  <2> QED
    BY <2>1, <2>2, TwoEnds
<1>2. sent[x] + 1 \in Nat /\ unacked[x] \in Nat
  BY DEF Types
<1>3. ASSUME NEW e \in Ends, NEW t, Arrives(e, t), Pop(e)
      PROVE  wire'[x] = wire[x] \/ (e = Peer(x) /\ Shifted(x))
  <2>1. CASE x = e
    BY <1>3, <2>1, PopFacts, Zenon DEF Took
  <2>2. CASE x = Peer(e)
    BY <1>3, <2>2, PopFacts, PeerFacts, Zenon DEF Took, Shifted
  <2> QED
    BY <2>1, <2>2, TwoEnds
<1>4. ASSUME NEW e \in Ends, FailLink(e)
      PROVE  Kept(x) /\ (x = e \/ (e = Peer(x) /\ Len(wire'[x]) = 0))
  <2>1. CASE x = e
    BY <1>4, <2>1, FailFacts, Zenon DEF Cut, Kept
  <2>2. CASE x # e
    <3>1. x = Peer(e) /\ e = Peer(x) /\ Cut(e) /\ wire[x] \in Seq(Frames)
      BY <1>4, <2>2, FailFacts, TwoEnds, PeerFacts, Zenon DEF Types
    <3>2. Len(wire'[x]) = 0
      BY <3>1, Zenon DEF Cut
    <3>3. Kept(x)
      BY <3>1, <3>2 DEF Kept
    <3> QED
      BY <3>1, <3>2, <3>3
  <2> QED
    BY <2>1, <2>2
<1>5. ASSUME OnNew PROVE WireMove(x)
  BY <1>5, NewAnswered, Zenon DEF Answered, Longer, Shifted, WireMove, Ends
<1>6. ASSUME OnNewRefused PROVE WireMove(x)
  BY <1>6, NewAnswered, Zenon DEF Answered, Longer, Shifted, WireMove, Ends
<1>7. ASSUME NEW e \in Ends, UpEnqueue(e) PROVE WireMove(x)
  <2>1. CASE x = e
    <3>1. wire'[x] = wire[x] \/ (~link_closed[x] /\ Longer(x, Wire("DATA", sent[x] + 1)))
      BY <1>1, <1>2, <1>7, <2>1, WireFrames, Zenon DEF UpEnqueue
    <3> QED
      BY <1>7, <2>1, <3>1, Zenon DEF WireMove
  <2>2. CASE x # e
    <3>1. sent[e] + 1 \in Nat
      BY DEF Types
    <3> QED
      BY <1>1, <1>7, <2>2, <3>1, WireFrames, Zenon DEF UpEnqueue, WireMove
  <2> QED
    BY <2>1, <2>2
<1>8. ASSUME NEW e \in Ends, UpSendClose(e) \/ CloseSend(e) PROVE WireMove(x)
  <2>1. wire'[x] = wire[x] \/ (x = e /\ Longer(x, Wire("CLOSE", 0)))
    BY <1>1, <1>8, WireFrames, Zenon DEF UpSendClose, CloseSend
  <2> QED
    BY <1>8, <2>1, Zenon DEF WireMove
<1>9. ASSUME NEW e \in Ends, DownWindow(e) PROVE WireMove(x)
  <2>1. CASE x = e
    <3>1. wire'[x] = wire[x] \/ (~link_closed[x] /\ Longer(x, Wire("WINDOW", unacked[x])))
      BY <1>1, <1>2, <1>9, <2>1, WireFrames, Zenon DEF DownWindow
    <3> QED
      BY <1>9, <2>1, <3>1, Zenon DEF WireMove
  <2>2. CASE x # e
    <3>1. unacked[e] \in Nat
      BY DEF Types
    <3> QED
      BY <1>1, <1>9, <2>2, <3>1, WireFrames, Zenon DEF DownWindow, WireMove
  <2> QED
    BY <2>1, <2>2
<1>10. ASSUME NEW e \in Ends, OnAck(e) \/ OnData(e) \/ OnWindow(e) \/ OnClose(e) \/ OnReset(e)
       PROVE  WireMove(x)
  <2>1. wire'[x] = wire[x] \/ (e = Peer(x) /\ Shifted(x))
    BY <1>3, <1>10, Zenon DEF OnAck, OnData, OnWindow, OnClose, OnReset
  <2> QED
    BY <1>10, <2>1, Zenon DEF WireMove
<1>11. ASSUME NEW e \in Ends, FailLink(e) PROVE WireMove(x)
  <2>1. Kept(x) /\ (FailLink(x) \/ (FailLink(Peer(x)) /\ Len(wire'[x]) = 0))
    BY <1>4, <1>11
  <2> QED
    BY <2>1 DEF WireMove
<1>12. ASSUME \/ Connected \/ ConnectFailed
              \/ \E e \in Ends :
                   \/ UpData(e) \/ UpEof(e) \/ UpWake(e) \/ DownReceive(e) \/ DownClosed(e)
                   \/ DownWrote(e) \/ DownFailed(e) \/ Close(e) \/ OnPeerClose(e)
       PROVE  WireMove(x)
  BY <1>12, Zenon DEF Connected, ConnectFailed, UpData, UpEof, UpWake, DownReceive, DownClosed,
     DownWrote, DownFailed, Close, OnPeerClose, WireMove
<1> QED
  BY <1>5, <1>6, <1>7, <1>8, <1>9, <1>10, <1>11, <1>12, Actions, Zenon

\* At the start no loop is done and nothing was closed.
LEMMA ControlInit == Init => Control
<1> SUFFICES ASSUME Init PROVE Control
  OBVIOUS
<1>1. /\ wire["client"] = <<Wire("NEW", Window)>> /\ wire["server"] = <<>>
      /\ Wire("NEW", Window).type = "NEW"
  BY DEF Init, Each, Ends, Wire
<1>2. \A e \in Ends : ~Carries(e, "CLOSE") /\ ~Carries(e, "RESET") /\ ~Carries(e, "DATA")
  BY <1>1 DEF Carries, Ends
<1>3. \A e \in Ends : LastWord(e)
  <2>1. \A e \in Ends : loaded[e] = "none"
    BY DEF Init, All, Each
  <2> QED
    BY <1>2, <2>1, PeerFacts, Zenon DEF LastWord, Carries
<1>4. \A e \in Ends : Before(e) /\ Over(e) /\ Halves(e)
  BY DEF Init, Before, Over, Halves, All, Each, Ends
<1> QED
  BY <1>3, <1>4 DEF Control

\* Nothing touches a session that the server has not made.
LEMMA BeforeStep ==
  ASSUME Types, Types', First, Next, NEW x \in Ends, Before(x)
  PROVE  Before(x)'
<1> SUFFICES ASSUME up'[x] \in {"none", "refused"}
             PROVE  /\ state'[x] = "none" /\ loaded'[x] = "none" /\ ~registered'[x]
                    /\ credit'[x] = 0 /\ sent'[x] = 0
  BY DEF Before
<1>1. up[x] \in {"none", "refused"} /\ ~(x = "server" /\ OnNew)
  <2>1. x = "server" /\ OnNew => up'[x] = "connect"
    BY DEF OnNew, Types
  <2>2. OnNewRefused /\ x = "server" => up[x] = "none"
    BY NewComesFirst
  <2> QED
    BY <2>1, <2>2, UpMoves
<1>2. state[x] = "none" /\ loaded[x] = "none" /\ ~registered[x] /\ credit[x] = 0 /\ sent[x] = 0
  BY <1>1 DEF Before
<1>3. ~Close(x) /\ ~OnPeerClose(x)
  BY <1>1, <1>2 DEF Close, Copied, OnPeerClose
<1>4. state'[x] = "none" /\ ~registered'[x]
  BY <1>1, <1>2, <1>3, StateMoves
<1>5. loaded'[x] = "none"
  BY <1>2, LoadMoves
<1>6. credit'[x] = credit[x]
  <2>1. ASSUME NEW e \in Ends, UpData(e) \/ UpEof(e) \/ UpWake(e)
        PROVE  credit'[x] = credit[x]
    <3>1. x # e /\ (ShutdownWrite(e) \/ TakeCredit(e))
      BY <1>1, <2>1 DEF UpData, UpEof, UpWake
    <3>2. CASE ShutdownWrite(e)
      BY <3>2 DEF ShutdownWrite
    <3>3. CASE TakeCredit(e)
      BY <3>1, <3>3, Zenon DEF TakeCredit, Types
    <3> QED
      BY <3>1, <3>2, <3>3
  <2>2. ASSUME NEW e \in Ends, OnWindow(e)
        PROVE  credit'[x] = credit[x]
    BY <1>2, <2>2 DEF OnWindow, Types
  <2>3. ASSUME OnNew
        PROVE  credit'[x] = credit[x]
    BY <1>1, <2>3 DEF OnNew, Types
  <2>4. \/ UNCHANGED credit \/ OnNew
        \/ \E e \in Ends : UpData(e) \/ UpEof(e) \/ UpWake(e) \/ OnWindow(e)
    BY Actions, Zenon DEF OnNewRefused, Connected, ConnectFailed, UpEnqueue, UpSendClose,
       DownReceive, DownClosed, DownWindow, DownWrote, DownFailed, Close, CloseSend, OnAck,
       OnData, OnClose, OnPeerClose, OnReset, FailLink, flow
  <2> QED
    BY <2>1, <2>2, <2>3, <2>4, Zenon
<1>7. sent'[x] = sent[x]
  <2>1. ASSUME NEW e \in Ends, UpEnqueue(e)
        PROVE  sent'[x] = sent[x]
    BY <1>1, <2>1 DEF UpEnqueue, Types
  <2>2. UNCHANGED sent \/ \E e \in Ends : UpEnqueue(e)
    BY Actions, Zenon DEF OnNew, OnNewRefused, Connected, ConnectFailed, UpData, UpEof, UpWake,
       UpSendClose, DownReceive, DownClosed, DownWindow, DownWrote, DownFailed, Close, CloseSend,
       OnAck, OnData, OnWindow, OnClose, OnPeerClose, OnReset, FailLink, copy
  <2> QED
    BY <2>1, <2>2
<1> QED
  BY <1>2, <1>4, <1>5, <1>6, <1>7

\* A session that bidiCopy has left does not come back into the table.
LEMMA OverStep ==
  ASSUME Types, Types', First, Next, NEW x \in Ends, Over(x), Halves(x)
  PROVE  Over(x)'
<1>1. Copied(x) => Copied(x)'
  <2>1. ASSUME Copied(x), Connected
        PROVE  down'[x] = "done"
    BY <2>1, SMTT(20) DEF Connected, ReadEntry, Copied, Types
  <2>2. ASSUME Copied(x), NEW e \in Ends,
               \/ DownReceive(e) \/ DownClosed(e) \/ DownWindow(e) \/ DownWrote(e)
               \/ DownFailed(e)
        PROVE  down'[x] = "done"
    <3>1. \E d \in Downs : down' = [down EXCEPT ![e] = d]
      BY <2>2, Zenon DEF DownReceive, DownClosed, DownWindow, DownWrote, DownFailed, ReadEntry, Downs
    <3>2. e # x
      BY <2>2 DEF DownReceive, DownClosed, DownWindow, DownWrote, DownFailed, Copied
    <3> QED
      BY <2>2, <3>1, <3>2 DEF Copied, Types
  <2>3. \/ UNCHANGED down \/ Connected
        \/ \E e \in Ends : DownReceive(e) \/ DownClosed(e) \/ DownWindow(e) \/ DownWrote(e)
                             \/ DownFailed(e)
    BY Actions, Zenon DEF OnNew, OnNewRefused, ConnectFailed, UpData, UpEof, UpWake, UpEnqueue,
       UpSendClose, Close, CloseSend, OnAck, OnData, OnWindow, OnClose, OnPeerClose, OnReset,
       FailLink, copy
  <2>4. Copied(x) => down'[x] = "done"
    BY <2>1, <2>2, <2>3, Zenon DEF Copied
  <2> QED
    BY <2>4, UpStays, Zenon DEF Copied
<1>2. registered[x] \/ ~registered'[x] \/ (x = "server" /\ OnNew)
  <2>1. Close(x) \/ OnPeerClose(x) => registered[x] \/ ~registered'[x]
    BY DEF Close, OnPeerClose, Types
  <2> QED
    BY <2>1, StateMoves, Zenon
<1>3. ended[x] => Copied(x)' /\ ~registered'[x]
  <2>1. ended[x] => ~(x = "server" /\ OnNew)
    BY NewComesFirst DEF Over, Copied
  <2> QED
    BY <1>1, <1>2, <2>1, Zenon DEF Over
<1>4. Close(x) => Copied(x)' /\ ~registered'[x] /\ ended'[x]
  <2>1. Close(x) => ~registered'[x] /\ ended'[x]
    BY DEF Close, Halves, Types
  <2> QED
    BY <1>1, <2>1, Zenon DEF Close
<1>5. ended'[x] = ended[x] \/ Close(x)
  <2>1. ASSUME NEW e \in Ends, Close(e), e # x
        PROVE  ended'[x] = ended[x]
    <3>1. ended' = [ended EXCEPT ![e] = TRUE] /\ ended \in [Ends -> BOOLEAN]
      BY <2>1, Zenon DEF Close, Types
    <3> QED
      BY <2>1, <3>1, Zenon
  <2>2. UNCHANGED ended \/ \E e \in Ends : Close(e)
    BY Actions, Zenon DEF OnNew, OnNewRefused, Connected, ConnectFailed, UpData, UpEof, UpWake,
       UpEnqueue, UpSendClose, DownReceive, DownClosed, DownWindow, DownWrote, DownFailed,
       CloseSend, OnAck, OnData, OnWindow, OnClose, OnPeerClose, OnReset, FailLink, copy
  <2> QED
    BY <2>1, <2>2, Zenon
<1>6. pend'[x] => pend[x] \/ Close(x)
  <2>1. ASSUME NEW e \in Ends, Close(e), e # x
        PROVE  pend'[x] = pend[x]
    <3>1. pend' = [pend EXCEPT ![e] = state[e] # "Closed" /\ ~link_closed[e]]
      BY <2>1, Zenon DEF Close
    <3>2. DOMAIN pend = Ends
      BY Zenon DEF Types
    <3> QED
      BY <2>1, <3>1, <3>2, Zenon
  <2>2. ASSUME NEW e \in Ends, CloseSend(e), pend'[x]
        PROVE  pend[x]
    BY <2>2 DEF CloseSend, Types
  <2>3. UNCHANGED pend \/ \E e \in Ends : Close(e) \/ CloseSend(e)
    BY Actions, Zenon DEF OnNew, OnNewRefused, Connected, ConnectFailed, UpData, UpEof, UpWake,
       UpEnqueue, UpSendClose, DownReceive, DownClosed, DownWindow, DownWrote, DownFailed,
       OnAck, OnData, OnWindow, OnClose, OnPeerClose, OnReset, FailLink, copy
  <2> QED
    BY <2>1, <2>2, <2>3, Zenon
<1> QED
  BY <1>3, <1>4, <1>5, <1>6, Zenon DEF Over

\* A frame on a queue was there before, or is the one just put there.
LEMMA CarriesMoves ==
  ASSUME Types, Types', NEW x \in Ends, NEW t, Carries(x, t)'
  PROVE  /\ wire'[x] = wire[x] \/ Shifted(x) \/ Kept(x) => Carries(x, t)
         /\ \A f : Longer(x, f) => Carries(x, t) \/ f.type = t
<1>1. Len(wire[x]) \in Nat /\ Len(wire'[x]) \in Nat
  BY DEF Types
<1>2. PICK i \in 1..Len(wire'[x]) : wire'[x][i].type = t
  BY DEF Carries
<1>3. CASE wire'[x] = wire[x]
  BY <1>2, <1>3 DEF Carries
<1>4. CASE Shifted(x)
  BY <1>1, <1>2, <1>4 DEF Carries, Shifted
<1>5. CASE Kept(x)
  BY <1>1, <1>2, <1>5 DEF Carries, Kept
<1>6. ASSUME NEW f, Longer(x, f) PROVE Carries(x, t) \/ f.type = t
  <2>1. CASE i = Len(wire[x]) + 1
    BY <1>2, <1>6, <2>1, Zenon DEF Longer
  <2>2. CASE i \in 1..Len(wire[x])
    BY <1>2, <1>6, <2>2, Zenon DEF Carries, Longer
  <2>3. i = Len(wire[x]) + 1 \/ i \in 1..Len(wire[x])
    BY <1>1, <1>2, <1>6 DEF Longer
  <2> QED
    BY <2>1, <2>2, <2>3, Zenon
<1> QED
  BY <1>3, <1>4, <1>5, <1>6

\* What a dispatcher finds is on the queue of its peer.
LEMMA ArrivesCarried ==
  ASSUME Types, NEW x \in Ends, NEW t, Arrives(Peer(x), t)
  PROVE  Carries(x, t)
<1>1. wire[x] \in Seq(Frames) /\ wire[x] # <<>> /\ Head(wire[x]).type = t
  BY PeerFacts DEF Arrives, Types
<1> QED
  BY <1>1 DEF Carries

\* CLOSE ends what an end sends.
LEMMA LastWordStep ==
  ASSUME Types, Types', First, Next, NEW x \in Ends, Over(x), LastWord(x)
  PROVE  LastWord(x)'
<1>0. /\ \A n \in Nat : Wire("DATA", n).type = "DATA" /\ Wire("WINDOW", n).type = "WINDOW"
      /\ \A t \in {"ACK", "RESET", "CLOSE"} : Wire(t, 0).type = t
      /\ sent[x] + 1 \in Nat /\ unacked[x] \in Nat
      /\ Len(wire[x]) \in Nat /\ Len(wire'[x]) \in Nat
  <2>1. /\ \A n \in Nat : Wire("DATA", n).type = "DATA" /\ Wire("WINDOW", n).type = "WINDOW"
        /\ \A t \in {"ACK", "RESET", "CLOSE"} : Wire(t, 0).type = t
    BY DEF Wire
  <2>2. sent[x] \in Nat /\ unacked[x] \in Nat /\ wire[x] \in Seq(Frames) /\ wire'[x] \in Seq(Frames)
    BY Zenon DEF Types
  <2> QED
    BY <2>1, <2>2
<1>1. (UpSendClose(x) \/ CloseSend(x)) => up'[x] = "done"
  <2>1. UpSendClose(x) => up'[x] = "done"
    BY DEF UpSendClose, Types
  <2>2. CloseSend(x) => up[x] = "done"
    BY Zenon DEF CloseSend, Over, Copied
  <2> QED
    BY <2>1, <2>2, UpStays
<1>2. ASSUME Carries(x, "CLOSE")' PROVE up'[x] = "done"
  <2>1. Carries(x, "CLOSE") \/ UpSendClose(x) \/ CloseSend(x)
    BY <1>0, <1>2, WireMoves, CarriesMoves DEF WireMove
  <2> QED
    BY <1>1, <2>1, UpStays DEF LastWord
<1>3. ASSUME loaded'[Peer(x)] # "none" PROVE up'[x] = "done"
  <2>1. Peer(x) \in Ends
    BY PeerFacts
  <2>2. loaded[Peer(x)] # "none" \/ OnClose(Peer(x))
    BY <1>3, <2>1, LoadMoves
  <2>3. OnClose(Peer(x)) => Carries(x, "CLOSE")
    BY ArrivesCarried DEF OnClose
  <2> QED
    BY <2>2, <2>3, UpStays DEF LastWord
<1>4. ASSUME Carries(x, "RESET")' PROVE up'[x] = "refused"
  <2>1. Carries(x, "RESET") \/ (x = "server" /\ OnNewRefused)
    BY <1>0, <1>4, WireMoves, CarriesMoves DEF WireMove
  <2>2. x = "server" /\ OnNewRefused => up'[x] = "refused"
    BY DEF OnNewRefused, Types
  <2> QED
    BY <2>1, <2>2, UpStays DEF LastWord
<1>5. ASSUME NEW i \in 1..Len(wire'[x]), NEW j \in 1..Len(wire'[x]),
             wire'[x][i].type = "CLOSE", wire'[x][j].type = "DATA"
      PROVE  j < i
  <2>1. \A k, l \in 1..Len(wire[x]) :
           wire[x][k].type = "CLOSE" /\ wire[x][l].type = "DATA" => l < k
    BY DEF LastWord
  <2>2. CASE wire'[x] = wire[x]
    BY <1>5, <2>1, <2>2
  <2>3. CASE Shifted(x)
    <3>1. /\ i + 1 \in 1..Len(wire[x]) /\ wire[x][i + 1].type = "CLOSE"
          /\ j + 1 \in 1..Len(wire[x]) /\ wire[x][j + 1].type = "DATA"
      <4>1. i + 1 \in 1..Len(wire[x]) /\ j + 1 \in 1..Len(wire[x])
        BY <1>0, <1>5, <2>3 DEF Shifted
      <4> QED
        BY <1>5, <2>3, <4>1, Zenon DEF Shifted
    <3>2. j + 1 < i + 1
      BY <2>1, <3>1
    <3> QED
      BY <1>0, <3>2
  <2>4. CASE Kept(x)
    <3>1. /\ i \in 1..Len(wire[x]) /\ wire[x][i].type = "CLOSE"
          /\ j \in 1..Len(wire[x]) /\ wire[x][j].type = "DATA"
      BY <1>0, <1>5, <2>4 DEF Kept
    <3> QED
      BY <2>1, <3>1, Zenon
  <2>5. ASSUME NEW f, Longer(x, f), f.type = "DATA" => ~Carries(x, "CLOSE")
        PROVE  j < i
    <3>1. CASE i = Len(wire[x]) + 1
      BY <1>0, <1>5, <2>5, <3>1 DEF Longer
    <3>2. CASE i \in 1..Len(wire[x])
      <4>1. wire[x][i].type = "CLOSE" /\ Carries(x, "CLOSE")
        BY <1>5, <2>5, <3>2 DEF Longer, Carries
      <4>2. j \in 1..Len(wire[x])
        BY <1>0, <1>5, <2>5, <4>1 DEF Longer
      <4> QED
        BY <1>5, <2>1, <2>5, <3>2, <4>1, <4>2 DEF Longer
    <3>3. Len(wire'[x]) = Len(wire[x]) + 1
      BY <2>5 DEF Longer
    <3> QED
      BY <1>0, <3>1, <3>2, <3>3
  <2>6. UpEnqueue(x) => ~Carries(x, "CLOSE")
    BY DEF UpEnqueue, LastWord
  <2> QED
    BY <1>0, <2>2, <2>3, <2>4, <2>5, <2>6, WireMoves DEF WireMove
<1> QED
  BY <1>2, <1>3, <1>4, <1>5 DEF LastWord

\* state_ tells the truth about both directions.
LEMMA HalvesStep ==
  ASSUME Types, Types', First, Next, NEW x \in Ends, Halves(x), LastWord(Peer(x)), Over(x)
  PROVE  Halves(x)'
<1> DEFINE p == Peer(x)
<1>0. p \in Ends /\ p # x /\ Peer(p) = x
  BY PeerFacts
<1>1. OnPeerClose(x) => /\ loaded[x] # "none" /\ up[p] = "done"
                        /\ registered'[x] => state'[x] # "Closed"
                        /\ \/ state'[x] = state[x]
                           \/ loaded[x] = "HalfClosedLocal" /\ state'[x] = "Closed"
                           \/ loaded[x] = "Open" /\ state'[x] = "HalfClosedRemote"
  <2>1. OnPeerClose(x) => loaded[x] # "none" /\ up[p] = "done"
    BY <1>0, Zenon DEF OnPeerClose, LastWord
  <2>2. OnPeerClose(x) => (registered'[x] => state'[x] # "Closed")
    BY Zenon DEF OnPeerClose, Types
  <2>3. OnPeerClose(x) => \/ state'[x] = state[x]
                          \/ loaded[x] = "HalfClosedLocal" /\ state'[x] = "Closed"
                          \/ loaded[x] = "Open" /\ state'[x] = "HalfClosedRemote"
    BY Zenon DEF OnPeerClose, PeerClosed, Types
  <2> QED
    BY <2>1, <2>2, <2>3, Zenon
<1>2. Close(x) => up[x] = "done" /\ state'[x] = "Closed" /\ ended'[x] /\ ~registered'[x]
  BY DEF Close, Copied, Halves, Types
<1>3. OnReset(x) => up[p] = "refused"
  <2>1. OnReset(x) => Carries(p, "RESET")
    BY <1>0, ArrivesCarried DEF OnReset
  <2> QED
    BY <2>1, Zenon DEF LastWord
<1>4. FailLink(x) => link_closed'[x]
  BY DEF FailLink, Types
<1>5. x = "server" /\ OnNew => state'[x] = "Open" /\ loaded'[x] = loaded[x]
  BY Zenon DEF OnNew, Types
<1>6. ASSUME "HalfClosedLocal" \in {state'[x], loaded'[x]}
      PROVE  up'[x] \in {"sendclose", "done"}
  <2>1. CASE state'[x] = "HalfClosedLocal"
    BY <1>1, <1>2, <2>1, StateMoves, UpStays, Zenon DEF Halves
  <2>2. CASE loaded'[x] = "HalfClosedLocal"
    BY <2>2, LoadMoves, UpStays DEF Halves
  <2> QED
    BY <1>6, <2>1, <2>2
<1>7. ASSUME state'[x] = "HalfClosedRemote"
      PROVE  up'[p] = "done"
  BY <1>0, <1>1, <1>2, <1>7, StateMoves, UpStays, Zenon DEF Halves
<1>8. ASSUME state'[x] = "Closed"
      PROVE  ~registered'[x]
  BY <1>1, <1>2, <1>8, StateMoves DEF Halves
<1>9. ASSUME state'[x] = "Closed"
      PROVE  \/ ended'[x] \/ link_closed'[x] \/ up'[p] = "refused"
             \/ up'[x] \in {"sendclose", "done"} /\ up'[p] = "done"
  <2>1. CASE state[x] = "Closed"
    BY <1>0, <2>1, UpStays, OnceClosed DEF Halves
  <2>2. CASE state[x] # "Closed" /\ Close(x)
    BY <1>2, <2>2
  <2>3. CASE state[x] # "Closed" /\ OnPeerClose(x)
    BY <1>0, <1>1, <1>9, <2>3, UpStays DEF Halves
  <2>4. CASE state[x] # "Closed" /\ (OnReset(x) \/ FailLink(x))
    BY <1>0, <1>3, <1>4, <2>4, UpStays
  <2>5. CASE state[x] = "HalfClosedRemote" /\ up'[x] = "sendclose"
    BY <1>0, <2>5, UpStays DEF Halves
  <2> QED
    BY <1>5, <1>9, <2>1, <2>2, <2>3, <2>4, <2>5, StateMoves, Zenon
<1> QED
  BY <1>6, <1>7, <1>8, <1>9, Zenon DEF Halves

\* Every step keeps Control.
LEMMA ControlStep ==
  ASSUME Types, Types', First, Control, Next
  PROVE  Control'
  BY BeforeStep, OverStep, LastWordStep, HalvesStep, PeerFacts, Zenon DEF Control

\* At the start onPeerClose has loaded nothing.
LEMMA StrandInit == Init => Strand
  BY DEF Init, All, Each, Ends, Strand

\* The strand keeps every other step away between the load and the store.
LEMMA StrandStep ==
  ASSUME Types, Types', Strand, Next
  PROVE  Strand'
<1> USE DEF Ends
<1>1. CASE loaded["server"] = "none"
  <2>1. OnClose("server") => state'["server"] = state["server"]
    BY Zenon DEF OnClose
  <2> QED
    BY <1>1, <2>1, LoadMoves DEF Strand
<1>2. CASE loaded["server"] # "none" /\ ~OnPeerClose("server")
  <2>1. loaded'["server"] = loaded["server"]
    <3>1. ~OnClose("server")
      BY <1>2, Zenon DEF OnClose, Arrives
    <3> QED
      BY <1>2, <3>1, LoadMoves
  <2>2. state'["server"] = state["server"]
    <3>1. /\ ~Close("server") /\ ~OnReset("server") /\ ~FailLink("server") /\ ~OnNew
          /\ ~UpData("server") /\ ~UpEof("server") /\ ~UpWake("server")
      BY <1>2, Zenon DEF Close, OnReset, FailLink, OnNew, Arrives, UpData, UpEof, UpWake, Free, OnStrand
    <3> QED
      BY <1>2, <3>1, StateMoves
  <2> QED
    BY <2>1, <2>2 DEF Strand
<1>3. CASE OnPeerClose("server")
  BY <1>3 DEF OnPeerClose, Strand, Types
<1> QED
  BY <1>1, <1>2, <1>3

-------------------------------------------------------------------------------
(* What these invariants give. *)

ControlInv == Types /\ Limits /\ First /\ Control /\ Strand

\* Every step of the program keeps the invariant.
LEMMA ControlInvNext ==
  ASSUME ControlInv, Next
  PROVE  ControlInv'
<1>1. Types /\ Limits /\ First /\ Control /\ Strand
  BY Zenon DEF ControlInv
<1>2. Types'
  BY <1>1, TypesStep, Zenon
<1>3. Limits'
  BY <1>1, <1>2, RoomStep, CountsStep, Zenon DEF Limits
<1>4. First'
  BY <1>1, <1>2, FirstStep, Zenon
<1>5. Control'
  BY <1>1, <1>2, ControlStep, Zenon
<1>6. Strand'
  BY <1>1, <1>2, StrandStep, Zenon
<1> QED
  BY <1>2, <1>3, <1>4, <1>5, <1>6, Zenon DEF ControlInv

\* The variables of a step that changes nothing.
LEMMA Unchanged ==
  ASSUME UNCHANGED vars
  PROVE  /\ UNCHANGED <<up, down, app, sent, out, eof, ended, pend>>
         /\ UNCHANGED <<credit, signal, signal_open, unacked, inbox, inbox_open>>
         /\ UNCHANGED <<state, registered, loaded, link_closed, wire>>
  BY Zenon DEF vars, copy, flow, box, life

\* Such a step keeps the invariant.
LEMMA ControlInvStutter ==
  ASSUME ControlInv, UNCHANGED vars
  PROVE  ControlInv'
<1>2. Types'
  BY Unchanged, Zenon DEF ControlInv, Types
<1>3. Limits'
  BY Unchanged, Zenon DEF ControlInv, Limits, Counts, Room, Framed
<1>4. First'
  BY Unchanged, Zenon DEF ControlInv, First
<1>5. Control'
  <2> SUFFICES ASSUME NEW e \in Ends PROVE Before(e)' /\ Over(e)' /\ LastWord(e)' /\ Halves(e)'
    BY Zenon DEF Control
  <2>1. Before(e) /\ Over(e) /\ LastWord(e) /\ Halves(e)
    BY Zenon DEF ControlInv, Control
  <2>2. Before(e)' /\ Over(e)'
    BY <2>1, Unchanged, Zenon DEF Before, Over, Copied
  <2>3. LastWord(e)'
    BY <2>1, Unchanged, Zenon DEF LastWord, Carries
  <2>4. Halves(e)'
    BY <2>1, Unchanged, Zenon DEF Halves
  <2> QED
    BY <2>2, <2>3, <2>4
<1>6. Strand'
  BY Unchanged, Zenon DEF ControlInv, Strand
<1> QED
  BY <1>2, <1>3, <1>4, <1>5, <1>6, Zenon DEF ControlInv

\* The invariant holds always.
LEMMA ControlInvAlways == Spec => []ControlInv
<1>1. Init => ControlInv
  BY TypesInit, FirstInit, ControlInit, StrandInit, Zenon DEF ControlInv
<1>2. ControlInv /\ [Next]_vars => ControlInv'
  BY ControlInvNext, ControlInvStutter, Zenon
<1> QED
  BY <1>1, <1>2, PTL DEF Spec

\* A place at or behind another one.
LEMMA NotBefore ==
  ASSUME NEW n \in Nat, NEW i \in 1..n, NEW j \in i..n
  PROVE  j \in 1..n /\ ~(j < i)
OBVIOUS

\* No DATA frame follows a CLOSE of the same end on the wire, nor will one: the
\* loop that feeds the session is over when shutdownWrite or close() sends it.
THEOREM CloseIsLastWord == Spec => []NoDataAfterClose
<1>1. ASSUME ControlInv PROVE NoDataAfterClose
  <2> SUFFICES ASSUME NEW e \in Ends, NEW i \in 1..Len(wire[e]), wire[e][i].type = "CLOSE"
               PROVE  /\ up[e] \notin {"read", "wait", "enqueue"}
                      /\ \A j \in i..Len(wire[e]) : wire[e][j].type # "DATA"
    BY DEF NoDataAfterClose
  <2>1. LastWord(e) /\ Carries(e, "CLOSE")
    BY <1>1, Zenon DEF ControlInv, Control, Carries
  <2>2. up[e] = "done"
    BY <2>1 DEF LastWord
  <2>3. ASSUME NEW j \in i..Len(wire[e]) PROVE wire[e][j].type # "DATA"
    <3>1. Len(wire[e]) \in Nat
      BY <1>1 DEF ControlInv, Types
    <3>2. j \in 1..Len(wire[e]) /\ ~(j < i)
      BY <3>1, NotBefore, Zenon
    <3> QED
      BY <2>1, <3>2, Zenon DEF LastWord
  <2> QED
    BY <2>2, <2>3
<1> QED
  BY <1>1, ControlInvAlways, PTL

\* An end that takes the peer's direction for closed is right: the peer's loop has
\* finished, however CLOSE, RESET, shutdownWrite and the store of onPeerClose
\* interleave.
THEOREM PeerCloseSound == Spec => []PeerCloseIsReal
<1>1. ControlInv => PeerCloseIsReal
  BY Zenon DEF ControlInv, Control, Halves, PeerCloseIsReal
<1> QED
  BY <1>1, ControlInvAlways, PTL

\* A session that bidiCopy has left is not in sessions_, in every interleaving of
\* the four places that may remove it.
THEOREM LeftIsErased == Spec => []NoLeak
<1>1. ControlInv => NoLeak
  BY Zenon DEF ControlInv, Control, Over, NoLeak
<1> QED
  BY <1>1, ControlInvAlways, PTL

\* The server never reopens a write side that it has closed: on its strand the
\* store of onPeerClose follows from the present state_.
THEOREM ServerShutIsFinal == Spec => ServerShutStays
<1> DEFINE Shut == state["server"] \in {"HalfClosedLocal", "Closed"}
<1>1. ASSUME ControlInv, Next, Shut PROVE Shut'
  <2>1. Types /\ First /\ Strand /\ Before("server")
    BY <1>1, Zenon DEF ControlInv, Control, Ends
  <2>2. OnPeerClose("server") => Shut'
    BY <1>1, <2>1 DEF OnPeerClose, PeerClosed, Strand, Types, Ends
  <2>3. Close("server") => Shut'
    BY <2>1 DEF Close, Types, Ends
  <2>4. ~OnNew
    BY <1>1, <2>1, NewComesFirst DEF Before
  <2> QED
    BY <1>1, <2>1, <2>2, <2>3, <2>4, StateMoves DEF Ends
<1>2. UNCHANGED vars => UNCHANGED state
  BY DEF vars, life
<1>3. ControlInv /\ [Next]_vars =>
        [state["server"] \in {"HalfClosedLocal", "Closed"} =>
           state'["server"] \in {"HalfClosedLocal", "Closed"}]_vars
  BY <1>1, <1>2
<1> QED
  BY <1>3, ControlInvAlways, PTL DEF Spec, ServerShutStays
===============================================================================
