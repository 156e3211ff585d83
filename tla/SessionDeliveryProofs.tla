------------------------ MODULE SessionDeliveryProofs -------------------------
(***************************************************************************)
(* Proofs about what a Session delivers and the credit it spends, on top   *)
(* of SessionControlProofs.                                                *)
(*                                                                         *)
(* Two invariants: Delivery (what was read, what inbox_ holds and the DATA *)
(* frames under way follow on each other) and Credits (credit is backed by *)
(* payloads that were read).                                               *)
(***************************************************************************)
EXTENDS SessionControlProofs

\* A DATA frame counts for one payload, a WINDOW frame for the credit it returns.
Worth(f) == IF f.type = "DATA" THEN 1 ELSE f.n

\* The frames of type T in w take a count from b to t, and DATA frames are numbered
\* by it.  d[i] is the count in front of frame i.
Ledger(w, T, b, t) ==
  \E d \in [1..Len(w) + 1 -> 0..t] :
     /\ d[1] = b /\ d[Len(w) + 1] = t
     /\ \A i, j \in 1..Len(w) + 1 : i <= j => d[i] <= d[j]
     /\ \A i \in 1..Len(w) :
          IF w[i].type = T
          THEN d[i + 1] = d[i] + Worth(w[i]) /\ (T = "DATA" => w[i].n = d[i + 1])
          ELSE d[i + 1] = d[i]

\* A DATA frame that arrives at e is put into inbox_, now or after NEW.
Takes(e) ==
  ~link_closed[e] /\ inbox_open[e] /\ (registered[e] \/ (e = "server" /\ up[e] = "none"))

\* Payloads of the peer that e has read or holds in inbox_.
Base(e) == Len(out[e]) + Len(inbox[e])

\* What e has read, what inbox_ holds and what is under way follow on each other.
InOrder(e) ==
  /\ \A i \in 1..Len(out[e]) : out[e][i] = i
  /\ \A i \in 1..Len(inbox[e]) : inbox[e][i] = Len(out[e]) + i
  /\ Base(e) <= sent[Peer(e)]
OnItsWay(e) ==
  Takes(e) => \E t \in 0..sent[Peer(e)] : /\ Ledger(wire[Peer(e)], "DATA", Base(e), t)
                                          /\ link_closed[Peer(e)] \/ t = sent[Peer(e)]
Delivery == \A e \in Ends : InOrder(e) /\ OnItsWay(e)

\* The credit of e and what it has spent are covered by its window and the credit
\* that has come back, which stays behind what the peer has read.
Covered(e) ==
  \E t \in 0..Len(out[Peer(e)]) : \E b \in 0..t :
     /\ Ledger(wire[Peer(e)], "WINDOW", b, t)
     /\ t + unacked[Peer(e)] <= Len(out[Peer(e)])
     /\ credit[e] + Framed(e) + sent[e] <= Window + b
Credits == \A e \in Ends : Covered(e)

-------------------------------------------------------------------------------
(* Counting the frames of a queue. *)

\* A frame is put behind the others.
LEMMA LedgerLonger ==
  ASSUME NEW w \in Seq(Frames), NEW v \in Seq(Frames), NEW f \in Frames, NEW T,
         NEW b \in Nat, NEW t \in Nat, Ledger(w, T, b, t),
         Len(v) = Len(w) + 1, v[Len(w) + 1] = f, \A i \in 1..Len(w) : v[i] = w[i],
         f.type = T /\ T = "DATA" => f.n = t + 1
  PROVE  Ledger(v, T, b, IF f.type = T THEN t + Worth(f) ELSE t)
<1> DEFINE n == Len(w)
           u == IF f.type = T THEN t + Worth(f) ELSE t
<1>1. PICK d \in [1..n + 1 -> 0..t] :
        /\ d[1] = b /\ d[n + 1] = t
        /\ \A i, j \in 1..n + 1 : i <= j => d[i] <= d[j]
        /\ \A i \in 1..n :
             IF w[i].type = T
             THEN d[i + 1] = d[i] + Worth(w[i]) /\ (T = "DATA" => w[i].n = d[i + 1])
             ELSE d[i + 1] = d[i]
  BY DEF Ledger
<1>2. n \in Nat /\ Worth(f) \in Nat /\ u \in Nat /\ t <= u
  BY DEF Worth, Frames
<1> DEFINE c == [i \in 1..n + 2 |-> IF i <= n + 1 THEN d[i] ELSE u]
<1> HIDE DEF n, u
<1>3. Len(v) + 1 = n + 2
  BY <1>2 DEF n
<1>4. c \in [1..n + 2 -> 0..u]
  BY <1>1, <1>2
<1>5. c[1] = b /\ c[n + 2] = u
  BY <1>1, <1>2
<1>6. \A i, j \in 1..n + 2 : i <= j => c[i] <= c[j]
  BY <1>1, <1>2
<1>7. ASSUME NEW i \in 1..n + 1
      PROVE  IF v[i].type = T
             THEN c[i + 1] = c[i] + Worth(v[i]) /\ (T = "DATA" => v[i].n = c[i + 1])
             ELSE c[i + 1] = c[i]
  <2>1. CASE i \in 1..n
    <3>1. c[i] = d[i] /\ c[i + 1] = d[i + 1] /\ v[i] = w[i]
      BY <1>2, <2>1 DEF n
    <3> QED
      BY <1>1, <2>1, <3>1, Zenon
  <2>2. CASE i = n + 1
    <3>1. c[i] = t /\ c[i + 1] = u /\ v[i] = f
      BY <1>1, <1>2, <2>2 DEF n
    <3> QED
      BY <1>2, <3>1, Zenon DEF u, Worth
  <2> QED
    BY <1>2, <2>1, <2>2
<1> HIDE DEF c
<1>8. Ledger(v, T, b, u)
  <2>1. Len(v) = n + 1
    BY DEF n
  <2>2. /\ c \in [1..Len(v) + 1 -> 0..u] /\ c[1] = b /\ c[Len(v) + 1] = u
        /\ \A i, j \in 1..Len(v) + 1 : i <= j => c[i] <= c[j]
    BY <1>3, <1>4, <1>5, <1>6, Zenon
  <2>3. \A i \in 1..Len(v) :
          IF v[i].type = T
          THEN c[i + 1] = c[i] + Worth(v[i]) /\ (T = "DATA" => v[i].n = c[i + 1])
          ELSE c[i + 1] = c[i]
    BY <1>7, <2>1, Zenon
  <2> QED
    BY <2>2, <2>3, Zenon DEF Ledger
<1> QED
  BY <1>8 DEF u

\* The first frame is taken off.
LEMMA LedgerShifted ==
  ASSUME NEW w \in Seq(Frames), NEW v \in Seq(Frames), NEW T,
         NEW b \in Nat, NEW t \in Nat, Ledger(w, T, b, t),
         Len(w) = Len(v) + 1, \A i \in 1..Len(v) : v[i] = w[i + 1]
  PROVE  \E a \in Nat :
           /\ Ledger(v, T, a, t) /\ b <= a /\ a <= t
           /\ w[1].type = T => a = b + Worth(w[1]) /\ (T = "DATA" => w[1].n = a)
           /\ w[1].type # T => a = b
<1> DEFINE n == Len(v)
<1>1. PICK d \in [1..n + 2 -> 0..t] :
        /\ d[1] = b /\ d[n + 2] = t
        /\ \A i, j \in 1..n + 2 : i <= j => d[i] <= d[j]
        /\ \A i \in 1..n + 1 :
             IF w[i].type = T
             THEN d[i + 1] = d[i] + Worth(w[i]) /\ (T = "DATA" => w[i].n = d[i + 1])
             ELSE d[i + 1] = d[i]
  <2>1. Len(w) + 1 = n + 2 /\ Len(w) = n + 1
    OBVIOUS
  <2> QED
    BY <2>1, Zenon DEF Ledger
<1>2. n \in Nat
  OBVIOUS
<1> DEFINE c == [i \in 1..n + 1 |-> d[i + 1]]
<1> HIDE DEF n
<1>3. c \in [1..n + 1 -> 0..t]
  BY <1>1, <1>2
<1>4. c[1] = d[2] /\ c[n + 1] = t /\ d[2] \in Nat /\ b <= d[2] /\ d[2] <= t
  BY <1>1, <1>2
<1>5. \A i, j \in 1..n + 1 : i <= j => c[i] <= c[j]
  BY <1>1, <1>2
<1>6. ASSUME NEW i \in 1..n
      PROVE  IF v[i].type = T
             THEN c[i + 1] = c[i] + Worth(v[i]) /\ (T = "DATA" => v[i].n = c[i + 1])
             ELSE c[i + 1] = c[i]
  <2>1. c[i] = d[i + 1] /\ c[i + 1] = d[(i + 1) + 1] /\ v[i] = w[i + 1] /\ i + 1 \in 1..n + 1
    BY <1>2 DEF n
  <2> QED
    BY <1>1, <2>1, Zenon
<1>7. /\ w[1].type = T => d[2] = b + Worth(w[1]) /\ (T = "DATA" => w[1].n = d[2])
      /\ w[1].type # T => d[2] = b
  BY <1>1, <1>2
<1> HIDE DEF c
<1>8. Ledger(v, T, d[2], t)
  BY <1>3, <1>4, <1>5, <1>6, Zenon DEF Ledger, n
<1> QED
  BY <1>4, <1>7, <1>8

\* A prefix is left.
LEMMA LedgerKept ==
  ASSUME NEW w \in Seq(Frames), NEW v \in Seq(Frames), NEW T,
         NEW b \in Nat, NEW t \in Nat, Ledger(w, T, b, t),
         Len(v) <= Len(w), \A i \in 1..Len(v) : v[i] = w[i]
  PROVE  \E u \in Nat : b <= u /\ u <= t /\ Ledger(v, T, b, u)
<1> DEFINE n == Len(v)
<1>1. PICK d \in [1..Len(w) + 1 -> 0..t] :
        /\ d[1] = b /\ d[Len(w) + 1] = t
        /\ \A i, j \in 1..Len(w) + 1 : i <= j => d[i] <= d[j]
        /\ \A i \in 1..Len(w) :
             IF w[i].type = T
             THEN d[i + 1] = d[i] + Worth(w[i]) /\ (T = "DATA" => w[i].n = d[i + 1])
             ELSE d[i + 1] = d[i]
  BY Zenon DEF Ledger
<1>2. n \in Nat /\ Len(w) \in Nat /\ n <= Len(w)
  OBVIOUS
<1> DEFINE c == [i \in 1..n + 1 |-> d[i]]
           u == d[n + 1]
<1> HIDE DEF n
<1>3. u \in Nat /\ b <= u /\ u <= t
  <2>1. 1 \in 1..Len(w) + 1 /\ n + 1 \in 1..Len(w) + 1 /\ 1 <= n + 1
    BY <1>2
  <2> QED
    BY <1>1, <2>1
<1>4. c \in [1..n + 1 -> 0..u]
  BY <1>1, <1>2
<1>5. c[1] = b /\ c[n + 1] = u
  BY <1>1, <1>2
<1>6. \A i, j \in 1..n + 1 : i <= j => c[i] <= c[j]
  BY <1>1, <1>2
<1>7. ASSUME NEW i \in 1..n
      PROVE  IF v[i].type = T
             THEN c[i + 1] = c[i] + Worth(v[i]) /\ (T = "DATA" => v[i].n = c[i + 1])
             ELSE c[i + 1] = c[i]
  <2>1. c[i] = d[i] /\ c[i + 1] = d[i + 1] /\ v[i] = w[i] /\ i \in 1..Len(w)
    BY <1>2 DEF n
  <2> QED
    BY <1>1, <2>1, Zenon
<1> HIDE DEF c, u
<1>8. Ledger(v, T, b, u)
  BY <1>4, <1>5, <1>6, <1>7, Zenon DEF Ledger, n
<1> QED
  BY <1>3, <1>8

\* The ledger of a queue under each of the ways it changes.
LEMMA LedgerMoves ==
  ASSUME Types, Types', NEW p \in Ends, NEW T, NEW b \in Nat, NEW t \in Nat,
         Ledger(wire[p], T, b, t)
  PROVE  /\ b <= t
         /\ Shifted(p) /\ wire[p][1].type # T => Ledger(wire'[p], T, b, t)
         /\ Kept(p) => \E u \in Nat : b <= u /\ u <= t /\ Ledger(wire'[p], T, b, u)
         /\ \A f \in Frames : Longer(p, f) /\ f.type # T => Ledger(wire'[p], T, b, t)
         /\ Longer(p, Wire("DATA", t + 1)) /\ T = "DATA" => Ledger(wire'[p], T, b, t + 1)
         /\ \A k \in Nat : Longer(p, Wire("WINDOW", k)) /\ T = "WINDOW" =>
                             Ledger(wire'[p], T, b, t + k)
<1> DEFINE w == wire[p]
           v == wire'[p]
<1>1. w \in Seq(Frames) /\ v \in Seq(Frames) /\ Ledger(w, T, b, t)
  BY DEF Types
<1>2. b <= t
  <2>1. Len(w) \in Nat /\ 1 \in 1..Len(w) + 1 /\ Len(w) + 1 \in 1..Len(w) + 1 /\ 1 <= Len(w) + 1
    BY <1>1
  <2> HIDE DEF w
  <2> QED
    BY <1>1, <2>1, Zenon DEF Ledger
<1>3. ASSUME Shifted(p), w[1].type # T
      PROVE  Ledger(v, T, b, t)
  <2>1. Len(w) = Len(v) + 1 /\ \A i \in 1..Len(v) : v[i] = w[i + 1]
    BY <1>3 DEF Shifted
  <2> HIDE DEF w, v
  <2>2. PICK a \in Nat : Ledger(v, T, a, t) /\ (w[1].type # T => a = b)
    BY <1>1, <2>1, LedgerShifted
  <2> QED
    BY <1>3, <2>2, Zenon DEF w
<1>4. ASSUME Kept(p)
      PROVE  \E u \in Nat : b <= u /\ u <= t /\ Ledger(v, T, b, u)
  <2>1. Len(v) <= Len(w) /\ \A i \in 1..Len(v) : v[i] = w[i]
    BY <1>4, Zenon DEF Kept
  <2> HIDE DEF w, v
  <2> QED
    BY <1>1, <2>1, LedgerKept, Zenon
<1>5. ASSUME NEW f \in Frames, Longer(p, f), f.type = T /\ T = "DATA" => f.n = t + 1
      PROVE  Ledger(v, T, b, IF f.type = T THEN t + Worth(f) ELSE t)
  <2>1. Len(v) = Len(w) + 1 /\ v[Len(w) + 1] = f /\ \A i \in 1..Len(w) : v[i] = w[i]
    BY <1>5, Zenon DEF Longer
  <2> HIDE DEF w, v
  <2> QED
    BY <1>1, <1>5, <2>1, LedgerLonger, Zenon
<1> HIDE DEF w, v
<1>6. ASSUME NEW f \in Frames, Longer(p, f), f.type # T
      PROVE  Ledger(v, T, b, t)
  BY <1>5, <1>6, Zenon
<1>7. ASSUME Longer(p, Wire("DATA", t + 1)), T = "DATA"
      PROVE  Ledger(v, T, b, t + 1)
  <2> DEFINE f == Wire("DATA", t + 1)
  <2>1. f \in Frames /\ f.type = T /\ f.n = t + 1 /\ Worth(f) = 1
    BY <1>7 DEF Wire, Frames, FrameTypes, Worth
  <2> QED
    BY <1>5, <1>7, <2>1, Zenon
<1>8. ASSUME NEW k \in Nat, Longer(p, Wire("WINDOW", k)), T = "WINDOW"
      PROVE  Ledger(v, T, b, t + k)
  <2> DEFINE f == Wire("WINDOW", k)
  <2>1. f \in Frames /\ f.type = T /\ T # "DATA" /\ Worth(f) = k
    BY <1>8 DEF Wire, Frames, FrameTypes, Worth
  <2> QED
    BY <1>5, <1>8, <2>1, Zenon
<1> QED
  BY <1>2, <1>3, <1>4, <1>6, <1>7, <1>8, Zenon DEF w, v

\* ... and when a frame that it counts is taken off.
LEMMA LedgerHead ==
  ASSUME Types, Types', NEW p \in Ends, NEW T, NEW b \in Nat, NEW t \in Nat,
         Ledger(wire[p], T, b, t), Shifted(p), wire[p][1].type = T
  PROVE  \E a \in Nat : Ledger(wire'[p], T, a, t) /\ a <= t /\ a = b + Worth(wire[p][1])
<1> DEFINE w == wire[p]
           v == wire'[p]
<1>1. w \in Seq(Frames) /\ v \in Seq(Frames) /\ Ledger(w, T, b, t) /\ w[1].type = T
  BY DEF Types
<1>2. Len(w) = Len(v) + 1 /\ \A i \in 1..Len(v) : v[i] = w[i + 1]
  BY DEF Shifted
<1> HIDE DEF w, v
<1>3. PICK a \in Nat : Ledger(v, T, a, t) /\ a <= t /\ (w[1].type = T => a = b + Worth(w[1]))
  BY <1>1, <1>2, LedgerShifted
<1> QED
  BY <1>1, <1>3, Zenon DEF w, v

\* The queues of the first state hold no DATA and no WINDOW frame.
LEMMA NoneOfThem ==
  \A T \in {"DATA", "WINDOW"} :
     Ledger(<<>>, T, 0, 0) /\ Ledger(<<Wire("NEW", Window)>>, T, 0, 0)
<1> SUFFICES ASSUME NEW T \in {"DATA", "WINDOW"}
             PROVE  Ledger(<<>>, T, 0, 0) /\ Ledger(<<Wire("NEW", Window)>>, T, 0, 0)
  OBVIOUS
<1>1. Ledger(<<>>, T, 0, 0)
  <2> DEFINE d == [i \in 1..1 |-> 0]
  <2>1. d \in [1..Len(<<>>) + 1 -> 0..0] /\ d[1] = 0 /\ d[Len(<<>>) + 1] = 0
    OBVIOUS
  <2>2. \A i, j \in 1..Len(<<>>) + 1 : i <= j => d[i] <= d[j]
    OBVIOUS
  <2>3. \A i \in 1..Len(<<>>) : FALSE
    OBVIOUS
  <2> HIDE DEF d
  <2> QED
    BY <2>1, <2>2, <2>3, Zenon DEF Ledger
<1>2. Ledger(<<Wire("NEW", Window)>>, T, 0, 0)
  <2> DEFINE d == [i \in 1..2 |-> 0]
             w == <<Wire("NEW", Window)>>
  <2>1. d \in [1..Len(w) + 1 -> 0..0] /\ d[1] = 0 /\ d[Len(w) + 1] = 0
    OBVIOUS
  <2>2. \A i, j \in 1..Len(w) + 1 : i <= j => d[i] <= d[j]
    OBVIOUS
  <2>3. \A i \in 1..Len(w) : w[i].type # T /\ d[i + 1] = d[i]
    BY DEF Wire
  <2> HIDE DEF d, w
  <2>4. Ledger(w, T, 0, 0)
    BY <2>1, <2>2, <2>3, Zenon DEF Ledger
  <2> QED
    BY <2>4 DEF w
<1> QED
  BY <1>1, <1>2

\* What the frame was that a step has taken off the queue.
LEMMA HeadTypes ==
  ASSUME Types, NEW x \in Ends
  PROVE  LET head == wire[Peer(x)][1].type IN
         /\ OnAck(x) => head = "ACK"
         /\ OnData(x) => head = "DATA"
         /\ OnWindow(x) => head = "WINDOW"
         /\ OnClose(x) => head = "CLOSE"
         /\ OnReset(x) => head = "RESET"
         /\ x = "server" /\ (OnNew \/ OnNewRefused) => head = "NEW"
<1>1. x = "server" /\ (OnNew \/ OnNewRefused) => wire[Peer(x)][1].type = "NEW"
  BY NewAnswered, PeerFacts, Zenon DEF Answered
<1> QED
  BY <1>1, PopFacts, Zenon DEF OnAck, OnData, OnWindow, OnClose, OnReset, Took

-------------------------------------------------------------------------------
(* Delivery. *)

\* Only UpEnqueue counts a payload as sent.
LEMMA SentMoves ==
  ASSUME Types, Next, NEW x \in Ends
  PROVE  IF UpEnqueue(x) /\ ~link_closed[x] THEN sent'[x] = sent[x] + 1 ELSE sent'[x] = sent[x]
<1>1. ASSUME NEW e \in Ends, UpEnqueue(e)
      PROVE  IF x = e /\ ~link_closed[x] THEN sent'[x] = sent[x] + 1 ELSE sent'[x] = sent[x]
  BY <1>1 DEF UpEnqueue, Types
<1>2. UNCHANGED sent \/ \E e \in Ends : UpEnqueue(e)
  BY Actions, Zenon DEF OnNew, OnNewRefused, Connected, ConnectFailed, UpData, UpEof, UpWake,
     UpSendClose, DownReceive, DownClosed, DownWindow, DownWrote, DownFailed, Close, CloseSend,
     OnAck, OnData, OnWindow, OnClose, OnPeerClose, OnReset, FailLink, copy
<1>3. CASE UpEnqueue(x)
  BY <1>1, <1>3
<1>4. CASE ~UpEnqueue(x)
  BY <1>1, <1>2, <1>4, Zenon
<1> QED
  BY <1>3, <1>4

\* The ways a payload moves through inbox_.
Received(x) ==
  /\ inbox[x] # <<>>
  /\ Len(inbox[x]) = Len(inbox'[x]) + 1
  /\ \A i \in 1..Len(inbox'[x]) : inbox'[x][i] = inbox[x][i + 1]
  /\ Len(out'[x]) = Len(out[x]) + 1 /\ out'[x][Len(out[x]) + 1] = inbox[x][1]
  /\ \A i \in 1..Len(out[x]) : out'[x][i] = out[x][i]
Boxed(x) ==
  /\ out'[x] = out[x]
  /\ Len(inbox'[x]) = Len(inbox[x]) + 1
  /\ inbox'[x][Len(inbox[x]) + 1] = wire[Peer(x)][1].n
  /\ \A i \in 1..Len(inbox[x]) : inbox'[x][i] = inbox[x][i]

\* Every step moves at most one payload, and OnData takes each that it may.
LEMMA BoxMoves ==
  ASSUME Types, Types', Next, NEW x \in Ends
  PROVE  \/ /\ out'[x] = out[x] /\ inbox'[x] = inbox[x]
            /\ OnData(x) => ~(registered[x] /\ inbox_open[x])
         \/ Received(x) /\ DownReceive(x) /\ ~OnData(x)
         \/ Boxed(x) /\ OnData(x) /\ registered[x] /\ inbox_open[x]
<1>1. ASSUME DownReceive(x) PROVE Received(x) /\ ~OnData(x)
  <2>1. /\ inbox[x] # <<>> /\ inbox[x] \in Seq(Nat) /\ out[x] \in Seq(Nat)
        /\ inbox'[x] = Tail(inbox[x]) /\ out'[x] = Append(out[x], Head(inbox[x]))
    BY <1>1 DEF DownReceive, Types
  <2>2. /\ Head(inbox[x]) \in Nat /\ Len(Tail(inbox[x])) = Len(inbox[x]) - 1
        /\ \A i \in 1..Len(Tail(inbox[x])) : Tail(inbox[x])[i] = inbox[x][i + 1]
    BY <2>1, FirstTaken
  <2>3. /\ Len(out'[x]) = Len(out[x]) + 1 /\ out'[x][Len(out[x]) + 1] = Head(inbox[x])
        /\ \A i \in 1..Len(out[x]) : out'[x][i] = out[x][i]
    BY <2>1, <2>2, Appended
  <2>4. Head(inbox[x]) = inbox[x][1] /\ Len(inbox[x]) = Len(Tail(inbox[x])) + 1
    BY <2>1, <2>2
  <2>5. Received(x)
    BY <2>1, <2>2, <2>3, <2>4, Zenon DEF Received
  <2>6. OnData(x) => out'[x] = out[x]
    BY Zenon DEF OnData, copy
  <2>7. Len(out[x]) \in Nat
    BY <2>1
  <2> QED
    BY <2>3, <2>5, <2>6, <2>7
<1>2. ASSUME OnData(x), registered[x], inbox_open[x] PROVE Boxed(x)
  <2>1. /\ inbox' = [inbox EXCEPT ![x] = Append(@, Head(wire[Peer(x)]).n)] /\ out' = out
        /\ Took(x, "DATA")
    BY <1>2, PopFacts, Zenon DEF OnData, Queued, copy
  <2>2. Head(wire[Peer(x)]) = wire[Peer(x)][1] /\ wire[Peer(x)][1].n \in Nat
    BY <2>1 DEF Took, Frames
  <2>3. inbox[x] \in Seq(Nat) /\ inbox'[x] = Append(inbox[x], wire[Peer(x)][1].n)
    BY <2>1, <2>2 DEF Types
  <2> QED
    BY <2>1, <2>2, <2>3, Appended DEF Boxed
<1>3. ASSUME OnData(x), ~(registered[x] /\ inbox_open[x])
      PROVE  out'[x] = out[x] /\ inbox'[x] = inbox[x]
  BY <1>3, Zenon DEF OnData, copy
<1>4. ASSUME NEW e \in Ends, e # x, DownReceive(e)
      PROVE  out'[x] = out[x] /\ inbox'[x] = inbox[x]
  BY <1>4 DEF DownReceive, Types
<1>5. ASSUME NEW e \in Ends, e # x, OnData(e)
      PROVE  out'[x] = out[x] /\ inbox'[x] = inbox[x]
  <2>1. out' = out /\ (inbox' = inbox \/ Queued(e, Head(wire[Peer(e)]).n))
    BY <1>5, Zenon DEF OnData, copy
  <2> QED
    BY <1>5, <2>1, Zenon DEF Queued, Types
<1>6. UNCHANGED <<out, inbox>> \/ \E e \in Ends : DownReceive(e) \/ OnData(e)
  BY Actions, Zenon DEF OnNew, OnNewRefused, Connected, ConnectFailed, UpData, UpEof, UpWake,
     UpEnqueue, UpSendClose, DownClosed, DownWindow, DownWrote, DownFailed, Close, CloseSend,
     OnAck, OnWindow, OnClose, OnPeerClose, OnReset, FailLink, copy, box
<1>7. CASE OnData(x)
  BY <1>2, <1>3, <1>7, Zenon
<1>8. CASE ~OnData(x)
  BY <1>1, <1>4, <1>5, <1>6, <1>8, Zenon
<1> QED
  BY <1>7, <1>8

\* Once an end does not take payloads any more it never does again.
LEMMA TakesBefore ==
  ASSUME Types, Types', First, Next, NEW x \in Ends, Takes(x)'
  PROVE  Takes(x) /\ ~FailLink(x)
<1>1. ~link_closed[x] /\ ~FailLink(x)
  <2>1. FailLink(x) => link_closed'[x]
    BY DEF FailLink, Types
  <2> QED
    BY <2>1, OnceClosed DEF Takes
<1>2. inbox_open[x]
  <2>1. ASSUME NEW e \in Ends, Close(e) \/ OnPeerClose(e) \/ Reset(e), inbox_open'[x]
        PROVE  inbox_open[x]
    <3>1. inbox_open' = inbox_open \/ inbox_open' = [inbox_open EXCEPT ![e] = FALSE]
      BY <2>1, Zenon DEF Close, OnPeerClose, InboxCloses, Reset
    <3> QED
      BY <2>1, <3>1, Zenon DEF Types
  <2>2. UNCHANGED inbox_open \/ \E e \in Ends : Close(e) \/ OnPeerClose(e) \/ Reset(e)
    BY Actions, Zenon DEF OnNew, OnNewRefused, Connected, ConnectFailed, UpData, UpEof, UpWake,
       UpEnqueue, UpSendClose, DownReceive, DownClosed, DownWindow, DownWrote, DownFailed,
       CloseSend, OnAck, OnData, OnWindow, OnClose, OnReset, FailLink, box
  <2> QED
    BY <2>1, <2>2, Zenon DEF Takes
<1>3. registered[x] \/ (x = "server" /\ up[x] = "none")
  <2>1. Close(x) \/ OnPeerClose(x) => registered[x] \/ ~registered'[x]
    BY DEF Close, OnPeerClose, Types
  <2>2. x = "server" /\ OnNew => up[x] = "none"
    BY NewComesFirst
  <2>3. registered'[x] => registered[x] \/ (x = "server" /\ up[x] = "none")
    BY <2>1, <2>2, StateMoves, Zenon
  <2> QED
    BY <2>3, UpStays DEF Takes
<1> QED
  BY <1>1, <1>2, <1>3 DEF Takes

\* The DATA frame at the head is the payload after those e has.
LEMMA NextPayload ==
  ASSUME Types, NEW x \in Ends, OnItsWay(x), OnData(x), registered[x], inbox_open[x]
  PROVE  \E t \in 0..sent[Peer(x)] :
           /\ wire[Peer(x)][1].n = Base(x) + 1 /\ Base(x) + 1 <= t
           /\ Ledger(wire'[Peer(x)], "DATA", Base(x) + 1, t)
           /\ link_closed[Peer(x)] \/ t = sent[Peer(x)]
<1> DEFINE p == Peer(x)
<1>1. Took(x, "DATA") /\ Takes(x)
  BY PopFacts, Zenon DEF OnData, Arrives, Takes
<1>2. PICK t \in 0..sent[p] : /\ Ledger(wire[p], "DATA", Base(x), t)
                              /\ link_closed[p] \/ t = sent[p]
  BY <1>1, Zenon DEF OnItsWay
<1>3. p \in Ends /\ wire[p] \in Seq(Frames) /\ Base(x) \in Nat /\ sent[p] \in Nat
  BY PeerFacts DEF Types, Base
<1>4. /\ wire'[p] \in Seq(Frames) /\ Len(wire[p]) = Len(wire'[p]) + 1
      /\ \A i \in 1..Len(wire'[p]) : wire'[p][i] = wire[p][i + 1]
      /\ wire[p][1].type = "DATA"
  BY <1>1, <1>3 DEF Took
<1> HIDE DEF p
<1>5. t \in Nat
  BY <1>2, <1>3
<1>6. PICK a \in Nat :
        /\ Ledger(wire'[p], "DATA", a, t) /\ a <= t
        /\ a = Base(x) + Worth(wire[p][1]) /\ wire[p][1].n = a
  <2> DEFINE w == wire[p]
             v == wire'[p]
  <2>1. /\ w \in Seq(Frames) /\ v \in Seq(Frames) /\ Ledger(w, "DATA", Base(x), t)
        /\ Len(w) = Len(v) + 1 /\ (\A i \in 1..Len(v) : v[i] = w[i + 1]) /\ w[1].type = "DATA"
    BY <1>2, <1>3, <1>4
  <2> SUFFICES \E a \in Nat : /\ Ledger(v, "DATA", a, t) /\ a <= t
                              /\ a = Base(x) + Worth(w[1]) /\ w[1].n = a
    OBVIOUS
  <2> HIDE DEF w, v
  <2> QED
    <3>1. PICK a \in Nat :
            /\ Ledger(v, "DATA", a, t) /\ Base(x) <= a /\ a <= t
            /\ w[1].type = "DATA" => a = Base(x) + Worth(w[1]) /\ ("DATA" = "DATA" => w[1].n = a)
            /\ w[1].type # "DATA" => a = Base(x)
      BY <1>3, <1>5, <2>1, LedgerShifted, SMTT(20)
    <3> QED
      BY <2>1, <3>1
<1>7. a = Base(x) + 1
  BY <1>4, <1>6 DEF Worth
<1> QED
  BY <1>2, <1>6, <1>7 DEF p

\* The positions of a queue that is one frame longer than another.
LEMMA OneMore ==
  \A a, b \in Nat : a = b + 1 => 1 \in 1..a /\ \A i \in 1..b : i + 1 \in 1..a /\ i \in Nat
  OBVIOUS

\* What an end has read and holds continues to be the first payloads of its peer.
LEMMA InOrderStep ==
  ASSUME Types, Types', Next, NEW x \in Ends, InOrder(x), OnItsWay(x)
  PROVE  InOrder(x)'
<1> DEFINE p == Peer(x)
           n == Len(out[x])
           m == Len(inbox[x])
<1>0. /\ p \in Ends /\ sent[p] \in Nat /\ sent'[p] \in Nat /\ n \in Nat /\ m \in Nat
      /\ n' \in Nat /\ m' \in Nat
  BY PeerFacts DEF Types
<1>1. sent[p] <= sent'[p]
  BY <1>0, SentMoves
<1>2. \A i \in 1..n : out[x][i] = i
  BY DEF InOrder
<1>3. \A i \in 1..m : inbox[x][i] = n + i
  BY DEF InOrder
<1>4. n + m <= sent[p]
  BY Zenon DEF InOrder, Base
<1> SUFFICES /\ \A i \in 1..n' : out'[x][i] = i
             /\ \A i \in 1..m' : inbox'[x][i] = n' + i
             /\ n' + m' <= sent'[p]
  BY Zenon DEF InOrder, Base
<1>5. CASE out'[x] = out[x] /\ inbox'[x] = inbox[x]
  <2>1. n' = n /\ m' = m
    BY <1>5
  <2> HIDE DEF n, m, p
  <2>2. n' + m' <= sent'[p]
    BY <1>0, <1>1, <1>4, <2>1
  <2> QED
    BY <1>2, <1>3, <1>5, <2>1, <2>2, Zenon
<1>6. CASE Received(x)
  <2>0. m = m' + 1 /\ n' = n + 1 /\ out'[x][n + 1] = inbox[x][1]
    BY <1>6 DEF Received
  <2>1. /\ \A i \in 1..n : out'[x][i] = out[x][i]
        /\ \A i \in 1..m' : inbox'[x][i] = inbox[x][i + 1]
    BY <1>6 DEF Received
  <2> HIDE DEF n, m, p
  <2>a. m = m' + 1 /\ m \in Nat /\ m' \in Nat
    BY <1>0, <2>0, Zenon
  <2>b. 1 \in 1..m /\ \A i \in 1..m' : i + 1 \in 1..m /\ i \in Nat
    BY <2>a, OneMore, Zenon
  <2>2. ASSUME NEW i \in 1..n' PROVE out'[x][i] = i
    <3>1. CASE i \in 1..n
      BY <1>2, <2>1, <3>1
    <3>2. CASE i = n + 1
      <4>1. inbox[x][1] = n + 1
        BY <1>3, <2>b
      <4> QED
        BY <2>0, <3>2, <4>1
    <3> QED
      BY <1>0, <2>0, <3>1, <3>2
  <2>3. ASSUME NEW i \in 1..m' PROVE inbox'[x][i] = n' + i
    <3>1. i + 1 \in 1..m /\ i \in Nat
      BY <2>b
    <3>2. inbox[x][i + 1] = n + (i + 1)
      BY <1>3, <3>1
    <3>3. n + (i + 1) = n' + i
      BY <1>0, <2>0, <3>1
    <3> QED
      BY <2>1, <3>2, <3>3
  <2>4. n' + m' <= sent'[p]
    BY <1>0, <1>1, <1>4, <2>0
  <2> QED
    BY <2>2, <2>3, <2>4
<1>7. CASE Boxed(x) /\ OnData(x) /\ registered[x] /\ inbox_open[x]
  <2>1. wire[p][1].n = (n + m) + 1 /\ (n + m) + 1 <= sent[p]
    <3>1. PICK t \in 0..sent[p] : wire[p][1].n = Base(x) + 1 /\ Base(x) + 1 <= t
      BY <1>7, NextPayload, Zenon
    <3>2. Base(x) = n + m
      BY DEF Base
    <3> HIDE DEF n, m, p
    <3> QED
      BY <1>0, <3>1, <3>2
  <2>2. /\ out'[x] = out[x] /\ n' = n /\ m' = m + 1
        /\ inbox'[x][m + 1] = wire[p][1].n
        /\ \A i \in 1..m : inbox'[x][i] = inbox[x][i]
    BY <1>7 DEF Boxed
  <2> HIDE DEF n, m, p
  <2>3. ASSUME NEW i \in 1..m' PROVE inbox'[x][i] = n' + i
    <3>1. CASE i \in 1..m
      BY <1>3, <2>2, <3>1
    <3>2. CASE i = m + 1
      BY <1>0, <2>1, <2>2, <3>2
    <3> QED
      BY <1>0, <2>2, <3>1, <3>2
  <2>4. n' + m' <= sent'[p]
    BY <1>0, <1>1, <2>1, <2>2
  <2>5. \A i \in 1..n' : out'[x][i] = i
    BY <1>2, <2>2, Zenon
  <2> QED
    BY <2>3, <2>4, <2>5
<1> QED
  BY <1>5, <1>6, <1>7, BoxMoves, Zenon

\* What is under way continues to follow on what the end has.
LEMMA OnItsWayStep ==
  ASSUME Types, Types', First, Next, NEW x \in Ends, InOrder(x), OnItsWay(x)
  PROVE  OnItsWay(x)'
<1> DEFINE p == Peer(x)
           Way(t) == /\ Ledger(wire'[p], "DATA", Base(x)', t) /\ t <= sent'[p]
                     /\ link_closed'[p] \/ t = sent'[p]
<1> SUFFICES ASSUME Takes(x)' PROVE \E t \in Nat : Way(t)
  <2>1. sent'[p] \in Nat
    BY PeerFacts DEF Types
  <2> QED
    BY <2>1 DEF OnItsWay
<1>0. /\ p \in Ends /\ p # x /\ Peer(p) = x
      /\ sent[p] \in Nat /\ sent'[p] \in Nat /\ unacked[p] \in Nat
      /\ wire[p] \in Seq(Frames) /\ wire'[p] \in Seq(Frames)
  BY PeerFacts DEF Types
<1>b. /\ Base(x) \in Nat /\ Base(x)' \in Nat
      /\ Len(out[x]) + (Len(inbox[x]) + 1) = (Len(out[x]) + Len(inbox[x])) + 1
      /\ inbox[x] # <<>> => (Len(out[x]) + 1) + (Len(inbox[x]) - 1) = Len(out[x]) + Len(inbox[x])
  BY DEF Types, Base
<1>1. Takes(x) /\ ~FailLink(x)
  BY TakesBefore
<1>2. PICK t \in 0..sent[p] : /\ Ledger(wire[p], "DATA", Base(x), t)
                              /\ link_closed[p] \/ t = sent[p]
  BY <1>1, Zenon DEF OnItsWay
<1>3. t \in Nat /\ t <= sent[p] /\ (link_closed[p] => link_closed'[p])
  BY <1>0, <1>2, OnceClosed
<1>4. CASE OnData(x) /\ registered[x] /\ inbox_open[x]
  <2>1. PICK u \in 0..sent[p] : /\ Ledger(wire'[p], "DATA", Base(x) + 1, u)
                                /\ link_closed[p] \/ u = sent[p]
    BY <1>4, NextPayload, Zenon
  <2>2. Boxed(x)
    BY <1>4, BoxMoves, Zenon
  <2>3. Base(x)' = Base(x) + 1
    <3>1. out'[x] = out[x] /\ Len(inbox'[x]) = Len(inbox[x]) + 1
      BY <2>2 DEF Boxed
    <3>3. Base(x)' = Len(out[x]) + (Len(inbox[x]) + 1)
      BY <3>1 DEF Base
    <3>4. Base(x) = Len(out[x]) + Len(inbox[x])
      BY DEF Base
    <3> QED
      BY <1>b, <3>3, <3>4, Zenon
  <2>4. sent'[p] = sent[p]
    <3>1. UNCHANGED sent
      BY <1>4, Zenon DEF OnData, copy
    <3> QED
      BY <3>1
  <2>5. u \in Nat /\ u <= sent[p]
    BY <1>0, <2>1
  <2> QED
    BY <1>3, <2>1, <2>3, <2>4, <2>5, Zenon
<1>5. CASE ~(OnData(x) /\ registered[x] /\ inbox_open[x])
  <2>1. Base(x)' = Base(x)
    <3>1. CASE out'[x] = out[x] /\ inbox'[x] = inbox[x]
      BY <3>1 DEF Base
    <3>2. CASE Received(x)
      BY <3>2, SMTT(20) DEF Received, Base, Types
    <3> QED
      BY <1>5, <3>1, <3>2, BoxMoves
  <2>2. ~OnData(x)
    <3> SUFFICES ASSUME OnData(x) PROVE FALSE
      OBVIOUS
    <3>1. x = "server" /\ up[x] = "none" /\ ~link_closed[x]
      BY <1>1, <1>5, Zenon DEF Takes
    <3>2. p = "client"
      BY <3>1, PeerFacts
    <3>3. wire[p] # <<>> /\ wire[p][1].type = "DATA"
      BY HeadTypes, Zenon DEF OnData, Arrives
    <3> QED
      BY <3>1, <3>2, <3>3, Zenon DEF First
  <2>3. UpEnqueue(p) /\ ~link_closed[p] => Longer(p, Wire("DATA", sent[p] + 1))
    <3>1. sent[p] + 1 \in Nat
      BY <1>0
    <3>2. Wire("DATA", sent[p] + 1) \in Frames
      BY <3>1, WireFrames, Zenon
    <3> QED
      BY <1>0, <3>2, EnqueueFacts, Zenon DEF UpEnqueue, Put, Longer
  <2>4. ASSUME ~(UpEnqueue(p) /\ ~link_closed[p]), Ledger(wire'[p], "DATA", Base(x), t)
        PROVE  Way(t)
    <3>1. sent'[p] = sent[p]
      BY <1>0, <2>4, SentMoves, Zenon
    <3> QED
      BY <1>2, <1>3, <2>1, <2>4, <3>1, Zenon
  <2>5. Len(wire[p]) \in Nat /\ Len(wire'[p]) \in Nat
    BY <1>0
  <2>6. CASE wire'[p] = wire[p]
    <3>1. ~Longer(p, Wire("DATA", sent[p] + 1))
      BY <2>5, <2>6 DEF Longer
    <3> QED
      BY <1>2, <1>3, <2>3, <2>4, <2>6, <3>1, Zenon
  <2>7. CASE /\ Shifted(p)
             /\ \/ OnAck(x) \/ OnData(x) \/ OnWindow(x) \/ OnClose(x) \/ OnReset(x)
                \/ (p = "client" /\ (OnNew \/ OnNewRefused))
    <3>1. ~Longer(p, Wire("DATA", sent[p] + 1))
      BY <2>5, <2>7 DEF Longer, Shifted
    <3>2. p = "client" => x = "server"
      BY <1>0, PeerFacts
    <3>3. wire[p][1].type # "DATA"
      BY <2>2, <2>7, <3>2, HeadTypes
    <3>4. Ledger(wire'[p], "DATA", Base(x), t)
      BY <1>0, <1>b, <1>2, <1>3, <2>7, <3>3, LedgerMoves, Zenon
    <3> QED
      BY <1>3, <2>3, <2>4, <3>1, <3>4, Zenon
  <2>8. CASE Kept(p) /\ FailLink(p)
    <3>1. ~Longer(p, Wire("DATA", sent[p] + 1))
      BY <2>5, <2>8 DEF Longer, Kept
    <3>2. sent'[p] = sent[p]
      BY <1>0, <2>3, <3>1, SentMoves, Zenon
    <3>3. PICK u \in Nat : u <= t /\ Ledger(wire'[p], "DATA", Base(x), u)
      BY <1>0, <1>b, <1>2, <1>3, <2>8, LedgerMoves, Zenon
    <3>4. link_closed'[p]
      BY <1>0, <2>8 DEF FailLink, Types
    <3>5. u <= sent'[p]
      BY <1>0, <1>3, <3>2, <3>3
    <3> QED
      BY <2>1, <3>3, <3>4, <3>5, Zenon
  <2>9. CASE Longer(p, Wire("DATA", sent[p] + 1)) /\ UpEnqueue(p) /\ ~link_closed[p]
    <3>1. sent'[p] = sent[p] + 1 /\ t = sent[p]
      BY <1>0, <1>2, <2>9, SentMoves, Zenon
    <3>2. Ledger(wire'[p], "DATA", Base(x), t + 1)
      BY <1>0, <1>b, <1>2, <1>3, <2>9, <3>1, LedgerMoves, Zenon
    <3>3. t + 1 \in Nat /\ t + 1 <= sent'[p] /\ t + 1 = sent'[p]
      BY <1>0, <1>3, <3>1
    <3> QED
      BY <2>1, <3>2, <3>3, Zenon
  <2>10. ASSUME NEW f \in Frames, Longer(p, f), f.type # "DATA"
         PROVE  Way(t)
    <3>1. f # Wire("DATA", sent[p] + 1)
      BY <2>10 DEF Wire
    <3>2. ~Longer(p, Wire("DATA", sent[p] + 1))
      BY <2>10, <3>1, Zenon DEF Longer
    <3>3. Ledger(wire'[p], "DATA", Base(x), t)
      BY <1>0, <1>b, <1>2, <1>3, <2>10, LedgerMoves, Zenon
    <3> QED
      BY <2>3, <2>4, <3>2, <3>3, Zenon
  <2>11. /\ Wire("WINDOW", unacked[p]) \in Frames /\ Wire("WINDOW", unacked[p]).type # "DATA"
         /\ \A y \in {"ACK", "RESET", "CLOSE"} : Wire(y, 0) \in Frames /\ Wire(y, 0).type # "DATA"
    BY <1>0 DEF Wire, Frames, FrameTypes
  <2> QED
    BY <1>0, <1>1, <1>3, <2>6, <2>7, <2>8, <2>9, <2>10, <2>11, WireMoves, Zenon DEF WireMove
<1> QED
  BY <1>4, <1>5

\* Nothing is under way and nothing was sent.
LEMMA DeliveryInit == Init => Delivery
<1> SUFFICES ASSUME Init, NEW e \in Ends PROVE InOrder(e) /\ OnItsWay(e)
  BY DEF Delivery
<1>1. /\ out[e] = <<>> /\ inbox[e] = <<>> /\ sent[Peer(e)] = 0
      /\ wire[Peer(e)] \in {<<>>, <<Wire("NEW", Window)>>}
  BY PeerFacts DEF Init, All, Each, Ends
<1>2. Base(e) = 0
  BY <1>1 DEF Base
<1>3. InOrder(e)
  BY <1>1, <1>2 DEF InOrder
<1>4. Ledger(wire[Peer(e)], "DATA", 0, 0)
  BY <1>1, NoneOfThem, Zenon
<1>5. 0 \in 0..0
  OBVIOUS
<1> QED
  BY <1>1, <1>2, <1>3, <1>4, <1>5, Zenon DEF OnItsWay

\* Every step keeps what was read, held and sent in order.
LEMMA DeliveryStep ==
  ASSUME Types, Types', First, Next, Delivery
  PROVE  Delivery'
  BY InOrderStep, OnItsWayStep, Zenon DEF Delivery

-------------------------------------------------------------------------------
(* Credits. *)

\* What e holds of credit, or has spent.
Spent(e) == credit[e] + Framed(e) + sent[e]

\* Credit is spent payload by payload, and comes with NEW and with WINDOW only.
LEMMA SpentMoves ==
  ASSUME Types, Types', First, Next, NEW x \in Ends, Before(x)
  PROVE  \/ Spent(x)' <= Spent(x)
         \/ x = "server" /\ OnNew /\ Spent(x)' = Window
         \/ OnWindow(x) /\ Spent(x)' = Spent(x) + wire[Peer(x)][1].n
<1>0. /\ credit[x] \in Nat /\ credit'[x] \in Nat /\ sent[x] \in Nat /\ sent'[x] \in Nat
      /\ Framed(x) \in Nat /\ Framed(x)' \in Nat
  BY DEF Types, Framed
<1>1. ASSUME credit'[x] = credit[x], sent'[x] = sent[x], Framed(x)' <= Framed(x)
      PROVE  Spent(x)' <= Spent(x)
  BY <1>0, <1>1 DEF Spent
<1>2. ASSUME NEW e \in Ends, UpData(e) \/ UpEof(e) \/ UpWake(e)
      PROVE  Spent(x)' <= Spent(x)
  <2>1. /\ up[e] \in {"read", "wait"} /\ sent'[x] = sent[x]
        /\ ShutdownWrite(e) \/ TakeCredit(e)
    BY <1>2, Zenon DEF UpData, UpEof, UpWake
  <2>2. \/ credit'[x] = credit[x] /\ (up'[x] = up[x] \/ up'[x] # "enqueue")
        \/ credit'[x] = credit[x] - 1 /\ up'[x] = "enqueue" /\ x = e
    BY <2>1, PartMoves
  <2>3. CASE credit'[x] = credit[x] /\ (up'[x] = up[x] \/ up'[x] # "enqueue")
    <3>1. Framed(x)' <= Framed(x)
      BY <1>0, <2>3 DEF Framed
    <3> QED
      BY <1>1, <2>1, <2>3, <3>1
  <2>4. CASE credit'[x] = credit[x] - 1 /\ up'[x] = "enqueue" /\ x = e
    <3>1. Framed(x) = 0 /\ Framed(x)' = 1
      BY <2>1, <2>4 DEF Framed
    <3> QED
      BY <1>0, <2>1, <2>4, <3>1 DEF Spent
  <2> QED
    BY <2>2, <2>3, <2>4
<1>3. ASSUME NEW e \in Ends, UpEnqueue(e)
      PROVE  Spent(x)' <= Spent(x)
  <2>1. credit'[x] = credit[x]
    BY <1>3 DEF UpEnqueue, flow
  <2>2. CASE x = e
    <3>1. sent'[x] = sent[x] \/ sent'[x] = sent[x] + 1
      BY <1>3, <2>2 DEF UpEnqueue, Types
    <3>2. Framed(x) = 1 /\ Framed(x)' = 0
      BY <1>3, <2>2 DEF UpEnqueue, Framed, Types
    <3> QED
      BY <1>0, <2>1, <3>1, <3>2 DEF Spent
  <2>3. CASE x # e
    <3>1. sent'[x] = sent[x] /\ up'[x] = up[x]
      BY <1>3, <2>3 DEF UpEnqueue, Types
    <3>2. Framed(x)' <= Framed(x)
      BY <1>0, <3>1, SMTT(20) DEF Framed
    <3> QED
      BY <1>1, <2>1, <3>1, <3>2
  <2> QED
    BY <2>2, <2>3
<1>4. ASSUME NEW e \in Ends, OnWindow(e)
      PROVE  \/ Spent(x)' <= Spent(x)
             \/ OnWindow(x) /\ Spent(x)' = Spent(x) + wire[Peer(x)][1].n
  <2>1. sent'[x] = sent[x] /\ up'[x] = up[x]
    BY <1>4, Zenon DEF OnWindow, copy
  <2>2. Framed(x)' = Framed(x)
    BY <2>1 DEF Framed
  <2>3. CASE x = e /\ registered[e]
    <3>1. Took(x, "WINDOW")
      BY <1>4, <2>3, PopFacts, Zenon DEF OnWindow
    <3>2. Head(wire[Peer(x)]) = wire[Peer(x)][1] /\ wire[Peer(x)][1].n \in Nat
      BY <3>1 DEF Took, Frames
    <3>3. credit'[x] = credit[x] + Head(wire[Peer(x)]).n
      BY <1>4, <2>3 DEF OnWindow, Types
    <3> DEFINE k == wire[Peer(x)][1].n
    <3>4. credit'[x] = credit[x] + k /\ k \in Nat
      BY <3>2, <3>3
    <3> HIDE DEF k
    <3>5. Spent(x)' = Spent(x) + k
      BY <1>0, <2>1, <2>2, <3>4 DEF Spent
    <3> QED
      BY <1>4, <2>3, <3>5 DEF k
  <2>4. CASE x # e \/ ~registered[e]
    <3>1. credit'[x] = credit[x]
      BY <1>4, <2>4 DEF OnWindow, Types
    <3> QED
      BY <1>0, <1>1, <2>1, <2>2, <3>1
  <2> QED
    BY <2>3, <2>4
<1>5. ASSUME OnNew
      PROVE  \/ Spent(x)' <= Spent(x)
             \/ x = "server" /\ Spent(x)' = Window
  <2>1. sent'[x] = sent[x]
    BY <1>5, Zenon DEF OnNew
  <2>2. CASE x = "server"
    <3>1. up[x] = "none" /\ Head(wire["client"]).n = Window
      BY <1>5, <2>2, NewComesFirst
    <3>2. sent[x] = 0
      BY <3>1 DEF Before
    <3>3. credit'[x] = Window /\ up'[x] = "connect"
      BY <1>5, <2>2, <3>1 DEF OnNew, Types
    <3>4. Framed(x)' = 0
      BY <3>3 DEF Framed
    <3> QED
      BY <1>0, <2>1, <2>2, <3>2, <3>3, <3>4 DEF Spent
  <2>3. CASE x # "server"
    <3>1. credit'[x] = credit[x] /\ up'[x] = up[x]
      BY <1>5, <2>3, SMTT(20) DEF OnNew, Types
    <3>2. Framed(x)' <= Framed(x)
      BY <1>0, <3>1 DEF Framed
    <3> QED
      BY <1>1, <2>1, <3>1, <3>2
  <2> QED
    BY <2>2, <2>3
<1>6. ASSUME OnNewRefused \/ Connected \/ ConnectFailed \/ \E e \in Ends : UpSendClose(e)
      PROVE  Spent(x)' <= Spent(x)
  <2>1. credit'[x] = credit[x] /\ sent'[x] = sent[x]
    BY <1>6, Zenon DEF OnNewRefused, Connected, ConnectFailed, UpSendClose, flow
  <2>2. up'[x] = up[x] \/ up'[x] # "enqueue"
    BY <1>6, Zenon DEF OnNewRefused, Connected, ConnectFailed, UpSendClose, Types, Ends
  <2>3. Framed(x)' <= Framed(x)
    BY <1>0, <2>2 DEF Framed
  <2> QED
    BY <1>1, <2>1, <2>3
<1>7. ASSUME UNCHANGED <<credit, sent, up>>
      PROVE  Spent(x)' <= Spent(x)
  BY <1>0, <1>7 DEF Spent, Framed
<1>8. \/ UNCHANGED <<credit, sent, up>>
      \/ OnNew \/ OnNewRefused \/ Connected \/ ConnectFailed
      \/ \E e \in Ends : \/ UpData(e) \/ UpEof(e) \/ UpWake(e) \/ UpEnqueue(e) \/ UpSendClose(e)
                         \/ OnWindow(e)
  BY Actions, Zenon DEF DownReceive, DownClosed, DownWindow, DownWrote, DownFailed, Close,
     CloseSend, OnAck, OnData, OnClose, OnPeerClose, OnReset, FailLink, copy, flow
<1> QED
  BY <1>2, <1>3, <1>4, <1>5, <1>6, <1>7, <1>8, Zenon

\* What was read and not yet acknowledged grows with what was read.
LEMMA ReadMoves ==
  ASSUME Types, Types', Next, NEW p \in Ends
  PROVE  \/ unacked'[p] = unacked[p] /\ Len(out'[p]) = Len(out[p])
         \/ unacked'[p] = unacked[p] + 1 /\ Len(out'[p]) = Len(out[p]) + 1
         \/ unacked'[p] = 0 /\ Len(out'[p]) = Len(out[p])
<1>1. ASSUME DownReceive(p)
      PROVE  unacked'[p] = unacked[p] + 1 /\ Len(out'[p]) = Len(out[p]) + 1
  <2>1. unacked'[p] = unacked[p] + 1
    BY <1>1 DEF DownReceive, Types
  <2>2. out'[p] = Append(out[p], Head(inbox[p])) /\ out[p] \in Seq(Nat) /\ inbox[p] # <<>>
        /\ inbox[p] \in Seq(Nat)
    BY <1>1 DEF DownReceive, Types
  <2>3. Head(inbox[p]) \in Nat
    BY <2>2, FirstTaken
  <2> QED
    BY <2>1, <2>2, <2>3, Appended
<1>2. ASSUME NEW e \in Ends, DownWindow(e)
      PROVE  unacked'[p] \in {unacked[p], 0} /\ out' = out
  BY <1>2 DEF DownWindow, Types
<1>3. ASSUME NEW e \in Ends, e # p, DownReceive(e)
      PROVE  unacked'[p] = unacked[p] /\ out'[p] = out[p]
  BY <1>3 DEF DownReceive, Types
<1>4. UNCHANGED <<unacked, out>> \/ \E e \in Ends : DownReceive(e) \/ DownWindow(e)
  BY Actions, Zenon DEF OnNew, OnNewRefused, Connected, ConnectFailed, UpData, UpEof, UpWake,
     UpEnqueue, UpSendClose, DownClosed, DownWrote, DownFailed, Close, CloseSend, OnAck, OnData,
     OnWindow, OnClose, OnPeerClose, OnReset, FailLink, copy, flow
<1> QED
  BY <1>1, <1>2, <1>3, <1>4

\* The whole window is there and nothing was sent.
LEMMA CreditsInit == Init => Credits
<1> SUFFICES ASSUME Init, NEW e \in Ends PROVE Covered(e)
  BY DEF Credits
<1>1. /\ Len(out[Peer(e)]) = 0 /\ unacked[Peer(e)] = 0
      /\ wire[Peer(e)] \in {<<>>, <<Wire("NEW", Window)>>}
  BY PeerFacts DEF Init, All, Each, Ends
<1>2. credit[e] \in {0, Window} /\ sent[e] = 0 /\ Framed(e) = 0
  BY DEF Init, All, Each, Ends, Framed
<1>3. Ledger(wire[Peer(e)], "WINDOW", 0, 0)
  BY <1>1, NoneOfThem, Zenon
<1>4. 0 \in 0..0 /\ 0 + 0 <= 0
  OBVIOUS
<1>5. credit[e] + Framed(e) + sent[e] <= Window + 0
  <2>1. Window \in Nat
    BY SessionAssumption, Zenon
  <2> QED
    BY <1>2, <2>1
<1> QED
  BY <1>1, <1>3, <1>4, <1>5, Zenon DEF Covered

\* Credit stays covered.
LEMMA CoveredStep ==
  ASSUME Types, Types', First, Next, NEW x \in Ends, Before(x), Covered(x)
  PROVE  Covered(x)'
<1>w. Window \in Nat
  BY SessionAssumption, Zenon
<1>a. Spent(x) \in Nat /\ Spent(x)' \in Nat
  <2>1. /\ credit[x] \in Nat /\ credit'[x] \in Nat /\ sent[x] \in Nat /\ sent'[x] \in Nat
        /\ Framed(x) \in Nat /\ Framed(x)' \in Nat
    BY DEF Types, Framed
  <2> QED
    BY <2>1 DEF Spent
<1> DEFINE p == Peer(x)
           r == Len(out[p])
           Cover(b, t) == /\ Ledger(wire'[p], "WINDOW", b, t) /\ b <= t
                          /\ t + unacked'[p] <= r' /\ Spent(x)' <= Window + b
<1>0. /\ p \in Ends /\ Peer(p) = x
      /\ r \in Nat /\ r' \in Nat /\ unacked[p] \in Nat /\ unacked'[p] \in Nat
      /\ sent[p] \in Nat
  BY PeerFacts DEF Types
<1>s. sent[p] + 1 \in Nat
  BY <1>0
<1> SUFFICES \E b, t \in Nat : Cover(b, t)
  <2> SUFFICES ASSUME NEW b \in Nat, NEW t \in Nat, Cover(b, t) PROVE Covered(x)'
    OBVIOUS
  <2> HIDE DEF p, r
  <2>1. t \in 0..r' /\ b \in 0..t
    BY <1>0
  <2> QED
    BY <2>1, Zenon DEF Covered, Spent, p, r
<1>1. PICK t \in 0..r : \E b \in 0..t :
        /\ Ledger(wire[p], "WINDOW", b, t) /\ t + unacked[p] <= r
        /\ Spent(x) <= Window + b
  BY Zenon DEF Covered, Spent
<1>2. PICK b \in 0..t : /\ Ledger(wire[p], "WINDOW", b, t) /\ t + unacked[p] <= r
                        /\ Spent(x) <= Window + b
  BY <1>1
<1>3. \/ unacked'[p] = unacked[p] /\ r' = r
      \/ unacked'[p] = unacked[p] + 1 /\ r' = r + 1
      \/ unacked'[p] = 0 /\ r' = r
  BY <1>0, ReadMoves, Zenon
<1> HIDE DEF r
<1>4. t \in Nat /\ b \in Nat /\ b <= t /\ t + unacked'[p] <= r'
  <2> HIDE DEF p
  <2> QED
    BY <1>0, <1>1, <1>2, <1>3
<1>5. CASE OnWindow(x)
  <2>1. Shifted(p) /\ wire[p][1].type = "WINDOW" /\ wire[p][1] \in Frames
    BY <1>5, PopFacts, Zenon DEF OnWindow, Took, Shifted
  <2>2. Worth(wire[p][1]) = wire[p][1].n /\ wire[p][1].n \in Nat
    BY <2>1 DEF Worth, Frames
  <2>3. PICK a \in Nat : /\ Ledger(wire'[p], "WINDOW", a, t) /\ a <= t
                         /\ a = b + Worth(wire[p][1])
    BY <1>0, <1>2, <1>4, <2>1, LedgerHead
  <2>4. Spent(x)' <= Spent(x) \/ Spent(x)' = Window \/ Spent(x)' = Spent(x) + wire[p][1].n
    BY SpentMoves, Zenon
  <2> DEFINE k == wire[p][1].n
  <2>5. k \in Nat /\ a = b + k /\ (Spent(x)' <= Spent(x) \/ Spent(x)' = Window \/ Spent(x)' = Spent(x) + k)
    BY <2>2, <2>3, <2>4
  <2> HIDE DEF p, k
  <2>6. Spent(x)' <= Window + a
    BY <1>0, <1>w, <1>a, <1>2, <1>4, <2>5
  <2> QED
    BY <1>4, <2>3, <2>6, Zenon
<1>6. CASE ~OnWindow(x)
  <2>1. Spent(x)' <= Window + b
    <3>1. Spent(x)' <= Spent(x) \/ Spent(x)' = Window
      BY <1>6, SpentMoves, Zenon
    <3> QED
      BY <1>0, <1>w, <1>a, <1>2, <1>4, <3>1
  <2>2. ASSUME Ledger(wire'[p], "WINDOW", b, t)
        PROVE  Cover(b, t)
    BY <1>4, <2>1, <2>2, Zenon
  <2>3. CASE wire'[p] = wire[p]
    BY <1>2, <1>4, <2>2, <2>3, Zenon
  <2>4. CASE /\ Shifted(p)
             /\ \/ OnAck(x) \/ OnData(x) \/ OnWindow(x) \/ OnClose(x) \/ OnReset(x)
                \/ (p = "client" /\ (OnNew \/ OnNewRefused))
    <3>1. p = "client" => x = "server"
      BY <1>0, PeerFacts
    <3>2. wire[p][1].type # "WINDOW"
      BY <1>6, <2>4, <3>1, HeadTypes
    <3>3. Ledger(wire'[p], "WINDOW", b, t)
      BY <1>0, <1>2, <1>4, <2>4, <3>2, LedgerMoves, Zenon
    <3> QED
      BY <1>4, <2>2, <3>3, Zenon
  <2>5. CASE Kept(p)
    <3>1. PICK u \in Nat : b <= u /\ u <= t /\ Ledger(wire'[p], "WINDOW", b, u)
      BY <1>0, <1>2, <1>4, <2>5, LedgerMoves, Zenon
    <3>2. u + unacked'[p] <= r'
      BY <1>0, <1>4, <3>1
    <3> QED
      BY <1>4, <2>1, <3>1, <3>2, Zenon
  <2>6. CASE Longer(p, Wire("WINDOW", unacked[p])) /\ DownWindow(p)
    <3>1. Ledger(wire'[p], "WINDOW", b, t + unacked[p])
      BY <1>0, <1>2, <1>4, <2>6, LedgerMoves, Zenon
    <3>2. unacked'[p] = 0 /\ out'[p] = out[p]
      BY <1>0, <2>6 DEF DownWindow, Types
    <3>3. r' = r
      BY <3>2 DEF r
    <3>4. /\ t + unacked[p] \in Nat /\ b <= t + unacked[p]
          /\ (t + unacked[p]) + unacked'[p] <= r'
      <4> DEFINE n == unacked[p]
      <4>1. /\ n \in Nat /\ t \in Nat /\ b \in Nat /\ b <= t
            /\ t + n <= r /\ r' = r /\ unacked'[p] = 0
        BY <1>0, <1>2, <1>4, <3>2, <3>3, Zenon
      <4> HIDE DEF n
      <4>2. t + n \in Nat /\ b <= t + n /\ (t + n) + 0 <= r
        BY <4>1
      <4> QED
        BY <4>1, <4>2, Zenon DEF n
    <3> QED
      BY <1>4, <2>1, <3>1, <3>4, Zenon
  <2>7. ASSUME NEW f \in Frames, Longer(p, f), f.type # "WINDOW"
        PROVE  Cover(b, t)
    BY <1>0, <1>2, <1>4, <2>2, <2>7, LedgerMoves, Zenon
  <2>8. /\ Wire("DATA", sent[p] + 1) \in Frames /\ Wire("DATA", sent[p] + 1).type # "WINDOW"
        /\ \A y \in {"ACK", "RESET", "CLOSE"} : Wire(y, 0) \in Frames /\ Wire(y, 0).type # "WINDOW"
    <3>2. \A n \in Nat : Wire("DATA", n) \in Frames /\ Wire("DATA", n).type # "WINDOW"
      BY DEF Wire, Frames, FrameTypes
    <3>3. \A y \in {"ACK", "RESET", "CLOSE"} : Wire(y, 0) \in Frames /\ Wire(y, 0).type # "WINDOW"
      BY DEF Wire, Frames, FrameTypes
    <3> QED
      BY <1>s, <3>2, <3>3, Zenon
  <2> QED
    BY <1>0, <1>4, <2>3, <2>4, <2>5, <2>6, <2>7, <2>8, WireMoves, Zenon DEF WireMove
<1> QED
  BY <1>5, <1>6

-------------------------------------------------------------------------------
(* What these invariants give. *)

Inv == ControlInv /\ Delivery /\ Credits

\* The invariant holds always.
LEMMA InvAlways == Spec => []Inv
<1>1. Init => Delivery /\ Credits
  BY DeliveryInit, CreditsInit, Zenon
<1>2. ASSUME ControlInv, ControlInv', Delivery, Credits, Next
      PROVE  Delivery' /\ Credits'
  <2>1. Types /\ Types' /\ First /\ \A e \in Ends : Before(e)
    BY <1>2, Zenon DEF ControlInv, Control
  <2>2. Delivery'
    BY <1>2, <2>1, DeliveryStep, Zenon
  <2>3. Credits'
    BY <1>2, <2>1, CoveredStep, Zenon DEF Credits
  <2> QED
    BY <2>2, <2>3
<1>3. ASSUME Delivery, Credits, UNCHANGED vars
      PROVE  Delivery' /\ Credits'
  <2>1. Delivery'
    BY <1>3, Unchanged, Zenon DEF Delivery, InOrder, OnItsWay, Takes, Base
  <2>2. Credits'
    BY <1>3, Unchanged, Zenon DEF Credits, Covered, Framed
  <2> QED
    BY <2>1, <2>2
<1>4. ControlInv /\ ControlInv' /\ Delivery /\ Credits /\ [Next]_vars => Delivery' /\ Credits'
  BY <1>2, <1>3, Zenon
<1> QED
  BY <1>1, <1>4, ControlInvAlways, PTL DEF Spec, Inv

\* Credit and what was read without acknowledging it stay within the window.
LEMMA WithinWindow ==
  ASSUME Inv, NEW e \in Ends
  PROVE  credit[e] <= Window /\ unacked[Peer(e)] <= Window
<1> DEFINE p == Peer(e)
           n == Len(out[p])
<1>1. Types /\ Covered(e) /\ InOrder(p)
  BY PeerFacts, Zenon DEF Inv, ControlInv, Credits, Delivery
<1>2. /\ credit[e] \in Nat /\ sent[e] \in Nat /\ Framed(e) \in Nat
      /\ unacked[p] \in Nat /\ n \in Nat /\ Len(inbox[p]) \in Nat
  BY <1>1, PeerFacts DEF Types, Framed
<1>3. Window \in Nat
  BY SessionAssumption, Zenon
<1>4. n <= sent[e]
  <2> DEFINE m == Len(inbox[p])
  <2>1. n + m <= sent[e]
    BY <1>1, PeerFacts, Zenon DEF InOrder, Base
  <2>2. n \in Nat /\ m \in Nat /\ sent[e] \in Nat
    BY <1>2
  <2> HIDE DEF n, m
  <2> QED
    BY <2>1, <2>2
<1>5. PICK t \in 0..n : \E b \in 0..t :
        t + unacked[p] <= n /\ credit[e] + Framed(e) + sent[e] <= Window + b
  BY <1>1, Zenon DEF Covered
<1>6. PICK b \in 0..t :
        t + unacked[p] <= n /\ credit[e] + Framed(e) + sent[e] <= Window + b
  BY <1>5
<1> HIDE DEF n, p
<1>7. credit[e] <= Window /\ unacked[p] <= Window
  BY <1>2, <1>3, <1>4, <1>6
<1> QED
  BY <1>7 DEF p

\* The limits of the counters and queues follow from the invariant.
LEMMA TypeOKHolds ==
  ASSUME Inv
  PROVE  TypeOK
<1>1. Types /\ Limits
  BY Zenon DEF Inv, ControlInv
<1>2. ASSUME NEW e \in Ends
      PROVE  credit[e] \in 0..Window /\ unacked[e] \in 0..Window
  <2>1. credit[e] \in Nat /\ unacked[e] \in Nat /\ Window \in Nat
    BY <1>1, SessionAssumption, Zenon DEF Types
  <2>2. credit[e] <= Window /\ unacked[e] <= Window
    BY WithinWindow, PeerFacts, Zenon
  <2> QED
    BY <2>1, <2>2
<1>3. ASSUME NEW e \in Ends
      PROVE  app[e] \in 0..AppFrames(e) /\ sent[e] \in 0..app[e]
  <2>1. /\ app[e] \in Nat /\ sent[e] \in Nat /\ AppFrames(e) \in Nat /\ Framed(e) \in Nat
    BY <1>1, SessionAssumption DEF Types, AppFrames, Framed
  <2>2. app[e] <= AppFrames(e) /\ sent[e] + Framed(e) <= app[e]
    BY <1>1, Zenon DEF Limits, Counts
  <2> QED
    BY <2>1, <2>2
<1>4. \A e \in Ends : Len(wire[e]) <= QueueCap /\ Len(inbox[e]) <= InboxCap
  BY <1>1, Zenon DEF Limits, Room
<1>5. credit \in [Ends -> 0..Window] /\ unacked \in [Ends -> 0..Window]
  <2>1. credit \in [Ends -> Nat] /\ unacked \in [Ends -> Nat]
    BY <1>1 DEF Types
  <2> QED
    BY <1>2, <2>1
<1>6. \A v \in {registered, inbox_open, signal_open, eof, ended, pend, link_closed} :
        v \in [Ends -> BOOLEAN]
  BY <1>1, Zenon DEF Types
<1>7. \A v \in {credit, unacked} : v \in [Ends -> 0..Window]
  BY <1>5, Zenon
<1> QED
  BY <1>1, <1>3, <1>4, <1>6, <1>7, Zenon DEF TypeOK, Types, Ups, Downs

\* read() returns the payloads of the peer in order, without gap or repeat, through
\* half-close, reset, refusal and link failure, and never more than were sent;
\* credit stays within the window and no queue grows past its bound.
THEOREM PayloadsInOrder == Spec => []OrderedDelivery
<1>1. ASSUME Inv PROVE OrderedDelivery
  <2>1. TypeOK
    BY <1>1, TypeOKHolds
  <2>2. ASSUME NEW e \in Ends
        PROVE  out[e] = [i \in 1..Len(out[e]) |-> i] /\ Len(out[e]) <= sent[Peer(e)]
    <3>1. InOrder(e) /\ Types
      BY <1>1, Zenon DEF Inv, ControlInv, Delivery
    <3>2. out[e] \in Seq(Nat) /\ \A i \in 1..Len(out[e]) : out[e][i] = i
      BY <3>1 DEF InOrder, Types
    <3>3. out[e] = [i \in 1..Len(out[e]) |-> i]
      BY <3>2
    <3>4. Len(out[e]) <= sent[Peer(e)]
      <4> DEFINE n == Len(out[e])
                 m == Len(inbox[e])
                 k == sent[Peer(e)]
      <4>1. n \in Nat /\ m \in Nat /\ k \in Nat
        BY <3>1, PeerFacts DEF Types
      <4>2. n + m <= k
        BY <3>1, Zenon DEF InOrder, Base
      <4> HIDE DEF n, m, k
      <4>3. n <= k
        BY <4>1, <4>2
      <4> QED
        BY <4>3 DEF n, k
    <3> QED
      BY <3>3, <3>4
  <2> QED
    BY <2>1, <2>2, Zenon DEF OrderedDelivery
<1> QED
  BY <1>1, InvAlways, PTL
===============================================================================
