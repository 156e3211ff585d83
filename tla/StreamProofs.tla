----------------------------- MODULE StreamProofs -----------------------------
(***************************************************************************)
(* The two places where bytes are counted: the receive buffer of a link    *)
(* (module ReadBuffer) and the flow control of a session (SessionFlow).    *)
(***************************************************************************)
EXTENDS ReadBuffer, SessionFlow, TLAPS

(***************************************************************************)
(* The buffer, for every initial capacity, frame length and read size: it  *)
(* keeps the stream, always has room for a read, and stays bounded.        *)
(***************************************************************************)

Buffer(h, s, c, m) == [head |-> h, size |-> s, cap |-> c, mem |-> m]

\* The offsets are in order, and consume keeps head_ in the first half of the
\* vector: this is what bounds growth, and why consume(0) never moves a byte.
\* Once a byte was read the vector has Need bytes: ensure_writable leaves head_
\* out of what it needs, and doubling makes up for it only in such a vector.
Offsets(h, s, c) == h <= s /\ s <= c /\ 2 * h <= c /\ (s > 0 => c >= Need)

\* mem holds, from h to s, the stream from byte t on.
Holds(h, s, c, m, t) == \A i \in 0..(c - 1) : h <= i /\ i < s => m[i] = t + (i - h)

Bounded(c) == c <= Initial \/ c <= 4 * (MaxFrame + Need)

\* b is a well-formed buffer that holds the stream from byte t to byte g.
Good(b, t, g) ==
  \E h, s, c \in Nat : \E m :
    /\ b = Buffer(h, s, c, m)
    /\ Offsets(h, s, c) /\ Holds(h, s, c, m, t) /\ Bounded(c)
    /\ t + (s - h) = g

BufferInv ==
  /\ got \in Nat /\ taken \in Nat /\ frame \in 1..MaxFrame /\ pc \in {"parse", "read"}
  /\ Good(buf, taken, got)
  /\ RoomToRead

\* Consuming n readable bytes leaves the rest of the stream.
LEMMA ConsumeGood ==
  ASSUME NEW b, NEW t \in Nat, NEW g \in Nat, NEW n \in Nat,
         Good(b, t, g), n <= readable(b)
  PROVE  Good(consume(b, n), t + n, g)
<1>1. PICK h \in Nat, s \in Nat, c \in Nat : \E m :
        /\ b = Buffer(h, s, c, m)
        /\ Offsets(h, s, c) /\ Holds(h, s, c, m, t) /\ Bounded(c)
        /\ t + (s - h) = g
  BY DEF Good
<1>2. PICK m : /\ b = Buffer(h, s, c, m)
               /\ Offsets(h, s, c) /\ Holds(h, s, c, m, t) /\ Bounded(c)
               /\ t + (s - h) = g
  BY <1>1
<1>3. n <= s - h /\ h <= s /\ s <= c /\ h + n \in Nat /\ s - (h + n) \in Nat
  BY <1>2 DEF Buffer, readable, Offsets
<1>4. CASE h + n >= s
  <2>1. consume(b, n) = Buffer(0, 0, c, m)
    BY <1>2, <1>4, Zenon DEF consume, Buffer
  <2>2. Offsets(0, 0, c) /\ Holds(0, 0, c, m, t + n) /\ (t + n) + (0 - 0) = g
    BY <1>2, <1>3, <1>4 DEF Offsets, Holds
  <2>3. QED BY <2>1, <2>2, <1>2 DEF Good
<1>5. CASE h + n < s /\ h + n > c \div 2
  <2> DEFINE mm == [i \in 0..(c - 1) |-> IF i < s - (h + n) THEN m[(h + n) + i] ELSE m[i]]
  <2>1. consume(b, n) = Buffer(0, s - (h + n), c, mm)
    BY <1>2, <1>3, <1>5 DEF consume, Moved, Buffer
  <2>2. Offsets(0, s - (h + n), c) /\ (t + n) + (s - (h + n) - 0) = g
    BY <1>2, <1>3 DEF Offsets
  <2>3. Holds(0, s - (h + n), c, mm, t + n)
    BY <1>2, <1>3 DEF Holds
  <2>4. QED BY <2>1, <2>2, <2>3, <1>2, <1>3, Zenon DEF Good
<1>6. CASE h + n < s /\ ~(h + n > c \div 2)
  <2>1. consume(b, n) = Buffer(h + n, s, c, m)
    BY <1>2, <1>6 DEF consume, Buffer
  <2>2. Offsets(h + n, s, c) /\ (t + n) + (s - (h + n)) = g
    BY <1>2, <1>3, <1>6 DEF Offsets
  <2>3. Holds(h + n, s, c, m, t + n)
    BY <1>2, <1>3 DEF Holds
  <2>4. QED BY <2>1, <2>2, <2>3, <1>2, <1>3 DEF Good
<1>7. QED BY <1>3, <1>4, <1>5, <1>6

\* ensure_writable keeps the stream and makes the room, within the bound when
\* less than a frame is waiting.
LEMMA EnsureGood ==
  ASSUME NEW b, NEW t \in Nat, NEW g \in Nat, Good(b, t, g), readable(b) < MaxFrame
  PROVE  Good(ensure_writable(b, Need), t, g) /\ writable_size(ensure_writable(b, Need)) >= Need
<1> USE BufferAssumption
<1>1. CASE writable_size(b) >= Need
  BY <1>1 DEF ensure_writable
<1>2. CASE ~(writable_size(b) >= Need)
  <2> DEFINE d == IF b.head > 0 THEN consume(b, 0) ELSE b
  <2>1. Good(d, t, g) /\ readable(d) < MaxFrame
    <3>1. CASE b.head > 0
      <4>1. 0 <= readable(b) /\ readable(b) \in Int
        BY DEF Good, Offsets, readable, Buffer
      <4>2. Good(consume(b, 0), t + 0, g)
        BY <4>1, ConsumeGood
      <4>3. readable(b) = g - t
        BY DEF Good, Offsets, readable, Buffer
      <4>4. readable(consume(b, 0)) = g - (t + 0)
        BY <4>2 DEF Good, Offsets, readable, Buffer
      <4>5. QED BY <3>1, <4>2, <4>3, <4>4
    <3>2. CASE ~(b.head > 0)
      BY <3>2
    <3>3. QED BY <3>1, <3>2
  <2> HIDE DEF d
  <2>2. CASE writable_size(d) >= Need
    <3>1. ensure_writable(b, Need) = d
      BY <1>2, <2>2 DEF ensure_writable, d
    <3>2. QED BY <2>1, <2>2, <3>1
  <2>3. CASE ~(writable_size(d) >= Need)
    <3>1. ensure_writable(b, Need) = Grown(d, Need)
      BY <1>2, <2>3 DEF ensure_writable, d
    <3>2. PICK h \in Nat, s \in Nat, c \in Nat : \E m :
            /\ d = Buffer(h, s, c, m)
            /\ Offsets(h, s, c) /\ Holds(h, s, c, m, t) /\ Bounded(c)
            /\ t + (s - h) = g
      BY <2>1 DEF Good
    <3>3. PICK m : /\ d = Buffer(h, s, c, m)
                   /\ Offsets(h, s, c) /\ Holds(h, s, c, m, t) /\ Bounded(c)
                   /\ t + (s - h) = g
      BY <3>2
    <3>4. s - h < MaxFrame /\ c - s < Need
      BY <2>1, <2>3, <3>3 DEF readable, writable_size, Buffer
    <3> DEFINE nc == IF 2 * c >= s - h + Need THEN 2 * c ELSE s - h + Need
               mm == [i \in 0..(nc - 1) |-> IF i < c THEN m[i] ELSE 0]
    <3>5. Grown(d, Need) = Buffer(h, s, nc, mm)
      BY <3>3 DEF Grown, newCap, Buffer
    <3>6. /\ nc \in Nat /\ c <= nc /\ s <= c /\ h <= s /\ 2 * h <= c
          /\ s > 0 => nc >= Need
      BY <3>3 DEF Offsets
    <3>10. nc - s >= Need
      <4>1. CASE s = 0
        BY <4>1, <3>3, <3>6
      <4>2. CASE s > 0
        BY <4>2, <3>3, <3>6 DEF Offsets
      <4>3. QED BY <4>1, <4>2
    <3>11. Bounded(nc)
      BY <3>4, <3>6 DEF Bounded
    <3>7. Holds(h, s, nc, mm, t)
      BY <3>3, <3>6 DEF Holds
    <3>8. Offsets(h, s, nc)
      BY <3>6 DEF Offsets
    <3> HIDE DEF nc, mm
    <3>9. QED BY <3>1, <3>3, <3>5, <3>6, <3>7, <3>8, <3>10, <3>11 DEF Good, writable_size, Buffer
  <2>4. QED BY <2>2, <2>3
<1>3. QED BY <1>1, <1>2

\* A new buffer is empty.
LEMMA BufferStarts == BufferInit => BufferInv
<1> SUFFICES ASSUME BufferInit PROVE BufferInv
  OBVIOUS
<1> DEFINE m == [i \in 0..(Initial - 1) |-> 0]
<1>1. buf = Buffer(0, 0, Initial, m)
  BY DEF BufferInit, Buffer
<1>2. Offsets(0, 0, Initial) /\ Holds(0, 0, Initial, m, 0) /\ Bounded(Initial) /\ 0 + (0 - 0) = 0
  BY BufferAssumption DEF Offsets, Holds, Bounded
<1> HIDE DEF m
<1>3. Good(buf, 0, 0)
  BY <1>1, <1>2, BufferAssumption DEF Good
<1>4. QED BY <1>3 DEF BufferInit, BufferInv, RoomToRead

\* Consuming a frame moves the readable part to the next one.
LEMMA ConsumeInv == BufferInv /\ Consume => BufferInv'
<1> SUFFICES ASSUME BufferInv, Consume PROVE BufferInv'
  OBVIOUS
<1>1. frame \in Nat /\ frame <= readable(buf)
  <2>1. readable(buf) \in Int
    BY DEF BufferInv, Good, Offsets, Buffer, readable
  <2>2. QED BY <2>1, BufferAssumption DEF BufferInv, Consume
<1>2. Good(consume(buf, frame), taken + frame, got)
  BY <1>1, ConsumeGood DEF BufferInv
<1>3. QED BY <1>1, <1>2 DEF BufferInv, Consume, RoomToRead

\* Making room changes neither the readable part nor the stream.
LEMMA StartReadInv == BufferInv /\ StartRead => BufferInv'
<1> SUFFICES ASSUME BufferInv, StartRead PROVE BufferInv'
  OBVIOUS
<1>1. readable(buf) < MaxFrame
  <2>1. readable(buf) \in Int
    BY DEF BufferInv, Good, Offsets, Buffer, readable
  <2>2. QED BY <2>1, BufferAssumption DEF BufferInv, StartRead
<1>2. Good(ensure_writable(buf, Need), taken, got) /\ writable_size(ensure_writable(buf, Need)) >= Need
  BY <1>1, EnsureGood DEF BufferInv
<1>3. buf' = ensure_writable(buf, Need) /\ UNCHANGED <<got, taken, frame>> /\ pc' = "read"
  BY DEF StartRead
<1>4. RoomToRead'
  BY <1>2, <1>3 DEF RoomToRead, writable_size
<1>5. QED BY <1>2, <1>3, <1>4 DEF BufferInv

\* The bytes read continue the readable part.
LEMMA ReadSomeInv == BufferInv /\ ReadSome => BufferInv'
<1> SUFFICES ASSUME BufferInv, ReadSome PROVE BufferInv'
  OBVIOUS
<1> USE BufferAssumption
<1>1. PICK k \in 1..writable_size(buf) : buf' = Stored(buf, k) /\ got' = got + k
  BY DEF ReadSome
<1>2. PICK h \in Nat, s \in Nat, c \in Nat : \E m :
        /\ buf = Buffer(h, s, c, m)
        /\ Offsets(h, s, c) /\ Holds(h, s, c, m, taken) /\ Bounded(c)
        /\ taken + (s - h) = got
  BY DEF BufferInv, Good
<1>3. PICK m : /\ buf = Buffer(h, s, c, m)
               /\ Offsets(h, s, c) /\ Holds(h, s, c, m, taken) /\ Bounded(c)
               /\ taken + (s - h) = got
  BY <1>2
<1>4. c - s >= Need /\ k \in Nat /\ k <= c - s /\ got \in Nat /\ taken \in Nat
  BY <1>1, <1>3 DEF BufferInv, ReadSome, RoomToRead, writable_size, Buffer
<1> DEFINE mm == [i \in 0..(c - 1) |-> IF i >= s /\ i < s + k THEN got + (i - s) ELSE m[i]]
<1>5. Stored(buf, k) = Buffer(h, s + k, c, mm)
  BY <1>3 DEF Stored, Buffer
<1>6. Offsets(h, s + k, c) /\ taken + ((s + k) - h) = got + k
  BY <1>3, <1>4 DEF Offsets
<1>7. Holds(h, s + k, c, mm, taken)
  BY <1>3, <1>4 DEF Holds, Offsets
<1> HIDE DEF mm
<1>8. Good(Stored(buf, k), taken, got + k)
  BY <1>3, <1>4, <1>5, <1>6, <1>7 DEF Good
<1>9. QED BY <1>1, <1>4, <1>8 DEF BufferInv, ReadSome, RoomToRead

\* Every step keeps the invariant.
LEMMA BufferAlways == BufferSpec => []BufferInv
<1>1. BufferInv /\ [BufferNext]_bufferVars => BufferInv'
  <2>1. BufferInv /\ UNCHANGED bufferVars => BufferInv'
    BY DEF BufferInv, RoomToRead, bufferVars
  <2>2. QED BY <2>1, ConsumeInv, StartReadInv, ReadSomeInv DEF BufferNext
<1>2. QED BY <1>1, BufferStarts, PTL DEF BufferSpec

\* The offsets of the buffer stay in order: head_ <= size_ <= buf_.size().
THEOREM OffsetsInOrder == BufferSpec => []BufferTypeOK
<1>1. BufferInv => BufferTypeOK
  BY DEF BufferInv, BufferTypeOK, Good, Offsets, Buffer
<1>2. QED BY <1>1, BufferAlways, PTL

\* consume, ensure_writable and committed never lose, repeat or shift a byte.
THEOREM StreamKept == BufferSpec => []Contents
<1>1. BufferInv => Contents
  BY DEF BufferInv, Contents, Good, Offsets, Holds, Buffer, readable
<1>2. QED BY <1>1, BufferAlways, PTL

\* The reader never reads into an empty area, which it would take for an end
\* of stream.
THEOREM RoomForRead == BufferSpec => []RoomToRead
<1>1. BufferInv => RoomToRead
  BY DEF BufferInv
<1>2. QED BY <1>1, BufferAlways, PTL

\* The buffer's capacity is bounded by the frames, not by the life of the link.
THEOREM GrowthBounded == BufferSpec => []CapBounded
<1>1. BufferInv => CapBounded
  BY DEF BufferInv, CapBounded, Bounded, Good, Buffer
<1>2. QED BY <1>1, BufferAlways, PTL
-------------------------------------------------------------------------------
(***************************************************************************)
(* Proofs about SessionFlow for every choice of windows, frame sizes,      *)
(* buffer sizes and queue capacities.                                      *)
(***************************************************************************)

\* q is a run of adjacent, non-empty intervals that ends at position end.
Chain(q, end) ==
  /\ q # <<>> => q[Len(q)].to = end
  /\ \A i \in 1..Len(q) : q[i].to <= end
  /\ \A i \in 1..(Len(q) - 1) : q[i].to = q[i + 1].from
  /\ \A i, j \in 1..Len(q) : i < j => q[i].to <= q[j].from

\* A sequence with an element more.
LEMMA Appended ==
  ASSUME NEW S, NEW s \in Seq(S), NEW x \in S
  PROVE  /\ Append(s, x) \in Seq(S) /\ Append(s, x) # <<>> /\ Len(Append(s, x)) = Len(s) + 1
         /\ \A i \in 1..Len(s) : Append(s, x)[i] = s[i]
         /\ Append(s, x)[Len(s) + 1] = x
OBVIOUS

\* A sequence without its first element.
LEMMA FirstTaken ==
  ASSUME NEW S, NEW s \in Seq(S), s # <<>>
  PROVE  /\ Head(s) \in S /\ Head(s) = s[1]
         /\ Tail(s) \in Seq(S) /\ Len(Tail(s)) = Len(s) - 1
         /\ \A i \in 1..Len(Tail(s)) : Tail(s)[i] = s[i + 1]
OBVIOUS

\* Two sequences, one behind the other.
LEMMA Joined ==
  ASSUME NEW S, NEW s \in Seq(S), NEW t \in Seq(S)
  PROVE  /\ s \o t \in Seq(S) /\ Len(s \o t) = Len(s) + Len(t)
         /\ \A i \in 1..(Len(s) + Len(t)) :
              (s \o t)[i] = IF i <= Len(s) THEN s[i] ELSE t[i - Len(s)]
OBVIOUS

\* Sequences of one length with the same elements are the same.
LEMMA SameSequence ==
  ASSUME NEW S, NEW s \in Seq(S), NEW t \in Seq(S), Len(s) = Len(t),
         \A i \in 1..Len(s) : s[i] = t[i]
  PROVE  s = t
OBVIOUS

\* A chain starts no later than it ends.
LEMMA StartBounded ==
  ASSUME NEW q \in Seq(Frames), NEW end \in Nat, Chain(q, end)
  PROVE  Start(q, end) \in Nat /\ Start(q, end) <= end
<1>1. CASE q = <<>>
  BY <1>1 DEF Start
<1>2. CASE q # <<>>
  <2>1. 1 \in 1..Len(q) /\ q[1] \in Frames
    BY <1>2
  <2>. QED  BY <2>1, <1>2 DEF Start, Chain, Frames
<1>. QED  BY <1>1, <1>2

\* Enqueuing the interval that begins where a chain ends extends the chain
\* and leaves its start alone (Append in enqueueFrame and in onData).
LEMMA ChainAppend ==
  ASSUME NEW q \in Seq(Frames), NEW end \in Nat, Chain(q, end),
         NEW f \in Frames, f.from = end
  PROVE  /\ Append(q, f) \in Seq(Frames)
         /\ Chain(Append(q, f), f.to)
         /\ Start(Append(q, f), f.to) = Start(q, end)
<1> DEFINE r == Append(q, f)
<1>1. /\ r \in Seq(Frames) /\ r # <<>> /\ Len(r) = Len(q) + 1
      /\ \A i \in 1..Len(q) : r[i] = q[i]
      /\ r[Len(q) + 1] = f
  BY Appended
<1>2. Len(q) \in Nat /\ \A i \in 1..Len(q) : q[i] \in Frames
  OBVIOUS
<1>3. f.from \in Nat /\ f.to \in Nat /\ f.from < f.to
  BY DEF Frames
<1> HIDE DEF r
<1>4. \A i \in 1..Len(r) : r[i].to <= f.to
  <2> SUFFICES ASSUME NEW i \in 1..Len(r) PROVE r[i].to <= f.to
    OBVIOUS
  <2>1. CASE i = Len(q) + 1
    BY <2>1, <1>1, <1>3
  <2>2. CASE i \in 1..Len(q)
    <3>1. r[i] = q[i] /\ q[i].to <= end /\ q[i].to \in Nat
      BY <2>2, <1>1, <1>2, Zenon DEF Chain, Frames
    <3>. QED  BY <3>1, <1>3
  <2>. QED  BY <2>1, <2>2, <1>1, <1>2
<1>5. \A i \in 1..(Len(r) - 1) : r[i].to = r[i + 1].from
  <2> SUFFICES ASSUME NEW i \in 1..Len(q) PROVE r[i].to = r[i + 1].from
    BY <1>1, <1>2
  <2>1. CASE i = Len(q)
    <3>1. q # <<>>  BY <2>1
    <3>. QED  BY <2>1, <3>1, <1>1, <1>2 DEF Chain
  <2>2. CASE i # Len(q)
    <3>1. i \in 1..(Len(q) - 1) /\ i + 1 \in 1..Len(q)
      BY <2>2, <1>2
    <3>. QED  BY <3>1, <1>1 DEF Chain
  <2>. QED  BY <2>1, <2>2
<1>6. \A i, j \in 1..Len(r) : i < j => r[i].to <= r[j].from
  <2> SUFFICES ASSUME NEW i \in 1..Len(r), NEW j \in 1..Len(r), i < j
               PROVE  r[i].to <= r[j].from
    OBVIOUS
  <2>1. i \in 1..Len(q)  BY <1>1, <1>2
  <2>2. CASE j = Len(q) + 1
    BY <2>1, <2>2, <1>1 DEF Chain
  <2>3. CASE j \in 1..Len(q)
    BY <2>1, <2>3, <1>1 DEF Chain
  <2>. QED  BY <2>2, <2>3, <1>1, <1>2
<1>7. Chain(r, f.to)
  BY <1>1, <1>4, <1>5, <1>6 DEF Chain
<1>8. Start(r, f.to) = Start(q, end)
  <2>1. CASE q = <<>>
    BY <2>1, <1>1 DEF Start
  <2>2. CASE q # <<>>
    <3>1. 1 \in 1..Len(q)  BY <2>2, <1>2
    <3>. QED  BY <3>1, <2>2, <1>1 DEF Start
  <2>. QED  BY <2>1, <2>2
<1>. QED  BY <1>1, <1>7, <1>8 DEF r

\* Taking the first interval off a chain leaves a chain that starts where
\* that interval ends (Tail in dispatchFrame, read and onWindow).
LEMMA ChainTail ==
  ASSUME NEW q \in Seq(Frames), NEW end \in Nat, Chain(q, end), q # <<>>
  PROVE  /\ Tail(q) \in Seq(Frames)
         /\ Head(q) \in Frames
         /\ Head(q).from = Start(q, end)
         /\ Chain(Tail(q), end)
         /\ Start(Tail(q), end) = Head(q).to
<1> DEFINE r == Tail(q)
<1>1. /\ r \in Seq(Frames) /\ Len(r) = Len(q) - 1
      /\ \A i \in 1..Len(r) : r[i] = q[i + 1]
      /\ Head(q) \in Frames
  BY FirstTaken
<1>2. Len(q) \in Nat \ {0} /\ Head(q) = q[1]
  OBVIOUS
<1> HIDE DEF r
<1>3. Len(r) \in Nat
  BY <1>1
<1>4. Chain(r, end)
  <2>1. r # <<>> => r[Len(r)].to = end
    <3> SUFFICES ASSUME r # <<>> PROVE r[Len(r)].to = end
      OBVIOUS
    <3>1. Len(r) \in 1..Len(r)  BY <1>1, <1>3
    <3>. QED  BY <3>1, <1>1, <1>2 DEF Chain
  <2>2. \A i \in 1..Len(r) : i + 1 \in 1..Len(q)
    BY <1>1, <1>2
  <2>3. \A i \in 1..Len(r) : r[i].to <= end
    BY <2>2, <1>1 DEF Chain
  <2>4. \A i \in 1..(Len(r) - 1) : r[i].to = r[i + 1].from
    <3> SUFFICES ASSUME NEW i \in 1..(Len(r) - 1) PROVE r[i].to = r[i + 1].from
      OBVIOUS
    <3>1. i \in 1..Len(r) /\ i + 1 \in 1..Len(r) /\ i + 1 \in 1..(Len(q) - 1)
      BY <1>1, <1>2, <1>3
    <3>. QED  BY <3>1, <1>1 DEF Chain
  <2>5. \A i, j \in 1..Len(r) : i < j => r[i].to <= r[j].from
    <3> SUFFICES ASSUME NEW i \in 1..Len(r), NEW j \in 1..Len(r), i < j
                 PROVE  r[i].to <= r[j].from
      OBVIOUS
    <3>1. i + 1 \in 1..Len(q) /\ j + 1 \in 1..Len(q) /\ i + 1 < j + 1
      BY <1>1, <1>2, <1>3
    <3>. QED  BY <3>1, <1>1, Zenon DEF Chain
  <2>. QED  BY <2>1, <2>3, <2>4, <2>5 DEF Chain
<1>5. Start(r, end) = Head(q).to
  <2>1. CASE r = <<>>
    <3>1. Len(q) = 1  BY <2>1, <1>1, <1>2
    <3>. QED  BY <3>1, <2>1, <1>2 DEF Start, Chain
  <2>2. CASE r # <<>>
    <3>1. 1 \in 1..Len(r) /\ 1 \in 1..(Len(q) - 1)
      BY <2>2, <1>1, <1>2, <1>3
    <3>. QED  BY <3>1, <2>2, <1>1, <1>2 DEF Start, Chain
  <2>. QED  BY <2>1, <2>2
<1>. QED  BY <1>1, <1>2, <1>4, <1>5 DEF r, Start

-------------------------------------------------------------------------------
(***************************************************************************)
(* The inductive invariant.  The queues are chains of adjacent intervals,  *)
(* each starting where the next one ends, so what is in flight is the      *)
(* difference of two positions; credit then adds up as a sum of positions. *)
(***************************************************************************)
WriterInv ==
  /\ wpc = "idle" <=> remaining = 0
  /\ wpc = "chunk" => send_credit >= 1
  /\ wpc = "debit" => chunk <= send_credit
  /\ wpc \in {"debit", "enqueue"} => chunk \in 1..remaining
  /\ send_credit >= 0

QueueInv ==
  /\ Chain(dataQ, sent)
  /\ Chain(inbox, DataLo)
  /\ Chain(winQ, acked)
  /\ leftover = NoBytes => Len(out) = InboxLo
  /\ leftover # NoBytes => leftover.to = InboxLo /\ Len(out) = leftover.from

OutInv == out = Bytes(0, Len(out))

CreditInv ==
  /\ acked + delta + recv_unacked = Len(out)
  /\ send_credit + Framing + sent = PeerWindow + WinLo

ReaderInv ==
  /\ rpc # "send" => delta = 0
  /\ rpc = "send" => delta >= 1 /\ recv_unacked = 0
  /\ rpc = "read" => recv_unacked < Threshold \/ recv_unacked = 0
  /\ rpc = "ack" => recv_unacked >= 1 /\ recv_unacked < Threshold + ReadBuf + 1

IndInv == TypeOK /\ WriterInv /\ QueueInv /\ OutInv /\ CreditInv /\ ReaderInv
            /\ NoLostWakeup

\* The bytes of an interval, as a sequence.
LEMMA BytesSeq ==
  ASSUME NEW lo \in Nat, NEW hi \in Nat, lo <= hi
  PROVE  /\ Bytes(lo, hi) \in Seq(Nat)
         /\ Len(Bytes(lo, hi)) = hi - lo
         /\ \A i \in 1..(hi - lo) : Bytes(lo, hi)[i] = lo + i - 1
<1>1. hi - lo \in Nat  OBVIOUS
<1>2. Bytes(lo, hi) \in [1..(hi - lo) -> Nat]
  BY <1>1 DEF Bytes
<1>. QED  BY <1>1, <1>2 DEF Bytes

\* Reading on from where the last read stopped keeps the output in order.
LEMMA BytesConcat ==
  ASSUME NEW mid \in Nat, NEW hi \in Nat, mid <= hi
  PROVE  /\ Bytes(0, mid) \o Bytes(mid, hi) = Bytes(0, hi)
         /\ Len(Bytes(0, mid) \o Bytes(mid, hi)) = hi
<1> DEFINE a == Bytes(0, mid)
           b == Bytes(mid, hi)
           c == Bytes(0, hi)
<1>1. a \in Seq(Nat) /\ Len(a) = mid /\ \A i \in 1..mid : a[i] = i - 1
  BY BytesSeq
<1>2. b \in Seq(Nat) /\ Len(b) = hi - mid /\ \A i \in 1..(hi - mid) : b[i] = mid + i - 1
  BY BytesSeq
<1>3. c \in Seq(Nat) /\ Len(c) = hi /\ \A i \in 1..hi : c[i] = i - 1
  BY BytesSeq
<1> HIDE DEF a, b, c
<1>4. /\ a \o b \in Seq(Nat) /\ Len(a \o b) = hi
      /\ \A i \in 1..hi : (a \o b)[i] = IF i <= mid THEN a[i] ELSE b[i - mid]
  BY <1>1, <1>2, Joined
<1>5. \A i \in 1..hi : (a \o b)[i] = c[i]
  <2> SUFFICES ASSUME NEW i \in 1..hi PROVE (a \o b)[i] = c[i]
    BY Zenon
  <2>1. CASE i <= mid
    <3>1. i \in 1..mid  BY <2>1
    <3>. QED  BY <2>1, <3>1, <1>1, <1>3, <1>4
  <2>2. CASE ~(i <= mid)
    <3>1. i - mid \in 1..(hi - mid)  BY <2>2
    <3>2. b[i - mid] = mid + (i - mid) - 1  BY <3>1, <1>2
    <3>3. (a \o b)[i] = b[i - mid]  BY <2>2, <1>4, SMTT(30)
    <3>. QED  BY <3>2, <3>3, <1>3
  <2>. QED  BY <2>1, <2>2, Zenon
<1>6. a \o b = c
  BY <1>3, <1>4, <1>5, SameSequence, Zenon
<1>. QED  BY <1>4, <1>6 DEF a, b, c

\* A new session (Session's constructor) satisfies the invariant.
LEMMA InitInv == Init => IndInv
<1> SUFFICES ASSUME Init PROVE IndInv
  OBVIOUS
<1>1. TypeOK
  BY FlowAssumption DEF Init, TypeOK, Frames
<1>2. WriterInv /\ ReaderInv /\ NoLostWakeup
  BY FlowAssumption DEF Init, WriterInv, ReaderInv, NoLostWakeup
<1>3. QueueInv /\ CreditInv
  BY FlowAssumption DEF Init, QueueInv, CreditInv, Chain, DataLo, InboxLo, WinLo,
       Start, Framing
<1>4. OutInv
  BY BytesSeq DEF Init, OutInv, Bytes
<1>. QED  BY <1>1, <1>2, <1>3, <1>4 DEF IndInv

\* The steps of write() that touch neither a queue nor the reader.
LEMMA WriterLocal ==
  ASSUME IndInv,
         \/ \E n \in 1..MaxWrite : WriteCall(n)
         \/ WriteCheckCredit \/ WriteWake \/ WriteChooseChunk \/ WriteDebit
  PROVE  IndInv'
<1>0. MaxWrite \in Nat /\ MaxDataFrame \in Nat \ {0}
  BY FlowAssumption, Zenon
<1>1. TypeOK' /\ WriterInv'
  <2> USE DEF IndInv, TypeOK, WriterInv, rvars
  <2>1. ASSUME NEW n \in 1..MaxWrite, WriteCall(n) PROVE TypeOK' /\ WriterInv'
    BY <2>1, <1>0 DEF WriteCall
  <2>2. CASE WriteCheckCredit
    BY <2>2 DEF WriteCheckCredit
  <2>3. CASE WriteWake
    BY <2>3 DEF WriteWake
  <2>4. CASE WriteChooseChunk
    <3>1. /\ chunk' \in Nat /\ chunk' <= remaining /\ chunk' <= send_credit
          /\ wpc' \in {"check", "debit"}
          /\ wpc' = "debit" => chunk' \in 1..remaining
      BY <2>4, <1>0 DEF WriteChooseChunk, MinOf
    <3>. QED  BY <2>4, <3>1 DEF WriteChooseChunk
  <2>5. CASE WriteDebit
    BY <2>5 DEF WriteDebit
  <2>. QED  BY <2>1, <2>2, <2>3, <2>4, <2>5
<1>3. /\ UNCHANGED <<sent, dataQ, winQ, opc, inbox, leftover, out, rpc,
                      recv_unacked, delta, acked>>
      /\ send_credit' + Framing' = send_credit + Framing
  <2>1. UNCHANGED <<sent, dataQ, winQ, opc, inbox, leftover, out, rpc,
                    recv_unacked, delta, acked>>
    BY DEF WriteCall, WriteCheckCredit, WriteWake, WriteChooseChunk, WriteDebit, rvars
  <2>2. CASE WriteDebit
    <3>1. send_credit \in Int /\ chunk \in Nat  BY DEF IndInv, TypeOK
    <3>. QED  BY <2>1, <2>2, <3>1 DEF WriteDebit, Framing
  <2>3. CASE ~WriteDebit
    <3>1. /\ send_credit' = send_credit
          /\ wpc # "enqueue" /\ wpc' # "enqueue"
      BY <2>3 DEF WriteCall, WriteCheckCredit, WriteWake, WriteChooseChunk
    <3>. QED  BY <2>1, <3>1 DEF Framing
  <2>. QED  BY <2>1, <2>2, <2>3
<1>4. QueueInv' /\ OutInv' /\ ReaderInv'
  BY <1>3 DEF IndInv, QueueInv, OutInv, ReaderInv, DataLo, InboxLo
<1>5. CreditInv'
  <2>1. WinLo' = WinLo  BY <1>3 DEF WinLo
  <2>2. /\ acked + delta + recv_unacked = Len(out)
        /\ send_credit + Framing + sent = PeerWindow + WinLo
    BY Zenon DEF IndInv, CreditInv
  <2>3. send_credit' + Framing' + sent = PeerWindow + WinLo
    BY <1>3, <2>2, Zenon
  <2>. QED  BY <1>3, <2>1, <2>2, <2>3, Zenon DEF CreditInv
<1>6. NoLostWakeup'
  BY <1>3 DEF IndInv, TypeOK, NoLostWakeup, WriteCall, WriteCheckCredit,
       WriteWake, WriteChooseChunk, WriteDebit
<1>. QED  BY <1>1, <1>4, <1>5, <1>6 DEF IndInv

\* Framing the next chunk in write() keeps the invariant: the chunk moves from
\* Framing to the end of the DATA queue.
LEMMA EnqueueInv ==
  ASSUME IndInv, WriteEnqueue
  PROVE  IndInv'
<1> DEFINE f == [from |-> sent, to |-> sent + chunk]
<1> USE DEF WriteEnqueue
<1>1. f \in Frames /\ f.from = sent /\ f.to = sent' /\ sent' \in Nat
  BY DEF IndInv, TypeOK, WriterInv, Frames
<1>2. /\ dataQ' \in Seq(Frames) /\ Chain(dataQ', sent')
      /\ Start(dataQ', sent') = Start(dataQ, sent)
  BY <1>1, ChainAppend DEF IndInv, TypeOK, QueueInv
<1>3. TypeOK'
  BY <1>1, <1>2 DEF IndInv, TypeOK, WriterInv, rvars
<1>4. WriterInv'
  BY DEF IndInv, TypeOK, WriterInv
<1>5. DataLo' = DataLo /\ InboxLo' = InboxLo /\ WinLo' = WinLo
  BY <1>2 DEF DataLo, InboxLo, WinLo, rvars
<1>6. QueueInv'
  BY <1>2, <1>5 DEF IndInv, QueueInv, rvars
<1>7. CreditInv'
  <2>1. WinLo \in Nat
    BY StartBounded DEF IndInv, TypeOK, QueueInv, WinLo
  <2>. QED  BY <1>5, <2>1, FlowAssumption DEF IndInv, TypeOK, CreditInv, Framing, WriterInv, rvars
<1>8. OutInv' /\ ReaderInv' /\ NoLostWakeup'
  BY DEF IndInv, OutInv, ReaderInv, NoLostWakeup, rvars
<1>. QED  BY <1>3, <1>4, <1>6, <1>7, <1>8 DEF IndInv

\* onData keeps the invariant: a frame moves from the link to inbox_.
LEMMA OnDataInv ==
  ASSUME IndInv, OnData
  PROVE  IndInv'
<1> USE DEF OnData
<1>1. /\ Tail(dataQ) \in Seq(Frames) /\ Head(dataQ) \in Frames
      /\ Head(dataQ).from = DataLo /\ Chain(Tail(dataQ), sent)
      /\ Start(Tail(dataQ), sent) = Head(dataQ).to
  BY ChainTail DEF IndInv, TypeOK, QueueInv, DataLo
<1>2. DataLo \in Nat /\ DataLo' = Head(dataQ).to
  BY <1>1, StartBounded DEF IndInv, TypeOK, QueueInv, DataLo, wvars
<1>3. /\ inbox' \in Seq(Frames) /\ Chain(inbox', DataLo')
      /\ InboxLo' = InboxLo
  BY <1>1, <1>2, ChainAppend DEF IndInv, TypeOK, QueueInv, InboxLo
<1>4. TypeOK'
  BY <1>1, <1>3 DEF IndInv, TypeOK, wvars
<1>5. QueueInv'
  BY <1>1, <1>3 DEF IndInv, QueueInv, wvars
<1>6. WriterInv' /\ OutInv' /\ CreditInv' /\ ReaderInv' /\ NoLostWakeup'
  BY DEF IndInv, WriterInv, OutInv, CreditInv, ReaderInv, NoLostWakeup, WinLo,
       Framing, wvars
<1>. QED  BY <1>4, <1>5, <1>6 DEF IndInv

\* What one read() does to the output and the counters, whichever payload p
\* it takes from, given that p starts where the output ends.
LEMMA TakeFromInv ==
  ASSUME IndInv, rpc = "read", NEW p \in Frames, p.from = Len(out), TakeFrom(p),
         delta' = delta, acked' = acked
  PROVE  /\ out' \in Seq(Nat) /\ OutInv' /\ Len(out') <= p.to
         /\ leftover' = NoBytes => Len(out') = p.to
         /\ leftover' # NoBytes => leftover'.to = p.to /\ Len(out') = leftover'.from
         /\ leftover' \in Frames \cup {NoBytes}
         /\ recv_unacked' \in Nat
         /\ acked' + delta' + recv_unacked' = Len(out')
         /\ ReaderInv' /\ rpc' = "ack"
<1> DEFINE n == MinOf(ReadBuf, p.to - p.from)
<1>0. p.from \in Nat /\ p.to \in Nat /\ p.from < p.to /\ ReadBuf \in Nat \ {0}
  BY FlowAssumption DEF Frames
<1>1. n \in Nat /\ n >= 1 /\ n <= ReadBuf /\ p.from + n <= p.to
  BY <1>0 DEF MinOf
<1>2. /\ out' = out \o Bytes(p.from, p.from + n)
      /\ leftover' = IF p.from + n < p.to THEN [from |-> p.from + n, to |-> p.to]
                                          ELSE NoBytes
      /\ recv_unacked' = recv_unacked + n
      /\ rpc' = "ack"
  BY DEF TakeFrom
<1> HIDE DEF n
<1>3. out' = Bytes(0, p.from + n) /\ Len(out') = p.from + n
  <2>1. out = Bytes(0, p.from)  BY DEF IndInv, OutInv
  <2>2. p.from + n \in Nat /\ p.from <= p.from + n  BY <1>0, <1>1
  <2>. QED  BY <2>1, <2>2, <1>0, <1>2, BytesConcat, Zenon
<1>4. out' \in Seq(Nat) /\ OutInv'
  BY <1>0, <1>1, <1>3, BytesSeq DEF OutInv
<1>5. /\ recv_unacked' \in Nat
      /\ acked' + delta' + recv_unacked' = Len(out')
  <2>1. /\ acked \in Nat /\ delta \in Nat /\ recv_unacked \in Nat
        /\ acked + delta + recv_unacked = p.from
    BY DEF IndInv, TypeOK, CreditInv
  <2>2. recv_unacked' = recv_unacked + n  BY <1>2
  <2>3. Len(out') = p.from + n  BY <1>3
  <2>4. n \in Nat /\ p.from \in Nat  BY <1>0, <1>1
  <2>5. acked' = acked /\ delta' = delta  BY <1>2
  <2>. QED  BY <2>1, <2>2, <2>3, <2>4, <2>5
<1>6. ReaderInv'
  <2>1. Threshold \in Nat  BY FlowAssumption DEF Threshold
  <2>2. Threshold' = Threshold  BY DEF Threshold
  <2>. QED  BY <2>1, <2>2, <1>0, <1>1, <1>2 DEF IndInv, TypeOK, ReaderInv
<1>7. /\ leftover' = NoBytes => Len(out') = p.to
      /\ leftover' # NoBytes => leftover'.to = p.to /\ Len(out') = leftover'.from
      /\ leftover' \in Frames \cup {NoBytes}
  <2>1. CASE p.from + n < p.to
    <3>1. leftover' \in Frames /\ leftover'.from = p.from + n /\ leftover'.to = p.to
      BY <1>0, <1>1, <1>2, <2>1 DEF Frames
    <3>2. leftover' # NoBytes
      BY <3>1, <2>1, <1>0, <1>1 DEF NoBytes
    <3>. QED  BY <3>1, <3>2, <1>3
  <2>2. CASE ~(p.from + n < p.to)
    <3>1. leftover' = NoBytes  BY <2>2, <1>2
    <3>2. p.from + n = p.to  BY <2>2, <1>0, <1>1
    <3>. QED  BY <3>1, <3>2, <1>3
  <2>. QED  BY <2>1, <2>2
<1>8. Len(out') <= p.to
  BY <1>1, <1>3
<1>. QED  BY <1>2, <1>4, <1>5, <1>6, <1>7, <1>8

\* A read() served from leftover_ keeps the invariant.
LEMMA ReadLeftoverInv ==
  ASSUME IndInv, ReadLeftover
  PROVE  IndInv'
<1> USE DEF ReadLeftover
<1>1. leftover # NoBytes /\ leftover \in Frames
  BY DEF IndInv, TypeOK, NoBytes, Frames
<1>2. leftover.to = InboxLo /\ leftover.from = Len(out)
  BY <1>1 DEF IndInv, QueueInv
<1>3. /\ out' \in Seq(Nat) /\ OutInv'
      /\ leftover' = NoBytes => Len(out') = InboxLo
      /\ leftover' # NoBytes => leftover'.to = InboxLo /\ Len(out') = leftover'.from
      /\ leftover' \in Frames \cup {NoBytes}
      /\ recv_unacked' \in Nat
      /\ acked' + delta' + recv_unacked' = Len(out')
      /\ ReaderInv' /\ rpc' = "ack"
  BY <1>1, <1>2, TakeFromInv
<1>4. InboxLo' = InboxLo /\ DataLo' = DataLo /\ WinLo' = WinLo /\ Framing' = Framing
  BY DEF InboxLo, DataLo, WinLo, Framing, wvars
<1>5. TypeOK'
  BY <1>3 DEF IndInv, TypeOK, wvars
<1>6. QueueInv'
  BY <1>3, <1>4 DEF IndInv, QueueInv, wvars
<1>7. CreditInv' /\ WriterInv' /\ NoLostWakeup'
  BY <1>3, <1>4 DEF IndInv, CreditInv, WriterInv, NoLostWakeup, wvars
<1>. QED  BY <1>3, <1>5, <1>6, <1>7 DEF IndInv

\* A read() that takes the next payload from inbox_ keeps the invariant.
LEMMA ReadInboxInv ==
  ASSUME IndInv, ReadInbox
  PROVE  IndInv'
<1> USE DEF ReadInbox
<1>1. leftover = NoBytes /\ DataLo \in Nat
  BY StartBounded, SMTT(30) DEF IndInv, TypeOK, NoBytes, Frames, QueueInv, DataLo
<1>2. /\ Tail(inbox) \in Seq(Frames) /\ Head(inbox) \in Frames
      /\ Head(inbox).from = InboxLo /\ Chain(Tail(inbox), DataLo)
      /\ Start(Tail(inbox), DataLo) = Head(inbox).to
  <2>1. inbox \in Seq(Frames) /\ inbox # <<>> /\ Chain(inbox, DataLo)
    BY Zenon DEF IndInv, TypeOK, QueueInv
  <2>. QED  BY <1>1, <2>1, ChainTail, Zenon DEF InboxLo
<1>3. Head(inbox).from = Len(out)
  BY <1>1, <1>2 DEF IndInv, QueueInv
<1>4. DataLo' = DataLo /\ InboxLo' = Head(inbox).to /\ WinLo' = WinLo /\ Framing' = Framing
  BY <1>2 DEF InboxLo, DataLo, WinLo, Framing, wvars
<1>5. /\ out' \in Seq(Nat) /\ OutInv'
      /\ leftover' = NoBytes => Len(out') = InboxLo'
      /\ leftover' # NoBytes => leftover'.to = InboxLo' /\ Len(out') = leftover'.from
      /\ leftover' \in Frames \cup {NoBytes}
      /\ recv_unacked' \in Nat
      /\ acked' + delta' + recv_unacked' = Len(out')
      /\ ReaderInv' /\ rpc' = "ack"
  BY <1>2, <1>3, <1>4, TakeFromInv
<1>6. TypeOK'
  BY <1>2, <1>5, SMTT(20) DEF IndInv, TypeOK, wvars
<1>7. QueueInv'
  <2>1. dataQ' = dataQ /\ sent' = sent /\ winQ' = winQ /\ acked' = acked /\ inbox' = Tail(inbox)
    BY Zenon DEF wvars
  <2>2. Chain(dataQ, sent) /\ Chain(winQ, acked)
    BY Zenon DEF IndInv, QueueInv
  <2>3. Chain(dataQ, sent)' /\ Chain(inbox, DataLo)' /\ Chain(winQ, acked)'
    BY <1>2, <1>4, <2>1, <2>2, Zenon DEF Chain
  <2>. QED  BY <1>5, <2>3, Zenon DEF QueueInv
<1>8. CreditInv' /\ WriterInv' /\ NoLostWakeup'
  BY <1>4, <1>5 DEF IndInv, CreditInv, WriterInv, NoLostWakeup, wvars
<1>. QED  BY <1>5, <1>6, <1>7, <1>8 DEF IndInv

\* Announcing consumed bytes keeps the invariant: they move from recv_unacked
\* to delta, then into a WINDOW frame (maybeSendWindow).
LEMMA AckInv ==
  ASSUME IndInv, MaybeSendWindow \/ SendWindow
  PROVE  IndInv'
<1>0. Threshold \in Nat /\ Threshold' = Threshold
  BY FlowAssumption DEF Threshold
<1>1. CASE MaybeSendWindow
  <2>1. TypeOK'
    BY <1>1 DEF MaybeSendWindow, IndInv, TypeOK, wvars
  <2>2. ReaderInv' /\ delta' + recv_unacked' = delta + recv_unacked
    BY <1>0, <1>1 DEF MaybeSendWindow, IndInv, TypeOK, ReaderInv
  <2>3. /\ UNCHANGED <<send_credit, sent, acked, out>>
        /\ WinLo' = WinLo /\ Framing' = Framing
        /\ DataLo' = DataLo /\ InboxLo' = InboxLo
    BY <1>1 DEF MaybeSendWindow, WinLo, Framing, DataLo, InboxLo, wvars
  <2>4. CreditInv'
    <3>1. acked \in Nat /\ delta \in Nat /\ recv_unacked \in Nat
          /\ delta' \in Nat /\ recv_unacked' \in Nat
      BY <2>1 DEF IndInv, TypeOK
    <3>2. acked + delta + recv_unacked = Len(out)
          /\ send_credit + Framing + sent = PeerWindow + WinLo
      BY DEF IndInv, CreditInv
    <3>3. acked' + delta' + recv_unacked' = Len(out')
      <4>1. acked' = acked /\ out' = out  BY <2>3
      <4>2. delta' + recv_unacked' = delta + recv_unacked  BY <2>2
      <4>3. acked' + delta' + recv_unacked' = acked + delta + recv_unacked
        <5>1. PICK d \in Nat : d = delta'  BY <3>1
        <5>2. PICK r \in Nat : r = recv_unacked'  BY <3>1
        <5>3. d + r = delta + recv_unacked  BY <5>1, <5>2, <4>2
        <5>4. acked + d + r = acked + delta + recv_unacked
          BY <5>3, <3>1
        <5>. QED  BY <5>1, <5>2, <5>4, <4>1
      <4>. QED  BY <4>1, <4>3, <3>2
    <3>. QED  BY <2>3, <3>2, <3>3 DEF CreditInv
  <2>5. QueueInv' /\ OutInv' /\ WriterInv' /\ NoLostWakeup'
    BY <1>1, <2>3 DEF MaybeSendWindow, IndInv, QueueInv, OutInv, WriterInv, NoLostWakeup, wvars
  <2>. QED  BY <2>1, <2>2, <2>4, <2>5 DEF IndInv
<1>2. CASE SendWindow
  <2> DEFINE f == [from |-> acked, to |-> acked + delta]
  <2>1. f \in Frames /\ f.from = acked /\ f.to = acked' /\ acked' \in Nat
    BY <1>2 DEF SendWindow, IndInv, TypeOK, ReaderInv, Frames
  <2>2. winQ' \in Seq(Frames) /\ Chain(winQ', acked') /\ WinLo' = WinLo
    BY <1>2, <2>1, ChainAppend, SMTT(20) DEF SendWindow, IndInv, TypeOK, QueueInv, WinLo
  <2>3. TypeOK'
    BY <1>2, <2>1, <2>2 DEF SendWindow, IndInv, TypeOK, wvars
  <2>4. ReaderInv'
    BY <1>0, <1>2 DEF SendWindow, IndInv, TypeOK, ReaderInv
  <2>5. DataLo' = DataLo /\ InboxLo' = InboxLo /\ Framing' = Framing
    BY <1>2 DEF SendWindow, DataLo, InboxLo, Framing, wvars
  <2>6. CreditInv'
    <3>1. acked \in Nat /\ delta \in Nat /\ recv_unacked \in Nat
      BY DEF IndInv, TypeOK
    <3>2. CreditInv  BY DEF IndInv
    <3>3. acked' = acked + delta /\ delta' = 0 /\ recv_unacked' = recv_unacked
          /\ out' = out /\ send_credit' = send_credit /\ sent' = sent
      BY <1>2 DEF SendWindow, wvars
    <3>. QED  BY <2>2, <2>5, <3>1, <3>2, <3>3 DEF CreditInv
  <2>7. QueueInv' /\ OutInv' /\ WriterInv' /\ NoLostWakeup'
    BY <1>2, <2>2, <2>5 DEF SendWindow, IndInv, QueueInv, OutInv, WriterInv, NoLostWakeup, wvars
  <2>. QED  BY <2>3, <2>4, <2>6, <2>7 DEF IndInv
<1>. QED  BY <1>1, <1>2

\* onWindow keeps the invariant: the delta of a WINDOW frame becomes credit.
LEMMA OnWindowInv ==
  ASSUME IndInv, OnWindowCredit \/ OnWindowSignal
  PROVE  IndInv'
<1>1. CASE OnWindowCredit
  <2>1. /\ Tail(winQ) \in Seq(Frames) /\ Head(winQ) \in Frames
        /\ Head(winQ).from = WinLo /\ Chain(Tail(winQ), acked)
        /\ Start(Tail(winQ), acked) = Head(winQ).to
    BY <1>1, ChainTail DEF OnWindowCredit, IndInv, TypeOK, QueueInv, WinLo
  <2>2. /\ WinLo' = Head(winQ).to /\ Framing' = Framing
        /\ DataLo' = DataLo /\ InboxLo' = InboxLo
    BY <1>1, <2>1 DEF OnWindowCredit, WinLo, Framing, DataLo, InboxLo, wvars, rvars
  <2> DEFINE d == Head(winQ).to - Head(winQ).from
  <2>3. send_credit' = send_credit + d /\ d \in Nat /\ d >= 1
    BY <1>1, <2>1 DEF OnWindowCredit, Frames
  <2>4. send_credit \in Nat /\ send_credit' \in Nat /\ send_credit' > send_credit
    <3>1. send_credit \in Nat  BY DEF IndInv, TypeOK, WriterInv
    <3> HIDE DEF d
    <3>. QED  BY <2>3, <3>1
  <2>5. TypeOK'
    BY <1>1, <2>1, <2>4 DEF OnWindowCredit, IndInv, TypeOK, wvars, rvars
  <2>6. WriterInv'
    BY <1>1, <2>4 DEF OnWindowCredit, IndInv, TypeOK, WriterInv, wvars
  <2>7. CreditInv'
    <3>1. Framing \in Int /\ sent \in Nat /\ PeerWindow \in Nat
          /\ Head(winQ).from \in Nat /\ Head(winQ).to \in Nat
      BY <2>1, FlowAssumption DEF IndInv, TypeOK, Framing, Frames
    <3>2. acked + delta + recv_unacked = Len(out)
          /\ send_credit + Framing + sent = PeerWindow + Head(winQ).from
      BY <2>1 DEF IndInv, CreditInv
    <3>3. send_credit' + Framing + sent = PeerWindow + Head(winQ).to
      <4>1. PICK lo \in Nat : lo = Head(winQ).from  BY <3>1
      <4>2. PICK hi \in Nat : hi = Head(winQ).to  BY <3>1
      <4>3. PICK c \in Nat : c = send_credit'  BY <2>4
      <4>4. PICK f \in Int : f = Framing  BY <3>1
      <4>5. c = send_credit + (hi - lo)
        BY <2>3, <4>1, <4>2, <4>3 DEF d
      <4>6. send_credit + f + sent = PeerWindow + lo
        BY <3>2, <4>1, <4>4
      <4>7. c + f + sent = PeerWindow + hi
        BY <4>5, <4>6, <2>4, <3>1
      <4>. QED  BY <4>2, <4>3, <4>4, <4>7
    <3>4. sent' = sent  BY <1>1 DEF OnWindowCredit, wvars
    <3>. QED  BY <1>1, <2>2, <3>2, <3>3, <3>4 DEF OnWindowCredit, CreditInv, rvars
  <2>8. QueueInv'
    BY <1>1, <2>1, <2>2 DEF OnWindowCredit, IndInv, QueueInv, wvars, rvars
  <2>9. OutInv' /\ ReaderInv' /\ NoLostWakeup'
    BY <1>1 DEF OnWindowCredit, IndInv, OutInv, ReaderInv, NoLostWakeup, wvars, rvars
  <2>. QED  BY <2>5, <2>6, <2>7, <2>8, <2>9, SMTT(20) DEF IndInv
<1>2. CASE OnWindowSignal
  <2>1. TypeOK'  BY <1>2 DEF OnWindowSignal, IndInv, TypeOK, wvars, rvars
  <2>2. QueueInv' /\ OutInv'
    BY <1>2 DEF OnWindowSignal, IndInv, QueueInv, OutInv, DataLo, InboxLo, wvars, rvars
  <2>3. CreditInv'
    BY <1>2 DEF OnWindowSignal, IndInv, CreditInv, WinLo, Framing, wvars, rvars
  <2>4. WriterInv' /\ ReaderInv' /\ NoLostWakeup'
    BY <1>2 DEF OnWindowSignal, IndInv, WriterInv, ReaderInv, NoLostWakeup, wvars, rvars
  <2>. QED  BY <2>1, <2>2, <2>3, <2>4 DEF IndInv
<1>. QED  BY <1>1, <1>2

\* Every step of either end or of either link keeps the invariant.
LEMMA NextInv == IndInv /\ [Next]_vars => IndInv'
<1> SUFFICES ASSUME IndInv, [Next]_vars PROVE IndInv'
  OBVIOUS
<1>1. CASE UNCHANGED vars
  <2> USE <1>1 DEF IndInv, vars, wvars, rvars
  <2>1. TypeOK'  BY DEF TypeOK
  <2>2. QueueInv' /\ OutInv'  BY DEF QueueInv, OutInv, DataLo, InboxLo
  <2>3. CreditInv'  BY DEF CreditInv, WinLo, Framing
  <2>4. WriterInv' /\ ReaderInv' /\ NoLostWakeup'
    BY DEF WriterInv, ReaderInv, NoLostWakeup
  <2>. QED  BY <2>1, <2>2, <2>3, <2>4
<1>2. CASE Next
  BY <1>2, WriterLocal, EnqueueInv, OnDataInv, ReadLeftoverInv, ReadInboxInv,
     AckInv, OnWindowInv DEF Next, Write, Read, Dispatch
<1>. QED  BY <1>1, <1>2

\* The invariant holds throughout every execution.
LEMMA IndInvAlways == Spec => []IndInv
  BY InitInv, NextInv, PTL DEF Spec

-------------------------------------------------------------------------------
Ordered ==
  /\ WinLo \in Nat /\ InboxLo \in Nat /\ DataLo \in Nat /\ Len(out) \in Nat
  /\ WinLo <= acked /\ acked <= Len(out) /\ Len(out) <= InboxLo
  /\ InboxLo <= DataLo /\ DataLo <= sent

\* The positions the invariant speaks of are ordered as the bytes flow:
\* credited, announced, read, dispatched, on the link, sent.
LEMMA Positions == IndInv => Ordered
<1> SUFFICES ASSUME IndInv PROVE Ordered  OBVIOUS
<1>1. DataLo \in Nat /\ DataLo <= sent
  BY StartBounded DEF IndInv, TypeOK, QueueInv, DataLo
<1>2. InboxLo \in Nat /\ InboxLo <= DataLo
  BY <1>1, StartBounded DEF IndInv, TypeOK, QueueInv, InboxLo
<1>3. WinLo \in Nat /\ WinLo <= acked
  BY StartBounded DEF IndInv, TypeOK, QueueInv, WinLo
<1>4. Len(out) \in Nat /\ acked \in Nat /\ delta \in Nat /\ recv_unacked \in Nat
  BY DEF IndInv, TypeOK
<1>5. acked <= Len(out)
  BY <1>4 DEF IndInv, CreditInv
<1>6. Len(out) <= InboxLo
  <2>1. CASE leftover = NoBytes
    BY <2>1, <1>2 DEF IndInv, QueueInv
  <2>2. CASE leftover # NoBytes
    <3>1. leftover \in Frames  BY <2>2 DEF IndInv, TypeOK
    <3>. QED  BY <2>2, <3>1, <1>2 DEF IndInv, QueueInv, Frames
  <2>. QED  BY <2>1, <2>2
<1>. QED  BY <1>1, <1>2, <1>3, <1>4, <1>5, <1>6 DEF Ordered

\* Every counter and queue of both ends keeps its type.
THEOREM TypeCorrect == Spec => []TypeOK
<1>1. IndInv => TypeOK  BY DEF IndInv
<1>. QED  BY <1>1, IndInvAlways, PTL

\* For every pair of windows, frame size, buffer size and queue capacity, and
\* in every interleaving of write() with the link's strand, credit is neither
\* created nor lost (send_credit_, recv_unacked_ and the WINDOW deltas).
THEOREM CreditConservation == Spec => []CreditConserved
<1>1. IndInv => CreditConserved
  <2> SUFFICES ASSUME IndInv PROVE CreditConserved  OBVIOUS
  <2>1. PICK w \in Nat : w = WinLo  BY Positions DEF Ordered
  <2>2. PICK f \in Nat : f = Framing  BY DEF IndInv, TypeOK, Framing
  <2>3. PICK n \in Nat : n = Len(out)  BY Positions DEF Ordered
  <2>4. /\ acked \in Nat /\ delta \in Nat /\ recv_unacked \in Nat
        /\ sent \in Nat /\ send_credit \in Int /\ PeerWindow \in Nat
    BY FlowAssumption DEF IndInv, TypeOK
  <2>5. acked + delta + recv_unacked = n /\ send_credit + f + sent = PeerWindow + w
    BY <2>1, <2>2, <2>3 DEF IndInv, CreditInv
  <2>6. send_credit + f + (sent - n) + recv_unacked + delta + (acked - w) = PeerWindow
    BY <2>4, <2>5
  <2>. QED  BY <2>1, <2>2, <2>3, <2>6 DEF CreditConserved
<1>. QED  BY <1>1, IndInvAlways, PTL

\* send_credit_ stays between 0 and the first window although write() loads it
\* twice before it subtracts, and recv_unacked_ stays below half a window
\* plus one read.
THEOREM CountersBounded == Spec => []CountersInRange
<1>1. IndInv => CountersInRange
  <2> SUFFICES ASSUME IndInv PROVE CountersInRange  OBVIOUS
  <2>1. PICK w \in Nat : w = WinLo  BY Positions DEF Ordered
  <2>2. PICK f \in Nat : f = Framing  BY DEF IndInv, TypeOK, Framing
  <2>3. /\ send_credit \in Nat /\ sent \in Nat /\ PeerWindow \in Nat
        /\ send_credit + f + sent = PeerWindow + w
    BY <2>1, <2>2, FlowAssumption DEF IndInv, TypeOK, WriterInv, CreditInv
  <2>4. w <= sent
    BY <2>1, Positions DEF Ordered, IndInv, TypeOK
  <2>5. send_credit \in 0..PeerWindow
    BY <2>3, <2>4
  <2>6. Threshold \in Nat /\ ReadBuf \in Nat  BY FlowAssumption DEF Threshold
  <2>7. recv_unacked < Threshold + ReadBuf + 1
    BY <2>6 DEF IndInv, TypeOK, ReaderInv
  <2>. QED  BY <2>5, <2>7 DEF CountersInRange
<1>. QED  BY <1>1, IndInvAlways, PTL

\* The one-slot credit_signal_ loses no wake-up: a writer that sleeps although
\* it has credit has a signal buffered or about to be sent.
THEOREM WakeupKept == Spec => []NoLostWakeup
<1>1. IndInv => NoLostWakeup  BY DEF IndInv
<1>. QED  BY <1>1, IndInvAlways, PTL

\* If the writer's first window is not zero and reaches half of the reader's
\* window, no state of the two ends is one in which the writer sleeps and
\* nothing can wake it (the threshold in maybeSendWindow).
THEOREM StallFree == Spec => []NoStall
<1>1. IndInv => NoStall
  <2> SUFFICES ASSUME IndInv, PeerWindow > 0, PeerWindow >= Threshold,
                      wpc = "wait", credit_signal = 0, opc = "idle",
                      dataQ = <<>>, inbox = <<>>, leftover = NoBytes,
                      rpc = "read", winQ = <<>>
               PROVE  FALSE
    BY DEF NoStall
  <2>1. send_credit = 0
    BY DEF IndInv, TypeOK, WriterInv, NoLostWakeup
  <2>2. WinLo = acked /\ Framing = 0 /\ Len(out) = sent
    BY DEF IndInv, QueueInv, WinLo, Framing, InboxLo, DataLo, Start
  <2>3. delta = 0 /\ (recv_unacked < Threshold \/ recv_unacked = 0)
    BY DEF IndInv, ReaderInv
  <2>4. /\ acked \in Nat /\ recv_unacked \in Nat /\ sent \in Nat
        /\ PeerWindow \in Nat /\ Threshold \in Nat
    BY FlowAssumption DEF IndInv, TypeOK, Threshold
  <2>5. acked + recv_unacked = sent /\ sent = PeerWindow + acked
    BY <2>1, <2>2, <2>3, <2>4 DEF IndInv, CreditInv
  <2>. QED  BY <2>3, <2>4, <2>5
<1>. QED  BY <1>1, IndInvAlways, PTL

\* A step that hands bytes to the caller of read() is a delivery of the
\* abstract stream.
LEMMA TakeIsDeliver ==
  ASSUME IndInv, IndInv', sent' = sent, NEW p \in Frames, p.from = Len(out),
         TakeFrom(p)
  PROVE  Stream!Deliver
<1> DEFINE n == MinOf(ReadBuf, p.to - p.from)
           hi == p.from + n
<1>1. out' = out \o Bytes(Len(out), hi)
  BY DEF TakeFrom
<1>2. n \in Nat /\ n >= 1 /\ p.from \in Nat
  BY FlowAssumption DEF Frames, MinOf
<1>3. hi \in Nat /\ hi > Len(out) /\ Len(out) \in Nat
  <2> HIDE DEF n
  <2>. QED  BY <1>2
<1>4. Len(out') = hi
  <2>1. out = Bytes(0, Len(out))  BY DEF IndInv, OutInv
  <2>2. Len(Bytes(0, Len(out)) \o Bytes(Len(out), hi)) = hi
    <3> HIDE DEF hi
    <3>. QED  BY <1>3, BytesConcat
  <2>. QED  BY <1>1, <2>1, <2>2
<1>5. PICK m \in Nat : m = Len(out)  BY <1>3
<1>6. hi <= sent /\ sent \in Nat
  <2>1. Len(out') <= sent'
    <3>1. Ordered'  BY Positions, PTL
    <3>2. sent' \in Nat  BY DEF IndInv, TypeOK
    <3>3. PICK i \in Nat : i = InboxLo'  BY <3>1 DEF Ordered
    <3>4. PICK d \in Nat : d = DataLo'  BY <3>1 DEF Ordered
    <3>5. Len(out') \in Nat /\ Len(out') <= i /\ i <= d /\ d <= sent'
      BY <3>1, <3>3, <3>4 DEF Ordered
    <3>. QED  BY <3>2, <3>5
  <2>. QED  BY <2>1, <1>4 DEF IndInv, TypeOK
<1> HIDE DEF hi, n
<1>7. hi \in (Len(out) + 1)..sent
  BY <1>3, <1>6
<1>. QED  BY <1>1, <1>7 DEF Stream!Deliver, Stream!Bytes, Bytes

\* Enqueuing a DATA frame in write() is a send of the abstract stream.
LEMMA EnqueueIsSend ==
  ASSUME IndInv, IndInv', WriteEnqueue
  PROVE  Stream!Send
<1>1. out' = out /\ sent' \in Nat /\ sent \in Nat
  BY DEF WriteEnqueue, rvars, IndInv, TypeOK
<1>2. sent' > sent
  <2>1. wpc = "enqueue" /\ sent' = sent + chunk  BY DEF WriteEnqueue
  <2>2. remaining \in Nat /\ (wpc \in {"debit", "enqueue"} => chunk \in 1..remaining)
    BY DEF IndInv, TypeOK, WriterInv
  <2>. QED  BY <1>1, <2>1, <2>2
<1>3. Ordered'  BY Positions, PTL
<1>4. PICK w \in Nat : w = WinLo'  BY <1>3 DEF Ordered
<1>5. PICK f \in Nat : f = Framing'  BY SMTT(30) DEF IndInv, TypeOK, Framing
<1>6. PICK c \in Nat : c = send_credit'  BY DEF IndInv, TypeOK, WriterInv
<1>7. PICK n \in Nat : n = Len(out')  BY <1>3 DEF Ordered
<1>8. c + f + sent' = PeerWindow + w /\ PeerWindow \in Nat
  BY <1>4, <1>5, <1>6, FlowAssumption DEF IndInv, CreditInv
<1>9. w <= n
  <2>1. PICK a \in Nat : a = acked'  BY DEF IndInv, TypeOK
  <2>2. w <= a /\ a <= n
    BY <2>1, <1>3, <1>4, <1>7 DEF Ordered
  <2>. QED  BY <2>2
<1>10. sent' - n <= PeerWindow
  <2>1. PICK s \in Nat : s = sent'  BY <1>1
  <2>2. c + f + s = PeerWindow + w  BY <2>1, <1>8, Zenon
  <2>3. s - n <= PeerWindow  BY <2>2, <1>8, <1>9
  <2>. QED  BY <2>1, <2>3
<1>. QED  BY <1>1, <1>2, <1>7, <1>10 DEF Stream!Send

\* Every step of the data path is a step of the abstract stream or leaves it
\* alone.
LEMMA StepRefines ==
  ASSUME IndInv, IndInv', [Next]_vars
  PROVE  [Stream!Next]_(Stream!vars)
<1>1. CASE WriteEnqueue
  BY <1>1, EnqueueIsSend DEF Stream!Next
<1>2. CASE ReadLeftover
  <2>1. leftover \in Frames /\ leftover.from = Len(out)
    <3>1. leftover # NoBytes  BY <1>2 DEF ReadLeftover, NoBytes
    <3>. QED  BY <3>1 DEF IndInv, TypeOK, QueueInv
  <2>2. sent' = sent /\ TakeFrom(leftover)
    BY <1>2 DEF ReadLeftover, wvars
  <2>. QED  BY <2>1, <2>2, TakeIsDeliver DEF Stream!Next
<1>3. CASE ReadInbox
  <2>1. Len(out) = InboxLo /\ inbox # <<>>
    <3>1. leftover.from = leftover.to /\ inbox # <<>>  BY <1>3 DEF ReadInbox
    <3>2. leftover \in Frames \cup {NoBytes}  BY DEF IndInv, TypeOK
    <3>3. leftover = NoBytes  BY <3>1, <3>2 DEF Frames
    <3>. QED  BY <3>1, <3>3 DEF IndInv, QueueInv
  <2>2. Head(inbox) \in Frames /\ Head(inbox).from = Len(out)
    <3>1. inbox \in Seq(Frames)  BY DEF IndInv, TypeOK
    <3>2. Head(inbox) \in Frames /\ Head(inbox) = inbox[1]
      BY <2>1, <3>1, FirstTaken
    <3>. QED  BY <2>1, <3>2 DEF InboxLo, Start
  <2>3. sent' = sent /\ TakeFrom(Head(inbox))
    BY <1>3 DEF ReadInbox, wvars
  <2>. QED  BY <2>2, <2>3, TakeIsDeliver DEF Stream!Next
<1>4. CASE UNCHANGED <<sent, out>>
  BY <1>4 DEF Stream!vars
<1>5. CASE \E n \in 1..MaxWrite : WriteCall(n)
  BY <1>4, <1>5 DEF WriteCall, rvars
<1>6. CASE WriteCheckCredit \/ WriteWake \/ WriteChooseChunk \/ WriteDebit
  BY <1>4, <1>6 DEF WriteCheckCredit, WriteWake, WriteChooseChunk, WriteDebit, rvars
<1>7. CASE OnData \/ MaybeSendWindow \/ SendWindow
  BY <1>4, <1>7 DEF OnData, MaybeSendWindow, SendWindow, wvars
<1>8. CASE OnWindowCredit \/ OnWindowSignal
  BY <1>4, <1>8 DEF OnWindowCredit, OnWindowSignal, wvars, rvars
<1>9. CASE UNCHANGED vars
  BY <1>4, <1>9 DEF vars, wvars, rvars
<1>. QED  BY <1>1, <1>2, <1>3, <1>5, <1>6, <1>7, <1>8, <1>9
         DEF Next, Write, Read, Dispatch

\* The data path of a session implements the abstract byte stream for every
\* value of its constants: what read() returns is what write() was given,
\* once and in order, and never more than the first window is outstanding.
THEOREM Refinement == Spec => ImplementsByteStream
<1>1. Init => Stream!Init
  BY DEF Init, Stream!Init
<1>2. IndInv /\ IndInv' /\ [Next]_vars => [Stream!Next]_(Stream!vars)
  BY StepRefines
<1>. QED  BY <1>1, <1>2, IndInvAlways, PTL DEF Spec, Stream!Spec, ImplementsByteStream
===============================================================================
