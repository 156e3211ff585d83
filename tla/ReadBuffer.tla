------------------------------ MODULE ReadBuffer ------------------------------
(***************************************************************************)
(* ReadBuffer under the read loop of a Link (readerLoop, and the one()     *)
(* loop of the handshake): parse a frame, consume it, read more bytes when *)
(* the frame is incomplete.  The k-th byte the peer sends is the number k, *)
(* so that what the buffer holds can be compared with what was sent.       *)
(***************************************************************************)
EXTENDS Integers

CONSTANTS Initial,    \* first capacity (16 KiB in the code)
          Need,       \* argument of ensure_writable (16 KiB in the code)
          MaxFrame,   \* longest frame the peer sends
          MaxBytes    \* bound: bytes the peer sends

ASSUME BufferAssumption ==
  Initial \in Nat /\ Need \in Nat \ {0} /\ MaxFrame \in Nat \ {0} /\ MaxBytes \in Nat

VARIABLES
  buf,     \* the ReadBuffer: head_, size_, the vector's size and its bytes
  got,     \* bytes received so far
  taken,   \* bytes of the frames consumed so far
  frame,   \* length of the frame that begins at head_
  pc       \* "parse", or "read" (suspended in async_read_some)

bufferVars == <<buf, got, taken, frame, pc>>

BufferInit ==
  /\ buf = [head |-> 0, size |-> 0, cap |-> Initial, mem |-> [i \in 0..(Initial - 1) |-> 0]]
  /\ got = 0 /\ taken = 0 /\ frame \in 1..MaxFrame /\ pc = "parse"
-------------------------------------------------------------------------------
writable_size(b) == b.cap - b.size
readable(b) == b.size - b.head

\* Mutant: the bytes are moved from where head_ was reset to.
MovedNowhere(b, h) == [b EXCEPT !.head = 0, !.size = b.size - h]

\* memmove of the bytes from h to the front.
Moved(b, h) ==
  [head |-> 0, size |-> b.size - h, cap |-> b.cap,
   mem |-> [i \in 0..(b.cap - 1) |-> IF i < b.size - h THEN b.mem[h + i] ELSE b.mem[i]]]

consume(b, n) ==
  LET h == b.head + n IN
  IF h >= b.size THEN [b EXCEPT !.head = 0, !.size = 0]
  ELSE IF h > b.cap \div 2 THEN Moved(b, h)
  ELSE [b EXCEPT !.head = h]

\* Mutant: the vector is doubled whatever is needed.
newCapDouble(b, n) == 2 * b.cap

newCap(b, n) ==
  LET need == b.size - b.head + n IN IF 2 * b.cap >= need THEN 2 * b.cap ELSE need

\* buf_.resize, which keeps the bytes and zeroes the new ones.
Grown(b, n) ==
  [head |-> b.head, size |-> b.size, cap |-> newCap(b, n),
   mem |-> [i \in 0..(newCap(b, n) - 1) |-> IF i < b.cap THEN b.mem[i] ELSE 0]]

ensure_writable(b, n) ==
  LET c == IF b.head > 0 THEN consume(b, 0) ELSE b IN
  IF writable_size(b) >= n THEN b
  ELSE IF writable_size(c) >= n THEN c
  ELSE Grown(c, n)

\* async_read_some stores k bytes in the writable area; committed(k).
Stored(b, k) ==
  [head |-> b.head, size |-> b.size + k, cap |-> b.cap,
   mem |-> [i \in 0..(b.cap - 1) |->
              IF i >= b.size /\ i < b.size + k THEN got + (i - b.size) ELSE b.mem[i]]]
-------------------------------------------------------------------------------
\* tryParse returns a frame; it is dispatched and consumed.
Consume ==
  /\ pc = "parse" /\ readable(buf) >= frame
  /\ buf' = consume(buf, frame)
  /\ taken' = taken + frame
  /\ frame' \in 1..MaxFrame
  /\ UNCHANGED <<got, pc>>

\* tryParse returns 0: make room and wait for bytes.
StartRead ==
  /\ pc = "parse" /\ readable(buf) < frame
  /\ buf' = ensure_writable(buf, Need)
  /\ pc' = "read"
  /\ UNCHANGED <<got, taken, frame>>

ReadSome ==
  /\ pc = "read"
  /\ \E k \in 1..writable_size(buf) :
       /\ got + k <= MaxBytes
       /\ buf' = Stored(buf, k)
       /\ got' = got + k
  /\ pc' = "parse"
  /\ UNCHANGED <<taken, frame>>

BufferNext == Consume \/ StartRead \/ ReadSome
BufferSpec == BufferInit /\ [][BufferNext]_bufferVars
-------------------------------------------------------------------------------
BufferTypeOK ==
  /\ buf.head \in Nat /\ buf.size \in Nat /\ buf.cap \in Nat
  /\ buf.head <= buf.size /\ buf.size <= buf.cap
  /\ got \in Nat /\ taken \in Nat /\ frame \in 1..MaxFrame /\ pc \in {"parse", "read"}

\* Between head_ and size_ the buffer holds exactly the bytes received and not
\* yet consumed, in order: no move or growth loses, repeats or shifts a byte.
Contents ==
  /\ taken + readable(buf) = got
  /\ \A i \in 0..(buf.cap - 1) :
       buf.head <= i /\ i < buf.size => buf.mem[i] = taken + (i - buf.head)

\* A read always has Need bytes of room (a read into no room returns 0, which
\* readerLoop takes for the end of the stream and fails the link).
RoomToRead == pc = "read" => writable_size(buf) >= Need

\* However long the link lives, the buffer grows no further than four times
\* the longest frame and the room asked for.
CapBounded == buf.cap <= Initial \/ buf.cap <= 4 * (MaxFrame + Need)
===============================================================================
