------------------------------ MODULE LinkReader ------------------------------
(***************************************************************************)
(* readerLoop: frames encoded by the peer arrive in pieces of any size in  *)
(* the ReadBuffer, and are parsed and decoded from the bytes it holds.     *)
(* This composes ReadBuffer, whose k-th byte is the number k and whose     *)
(* frames are only lengths, with the wire format: byte k is the k-th token *)
(* of what the peer wrote, and the frames are those tryParse finds.        *)
(***************************************************************************)
EXTENDS ReadBuffer, Wire

CONSTANTS Payloads,    \* payloads, reasons and other strings
          MaxFrames    \* bound: frames the peer sends

VARIABLES
  sent,      \* the frames the peer sends
  frames,    \* the frames dispatched
  closed     \* "no", "eof" or, after a frame that does not parse, "error"

readerVars == <<buf, got, taken, frame, pc, sent, frames, closed>>

Arguments ==
  LET One == {<<Base>>}
      Str == {<<s>> : s \in Payloads}
  IN [HELLO |-> {<<<<"1">>, <<>>>>}, AUTH |-> Str, OK |-> {<<>>}, ERR |-> {<<<<"a">>, Crlf>>},
      NEW_TCP |-> {Base} \X Payloads \X {2}, ACK |-> One, CLOSE |-> {Base} \X Payloads,
      RESET |-> One, WINDOW |-> {Base} \X {2}, PING |-> One, PONG |-> One, NEW_UDP |-> One,
      UDP_DATA |-> {<<Base, <<"a">>, Crlf>>}, DATA |-> {Base} \X Payloads]

Frames == UNION {{Frame(cmd, args) : args \in Arguments[cmd]} : cmd \in DOMAIN Arguments}

\* What the peer writes, and the length of its n-th frame (of a byte that
\* never comes, after the last).
Stream == FlattenSeq([i \in 1..Len(sent) |-> encode(sent[i])])
Length(n) == IF n <= Len(sent) THEN Len(encode(sent[n])) ELSE 1

ReaderInit ==
  /\ sent \in [1..MaxFrames -> Frames]
  /\ frames = <<>> /\ closed = "no"
  /\ BufferInit /\ frame = Length(1)
-------------------------------------------------------------------------------
\* data() and size(): the bytes between head_ and size_.
Readable ==
  LET bytes == Stream IN [i \in 1..readable(buf) |-> bytes[buf.mem[buf.head + i - 1] + 1]]

decodeShineFrame(type, val) == IF type = "$" THEN decodeData(val) ELSE decodeArray(val)

\* tryParse found a frame, or bytes that cannot begin one.  A frame is
\* dispatched and consumed; one that does not decode is consumed.
Received ==
  /\ closed = "no" /\ pc = "parse"
  /\ LET bytes == Readable
         r == tryParse(bytes)
         f == IF r.st = "ok" THEN decodeShineFrame(bytes[1], r.val) ELSE NoFrame
     IN /\ r.st # "incomplete"
        /\ IF r.st = "ok"
             THEN buf' = consume(buf, r.end - 1) /\ taken' = taken + (r.end - 1)
             ELSE UNCHANGED <<buf, taken>>
        /\ IF f # NoFrame
             THEN frames' = Append(frames, f) /\ frame' = Length(Len(frames) + 2)
                    /\ UNCHANGED closed
             ELSE closed' = "error" /\ UNCHANGED <<frames, frame>>
  /\ UNCHANGED <<got, pc, sent>>

MakeRoom ==
  /\ closed = "no" /\ pc = "parse" /\ tryParse(Readable).st = "incomplete"
  /\ buf' = ensure_writable(buf, Need)
  /\ pc' = "read"
  /\ UNCHANGED <<got, taken, frame, sent, frames, closed>>

BytesArrive ==
  /\ closed = "no" /\ got < Len(Stream) /\ ReadSome /\ got' <= Len(Stream)
  /\ UNCHANGED <<sent, frames, closed>>

\* The peer goes away, at the end of a frame or inside one.
PeerEof ==
  /\ closed = "no" /\ pc = "read" /\ closed' = "eof"
  /\ UNCHANGED <<buf, got, taken, frame, pc, sent, frames>>

ReaderNext == Received \/ MakeRoom \/ BytesArrive \/ PeerEof
ReaderSpec == ReaderInit /\ [][ReaderNext]_readerVars
-------------------------------------------------------------------------------
\* The frames decoded are the frames encoded, in order, whatever their payloads
\* hold (a CRLF, a '$') and wherever the stream is cut; the link never fails on
\* what its peer's encoders wrote.
FramesInOrder ==
  /\ closed # "error" /\ Len(frames) <= Len(sent)
  /\ \A i \in 1..Len(frames) : frames[i] = sent[i]

\* readerLoop uses the buffer as ReadBuffer says: it waits for bytes only while
\* the bytes of the next frame are not all there (tryParse holds no frame back)
\* and consumes exactly that frame.  The theorems on ReadBuffer, which are about
\* frames of any length, are so about the frames of the wire format.
ReadsByFrames == BufferSpec
===============================================================================
