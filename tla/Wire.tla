--------------------------------- MODULE Wire ---------------------------------
(***************************************************************************)
(* The wire format of a link: how frames are encoded (encodeXxx,           *)
(* Resp2Writer) and how the reader finds and decodes them in the bytes it  *)
(* has (Resp2Parser::tryParse, decodeShineFrame).  LinkReader runs them    *)
(* over a ReadBuffer; Proxy models the address blobs.                      *)
(*                                                                         *)
(* A byte is a one-character token.  Numbers on the wire are short: bulk   *)
(* and array lengths are one decimal digit, a command name is one token, a *)
(* sid or nonce has SidLen bytes and a u32 has U32Len, in base Base.       *)
(***************************************************************************)
EXTENDS Integers, Sequences, SequencesExt

Base == 3
SidLen == 2            \* 8 in the code
U32Len == 1            \* 4 in the code
Magic == "D"           \* kDataMagic

Digits == <<"0", "1", "2", "3", "4", "5", "6", "7", "8", "9">>
Chr(n) == Digits[n + 1]
Val(c) == CHOOSE n \in 0..9 : Chr(n) = c
Crlf == <<"\r", "\n">>
-------------------------------------------------------------------------------
\* putU32BE, putU64BE and their readers.
putBE(v, w) == [i \in 1..w |-> Chr((v \div Base ^ (w - i)) % Base)]
readBE(s) == FoldLeft(LAMBDA acc, c : acc * Base + Val(c), 0, s)

writeBulk(p) == <<"$", Chr(Len(p))>> \o Crlf \o p \o Crlf
writeArray(parts) ==
  <<"*", Chr(Len(parts))>> \o Crlf \o FlattenSeq([i \in 1..Len(parts) |-> writeBulk(parts[i])])
-------------------------------------------------------------------------------
\* What each encoder writes after the command, and what decodeShineFrame takes
\* (at least) from an array with that command.  NEW_TCP is the command NEW; a
\* nonce is a sid and an address blob a string, which dispatchFrame parses.
Encodes ==
  [HELLO |-> <<"str", "str">>, AUTH |-> <<"str">>, OK |-> <<>>, ERR |-> <<"str", "str">>,
   NEW_TCP |-> <<"sid", "str", "u32">>, ACK |-> <<"sid">>, CLOSE |-> <<"sid", "str">>,
   RESET |-> <<"sid">>, WINDOW |-> <<"sid", "u32">>, PING |-> <<"sid">>, PONG |-> <<"sid">>,
   NEW_UDP |-> <<"sid">>, UDP_DATA |-> <<"sid", "str", "str">>]

Decodes == [Encodes EXCEPT !.CLOSE = <<"sid">>]

Width == [sid |-> SidLen, u32 |-> U32Len]
EncodeArg(kind, v) == IF kind = "str" THEN v ELSE putBE(v, Width[kind])
ArgOk(kind, s) == kind = "str" \/ Len(s) = Width[kind]
DecodeArg(kind, s) == IF kind = "str" THEN s ELSE readBE(s)

Frame(cmd, args) == [cmd |-> cmd, args |-> args]
NoFrame == Frame("", <<>>)

encode(f) ==
  IF f.cmd = "DATA"
    THEN writeBulk(<<Magic>> \o putBE(f.args[1], SidLen) \o f.args[2])
    ELSE writeArray(<<<<f.cmd>>>> \o
           [i \in 1..Len(f.args) |-> EncodeArg(Encodes[f.cmd][i], f.args[i])])

decodeData(b) ==
  IF Len(b) < 1 + SidLen \/ b[1] # Magic THEN NoFrame
  ELSE Frame("DATA", <<readBE(SubSeq(b, 2, 1 + SidLen)), SubSeq(b, 2 + SidLen, Len(b))>>)

\* CLOSE takes a reason when there is one.
decodeArray(arr) ==
  LET cmd == arr[1][1]
      kinds == IF cmd = "CLOSE" /\ Len(arr) >= 3 THEN <<"sid", "str">> ELSE Decodes[cmd]
  IN IF arr = <<>> \/ cmd \notin DOMAIN Decodes \/ Len(arr) < Len(kinds) + 1
          \/ \E i \in 1..Len(kinds) : ~ArgOk(kinds[i], arr[i + 1])
       THEN NoFrame
       ELSE Frame(cmd, [i \in 1..Len(kinds) |-> DecodeArg(kinds[i], arr[i + 1])])
-------------------------------------------------------------------------------
\* findCrlf: the first CRLF at or after from, 0 for npos.
findCrlf(d, from) ==
  LET at == {i \in from..(Len(d) - 1) : d[i] = "\r" /\ d[i + 1] = "\n"} IN
  IF at = {} THEN 0 ELSE CHOOSE i \in at : \A j \in at : i <= j

Incomplete == [st |-> "incomplete", val |-> <<>>, end |-> 0]
Bad == [st |-> "error", val |-> <<>>, end |-> 0]

\* The number between from and the CRLF at to.
IsLength(d, from, to) == to = from + 1 /\ d[from] \in ToSet(Digits)

\* Mutant: the body ends at the first CRLF, whatever the length says.
parseBulkScan(d, off) ==
  IF off > Len(d) THEN Incomplete
  ELSE IF d[off] # "$" THEN Bad
  ELSE LET hdr == findCrlf(d, off + 1) IN
       IF hdr = 0 THEN Incomplete
       ELSE LET last == findCrlf(d, hdr + 2) IN
            IF last = 0 THEN Incomplete
            ELSE [st |-> "ok", val |-> SubSeq(d, hdr + 2, last - 1), end |-> last + 2]

\* Mutant: a body whose CRLF is the last of the buffer is held back.
parseBulkLate(d, off) ==
  IF off > Len(d) THEN Incomplete
  ELSE IF d[off] # "$" THEN Bad
  ELSE LET hdr == findCrlf(d, off + 1) IN
       IF hdr = 0 THEN Incomplete
       ELSE LET last == hdr + 2 + Val(d[off + 1]) IN
            IF last + 1 >= Len(d) THEN Incomplete
            ELSE [st |-> "ok", val |-> SubSeq(d, hdr + 2, last - 1), end |-> last + 2]

\* end is the position after the value.
parseBulkString(d, off) ==
  IF off > Len(d) THEN Incomplete
  ELSE IF d[off] # "$" THEN Bad
  ELSE LET hdr == findCrlf(d, off + 1) IN
       IF hdr = 0 THEN Incomplete
       ELSE IF ~IsLength(d, off + 1, hdr) THEN Bad
       ELSE LET body == hdr + 2
                last == body + Val(d[off + 1])
            IN IF last + 1 > Len(d) THEN Incomplete
               ELSE IF d[last] # "\r" \/ d[last + 1] # "\n" THEN Bad
               ELSE [st |-> "ok", val |-> SubSeq(d, body, last - 1), end |-> last + 2]

\* The loop over an array's elements: it stops at the first that is not there.
parseElement(d, acc) ==
  IF acc.st # "ok" THEN acc
  ELSE LET e == parseBulkString(d, acc.end) IN
       IF e.st # "ok" THEN e ELSE [e EXCEPT !.val = Append(acc.val, e.val)]

parseArray(d) ==
  LET hdr == findCrlf(d, 2) IN
  IF hdr = 0 THEN Incomplete
  ELSE IF ~IsLength(d, 2, hdr) THEN Bad
  ELSE FoldLeft(LAMBDA acc, i : parseElement(d, acc), [st |-> "ok", val |-> <<>>, end |-> hdr + 2],
                [i \in 1..Val(d[2]) |-> i])

tryParse(d) ==
  IF d = <<>> THEN Incomplete
  ELSE IF d[1] = "$" THEN parseBulkString(d, 1)
  ELSE IF d[1] = "*" THEN parseArray(d)
  ELSE Bad
===============================================================================
