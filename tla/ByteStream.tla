------------------------------ MODULE ByteStream ------------------------------
(***************************************************************************)
(* What one direction of a shine session promises to the code above it     *)
(* (ISessionStream in src/src/transport/session_stream.hpp): the bytes     *)
(* handed to write() come out of read() exactly once and in order, and the *)
(* number of bytes that are sent and not yet read never exceeds a window.  *)
(* A byte is named by its position in the writer's stream.                 *)
(***************************************************************************)
EXTENDS Integers, Sequences

CONSTANT Window          \* bytes that may be outstanding

VARIABLES sent,          \* bytes accepted from the writer
          out            \* positions returned to the reader, in order

vars == <<sent, out>>

Init == sent = 0 /\ out = <<>>

Send == /\ sent' \in Nat
        /\ sent' > sent
        /\ sent' - Len(out) <= Window
        /\ UNCHANGED out

\* The bytes from position lo up to but excluding hi.
Bytes(lo, hi) == [i \in 1..(hi - lo) |-> lo + i - 1]

Deliver == \E hi \in (Len(out) + 1)..sent :
              /\ out' = out \o Bytes(Len(out), hi)
              /\ UNCHANGED sent

Next == Send \/ Deliver

Spec == Init /\ [][Next]_vars
===============================================================================
