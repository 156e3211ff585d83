----------------------------- MODULE SessionFlow ------------------------------
(***************************************************************************)
(* The data path of one direction of a TCP session and its credit-based    *)
(* flow control: Session::write at one end, Session::read at the other,    *)
(* the two link queues between them, Link::dispatchFrame for DATA and      *)
(* WINDOW.  No end closes here; module Session adds the life cycle.        *)
(*                                                                         *)
(* A byte is named by its position in the writer's stream, so a DATA frame *)
(* is an interval [from, to) of positions.  Steps are as fine as the       *)
(* atomics and the suspension points of the code: write() runs on the      *)
(* executor's threads while onWindow() runs on the link's strand.          *)
(***************************************************************************)
EXTENDS Integers, Sequences

CONSTANTS
  PeerWindow,     \* peer_initial_window: the writer's first send_credit_
  OurWindow,      \* our_initial_window_ of the reading end
  MaxDataFrame,   \* LinkOptions::max_data_frame
  ReadBuf,        \* size of the buffer given to read() (32 KiB in halfCopy)
  MaxWrite,       \* largest span given to one write() call
  Total,          \* bound: bytes written in all
  QueueCap,       \* bound of a link's path: write_chan_, socket, read_buf_
  InboxCap        \* slots of inbox_ (1024)

ASSUME FlowAssumption ==
  /\ PeerWindow \in Nat /\ OurWindow \in Nat /\ Total \in Nat
  /\ \A c \in {MaxDataFrame, ReadBuf, MaxWrite, QueueCap, InboxCap} :
        c \in Nat \ {0}

VARIABLES
  wpc,            \* where write() stands
  remaining,      \* bytes of the current write() still to be framed
  chunk,          \* size chosen for the next DATA frame
  send_credit,
  credit_signal,  \* messages buffered in credit_signal_ (0 or 1)
  sent,           \* position after the last byte enqueued
  dataQ,          \* DATA frames on their way to the reader's link
  inbox,          \* payloads in inbox_
  leftover,       \* unread rest of the last payload, empty if from = to
  out,            \* positions returned by read(), in order (history)
  rpc,            \* where read() stands
  recv_unacked,
  delta,          \* amount taken by the exchange in maybeSendWindow
  acked,          \* bytes announced in WINDOW frames so far (history)
  winQ,           \* WINDOW frames on their way back; delta is to - from
  opc             \* where onWindow() stands at the writer's link

wvars == <<wpc, remaining, chunk, sent>>
rvars == <<inbox, leftover, out, rpc, recv_unacked, delta, acked>>
vars  == <<wvars, send_credit, credit_signal, dataQ, rvars, winQ, opc>>

Frames == {f \in [from : Nat, to : Nat] : f.from < f.to}
NoBytes == [from |-> 0, to |-> 0]
MinOf(a, b) == IF a <= b THEN a ELSE b
Bytes(lo, hi) == [i \in 1..(hi - lo) |-> lo + i - 1]

Init ==
  /\ wpc = "idle" /\ remaining = 0 /\ chunk = 0 /\ sent = 0
  /\ send_credit = PeerWindow /\ credit_signal = 0
  /\ dataQ = <<>> /\ winQ = <<>> /\ opc = "idle"
  /\ inbox = <<>> /\ leftover = NoBytes /\ out = <<>>
  /\ rpc = "read" /\ recv_unacked = 0 /\ delta = 0 /\ acked = 0

-------------------------------------------------------------------------------
(* The writing end: Session::write, one action per atomic or suspension. *)

WriteCall(n) ==
  /\ wpc = "idle"
  /\ sent + n <= Total
  /\ wpc' = "check" /\ remaining' = n
  /\ UNCHANGED <<chunk, sent, send_credit, credit_signal, dataQ, rvars, winQ, opc>>

\* while (send_credit_ <= 0): suspend on credit_signal_, or go on.
WriteCheckCredit ==
  /\ wpc = "check"
  /\ wpc' = IF send_credit <= 0 THEN "wait" ELSE "chunk"
  /\ UNCHANGED <<remaining, chunk, sent, send_credit, credit_signal, dataQ,
                 rvars, winQ, opc>>

WriteWake ==
  /\ wpc = "wait"
  /\ credit_signal > 0
  /\ credit_signal' = credit_signal - 1
  /\ wpc' = "check"
  /\ UNCHANGED <<remaining, chunk, sent, send_credit, dataQ, rvars, winQ, opc>>

\* The second load of send_credit_ fixes the size of the frame.
WriteChooseChunk ==
  /\ wpc = "chunk"
  /\ chunk' = MinOf(remaining, MinOf(MaxDataFrame, send_credit))
  /\ wpc' = IF chunk' = 0 THEN "check" ELSE "debit"
  /\ UNCHANGED <<remaining, sent, send_credit, credit_signal, dataQ, rvars,
                 winQ, opc>>

WriteDebit ==
  /\ wpc = "debit"
  /\ send_credit' = send_credit - chunk
  /\ wpc' = "enqueue"
  /\ UNCHANGED <<remaining, chunk, sent, credit_signal, dataQ, rvars, winQ, opc>>

\* enqueueFrame suspends while the link's queue is full.
WriteEnqueue ==
  /\ wpc = "enqueue"
  /\ Len(dataQ) < QueueCap
  /\ dataQ' = Append(dataQ, [from |-> sent, to |-> sent + chunk])
  /\ sent' = sent + chunk
  /\ remaining' = remaining - chunk
  /\ wpc' = IF remaining' = 0 THEN "idle" ELSE "check"
  /\ UNCHANGED <<chunk, send_credit, credit_signal, rvars, winQ, opc>>

-------------------------------------------------------------------------------
(* The reading end's link dispatches DATA: onData waits for a free slot. *)

\* Mutant: try_send instead of async_send drops the payload when inbox_ is full.
OnDataTrySend ==
  /\ dataQ # <<>>
  /\ inbox' = IF Len(inbox) < InboxCap THEN Append(inbox, Head(dataQ)) ELSE inbox
  /\ dataQ' = Tail(dataQ)
  /\ UNCHANGED <<wvars, send_credit, credit_signal, leftover, out, rpc,
                 recv_unacked, delta, acked, winQ, opc>>

OnData ==
  /\ dataQ # <<>>
  /\ Len(inbox) < InboxCap
  /\ inbox' = Append(inbox, Head(dataQ))
  /\ dataQ' = Tail(dataQ)
  /\ UNCHANGED <<wvars, send_credit, credit_signal, leftover, out, rpc,
                 recv_unacked, delta, acked, winQ, opc>>

\* Mutant: the rest of a payload larger than the caller's buffer is dropped, and
\* acknowledged.
TakeFromDropRest(p) ==
  LET n == MinOf(ReadBuf, p.to - p.from) IN
  /\ out' = out \o Bytes(p.from, p.from + n)
  /\ leftover' = NoBytes
  /\ recv_unacked' = recv_unacked + (p.to - p.from)
  /\ rpc' = "ack"

\* read() hands the next piece of payload p to the caller, at most ReadBuf.
TakeFrom(p) ==
  LET n == MinOf(ReadBuf, p.to - p.from) IN
  /\ out' = out \o Bytes(p.from, p.from + n)
  /\ leftover' = IF p.from + n < p.to THEN [from |-> p.from + n, to |-> p.to]
                                      ELSE NoBytes
  /\ recv_unacked' = recv_unacked + n
  /\ rpc' = "ack"

ReadLeftover ==
  /\ rpc = "read"
  /\ leftover.from < leftover.to
  /\ TakeFrom(leftover)
  /\ UNCHANGED <<wvars, send_credit, credit_signal, dataQ, inbox, delta, acked,
                 winQ, opc>>

ReadInbox ==
  /\ rpc = "read"
  /\ leftover.from = leftover.to
  /\ inbox # <<>>
  /\ TakeFrom(Head(inbox))
  /\ inbox' = Tail(inbox)
  /\ UNCHANGED <<wvars, send_credit, credit_signal, dataQ, delta, acked, winQ, opc>>

Threshold == OurWindow \div 2

\* Mutant: load instead of exchange, recv_unacked_ is not reset.
MaybeSendWindowNoReset ==
  /\ rpc = "ack"
  /\ IF recv_unacked >= Threshold
       THEN delta' = recv_unacked /\ rpc' = "send"
       ELSE delta' = delta /\ rpc' = "read"
  /\ UNCHANGED <<wvars, send_credit, credit_signal, dataQ, inbox, leftover, out,
                 recv_unacked, acked, winQ, opc>>

\* Mutant: the threshold must be exceeded.
MaybeSendWindowStrict ==
  /\ rpc = "ack"
  /\ IF recv_unacked > Threshold
       THEN delta' = recv_unacked /\ recv_unacked' = 0 /\ rpc' = "send"
       ELSE rpc' = "read" /\ UNCHANGED <<delta, recv_unacked>>
  /\ UNCHANGED <<wvars, send_credit, credit_signal, dataQ, inbox, leftover, out,
                 acked, winQ, opc>>

\* maybeSendWindow: load recv_unacked_ and, at half a window, exchange it for 0.
MaybeSendWindow ==
  /\ rpc = "ack"
  /\ IF recv_unacked >= Threshold
       THEN /\ delta' = recv_unacked
            /\ recv_unacked' = 0
            /\ rpc' = "send"
       ELSE rpc' = "read" /\ UNCHANGED <<delta, recv_unacked>>
  /\ UNCHANGED <<wvars, send_credit, credit_signal, dataQ, inbox, leftover, out,
                 acked, winQ, opc>>

SendWindow ==
  /\ rpc = "send"
  /\ Len(winQ) < QueueCap
  /\ winQ' = Append(winQ, [from |-> acked, to |-> acked + delta])
  /\ acked' = acked + delta
  /\ delta' = 0
  /\ rpc' = "read"
  /\ UNCHANGED <<wvars, send_credit, credit_signal, dataQ, inbox, leftover, out,
                 recv_unacked, opc>>

-------------------------------------------------------------------------------
(* The writing end's link dispatches WINDOW: onWindow adds, then signals. *)

\* Mutant: the credit is added and the writer is not signalled.
OnWindowCreditNoSignal ==
  /\ opc = "idle"
  /\ winQ # <<>>
  /\ send_credit' = send_credit + (Head(winQ).to - Head(winQ).from)
  /\ winQ' = Tail(winQ)
  /\ UNCHANGED <<wvars, credit_signal, dataQ, rvars, opc>>

OnWindowCredit ==
  /\ opc = "idle"
  /\ winQ # <<>>
  /\ send_credit' = send_credit + (Head(winQ).to - Head(winQ).from)
  /\ winQ' = Tail(winQ)
  /\ opc' = "signal"
  /\ UNCHANGED <<wvars, credit_signal, dataQ, rvars>>

\* try_send into the one-slot channel: dropped when a signal is pending.
OnWindowSignal ==
  /\ opc = "signal"
  /\ credit_signal' = 1
  /\ opc' = "idle"
  /\ UNCHANGED <<wvars, send_credit, dataQ, rvars, winQ>>

-------------------------------------------------------------------------------
Write == WriteCheckCredit \/ WriteWake \/ WriteChooseChunk \/ WriteDebit \/ WriteEnqueue
Read  == ReadLeftover \/ ReadInbox \/ MaybeSendWindow \/ SendWindow
Dispatch == OnData \/ OnWindowCredit \/ OnWindowSignal

Next == (\E n \in 1..MaxWrite : WriteCall(n)) \/ Write \/ Read \/ Dispatch

\* The schedulers run every coroutine that can go on; the application need
\* not call write() again.
Fairness == WF_vars(Write) /\ WF_vars(Read) /\ WF_vars(OnData)
            /\ WF_vars(OnWindowCredit \/ OnWindowSignal)

Spec     == Init /\ [][Next]_vars
FairSpec == Spec /\ Fairness
-------------------------------------------------------------------------------
(* Positions at which the queues start, and what each of them holds. *)
Start(q, end) == IF q = <<>> THEN end ELSE q[1].from
DataLo  == Start(dataQ, sent)
InboxLo == Start(inbox, DataLo)
WinLo   == Start(winQ, acked)
Framing == IF wpc = "enqueue" THEN chunk ELSE 0

TypeOK ==
  /\ wpc \in {"idle", "check", "wait", "chunk", "debit", "enqueue"}
  /\ rpc \in {"read", "ack", "send"} /\ opc \in {"idle", "signal"}
  /\ remaining \in Nat /\ chunk \in Nat /\ sent \in Nat
  /\ send_credit \in Int /\ credit_signal \in {0, 1}
  /\ dataQ \in Seq(Frames) /\ inbox \in Seq(Frames)
  /\ winQ \in Seq(Frames)
  /\ leftover \in Frames \cup {NoBytes} /\ out \in Seq(Nat)
  /\ recv_unacked \in Nat /\ delta \in Nat /\ acked \in Nat

\* Credit is neither created nor lost: what the writer may still send, what
\* it has sent and the reader has not returned, and what the reader has
\* returned and the writer has not been credited with (in recv_unacked_, in
\* the exchanged delta, in WINDOW frames) always add up to the first window
\* (fetch_sub in write, fetch_add in read, exchange in maybeSendWindow,
\* fetch_add in onWindow).
CreditConserved ==
  send_credit + Framing + (sent - Len(out)) + recv_unacked + delta
    + (acked - WinLo) = PeerWindow

\* send_credit_ never goes below zero, although write() reads it twice and
\* subtracts later, and never above the first window; recv_unacked_ stays
\* below half a window plus one read, far from wrapping its 32 bits.
CountersInRange ==
  /\ send_credit \in 0..PeerWindow
  /\ recv_unacked < Threshold + ReadBuf + 1

\* A writer suspended on credit_signal_ although it has credit is about to be
\* woken: the one-slot channel loses no wake-up (onWindow adds the credit
\* before it signals).
NoLostWakeup ==
  wpc = "wait" /\ send_credit > 0 => credit_signal = 1 \/ opc = "signal"

\* With windows such that half of the reader's window is reachable, the
\* writer is never suspended with nothing left to wake it: no bytes and no
\* WINDOW frame under way, all bytes read.
NoStall ==
  /\ PeerWindow > 0
  /\ PeerWindow >= Threshold
  => ~ /\ wpc = "wait" /\ credit_signal = 0 /\ opc = "idle"
       /\ dataQ = <<>> /\ inbox = <<>> /\ leftover = NoBytes
       /\ rpc = "read" /\ winQ = <<>>

\* The path implements the stream its users are promised: bytes come out of
\* read() once, in order, through frames, inbox_, partial reads and
\* leftover_, and never more than PeerWindow of them are outstanding.
Stream == INSTANCE ByteStream WITH Window <- PeerWindow
ImplementsByteStream == Stream!Spec

\* Every write() returns, whatever it waits for; it takes windows as in NoStall.
WriteReturns == (wpc # "idle") ~> (wpc = "idle")

\* Every byte accepted by write() is returned by read().
AllDelivered == \A p \in 1..Total : (sent >= p) ~> (Len(out) >= p)
===============================================================================
