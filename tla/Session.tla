------------------------------- MODULE Session --------------------------------
(***************************************************************************)
(* The life cycle of one TCP session over one link: NEW, the two bidiCopy  *)
(* loops that feed and drain it, half-close, close, link failure.          *)
(*                                                                         *)
(* An end runs up (halfCopy from the local stream into the session), down  *)
(* (halfCopy from the session to the local stream), close() once both are  *)
(* done, and its link's dispatcher.  A step runs from one suspension point *)
(* to the next.  At the server everything runs on the link's strand; at    *)
(* the client the copy loops run on the thread pool, so there the load and *)
(* the store of onPeerClose are two steps.  A DATA frame is one unit of    *)
(* credit and is read whole; SessionFlow has the bytes.                    *)
(***************************************************************************)
EXTENDS Integers, Sequences

CONSTANTS Window,     \* init_window of both ends, in DATA frames
          ClientFrames, ServerFrames,  \* bounds: payloads the local streams produce
          QueueCap,   \* bound of write_chan_ and the socket behind it
          InboxCap,   \* slots of inbox_
          MayFail,    \* subset of {"link", "local", "connect"}
          FailBound   \* bound: payloads read when a link breaks or a local write fails

ASSUME SessionAssumption ==
  /\ \A c \in {Window, QueueCap, InboxCap} : c \in Nat \ {0}
  /\ ClientFrames \in Nat /\ ServerFrames \in Nat /\ FailBound \in Nat
  /\ MayFail \subseteq {"link", "local", "connect"}

Ends == {"client", "server"}
Peer(e) == CHOOSE p \in Ends : p # e
AppFrames(e) == IF e = "client" THEN ClientFrames ELSE ServerFrames
Wire(t, n) == [type |-> t, n |-> n]

VARIABLES
  state,        \* state_; "none" before the server has seen NEW
  registered,   \* the session is in the link's sessions_
  inbox, inbox_open,
  credit, signal, signal_open,    \* send_credit_ and credit_signal_
  unacked,      \* recv_unacked_
  up, down,     \* where the two copy loops stand
  app,          \* payloads the local stream has produced
  sent,         \* DATA frames enqueued (history)
  out,          \* payloads read from the session (history)
  eof,          \* read() has returned 0 (history)
  ended,        \* close() has run
  pend,         \* the detached CLOSE of close() is not enqueued yet
  loaded,       \* value held by onPeerClose between load and store
  wire,         \* frames under way from this end
  link_closed   \* closed_ of this end's link

copy  == <<up, down, app, sent, out, eof, ended, pend>>
flow  == <<credit, signal, signal_open, unacked>>
box   == <<inbox, inbox_open>>
life  == <<state, registered, loaded, link_closed>>
vars  == <<copy, flow, box, life, wire>>

Each(c, s) == [e \in Ends |-> IF e = "client" THEN c ELSE s]
All(x) == Each(x, x)

\* The client has run openSession and entered bidiCopy; NEW is on the wire.
Init ==
  /\ state = Each("Open", "none")
  /\ registered = Each(TRUE, FALSE)
  /\ up = Each("read", "none")
  /\ down = Each("receive", "none")
  /\ wire = Each(<<Wire("NEW", Window)>>, <<>>)
  /\ credit = Each(Window, 0)
  /\ inbox = All(<<>>) /\ inbox_open = All(TRUE)
  /\ signal = All(0) /\ signal_open = All(TRUE) /\ unacked = All(0)
  /\ app = All(0) /\ sent = All(0) /\ out = All(<<>>)
  /\ eof = All(FALSE) /\ ended = All(FALSE) /\ pend = All(FALSE)
  /\ loaded = All("none") /\ link_closed = All(FALSE)

\* Mutant: the server's copy loops run on the thread pool as well.
OnStrandNever(e) == e \notin Ends

\* At the server the strand keeps the copy loops out of onPeerClose.
OnStrand(e) == e = "server"
Free(e) == OnStrand(e) => loaded[e] = "none"

\* enqueueFrame: nothing on a closed link, otherwise wait for room.
CanEnqueue(e) == link_closed[e] \/ Len(wire[e]) < QueueCap
Enqueue(e, f) == wire' = IF link_closed[e] THEN wire
                         ELSE [wire EXCEPT ![e] = Append(@, f)]

-------------------------------------------------------------------------------
(* Local stream to session: read the local stream, Session::write, and       *)
(* Session::shutdownWrite when either ends.                                  *)

\* Mutant: the second half-close does not erase the session.
SecondHalfNever(e) == e \notin Ends

SecondHalf(e) == state[e] = "HalfClosedRemote"

\* shutdownWrite up to the enqueuing of CLOSE.
ShutdownWrite(e) ==
  LET open == ~link_closed[e] IN
  /\ state' = [state EXCEPT ![e] =
                 IF open /\ @ = "Open" THEN "HalfClosedLocal"
                 ELSE IF open /\ @ = "HalfClosedRemote" THEN "Closed" ELSE @]
  /\ registered' = [registered EXCEPT ![e] = @ /\ ~(open /\ SecondHalf(e))]
  /\ up' = [up EXCEPT ![e] =
              IF open /\ state[e] \in {"Open", "HalfClosedRemote"}
              THEN "sendclose" ELSE "done"]
  /\ UNCHANGED credit

\* The head of write()'s loop: wait for credit or debit it and frame a chunk.
TakeCredit(e) ==
  /\ IF credit[e] <= 0
       THEN up' = [up EXCEPT ![e] = "wait"] /\ UNCHANGED credit
       ELSE /\ up' = [up EXCEPT ![e] = "enqueue"]
            /\ credit' = [credit EXCEPT ![e] = @ - 1]
  /\ UNCHANGED <<state, registered>>

\* The local stream yields a payload; write() tests the link and state_.
UpData(e) ==
  /\ up[e] = "read" /\ Free(e)
  /\ app[e] < AppFrames(e)
  /\ app' = [app EXCEPT ![e] = @ + 1]
  /\ IF link_closed[e] \/ state[e] \in {"Closed", "HalfClosedLocal"}
       THEN ShutdownWrite(e) ELSE TakeCredit(e)
  /\ UNCHANGED <<down, sent, out, eof, ended, pend, signal, signal_open, unacked,
                 box, loaded, link_closed, wire>>

\* The local stream ends (EOF or an error).
UpEof(e) ==
  /\ up[e] = "read" /\ Free(e)
  /\ ShutdownWrite(e)
  /\ UNCHANGED <<down, app, sent, out, eof, ended, pend, signal, signal_open,
                 unacked, box, loaded, link_closed, wire>>

\* credit_signal_ delivers a signal, or an error once it is closed and empty.
UpWake(e) ==
  /\ up[e] = "wait" /\ Free(e)
  /\ signal[e] > 0 \/ ~signal_open[e]
  /\ signal' = [signal EXCEPT ![e] = 0]
  /\ IF link_closed[e] THEN ShutdownWrite(e) ELSE TakeCredit(e)
  /\ UNCHANGED <<down, app, sent, out, eof, ended, pend, signal_open, unacked,
                 box, loaded, link_closed, wire>>

UpEnqueue(e) ==
  /\ up[e] = "enqueue" /\ Free(e)
  /\ CanEnqueue(e)
  /\ Enqueue(e, Wire("DATA", sent[e] + 1))
  /\ sent' = [sent EXCEPT ![e] = IF link_closed[e] THEN @ ELSE @ + 1]
  /\ up' = [up EXCEPT ![e] = "read"]
  /\ UNCHANGED <<down, app, out, eof, ended, pend, flow, box, life>>

UpSendClose(e) ==
  /\ up[e] = "sendclose" /\ Free(e)
  /\ CanEnqueue(e)
  /\ Enqueue(e, Wire("CLOSE", 0))
  /\ up' = [up EXCEPT ![e] = "done"]
  /\ UNCHANGED <<down, app, sent, out, eof, ended, pend, flow, box, life>>

-------------------------------------------------------------------------------
(* Session to local stream: Session::read, maybeSendWindow, local write. *)

\* read() looks at state_ first: a closed or half-closed session is at EOF.
ReadEntry(e) ==
  LET over == state[e] \in {"Closed", "HalfClosedRemote"} IN
  /\ down' = [down EXCEPT ![e] = IF over THEN "done" ELSE "receive"]
  /\ eof' = [eof EXCEPT ![e] = over]

DownReceive(e) ==
  /\ down[e] = "receive" /\ Free(e)
  /\ inbox[e] # <<>>
  /\ inbox' = [inbox EXCEPT ![e] = Tail(@)]
  /\ out' = [out EXCEPT ![e] = Append(@, Head(inbox[e]))]
  /\ unacked' = [unacked EXCEPT ![e] = @ + 1]
  /\ down' = [down EXCEPT ![e] =
                IF ~link_closed[e] /\ unacked'[e] >= Window \div 2
                THEN "window" ELSE "write"]
  /\ UNCHANGED <<up, app, sent, eof, ended, pend, credit, signal, signal_open,
                 inbox_open, life, wire>>

\* A closed inbox_ keeps what it holds and fails once it is empty.
DownClosed(e) ==
  /\ down[e] = "receive" /\ Free(e)
  /\ inbox[e] = <<>> /\ ~inbox_open[e]
  /\ down' = [down EXCEPT ![e] = "done"]
  /\ eof' = [eof EXCEPT ![e] = TRUE]
  /\ UNCHANGED <<up, app, sent, out, ended, pend, flow, box, life, wire>>

DownWindow(e) ==
  /\ down[e] = "window" /\ Free(e)
  /\ CanEnqueue(e)
  /\ Enqueue(e, Wire("WINDOW", unacked[e]))
  /\ unacked' = [unacked EXCEPT ![e] = 0]
  /\ down' = [down EXCEPT ![e] = "write"]
  /\ UNCHANGED <<up, app, sent, out, eof, ended, pend, credit, signal,
                 signal_open, box, life>>

\* The local stream has taken the payload; the loop calls read() again.
DownWrote(e) ==
  /\ down[e] = "write" /\ Free(e)
  /\ ReadEntry(e)
  /\ UNCHANGED <<up, app, sent, out, ended, pend, flow, box, life, wire>>

DownFailed(e) ==
  /\ "local" \in MayFail /\ Len(out[e]) <= FailBound
  /\ down[e] = "write" /\ Free(e)
  /\ down' = [down EXCEPT ![e] = "done"]
  /\ UNCHANGED <<up, app, sent, out, eof, ended, pend, flow, box, life, wire>>

-------------------------------------------------------------------------------
(* bidiCopy closes the session when both loops are done. *)

\* Mutant: bidiCopy waits for one of the loops only.
CopiedEither(e) == up[e] = "done" \/ down[e] = "done"

Copied(e) == up[e] = "done" /\ down[e] = "done"

Close(e) ==
  /\ Copied(e) /\ ~ended[e] /\ Free(e)
  /\ ended' = [ended EXCEPT ![e] = TRUE]
  /\ state' = [state EXCEPT ![e] = "Closed"]
  /\ registered' = [registered EXCEPT ![e] = @ /\ state[e] = "Closed"]
  /\ pend' = [pend EXCEPT ![e] = state[e] # "Closed" /\ ~link_closed[e]]
  /\ inbox_open' = [inbox_open EXCEPT ![e] = FALSE]
  /\ signal_open' = [signal_open EXCEPT ![e] = FALSE]
  /\ UNCHANGED <<up, down, app, sent, out, eof, credit, signal, unacked, inbox,
                 loaded, link_closed, wire>>

CloseSend(e) ==
  /\ pend[e] /\ Free(e)
  /\ CanEnqueue(e)
  /\ Enqueue(e, Wire("CLOSE", 0))
  /\ pend' = [pend EXCEPT ![e] = FALSE]
  /\ UNCHANGED <<up, down, app, sent, out, eof, ended, flow, box, life>>

-------------------------------------------------------------------------------
(* Link::dispatchFrame at end e for the first frame from its peer. *)

Arrives(e, type) ==
  /\ ~link_closed[e] /\ loaded[e] = "none"
  /\ wire[Peer(e)] # <<>>
  /\ Head(wire[Peer(e)]).type = type

Pop(e) == wire' = [wire EXCEPT ![Peer(e)] = Tail(@)]

\* NEW: create and register the session, acknowledge, spawn the handler.
OnNew ==
  /\ Arrives("server", "NEW")
  /\ Len(wire["server"]) < QueueCap
  /\ state' = [state EXCEPT !["server"] = "Open"]
  /\ registered' = [registered EXCEPT !["server"] = TRUE]
  /\ credit' = [credit EXCEPT !["server"] = Head(wire["client"]).n]
  /\ wire' = Each(Tail(wire["client"]), Append(wire["server"], Wire("ACK", 0)))
  /\ up' = [up EXCEPT !["server"] = "connect"]
  /\ UNCHANGED <<down, app, sent, out, eof, ended, pend, signal, signal_open,
                 unacked, box, loaded, link_closed>>

\* NEW with an address that does not parse: no session, only a RESET.
OnNewRefused ==
  /\ "connect" \in MayFail
  /\ Arrives("server", "NEW")
  /\ Len(wire["server"]) < QueueCap
  /\ wire' = Each(Tail(wire["client"]), Append(wire["server"], Wire("RESET", 0)))
  /\ up' = [up EXCEPT !["server"] = "refused"]
  /\ UNCHANGED <<down, app, sent, out, eof, ended, pend, flow, box, life>>

\* The handler's outbound connects to the target and starts bidiCopy ...
Connected ==
  /\ up["server"] = "connect" /\ Free("server")
  /\ up' = [up EXCEPT !["server"] = "read"]
  /\ ReadEntry("server")
  /\ UNCHANGED <<app, sent, out, ended, pend, flow, box, life, wire>>

\* ... or gives up, and nobody touches the session again.
ConnectFailed ==
  /\ "connect" \in MayFail
  /\ up["server"] = "connect" /\ Free("server")
  /\ up' = [up EXCEPT !["server"] = "failed"]
  /\ UNCHANGED <<down, app, sent, out, eof, ended, pend, flow, box, life, wire>>

OnAck(e) ==
  /\ Arrives(e, "ACK")
  /\ Pop(e)
  /\ UNCHANGED <<copy, flow, box, life>>

\* Mutant: try_send drops the payload when inbox_ is full.
QueuedIfRoom(e, n) ==
  inbox' = IF Len(inbox[e]) < InboxCap THEN [inbox EXCEPT ![e] = Append(@, n)] ELSE inbox

\* async_send waits for a free slot.
Queued(e, n) == Len(inbox[e]) < InboxCap /\ inbox' = [inbox EXCEPT ![e] = Append(@, n)]

\* DATA: dropped without a session or with a closed inbox_.
OnData(e) ==
  /\ Arrives(e, "DATA")
  /\ IF registered[e] /\ inbox_open[e]
       THEN Queued(e, Head(wire[Peer(e)]).n) ELSE UNCHANGED inbox
  /\ Pop(e)
  /\ UNCHANGED <<copy, flow, inbox_open, life>>

OnWindow(e) ==
  /\ Arrives(e, "WINDOW")
  /\ credit' = [credit EXCEPT ![e] =
                  IF registered[e] THEN @ + Head(wire[Peer(e)]).n ELSE @]
  /\ signal' = [signal EXCEPT ![e] =
                  IF registered[e] /\ signal_open[e] THEN 1 ELSE @]
  /\ Pop(e)
  /\ UNCHANGED <<copy, signal_open, unacked, box, life>>

\* CLOSE: onPeerClose loads state_ ...
OnClose(e) ==
  /\ Arrives(e, "CLOSE")
  /\ loaded' = [loaded EXCEPT ![e] = IF registered[e] THEN state[e] ELSE @]
  /\ Pop(e)
  /\ UNCHANGED <<copy, flow, box, state, registered, link_closed>>

\* Mutant: CLOSE closes both directions.
PeerClosedBoth(s) == "Closed"

PeerClosed(s) == IF s = "HalfClosedLocal" THEN "Closed" ELSE "HalfClosedRemote"

\* Mutant: a reader waiting on inbox_ is not woken.
InboxStays(e) == UNCHANGED inbox_open

InboxCloses(e) == inbox_open' = [inbox_open EXCEPT ![e] = FALSE]

\* ... and stores what follows from the value it loaded.
OnPeerClose(e) ==
  /\ loaded[e] # "none"
  /\ state' = [state EXCEPT ![e] =
                 IF loaded[e] \in {"HalfClosedLocal", "Open"} THEN PeerClosed(loaded[e]) ELSE @]
  /\ registered' = [registered EXCEPT ![e] = @ /\ state'[e] # "Closed"]
  /\ InboxCloses(e)
  /\ loaded' = [loaded EXCEPT ![e] = "none"]
  /\ UNCHANGED <<copy, flow, inbox, link_closed, wire>>

\* onReset and eraseSession (or the clear() of failLink), for a session in the
\* table.
Reset(e) ==
  /\ IF registered[e]
       THEN /\ state' = [state EXCEPT ![e] = "Closed"]
            /\ inbox_open' = [inbox_open EXCEPT ![e] = FALSE]
            /\ signal_open' = [signal_open EXCEPT ![e] = FALSE]
       ELSE UNCHANGED <<state, inbox_open, signal_open>>
  /\ registered' = [registered EXCEPT ![e] = FALSE]

OnReset(e) ==
  /\ Arrives(e, "RESET")
  /\ Reset(e) /\ Pop(e)
  /\ UNCHANGED <<copy, credit, signal, unacked, inbox, loaded, link_closed>>

-------------------------------------------------------------------------------
(* failLink: the link is closed and every registered session is reset; of   *)
(* the frames on their way a prefix still reaches the peer.                  *)

FailLink(e) ==
  /\ ~link_closed[e] /\ loaded[e] = "none"
  /\ link_closed' = [link_closed EXCEPT ![e] = TRUE]
  /\ Reset(e)
  /\ \E k \in 0..Len(wire[e]) :
       wire' = [wire EXCEPT ![e] = SubSeq(@, 1, k), ![Peer(e)] = <<>>]
  /\ UNCHANGED <<copy, credit, signal, unacked, inbox, loaded>>

LinkBreaks(e) ==
  /\ "link" \in MayFail /\ Len(out["client"]) + Len(out["server"]) <= FailBound
  /\ FailLink(e)

\* The peer's link is closed: the reader meets the end of the stream, or the
\* writer an error when it sends what the peer no longer takes.
LinkEof(e) ==
  /\ link_closed[Peer(e)] /\ (wire[Peer(e)] = <<>> \/ wire[e] # <<>>)
  /\ FailLink(e)

-------------------------------------------------------------------------------
Writes(e) == UpWake(e) \/ UpEnqueue(e) \/ UpSendClose(e)
Up(e)   == UpData(e) \/ UpEof(e) \/ Writes(e)
Down(e) == DownReceive(e) \/ DownClosed(e) \/ DownWindow(e) \/ DownWrote(e) \/ DownFailed(e)
Dispatch(e) == OnAck(e) \/ OnData(e) \/ OnWindow(e) \/ OnClose(e) \/ OnPeerClose(e)
                 \/ OnReset(e) \/ LinkEof(e)
Serve   == OnNew \/ OnNewRefused \/ Connected \/ ConnectFailed

Next == Serve \/ \E e \in Ends : Up(e) \/ Down(e) \/ Close(e) \/ CloseSend(e)
                                  \/ Dispatch(e) \/ LinkBreaks(e)

\* Every coroutine that can go on does; local streams take what they are given
\* (or fail) and targets answer, but no local stream need produce or end.
Fairness == /\ WF_vars(Serve)
            /\ \A e \in Ends : /\ WF_vars(Writes(e)) /\ WF_vars(Down(e))
                               /\ WF_vars(Close(e)) /\ WF_vars(CloseSend(e))
                               /\ WF_vars(Dispatch(e))

Spec     == Init /\ [][Next]_vars
FairSpec == Spec /\ Fairness
-------------------------------------------------------------------------------
States == {"Open", "HalfClosedLocal", "HalfClosedRemote", "Closed"}

TypeOK ==
  /\ state \in [Ends -> States \cup {"none"}]
  /\ loaded \in [Ends -> States \cup {"none"}]
  /\ \A v \in {registered, inbox_open, signal_open, eof, ended, pend, link_closed} :
        v \in [Ends -> BOOLEAN]
  /\ signal \in [Ends -> {0, 1}]
  /\ \A v \in {credit, unacked} : v \in [Ends -> 0..Window]
  /\ \A e \in Ends : app[e] \in 0..AppFrames(e) /\ sent[e] \in 0..app[e]
  /\ up \in [Ends -> {"none", "connect", "failed", "refused", "read", "wait", "enqueue",
                      "sendclose", "done"}]
  /\ down \in [Ends -> {"none", "receive", "window", "write", "done"}]
  /\ \A e \in Ends : /\ Len(wire[e]) <= QueueCap
                     /\ Len(inbox[e]) <= InboxCap

\* read() returns the payloads of the peer in order, without gap or repeat,
\* through half-close, reset and concurrent closing of inbox_, which never holds
\* more than its slots; credit stays within the window (TypeOK).
OrderedDelivery ==
  /\ TypeOK
  /\ \A e \in Ends : /\ out[e] = [i \in 1..Len(out[e]) |-> i]
                     /\ Len(out[e]) <= sent[Peer(e)]

\* CLOSE is the last word of a direction: no DATA follows it on the wire, nor
\* is any about to (shutdownWrite comes after the last write(), close() after
\* both loops).
NoDataAfterClose ==
  \A e \in Ends : \A i \in 1..Len(wire[e]) :
     wire[e][i].type = "CLOSE" =>
       /\ up[e] \notin {"read", "wait", "enqueue"}
       /\ \A j \in i..Len(wire[e]) : wire[e][j].type # "DATA"

\* An end takes its peer's direction for closed only when the peer's loop has
\* really finished; and a session that is Closed before its end has called close()
\* has finished in both directions, unless its link has failed or the peer has
\* refused it (onPeerClose, shutdownWrite, onReset).
PeerCloseIsReal ==
  \A e \in Ends :
     /\ state[e] = "HalfClosedRemote" => up[Peer(e)] = "done"
     /\ state[e] = "Closed" /\ ~ended[e] /\ ~link_closed[e] /\ up[Peer(e)] # "refused" =>
          up[e] \in {"sendclose", "done"} /\ up[Peer(e)] = "done"

\* A session that bidiCopy has left is no longer in sessions_, whichever of
\* shutdownWrite, onPeerClose, failLink and close() was to remove it.
NoLeak == \A e \in Ends : ended[e] => ~registered[e]

\* On the server's strand a closed write side stays closed (state_ never goes
\* from HalfClosedLocal or Closed back to a state that allows write()).
ServerShutStays ==
  [][state["server"] \in {"HalfClosedLocal", "Closed"} =>
       state'["server"] \in {"HalfClosedLocal", "Closed"}]_vars

\* The target was not reached, or a local stream stopped taking payloads.
Abandoned ==
  up["server"] = "failed" \/ \E e \in Ends : down[e] = "done" /\ ~eof[e]

\* write() tests state_ before it waits for credit and only the link after.
ResetWhileWaiting(e) == up[e] = "wait" /\ up[Peer(e)] = "refused"

\* Each reader waits for a slot of an inbox_ whose consumer waits for room to
\* send WINDOW, and the room is taken by DATA that the other reader does not take.
Jammed ==
  \A e \in Ends : /\ down[e] = "window" /\ Len(inbox[e]) = InboxCap
                  /\ Len(wire[e]) = QueueCap /\ Head(wire[e]).type = "DATA"

\* No write or CLOSE of e hangs, and close() has run once nothing more can come:
\* both local streams have ended, or the own one has and the link is gone or the
\* peer has refused.
AtRest(e) ==
  /\ up[e] \in {"wait", "enqueue", "sendclose"} =>
       Abandoned \/ ResetWhileWaiting(e) \/ Jammed
  /\ up[e] = "done" /\ (link_closed[e] \/ up[Peer(e)] \in {"done", "refused"}) =>
       ended[e] \/ Jammed

\* Both ends come to rest again and again, links failing or not, though no local
\* stream need ever produce or end: a write returns, and bidiCopy returns and
\* closes the session when its streams are over.  What may hang is a writer whose
\* session one end has abandoned (a handler that cannot connect leaves it
\* registered, and a closed peer returns no credit) or whose session is refused
\* while it waits for credit (it asks the closed credit_signal_ for ever), and
\* both ends of a jam: two full inboxes whose consumers wait to send WINDOW.
SessionEnds == \A e \in Ends : []<>AtRest(e)

\* read() returns 0 on a live link only after every payload the peer sent.
EofMeansAll ==
  \A e \in Ends : eof[e] /\ ~link_closed[e] => Len(out[e]) = sent[Peer(e)]
===============================================================================
