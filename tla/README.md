# A TLA+ development of shine

shine is a proxy. Inbounds (SOCKS5, HTTP CONNECT, shine) accept requests, a
router picks an outbound by rules, and the outbound (direct, shine, SOCKS5,
HTTP CONNECT, block) connects the request to its target. Two shine processes are
joined by *links*: one TCP connection that carries many *sessions*, each with
credit-based flow control, under a password handshake and a heartbeat. All of
it runs as Boost.Asio coroutines on a few worker threads; the server side of a
session runs on the strand of its link, the client side on any worker.

Paths below are relative to the repository; `src/transport/link.cpp` is
`src/src/transport/link.cpp` in `PROJECT.json`.

## Inventory and correspondence

| Part | Source | Module | State and actions |
|---|---|---|---|
| What a stream promises | `session_stream.hpp` | `ByteStream` | bytes sent and delivered; `Send`, `Deliver` |
| Flow control of a session, one direction | `session.cpp` | `SessionFlow` | the atomics `send_credit_`, `recv_unacked_`, the one-slot `credit_signal_`, `inbox_`, `leftover_` and the frames under way; one action per atomic access of `write`, `read`, `maybeSendWindow`, `onWindow` |
| Life cycle of a session, both ends | `session.cpp`, `link.cpp` 268-348, `pipe.cpp`, `tcp_stream.cpp`, `direct_outbound.cpp` 18-36 | `Session` | `state_`, table entry, inbox, credit, and the two half copies of the relay at each end; one action per frame handler and per step of a relay between two awaits |
| Handshake | `link.cpp` 34-181, 447-465 | `Handshake` | both ends, their frames, deadline timers, the posted close, and callers in `waitHandshake` |
| Heartbeat | `link.cpp` 228-266, 349-374 | `Heartbeat` | ages in place of a clock, the outstanding PING, the bounded queues of both ends with the coroutines suspended on them, a peer that answers, pings or dies |
| Requests of `ShineOutbound`, its pool, the tables of its links | `shine_outbound.cpp`, `link.cpp` 376-476, `pipe.cpp` | `ClientLinks` | `pool_`, `stopping_`, `closed_` and `sessions_` of every link; each request from `handle` to the end of both halves of its relay, cut at the mutexes and awaits; the steps of `failLink` and of `stop` |
| Receive buffer | `buffer.hpp` | `ReadBuffer` | storage, `head_`, `size_`, and the bytes of the stream as ghost values; the reader loop as its driver |
| Wire format | `resp2_*.cpp`, `shine_frame.cpp` | `Wire` | encoders, incremental parser and decoder as operators |
| Link reader | `link.cpp` 183-211 | `LinkReader`, `MCReader` | `ReadBuffer` with the bytes of encoded frames, parsed as they arrive |
| GeoIP table | `geo_matcher.cpp` 69-181 | `GeoIp` | the list of ranges while it is loaded, sorted and merged, then looked up |
| Configuration and routing | `yaml_loader.cpp` 82-112, `factory.cpp`, `router.cpp`, `main.cpp` 29-104 | `Router`, `MCRouter` | start-up with every way to be refused, then one request after another |
| UDP association | `socks5_inbound.cpp` 90-317, `shine_inbound.cpp` 72-109, `direct_outbound.cpp` 38-115, `shine_outbound.cpp` 74-111, `session.cpp` 137-201 | `UdpAssoc` | the client's UDP socket or session, the outbound's, the control connection, the handler, the monitor and the two halves of the relay, the DNS cache |
| Proxy negotiations and addresses | `socks5_inbound.cpp` 168-329, `http_connect_inbound.cpp`, `socks5_outbound.cpp`, `http_connect_outbound.cpp`, `address.cpp`, `link.cpp` 288-343 and 376-401 | `Proxy` | the bytes between a client and a server, where both coroutines are, the target dispatched, and the bytes relayed after |
| Process and inbound links | `main.cpp` 106-171, `scheduler.cpp`, `signal.cpp`, `shine_inbound.cpp` 42-120 | `Shutdown` | main, the workers, the termination coroutine, delivery of a signal, `acceptLoop` and `links_` |

The modules meet at their interfaces.

* `SessionFlow` is one direction of the data path of `Session`, which counts
  credit in whole frames because the byte accounting is settled there, and it is
  shown to implement `ByteStream`.
* `LinkReader` EXTENDS both `ReadBuffer` and `Wire`. `ReadBuffer` knows frames
  only by their lengths; the property `ReadsByFrames` is the specification of
  `ReadBuffer`, so that what is proved of the buffer for frames of any length
  holds of the buffer in the reader loop. Together they justify that the other
  modules take a link for a sequence of frames.
* `ClientLinks` composes the pool with the session tables of the links in it.
  Its links come up and fail as those of `Handshake` and `Heartbeat` do.
* `UdpAssoc` puts each kind of inbound in front of each kind of outbound. Its
  sessions end as those of `Session` and `ClientLinks` do: by a CLOSE of the peer
  or by a reset.
* `Router` runs `GeoIp` as the step of its start-up that loads `geoip.dat`, and
  asks its table for each request.

## Runs

Definitions named `XSomething` next to a definition `X`, such as `OnDataTrySend`
next to `OnData`, are variants of `X` with a plausible mistake. They occur in no
specification; each is there because putting it in the place of `X` breaks a
property, which shows that the property depends on that piece of code.

A type invariant (`TypeOK`, `HeartbeatTypeOK`, `ShutdownTypeOK`) is a conjunct of
one of the invariants each run checks (`OrderedDelivery`, `Authenticated`,
`PongRecent`, `PoolBounded`, `NoDrop`, `RelayedOnce`, `NoUseAfterReturn`,
`TargetKept`); that of `SessionFlow` and of `ReadBuffer` is proved.

| Run | Bounds | What it shows |
|---|---|---|
| `Flow` | windows 3 and 7, 8 bytes, frames of 3, reads of 2, queues of 2 | credit is conserved, no wake-up is lost, the writer never stalls, the path implements `ByteStream`, every write returns, every byte arrives; 3 is the smallest first window that reaches half of 7 |
| `Session` | window 3, 4+3 frames, queues of 1, every failure; a link breaks before a second payload was read, and a local write fails for the first one (`FailBound`) | frames arrive in order, none follows a CLOSE, a peer's close is real, sessions that were left are out of the table, the server's shut write side stays shut; no write hangs, and a relay whose streams are over returns, outside the cases named below |
| `SessionHalfClose` | window 1, 2+1 frames, no failure | a violation: see the next section |
| `Handshake` | 3 passwords at each end (one of them empty), 2 callers | authentication in both directions, refusal only by a closed link, every caller returns, every handshake ends |
| `Heartbeat` | intervals of 3 and 4 ticks, queues of 2 and one waiting session, four scenarios | a dead peer is noticed in time, a live one is not declared dead, readers that wait for each other do not hang the link |
| `Links` | 2 requests, 2 links, pool of 1 | the pool keeps its size; after `stop()` only links of requests that had begun are open; an answer finds its session; the reads of sessions registered when a link fails end |
| `Reader` | 2 frames of every kind, with payloads that contain terminators; buffer of 2, reads of 6 | the frames sent are the frames received, for every cut of the bytes; contents and room of the buffer through growth and compaction; the loop waits only for frames that are not complete |
| `Router` | 3-bit bytes, pairs of 20 rules, 17 requests; geoip files of up to 3 blocks | routing agrees with a reference over labels and bits; what `validate` accepts can be dispatched; the merged table matches exactly the blocks loaded |
| `Udp` | 3 datagrams, 2 senders, 2 names, 2 addresses, inbox and cache of 1, TTL of 1 tick | one client, order, no repetition, fresh addresses, bounded cache; any party's end releases the association |
| `Shutdown` | 2 workers, 2 relays, 3 inbound links | the process ends, no coroutine uses what main destroys, at most one inbound link survives `stop()` |
| `Proxy` | bytes of 8 values, names of 0 to 9 bytes, users of 0, 1 and 8, passwords of 0, 1 and 9, 2 relayed bytes each way | the target and the relayed bytes survive each protocol, a server that has not taken the request sends nothing back, a SOCKS5 server with a login takes requests only from clients that know it, negotiations end |
| `Socks5Greeting` | as `Proxy` | a violation: see the next section |

The bounds are the smallest at which the cases of interest occur: windows that
are exhausted and refilled several times, queues that fill up, compactions and
growths of the buffer, three overlapping or adjacent blocks at both ends of the
address space, more links than pool slots, more names than cache entries, an
inbox that overflows, names just below, at and above what a length byte can hold
(7, 8 and 9 where a byte has 8 values), a user and a password whose length bytes
wrap, the password to the length of another. In `Session` the window holds more
frames than an inbox and a queue, so that the two directions can block each
other, and the client has one frame more than the window. The same run without
`FailBound` (9.3 million states) and `Links` with three requests (4 million) find
no violation either; they take longer than the runs kept here.
`Heartbeat` starts in one of four scenarios (a peer that dies on an idle link, a
busy link, a busy link with a session nobody reads, a busy link with both ends
pinging); a peer that dies on a busy link is left out because its time since the
last PONG has no bound. No run uses symmetry, as most check liveness.

Deadlock is checked in `Udp`, where the clock always ticks, so it says little; in
the other models the last state (all bytes read, session ended, link closed,
process gone) is one where the program stops too. That no party waits for ever
is what the liveness properties say.

## Where code and documents disagree

`SessionHalfClose` states that `read` returns 0 on a live link only after every
payload the peer sent, and TLC finds that it does not: once CLOSE has set
`state_`, `read` (`session.cpp` 48) reports EOF while DATA frames are still in
`inbox_`. `session_stream.hpp` 19 says "Returns bytes read (0 = EOF)." and
`DESIGN.md` 91 calls CLOSE a normal half-close. It needs no failure and no
unusual configuration.

`Socks5Greeting` states that the greeting of a `Socks5Outbound` is one that a
`Socks5Inbound` answers ("offer no-auth and userpass", `socks5_outbound.cpp` 48;
`DESIGN.md` 224). Without a user it announces two methods and sends one (line
49): the server waits for the second, the client for the answer.

The other properties say exactly as much as the code keeps. Where a document
promises more, or a reader may expect more, the property has a condition, and
the behaviour outside it is this:

| Property | Condition | Behaviour outside it |
|---|---|---|
| `NoStall`, `WriteReturns` | the first window reaches half of the reader's | the reader never returns credit and `write` hangs: an end uses its own `init_window` as the peer's (`link.cpp` 387), `DESIGN.md` 143 |
| `SessionEnds` | no end abandoned the session; no RESET while a writer waits for credit; not `Jammed`: both inboxes full while both consumers wait for room to queue WINDOW | `close()` ("Forcefully close both sides.", `session_stream.hpp` 28) leaves a writer of the other end waiting for credit; a failed connect leaves the session registered; a writer that waits when its session is reset asks the closed `credit_signal_` again and again (`session.cpp` 82); when the window lets more frames be under way than `inbox_` and the queues hold, both dispatchers can wait for `inbox_` (168) while both readers of it wait behind DATA with their WINDOW (211), until the link fails |
| `ServerShutStays` | the server's strand | at the client `onPeerClose` (`session.cpp` 186) can overwrite a concurrent `shutdownWrite`; `DESIGN.md` 314 has every state change on the strand |
| `HandshakeEnds` | none on links that are done | a timer handler already queued may close a link whose handshake has just finished; `DESIGN.md` 129 |
| `PongRecent` | the link is not busy; the handshake took at most `ping_interval` (`HeartbeatInit`) | with `write_chan_` full `heartbeatLoop` is suspended and a dead peer is not noticed; `DESIGN.md` 135. `last_pong_ns_` is set before the handshake (`link.cpp` 37) and the loop skips its ticks until `handshake_done_`, so that after a longer one the age starts above the interval |
| `NoFalseTimeout` | `InTime`: a round trip and the waits for room at both ends fit into `pong_timeout`; no reader held up by a full `inbox_`, nor by the answer to a PING | a PING waits behind the sessions that asked for room first, or a PONG behind the frame the reader is busy with, and a live peer is declared dead |
| `RegisteredAreReset` | registered when `failLink` clears the table; the reads of the session, not `handle` | a session registered after that (`openSession` has found `closed_` unset, `link.cpp` 377), or on a link closed by `closeNow`, is not reset; `handle` returns only when the local client has ended or a write has failed, too (`bidiCopy` waits for both halves, `pipe.cpp` 32) |
| `PoolBounded` | an upper limit | the pool stays at one link while that link lives ("Grow pool up to pool_size.", `shine_outbound.cpp` 62) |
| `StopBounds` | the request had not begun | the link of a request that was dialling when `stop()` ran, or found the pool full, stays open |
| `StopClosesLinks` | all but one link | the link `acceptLoop` has made and not pushed yet stays open |
| `RouteExact` | written prefixes below 256 | 256 is converted to 0 before it is tested (`router.cpp` 36). A rule that writes nothing matches nothing in code and reference, as `return inbound_tag.has_value()` has it; the comment beside it (`router.cpp` 113) says "(or nothing)" |
| `DestFresh` | the address, not the port | a cached name sends datagrams to the port of an earlier one (`direct_outbound.cpp` 65) |
| `AssocEnds` | the association is relayed (SOCKS5: the first datagram was read) | a client that leaves before it leaves the association behind (`UDP_AND_ROUTING_DESIGN.md` 1.2); a UDP session without a first datagram, or without a route, stays registered |
| `TargetKept`, `StreamKept` | name and login fit their length bytes, except over HTTP | `toBinary` cuts a longer name; `Socks5Outbound` caps the length byte only, and the rest of the name is read as the port and as data; the length bytes of user and password wrap (`socks5_outbound.cpp` 58), and the rest is read as what comes next |
| `RelayAccepted` | the login fits its length bytes; on a link, once the answer has come | a password whose length byte wraps can be taken for a shorter one; a client on a link relays as soon as NEW is queued, whatever the answer ("sessions are usable once NEW is sent", `link.cpp` 328), until a RESET arrives |
| `StreamKept` | bytes that `read_until` did not take in with an HTTP header | they are lost with the `streambuf` |
| `NegotiationEnds` | not a `Socks5Outbound` without a user | see above |
| `Exits` | the signal reaches main's signal set | a signal between the two registrations at start-up never ends the process; and no grace period is given (`DESIGN.md` 345) |

## Fairness

Liveness runs use weak fairness of each coroutine's next step: Asio resumes a
coroutine whose operation completed, the operating system runs every thread, a
socket that can be written accepts bytes, a resolver query ends. In `SessionFlow`
and `Session` this includes that the local end takes what is written to it.
`Heartbeat` adds that time passes. Never assumed: that a peer sends, that a local
stream of `Session` produces or ends, that a client of `ClientLinks` leaves or its
connection breaks (`UpEnds`, `DownFails`), that a link fails, a signal arrives or
a grace period passes.

## Proofs

Eight modules prove for all values of the constants what the runs check on one
instance. Modules whose components are proved together are extended together,
which is why `ReadBuffer`, `Heartbeat` and `Shutdown` prefix the names of their
initial predicate, next-state relation and specification (`BufferInit`,
`HeartbeatNext`, `ShutdownSpec`).

The assumptions are the named ASSUMEs of the components: frame, read and queue
sizes, the period of the heartbeat, `pool_size`, the time to live of a cached
address and the widths of bytes and addresses are positive; windows, intervals,
delays, lengths of names, users and passwords, limits of the UDP queues and the first
capacity of the buffer are any naturals; the empty string is a password; a host is
a name or an address and not both; a byte of `Proxy` has at least 8 values, so that
the constants of the protocols fit, and more than there are relayed bytes, so
that each of these can be told from the others; rules and requests of `Router`
have the shape the YAML loader and asio's parser give them, and written prefixes
are below 256 (`PrefixMod`); values that stand for "none" or for a state are no
link, no session and no sender.

Each proof shows that an inductive invariant (`IndInv`, `BufferInv`,
`ShutdownInv`, `ControlInv`, `RouteInv` or `Inv`) holds initially and is kept by
every action, and derives the theorems from it. TLC has checked each of these
invariants, too, on the instance of its run.

* `StreamProofs`, on `SessionFlow`: `TypeCorrect`, `CreditConservation`, `CountersBounded`,
  `WakeupKept`, `StallFree` and `Refinement` (`SessionFlow` implements
  `ByteStream`). None of the properties is inductive alone. Conservation needs
  that the queues of frames are adjacent intervals of the byte stream; the lower
  bound of the credit needs that the writer's chunk was chosen when at least as
  much credit was there, which `onWindow` can only increase; the absence of a
  stall follows from conservation, the bound on `recv_unacked_` and the
  wake-up invariant: a writer waiting with nothing under way would have
  `recv_unacked_` equal to the whole first window, which is at least the
  threshold, so a WINDOW frame would have been sent.
* `SessionControlProofs`: `CloseIsLastWord`, `PeerCloseSound`, `LeftIsErased`,
  `ServerShutIsFinal`. A CLOSE under way, or a `state_` that the peer's
  `onPeerClose` has loaded because of one, means that the loop that feeds the
  session is done (`LastWord`); only then can `state_` be half closed, and it is
  Closed with a loop unfinished only by `close()`, a failed link or a refusal
  (`Halves`). A session that was left is out of the table because the exchange
  that finds the other half closed erases it (`Over`). At the server the value
  loaded is always the present one (`Strand`), which is what makes its store
  harmless; at the client it need not be. All of it rests on NEW being the first
  frame of the client (`First`).
* `SessionDeliveryProofs`: `PayloadsInOrder`, on top of the module before. What
  was read, what `inbox_` holds and the DATA frames under way continue each other
  (`Delivery`). `Ledger` says it of a queue of mixed frames by the count in front
  of each of them, so that a frame that leaves or joins moves one end of the
  count. The limits of `credit` and `unacked` need that credit is backed by what
  was read (`Credits`), a second ledger over the WINDOW frames. When a link fails
  the frames behind the failure are lost; the ledger then ends below what was
  sent, which is why `OnItsWay` asks for equality only of an end whose link is
  up.
* `LinkProofs`, on `Heartbeat`: `DeadPeerNoticed`, `TimeoutIsReal`. A PING that is not
  answered is exactly one frame, the PING on its way out or the PONG on its way
  back (`Trip`). On an idle link the loop therefore never waits for room, and the
  age of its timer bounds the other ages (`Ages`). On a busy one the place of
  that frame bounds its age (`Punctual`): with k full queues in front of it, the
  frames at the head are as old as the wait for the queue it is in, and none is
  older than `MaxDelay`; so it is at the head after n of them, if n queues hold
  all who wait. The theorem covers any number of waiting sessions.
* `StreamProofs`, on `ReadBuffer`: `OffsetsInOrder`, `StreamKept`, `RoomForRead`,
  `GrowthBounded`. The inductive invariant adds that between two operations
  `head_` is at most half of the capacity, and that a buffer that holds bytes has
  at least the capacity of one read; without them neither the room after a
  growth nor the bound of the capacity follows. `Need` stands for the larger of
  the two sizes the code asks for, 8 KiB in the handshake and 16 KiB in the
  reader loop.
* `LifecycleProofs`, on `ClientLinks`: `PoolNeverExceeds`, `StopReaches`, `AnswersArrive`. A link
  that a request has dialled and not pushed is held by nobody else and not in
  the pool (`UsingInv`); every open link has the request that dialled it, and a
  request that had not begun when `stopping_` was set has none (`StopInv`); a
  session whose NEW frame is with the server is in the table of a live link
  until its relay is over (`TableInv`).
* `LinkProofs`, on `Handshake`: `BothAuthenticate`, `RefusalMeansClosed`. An OK frame is
  under way only from a server that has compared the passwords and is past its
  handshake or closed (`OkInv`), and a client with a password is past its
  handshake only after it (`ClientInv`); the signal has a message or is closed
  only when `handshake_done_` or `closed_` is set (`SignalInv`), which is why a
  caller that is woken and finds the flag unset is right to give up.
* `LifecycleProofs`, on `Shutdown`: `MainOutlivesCoroutine`, `LinksClosed`. main destroys its
  objects either before there is a coroutine or after every worker has left
  `run()` (`CoInv`); an open link that is not in `links_` is the one of
  `acceptLoop` (`AcceptInv`), and once `stopping_` is set `acceptLoop` accepts
  no other (`ClearedInv`).

* `UdpAssocProofs`: `DatagramsInOrder`, `AddressesAreFresh`. Datagrams wait in
  the order of their arrival (`Queue`), and everything taken from the queue, be it
  sent, held by `read_client` or injected again, came before all that wait and
  from the sender `receiveFrom` learnt (`Taken`, `Order`); the injected datagram
  exists only while nothing was sent. Answers go back only after a datagram went
  out, so that the endpoint is known (`Back`). An entry of the cache is an answer
  of the resolver of the same age (`Names`), which makes the test of the age in
  the code a test of the answer.
* `RouterProofs`: `GeoTableExact`, `RoutesExactly`, `NothingDropped`. The table:
  while the blocks are read the list follows the file, then it has its addresses
  in order (`Loading`, `Loaded`), and the merged list has the addresses of the
  ranges merged so far, apart from each other and starting before those that are
  left (`Merging`). That the end of a block plus one may wrap is harmless because
  the range that ends at the last address is then the last. The rules: the
  compiled form of a rule matches a request just when the written form covers it.
  For addresses this needs that comparing whole bytes and the rest of one under a
  mask compares bit by bit, and for geoip that `toU32` keeps the bits of an
  address; for domains that `endsWithSuffix` and the walk over the dots of
  `GeoSiteMatcher::match` look at whole labels. What these loops compute is
  proved by induction over the index (lemma `InductNat`, from the well-foundedness
  of the natural numbers) and, for their definition as recursive functions, by
  the lemma `Recursion` that a step can be iterated for ever.
* `ProxyProofs`: `TargetArrives`, `StreamArrives`, `RelaysWhenAccepted`. The
  invariant lists, for each pair of places the coroutines of the two ends can be in
  together, the bytes under way: nothing, the rest of one known message, or that
  and the relayed bytes behind it. The lemmas about the encodings say that the
  reader of a message finds its end exactly where it ends (`RequestBack`,
  `LoginBack` and their like), for every length; if a name does not fit the length
  byte only what does not depend on it is claimed, and if a login does not, only
  the types (`Unfit`). On a link (`LinkInv`) the relayed bytes may follow NEW, and
  those of the target follow ACK, before either was seen; no relayed byte is taken
  for ACK or RESET.

Only model-checked:

* liveness under fairness, which is out of the prover's reach; `RegisteredAreReset`
  is of this kind;
* `FramesInOrder` and `ReadsByFrames` (that the frames the parser finds are those
  that were encoded, and so that `LinkReader` drives the buffer as `ReadBuffer`
  says): the encoders and the parser are written with `FoldLeft` and `FlattenSeq`,
  and what these compute for every sequence has not been proved;
* the two findings.

## Abstractions

* A payload is a set of consecutive positions of the stream, a host a token; no
  property depends on their content. In `Wire` bytes are tokens and numbers have
  one or two digits; in `Proxy` a byte has 8 values. The positions of lengths and
  terminators are exact in both.
* Memory order: every atomic access is sequentially consistent in the models.
  The relaxed ones in the code (`recv_unacked_`, the heartbeat's times) are on one
  thread or one strand.
* A frame that `writerLoop` takes from the channel is in the socket with the next
  ones, in order: the channel and the socket are one bounded queue.
* `geoip.dat` has the IPv4 blocks of one country code; the IPv6 list goes through
  the same code. `GeoIp` and `Router` use narrow integers with the same
  wrap-around as 32 and 8 bits.
* An HTTP header is one element of its stream, and its text is not parsed
  further: the request line is a method and a target. A frame of a link is one
  element in `Proxy`, too. How a relay ends is left to `Session` and `ClientLinks`.
* In `UdpAssoc` a datagram is well-formed or not, and an answer is followed to its
  endpoint, without its header. Waiting for room in `write_chan_` is not modelled
  there: `sendTo` on a live link returns.
* Sids are distinct. The code draws them at random from 64 bits.

## Not modelled

* YAML parsing, durations and sizes (`yaml_loader.cpp` up to 81 and from 113):
  a library reads text, once, before anything runs; the results are constants
  here.
* The text of addresses and ports, `resolveOne`, the protobuf format of the geo
  files, geosite regular expressions: library calls or character-level parsing
  that no other part depends on beyond their result.
* Limits on RESP2 lengths (`max_payload`, 1024 elements): the frames of the
  encoders stay below them, and lengths of one digit do not reach them.
* `BlockOutbound` (two calls on the client's stream), the SOCKS5 and HTTP accept
  loops (one coroutine per connection, no shared state), factories, metrics and
  logging.
* `Link::gracefulShutdown`, which has no caller, and `Link::markClosed`, which
  runs only in the destructor.
