---------------------------- MODULE UdpAssocProofs ----------------------------
(***************************************************************************)
(* Order, origin and destination of the datagrams of an association, for   *)
(* any names, senders, queue and cache limits, and any time to live.       *)
(***************************************************************************)
EXTENDS UdpAssoc, FiniteSetTheorems, TLAPS

Busy == rc \in {"resolve", "send"}
Messages == [msg : Datagrams, dest : Dests \cup {None}]
Answers == Domains \X Ips \X (0..TTL)

\* TypeOK, with what it leaves open: the histories, what read_client holds, and
\* that the cache is a finite function.
Types ==
    /\ TypeOK
    /\ via \in [in : {"socks5", "session"}, out : {"direct", "shine"}]
    /\ out \in Seq(Messages) /\ back \in Seq(Senders \cup {None})
    /\ IF Busy THEN cur \in Messages ELSE cur = NoCur
    /\ recent \in SUBSET Answers /\ IsFiniteSet(DOMAIN cache)

\* Datagrams wait in the order in which they came, and those of a session have
\* no sender.
From == IF Socks5 THEN Senders ELSE {None}
Queue ==
    /\ \A i \in 1..Len(inq) : inq[i].from \in From /\ inq[i].id <= arrived
    /\ \A i, j \in 1..Len(inq) : i < j => inq[i].id < inq[j].id
    /\ ~Socks5 => clientEp = None

\* Datagrams that came before those that wait, from a client_ep_ that is known.
Taken == {m \in Datagrams :
            /\ m.from = clientEp /\ clientEp \in From /\ m.id <= arrived
            /\ \A i \in 1..Len(inq) : m.id < inq[i].id}

\* The datagrams sent, then the one read_client holds or the injected one, then
\* those that wait.
Order ==
    /\ \A i \in 1..Len(out) : out[i].msg \in Taken
    /\ \A i, j \in 1..Len(out) : i < j => out[i].msg.id < out[j].msg.id
    /\ Busy => cur.msg \in Taken /\ \A i \in 1..Len(out) : out[i].msg.id < cur.msg.id
    /\ injected # None => injected \in Taken /\ out = <<>> /\ ~Busy
    /\ handler \in {"first", "route"} => out = <<>> /\ rc = "idle"

\* Answers go back only after a datagram went out.
Back ==
    /\ rr = "send" \/ back # <<>> => out # <<>>
    /\ \A i \in 1..Len(back) : back[i] = clientEp

\* An entry of the cache is an answer of the resolver, and as old as it.
Names ==
    /\ \A d \in DOMAIN cache : <<d, cache[d].dest.ip, cache[d].age>> \in recent
    /\ rc = "resolve" => ~Shine /\ cur.msg.target.host \in Domains

Inv == Types /\ Queue /\ Order /\ Back /\ Names
-------------------------------------------------------------------------------
\* The elements of a sequence are those of its set, and its length is a natural number.
LEMMA InSequence ==
  ASSUME NEW S, NEW q \in Seq(S)
  PROVE  Len(q) \in Nat /\ (\A i \in 1..Len(q) : q[i] \in S) /\ (q = <<>> <=> Len(q) = 0)
OBVIOUS

\* What appending an element does to a sequence.
LEMMA Appended ==
  ASSUME NEW S, NEW q \in Seq(S), NEW e \in S
  PROVE  /\ Append(q, e) \in Seq(S) /\ Len(Append(q, e)) = Len(q) + 1 /\ Append(q, e) # <<>>
         /\ \A i \in 1..Len(q) : Append(q, e)[i] = q[i]
         /\ Append(q, e)[Len(q) + 1] = e /\ Len(q) \in Nat
OBVIOUS

\* What taking the first element does to it.
LEMMA FrontTaken ==
  ASSUME NEW S, NEW q \in Seq(S), q # <<>>
  PROVE  /\ Tail(q) \in Seq(S) /\ Len(q) \in Nat \ {0} /\ Len(Tail(q)) = Len(q) - 1
         /\ \A i \in 1..Len(Tail(q)) : Tail(q)[i] = q[i + 1]
         /\ Head(q) = q[1] /\ q[1] \in S
OBVIOUS

\* The empty sequence.
LEMMA NoneYet ==
  ASSUME NEW S
  PROVE  <<>> \in Seq(S) /\ Len(<<>>) = 0 /\ 1..0 = {}
OBVIOUS

\* How the queue and client_ep_ move.
Comes == \E d \in Datagrams :
    /\ d.from \in From /\ d.id = arrived + 1 /\ arrived' = arrived + 1
    /\ inq' = Queued(d) /\ clientEp' = clientEp
Goes == \E d \in Datagrams : receiveFrom(d)
Closes == inq' = <<>> /\ UNCHANGED <<arrived, clientEp>>
Moves == via' = via /\ (Comes \/ Goes \/ Closes \/ UNCHANGED <<inq, arrived, clientEp>>)

\* Every step moves them in one of these ways.
LEMMA NextMoves ==
  ASSUME Types, Next
  PROVE  Moves
<1>. USE DEF Moves
<1>1. ASSUME NEW s \in Senders \cup {None}, NEW ok \in BOOLEAN, NEW t \in Targets, Arrive(s, ok, t)
      PROVE  Moves
  <2>. DEFINE d == [id |-> arrived + 1, from |-> s, ok |-> ok, target |-> t]
  <2>1. arrived + 1 \in 1..MaxIn
    BY <1>1, BoundsAssumption DEF Arrive, Types, TypeOK
  <2>2. d \in Datagrams
    BY <2>1 DEF Datagrams
  <2>3. d.from \in From
    BY <1>1 DEF Arrive, From
  <2>4. arrived' = arrived + 1 /\ inq' = Queued(d) /\ clientEp' = clientEp /\ via' = via
    BY <1>1 DEF Arrive, control
  <2>. QED  BY <2>2, <2>3, <2>4 DEF Comes
<1>2. CASE Tick \/ ClientLeaves \/ NearEnds \/ FarEnds \/ RemoteAnswers
  BY <1>2 DEF Tick, ClientLeaves, NearEnds, FarEnds, RemoteAnswers, queue, control
<1>3. CASE FirstSkip \/ FirstTake
  BY <1>3 DEF FirstSkip, FirstTake, control, Goes
<1>4. CASE FirstFails \/ RelayFails \/ StartRelay \/ RelayEnds
  BY <1>4 DEF FirstFails, RelayFails, StartRelay, RelayEnds, HandlerEnds, queue
<1>5. CASE MonitorFires \/ RemoteLoopEnds
  BY <1>5 DEF MonitorFires, RemoteLoopEnds, close, Closes
<1>6. CASE ReadSkip \/ ReadTake
  BY <1>6 DEF ReadSkip, ReadTake, control, Goes
<1>7. CASE ReadInjected \/ ReadClosed
  BY <1>7 DEF ReadInjected, ReadClosed, queue, control
<1>8. CASE (\E ip \in Ips : Resolved(ip)) \/ ResolveFails \/ SendOut \/ SendOutFails \/ SendBack
  BY <1>8, Zenon DEF Resolved, ResolveFails, SendOut, SendOutFails, SendBack, queue, control
<1>. QED  BY <1>1, <1>2, <1>3, <1>4, <1>5, <1>6, <1>7, <1>8 DEF Next, ReadClient
-------------------------------------------------------------------------------
\* client_ep_ is learnt once.
LEMMA EpStays ==
  ASSUME Queue, clientEp \in From, NEW d, d.from \in From, Learn(d)
  PROVE  clientEp' = clientEp
BY HostsAssumption DEF Queue, From, Learn

\* The queue stays in order, what was taken came before all of it, and a
\* client_ep_ that is known stays.
LEMMA QueueKept ==
  ASSUME Types, Types', Queue, Moves
  PROVE  /\ Queue' /\ From' = From
         /\ clientEp \in From => clientEp' = clientEp
         /\ Taken \subseteq Taken'
<1>0. From' = From /\ (Socks5' <=> Socks5)
  BY DEF Moves, From, Socks5
<1>. /\ arrived \in Nat /\ inq \in Seq(Datagrams) /\ Len(inq) \in Nat
     /\ \A d \in Datagrams : d.id \in Nat
  BY InSequence, BoundsAssumption DEF Types, TypeOK, Datagrams
<1>1. CASE UNCHANGED <<inq, arrived, clientEp>>
  BY <1>0, <1>1 DEF Queue, Taken
<1>2. CASE Closes
  <2>1. Len(inq') = 0 /\ 1..0 = {} /\ arrived' = arrived /\ clientEp' = clientEp
    BY <1>2, NoneYet DEF Closes
  <2>. QED  BY <1>0, <2>1 DEF Queue, Taken
<1>3. CASE Comes
  <2>1. PICK d \in Datagrams :
          /\ d.from \in From /\ d.id = arrived + 1 /\ arrived' = arrived + 1
          /\ inq' = Queued(d) /\ clientEp' = clientEp
    BY <1>3 DEF Comes
  <2>2. CASE inq' = inq
    BY <1>0, <2>1, <2>2 DEF Queue, Taken
  <2>3. CASE inq' = Append(inq, d)
    <3>1. /\ Len(inq') = Len(inq) + 1 /\ inq'[Len(inq) + 1] = d
          /\ \A i \in 1..Len(inq) : inq'[i] = inq[i]
      BY <2>3, Appended
    <3>2. \A i \in 1..Len(inq') : i \in 1..Len(inq) \/ i = Len(inq) + 1
      BY <3>1
    <3>3. \A i \in 1..Len(inq') : inq'[i].from \in From /\ inq'[i].id <= arrived'
      BY <2>1, <3>1, <3>2 DEF Queue
    <3>4. \A i, j \in 1..Len(inq') : i < j => inq'[i].id < inq'[j].id
      <4>. SUFFICES ASSUME NEW i \in 1..Len(inq'), NEW j \in 1..Len(inq'), i < j
                    PROVE  inq'[i].id < inq'[j].id
        OBVIOUS
      <4>1. i \in 1..Len(inq) /\ inq'[i] = inq[i] /\ inq[i] \in Datagrams
        BY <3>1, InSequence
      <4>2. inq[i].id <= arrived /\ inq[i].id \in Nat
        BY <4>1 DEF Queue
      <4>3. CASE j \in 1..Len(inq)
        BY <3>1, <4>1, <4>3 DEF Queue
      <4>4. CASE j = Len(inq) + 1
        BY <2>1, <3>1, <4>1, <4>2, <4>4
      <4>. QED  BY <3>2, <4>3, <4>4
    <3>5. ASSUME NEW m \in Taken
          PROVE  m \in Taken'
      <4>1. m.id \in Nat /\ m.id <= arrived /\ m.from = clientEp /\ clientEp \in From
        BY <3>5 DEF Taken
      <4>2. \A i \in 1..Len(inq') : m.id < inq'[i].id
        BY <2>1, <3>1, <3>2, <3>5, <4>1 DEF Taken
      <4>. QED  BY <1>0, <2>1, <4>1, <4>2 DEF Taken
    <3>. QED  BY <1>0, <2>1, <3>3, <3>4, <3>5 DEF Queue
  <2>. QED  BY <2>1, <2>2, <2>3 DEF Queued
<1>4. CASE Goes
  <2>1. PICK d \in Datagrams :
          /\ inq # <<>> /\ d = Head(inq) /\ inq' = Tail(inq) /\ Learn(d) /\ arrived' = arrived
    BY <1>4 DEF Goes, receiveFrom
  <2>2. /\ Len(inq) \in Nat \ {0} /\ Len(inq') = Len(inq) - 1 /\ d = inq[1]
        /\ \A i \in 1..Len(inq') : inq'[i] = inq[i + 1] /\ i + 1 \in 1..Len(inq)
    BY <2>1, FrontTaken
  <2>3. d.from \in From
    BY <2>2 DEF Queue
  <2>4. clientEp \in From => clientEp' = clientEp
    BY <2>1, <2>3, EpStays
  <2>5. ~Socks5 => clientEp' = None
    BY <2>1, <2>3 DEF From, Learn, Queue
  <2>6. ASSUME NEW i \in 1..Len(inq'), NEW j \in 1..Len(inq'), i < j
        PROVE  inq'[i].id < inq'[j].id
    <3>1. i + 1 \in 1..Len(inq) /\ j + 1 \in 1..Len(inq) /\ i + 1 < j + 1
      BY <2>2, <2>6
    <3>2. inq[i + 1].id < inq[j + 1].id
      BY <3>1 DEF Queue
    <3>. QED  BY <2>2, <3>2
  <2>7. ASSUME NEW m \in Taken
        PROVE  m \in Taken'
    <3>1. m.from = clientEp /\ clientEp \in From /\ m.id <= arrived
      BY <2>7 DEF Taken
    <3>2. \A i \in 1..Len(inq') : m.id < inq'[i].id
      BY <2>2, <2>7 DEF Taken
    <3>. QED  BY <1>0, <2>1, <2>4, <3>1, <3>2 DEF Taken
  <2>. QED  BY <1>0, <2>1, <2>2, <2>4, <2>5, <2>6, <2>7 DEF Queue
<1>. QED  BY <1>1, <1>2, <1>3, <1>4 DEF Moves

\* The datagram receiveFrom returns came before those that still wait, and after
\* everything taken before it.
LEMMA NewlyTaken ==
  ASSUME Types, Types', Queue, NEW d \in Datagrams, receiveFrom(d), Accepts(d), via' = via
  PROVE  d \in Taken' /\ \A m \in Taken : m.id < d.id
<1>. /\ arrived \in Nat /\ inq \in Seq(Datagrams) /\ Len(inq) \in Nat
     /\ \A e \in Datagrams : e.id \in Nat
  BY InSequence, BoundsAssumption, SMTT(20) DEF Types, TypeOK, Datagrams
<1>1. inq # <<>> /\ d = Head(inq) /\ inq' = Tail(inq) /\ Learn(d) /\ arrived' = arrived
  BY DEF receiveFrom
<1>2. /\ Len(inq) \in Nat \ {0} /\ Len(inq') = Len(inq) - 1 /\ d = inq[1]
      /\ \A i \in 1..Len(inq') : inq'[i] = inq[i + 1] /\ i + 1 \in 1..Len(inq)
  BY <1>1, FrontTaken
<1>3. d.from \in From /\ d.id <= arrived
  BY <1>2 DEF Queue
<1>4. clientEp' = d.from
  BY <1>1 DEF Learn, Accepts
<1>5. From' = From
  BY DEF From, Socks5
<1>6. \A i \in 1..Len(inq') : d.id < inq'[i].id
  BY <1>2 DEF Queue
<1>7. \A m \in Taken : m.id < d.id
  BY <1>2 DEF Taken
<1>. QED  BY <1>1, <1>3, <1>4, <1>5, <1>6, <1>7, SMTT(20) DEF Taken
-------------------------------------------------------------------------------
\* What read_client holds after it has looked at a datagram.
LEMMA Classified ==
  ASSUME Types, NEW d \in Datagrams, Classify(d), via' = via
  PROVE  /\ rc' \in {"resolve", "send"} /\ cur' \in Messages /\ cur'.msg = d
         /\ cur'.dest \in (IF rc' = "send" /\ ~Shine THEN Dests ELSE {None})
         /\ rc' = "resolve" => ~Shine /\ d.target.host \in Domains
         /\ rc' = "send" /\ ~Shine /\ d.target.host \in Domains
              => Cached(d) /\ cur'.dest = cache[d.target.host].dest
<1>0. d.target.host \in Domains \cup Ips /\ d.target.port \in Ports
  BY DEF Datagrams, Targets
<1>1. CASE ~Shine /\ d.target.host \in Ips /\ rc' = "send"
             /\ cur' = [msg |-> d, dest |-> [ip |-> d.target.host, port |-> d.target.port]]
  <2>1. [ip |-> d.target.host, port |-> d.target.port] \in Dests
    BY <1>0, <1>1 DEF Dests
  <2>2. d.target.host \notin Domains
    BY <1>1, HostsAssumption
  <2>. QED  BY <1>1, <2>1, <2>2 DEF Messages
<1>2. CASE ~Shine /\ d.target.host \in Domains /\ Cached(d) /\ rc' = "send"
             /\ cur' = [msg |-> d, dest |-> cache[d.target.host].dest]
  <2>1. cache[d.target.host].dest \in Dests
    BY <1>2 DEF Types, TypeOK, Cached
  <2>. QED  BY <1>2, <2>1 DEF Messages
<1>3. CASE ~Shine /\ d.target.host \in Domains /\ rc' = "resolve"
             /\ cur' = [msg |-> d, dest |-> None]
  BY <1>3 DEF Messages
<1>4. CASE Shine /\ rc' = "send" /\ cur' = [msg |-> d, dest |-> None]
  BY <1>4 DEF Messages
<1>. QED  BY <1>1, <1>2, <1>3, <1>4 DEF Classify

\* The queue of an association keeps its type.
LEMMA QueueTyped ==
  ASSUME Types, Moves
  PROVE  inq' \in Seq(Datagrams) /\ clientEp' \in Senders \cup {None}
<1>. inq \in Seq(Datagrams) /\ clientEp \in Senders \cup {None}
  BY DEF Types, TypeOK
<1>1. CASE UNCHANGED <<inq, arrived, clientEp>>
  BY <1>1
<1>2. CASE Closes
  BY <1>2, NoneYet DEF Closes
<1>3. CASE Comes
  BY <1>3, Appended DEF Comes, Queued
<1>4. CASE Goes
  <2>1. PICK d \in Datagrams : inq # <<>> /\ inq' = Tail(inq) /\ Learn(d)
    BY <1>4 DEF Goes, receiveFrom
  <2>2. inq' \in Seq(Datagrams)
    BY <2>1, FrontTaken
  <2>3. d.from \in Senders \cup {None}
    BY DEF Datagrams
  <2>. QED  BY <2>1, <2>2, <2>3 DEF Learn
<1>. QED  BY <1>1, <1>2, <1>3, <1>4 DEF Moves

\* The cache keeps its type and its limit.
LEMMA CacheTyped ==
  ASSUME NEW d \in Domains, NEW dest \in Dests, Types, cache' = Stored(d, dest)
  PROVE  /\ \A e \in DOMAIN cache' : e \in Domains /\ cache'[e] \in [dest : Dests, age : 0..TTL]
         /\ IsFiniteSet(DOMAIN cache') /\ Cardinality(DOMAIN cache') <= CacheLimit
<1>. DEFINE D == DOMAIN cache
<1>0. /\ IsFiniteSet(D) /\ Cardinality(D) <= CacheLimit /\ Cardinality(D) \in Nat
      /\ CacheLimit \in Nat /\ 0 \in 0..TTL
      /\ \A e \in D : e \in Domains /\ cache[e] \in [dest : Dests, age : 0..TTL]
  BY FS_CardinalityType, BoundsAssumption DEF Types, TypeOK
<1>1. CASE cache' = cache
  BY <1>0, <1>1
<1>2. CASE /\ Cardinality(D) < CacheLimit \/ d \in D
           /\ cache' = [e \in D \cup {d} |-> IF e = d THEN [dest |-> dest, age |-> 0] ELSE cache[e]]
  <2>1. DOMAIN cache' = D \cup {d}
    BY <1>2
  <2>2. \A e \in D \cup {d} : e \in Domains /\ cache'[e] \in [dest : Dests, age : 0..TTL]
    BY <1>0, <1>2
  <2>3. /\ IsFiniteSet(D \cup {d})
        /\ Cardinality(D \cup {d}) = IF d \in D THEN Cardinality(D) ELSE Cardinality(D) + 1
    BY <1>0, FS_AddElement
  <2>4. Cardinality(D \cup {d}) <= CacheLimit
    BY <1>0, <1>2, <2>3
  <2>. QED  BY <2>1, <2>2, <2>3, <2>4
<1>. QED  BY <1>1, <1>2 DEF Stored

\* Ages stop at TTL, and nothing becomes younger.
LEMMA OlderTyped == \A n \in 0..TTL : Older(n) \in 0..TTL /\ (Older(n) < TTL => n < TTL)
BY BoundsAssumption, SMTT(20) DEF Older
-------------------------------------------------------------------------------
\* Every step keeps the types.
LEMMA TypesKept ==
  ASSUME Types, Queue, Order, Names, Next
  PROVE  Types'
<1>. USE DEF Types
<1>0. Moves /\ inq' \in Seq(Datagrams) /\ clientEp' \in Senders \cup {None} /\ via' = via
      /\ (Shine' <=> Shine) /\ (Socks5' <=> Socks5)
  <2>1. Moves
    BY NextMoves
  <2>. QED  BY <2>1, QueueTyped DEF Moves, Shine, Socks5
<1>1. ASSUME NEW s \in Senders \cup {None}, NEW ok \in BOOLEAN, NEW t \in Targets, Arrive(s, ok, t)
      PROVE  Types'
  <2>1. arrived' \in 0..MaxIn
    BY <1>1, BoundsAssumption DEF TypeOK, Arrive
  <2>. QED  BY <1>0, <1>1, <2>1 DEF TypeOK, Arrive, control, names, Busy
<1>2. CASE Tick
  <2>1. DOMAIN cache' = DOMAIN cache
    BY <1>2 DEF Tick
  <2>2. \A d \in DOMAIN cache' : d \in Domains /\ cache'[d] \in [dest : Dests, age : 0..TTL]
    BY <1>2, OlderTyped, ZenonT(30) DEF Tick, TypeOK
  <2>3. recent' \in SUBSET Answers
    BY <1>2, OlderTyped DEF Tick, Answers
  <2>. QED  BY <1>0, <1>2, <2>1, <2>2, <2>3 DEF TypeOK, Tick, queue, control, Busy
<1>3. CASE ClientLeaves \/ NearEnds \/ FarEnds \/ RemoteAnswers
  BY <1>0, <1>3, SMTT(20) DEF TypeOK, ClientLeaves, NearEnds, FarEnds, RemoteAnswers, queue, control, names, Busy
<1>4. CASE FirstSkip \/ FirstTake
  BY <1>0, <1>4 DEF TypeOK, FirstSkip, FirstTake, receiveFrom, control, names, Busy
<1>5. CASE FirstFails \/ RelayFails \/ RelayEnds
  BY <1>0, <1>5 DEF TypeOK, FirstFails, RelayFails, RelayEnds, HandlerEnds, queue, names, Busy
<1>6. CASE StartRelay
  <2>1. rc = "idle" /\ cur = NoCur
    BY <1>6 DEF StartRelay, Order, Busy
  <2>. QED  BY <1>0, <1>6, <2>1 DEF NoCur, TypeOK, StartRelay, queue, names, Busy
<1>7. CASE MonitorFires \/ RemoteLoopEnds
  BY <1>0, <1>7 DEF TypeOK, MonitorFires, RemoteLoopEnds, close, names, Busy
<1>8. CASE ReadInjected
  <2>1. injected \in Datagrams /\ Classify(injected) /\ injected' = None
    BY <1>8, SMTT(20) DEF ReadInjected, Replayed, TypeOK
  <2>. QED  BY <1>0, <1>8, <2>1, Classified DEF TypeOK, ReadInjected, queue, names, Busy
<1>9. CASE ReadSkip
  BY <1>0, <1>9 DEF TypeOK, ReadSkip, receiveFrom, control, names, Busy
<1>10. CASE ReadTake
  <2>1. PICK d \in Datagrams : receiveFrom(d) /\ Classify(d)
    BY <1>10 DEF ReadTake
  <2>. QED  BY <1>0, <1>10, <2>1, Classified DEF TypeOK, ReadTake, receiveFrom, control, names, Busy
<1>11. CASE ReadClosed \/ ResolveFails \/ SendOutFails
  BY <1>0, <1>11 DEF TypeOK, ReadClosed, ResolveFails, SendOutFails, queue, control, names, Busy, NoCur
<1>12. ASSUME NEW ip \in Ips, Resolved(ip)
       PROVE  Types'
  <2>. DEFINE t == cur.msg.target
              dest == [ip |-> ip, port |-> t.port]
  <2>1. /\ cache' = Stored(t.host, dest) /\ cur' = [cur EXCEPT !.dest = dest]
        /\ recent' = recent \cup {<<t.host, ip, 0>>} /\ rc = "resolve" /\ rc' = "send"
    BY <1>12 DEF Resolved
  <2>2. cur \in Messages /\ ~Shine /\ t.host \in Domains
    BY <2>1 DEF Busy, Names
  <2>3. dest \in Dests
    BY <2>2 DEF Messages, Datagrams, Targets, Dests
  <2>4. cur' \in Messages /\ cur'.dest = dest
    BY <2>1, <2>2, <2>3, Zenon DEF Messages
  <2>5. /\ \A e \in DOMAIN cache' : e \in Domains /\ cache'[e] \in [dest : Dests, age : 0..TTL]
        /\ IsFiniteSet(DOMAIN cache') /\ Cardinality(DOMAIN cache') <= CacheLimit
    <3>. HIDE DEF t, dest
    <3>. QED  BY <2>1, <2>2, <2>3, CacheTyped
  <2>6. recent' \in SUBSET Answers
    BY <2>1, <2>2, BoundsAssumption DEF Answers
  <2>. QED  BY <1>0, <1>12, <2>1, <2>2, <2>3, <2>4, <2>5, <2>6, Zenon
             DEF TypeOK, Resolved, queue, control, Busy
<1>13. CASE SendOut
  <2>1. cur \in Messages /\ rc' = "recv" /\ cur' = NoCur /\ (out' = Append(out, cur) \/ out' = out)
    BY <1>13 DEF SendOut, Busy
  <2>2. out' \in Seq(Messages)
    BY <2>1, Appended
  <2>. QED  BY <1>0, <1>13, <2>1, <2>2 DEF TypeOK, SendOut, queue, control, names, Busy, NoCur
<1>14. CASE SendBack
  <2>1. back' \in Seq(Senders \cup {None})
    BY <1>14, Appended DEF SendBack, TypeOK
  <2>. QED  BY <1>0, <1>14, <2>1 DEF TypeOK, SendBack, queue, control, names, Busy
<1>. QED  BY <1>1, <1>2, <1>3, <1>4, <1>5, <1>6, <1>7, <1>8, <1>9, <1>10, <1>11, <1>12, <1>13, <1>14
          DEF Next, ReadClient
-------------------------------------------------------------------------------
\* Every step keeps the order.
LEMMA OrderKept ==
  ASSUME Types, Types', Queue, Order, Next
  PROVE  Order'
<1>0. Moves /\ via' = via
  BY NextMoves DEF Moves
<1>. out \in Seq(Messages) /\ Len(out) \in Nat
  BY InSequence DEF Types
<1>. \A d \in Datagrams : d.id \in Nat
  BY BoundsAssumption DEF Datagrams
<1>. \A m \in Messages : m.msg \in Datagrams
  BY DEF Messages
<1>. \A i \in 1..Len(out) : out[i].msg \in Datagrams
  BY InSequence
<1>. Busy => cur.msg \in Datagrams
  BY DEF Types
<1>t. /\ Taken \subseteq Taken' /\ \A i \in 1..Len(out) : out[i].msg \in Taken'
      /\ Busy => cur.msg \in Taken'
      /\ injected # None => injected \in Taken'
  BY <1>0, QueueKept DEF Order
<1>1. ASSUME UNCHANGED <<out, rc, cur, injected>>, handler' = handler \/ handler' \notin {"first", "route"}
      PROVE  Order'
  BY <1>t, <1>1 DEF Order, Busy
<1>2. CASE FirstTake
  <2>1. PICK d \in Datagrams : receiveFrom(d) /\ Accepts(d) /\ injected' = d
    BY <1>2 DEF FirstTake
  <2>2. d \in Taken'
    BY <1>0, <2>1, NewlyTaken
  <2>3. out = <<>> /\ rc = "idle" /\ UNCHANGED <<out, rc, cur>>
    BY <1>2 DEF FirstTake, Order
  <2>. QED  BY <1>t, <2>1, <2>2, <2>3, NoneYet DEF Order, Busy
<1>3. CASE StartRelay
  <2>1. out = <<>> /\ ~Busy /\ ~Busy' /\ UNCHANGED <<out, injected>> /\ handler' = "relay"
    BY <1>3 DEF StartRelay, Order, Busy
  <2>. QED  BY <1>t, <2>1, NoneYet DEF Order
<1>4. CASE ReadInjected
  <2>1. /\ injected # None /\ injected \in Datagrams /\ Classify(injected) /\ injected' = None
        /\ UNCHANGED <<out, handler>> /\ rc = "recv"
    BY <1>4 DEF ReadInjected, Replayed, Types, TypeOK
  <2>2. cur'.msg = injected /\ out = <<>> /\ handler \notin {"first", "route"}
    BY <1>0, <2>1, Classified DEF Order
  <2>. QED  BY <1>t, <2>1, <2>2, NoneYet, SMTT(20) DEF Order
<1>5. CASE ReadTake
  <2>1. PICK d \in Datagrams : receiveFrom(d) /\ Accepts(d) /\ Classify(d)
    BY <1>5 DEF ReadTake
  <2>2. d \in Taken' /\ \A m \in Taken : m.id < d.id
    BY <1>0, <2>1, NewlyTaken, SMTT(20)
  <2>3. /\ cur'.msg = d /\ injected' = None /\ UNCHANGED <<out, handler>>
        /\ handler \notin {"first", "route"}
    BY <1>0, <1>5, <2>1, Classified, SMTT(20) DEF ReadTake, control, Order
  <2>4. \A i \in 1..Len(out) : out[i].msg.id < d.id
    BY <2>2 DEF Order
  <2>. QED  BY <1>t, <2>2, <2>3, <2>4 DEF Order
<1>6. CASE ReadClosed \/ ResolveFails \/ SendOutFails
  <2>1. UNCHANGED <<out, injected, handler>> /\ ~Busy' /\ handler \notin {"first", "route"}
    BY <1>6 DEF ReadClosed, ResolveFails, SendOutFails, control, Order, Busy
  <2>. QED  BY <1>t, <2>1 DEF Order
<1>7. ASSUME NEW ip \in Ips, Resolved(ip)
      PROVE  Order'
  <2>1. /\ UNCHANGED <<out, injected, handler>> /\ Busy /\ Busy'
        /\ handler \notin {"first", "route"} /\ cur \in Messages
    BY <1>7 DEF Resolved, control, Order, Busy, Types
  <2>2. cur'.msg = cur.msg
    BY <1>7, <2>1 DEF Resolved, Messages
  <2>. QED  BY <1>t, <2>1, <2>2 DEF Order
<1>8. CASE SendOut
  <2>1. /\ UNCHANGED <<injected, handler>> /\ Busy /\ ~Busy' /\ injected = None
        /\ handler \notin {"first", "route"} /\ cur \in Messages
        /\ out' = Append(out, cur) \/ out' = out
    BY <1>8 DEF SendOut, control, Order, Busy, Types
  <2>2. CASE out' = out
    BY <1>t, <2>1, <2>2 DEF Order
  <2>3. CASE out' = Append(out, cur)
    <3>1. /\ Len(out') = Len(out) + 1 /\ out'[Len(out) + 1] = cur
          /\ \A i \in 1..Len(out) : out'[i] = out[i]
      BY <2>1, <2>3, Appended
    <3>2. \A i \in 1..Len(out') : i \in 1..Len(out) \/ i = Len(out) + 1
      BY <3>1
    <3>3. \A i \in 1..Len(out') : out'[i].msg \in Taken'
      BY <1>t, <2>1, <3>1, <3>2
    <3>4. \A i, j \in 1..Len(out') : i < j => out'[i].msg.id < out'[j].msg.id
      <4>. SUFFICES ASSUME NEW i \in 1..Len(out'), NEW j \in 1..Len(out'), i < j
                    PROVE  out'[i].msg.id < out'[j].msg.id
        OBVIOUS
      <4>1. i \in 1..Len(out) /\ out'[i] = out[i]
        BY <3>1
      <4>2. CASE j \in 1..Len(out)
        BY <3>1, <4>1, <4>2 DEF Order
      <4>3. CASE j = Len(out) + 1
        BY <2>1, <3>1, <4>1, <4>3 DEF Order
      <4>. QED  BY <3>2, <4>2, <4>3
    <3>. QED  BY <2>1, <3>3, <3>4 DEF Order
  <2>. QED  BY <2>1, <2>2, <2>3
<1>9. CASE Tick \/ ClientLeaves \/ NearEnds \/ FarEnds \/ RemoteAnswers
  BY <1>1, <1>9 DEF Tick, ClientLeaves, NearEnds, FarEnds, RemoteAnswers, queue, control
<1>10. CASE FirstSkip \/ FirstFails \/ RelayFails \/ RelayEnds
  BY <1>1, <1>10 DEF FirstSkip, FirstFails, RelayFails, RelayEnds, HandlerEnds, control
<1>11. CASE MonitorFires \/ ReadSkip \/ SendBack \/ RemoteLoopEnds
  BY <1>1, <1>11 DEF MonitorFires, ReadSkip, SendBack, RemoteLoopEnds, control
<1>12. ASSUME NEW s \in Senders \cup {None}, NEW ok \in BOOLEAN, NEW t \in Targets, Arrive(s, ok, t)
       PROVE  Order'
  BY <1>1, <1>12 DEF Arrive, control
<1>. QED  BY <1>2, <1>3, <1>4, <1>5, <1>6, <1>7, <1>8, <1>9, <1>10, <1>11, <1>12
          DEF Next, ReadClient
-------------------------------------------------------------------------------
\* Every step keeps the answers with the client.
LEMMA BackKept ==
  ASSUME Types, Queue, Order, Back, Types', Next
  PROVE  Back'
<1>1. Moves
  BY NextMoves
<1>2. out # <<>> => clientEp' = clientEp /\ out' # <<>>
  <2>. SUFFICES ASSUME out # <<>> PROVE clientEp' = clientEp /\ out' # <<>>
    OBVIOUS
  <2>1. out \in Seq(Messages) /\ Len(out) \in Nat \ {0}
    BY InSequence DEF Types
  <2>2. out[1].msg \in Taken
    BY <2>1 DEF Order
  <2>3. clientEp \in From
    BY <2>2 DEF Taken
  <2>4. clientEp' = clientEp
    BY <1>1, <2>3, QueueKept
  <2>5. out' = out \/ (SendOut /\ out' = Append(out, cur))
    BY Zenon DEF Next, ReadClient, Arrive, Tick, ClientLeaves, NearEnds, FarEnds, RemoteAnswers,
           FirstSkip, FirstTake, FirstFails, RelayFails, StartRelay, RelayEnds, HandlerEnds,
           MonitorFires, ReadInjected, ReadSkip, ReadTake, ReadClosed, Resolved, ResolveFails,
           SendOut, SendOutFails, SendBack, RemoteLoopEnds
  <2>6. SendOut => cur \in Messages
    BY DEF SendOut, Types, Busy
  <2>. QED  BY <2>1, <2>4, <2>5, <2>6, Appended
<1>3. CASE back' = back /\ (rr' = "send" => rr = "send" \/ out # <<>>)
  <2>1. back = <<>> => Len(back) = 0 /\ 1..0 = {}
    BY NoneYet
  <2>. QED  BY <1>2, <1>3, <2>1 DEF Back
<1>4. CASE SendBack
  <2>1. /\ out # <<>> /\ back' = Append(back, clientEp) /\ clientEp' = clientEp
        /\ back \in Seq(Senders \cup {None}) /\ clientEp \in Senders \cup {None}
    BY <1>2, <1>4 DEF SendBack, Back, Types, TypeOK
  <2>2. /\ Len(back) \in Nat /\ Len(back') = Len(back) + 1 /\ back'[Len(back) + 1] = clientEp
        /\ \A i \in 1..Len(back) : back'[i] = back[i]
    BY <2>1, Appended
  <2>. QED  BY <1>2, <2>1, <2>2 DEF Back
<1>5. CASE RemoteAnswers
  BY <1>3, <1>5 DEF RemoteAnswers
<1>6. ASSUME NEW s \in Senders \cup {None}, NEW ok \in BOOLEAN, NEW t \in Targets, Arrive(s, ok, t)
      PROVE  Back'
  BY <1>3, <1>6 DEF Arrive
<1>7. CASE Tick \/ ClientLeaves \/ NearEnds \/ FarEnds \/ FirstSkip \/ FirstTake \/ FirstFails
  BY <1>3, <1>7 DEF Tick, ClientLeaves, NearEnds, FarEnds, FirstSkip, FirstTake, FirstFails
<1>8. CASE RelayFails \/ StartRelay \/ RelayEnds \/ MonitorFires \/ RemoteLoopEnds
  BY <1>3, <1>8 DEF RelayFails, StartRelay, RelayEnds, HandlerEnds, MonitorFires, RemoteLoopEnds
<1>9. CASE ReadClient
  BY <1>3, <1>9, Zenon DEF ReadClient, ReadInjected, ReadSkip, ReadTake, ReadClosed, Resolved,
                    ResolveFails, SendOut, SendOutFails
<1>. QED  BY <1>4, <1>5, <1>6, <1>7, <1>8, <1>9 DEF Next
-------------------------------------------------------------------------------
\* Every step keeps the cache true to the resolver's answers.
LEMMA NamesKept ==
  ASSUME Types, Names, Types', Next
  PROVE  Names'
<1>0. via' = via /\ (Shine' <=> Shine)
  BY NextMoves DEF Moves, Shine
<1>1. CASE UNCHANGED <<cache, recent>> /\ (rc' # "resolve" \/ UNCHANGED <<rc, cur>>)
  BY <1>0, <1>1 DEF Names
<1>2. CASE Tick
  <2>1. ASSUME NEW d \in DOMAIN cache'
        PROVE  <<d, cache'[d].dest.ip, cache'[d].age>> \in recent'
    <3>1. d \in DOMAIN cache /\ cache[d] \in [dest : Dests, age : 0..TTL]
      BY <1>2 DEF Tick, Types, TypeOK
    <3>2. cache'[d].dest = cache[d].dest /\ cache'[d].age = Older(cache[d].age)
      BY <1>2, <3>1 DEF Tick
    <3>. DEFINE a == <<d, cache[d].dest.ip, cache[d].age>>
    <3>3. a \in recent
      BY <3>1 DEF Names
    <3>4. <<a[1], a[2], Older(a[3])>> \in recent'
      BY <1>2, <3>3 DEF Tick
    <3>5. a[1] = d /\ a[2] = cache[d].dest.ip /\ a[3] = cache[d].age
      OBVIOUS
    <3>. QED  BY <3>2, <3>4, <3>5
  <2>2. UNCHANGED <<rc, cur>>
    BY <1>2 DEF Tick
  <2>. QED  BY <1>0, <2>1, <2>2 DEF Names
<1>3. ASSUME NEW ip \in Ips, Resolved(ip)
      PROVE  Names'
  <2>. DEFINE t == cur.msg.target
              dest == [ip |-> ip, port |-> t.port]
  <2>1. /\ cache' = Stored(t.host, dest) /\ recent' = recent \cup {<<t.host, ip, 0>>}
        /\ rc' = "send"
    BY <1>3 DEF Resolved
  <2>2. dest.ip = ip
    OBVIOUS
  <2>. HIDE DEF t, dest
  <2>3. \A d \in DOMAIN cache' : <<d, cache'[d].dest.ip, cache'[d].age>> \in recent'
    <3>1. CASE cache' = cache
      BY <2>1, <3>1 DEF Names
    <3>2. CASE cache' = [e \in DOMAIN cache \cup {t.host} |->
                           IF e = t.host THEN [dest |-> dest, age |-> 0] ELSE cache[e]]
      BY <2>1, <2>2, <3>2 DEF Names
    <3>. QED  BY <2>1, <3>1, <3>2, Zenon DEF Stored
  <2>. QED  BY <2>1, <2>3 DEF Names
<1>4. CASE ReadInjected
  <2>1. injected \in Datagrams /\ Classify(injected) /\ UNCHANGED <<cache, recent>>
    BY <1>4, SMTT(20) DEF ReadInjected, Types, TypeOK, names
  <2>. QED  BY <1>0, <2>1, Classified DEF Names
<1>5. CASE ReadTake
  <2>1. PICK d \in Datagrams : Classify(d)
    BY <1>5 DEF ReadTake
  <2>2. UNCHANGED <<cache, recent>>
    BY <1>5 DEF ReadTake, names
  <2>. QED  BY <1>0, <2>1, <2>2, Classified DEF Names
<1>6. ASSUME NEW s \in Senders \cup {None}, NEW ok \in BOOLEAN, NEW t \in Targets, Arrive(s, ok, t)
      PROVE  Names'
  BY <1>1, <1>6 DEF Arrive, names
<1>7. CASE ClientLeaves \/ NearEnds \/ FarEnds \/ RemoteAnswers \/ FirstSkip \/ FirstTake
  BY <1>1, <1>7 DEF ClientLeaves, NearEnds, FarEnds, RemoteAnswers, FirstSkip, FirstTake, names
<1>8. CASE FirstFails \/ RelayFails \/ StartRelay \/ RelayEnds \/ MonitorFires
  BY <1>1, <1>8 DEF FirstFails, RelayFails, StartRelay, RelayEnds, HandlerEnds, MonitorFires, names
<1>9. CASE ReadSkip \/ ReadClosed \/ ResolveFails \/ SendOut \/ SendOutFails
  BY <1>1, <1>9 DEF ReadSkip, ReadClosed, ResolveFails, SendOut, SendOutFails, names
<1>10. CASE SendBack \/ RemoteLoopEnds
  BY <1>1, <1>10 DEF SendBack, RemoteLoopEnds, names
<1>. QED  BY <1>2, <1>3, <1>4, <1>5, <1>6, <1>7, <1>8, <1>9, <1>10 DEF Next, ReadClient
-------------------------------------------------------------------------------
\* Inv holds at first and every step keeps it.
LEMMA InvAtFirst == Init => Inv
<1>. SUFFICES ASSUME Init PROVE Inv
  OBVIOUS
<1>1. DOMAIN cache = {} /\ IsFiniteSet(DOMAIN cache) /\ Cardinality(DOMAIN cache) <= CacheLimit
  <2>1. DOMAIN cache = {}
    BY DEF Init
  <2>. QED  BY <2>1, FS_EmptySet, BoundsAssumption
<1>2. inq \in Seq(Datagrams) /\ out \in Seq(Messages) /\ back \in Seq(Senders \cup {None})
      /\ Len(inq) = 0 /\ Len(out) = 0 /\ Len(back) = 0 /\ 1..0 = {}
  BY NoneYet DEF Init
<1>3. Types
  BY <1>1, <1>2, BoundsAssumption DEF Init, Types, TypeOK, Busy, NoCur, Shine
<1>4. Queue
  BY <1>2 DEF Init, Queue
<1>5. Order /\ Back
  BY <1>2 DEF Init, Order, Back, Busy
<1>6. Names
  BY <1>1 DEF Init, Names
<1>. QED  BY <1>3, <1>4, <1>5, <1>6 DEF Inv

\* Every step keeps the invariant.
LEMMA InvKept == Inv /\ [Next]_vars => Inv'
<1>1. ASSUME Inv, Next
      PROVE  Inv'
  <2>. USE <1>1 DEF Inv
  <2>1. Types'
    BY TypesKept
  <2>2. Queue'
    BY <2>1, NextMoves, QueueKept
  <2>3. Order'
    BY <2>1, OrderKept
  <2>4. Back'
    BY <2>1, BackKept
  <2>5. Names'
    BY <2>1, NamesKept
  <2>. QED  BY <2>1, <2>2, <2>3, <2>4, <2>5
<1>2. ASSUME Inv, UNCHANGED vars
      PROVE  Inv'
  <2>1. UNCHANGED <<via, tcp, near, far, inq, arrived, clientEp, handler, monitor, injected>>
        /\ UNCHANGED <<rc, cur, rr, cache, out, back, recent>>
    BY <1>2 DEF vars
  <2>2. Types'
    BY <1>2, <2>1, SMTT(20) DEF Inv, Types, TypeOK, Busy, Shine
  <2>3. Queue' /\ Order'
    BY <1>2, <2>1 DEF Inv, Queue, Order, Taken, From, Socks5, Busy
  <2>4. Back' /\ Names'
    BY <1>2, <2>1 DEF Inv, Back, Names, Shine
  <2>. QED  BY <2>2, <2>3, <2>4 DEF Inv
<1>. QED  BY <1>1, <1>2

(***************************************************************************)
(* For every number of names, senders and datagrams and every limit: the   *)
(* datagrams of an association leave in the order in which they came, none *)
(* twice, all from the sender that receiveFrom learnt first, every answer  *)
(* goes back to it, and handleUdp's cache never exceeds its limit.         *)
(***************************************************************************)
THEOREM DatagramsInOrder == Spec => []RelayedOnce
<1>1. Inv => RelayedOnce
  BY DEF Inv, Types, Order, Taken, Back, RelayedOnce
<1>. QED  BY <1>1, InvAtFirst, InvKept, PTL DEF Spec

\* One step of DestFresh.
Chosen ==
    (rc # "send" /\ rc' = "send" /\ ~Shine /\ cur'.msg.target.host \in Domains)
      => \E a \in recent' : /\ a[1] = cur'.msg.target.host
                            /\ a[2] = cur'.dest.ip
                            /\ a[3] < TTL

\* read_client chooses an address from the cache, while the entry is fresh, or
\* from the answer it has just been given.
LEMMA ChosenFresh ==
  ASSUME Inv, Next, rc # "send", rc' = "send", ~Shine, cur'.msg.target.host \in Domains
  PROVE  \E a \in recent' : a[1] = cur'.msg.target.host /\ a[2] = cur'.dest.ip /\ a[3] < TTL
<1>0. via' = via /\ Types /\ Names
  BY NextMoves DEF Moves, Inv
<1>1. ASSUME NEW d \in Datagrams, Classify(d), recent' = recent
      PROVE  \E a \in recent' : a[1] = cur'.msg.target.host /\ a[2] = cur'.dest.ip /\ a[3] < TTL
  <2>. DEFINE h == d.target.host
              a == <<h, cache[h].dest.ip, cache[h].age>>
  <2>1. cur'.msg = d /\ Cached(d) /\ cur'.dest = cache[h].dest
    BY <1>0, <1>1, Classified
  <2>2. h \in DOMAIN cache /\ cache[h].age < TTL
    BY <2>1 DEF Cached, Fresh
  <2>3. a \in recent
    BY <1>0, <2>2 DEF Names
  <2>4. a[1] = h /\ a[2] = cache[h].dest.ip /\ a[3] = cache[h].age
    OBVIOUS
  <2>. HIDE DEF a
  <2>. QED  BY <1>1, <2>1, <2>2, <2>3, <2>4
<1>2. CASE ReadInjected
  BY <1>0, <1>1, <1>2 DEF ReadInjected, Types, TypeOK, names
<1>3. CASE ReadTake
  BY <1>1, <1>3 DEF ReadTake, names
<1>4. ASSUME NEW ip \in Ips, Resolved(ip)
      PROVE  \E a \in recent' : a[1] = cur'.msg.target.host /\ a[2] = cur'.dest.ip /\ a[3] < TTL
  <2>. DEFINE a == <<cur.msg.target.host, ip, 0>>
  <2>1. a \in recent' /\ rc = "resolve"
    BY <1>4 DEF Resolved
  <2>2. cur \in Messages
    BY <1>0, <2>1 DEF Types, Busy
  <2>3. cur'.msg = cur.msg /\ cur'.dest.ip = ip
    BY <1>4, <2>2 DEF Resolved, Messages
  <2>4. a[1] = cur.msg.target.host /\ a[2] = ip /\ a[3] < TTL
    BY BoundsAssumption
  <2>. HIDE DEF a
  <2>. QED  BY <2>1, <2>3, <2>4
<1>5. ~(Tick \/ ClientLeaves \/ NearEnds \/ FarEnds \/ RemoteAnswers)
  BY DEF Tick, ClientLeaves, NearEnds, FarEnds, RemoteAnswers
<1>6. ~(FirstSkip \/ FirstTake \/ FirstFails \/ RelayFails \/ StartRelay \/ RelayEnds)
  BY DEF FirstSkip, FirstTake, FirstFails, RelayFails, StartRelay, RelayEnds, HandlerEnds
<1>7. ~(MonitorFires \/ ReadSkip \/ ReadClosed \/ ResolveFails \/ SendOut \/ SendOutFails)
  BY DEF MonitorFires, ReadSkip, ReadClosed, ResolveFails, SendOut, SendOutFails, control
<1>8. ~(SendBack \/ RemoteLoopEnds)
  BY DEF SendBack, RemoteLoopEnds
<1>9. \A s \in Senders \cup {None}, ok \in BOOLEAN, t \in Targets : ~Arrive(s, ok, t)
  BY DEF Arrive
<1>. QED  BY <1>2, <1>3, <1>4, <1>5, <1>6, <1>7, <1>8, <1>9 DEF Next, ReadClient

(***************************************************************************)
(* For every cache limit and every time to live: the address handleUdp     *)
(* sends a datagram to is one that the resolver gave for its very name     *)
(* less than TTL ago, however the entries of the cache were overwritten,   *)
(* kept out by its limit or aged while a query was under way.              *)
(***************************************************************************)
THEOREM AddressesAreFresh == Spec => DestFresh
<1>1. Inv /\ [Next]_vars => [Chosen]_vars
  BY ChosenFresh DEF Chosen
<1>2. [][Chosen]_vars => DestFresh
  BY PTL DEF DestFresh, Chosen
<1>. QED  BY <1>1, <1>2, InvAtFirst, InvKept, PTL DEF Spec
===============================================================================
