----------------------------- MODULE PeersProofs -----------------------------
(***************************************************************************)
(* P2PState for any peers, blocks and connections, and whatever the swarm, *)
(* the loop and the tasks do: the two maps of the block tracker agree, the *)
(* connections known are the open ones, and no sender of a bad block is    *)
(* forgotten.                                                              *)
(***************************************************************************)
EXTENDS Peers, TLAPS, FiniteSetTheorems

\* The two maps are maps, from blocks and from peers.  With TrackerAgrees
\* this is inductive: what the keys of the effects are does not matter.
TrackerInv ==
    /\ block_id_to_peers = [b \in Block |-> block_id_to_peers[b]]
    /\ peer_to_block_ids = [p \in Peer |-> peer_to_block_ids[p]]
    /\ TrackerAgrees

tracker == <<block_id_to_peers, peer_to_block_ids>>

\* P2PState::new starts with an empty tracker.
LEMMA InitTracker == Init => TrackerInv
BY Zenon DEF Init, TrackerInv, TrackerAgrees

\* remove_peer, for the peers of a lost connection or of a bad block.
LEMMA RemovePeersStep == ASSUME NEW ps, TrackerInv, RemovePeers(ps) PROVE TrackerInv'
BY Zenon DEF TrackerInv, TrackerAgrees, RemovePeers

\* remove_block_id_str.
LEMMA RemoveBlockIdStep == ASSUME NEW b, TrackerInv, RemoveBlockId(b) PROVE TrackerInv'
BY Zenon DEF TrackerInv, TrackerAgrees, RemoveBlockId

\* track_block_id_str_and_peer enters the pair into both maps.
LEMMA TrackStep ==
    ASSUME NEW b, NEW p, TrackerInv, TrackBlockIdAndPeer(b, p)
    PROVE  TrackerInv'
BY Zenon DEF TrackerInv, TrackerAgrees, TrackBlockIdAndPeer

\* A step that leaves the tracker alone.
LEMMA SameStep == TrackerInv /\ UNCHANGED tracker => TrackerInv'
BY Zenon DEF TrackerInv, TrackerAgrees, tracker

\* Of the loop's handlers only the one of a closed connection touches the
\* tracker, through lost_connection and remove_peer.
LEMMA HandleStep == TrackerInv /\ Handle => TrackerInv'
<1> SUFFICES ASSUME TrackerInv, Handle PROVE TrackerInv'
  BY Zenon
<1>1. \/ UNCHANGED tracker
      \/ LostConnection(loop.conn)
  BY Zenon DEF Handle, tracker, p2pState
<1>2. CASE LostConnection(loop.conn)
  <2>1. UNCHANGED tracker \/ \E ps : RemovePeers(ps)
    BY <1>2, Zenon DEF LostConnection, tracker, p2pState
  <2> QED
    BY <2>1, SameStep, RemovePeersStep, Zenon
<1> QED
  BY <1>1, <1>2, SameStep, Zenon

\* The tasks of the effects %track and %liar-block-id, and those that leave
\* the tracker alone.
LEMMA TaskStep == TrackerInv /\ TaskSteps => TrackerInv'
<1> SUFFICES ASSUME TrackerInv, TaskSteps PROVE TrackerInv'
  BY Zenon
<1>1. CASE \E t \in tasks : TaskTrackAdd(t)
  BY <1>1, TrackStep, Zenon DEF TaskTrackAdd
<1>2. CASE \E t \in tasks : TaskTrackRemove(t)
  BY <1>2, RemoveBlockIdStep, Zenon DEF TaskTrackRemove
<1>3. CASE \E t \in tasks : TaskLiarBlockId(t)
  BY <1>3, RemovePeersStep, Zenon DEF TaskLiarBlockId, ProcessBadBlockId
<1>4. CASE \E t \in tasks : TaskLiarPeer(t) \/ TaskLooksUp(t) \/ TaskCounts(t) \/ TaskResponds(t)
  <2>1. UNCHANGED tracker
    BY <1>4, Zenon DEF TaskLiarPeer, TaskLooksUp, TaskCounts, TaskResponds, p2pState, tracker
  <2> QED
    BY <2>1, SameStep, Zenon
<1>5. CASE TaskSendsBan \/ TaskUnlocks
  <2>1. UNCHANGED tracker
    BY <1>5, Zenon DEF TaskSendsBan, TaskUnlocks, p2pState, tracker
  <2> QED
    BY <2>1, SameStep, Zenon
<1> QED
  BY <1>1, <1>2, <1>3, <1>4, <1>5, Zenon DEF TaskSteps

\* Every step of the swarm, the kernel, the loop and the tasks.
LEMMA NextTracker == TrackerInv /\ [Next]_vars => TrackerInv'
<1> SUFFICES ASSUME TrackerInv, [Next]_vars PROVE TrackerInv'
  BY Zenon
<1>1. CASE \E c \in Conn : Connect(c) \/ Close(c) \/ TakeRequest(c) \/ \E ok \in BOOLEAN : Ping(c, ok)
  <2>1. UNCHANGED tracker
    BY <1>1, Zenon DEF Connect, Close, TakeRequest, Ping, Tick, p2pState, tracker
  <2> QED
    BY <2>1, SameStep, Zenon
<1>2. CASE Denied \/ \E p \in Peer : HeardNonsense(p) \/ \E b \in Block : HeardBlock(p, b)
  <2>1. UNCHANGED tracker
    BY <1>2, Zenon DEF Denied, Tick, HeardNonsense, HeardBlock, p2pState, tracker
  <2> QED
    BY <2>1, SameStep, Zenon
<1>3. CASE TakeEvent \/ TakeReset \/ TakeEffect \/ TakeSwarmAction
  <2>1. UNCHANGED tracker
    BY <1>3, Zenon DEF TakeEvent, TakeReset, TakeEffect, TakeSwarmAction, p2pState, tracker
  <2> QED
    BY <2>1, SameStep, Zenon
<1>4. CASE UNCHANGED vars
  <2>1. UNCHANGED tracker
    BY <1>4, Zenon DEF vars, p2pState, tracker
  <2> QED
    BY <2>1, SameStep, Zenon
<1> QED
  BY <1>1, <1>2, <1>3, <1>4, HandleStep, TaskStep, Zenon DEF Next

\* The two maps of P2PState's block tracker are each other's inverse in every
\* reachable state, for any number of peers, blocks and connections.
THEOREM TrackerAgreesTheorem == Spec => []TrackerAgrees
<1>1. TrackerInv => TrackerAgrees
  BY Zenon DEF TrackerInv
<1> QED
  BY <1>1, InitTracker, NextTracker, PTL DEF Spec

(***************************************************************************)
(* Queues: what is in them after a send, a receive, a batch of sends.      *)
(***************************************************************************)
LEMMA Appended ==
    ASSUME NEW T, NEW s \in Seq(T), NEW x \in T
    PROVE  Append(s, x) \in Seq(T) /\ \A y : y \in Range(Append(s, x)) <=> y \in Range(s) \/ y = x
<1>1. /\ Len(s) \in Nat /\ Len(Append(s, x)) = Len(s) + 1
      /\ Append(s, x)[Len(s) + 1] = x
      /\ \A i \in 1 .. Len(s) : Append(s, x)[i] = s[i]
      /\ Append(s, x) \in Seq(T)
  OBVIOUS
<1> QED
  BY <1>1 DEF Range

\* A receive takes the head.
LEMMA Taken ==
    ASSUME NEW T, NEW s \in Seq(T), s # <<>>
    PROVE  /\ Head(s) \in T /\ Tail(s) \in Seq(T)
           /\ \A y : y \in Range(s) <=> y = Head(s) \/ y \in Range(Tail(s))
<1>1. /\ Len(s) \in Nat /\ Len(s) > 0 /\ Len(Tail(s)) = Len(s) - 1
      /\ Head(s) = s[1]
      /\ \A i \in 1 .. (Len(s) - 1) : Tail(s)[i] = s[i + 1]
      /\ Head(s) \in T /\ Tail(s) \in Seq(T)
  OBVIOUS
<1>2. ASSUME NEW y, y \in Range(s), y # Head(s) PROVE y \in Range(Tail(s))
  <2>1. PICK i \in 1 .. Len(s) : s[i] = y
    BY <1>2 DEF Range
  <2>2. i - 1 \in 1 .. Len(Tail(s)) /\ Tail(s)[i - 1] = y
    BY <1>1, <1>2, <2>1
  <2>3. i - 1 \in DOMAIN Tail(s)
    <3>1. DOMAIN Tail(s) = 1 .. Len(Tail(s))
      BY <1>1
    <3> QED
      BY <2>2, <3>1, Zenon
  <2> QED
    BY <2>2, <2>3, Zenon DEF Range
<1>3. ASSUME NEW y, y \in Range(Tail(s)) PROVE y \in Range(s)
  <2>1. PICK i \in 1 .. Len(Tail(s)) : Tail(s)[i] = y
    BY <1>3 DEF Range
  <2>2. i + 1 \in 1 .. Len(s) /\ s[i + 1] = y
    BY <1>1, <2>1
  <2> QED
    BY <2>2 DEF Range
<1>4. Head(s) \in Range(s)
  BY <1>1 DEF Range
<1> QED
  BY <1>1, <1>2, <1>3, <1>4, Zenon

\* Several sends at once.
LEMMA Joined ==
    ASSUME NEW T, NEW s \in Seq(T), NEW t \in Seq(T)
    PROVE  s \o t \in Seq(T) /\ \A y : y \in Range(s \o t) <=> y \in Range(s) \/ y \in Range(t)
<1>1. /\ Len(s) \in Nat /\ Len(t) \in Nat /\ Len(s \o t) = Len(s) + Len(t)
      /\ \A i \in 1 .. Len(s) : (s \o t)[i] = s[i]
      /\ \A i \in 1 .. Len(t) : (s \o t)[Len(s) + i] = t[i]
      /\ s \o t \in Seq(T)
  OBVIOUS
<1>2. ASSUME NEW y, y \in Range(s \o t) PROVE y \in Range(s) \/ y \in Range(t)
  <2>1. PICK i \in 1 .. (Len(s) + Len(t)) : (s \o t)[i] = y
    BY <1>1, <1>2 DEF Range
  <2>2. CASE i <= Len(s)
    BY <1>1, <2>1, <2>2 DEF Range
  <2>3. CASE i > Len(s)
    <3>1. i - Len(s) \in 1 .. Len(t) /\ Len(s) + (i - Len(s)) = i
      BY <1>1, <2>1, <2>3
    <3>2. t[i - Len(s)] = y
      BY <1>1, <2>1, <3>1, Zenon
    <3> QED
      BY <3>1, <3>2 DEF Range
  <2> QED
    BY <1>1, <2>1, <2>2, <2>3
<1>3. ASSUME NEW y, y \in Range(s) PROVE y \in Range(s \o t)
  BY <1>1, <1>3 DEF Range
<1>4. ASSUME NEW y, y \in Range(t) PROVE y \in Range(s \o t)
  <2>1. PICK i \in 1 .. Len(t) : t[i] = y
    BY <1>4 DEF Range
  <2>2. Len(s) + i \in 1 .. Len(s \o t) /\ (s \o t)[Len(s) + i] = y
    BY <1>1, <2>1
  <2> QED
    BY <2>2 DEF Range
<1> QED
  BY <1>1, <1>2, <1>3, <1>4, Zenon

\* An empty queue.
LEMMA EmptyQueue == (\A y : y \notin Range(<<>>)) /\ (\A T : <<>> \in Seq(T))
BY DEF Range

\* An order of a finite set is a sequence with the members of the set.
LEMMA OrderMembers ==
    ASSUME NEW A, IsFiniteSet(A), NEW q \in Orders(A)
    PROVE  q \in Seq(A) /\ Range(q) = A
<1> DEFINE n == Cardinality(A)
<1>1. n \in Nat
  BY FS_CardinalityType, Zenon
<1>2. q \in [1 .. n -> A] /\ \A y \in A : \E i \in 1 .. n : q[i] = y
  BY Zenon DEF Orders, Bijection, Injection, Surjection
<1>3. q \in Seq(A)
  BY <1>1, <1>2
<1> QED
  BY <1>2, <1>3, Zenon DEF Range

\* The events of the connections a handler closes.
LEMMA ClosedEvents ==
    ASSUME NEW cs \in SUBSET Conn, IsFiniteSet(cs), NEW q \in Orders({Closed(c) : c \in cs})
    PROVE  q \in Seq(Event) /\ Range(q) = {Closed(c) : c \in cs}
<1> DEFINE A == {Closed(c) : c \in cs}
           f == [c \in cs |-> Closed(c)]
<1>1. IsFiniteSet(A)
  <2>1. f \in Surjection(cs, A)
    BY Zenon DEF Surjection
  <2> QED
    BY <2>1, FS_Surjection, Zenon
<1>2. A \subseteq Event
  BY DEF Event, Closed
<1>3. q \in Seq(A) /\ Range(q) = A
  BY <1>1, OrderMembers, Zenon
<1>4. q \in Seq(Event)
  BY <1>2, <1>3
<1> QED
  BY <1>3, <1>4, Zenon

(***************************************************************************)
(* The start of a connection is the first event about it.                  *)
(***************************************************************************)
\* The events are told apart.
LEMMA EventKinds ==
    ASSUME NEW c \in Conn, NEW d \in Conn
    PROVE  /\ Established(c) \in Event /\ Closed(c) \in Event
           /\ Established(c) # Closed(d)
           /\ Established(c) = Established(d) => c = d
           /\ Closed(c) = Closed(d) => c = d
           /\ Established(c) # None /\ Closed(c) # None
<1>1. Established(c) \in Event /\ Closed(c) \in Event
  BY Zenon DEF Established, Closed, Event
<1>2. Established(c).type = "established" /\ Closed(d).type = "closed"
  BY Zenon DEF Established, Closed
<1>3. Established(c).conn = c /\ Established(d).conn = d /\ Closed(c).conn = c /\ Closed(d).conn = d
  BY Zenon DEF Established, Closed
<1> QED
  BY <1>1, <1>2, <1>3, EventAssumption, Zenon

\* Taking an event.
LEMMA FirstTaken ==
    ASSUME NEW c \in Conn, NEW s \in Seq(Event), s # <<>>, EstablishedFirst(c, s)
    PROVE  /\ EstablishedFirst(c, Tail(s))
           /\ Head(s) \in {Established(c), Closed(c)} => Established(c) \notin Range(Tail(s))
<1>1. /\ Len(s) \in Nat /\ Len(s) > 0 /\ Len(Tail(s)) = Len(s) - 1
      /\ DOMAIN s = 1 .. Len(s) /\ DOMAIN Tail(s) = 1 .. (Len(s) - 1)
      /\ Head(s) = s[1]
      /\ \A i \in 1 .. (Len(s) - 1) : Tail(s)[i] = s[i + 1]
  OBVIOUS
<1>2. ASSUME NEW i \in DOMAIN Tail(s), NEW j \in DOMAIN Tail(s),
             Tail(s)[i] \in {Established(c), Closed(c)}, Tail(s)[j] = Established(c)
      PROVE  j <= i
  <2>1. i + 1 \in DOMAIN s /\ j + 1 \in DOMAIN s /\ s[i + 1] = Tail(s)[i] /\ s[j + 1] = Tail(s)[j]
    BY <1>1
  <2>2. j + 1 <= i + 1
    BY <1>2, <2>1, Zenon DEF EstablishedFirst
  <2>3. i \in Nat /\ j \in Nat
    BY <1>1
  <2> QED
    BY <2>2, <2>3
<1>3. ASSUME Head(s) \in {Established(c), Closed(c)}, Established(c) \in Range(Tail(s)) PROVE FALSE
  <2>1. PICK j \in 1 .. (Len(s) - 1) : Tail(s)[j] = Established(c)
    BY <1>1, <1>3, Zenon DEF Range
  <2>2. 1 \in DOMAIN s /\ j + 1 \in DOMAIN s /\ s[j + 1] = Established(c) /\ ~(j + 1 <= 1)
    BY <1>1, <2>1
  <2> QED
    BY <1>1, <1>3, <2>2, Zenon DEF EstablishedFirst
<1> QED
  BY <1>2, <1>3, Zenon DEF EstablishedFirst

\* Sending events that are not the start of c, or c's first.
LEMMA FirstSent ==
    ASSUME NEW c \in Conn, NEW s \in Seq(Event), NEW t \in Seq(Event), EstablishedFirst(c, s),
           \A j \in DOMAIN t : t[j] # Established(c)
    PROVE  EstablishedFirst(c, s \o t)
<1>1. /\ Len(s) \in Nat /\ Len(t) \in Nat
      /\ DOMAIN s = 1 .. Len(s) /\ DOMAIN t = 1 .. Len(t) /\ DOMAIN (s \o t) = 1 .. (Len(s) + Len(t))
      /\ \A i \in 1 .. Len(s) : (s \o t)[i] = s[i]
      /\ \A i \in 1 .. (Len(s) + Len(t)) : i > Len(s) => (s \o t)[i] = t[i - Len(s)]
  OBVIOUS
<1> SUFFICES ASSUME NEW i \in DOMAIN (s \o t), NEW j \in DOMAIN (s \o t),
                    (s \o t)[i] \in {Established(c), Closed(c)}, (s \o t)[j] = Established(c)
             PROVE  j <= i
  BY Zenon DEF EstablishedFirst
<1>2. i \in Nat /\ j \in Nat
  BY <1>1
<1>3. j <= Len(s)
  <2> SUFFICES ASSUME j > Len(s) PROVE FALSE
    BY <1>1, <1>2
  <2>1. j - Len(s) \in DOMAIN t /\ t[j - Len(s)] = Established(c)
    BY <1>1
  <2> QED
    BY <2>1, Zenon
<1>4. CASE i <= Len(s)
  <2>1. i \in DOMAIN s /\ j \in DOMAIN s /\ s[i] = (s \o t)[i] /\ s[j] = (s \o t)[j]
    BY <1>1, <1>3, <1>4
  <2> QED
    BY <2>1, Zenon DEF EstablishedFirst
<1> QED
  BY <1>1, <1>2, <1>3, <1>4

\* Sending the start of c when nothing about c is queued.
LEMMA FirstEstablished ==
    ASSUME NEW c \in Conn, NEW s \in Seq(Event), Established(c) \notin Range(s), Closed(c) \notin Range(s)
    PROVE  EstablishedFirst(c, Append(s, Established(c)))
<1>1. /\ Len(s) \in Nat /\ DOMAIN Append(s, Established(c)) = 1 .. (Len(s) + 1)
      /\ \A i \in 1 .. Len(s) : Append(s, Established(c))[i] = s[i]
  OBVIOUS
<1>2. \A i \in 1 .. Len(s) : s[i] # Established(c) /\ s[i] # Closed(c)
  BY DEF Range
<1>3. ASSUME NEW i \in 1 .. (Len(s) + 1), Append(s, Established(c))[i] \in {Established(c), Closed(c)}
      PROVE  i = Len(s) + 1
  BY <1>1, <1>2, <1>3
<1> QED
  BY <1>1, <1>3 DEF EstablishedFirst

(***************************************************************************)
(* The connections P2PState knows and those the swarm has.                 *)
(***************************************************************************)
\* What the handlers of a step leave as it was: no start or end of a
\* connection is taken from the loop, none put there.
SameHand ==
    \A c \in Conn : /\ loop' = Established(c) <=> loop = Established(c)
                    /\ loop' = Closed(c) <=> loop = Closed(c)

\* The swarm closes the connections cs, if any, and says so; other events it
\* sends are of other kinds.
LEMMA EventsSent ==
    ASSUME SwarmTypeOK, EventInv, NEW cs \in SUBSET open, NEW q \in Seq(Event), SameHand,
           open' = open \ cs, events' = events \o q, left'.conns = left.conns,
           connections' = connections,
           \A c \in Conn : Established(c) \notin Range(q) /\ (Closed(c) \in Range(q) <=> c \in cs)
    PROVE  EventInv'
<1> SUFFICES ASSUME NEW d \in Conn PROVE ConnInv(d)'
  BY Zenon DEF EventInv
<1>1. \A y : y \in Range(events') <=> y \in Range(events) \/ y \in Range(q)
  BY Joined, Zenon DEF SwarmTypeOK
<1>2. Established(d) \in Range(events') <=> Established(d) \in Range(events)
  BY <1>1, Zenon
<1>3. Closed(d) \in Range(events') <=> Closed(d) \in Range(events) \/ d \in cs
  BY <1>1, Zenon
<1>4. \A j \in DOMAIN q : q[j] # Established(d)
  BY Zenon DEF Range
<1>5. EstablishedFirst(d, events \o q)
  BY <1>4, FirstSent, Zenon DEF EventInv, ConnInv, SwarmTypeOK
<1>6. loop \in {Established(d), Closed(d)} => Established(d) \notin Range(events)
  BY Zenon DEF EventInv, ConnInv
<1>7. /\ d \in left.conns =>
            d \notin open \union connections /\ ~Queued(Established(d)) /\ ~Queued(Closed(d))
      /\ Queued(Established(d)) => d \notin connections
      /\ d \in open => ~Queued(Closed(d)) /\ (d \in connections \/ Queued(Established(d)))
      /\ d \notin open /\ (d \in connections \/ Queued(Established(d))) => Queued(Closed(d))
  BY Zenon DEF EventInv, ConnInv
<1>8. /\ loop' = Established(d) <=> loop = Established(d)
      /\ loop' = Closed(d) <=> loop = Closed(d)
  BY Zenon DEF SameHand
<1> QED
  BY <1>2, <1>3, <1>5, <1>6, <1>7, <1>8, Zenon DEF Queued, ConnInv

\* The swarm has a new connection.
LEMMA EventsConnect ==
    ASSUME SwarmTypeOK, EventInv, NEW c \in left.conns, SameHand,
           open' = open \union {c}, left'.conns = left.conns \ {c},
           events' = Append(events, Established(c)), connections' = connections
    PROVE  EventInv'
<1> SUFFICES ASSUME NEW d \in Conn PROVE ConnInv(d)'
  BY Zenon DEF EventInv
<1>0. c \in Conn /\ events \in Seq(Event) /\ Established(c) \in Event
  BY EventKinds, Zenon DEF SwarmTypeOK
<1>1. \A y : y \in Range(events') <=> y \in Range(events) \/ y = Established(c)
  BY <1>0, Appended
<1>2. /\ Established(d) \in Range(events') <=> Established(d) \in Range(events) \/ d = c
      /\ Closed(d) \in Range(events') <=> Closed(d) \in Range(events)
  BY <1>0, <1>1, EventKinds, Zenon
<1>3. EstablishedFirst(d, events')
  <2>1. CASE d = c
    <3>1. Established(c) \notin Range(events) /\ Closed(c) \notin Range(events)
      BY <1>0, Zenon DEF EventInv, ConnInv, Queued
    <3> QED
      BY <1>0, <2>1, <3>1, FirstEstablished, Zenon
  <2>2. CASE d # c
    <3>1. events' = events \o <<Established(c)>> /\ <<Established(c)>> \in Seq(Event)
      BY <1>0
    <3>2. Established(c) # Established(d)
      BY <1>0, <2>2, EventKinds, Zenon
    <3>3. \A j \in DOMAIN <<Established(c)>> : <<Established(c)>>[j] # Established(d)
      BY <3>2
    <3>4. EstablishedFirst(d, events)
      BY Zenon DEF EventInv, ConnInv
    <3> QED
      BY <1>0, <3>1, <3>3, <3>4, FirstSent, Zenon
  <2> QED
    BY <2>1, <2>2, Zenon
<1>4. /\ d \in left.conns =>
            d \notin open \union connections /\ ~Queued(Established(d)) /\ ~Queued(Closed(d))
      /\ Queued(Established(d)) => d \notin connections
      /\ d \in open => ~Queued(Closed(d)) /\ (d \in connections \/ Queued(Established(d)))
      /\ d \notin open /\ (d \in connections \/ Queued(Established(d))) => Queued(Closed(d))
      /\ loop \in {Established(d), Closed(d)} => Established(d) \notin Range(events)
  BY Zenon DEF EventInv, ConnInv
<1>5. /\ loop' = Established(d) <=> loop = Established(d)
      /\ loop' = Closed(d) <=> loop = Closed(d)
  BY Zenon DEF SameHand
<1> QED
  BY <1>2, <1>3, <1>4, <1>5, Zenon DEF Queued, ConnInv

\* The loop takes an event.
LEMMA EventsTake ==
    ASSUME SwarmTypeOK, EventInv, loop = None, events # <<>>,
           loop' = Head(events), events' = Tail(events),
           open' = open, left' = left, connections' = connections
    PROVE  EventInv'
<1> SUFFICES ASSUME NEW d \in Conn PROVE ConnInv(d)'
  BY Zenon DEF EventInv
<1>1. \A y : y \in Range(events) <=> y = loop' \/ y \in Range(events')
  BY Taken, Zenon DEF SwarmTypeOK
<1>2. EstablishedFirst(d, events')
      /\ (loop' \in {Established(d), Closed(d)} => Established(d) \notin Range(events'))
  BY FirstTaken, Zenon DEF EventInv, ConnInv, SwarmTypeOK
<1>3. loop # Established(d) /\ loop # Closed(d)
  BY EventKinds, Zenon
<1>4. /\ d \in left.conns =>
            d \notin open \union connections /\ ~Queued(Established(d)) /\ ~Queued(Closed(d))
      /\ Queued(Established(d)) => d \notin connections
      /\ d \in open => ~Queued(Closed(d)) /\ (d \in connections \/ Queued(Established(d)))
      /\ d \notin open /\ (d \in connections \/ Queued(Established(d))) => Queued(Closed(d))
  BY Zenon DEF EventInv, ConnInv
<1> QED
  BY <1>1, <1>2, <1>3, <1>4, Zenon DEF Queued, ConnInv

\* The handlers of the start and of the end of a connection.
LEMMA EventsHandled ==
    ASSUME SwarmTypeOK, EventInv, NEW c \in Conn, loop' = None,
           UNCHANGED <<open, left, events>>,
           \/ loop = Established(c) /\ connections' = connections \union {c}
           \/ loop = Closed(c) /\ connections' = connections \ {c}
    PROVE  EventInv'
<1> SUFFICES ASSUME NEW d \in Conn PROVE ConnInv(d)'
  BY Zenon DEF EventInv
<1>1. /\ d \in left.conns =>
            d \notin open \union connections /\ ~Queued(Established(d)) /\ ~Queued(Closed(d))
      /\ Queued(Established(d)) => d \notin connections
      /\ d \in open => ~Queued(Closed(d)) /\ (d \in connections \/ Queued(Established(d)))
      /\ d \notin open /\ (d \in connections \/ Queued(Established(d))) => Queued(Closed(d))
      /\ loop \in {Established(d), Closed(d)} => Established(d) \notin Range(events)
      /\ EstablishedFirst(d, events)
  BY Zenon DEF EventInv, ConnInv
<1>2. loop' # Established(d) /\ loop' # Closed(d)
  BY EventKinds, Zenon
<1>3. /\ Established(c) = Established(d) => c = d
      /\ Closed(c) = Closed(d) => c = d
      /\ Established(c) # Closed(d) /\ Closed(c) # Established(d)
  BY EventKinds, Zenon
<1>4. EstablishedFirst(d, events')
  BY <1>1, Zenon
<1> QED
  BY <1>1, <1>2, <1>3, <1>4, Zenon DEF Queued, ConnInv

(***************************************************************************)
(* The maps of P2PState.                                                   *)
(***************************************************************************)
MapsTypeOK ==
    /\ connections \subseteq Conn
    /\ peer_connections \in [Peer -> SUBSET Conn]
    /\ ip_info \in [Ip -> Info \union {None}]

\* A handler that only counts changes no set of connections.
SameConnections ==
    /\ UNCHANGED <<connections, inbound_connections, peer_connections>>
    /\ ip_info' \in [Ip -> Info \union {None}]
    /\ \A i \in Ip : /\ ip_info'[i] = None <=> ip_info[i] = None
                     /\ ip_info[i] # None => ip_info'[i].connections = ip_info[i].connections

\* The peer maps hold for the same connections, whatever the counters of an address say.
LEMMA MapsCount == ASSUME MapsTypeOK, MapsInv, SameConnections PROVE MapsTypeOK' /\ MapsInv'
<1>1. MapsTypeOK'
  BY Zenon DEF MapsTypeOK, SameConnections
<1>2. ASSUME NEW i \in Ip, Tracks(i)'
      PROVE  /\ ip_info'[i].connections \subseteq {c \in connections' : IpOf[c] = i}
             /\ \E c \in connections' : IpOf[c] = i
  BY <1>2, Zenon DEF MapsInv, SameConnections, Tracks
<1>3. /\ inbound_connections' = connections' \intersect Listener
      /\ \A p \in Peer : peer_connections'[p] = {c \in connections' : PeerOf[c] = p}
  BY Zenon DEF MapsInv, SameConnections
<1> QED
  BY <1>1, <1>2, <1>3, Zenon DEF MapsInv

\* Nothing changes, or a request or a ping is counted, or the counts are reset.
LEMMA Counting ==
    ASSUME MapsTypeOK, UNCHANGED <<connections, inbound_connections, peer_connections>>,
           \/ UNCHANGED ip_info
           \/ \E i \in Ip : Requested(i)
           \/ \E c \in Conn, ok \in BOOLEAN : PingEnds(c, ok)
           \/ ResetRequests
    PROVE  SameConnections
<1>0. \A x \in Info : x # None
  BY EventAssumption, Zenon
<1>1. CASE UNCHANGED ip_info
  BY <1>1, Zenon DEF MapsTypeOK, SameConnections
<1>2. ASSUME NEW i \in Ip, Requested(i) PROVE SameConnections
  <2>1. CASE Tracks(i)
    <3>1. ip_info[i] \in Info /\ [ip_info[i] EXCEPT !.request_count = @ + 1] \in Info
          /\ [ip_info[i] EXCEPT !.request_count = @ + 1].connections = ip_info[i].connections
      BY <2>1 DEF MapsTypeOK, Info, Tracks
    <3>2. ip_info' = [ip_info EXCEPT ![i] = [ip_info[i] EXCEPT !.request_count = @ + 1]]
      BY <1>2, <2>1, Zenon DEF Requested, MapsTypeOK
    <3> QED
      BY <1>0, <3>1, <3>2, Zenon DEF MapsTypeOK, SameConnections
  <2>2. CASE ~Tracks(i)
    BY <1>1, <1>2, <2>2, Zenon DEF Requested
  <2> QED
    BY <2>1, <2>2, Zenon
<1>3. ASSUME NEW c \in Conn, NEW ok \in BOOLEAN, PingEnds(c, ok) PROVE SameConnections
  <2> DEFINE i == IpOf[c]
             x == [ip_info[i] EXCEPT !.ping_failure_count = IF ok THEN 0 ELSE @ + 1]
  <2>1. CASE c \in connections /\ Tracks(i)
    <3>1. i \in Ip
      BY ConnAssumption, Zenon
    <3>2. ip_info[i] \in Info /\ x \in Info /\ x.connections = ip_info[i].connections
      BY <2>1, <3>1 DEF MapsTypeOK, Info, Tracks
    <3>3. ip_info' = [ip_info EXCEPT ![i] = x]
      BY <1>3, <2>1, <3>1, Zenon DEF PingEnds, MapsTypeOK
    <3> HIDE DEF x
    <3> QED
      BY <1>0, <3>1, <3>2, <3>3, Zenon DEF MapsTypeOK, SameConnections
  <2>2. CASE ~(c \in connections /\ Tracks(i))
    BY <1>1, <1>3, <2>2, Zenon DEF PingEnds
  <2> QED
    BY <2>1, <2>2, Zenon
<1>4. CASE ResetRequests
  <2>1. \A i \in Ip : Tracks(i) =>
           /\ [ip_info[i] EXCEPT !.request_count = 0] \in Info
           /\ [ip_info[i] EXCEPT !.request_count = 0].connections = ip_info[i].connections
    BY Zenon DEF MapsTypeOK, Info, Tracks
  <2> QED
    BY <1>0, <1>4, <2>1, Zenon DEF ResetRequests, Tracks, SameConnections
<1> QED
  BY <1>1, <1>2, <1>3, <1>4, Zenon

\* track_connection.
LEMMA MapsTrack ==
    ASSUME MapsTypeOK, MapsInv, NEW c \in Conn, TrackConnection(c)
    PROVE  MapsTypeOK' /\ MapsInv'
<1> DEFINE i == IpOf[c]
           old == ip_info[i]
           new == IF old = None THEN NewInfo ELSE [old EXCEPT !.connections = @ \union {c}]
<1>1. PeerOf[c] \in Peer /\ i \in Ip
  BY ConnAssumption, Zenon
<1>2. /\ connections' = connections \union {c}
      /\ inbound_connections' = inbound_connections \union ({c} \intersect Listener)
      /\ peer_connections' = [peer_connections EXCEPT ![PeerOf[c]] = @ \union {c}]
      /\ ip_info' = [ip_info EXCEPT ![i] = new]
  BY Zenon DEF TrackConnection
<1>3. new \in Info /\ new.connections \subseteq (IF old = None THEN {} ELSE old.connections) \union {c}
  <2>1. CASE old = None
    BY <2>1, Zenon DEF Info, NewInfo
  <2>2. CASE old # None
    BY <1>1, <2>2, Zenon DEF Info, MapsTypeOK
  <2> QED
    BY <2>1, <2>2, Zenon
<1> HIDE DEF new
<1>4. MapsTypeOK'
  BY <1>1, <1>2, <1>3, Zenon DEF MapsTypeOK
<1>5. inbound_connections' = connections' \intersect Listener
  BY <1>2, Zenon DEF MapsInv
<1>6. \A p \in Peer : peer_connections'[p] = {d \in connections' : PeerOf[d] = p}
  BY <1>1, <1>2 DEF MapsInv, MapsTypeOK
<1>7. ASSUME NEW j \in Ip, Tracks(j)'
      PROVE  /\ ip_info'[j].connections \subseteq {d \in connections' : IpOf[d] = j}
             /\ \E d \in connections' : IpOf[d] = j
  <2>1. CASE j = i
    BY <1>1, <1>2, <1>3, <2>1, Zenon DEF MapsInv, MapsTypeOK, Tracks
  <2>2. CASE j # i
    <3>1. ip_info'[j] = ip_info[j]
      BY <1>2, <2>2, Zenon DEF MapsTypeOK
    <3> QED
      BY <1>2, <1>7, <3>1, Zenon DEF MapsInv, Tracks
  <2> QED
    BY <2>1, <2>2, Zenon
<1> QED
  BY <1>4, <1>5, <1>6, <1>7, Zenon DEF MapsInv

\* lost_connection.
LEMMA MapsLost ==
    ASSUME MapsTypeOK, MapsInv, NEW c \in Conn, LostConnection(c)
    PROVE  MapsTypeOK' /\ MapsInv' /\ connections' = connections \ {c}
<1> DEFINE i == IpOf[c]
           old == ip_info[i]
           rest == old.connections \ {c}
           new == [old EXCEPT !.connections = @ \ {c}]
<1>0. CASE c \notin connections
  <2>1. UNCHANGED p2pState
    BY <1>0, Zenon DEF LostConnection
  <2>2. SameConnections
    BY <2>1, Counting, Zenon DEF p2pState
  <2> QED
    BY <1>0, <2>2, MapsCount, Zenon DEF SameConnections
<1>a. CASE c \in connections
  <2>1. PeerOf[c] \in Peer /\ i \in Ip
    BY ConnAssumption, Zenon
  <2>2. /\ connections' = connections \ {c}
        /\ inbound_connections' = inbound_connections \ {c}
        /\ peer_connections' = [peer_connections EXCEPT ![PeerOf[c]] = peer_connections[PeerOf[c]] \ {c}]
        /\ ip_info' = IF old = None THEN ip_info
                      ELSE [ip_info EXCEPT ![i] = IF rest = {} THEN None ELSE new]
    BY <1>a, Zenon DEF LostConnection
  <2>3. old # None => new \in Info /\ new.connections = rest
    BY <2>1, Zenon DEF Info, MapsTypeOK
  <2> HIDE DEF new
  <2>4. MapsTypeOK'
    BY <2>1, <2>2, <2>3, Zenon DEF MapsTypeOK
  <2>5. inbound_connections' = connections' \intersect Listener
    BY <2>2, Zenon DEF MapsInv
  <2>6. \A p \in Peer : peer_connections'[p] = {d \in connections' : PeerOf[d] = p}
    BY <2>1, <2>2 DEF MapsInv, MapsTypeOK
  <2>7. ASSUME NEW j \in Ip, Tracks(j)'
        PROVE  /\ ip_info'[j].connections \subseteq {d \in connections' : IpOf[d] = j}
               /\ \E d \in connections' : IpOf[d] = j
    <3>1. CASE j = i
      <4>1. old # None /\ rest # {} /\ ip_info'[i] = new
        BY <2>1, <2>2, <2>7, <3>1, Zenon DEF MapsTypeOK, Tracks
      <4>2. old.connections \subseteq {d \in connections : IpOf[d] = i}
        BY <2>1, <4>1, Zenon DEF MapsInv, Tracks
      <4> QED
        BY <2>2, <2>3, <3>1, <4>1, <4>2, Zenon
    <3>2. CASE j # i
      <4>1. ip_info'[j] = ip_info[j]
        BY <2>2, <3>2, Zenon DEF MapsTypeOK
      <4>2. /\ ip_info[j].connections \subseteq {d \in connections : IpOf[d] = j}
            /\ \E d \in connections : IpOf[d] = j
        BY <2>7, <4>1, Zenon DEF MapsInv, Tracks
      <4> QED
        BY <2>2, <3>2, <4>1, <4>2, Zenon
    <3> QED
      BY <3>1, <3>2, Zenon
  <2> QED
    BY <2>2, <2>4, <2>5, <2>6, <2>7, Zenon DEF MapsInv
<1> QED
  BY <1>0, <1>a, Zenon

(***************************************************************************)
(* The steps, as the swarm and the maps of connections see them.           *)
(***************************************************************************)
SwarmInv == SwarmTypeOK /\ EventInv /\ MapsInv

\* The events that are no start or end of a connection, and none.
Other == {e \in Event : e.type \notin {"established", "closed"}} \union {None}

\* Such an event neither starts nor ends a connection.
LEMMA OtherKinds ==
    \A e \in Other, c \in Conn : e # Established(c) /\ e # Closed(c)
<1> SUFFICES ASSUME NEW e \in Other, NEW c \in Conn PROVE e # Established(c) /\ e # Closed(c)
  BY Zenon
<1>1. Established(c).type = "established" /\ Closed(c).type = "closed"
  BY Zenon DEF Established, Closed
<1>2. Established(c) # None /\ Closed(c) # None
  BY EventKinds, Zenon
<1> QED
  BY <1>1, <1>2, Zenon DEF Other

\* An event of the swarm is the start or the end of a connection, or another.
LEMMA EventCases ==
    ASSUME NEW e \in Event
    PROVE  /\ e.type = "established" => e.conn \in Conn /\ e = Established(e.conn)
           /\ e.type = "closed" => e.conn \in Conn /\ e = Closed(e.conn)
           /\ e.type \in {"pong", "ping_failed"} => e.conn \in Conn
           /\ e.type \notin {"established", "closed"} => e \in Other
BY Zenon DEF Event, Established, Closed, Other

\* The budget of the environment: its connections are no part of what is spent.
SameLeft == left' \in [conns : SUBSET Conn, ticks : Nat, news : Nat] /\ left'.conns = left.conns

\* A tick or a piece of news is paid for without a connection.
LEMMA Spending == ASSUME SwarmTypeOK, Spend("ticks") \/ Spend("news") PROVE SameLeft
BY DEF SwarmTypeOK, Spend, SameLeft

\* The swarm closes some connections and queues an event for each.
LEMMA SentSwarm ==
    ASSUME SwarmInv, NEW cs \in SUBSET open, NEW q \in Seq(Event), SameHand,
           loop' \in Event \union {None}, open' = open \ cs, events' = events \o q, SameLeft,
           SameConnections,
           \A c \in Conn : Established(c) \notin Range(q) /\ (Closed(c) \in Range(q) <=> c \in cs)
    PROVE  SwarmInv'
<1>1. EventInv'
  <2>1. SwarmTypeOK /\ EventInv /\ left'.conns = left.conns /\ connections' = connections
    BY Zenon DEF SwarmInv, SameLeft, SameConnections
  <2> QED
    BY <2>1, EventsSent, Zenon
<1>2. MapsTypeOK' /\ MapsInv'
  <2>1. MapsTypeOK /\ MapsInv
    BY Zenon DEF SwarmInv, SwarmTypeOK, MapsTypeOK
  <2> QED
    BY <2>1, MapsCount, Zenon
<1>3. IsFiniteSet(open')
  BY FS_Subset, Zenon DEF SwarmInv, SwarmTypeOK
<1>4. events' \in Seq(Event)
  BY Joined, Zenon DEF SwarmInv, SwarmTypeOK
<1>5. open' \subseteq Conn
  BY Zenon DEF SwarmInv, SwarmTypeOK
<1>6. SwarmTypeOK'
  BY <1>2, <1>3, <1>4, <1>5, Zenon DEF SwarmTypeOK, SameLeft, MapsTypeOK
<1> QED
  BY <1>1, <1>2, <1>6, Zenon DEF SwarmInv

\* A step the swarm does not see.
LEMMA QuietSwarm ==
    ASSUME SwarmInv, UNCHANGED <<open, events, loop>>, SameLeft, SameConnections
    PROVE  SwarmInv'
<1>1. <<>> \in Seq(Event) /\ events' = events \o <<>> /\ open' = open \ {} /\ {} \in SUBSET open
  BY DEF SwarmInv, SwarmTypeOK
<1>2. SameHand /\ loop' \in Event \union {None}
  BY Zenon DEF SameHand, SwarmInv, SwarmTypeOK
<1>3. \A c \in Conn : Established(c) \notin Range(<<>>) /\ (Closed(c) \in Range(<<>>) <=> c \in {})
  BY EmptyQueue, Zenon
<1> QED
  BY <1>1, <1>2, <1>3, SentSwarm, Zenon

\* A single event of the swarm: the end of a connection, a ping, a dial denied.
LEMMA OneSent ==
    ASSUME SwarmInv, NEW e \in Event, SameHand, loop' \in Event \union {None},
           events' = Append(events, e), SameLeft, SameConnections,
           \/ e \in Other /\ open' = open
           \/ \E c \in open : e = Closed(c) /\ open' = open \ {c}
    PROVE  SwarmInv'
<1>1. <<e>> \in Seq(Event) /\ events' = events \o <<e>>
  BY DEF SwarmInv, SwarmTypeOK
<1>2. \A y : y \in Range(<<e>>) <=> y = e
  BY DEF Range
<1>3. CASE e \in Other /\ open' = open
  <2>1. \A c \in Conn : Established(c) \notin Range(<<e>>) /\ (Closed(c) \in Range(<<e>>) <=> c \in {})
    BY <1>2, <1>3, OtherKinds
  <2>2. open' = open \ {} /\ {} \in SUBSET open
    BY <1>3, Zenon
  <2> QED
    BY <1>1, <2>1, <2>2, SentSwarm, Zenon
<1>4. ASSUME NEW c \in open, e = Closed(c), open' = open \ {c} PROVE SwarmInv'
  <2>1. c \in Conn
    BY Zenon DEF SwarmInv, SwarmTypeOK
  <2>2. \A d \in Conn : Established(d) \notin Range(<<e>>) /\ (Closed(d) \in Range(<<e>>) <=> d \in {c})
    BY <1>2, <1>4, <2>1, EventKinds, Zenon
  <2>3. {c} \in SUBSET open /\ open' = open \ {c}
    BY <1>4, Zenon
  <2> QED
    BY <1>1, <2>2, <2>3, SentSwarm, Zenon
<1> QED
  BY <1>3, <1>4, Zenon

\* Several connections are closed at once.
LEMMA ManyClosed ==
    ASSUME SwarmInv, NEW cs \in SUBSET open, SameHand, loop' \in Event \union {None},
           NEW q \in Orders({Closed(c) : c \in cs}),
           open' = open \ cs, events' = events \o q, SameLeft, SameConnections
    PROVE  SwarmInv'
<1>1. cs \in SUBSET Conn /\ IsFiniteSet(cs)
  BY FS_Subset, Zenon DEF SwarmInv, SwarmTypeOK
<1>2. q \in Seq(Event) /\ Range(q) = {Closed(c) : c \in cs}
  BY <1>1, ClosedEvents, Zenon
<1>3. \A d \in Conn : Established(d) \notin Range(q) /\ (Closed(d) \in Range(q) <=> d \in cs)
  BY <1>1, <1>2, EventKinds, Zenon
<1> QED
  BY <1>2, <1>3, SentSwarm, Zenon

conns == <<connections, inbound_connections, peer_connections, ip_info>>

\* A step that leaves the maps alone has the same connections.
LEMMA SameMaps == ASSUME SwarmInv, UNCHANGED conns PROVE SameConnections
<1>1. MapsTypeOK
  BY Zenon DEF SwarmInv, SwarmTypeOK, MapsTypeOK
<1> QED
  BY <1>1, Counting, Zenon DEF conns

\* A step that leaves the budget or the loop's hand alone.
LEMMA SameLeftHand ==
    ASSUME SwarmInv
    PROVE  /\ UNCHANGED left => SameLeft
           /\ UNCHANGED loop => SameHand /\ loop' \in Event \union {None}
           /\ loop \in Other /\ loop' \in Other => SameHand
<1>1. UNCHANGED left => SameLeft
  BY Zenon DEF SwarmInv, SwarmTypeOK, SameLeft
<1>2. UNCHANGED loop => SameHand /\ loop' \in Event \union {None}
  BY Zenon DEF SwarmInv, SwarmTypeOK, SameHand
<1>3. loop \in Other /\ loop' \in Other => SameHand
  BY OtherKinds, Zenon DEF SameHand
<1> QED
  BY <1>1, <1>2, <1>3, Zenon

\* ConnectionEstablished is on its way.
LEMMA ConnectSwarm == ASSUME SwarmInv, NEW c \in Conn, Connect(c) PROVE SwarmInv'
<1>1. /\ c \in left.conns /\ open' = open \union {c} /\ events' = Append(events, Established(c))
      /\ UNCHANGED loop /\ UNCHANGED conns
  BY Zenon DEF Connect, Established, driver, p2pState, conns
<1>2. left' \in [conns : SUBSET Conn, ticks : Nat, news : Nat] /\ left'.conns = left.conns \ {c}
  BY Zenon DEF Connect, SwarmInv, SwarmTypeOK
<1>3. SameHand /\ loop' \in Event \union {None}
  BY <1>1, SameLeftHand, Zenon
<1>4. EventInv'
  <2>1. SwarmTypeOK /\ EventInv /\ connections' = connections
    BY <1>1, Zenon DEF SwarmInv, conns
  <2> QED
    BY <1>1, <1>2, <1>3, <2>1, EventsConnect, Zenon
<1>5. MapsTypeOK' /\ MapsInv'
  <2>1. MapsTypeOK /\ MapsInv /\ SameConnections
    BY <1>1, SameMaps, Zenon DEF SwarmInv, SwarmTypeOK, MapsTypeOK
  <2> QED
    BY <2>1, MapsCount, Zenon
<1>6. IsFiniteSet(open') /\ open' \subseteq Conn
  BY <1>1, FS_AddElement, Zenon DEF SwarmInv, SwarmTypeOK
<1>7. events' \in Seq(Event)
  BY <1>1, EventKinds, Appended, Zenon DEF SwarmInv, SwarmTypeOK
<1>8. SwarmTypeOK'
  BY <1>2, <1>3, <1>5, <1>6, <1>7, Zenon DEF SwarmTypeOK, MapsTypeOK
<1> QED
  BY <1>4, <1>5, <1>8, Zenon DEF SwarmInv

\* ConnectionClosed is on its way.
LEMMA CloseSwarm == ASSUME SwarmInv, NEW c \in Conn, Close(c) PROVE SwarmInv'
<1>1. /\ c \in open /\ open' = open \ {c} /\ events' = Append(events, Closed(c))
      /\ UNCHANGED loop /\ UNCHANGED left /\ UNCHANGED conns
  BY Zenon DEF Close, Closed, driver, p2pState, conns
<1>2. SameHand /\ loop' \in Event \union {None} /\ SameLeft /\ SameConnections
  BY <1>1, SameLeftHand, SameMaps, Zenon
<1> QED
  BY <1>1, <1>2, EventKinds, OneSent, Zenon

\* A ping ends, a dial is denied.
LEMMA TickSwarm ==
    ASSUME SwarmInv, Denied \/ \E c \in Conn, ok \in BOOLEAN : Ping(c, ok)
    PROVE  SwarmInv'
<1>1. PICK e \in Event : e \in Other /\ Tick(e)
  <2>1. CASE Denied
    BY <2>1, Zenon DEF Denied, Event, Other
  <2>2. ASSUME NEW c \in Conn, NEW ok \in BOOLEAN, Ping(c, ok)
        PROVE  \E e \in Event : e \in Other /\ Tick(e)
    <3>1. CASE ok
      BY <2>2, <3>1, Zenon DEF Ping, Event, Other
    <3>2. CASE ~ok
      BY <2>2, <3>2, Zenon DEF Ping, Event, Other
    <3> QED
      BY <3>1, <3>2, Zenon
  <2> QED
    BY <2>1, <2>2, Zenon
<1>2. /\ events' = Append(events, e) /\ open' = open /\ Spend("ticks")
      /\ UNCHANGED loop /\ UNCHANGED conns
  BY <1>1, Zenon DEF Tick, driver, p2pState, conns
<1>3. SameHand /\ loop' \in Event \union {None} /\ SameConnections
  BY <1>2, SameLeftHand, SameMaps, Zenon
<1>4. SameLeft
  BY <1>2, Spending, Zenon DEF SwarmInv
<1> QED
  BY <1>1, <1>2, <1>3, <1>4, OneSent, Zenon

\* News from a peer, and what the loop hands to a task.
LEMMA NewsSwarm ==
    ASSUME SwarmInv,
           \/ \E p \in Peer : HeardNonsense(p) \/ \E b \in Block : HeardBlock(p, b)
           \/ \E c \in Conn : TakeRequest(c)
           \/ TakeEffect
    PROVE  SwarmInv'
<1>1. UNCHANGED <<open, events, loop>> /\ UNCHANGED conns
      /\ (UNCHANGED left \/ Spend("ticks") \/ Spend("news"))
  BY Zenon DEF HeardNonsense, HeardBlock, TakeRequest, TakeEffect, swarm, p2pState, conns
<1>2. SameLeft /\ SameConnections
  BY <1>1, SameLeftHand, SameMaps, Spending, Zenon DEF SwarmInv
<1> QED
  BY <1>1, <1>2, QuietSwarm, Zenon

\* The loop takes an event of the swarm.
LEMMA TakeEventSwarm == ASSUME SwarmInv, TakeEvent PROVE SwarmInv'
<1>1. /\ loop = None /\ events # <<>> /\ loop' = Head(events) /\ events' = Tail(events)
      /\ open' = open /\ left' = left /\ UNCHANGED conns
  BY Zenon DEF TakeEvent, InSelect, p2pState, conns
<1>2. EventInv'
  <2>1. SwarmTypeOK /\ EventInv /\ connections' = connections
    BY <1>1, Zenon DEF SwarmInv, conns
  <2> QED
    BY <1>1, <2>1, EventsTake, Zenon
<1>3. MapsTypeOK' /\ MapsInv'
  <2>1. MapsTypeOK /\ MapsInv /\ SameConnections
    BY <1>1, SameMaps, Zenon DEF SwarmInv, SwarmTypeOK, MapsTypeOK
  <2> QED
    BY <2>1, MapsCount, Zenon
<1>4. loop' \in Event /\ events' \in Seq(Event)
  BY <1>1, Taken, Zenon DEF SwarmInv, SwarmTypeOK
<1>5. SwarmTypeOK'
  BY <1>1, <1>3, <1>4, Zenon DEF SwarmInv, SwarmTypeOK, MapsTypeOK
<1> QED
  BY <1>2, <1>3, <1>5, Zenon DEF SwarmInv

\* The timer that resets the counts.
LEMMA TakeResetSwarm == ASSUME SwarmInv, TakeReset PROVE SwarmInv'
<1>1. /\ loop = None /\ Spend("ticks") /\ loop' = [type |-> "reset", conn |-> None]
      /\ UNCHANGED <<open, events>> /\ UNCHANGED conns
  BY Zenon DEF TakeReset, InSelect, p2pState, conns
<1>2. loop \in Other /\ loop' \in Event /\ loop' \in Other
  BY <1>1, Zenon DEF Event, Other
<1>3. SameHand /\ SameConnections /\ SameLeft
  BY <1>1, <1>2, SameLeftHand, SameMaps, Spending, Zenon DEF SwarmInv
<1>4. <<>> \in Seq(Event) /\ events' = events \o <<>> /\ open' = open \ {} /\ {} \in SUBSET open
  BY <1>1 DEF SwarmInv, SwarmTypeOK
<1>5. \A c \in Conn : Established(c) \notin Range(<<>>) /\ (Closed(c) \in Range(<<>>) <=> c \in {})
  BY EmptyQueue, Zenon
<1> QED
  BY <1>2, <1>3, <1>4, <1>5, SentSwarm, Zenon

\* The swarm blocks a peer and closes its connections.
LEMMA TakeSwarmActionSwarm == ASSUME SwarmInv, TakeSwarmAction PROVE SwarmInv'
<1> DEFINE cs == {c \in open : PeerOf[c] = Head(swarm_rx)}
<1>1. /\ open' = open \ cs /\ \E q \in Orders({Closed(c) : c \in cs}) : events' = events \o q
      /\ UNCHANGED loop /\ UNCHANGED left /\ UNCHANGED conns
  BY Zenon DEF TakeSwarmAction, Closed, p2pState, conns
<1>2. cs \in SUBSET open
  BY Zenon
<1> HIDE DEF cs
<1>3. SameHand /\ loop' \in Event \union {None} /\ SameLeft /\ SameConnections
  BY <1>1, SameLeftHand, SameMaps, Zenon
<1> QED
  BY <1>1, <1>2, <1>3, ManyClosed, Zenon

\* The handlers of the loop.
LEMMA HandleSwarm == ASSUME SwarmInv, Handle PROVE SwarmInv'
<1>0. /\ loop \in Event /\ loop' = None /\ UNCHANGED left /\ MapsTypeOK /\ MapsInv
      /\ loop' \in Other /\ loop' \in Event \union {None}
  BY Zenon DEF Handle, SwarmInv, SwarmTypeOK, MapsTypeOK, Other
<1>1. SameLeft
  BY <1>0, SameLeftHand, Zenon
\* The start or the end of a connection: the connections known change.
<1>2. ASSUME NEW c \in Conn, UNCHANGED <<open, events>>, MapsTypeOK', MapsInv',
             \/ loop = Established(c) /\ connections' = connections \union {c}
             \/ loop = Closed(c) /\ connections' = connections \ {c}
      PROVE  SwarmInv'
  <2>1. EventInv'
    BY <1>0, <1>2, EventsHandled, Zenon DEF SwarmInv
  <2>2. SwarmTypeOK'
    BY <1>0, <1>2, Zenon DEF SwarmInv, SwarmTypeOK, MapsTypeOK
  <2> QED
    BY <1>2, <2>1, <2>2, Zenon DEF SwarmInv
\* The other events leave them, but may close some.
<1>3. ASSUME loop \in Other, SameConnections, UNCHANGED <<open, events>> PROVE SwarmInv'
  <2>1. <<>> \in Seq(Event) /\ events' = events \o <<>> /\ open' = open \ {} /\ {} \in SUBSET open
    BY <1>3 DEF SwarmInv, SwarmTypeOK
  <2>2. \A c \in Conn : Established(c) \notin Range(<<>>) /\ (Closed(c) \in Range(<<>>) <=> c \in {})
    BY EmptyQueue, Zenon
  <2>3. SameHand
    BY <1>0, <1>3, SameLeftHand, Zenon
  <2> QED
    BY <1>0, <1>1, <1>3, <2>1, <2>2, <2>3, SentSwarm, Zenon
<1>4. CASE loop.type = "established"
  <2>1. TrackConnection(loop.conn) /\ UNCHANGED <<open, events>>
    BY <1>4, Zenon DEF Handle
  <2>2. loop.conn \in Conn /\ loop = Established(loop.conn)
    BY <1>0, <1>4, EventCases, Zenon
  <2>3. MapsTypeOK' /\ MapsInv'
    BY <1>0, <2>1, <2>2, MapsTrack, Zenon
  <2>4. connections' = connections \union {loop.conn}
    BY <2>1, Zenon DEF TrackConnection
  <2> QED
    BY <1>2, <2>1, <2>2, <2>3, <2>4, Zenon
<1>5. CASE loop.type = "closed"
  <2>1. LostConnection(loop.conn) /\ UNCHANGED <<open, events>>
    BY <1>5, Zenon DEF Handle
  <2>2. loop.conn \in Conn /\ loop = Closed(loop.conn)
    BY <1>0, <1>5, EventCases, Zenon
  <2>3. MapsTypeOK' /\ MapsInv' /\ connections' = connections \ {loop.conn}
    BY <1>0, <2>1, <2>2, MapsLost, Zenon
  <2> QED
    BY <1>2, <2>1, <2>2, <2>3, Zenon
<1>6. CASE loop.type = "pong"
  <2>1. /\ PingEnds(loop.conn, TRUE) /\ UNCHANGED <<open, events>>
        /\ UNCHANGED <<connections, inbound_connections, peer_connections>>
    BY <1>6, Zenon DEF Handle
  <2>2. loop.conn \in Conn /\ loop \in Other
    BY <1>0, <1>6, EventCases, Zenon
  <2>3. SameConnections
    BY <1>0, <2>1, <2>2, Counting, Zenon
  <2> QED
    BY <1>3, <2>1, <2>2, <2>3, Zenon
<1>7. CASE loop.type = "ping_failed"
  <2>1. /\ PingEnds(loop.conn, FALSE)
        /\ UNCHANGED <<connections, inbound_connections, peer_connections>>
        /\ \/ UNCHANGED <<open, events>>
           \/ /\ loop.conn \in open /\ open' = open \ {loop.conn}
              /\ events' = Append(events, Closed(loop.conn))
    BY <1>7, Zenon DEF Handle, Closed
  <2>2. loop.conn \in Conn /\ loop \in Other
    BY <1>0, <1>7, EventCases, Zenon
  <2>3. SameConnections
    BY <1>0, <2>1, <2>2, Counting, Zenon
  <2>4. CASE UNCHANGED <<open, events>>
    BY <1>3, <2>2, <2>3, <2>4, Zenon
  <2>5. CASE /\ loop.conn \in open /\ open' = open \ {loop.conn}
             /\ events' = Append(events, Closed(loop.conn))
    <3>1. SameHand
      BY <1>0, <2>2, SameLeftHand, Zenon
    <3>2. Closed(loop.conn) \in Event
      BY <2>2, EventKinds, Zenon
    <3> QED
      BY <1>0, <1>1, <2>3, <2>5, <3>1, <3>2, OneSent, Zenon
  <2> QED
    BY <2>1, <2>4, <2>5, Zenon
<1>8. CASE loop.type = "denied"
  <2>1. /\ UNCHANGED p2pState
        /\ \E cs \in SUBSET inbound_connections :
              /\ open' = open \ cs
              /\ \E q \in Orders({Closed(c) : c \in cs \intersect open}) : events' = events \o q
    BY <1>8, Zenon DEF Handle, Closed
  <2>2. PICK cs : /\ open' = open \ (cs \intersect open)
                  /\ \E q \in Orders({Closed(c) : c \in cs \intersect open}) : events' = events \o q
    BY <2>1, Zenon
  <2>3. loop \in Other
    BY <1>0, <1>8, EventCases, Zenon
  <2>4. SameHand
    BY <1>0, <2>3, SameLeftHand, Zenon
  <2>5. SameConnections
    BY <2>1, SameMaps, Zenon DEF conns, p2pState
  <2>6. cs \intersect open \in SUBSET open
    BY Zenon
  <2> QED
    BY <1>0, <1>1, <2>2, <2>4, <2>5, <2>6, ManyClosed, Zenon
<1>9. CASE loop.type = "reset"
  <2>1. /\ ResetRequests /\ UNCHANGED <<open, events>>
        /\ UNCHANGED <<connections, inbound_connections, peer_connections>>
    BY <1>9, Zenon DEF Handle
  <2>2. loop \in Other
    BY <1>0, <1>9, EventCases, Zenon
  <2>3. SameConnections
    BY <1>0, <2>1, Counting, Zenon
  <2> QED
    BY <1>3, <2>1, <2>2, <2>3, Zenon
<1> QED
  <2>1. loop.type \in {"established", "closed", "pong", "ping_failed", "denied", "reset"}
    BY <1>0, Zenon DEF Event
  <2> QED
    BY <2>1, <1>4, <1>5, <1>6, <1>7, <1>8, <1>9, Zenon

\* Of the tasks only the count of a request touches the maps of connections.
LEMMA TaskSwarm == ASSUME SwarmInv, DriverTypeOK, TaskSteps PROVE SwarmInv'
<1>1. /\ UNCHANGED <<open, events, loop>> /\ UNCHANGED left
      /\ (UNCHANGED conns
          \/ \E t \in tasks : t.type = "count" /\ Requested(IpOf[t.peer])
                 /\ UNCHANGED <<connections, inbound_connections, peer_connections>>)
  BY Zenon DEF TaskSteps, TaskTrackAdd, TaskTrackRemove, TaskLiarBlockId, TaskLiarPeer, TaskLooksUp,
       TaskCounts, TaskResponds, TaskSendsBan, TaskUnlocks, Takes, swarm, p2pState, conns
<1>2. SameConnections
  <2>1. CASE UNCHANGED conns
    BY <2>1, SameMaps, Zenon
  <2>2. ASSUME NEW t \in tasks, t.type = "count", Requested(IpOf[t.peer]),
               UNCHANGED <<connections, inbound_connections, peer_connections>>
        PROVE  SameConnections
    <3>1. t.peer \in Conn
      BY <2>2, Zenon DEF DriverTypeOK, Task, Effect
    <3>2. IpOf[t.peer] \in Ip
      BY <3>1, ConnAssumption, Zenon
    <3>3. MapsTypeOK
      BY Zenon DEF SwarmInv, SwarmTypeOK, MapsTypeOK
    <3> QED
      BY <2>2, <3>2, <3>3, Counting, Zenon
  <2> QED
    BY <1>1, <2>1, <2>2, Zenon
<1>3. SameLeft
  BY <1>1, SameLeftHand, Zenon
<1> QED
  BY <1>1, <1>2, <1>3, QuietSwarm, Zenon

(***************************************************************************)
(* No liar is forgotten.                                                   *)
(***************************************************************************)
DriverInv == DriverTypeOK /\ LiarInv

\* The connections of p have all stayed.
Stays(p) == \A c \in Conn : PeerOf[c] = p => c \in open \union left.conns

TrackAdd(b, p) == [type |-> "track_add", block |-> b, peer |-> p]

\* A connection that is neither open nor to come never is again.
Fewer == open' \union left'.conns \subseteq open \union left.conns

\* It is enough that a step knows the liars it learns of, and keeps the ones
\* that were known.
LEMMA LiarsKept ==
    ASSUME DriverInv, Fewer, lock' = None => banning' = <<>>,
           \A h \in heard' : h \in heard \/ Known(h[1], h[2])',
           \A p \in Peer, b \in Bad : Stays(p)' /\ Known(p, b) => Known(p, b)'
    PROVE  LiarInv'
<1> SUFFICES ASSUME NEW h \in heard', h[2] \in Bad, Stays(h[1])' PROVE Known(h[1], h[2])'
  BY Zenon DEF LiarInv, Stays
<1>1. CASE h \in heard
  <2>1. h[1] \in Peer
    BY <1>1, Zenon DEF DriverInv, DriverTypeOK
  <2>2. Stays(h[1])
    BY Zenon DEF Stays, Fewer
  <2>3. Known(h[1], h[2])
    BY <1>1, <2>2, Zenon DEF DriverInv, LiarInv, Stays
  <2> QED
    BY <2>1, <2>3, Zenon
<1> QED
  BY <1>1, Zenon

\* The tracker of blocks, as the bans see it.
TrackerTypeOK ==
    /\ block_id_to_peers \in [Block -> SUBSET Peer]
    /\ \A b \in Block : IsFiniteSet(block_id_to_peers[b])

bans == <<effects, tasks, lock, banning, swarm_rx, heard, blocked>>

\* A step that only changes the tracker, if that, and forgets no peer that stays.
LEMMA TrackerOnly ==
    ASSUME DriverInv, Fewer, UNCHANGED bans, TrackerTypeOK',
           \A p \in Peer, b \in Bad :
              Stays(p)' /\ p \in block_id_to_peers[b] => p \in block_id_to_peers'[b]
    PROVE  DriverInv'
<1>1. DriverTypeOK'
  BY Zenon DEF DriverInv, DriverTypeOK, TrackerTypeOK, bans
<1>2. lock' = None => banning' = <<>>
  BY Zenon DEF DriverInv, LiarInv, bans
<1>3. \A h \in heard' : h \in heard
  BY Zenon DEF bans
<1>4. ASSUME NEW p \in Peer, NEW b \in Bad, Stays(p)', Known(p, b) PROVE Known(p, b)'
  BY <1>4, Zenon DEF Known, bans
<1> QED
  BY <1>1, <1>2, <1>3, <1>4, LiarsKept, Zenon DEF DriverInv

\* A step that takes effects or tasks away and neither bans nor tracks.
LEMMA QuietDriver ==
    ASSUME DriverInv, Fewer, UNCHANGED bans, UNCHANGED block_id_to_peers
    PROVE  DriverInv'
<1>1. TrackerTypeOK'
  BY Zenon DEF DriverInv, DriverTypeOK, TrackerTypeOK
<1> QED
  BY <1>1, TrackerOnly, Zenon

\* What the swarm does by itself, and the events the loop takes.
LEMMA SwarmDriver ==
    ASSUME SwarmInv, DriverInv,
           \/ \E c \in Conn : Connect(c) \/ Close(c) \/ \E ok \in BOOLEAN : Ping(c, ok)
           \/ Denied \/ TakeEvent \/ TakeReset
    PROVE  DriverInv'
<1>1. UNCHANGED bans /\ UNCHANGED block_id_to_peers
  BY Zenon DEF Connect, Close, Ping, Denied, Tick, TakeEvent, TakeReset, driver, p2pState, bans
<1>2. Fewer
  <2>1. CASE \E c \in Conn : Connect(c)
    BY <2>1, Zenon DEF Connect, Fewer, SwarmInv, SwarmTypeOK
  <2>2. CASE \E c \in Conn : Close(c)
    BY <2>2, Zenon DEF Close, Fewer
  <2>3. CASE Denied \/ TakeEvent \/ TakeReset \/ \E c \in Conn, ok \in BOOLEAN : Ping(c, ok)
    <3>1. UNCHANGED open /\ (UNCHANGED left \/ Spend("ticks"))
      BY <2>3, Zenon DEF Denied, Ping, Tick, TakeEvent, TakeReset
    <3>2. left'.conns = left.conns
      BY <3>1, Spending, Zenon DEF SameLeft, SwarmInv
    <3> QED
      BY <3>1, <3>2, Zenon DEF Fewer
  <2> QED
    BY <2>1, <2>2, <2>3, Zenon
<1> QED
  BY <1>1, <1>2, QuietDriver, Zenon

\* remove_peer keeps the other peers.
LEMMA RemovePeersTracker ==
    ASSUME DriverTypeOK, NEW ps, RemovePeers(ps)
    PROVE  /\ TrackerTypeOK'
           /\ \A b \in Block : block_id_to_peers'[b] = block_id_to_peers[b] \ ps
<1>1. \A b \in Block : block_id_to_peers'[b] = block_id_to_peers[b] \ ps
  BY Zenon DEF RemovePeers
<1>2. \A b \in Block : IsFiniteSet(block_id_to_peers[b] \ ps)
  BY FS_Subset, Zenon DEF DriverTypeOK
<1>3. block_id_to_peers' \in [Block -> SUBSET Peer]
  BY Zenon DEF RemovePeers, DriverTypeOK
<1> QED
  BY <1>1, <1>2, <1>3, Zenon DEF TrackerTypeOK

\* The handlers of the loop: a peer is forgotten with its last connection, and
\* then a connection of it has not stayed.
LEMMA HandleDriver == ASSUME SwarmInv, DriverInv, Handle PROVE DriverInv'
<1>1. UNCHANGED bans /\ UNCHANGED left
  BY Zenon DEF Handle, bans
<1>2. open' \subseteq open
  <2>1. loop.type # "ping_failed" /\ loop.type # "denied" => UNCHANGED open
    BY Zenon DEF Handle
  <2>2. loop.type = "ping_failed" => open' \subseteq open
    BY Zenon DEF Handle
  <2>3. loop.type = "denied" => open' \subseteq open
    BY Zenon DEF Handle
  <2> QED
    BY <2>1, <2>2, <2>3, Zenon
<1>3. Fewer
  BY <1>1, <1>2, Zenon DEF Fewer
<1>4. CASE UNCHANGED block_id_to_peers
  BY <1>1, <1>3, <1>4, QuietDriver, Zenon
<1>5. CASE ~UNCHANGED block_id_to_peers
  <2>1. loop.type = "closed" /\ LostConnection(loop.conn) /\ loop # None
    BY <1>5, Zenon DEF Handle, p2pState
  <2>2. loop.conn \in Conn /\ loop = Closed(loop.conn)
    BY <2>1, EventCases, Zenon DEF SwarmInv, SwarmTypeOK
  <2>3. PICK ps : ps \subseteq {PeerOf[loop.conn]} /\ RemovePeers(ps)
    <3>1. RemovePeers({PeerOf[loop.conn]}) \/ RemovePeers({})
      BY <1>5, <2>1, Zenon DEF LostConnection, p2pState
    <3> QED
      BY <3>1, Zenon
  <2>4. loop.conn \notin open \union left.conns
    BY <2>2, Zenon DEF SwarmInv, EventInv, ConnInv, Queued
  <2>5. \A p : Stays(p)' => p # PeerOf[loop.conn]
    BY <1>3, <2>2, <2>4, Zenon DEF Stays, Fewer
  <2>6. /\ TrackerTypeOK'
        /\ \A b \in Block : block_id_to_peers'[b] = block_id_to_peers[b] \ ps
    BY <2>3, RemovePeersTracker, Zenon DEF DriverInv
  <2>7. \A p \in Peer, b \in Bad :
           Stays(p)' /\ p \in block_id_to_peers[b] => p \in block_id_to_peers'[b]
    BY <2>3, <2>5, <2>6, BlockAssumption, Zenon
  <2> QED
    BY <1>1, <1>3, <2>6, <2>7, TrackerOnly, Zenon
<1> QED
  BY <1>4, <1>5, Zenon

\* The kernel judges a block: the order to track it goes out with the order
\* to ban, or to let go, so its sender is known.
LEMMA HeardBlockDriver ==
    ASSUME SwarmInv, DriverInv, NEW p \in Peer, NEW b \in Block, HeardBlock(p, b)
    PROVE  DriverInv'
<1> DEFINE x == [type |-> IF b \in Bad THEN "liar_block_id" ELSE "track_remove", block |-> b, peer |-> None]
           q == <<TrackAdd(b, p), x>>
<1>1. /\ effects' = effects \o q /\ heard' = heard \union {<<p, b>>} /\ Spend("news")
      /\ UNCHANGED <<open, tasks, lock, banning, swarm_rx, blocked, block_id_to_peers>>
  BY Zenon DEF HeardBlock, TrackAdd, p2pState
<1>2. TrackAdd(b, p) \in Effect /\ x \in Effect
  BY Zenon DEF Effect, TrackAdd
<1> HIDE DEF x
<1>3. q \in Seq(Effect) /\ TrackAdd(b, p) \in Range(q)
  BY <1>2 DEF Range
<1> HIDE DEF q
<1>4. /\ effects' \in Seq(Effect)
      /\ \A y : y \in Range(effects') <=> y \in Range(effects) \/ y \in Range(q)
  BY <1>1, <1>3, Joined, Zenon DEF DriverInv, DriverTypeOK
<1>5. DriverTypeOK'
  BY <1>1, <1>4 DEF DriverInv, DriverTypeOK
<1>6. Fewer
  BY <1>1, Spending, Zenon DEF Fewer, SameLeft, SwarmInv
<1>7. ASSUME NEW h \in heard' PROVE h \in heard \/ Known(h[1], h[2])'
  <2>1. CASE h = <<p, b>>
    <3>1. h[1] = p /\ h[2] = b
      BY <2>1, Zenon
    <3> QED
      BY <1>3, <1>4, <3>1, Zenon DEF Known, TrackAdd
  <2> QED
    BY <1>1, <2>1, Zenon
<1>8. lock' = None => banning' = <<>>
  BY <1>1, Zenon DEF DriverInv, LiarInv
<1>9. ASSUME NEW r \in Peer, NEW d \in Bad, Known(r, d) PROVE Known(r, d)'
  BY <1>1, <1>4, <1>9, Zenon DEF Known
<1> QED
  BY <1>5, <1>6, <1>7, <1>8, <1>9, LiarsKept, Zenon DEF DriverInv

\* The kernel judges a block that is not what it claims to be.
LEMMA HeardNonsenseDriver ==
    ASSUME SwarmInv, DriverInv, NEW p \in Peer, HeardNonsense(p)
    PROVE  DriverInv'
<1> DEFINE x == [type |-> "liar_peer", block |-> None, peer |-> p]
<1>1. /\ effects' = Append(effects, x) /\ heard' = heard \union {<<p, None>>} /\ Spend("news")
      /\ UNCHANGED <<open, tasks, lock, banning, swarm_rx, blocked, block_id_to_peers>>
  BY Zenon DEF HeardNonsense, p2pState
<1>2. x \in Effect
  BY Zenon DEF Effect
<1> HIDE DEF x
<1>3. /\ effects' \in Seq(Effect)
      /\ \A y : y \in Range(effects') <=> y \in Range(effects) \/ y = x
  BY <1>1, <1>2, Appended, Zenon DEF DriverInv, DriverTypeOK
<1>4. DriverTypeOK'
  BY <1>1, <1>3 DEF DriverInv, DriverTypeOK
<1>5. Fewer
  BY <1>1, Spending, Zenon DEF Fewer, SameLeft, SwarmInv
<1>6. lock' = None => banning' = <<>>
  BY <1>1, Zenon DEF DriverInv, LiarInv
<1>7. ASSUME NEW r \in Peer, NEW d \in Bad, Known(r, d) PROVE Known(r, d)'
  BY <1>1, <1>3, <1>7, Zenon DEF Known
\* The pair that is heard is about no block.
<1> SUFFICES ASSUME NEW h \in heard', h[2] \in Bad, Stays(h[1])' PROVE Known(h[1], h[2])'
  BY <1>4, <1>6, Zenon DEF DriverInv, LiarInv, Stays
<1>8. h \in heard
  <2>1. CASE h = <<p, None>>
    <3>1. h[2] = None
      BY <2>1, Zenon
    <3> QED
      BY <3>1, NoneAssumption, BlockAssumption, Zenon
  <2> QED
    BY <1>1, <2>1, Zenon
<1>9. h[1] \in Peer
  BY <1>8, Zenon DEF DriverInv, DriverTypeOK
<1>10. Stays(h[1])
  BY <1>5, Zenon DEF Stays, Fewer
<1>11. Known(h[1], h[2])
  BY <1>8, <1>10, Zenon DEF DriverInv, LiarInv, Stays
<1> QED
  BY <1>7, <1>9, <1>11, Zenon

\* The loop spawns a task for a request or for an effect of the kernel.
LEMMA SpawnDriver ==
    ASSUME SwarmInv, DriverInv, TakeEffect \/ \E c \in Conn : TakeRequest(c)
    PROVE  DriverInv'
<1>1. /\ UNCHANGED <<open, lock, banning, swarm_rx, blocked, heard, block_id_to_peers>>
      /\ (UNCHANGED left \/ Spend("ticks"))
  BY Zenon DEF TakeEffect, TakeRequest, swarm, p2pState
<1>2. Fewer
  <2>1. left'.conns = left.conns
    BY <1>1, Spending, Zenon DEF SameLeft, SwarmInv
  <2> QED
    BY <1>1, <2>1, Zenon DEF Fewer
<1>3. /\ effects' \in Seq(Effect) /\ tasks' \subseteq Task /\ tasks \subseteq tasks'
      /\ \A y : y \in Range(effects) => y \in Range(effects') \/ y \in tasks'
  <2>1. CASE TakeEffect
    <3>1. effects # <<>> /\ effects' = Tail(effects) /\ tasks' = tasks \union {Head(effects)}
      BY <2>1, Zenon DEF TakeEffect
    <3>2. /\ Head(effects) \in Effect /\ Tail(effects) \in Seq(Effect)
          /\ \A y : y \in Range(effects) <=> y = Head(effects) \/ y \in Range(Tail(effects))
      BY <3>1, Taken, Zenon DEF DriverInv, DriverTypeOK
    <3> QED
      BY <3>1, <3>2, Zenon DEF Task, DriverInv, DriverTypeOK
  <2>2. ASSUME NEW c \in Conn, TakeRequest(c)
        PROVE  UNCHANGED effects /\ tasks' \subseteq Task /\ tasks \subseteq tasks'
    <3>1. /\ [type |-> "request", block |-> None, peer |-> c] \in Task
          /\ [type |-> "liar_peer", block |-> None, peer |-> PeerOf[c]] \in Task
      BY ConnAssumption, Zenon DEF Task, Effect
    <3> QED
      BY <2>2, <3>1, Zenon DEF TakeRequest, DriverInv, DriverTypeOK
  <2>3. effects \in Seq(Effect)
    BY Zenon DEF DriverInv, DriverTypeOK
  <2> QED
    BY <2>1, <2>2, <2>3, Zenon
<1>4. DriverTypeOK'
  BY <1>1, <1>3, Zenon DEF DriverInv, DriverTypeOK
<1>5. lock' = None => banning' = <<>>
  BY <1>1, Zenon DEF DriverInv, LiarInv
<1>6. ASSUME NEW r \in Peer, NEW d \in Bad, Known(r, d) PROVE Known(r, d)'
  BY <1>1, <1>3, <1>6, Zenon DEF Known
<1>7. \A h \in heard' : h \in heard
  BY <1>1, Zenon
<1> QED
  BY <1>2, <1>4, <1>5, <1>6, <1>7, LiarsKept, Zenon DEF DriverInv

\* The loop blocks a peer, or sends what a task asked for.
LEMMA TakeSwarmActionDriver == ASSUME SwarmInv, DriverInv, TakeSwarmAction PROVE DriverInv'
<1> DEFINE p == Head(swarm_rx)
<1>1. /\ swarm_rx # <<>> /\ swarm_rx' = Tail(swarm_rx)
      /\ blocked' = IF p = None THEN blocked ELSE blocked \union {p}
      /\ UNCHANGED <<left, effects, tasks, lock, banning, heard, block_id_to_peers>>
  BY Zenon DEF TakeSwarmAction, p2pState
<1>2. Fewer
  <2>1. open' \subseteq open
    BY Zenon DEF TakeSwarmAction
  <2> QED
    BY <1>1, <2>1, Zenon DEF Fewer
<1>3. /\ swarm_rx' \in Seq(Peer \union {None})
      /\ \A y : y \in Range(swarm_rx) <=> y = p \/ y \in Range(swarm_rx')
  BY <1>1, Taken, Zenon DEF DriverInv, DriverTypeOK
<1> HIDE DEF p
<1>4. DriverTypeOK'
  BY <1>1, <1>3, Zenon DEF DriverInv, DriverTypeOK
<1>5. lock' = None => banning' = <<>>
  BY <1>1, Zenon DEF DriverInv, LiarInv
<1>6. ASSUME NEW r \in Peer, NEW d \in Bad, Known(r, d) PROVE Known(r, d)'
  <2>1. r # None
    BY NoneAssumption, Zenon
  <2> QED
    BY <1>1, <1>3, <1>6, <2>1, Zenon DEF Known
<1>7. \A h \in heard' : h \in heard
  BY <1>1, Zenon
<1> QED
  BY <1>2, <1>4, <1>5, <1>6, <1>7, LiarsKept, Zenon DEF DriverInv

\* A task of another type than %track-add, when it ends, takes no liar with it.
LEMMA OtherTask ==
    ASSUME NEW t, t.type # "track_add", NEW b, NEW p
    PROVE  TrackAdd(b, p) # t
<1>1. TrackAdd(b, p).type = "track_add"
  BY Zenon DEF TrackAdd
<1> QED
  BY <1>1, Zenon

\* The task of %track-add enters the sender.
LEMMA TrackAddDriver ==
    ASSUME DriverInv, NEW t \in tasks, TaskTrackAdd(t)
    PROVE  DriverInv'
<1>1. /\ t.type = "track_add" /\ tasks' = tasks \ {t}
      /\ block_id_to_peers' = [block_id_to_peers EXCEPT ![t.block] = @ \union {t.peer}]
      /\ UNCHANGED <<open, left, blocked, effects, lock, banning, swarm_rx, heard>>
  BY Zenon DEF TaskTrackAdd, Takes, TaskEnds, TrackBlockIdAndPeer, swarm
<1>2. t.block \in Block /\ t.peer \in Peer
  BY <1>1, Zenon DEF DriverInv, DriverTypeOK, Task, Effect
<1>3. \A b \in Block : block_id_to_peers'[b] =
         block_id_to_peers[b] \union (IF b = t.block THEN {t.peer} ELSE {})
  BY <1>1, <1>2, Zenon DEF DriverInv, DriverTypeOK
<1>4. DriverTypeOK'
  <2>1. block_id_to_peers' \in [Block -> SUBSET Peer]
    BY <1>1, <1>2, Zenon DEF DriverInv, DriverTypeOK
  <2>2. IsFiniteSet(block_id_to_peers[t.block] \union {t.peer})
    BY <1>2, FS_AddElement DEF DriverInv, DriverTypeOK
  <2>3. \A b \in Block : IsFiniteSet(block_id_to_peers'[b])
    BY <1>1, <1>2, <2>2, Zenon DEF DriverInv, DriverTypeOK
  <2> QED
    BY <1>1, <2>1, <2>3, Zenon DEF DriverInv, DriverTypeOK
<1>5. ASSUME NEW r \in Peer, NEW d \in Bad, Known(r, d) PROVE Known(r, d)'
  <2>1. d \in Block
    BY BlockAssumption, Zenon
  <2>2. CASE TrackAdd(d, r) = t
    <3>1. t.block = d /\ t.peer = r
      BY <2>2, Zenon DEF TrackAdd
    <3> QED
      BY <1>3, <2>1, <3>1, Zenon DEF Known
  <2>3. CASE TrackAdd(d, r) # t
    BY <1>1, <1>3, <1>5, <2>1, <2>3, Zenon DEF Known, TrackAdd
  <2> QED
    BY <2>2, <2>3, Zenon
<1>6. Fewer /\ (lock' = None => banning' = <<>>) /\ \A h \in heard' : h \in heard
  BY <1>1, Zenon DEF Fewer, DriverInv, LiarInv
<1> QED
  BY <1>4, <1>5, <1>6, LiarsKept, Zenon DEF DriverInv

\* The task of %track-remove is for a block that has not been found bad.
LEMMA TrackRemoveDriver ==
    ASSUME DriverInv, NEW t \in tasks, TaskTrackRemove(t)
    PROVE  DriverInv'
<1>1. /\ t.type = "track_remove" /\ tasks' = tasks \ {t}
      /\ block_id_to_peers' = [block_id_to_peers EXCEPT ![t.block] = {}]
      /\ UNCHANGED <<open, left, blocked, effects, lock, banning, swarm_rx, heard>>
  BY Zenon DEF TaskTrackRemove, Takes, TaskEnds, RemoveBlockId, swarm
<1>2. t.block \in Block \ Bad
  BY <1>1, Zenon DEF DriverInv, DriverTypeOK, Task, Effect
<1>3. DriverTypeOK'
  BY <1>1, <1>2, FS_EmptySet, Zenon DEF DriverInv, DriverTypeOK
<1>4. ASSUME NEW r \in Peer, NEW d \in Bad, Known(r, d) PROVE Known(r, d)'
  <2>1. block_id_to_peers'[d] = block_id_to_peers[d]
    BY <1>1, <1>2, BlockAssumption, Zenon DEF DriverInv, DriverTypeOK
  <2>2. TrackAdd(d, r) # t
    BY <1>1, OtherTask, Zenon
  <2> QED
    BY <1>1, <1>4, <2>1, <2>2, Zenon DEF Known, TrackAdd
<1>5. Fewer /\ (lock' = None => banning' = <<>>) /\ \A h \in heard' : h \in heard
  BY <1>1, Zenon DEF Fewer, DriverInv, LiarInv
<1> QED
  BY <1>3, <1>4, <1>5, LiarsKept, Zenon DEF DriverInv

\* The task of %liar-block-id takes all the peers of the block to ban them.
LEMMA LiarBlockIdDriver ==
    ASSUME DriverInv, NEW t \in tasks, TaskLiarBlockId(t)
    PROVE  DriverInv'
<1> DEFINE ps == block_id_to_peers[t.block]
<1>1. /\ t.type = "liar_block_id" /\ tasks' = tasks \ {t} /\ lock = None
      /\ lock' = t.block /\ banning' \in Orders(ps) /\ RemovePeers(ps)
      /\ UNCHANGED <<open, left, blocked, effects, swarm_rx, heard>>
  BY Zenon DEF TaskLiarBlockId, Takes, TaskEnds, ProcessBadBlockId, swarm
<1>2. t.block \in Block
  BY <1>1, Zenon DEF DriverInv, DriverTypeOK, Task, Effect
<1>3. ps \subseteq Peer /\ IsFiniteSet(ps)
  BY <1>2, Zenon DEF DriverInv, DriverTypeOK
<1> HIDE DEF ps
<1>4. banning' \in Seq(ps) /\ Range(banning') = ps
  BY <1>1, <1>3, OrderMembers, Zenon
<1>5. banning' \in Seq(Peer)
  BY <1>3, <1>4
<1>6. TrackerTypeOK' /\ \A b \in Block : block_id_to_peers'[b] = block_id_to_peers[b] \ ps
  BY <1>1, RemovePeersTracker, Zenon DEF DriverInv
<1>7. DriverTypeOK'
  BY <1>1, <1>2, <1>5, <1>6, Zenon DEF DriverInv, DriverTypeOK, TrackerTypeOK
<1>8. ASSUME NEW r \in Peer, NEW d \in Bad, Known(r, d) PROVE Known(r, d)'
  <2>1. banning = <<>>
    BY <1>1, Zenon DEF DriverInv, LiarInv
  <2>2. r \notin Range(banning)
    BY <2>1, EmptyQueue, Zenon
  <2>3. TrackAdd(d, r) # t
    BY <1>1, OtherTask, Zenon
  <2>4. d \in Block
    BY BlockAssumption, Zenon
  <2> QED
    BY <1>1, <1>4, <1>6, <1>8, <2>2, <2>3, <2>4, Zenon DEF Known, TrackAdd
<1>9. Fewer /\ lock' # None /\ \A h \in heard' : h \in heard
  BY <1>1, <1>2, NoneAssumption, Zenon DEF Fewer
<1> QED
  BY <1>7, <1>8, <1>9, LiarsKept, Zenon DEF DriverInv

\* A peer to ban goes from that task to the channel of the loop, and the mutex
\* is given back when all have gone.
LEMMA BanDriver == ASSUME DriverInv, TaskSendsBan \/ TaskUnlocks PROVE DriverInv'
<1>1. CASE TaskSendsBan
  <2>1. /\ banning # <<>> /\ swarm_rx' = Append(swarm_rx, Head(banning)) /\ banning' = Tail(banning)
        /\ UNCHANGED <<open, left, blocked, effects, tasks, lock, heard, block_id_to_peers>>
    BY <1>1, Zenon DEF TaskSendsBan, swarm, p2pState
  <2>2. /\ Head(banning) \in Peer /\ banning' \in Seq(Peer)
        /\ \A y : y \in Range(banning) <=> y = Head(banning) \/ y \in Range(banning')
    BY <2>1, Taken, Zenon DEF DriverInv, DriverTypeOK
  <2>3. /\ swarm_rx' \in Seq(Peer \union {None})
        /\ \A y : y \in Range(swarm_rx') <=> y \in Range(swarm_rx) \/ y = Head(banning)
    <3>1. Head(banning) \in Peer \union {None} /\ swarm_rx \in Seq(Peer \union {None})
      BY <2>2, Zenon DEF DriverInv, DriverTypeOK
    <3> QED
      BY <2>1, <3>1, Appended
  <2>4. DriverTypeOK'
    BY <2>1, <2>2, <2>3, Zenon DEF DriverInv, DriverTypeOK
  <2>5. ASSUME NEW r \in Peer, NEW d \in Bad, Known(r, d) PROVE Known(r, d)'
    BY <2>1, <2>2, <2>3, <2>5, Zenon DEF Known
  <2>6. Fewer /\ (lock' = None => banning' = <<>>) /\ \A h \in heard' : h \in heard
    BY <2>1, Zenon DEF Fewer, DriverInv, LiarInv
  <2> QED
    BY <2>4, <2>5, <2>6, LiarsKept, Zenon DEF DriverInv
<1>2. CASE TaskUnlocks
  <2>1. /\ banning = <<>> /\ lock' = None
        /\ UNCHANGED <<open, left, blocked, effects, tasks, banning, swarm_rx, heard, block_id_to_peers>>
    BY <1>2, Zenon DEF TaskUnlocks, swarm, p2pState
  <2>2. DriverTypeOK'
    BY <2>1, Zenon DEF DriverInv, DriverTypeOK
  <2>3. ASSUME NEW r \in Peer, NEW d \in Bad, Known(r, d) PROVE Known(r, d)'
    BY <2>1, <2>3, Zenon DEF Known
  <2>4. Fewer /\ (lock' = None => banning' = <<>>) /\ \A h \in heard' : h \in heard
    BY <2>1, Zenon DEF Fewer
  <2> QED
    BY <2>2, <2>3, <2>4, LiarsKept, Zenon DEF DriverInv
<1> QED
  BY <1>1, <1>2, Zenon

\* The tasks of %liar-peer and of a request.
LEMMA RequestDriver ==
    ASSUME DriverInv, NEW t \in tasks,
           TaskLiarPeer(t) \/ TaskLooksUp(t) \/ TaskCounts(t) \/ TaskResponds(t)
    PROVE  DriverInv'
<1>1. /\ t.type \in {"liar_peer", "request", "count", "respond"}
      /\ UNCHANGED <<open, left, blocked, effects, lock, banning, heard, block_id_to_peers>>
  BY Zenon DEF TaskLiarPeer, TaskLooksUp, TaskCounts, TaskResponds, Takes, swarm, p2pState
<1>2. tasks' \subseteq Task /\ tasks \ {t} \subseteq tasks'
  <2>1. CASE TaskLiarPeer(t) \/ TaskResponds(t)
    <3>1. tasks' = tasks \ {t}
      BY <2>1, Zenon DEF TaskLiarPeer, TaskResponds, TaskEnds
    <3> QED
      BY <3>1, Zenon DEF DriverInv, DriverTypeOK
  <2>2. CASE TaskLooksUp(t) \/ TaskCounts(t)
    <3>1. t.type \in {"request", "count"}
      BY <2>2, Zenon DEF TaskLooksUp, TaskCounts, Takes
    <3>2. t.peer \in Conn
      BY <3>1, Zenon DEF DriverInv, DriverTypeOK, Task, Effect
    <3>3. \A type \in {"count", "respond"} : [type |-> type, block |-> None, peer |-> t.peer] \in Task
      BY <3>2, Zenon DEF Task
    <3>4. PICK type \in {"count", "respond"} :
             tasks' = (tasks \ {t}) \union {[type |-> type, block |-> None, peer |-> t.peer]}
      <4>1. CASE TaskCounts(t)
        BY <4>1, Zenon DEF TaskCounts
      <4>2. CASE TaskLooksUp(t) /\ t.peer \in connections
        BY <4>2, Zenon DEF TaskLooksUp
      <4>3. CASE TaskLooksUp(t) /\ t.peer \notin connections
        BY <4>3, Zenon DEF TaskLooksUp
      <4> QED
        BY <2>2, <4>1, <4>2, <4>3, Zenon
    <3> QED
      BY <3>3, <3>4, Zenon DEF DriverInv, DriverTypeOK
  <2> QED
    BY <2>1, <2>2, Zenon
<1>3. /\ swarm_rx' \in Seq(Peer \union {None})
      /\ \A y : y \in Range(swarm_rx) => y \in Range(swarm_rx')
  <2>1. CASE TaskLooksUp(t) \/ TaskCounts(t)
    <3>1. UNCHANGED swarm_rx
      BY <2>1, Zenon DEF TaskLooksUp, TaskCounts
    <3> QED
      BY <3>1, Zenon DEF DriverInv, DriverTypeOK
  <2>2. CASE TaskLiarPeer(t) \/ TaskResponds(t)
    <3>1. PICK x \in Peer \union {None} : swarm_rx' = Append(swarm_rx, x)
      <4>1. CASE TaskLiarPeer(t)
        <5>1. t.type = "liar_peer" /\ swarm_rx' = Append(swarm_rx, t.peer)
          BY <4>1, Zenon DEF TaskLiarPeer, Takes
        <5>2. t.peer \in Peer
          BY <5>1, Zenon DEF DriverInv, DriverTypeOK, Task, Effect
        <5> QED
          BY <5>1, <5>2, Zenon
      <4>2. CASE TaskResponds(t)
        BY <4>2, Zenon DEF TaskResponds
      <4> QED
        BY <2>2, <4>1, <4>2, Zenon
    <3> QED
      BY <3>1, Appended DEF DriverInv, DriverTypeOK
  <2> QED
    BY <2>1, <2>2, Zenon
<1>4. DriverTypeOK'
  BY <1>1, <1>2, <1>3, Zenon DEF DriverInv, DriverTypeOK
<1>5. ASSUME NEW r \in Peer, NEW d \in Bad, Known(r, d) PROVE Known(r, d)'
  <2>1. TrackAdd(d, r) # t
    BY <1>1, OtherTask, Zenon
  <2> QED
    BY <1>1, <1>2, <1>3, <1>5, <2>1, Zenon DEF Known, TrackAdd
<1>6. Fewer /\ (lock' = None => banning' = <<>>) /\ \A h \in heard' : h \in heard
  BY <1>1, Zenon DEF Fewer, DriverInv, LiarInv
<1> QED
  BY <1>4, <1>5, <1>6, LiarsKept, Zenon DEF DriverInv

(***************************************************************************)
(* The invariant and what follows from it.                                 *)
(***************************************************************************)
\* The driver starts with no connections, no peers and nothing to do.
LEMMA InitPeers == Init => IInv
<1> SUFFICES ASSUME Init PROVE IInv
  BY Zenon
<1>1. SwarmTypeOK
  BY BudgetAssumption, FS_EmptySet DEF Init, SwarmTypeOK
<1>2. DriverTypeOK
  BY FS_EmptySet DEF Init, DriverTypeOK
<1>3. EventInv
  <2> SUFFICES ASSUME NEW c \in Conn PROVE ConnInv(c)
    BY Zenon DEF EventInv
  <2>1. /\ loop # Established(c) /\ loop # Closed(c)
        /\ Established(c) \notin Range(events) /\ Closed(c) \notin Range(events)
    BY EventKinds, EmptyQueue, Zenon DEF Init
  <2>2. EstablishedFirst(c, events)
    BY DEF Init, EstablishedFirst
  <2> QED
    BY <2>1, <2>2, Zenon DEF Init, ConnInv, Queued
<1>4. MapsInv
  BY Zenon DEF Init, MapsInv, Tracks
<1>5. LiarInv
  BY Zenon DEF Init, LiarInv
<1> QED
  BY <1>1, <1>2, <1>3, <1>4, <1>5, Zenon DEF IInv

\* Every step of the swarm, the kernel, the loop and the tasks keeps it.
LEMMA NextPeers == IInv /\ [Next]_vars => IInv'
<1> SUFFICES ASSUME IInv, [Next]_vars PROVE IInv'
  BY Zenon
<1>0. SwarmInv /\ DriverInv /\ DriverTypeOK
  BY Zenon DEF IInv, SwarmInv, DriverInv
<1> SUFFICES SwarmInv' /\ DriverInv'
  BY Zenon DEF IInv, SwarmInv, DriverInv
<1>1. CASE \E c \in Conn : Connect(c) \/ Close(c) \/ \E ok \in BOOLEAN : Ping(c, ok)
  BY <1>0, <1>1, ConnectSwarm, CloseSwarm, TickSwarm, SwarmDriver
<1>2. CASE Denied \/ TakeEvent \/ TakeReset
  BY <1>0, <1>2, TickSwarm, TakeEventSwarm, TakeResetSwarm, SwarmDriver, Zenon
<1>3. CASE \E p \in Peer : HeardNonsense(p) \/ \E b \in Block : HeardBlock(p, b)
  BY <1>0, <1>3, NewsSwarm, HeardBlockDriver, HeardNonsenseDriver, Zenon
<1>4. CASE TakeEffect \/ \E c \in Conn : TakeRequest(c)
  BY <1>0, <1>4, NewsSwarm, SpawnDriver, Zenon
<1>5. CASE TakeSwarmAction
  BY <1>0, <1>5, TakeSwarmActionSwarm, TakeSwarmActionDriver, Zenon
<1>6. CASE Handle
  BY <1>0, <1>6, HandleSwarm, HandleDriver, Zenon
<1>7. CASE TaskSteps
  <2>1. SwarmInv'
    BY <1>0, <1>7, TaskSwarm, Zenon
  <2>2. DriverInv'
    BY <1>0, <1>7, TrackAddDriver, TrackRemoveDriver, LiarBlockIdDriver, BanDriver, RequestDriver
       DEF TaskSteps
  <2> QED
    BY <2>1, <2>2, Zenon
<1>8. CASE UNCHANGED vars
  <2>1. /\ UNCHANGED <<open, events, loop>> /\ UNCHANGED conns /\ UNCHANGED left
        /\ UNCHANGED bans /\ UNCHANGED block_id_to_peers
    BY <1>8, Zenon DEF vars, swarm, driver, p2pState, conns, bans
  <2>2. SameLeft /\ SameConnections
    BY <1>0, <2>1, SameLeftHand, SameMaps, Zenon
  <2>3. Fewer
    BY <2>1, Zenon DEF Fewer
  <2> QED
    BY <1>0, <2>1, <2>2, <2>3, QuietSwarm, QuietDriver
<1> QED
  BY <1>1, <1>2, <1>3, <1>4, <1>5, <1>6, <1>7, <1>8, Zenon DEF Next

\* The inductive invariant of the driver's loop, its tasks and P2PState: the
\* types, what the queued events say of the connections, the maps of
\* P2PState, and the liars that are known.
THEOREM PeersInvariant == Spec => []IInv
BY InitPeers, NextPeers, PTL DEF Spec

\* track_connection and lost_connection keep P2PState's maps about the same
\* connections, and when no event waits these are the swarm's own.
THEOREM ConnectionsAgreeTheorem == Spec => []ConnectionsAgree
<1>1. IInv => ConnectionsAgree
  <2> SUFFICES ASSUME IInv PROVE ConnectionsAgree
    BY Zenon
  <2>1. ASSUME events = <<>>, loop = None PROVE connections = open
    <3>1. ASSUME NEW c \in Conn PROVE c \in connections <=> c \in open
      <4>1. ~Queued(Established(c)) /\ ~Queued(Closed(c))
        BY <2>1, EmptyQueue, EventKinds, Zenon DEF Queued
      <4> QED
        BY <4>1, Zenon DEF IInv, EventInv, ConnInv
    <3> QED
      BY <3>1, Zenon DEF IInv, SwarmTypeOK
  <2> QED
    BY <2>1, Zenon DEF IInv, MapsInv, ConnectionsAgree
<1> QED
  BY <1>1, PeersInvariant, PTL

\* When the effects, the tasks, the channel and the events have all been
\* dealt with, a peer that sent a bad block and has stayed is blocked, or
\* P2PState tracks it with the block: the tasks may run in any order.
THEOREM LiarsAreKnownTheorem == Spec => []LiarsAreKnown
<1>1. IInv => LiarsAreKnown
  <2> SUFFICES ASSUME IInv, effects = <<>>, tasks = {}, lock = None, swarm_rx = <<>>,
                      NEW h \in heard, h[2] \in Bad,
                      \A c \in Conn : PeerOf[c] = h[1] => c \in open \union left.conns
               PROVE  h[1] \in blocked \union block_id_to_peers[h[2]]
    BY Zenon DEF LiarsAreKnown
  <2>1. Known(h[1], h[2]) /\ banning = <<>>
    BY Zenon DEF IInv, LiarInv
  <2> QED
    BY <2>1, EmptyQueue, Zenon DEF Known
<1> QED
  BY <1>1, PeersInvariant, PTL
=============================================================================
