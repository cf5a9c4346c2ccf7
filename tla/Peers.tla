-------------------------------- MODULE Peers --------------------------------
(***************************************************************************)
(* What the libp2p driver knows of its peers: the connection and block     *)
(* tracking half of P2PState (p2p_state.rs), the event loop of the driver  *)
(* and the tasks it spawns (driver.rs).                                    *)
(*                                                                         *)
(* P2PState is behind one mutex.  Tasks take it, change it and let it go   *)
(* in one step, except the task of a %liar-block-id effect, which sends to *)
(* the loop's bounded channel while it holds it.  The loop takes the mutex *)
(* inside its handlers, and takes nothing from any channel while it waits. *)
(*                                                                         *)
(* The swarm is external: connections come and go, and a blocked peer is   *)
(* disconnected.  A connection keeps its peer, address and direction, so   *)
(* these are constants; a map of P2PState that drops its empty entries is  *)
(* a function to sets, {} for no entry.                                    *)
(***************************************************************************)
EXTENDS Naturals, Sequences, FiniteSets, Functions

CONSTANTS
    Conn, Peer, Ip,  \* connection ids, peers, addresses
    PeerOf, IpOf,    \* the ends of a connection
    Listener,        \* the inbound connections
    Block, Bad,      \* the blocks peers send, and those that do not validate
    Capacity,        \* of the channel of swarm actions
    FailedPings,     \* failed_pings_before_close
    PruneSize,       \* prune_inbound_size
    Budgets,         \* how often the environment acts: connections, ticks, bad news
    None

ASSUME ConnAssumption == PeerOf \in [Conn -> Peer] /\ IpOf \in [Conn -> Ip]
ASSUME BlockAssumption == Bad \subseteq Block
ASSUME BudgetAssumption == Budgets \subseteq [conns : SUBSET Conn, ticks : Nat, news : Nat]
ASSUME NoneAssumption == None \notin Conn \union Peer \union Block

VARIABLES
    open,        \* the swarm's open connections
    events,      \* swarm events the loop has not taken
    left,        \* what is left of the budget
    effects,     \* effects of the kernel the loop has not taken
    heard,       \* <<peer, block>> the kernel has judged
    loop,        \* the event whose handler waits for the mutex, or None
    tasks,       \* tasks that wait for the mutex or the channel; equal ones are one
    lock,        \* the block whose %liar-block-id task holds the mutex, or None
    banning,     \* the peers that task still has to send
    swarm_rx,    \* the channel of swarm actions
    blocked,     \* the swarm's block list
    connections, inbound_connections, peer_connections, ip_info,
    block_id_to_peers, peer_to_block_ids

p2pState == <<connections, inbound_connections, peer_connections, ip_info,
              block_id_to_peers, peer_to_block_ids>>
swarm == <<open, left, events, blocked>>
driver == <<effects, loop, tasks, lock, banning, swarm_rx>>
vars == <<swarm, driver, heard, p2pState>>

Init ==
    /\ open = {} /\ events = <<>> /\ blocked = {} /\ left \in Budgets
    /\ effects = <<>> /\ heard = {} /\ loop = None /\ tasks = {}
    /\ lock = None /\ banning = <<>> /\ swarm_rx = <<>>
    /\ connections = {}
    /\ inbound_connections = {}
    /\ peer_connections = [p \in Peer |-> {}]
    /\ ip_info = [i \in Ip |-> None]
    /\ block_id_to_peers = [b \in Block |-> {}]
    /\ peer_to_block_ids = [p \in Peer |-> {}]

\* The members of a finite set one after the other, in any order.
Orders(S) == Bijection(1 .. Cardinality(S), S)

(***************************************************************************)
(* The swarm and the kernel, as the driver sees them.                      *)
(***************************************************************************)
\* A connection is established, unless its peer is blocked.
Connect(c) ==
    /\ c \in left.conns
    /\ PeerOf[c] \notin blocked
    /\ open' = open \union {c}
    /\ left' = [left EXCEPT !.conns = @ \ {c}]
    /\ events' = Append(events, [type |-> "established", conn |-> c])
    /\ UNCHANGED <<blocked, driver, heard, p2pState>>

\* A connection is closed, by the other side or because it was asked for.
Close(c) ==
    /\ c \in open
    /\ open' = open \ {c}
    /\ events' = Append(events, [type |-> "closed", conn |-> c])
    /\ UNCHANGED <<left, blocked, driver, heard, p2pState>>

\* One of a kind of event the budget counts happens.
Spend(kind) == left[kind] > 0 /\ left' = [left EXCEPT ![kind] = @ - 1]

\* The events of the swarm the budget counts: a ping of an open connection ends, a dial is
\* denied for the connection limits.
Tick(e) ==
    /\ Spend("ticks")
    /\ events' = Append(events, e)
    /\ UNCHANGED <<open, blocked, driver, heard, p2pState>>

Ping(c, ok) == c \in open /\ Tick([type |-> IF ok THEN "pong" ELSE "ping_failed", conn |-> c])
Denied == Tick([type |-> "denied", conn |-> None])

\* heard-block, where the digest is right: a bad block is to be tracked and
\* its senders are liars; one with a proof of work that has to wait for its
\* transactions is to be tracked and let go again, once.  (One that is accepted
\* is not tracked; one that fails with its transactions crashes the poke.)
HeardBlock(p, b) ==
    /\ \E c \in open : PeerOf[c] = p
    /\ IF b \in Bad THEN <<p, b>> \notin heard ELSE \A h \in heard : h[2] # b
    /\ Spend("news")
    /\ heard' = heard \union {<<p, b>>}
    /\ effects' = effects \o
         <<[type |-> "track_add", block |-> b, peer |-> p],
           [type |-> IF b \in Bad THEN "liar_block_id" ELSE "track_remove", block |-> b, peer |-> None]>>
    /\ UNCHANGED <<open, events, blocked, loop, tasks, lock, banning, swarm_rx, p2pState>>

\* A block or a cause that is not what it claims to be: %liar-peer.
HeardNonsense(p) ==
    /\ \E c \in open : PeerOf[c] = p
    /\ <<p, None>> \notin heard
    /\ Spend("news")
    /\ heard' = heard \union {<<p, None>>}
    /\ effects' = Append(effects, [type |-> "liar_peer", block |-> None, peer |-> p])
    /\ UNCHANGED <<open, events, blocked, loop, tasks, lock, banning, swarm_rx, p2pState>>

(***************************************************************************)
(* P2PState.                                                               *)
(***************************************************************************)
NewInfo == [request_count |-> 0, ping_failure_count |-> 0, connections |-> {}]

\* Mutant: an inbound connection is not known as one of the connections.
TrackConnectionInbound(c) ==
    LET i == IpOf[c]
        info == ip_info[i]
    IN  /\ connections' = IF c \in Listener THEN connections ELSE connections \union {c}
        /\ inbound_connections' = inbound_connections \union ({c} \intersect Listener)
        /\ peer_connections' = [peer_connections EXCEPT ![PeerOf[c]] = @ \union {c}]
        /\ ip_info' = [ip_info EXCEPT ![i] =
                         IF info = None THEN NewInfo ELSE [info EXCEPT !.connections = @ \union {c}]]

\* The first connection of an address makes the address's entry, with an
\* empty set of connections.
TrackConnection(c) ==
    LET i == IpOf[c]
        info == ip_info[i]
    IN  /\ connections' = connections \union {c}
        /\ inbound_connections' = inbound_connections \union ({c} \intersect Listener)
        /\ peer_connections' = [peer_connections EXCEPT ![PeerOf[c]] = @ \union {c}]
        /\ ip_info' = [ip_info EXCEPT ![i] =
                         IF info = None THEN NewInfo ELSE [info EXCEPT !.connections = @ \union {c}]]

\* Mutant: the blocks keep the peers that have gone.
RemovePeersOneWay(ps) ==
    /\ peer_to_block_ids' = [p \in Peer |-> IF p \in ps THEN {} ELSE peer_to_block_ids[p]]
    /\ UNCHANGED block_id_to_peers

\* remove_peer, for each of some peers.
RemovePeers(ps) ==
    /\ peer_to_block_ids' = [p \in Peer |-> IF p \in ps THEN {} ELSE peer_to_block_ids[p]]
    /\ block_id_to_peers' = [b \in Block |-> block_id_to_peers[b] \ ps]

LostConnection(c) ==
    LET p == PeerOf[c]
        others == peer_connections[p] \ {c}
        info == ip_info[IpOf[c]]
    IN  IF c \notin connections
        THEN UNCHANGED p2pState
        ELSE /\ connections' = connections \ {c}
             /\ inbound_connections' = inbound_connections \ {c}
             /\ peer_connections' = [peer_connections EXCEPT ![p] = others]
             /\ RemovePeers(IF others = {} THEN {p} ELSE {})
             /\ ip_info' =
                  IF info = None THEN ip_info
                  ELSE [ip_info EXCEPT ![IpOf[c]] =
                          IF info.connections \ {c} = {} THEN None
                          ELSE [info EXCEPT !.connections = @ \ {c}]]

Tracks(i) == ip_info[i] # None

\* requested
Requested(i) ==
    ip_info' = IF Tracks(i) THEN [ip_info EXCEPT ![i].request_count = @ + 1] ELSE ip_info

ResetRequests ==
    ip_info' = [i \in Ip |-> IF Tracks(i) THEN [ip_info[i] EXCEPT !.request_count = 0] ELSE None]

\* ping_succeeded and ping_failed, by the address of the connection.
PingEnds(c, ok) ==
    ip_info' = IF c \in connections /\ Tracks(IpOf[c])
               THEN [ip_info EXCEPT ![IpOf[c]].ping_failure_count = IF ok THEN 0 ELSE @ + 1]
               ELSE ip_info

TrackBlockIdAndPeer(b, p) ==
    /\ block_id_to_peers' = [block_id_to_peers EXCEPT ![b] = @ \union {p}]
    /\ peer_to_block_ids' = [peer_to_block_ids EXCEPT ![p] = @ \union {b}]

RemoveBlockId(b) ==
    /\ block_id_to_peers' = [block_id_to_peers EXCEPT ![b] = {}]
    /\ peer_to_block_ids' = [p \in Peer |->
         IF p \in block_id_to_peers[b] THEN peer_to_block_ids[p] \ {b} ELSE peer_to_block_ids[p]]

\* process_bad_block_id: after its peers are removed the block has none.
ProcessBadBlockId(b) == RemovePeers(block_id_to_peers[b])

(***************************************************************************)
(* The event loop.                                                         *)
(***************************************************************************)
InSelect == loop = None

\* A swarm event is taken; its handler asks for the mutex.
TakeEvent ==
    /\ InSelect
    /\ events # <<>>
    /\ loop' = Head(events)
    /\ events' = Tail(events)
    /\ UNCHANGED <<open, left, blocked, effects, tasks, lock, banning, swarm_rx, heard, p2pState>>

\* The timer of reset_request_counts ticks; its handler asks for the mutex.
TakeReset ==
    /\ InSelect
    /\ Spend("ticks")
    /\ loop' = [type |-> "reset", conn |-> None]
    /\ UNCHANGED <<open, events, blocked, effects, tasks, lock, banning, swarm_rx, heard, p2pState>>

\* A request arrives on a connection: a task is spawned, which looks up the
\* address of the connection and then, with the mutex taken anew, counts.  A
\* request whose proof of work is bad has its sender blocked.
TakeRequest(c) ==
    /\ InSelect
    /\ c \in open
    /\ Spend("ticks")
    /\ \/ tasks' = tasks \union {[type |-> "request", block |-> None, peer |-> c]}
       \/ tasks' = tasks \union {[type |-> "liar_peer", block |-> None, peer |-> PeerOf[c]]}
    /\ UNCHANGED <<open, events, blocked, effects, loop, lock, banning, swarm_rx, heard, p2pState>>

\* The handler has the mutex.
Handle ==
    /\ loop # None
    /\ lock = None
    /\ loop' = None
    /\ \/ /\ loop.type = "established"
          /\ TrackConnection(loop.conn)
          /\ UNCHANGED <<block_id_to_peers, peer_to_block_ids, open, events>>
       \/ /\ loop.type = "closed"
          /\ LostConnection(loop.conn)
          /\ UNCHANGED <<open, events>>
       \/ /\ loop.type = "pong"
          /\ PingEnds(loop.conn, TRUE)
          /\ UNCHANGED <<connections, inbound_connections, peer_connections,
                         block_id_to_peers, peer_to_block_ids, open, events>>
       \/ /\ loop.type = "ping_failed"
          /\ PingEnds(loop.conn, FALSE)
          /\ LET c == loop.conn
                 info == ip_info'[IpOf[c]]
                 close == c \in open /\ c \in connections /\ info # None
                          /\ info.ping_failure_count >= FailedPings
             IN  /\ open' = IF close THEN open \ {c} ELSE open
                 /\ events' = IF close THEN Append(events, [type |-> "closed", conn |-> c])
                              ELSE events
          /\ UNCHANGED <<connections, inbound_connections, peer_connections,
                         block_id_to_peers, peer_to_block_ids>>
       \/ /\ loop.type = "denied"
          /\ \E cs \in {s \in SUBSET inbound_connections :
                          \/ s = inbound_connections /\ Cardinality(s) <= PruneSize
                          \/ Cardinality(s) = PruneSize} :
                /\ open' = open \ cs
                /\ \E q \in Orders({[type |-> "closed", conn |-> c] : c \in cs \intersect open}) : events' = events \o q
          /\ UNCHANGED p2pState
       \/ /\ loop.type = "reset"
          /\ ResetRequests
          /\ UNCHANGED <<connections, inbound_connections, peer_connections,
                         block_id_to_peers, peer_to_block_ids, open, events>>
    /\ UNCHANGED <<left, blocked, effects, tasks, lock, banning, swarm_rx, heard>>

\* next_effect: a task is spawned for it.
TakeEffect ==
    /\ InSelect
    /\ effects # <<>>
    /\ effects' = Tail(effects)
    /\ tasks' = tasks \union {Head(effects)}
    /\ UNCHANGED <<swarm, loop, lock, banning, swarm_rx, heard, p2pState>>

\* swarm_rx.recv: a peer is blocked and its connections are closed, or a
\* request or a response goes out.
TakeSwarmAction ==
    /\ InSelect
    /\ swarm_rx # <<>>
    /\ swarm_rx' = Tail(swarm_rx)
    /\ LET p == Head(swarm_rx)
           cs == {c \in open : PeerOf[c] = p}
       IN  /\ blocked' = IF p = None THEN blocked ELSE blocked \union {p}
           /\ open' = open \ cs
           /\ \E q \in Orders({[type |-> "closed", conn |-> c] : c \in cs}) : events' = events \o q
    /\ UNCHANGED <<left, effects, loop, tasks, lock, banning, heard, p2pState>>

(***************************************************************************)
(* The tasks.                                                              *)
(***************************************************************************)
Takes(t, type) == t \in tasks /\ t.type = type

TaskEnds(t) == tasks' = tasks \ {t}

\* [%track %add block-id peer-id]
TaskTrackAdd(t) ==
    /\ Takes(t, "track_add") /\ lock = None
    /\ TrackBlockIdAndPeer(t.block, t.peer)
    /\ TaskEnds(t)
    /\ UNCHANGED <<swarm, effects, loop, lock, banning, swarm_rx, heard,
                   connections, inbound_connections, peer_connections, ip_info>>

\* [%track %remove block-id]
TaskTrackRemove(t) ==
    /\ Takes(t, "track_remove") /\ lock = None
    /\ RemoveBlockId(t.block)
    /\ TaskEnds(t)
    /\ UNCHANGED <<swarm, effects, loop, lock, banning, swarm_rx, heard,
                   connections, inbound_connections, peer_connections, ip_info>>

\* Mutant: one of the peers is banned.
TaskLiarBlockIdOne(t) ==
    /\ Takes(t, "liar_block_id") /\ lock = None
    /\ lock' = t.block
    /\ \E ps \in Orders(block_id_to_peers[t.block]) : banning' = SubSeq(ps, 1, IF ps = <<>> THEN 0 ELSE 1)
    /\ ProcessBadBlockId(t.block)
    /\ TaskEnds(t)
    /\ UNCHANGED <<swarm, effects, loop, swarm_rx, heard,
                   connections, inbound_connections, peer_connections, ip_info>>

\* [%liar-block-id block-id]: the mutex stays taken while the peers to ban
\* are sent to the loop.
TaskLiarBlockId(t) ==
    /\ Takes(t, "liar_block_id") /\ lock = None
    /\ lock' = t.block
    /\ banning' \in Orders(block_id_to_peers[t.block])
    /\ ProcessBadBlockId(t.block)
    /\ TaskEnds(t)
    /\ UNCHANGED <<swarm, effects, loop, swarm_rx, heard,
                   connections, inbound_connections, peer_connections, ip_info>>

TaskSendsBan ==
    /\ banning # <<>>
    /\ Len(swarm_rx) < Capacity
    /\ swarm_rx' = Append(swarm_rx, Head(banning))
    /\ banning' = Tail(banning)
    /\ UNCHANGED <<swarm, effects, loop, tasks, lock, heard, p2pState>>

TaskUnlocks ==
    /\ lock \in Block
    /\ banning = <<>>
    /\ lock' = None
    /\ UNCHANGED <<swarm, effects, loop, tasks, banning, swarm_rx, heard, p2pState>>

\* [%liar-peer peer-id], or a request with a bad proof of work
TaskLiarPeer(t) ==
    /\ Takes(t, "liar_peer")
    /\ Len(swarm_rx) < Capacity
    /\ swarm_rx' = Append(swarm_rx, t.peer)
    /\ TaskEnds(t)
    /\ UNCHANGED <<swarm, effects, loop, lock, banning, heard, p2pState>>

\* Mutant: the guard of the look-up lives on while the request is counted.
TaskLooksUpKeepsGuard(t) ==
    /\ Takes(t, "request") /\ lock = None
    /\ lock' = t.peer
    /\ UNCHANGED <<swarm, effects, loop, tasks, banning, swarm_rx, heard, p2pState>>

\* handle_request_response: the address of the connection, if it is tracked
TaskLooksUp(t) ==
    /\ Takes(t, "request") /\ lock = None
    /\ tasks' = (tasks \ {t}) \union
         {[type |-> IF t.peer \in connections THEN "count" ELSE "respond",
           block |-> None, peer |-> t.peer]}
    /\ UNCHANGED <<swarm, effects, loop, lock, banning, swarm_rx, heard, p2pState>>

TaskCounts(t) ==
    /\ Takes(t, "count") /\ lock = None
    /\ Requested(IpOf[t.peer])
    /\ tasks' = (tasks \ {t}) \union {[type |-> "respond", block |-> None, peer |-> t.peer]}
    /\ UNCHANGED <<swarm, effects, loop, lock, banning, swarm_rx, heard,
                   connections, inbound_connections, peer_connections, block_id_to_peers, peer_to_block_ids>>

\* SwarmAction::SendResponse
TaskResponds(t) ==
    /\ Takes(t, "respond")
    /\ Len(swarm_rx) < Capacity
    /\ swarm_rx' = Append(swarm_rx, None)
    /\ TaskEnds(t)
    /\ UNCHANGED <<swarm, effects, loop, lock, banning, heard, p2pState>>

TaskSteps ==
    \/ \E t \in tasks :
          \/ TaskTrackAdd(t) \/ TaskTrackRemove(t) \/ TaskLiarBlockId(t) \/ TaskLiarPeer(t)
          \/ TaskLooksUp(t) \/ TaskCounts(t) \/ TaskResponds(t)
    \/ TaskSendsBan \/ TaskUnlocks

Next ==
    \/ \E c \in Conn : Connect(c) \/ Close(c) \/ TakeRequest(c) \/ \E ok \in BOOLEAN : Ping(c, ok)
    \/ Denied
    \/ \E p \in Peer : HeardNonsense(p) \/ \E b \in Block : HeardBlock(p, b)
    \/ TakeEvent \/ TakeReset \/ TakeEffect \/ TakeSwarmAction \/ Handle
    \/ TaskSteps

\* The loop takes what is there and the runtime runs its tasks; an inner
\* disjunct that stays possible is taken, as select! and the queues are fair.
Fairness ==
    /\ WF_vars(TakeEvent) /\ WF_vars(TakeEffect) /\ WF_vars(TakeSwarmAction) /\ WF_vars(Handle)
    /\ WF_vars(TaskSendsBan) /\ WF_vars(TaskUnlocks)
    /\ WF_vars(TaskSteps)

Spec == Init /\ [][Next]_vars /\ Fairness

(***************************************************************************)
(* Properties.                                                             *)
(***************************************************************************)
\* The two maps of the block tracker are each other's inverse, whatever the
\* order in which tracking, disconnects and liars are handled: otherwise a
\* peer that has gone would be banned for a block, or one never forgotten.
TrackerAgrees ==
    \A b \in Block, p \in Peer : p \in block_id_to_peers[b] <=> b \in peer_to_block_ids[p]

\* P2PState knows the connections the swarm has: when no event is on its way
\* the tracked connections are the open ones, the inbound ones are those among
\* them, and a peer has exactly the connections that are its own.
\* Of addresses only this holds: an entry names no connection of another
\* address, and goes with the last connection of its own.  It may lack some of
\* its connections, and an address may lack its entry while it is connected:
\* track_connection enters the first connection's address with an empty set.
ConnectionsAgree ==
    /\ events = <<>> /\ loop = None => connections = open
    /\ inbound_connections = connections \intersect Listener
    /\ \A p \in Peer : peer_connections[p] = {c \in connections : PeerOf[c] = p}
    /\ \A i \in Ip : Tracks(i) =>
          /\ ip_info[i].connections \subseteq {c \in connections : IpOf[c] = i}
          /\ \E c \in connections : IpOf[c] = i

\* The loop is stuck in a handler only if the channel it should be reading
\* is full for ever: the mutex is given back, or its holder waits for room.
StuckOnlyWhenFull ==
    <>[](loop # None) => <>[](Len(swarm_rx) = Capacity)

\* The order of "add the block to tracking and then ban the peer who sent
\* it" (inner.hoon) is not kept by the tasks, but when everything has been
\* dealt with no liar is forgotten: a peer that sent a bad block, and whose
\* connections have all stayed, is blocked, or tracked with the block until
\* the next %liar-block-id for it.
LiarsAreKnown ==
    /\ effects = <<>> /\ tasks = {} /\ lock = None /\ swarm_rx = <<>>
    /\ events = <<>> /\ loop = None
    => \A h \in heard :
          h[2] \in Bad /\ (\A c \in Conn : PeerOf[c] = h[1] => c \in open \union left.conns)
          => h[1] \in blocked \union block_id_to_peers[h[2]]

(***************************************************************************)
(* The invariant that makes the safety properties inductive.               *)
(***************************************************************************)
Event == [type : {"established", "closed", "pong", "ping_failed"}, conn : Conn]
             \union [type : {"denied", "reset"}, conn : {None}]
Effect == [type : {"track_add"}, block : Block, peer : Peer]
              \union [type : {"track_remove"}, block : Block \ Bad, peer : {None}]
              \union [type : {"liar_block_id"}, block : Block, peer : {None}]
              \union [type : {"liar_peer"}, block : {None}, peer : Peer]
Task == Effect \union [type : {"request", "count", "respond"}, block : {None}, peer : Conn]
Info == [request_count : Nat, ping_failure_count : Nat, connections : SUBSET Conn]

ASSUME EventAssumption == None \notin Event \union Info

SwarmTypeOK ==
    /\ open \subseteq Conn /\ IsFiniteSet(open)
    /\ left \in [conns : SUBSET Conn, ticks : Nat, news : Nat]
    /\ events \in Seq(Event)
    /\ loop \in Event \union {None}
    /\ connections \subseteq Conn
    /\ peer_connections \in [Peer -> SUBSET Conn]
    /\ ip_info \in [Ip -> Info \union {None}]

DriverTypeOK ==
    /\ effects \in Seq(Effect)
    /\ tasks \subseteq Task
    /\ lock \in Block \union {None}
    /\ banning \in Seq(Peer)
    /\ swarm_rx \in Seq(Peer \union {None})
    /\ heard \subseteq Peer \X (Block \union {None})
    /\ block_id_to_peers \in [Block -> SUBSET Peer]
    /\ \A b \in Block : IsFiniteSet(block_id_to_peers[b])

Established(c) == [type |-> "established", conn |-> c]
Closed(c) == [type |-> "closed", conn |-> c]

\* An event the handler has not dealt with.
Queued(e) == loop = e \/ e \in Range(events)

\* In a queue of events nothing about a connection precedes its start.
EstablishedFirst(c, s) ==
    \A i, j \in DOMAIN s : s[i] \in {Established(c), Closed(c)} /\ s[j] = Established(c) => j <= i

\* What is queued makes up the difference between the connections P2PState
\* knows and those the swarm has; a connection comes and goes once.
ConnInv(c) ==
    /\ c \in left.conns =>
          c \notin open \union connections /\ ~Queued(Established(c)) /\ ~Queued(Closed(c))
    /\ Queued(Established(c)) => c \notin connections
    /\ c \in open => ~Queued(Closed(c)) /\ (c \in connections \/ Queued(Established(c)))
    /\ c \notin open /\ (c \in connections \/ Queued(Established(c))) => Queued(Closed(c))
    /\ loop \in {Established(c), Closed(c)} => Established(c) \notin Range(events)
    /\ EstablishedFirst(c, events)

EventInv == \A c \in Conn : ConnInv(c)

\* The maps of P2PState are about the connections it knows.
MapsInv ==
    /\ inbound_connections = connections \intersect Listener
    /\ \A p \in Peer : peer_connections[p] = {c \in connections : PeerOf[c] = p}
    /\ \A i \in Ip : Tracks(i) =>
          /\ ip_info[i].connections \subseteq {c \in connections : IpOf[c] = i}
          /\ \E c \in connections : IpOf[c] = i

\* p is blocked or about to be, or it is tracked with b or about to be.
Known(p, b) ==
    \/ p \in blocked \/ p \in Range(swarm_rx) \/ p \in Range(banning)
    \/ p \in block_id_to_peers[b]
    \/ [type |-> "track_add", block |-> b, peer |-> p] \in tasks
    \/ [type |-> "track_add", block |-> b, peer |-> p] \in Range(effects)

LiarInv ==
    /\ lock = None => banning = <<>>
    /\ \A h \in heard :
          h[2] \in Bad /\ (\A c \in Conn : PeerOf[c] = h[1] => c \in open \union left.conns)
          => Known(h[1], h[2])

IInv == SwarmTypeOK /\ DriverTypeOK /\ EventInv /\ MapsInv /\ LiarInv
=============================================================================
