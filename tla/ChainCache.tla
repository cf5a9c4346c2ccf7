----------------------------- MODULE ChainCache -----------------------------
(***************************************************************************)
(* What the libp2p driver remembers of the chain, so as not to ask the     *)
(* kernel: the answers it has given (block_cache, elders_cache and its     *)
(* negative), the first height it has not seen and the blocks the kernel   *)
(* need not be given again (p2p_state.rs, handle_effect and                *)
(* handle_request_response in driver.rs).                                  *)
(*                                                                         *)
(* The kernel is the heaviest chain, its blocks and the pending ones       *)
(* (inner.hoon); its effects are handled by tasks that run in any order.   *)
(* A request is answered in three steps, between which anything may happen:*)
(* the cache is looked up, the kernel is peeked, the answer is cached.     *)
(* A transaction is what its id says, so its cache is left out.            *)
(***************************************************************************)
EXTENDS Naturals, FiniteSets

CONSTANTS
    Block,           \* block ids
    ParentOf, HeightOf, \* of a block
    Boot,            \* the heaviest block at boot
    Lacking,         \* the blocks whose transactions come later, if at all
    Retain,          \* retain.a.k: for how many heights a pending block is kept
    Request,         \* the handlers of peers' requests
    Asked,           \* what peers may ask for: a height, or the elders of a block
    None

ASSUME BlockAssumption ==
    /\ HeightOf \in [Block -> Nat] /\ Boot \in Block
    /\ \A b \in Block : HeightOf[b] > 0 =>
          ParentOf[b] \in Block /\ HeightOf[b] = HeightOf[ParentOf[b]] + 1

VARIABLES
    blocks,          \* blocks.c: the validated blocks
    pending_blocks,  \* pending-blocks.c: when a block was heard, or None
    heaviest_block,  \* heaviest-block.c
    heaviest_chain,  \* heaviest-chain.d: the block at a height, or None
    tasks,           \* effects not handled yet; equal ones are one
    born,            \* whether the kernel has had %born
    lagged,          \* whether the driver lost the %gossip of the last heaviest block
    unseen,          \* whether it was not sent a %seen for the heaviest block's height
    seen_blocks, first_negative, block_cache, elders_cache, elders_negative_cache,
    asked,           \* the one thing they ask for
    request,         \* the requests' handlers
    crossed          \* what was cached by a handler that peeked before a clear

kernel == <<blocks, pending_blocks, heaviest_block, heaviest_chain>>
caches == <<block_cache, elders_cache, elders_negative_cache, crossed>>
vars == <<kernel, tasks, born, lagged, unseen, seen_blocks, first_negative, caches, asked, request>>

Heights == {HeightOf[b] : b \in Block}

ASSUME AskedAssumption ==
    /\ Block \intersect Heights = {}
    /\ Asked \subseteq Heights \union Block
ASSUME NoneAssumption ==
    /\ None \notin Block \union Heights
    /\ \A S \in SUBSET Heights : None \notin [S -> Block \union {None}]

Idle == [at |-> "idle", key |-> None, answer |-> None, old |-> FALSE]

\* A block and its ancestors: the least set that has it and the parents of its
\* members.  The walk of the derived state visits them, one at each height.
Ancestors(b) ==
    {a \in Block : \A S \in SUBSET Block :
        b \in S /\ (\A x \in S : HeightOf[x] > 0 => ParentOf[x] \in S) => a \in S}
AncestorAt(b, h) == CHOOSE a \in Ancestors(b) : HeightOf[a] = h

Init ==
    /\ blocks = Ancestors(Boot)
    /\ pending_blocks = [b \in Block |-> None]
    /\ heaviest_block = Boot
    /\ heaviest_chain = [h \in Heights |-> IF h <= HeightOf[Boot] THEN AncestorAt(Boot, h) ELSE None]
    /\ tasks = {} /\ born = FALSE
    /\ lagged = FALSE /\ unseen = TRUE
    /\ seen_blocks = {} /\ first_negative = 0
    /\ block_cache = [h \in Heights |-> None]
    /\ elders_cache = [b \in Block |-> None]
    /\ elders_negative_cache = {}
    /\ crossed = {}
    /\ asked \in Asked
    /\ request = [r \in Request |-> Idle]

(***************************************************************************)
(* The kernel.                                                             *)
(***************************************************************************)
Heavier(b) == HeightOf[b] > HeightOf[heaviest_block]

Seen(b, h) == [type |-> "seen", block |-> b, height |-> h]
Gossip(b, why) == [type |-> "gossip", block |-> b, height |-> why]

\* The effects of a block: it is gossiped if it is heavier.
Effects(b, why) == {Seen(b, HeightOf[b])} \union IF Heavier(b) THEN {Gossip(b, why)} ELSE {}

\* Some of the effects reach the driver; it has lagged behind the broadcast of
\* the others, which are lost.
Emit(b, why) ==
    \E delivered \in SUBSET Effects(b, why) :
        /\ tasks' = tasks \union delivered
        /\ lagged' = IF Gossip(b, why) \in delivered THEN FALSE
                     ELSE lagged \/ (Heavier(b) /\ why = "heaviest")
        /\ unseen' = IF Seen(b, HeightOf[b]) \in delivered THEN unseen /\ ~Heavier(b)
                     ELSE unseen \/ (Heavier(b) /\ why = "heaviest")

\* do-born tells the driver of the heaviest block, one height too high.
DoBorn ==
    /\ ~born
    /\ born' = TRUE
    /\ \E delivered \in SUBSET {Seen(heaviest_block, HeightOf[heaviest_block] + 1)} :
          /\ tasks' = tasks \union delivered
          /\ unseen' = (delivered = {})
    /\ UNCHANGED <<kernel, lagged, seen_blocks, first_negative, caches, asked, request>>

\* accept-block, with garbage-collect and update of the derived state.
AcceptBlock(b) ==
    /\ blocks' = blocks \union {b}
    /\ Emit(b, "heaviest")
    /\ IF Heavier(b)
       THEN /\ heaviest_block' = b
            /\ heaviest_chain' = [h \in Heights |->
                 IF h <= HeightOf[b] THEN AncestorAt(b, h) ELSE heaviest_chain[h]]
            /\ pending_blocks' = [p \in Block |->
                 IF p = b \/ (pending_blocks[p] # None /\ pending_blocks[p] + Retain <= HeightOf[b])
                 THEN None ELSE pending_blocks[p]]
       ELSE /\ pending_blocks' = [pending_blocks EXCEPT ![b] = None]
            /\ UNCHANGED <<heaviest_block, heaviest_chain>>

\* A block is sent, and given to the kernel if the driver has not seen it;
\* handle-fact ignores it in the init phase.
HeardBlock(b) ==
    /\ born
    /\ b \notin seen_blocks
    /\ HeightOf[b] > 0 /\ ParentOf[b] \in blocks
    /\ IF b \in blocks \/ pending_blocks[b] # None
       THEN /\ \E delivered \in SUBSET {Seen(b, None)} : tasks' = tasks \union delivered
            /\ UNCHANGED <<kernel, lagged, unseen>>
       ELSE IF b \in Lacking
       THEN /\ pending_blocks' = [pending_blocks EXCEPT ![b] = HeightOf[heaviest_block]]
            /\ Emit(b, "pending")
            /\ UNCHANGED <<blocks, heaviest_block, heaviest_chain>>
       ELSE AcceptBlock(b)
    /\ UNCHANGED <<born, seen_blocks, first_negative, caches, asked, request>>

\* heard-tx: the last transaction a pending block lacks.
HeardTx(b) ==
    /\ pending_blocks[b] # None
    /\ AcceptBlock(b)
    /\ UNCHANGED <<born, seen_blocks, first_negative, caches, asked, request>>

\* The peek of a height (%heavy-n) or of a block's elders: get-elders, which
\* gives the heaviest chain up to the block's height.
Peek(key) ==
    IF key \in Heights THEN heaviest_chain[key]
    ELSE IF key \notin blocks THEN None
    ELSE LET top == IF Heavier(key) THEN HeightOf[heaviest_block] ELSE HeightOf[key]
         IN  [h \in {i \in Heights : i <= top} |-> heaviest_chain[h]]

(***************************************************************************)
(* The tasks of handle_effect.                                             *)
(***************************************************************************)
\* Mutant: a block at the first negative height does not move it.
TaskSeenStrict(t) ==
    /\ t.type = "seen"
    /\ tasks' = tasks \ {t}
    /\ seen_blocks' = seen_blocks \union {t.block}
    /\ first_negative' = IF t.height = None \/ first_negative >= t.height
                         THEN first_negative ELSE t.height + 1
    /\ UNCHANGED <<kernel, born, lagged, unseen, caches, asked, request>>

\* [%seen %block id height]
TaskSeen(t) ==
    /\ t.type = "seen"
    /\ tasks' = tasks \ {t}
    /\ seen_blocks' = seen_blocks \union {t.block}
    /\ first_negative' = IF t.height = None \/ first_negative > t.height
                         THEN first_negative ELSE t.height + 1
    /\ UNCHANGED <<kernel, born, lagged, unseen, caches, asked, request>>

\* Mutant: what is known not to be there is kept.
TaskGossipKeepsNegative(t) ==
    /\ t.type = "gossip"
    /\ tasks' = tasks \ {t}
    /\ block_cache' = [h \in Heights |-> None]
    /\ elders_cache' = [b \in Block |-> None]
    /\ crossed' = {}
    /\ request' = [r \in Request |-> [request[r] EXCEPT !.old = @ \/ request[r].at = "insert"]]
    /\ UNCHANGED <<kernel, born, lagged, unseen, seen_blocks, first_negative, elders_negative_cache, asked>>

\* [%gossip %heard-block page]: the caches are cleared, the gossip is sent.
TaskGossip(t) ==
    /\ t.type = "gossip"
    /\ tasks' = tasks \ {t}
    /\ block_cache' = [h \in Heights |-> None]
    /\ elders_cache' = [b \in Block |-> None]
    /\ elders_negative_cache' = {}
    /\ crossed' = {}
    /\ request' = [r \in Request |-> [request[r] EXCEPT !.old = @ \/ request[r].at = "insert"]]
    /\ UNCHANGED <<kernel, born, lagged, unseen, seen_blocks, first_negative, asked>>

(***************************************************************************)
(* The handler of a request.                                               *)
(***************************************************************************)
\* check_cache: answered from the cache, or to be peeked.
CheckCache(r) == LET key == asked IN
    /\ request[r].at = "idle"
    /\ IF key \in Heights
       THEN key < first_negative /\ block_cache[key] = None
       ELSE elders_cache[key] = None /\ key \notin elders_negative_cache
    /\ request' = [request EXCEPT ![r] = [Idle EXCEPT !.at = "peek", !.key = key]]
    /\ UNCHANGED <<kernel, tasks, born, lagged, unseen, seen_blocks, first_negative, caches, asked>>

\* traffic.peek: there is no block at the height, or there is an answer.
HandlePeek(r) ==
    LET answer == Peek(request[r].key)
    IN  /\ request[r].at = "peek"
        /\ request' = [request EXCEPT ![r] =
             IF answer = None /\ request[r].key \in Heights THEN Idle
             ELSE [@ EXCEPT !.at = "insert", !.answer = answer]]
        /\ UNCHANGED <<kernel, tasks, born, lagged, unseen, seen_blocks, first_negative, caches, asked>>

\* The answer is cached and sent.
Insert(r) ==
    LET key == request[r].key
        answer == request[r].answer
    IN  /\ request[r].at = "insert"
        /\ block_cache' = IF key \in Heights THEN [block_cache EXCEPT ![key] = answer] ELSE block_cache
        /\ elders_cache' = IF key \in Block /\ answer # None
                           THEN [elders_cache EXCEPT ![key] = answer] ELSE elders_cache
        /\ elders_negative_cache' = IF key \in Block /\ answer = None
                                    THEN elders_negative_cache \union {key} ELSE elders_negative_cache
        /\ crossed' = IF request[r].old THEN crossed \union {key} ELSE crossed
        /\ request' = [request EXCEPT ![r] = Idle]
        /\ UNCHANGED <<kernel, tasks, born, lagged, unseen, seen_blocks, first_negative, asked>>

Next ==
    \/ DoBorn
    \/ \E b \in Block : HeardBlock(b) \/ HeardTx(b)
    \/ \E t \in tasks : TaskSeen(t) \/ TaskGossip(t)
    \/ \E r \in Request : HandlePeek(r) \/ Insert(r) \/ CheckCache(r)

\* Every task that was spawned runs.
Fairness == WF_vars(\E t \in tasks : TaskSeen(t) \/ TaskGossip(t))

Spec == Init /\ [][Next]_vars /\ Fairness

(***************************************************************************)
(* Properties.                                                             *)
(***************************************************************************)
ClearIsPending == \E t \in tasks : t.type = "gossip"

\* A peer is never answered from a cache with what is no longer so, or told
\* that a block of the heaviest chain is unknown, but while the clearing of
\* the caches is pending, or lost with the effects the driver lagged behind,
\* or overtaken by the handler of a request that had peeked before it.
CachedIsCurrent ==
    \/ lagged \/ ClearIsPending
    \/ /\ \A h \in Heights \ crossed : block_cache[h] \in {None, Peek(h)}
       /\ \A b \in Block \ crossed :
             /\ elders_cache[b] \in {None, Peek(b)}
             /\ b \in elders_negative_cache => \A h \in Heights : heaviest_chain[h] # b

\* Whatever the order in which %seen effects are handled, and whichever of
\* them are lost, the driver soon answers for every height of the heaviest
\* chain, unless no %seen for its last height was sent or reached the driver.
EveryHeightIsServed ==
    []<>(unseen \/ \A h \in Heights : heaviest_chain[h] # None => first_negative > h)

(***************************************************************************)
(* The invariant that makes CachedIsCurrent inductive.                     *)
(***************************************************************************)
\* What a peek answers: a block, none, or a chain up to some height.
Answer == Block \union {None} \union UNION {[S -> Block \union {None}] : S \in SUBSET Heights}

TypeOK ==
    /\ blocks \subseteq Block
    /\ pending_blocks \in [Block -> Nat \union {None}]
    /\ heaviest_block \in Block
    /\ heaviest_chain \in [Heights -> Block \union {None}]
    /\ lagged \in BOOLEAN
    /\ asked \in Heights \union Block
    /\ block_cache \in [Heights -> Answer]
    /\ elders_cache \in [Block -> Answer]
    /\ request \in [Request -> [at : {"idle", "peek", "insert"}, key : Heights \union Block \union {None},
                                answer : Answer, old : BOOLEAN]]
    /\ \A r \in Request : request[r].at # "idle" => request[r].key # None

\* The blocks have their parents with them, those that are pending too, and the
\* heaviest chain is made of them.
ChainInv ==
    /\ \A b \in blocks : HeightOf[b] > 0 => ParentOf[b] \in blocks
    /\ \A b \in Block : pending_blocks[b] # None /\ HeightOf[b] > 0 => ParentOf[b] \in blocks
    /\ \A h \in Heights : heaviest_chain[h] \in blocks \union {None}

\* The answer is what the kernel would say, or that a block is unknown which
\* is not of the heaviest chain.
IsCurrent(key, answer) ==
    \/ answer = Peek(key) /\ (key \in Heights \/ answer # None)
    \/ answer = None /\ key \in Block /\ \A h \in Heights : heaviest_chain[h] # key

\* What is about to be cached is current, unless it is known not to be.
AnswerInv ==
    \/ lagged \/ ClearIsPending
    \/ \A r \in Request : request[r].at = "insert" /\ ~request[r].old =>
          IsCurrent(request[r].key, request[r].answer)

IInv == TypeOK /\ ChainInv /\ AnswerInv /\ CachedIsCurrent
=============================================================================
