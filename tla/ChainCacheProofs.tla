--------------------------- MODULE ChainCacheProofs ---------------------------
(***************************************************************************)
(* What the driver has cached is what the kernel would answer, for any     *)
(* blocks, heights and requests: CachedIsCurrent is an invariant.          *)
(***************************************************************************)
EXTENDS ChainCache, TLAPS, WellFoundedInduction

(***************************************************************************)
(* The ancestors of a block.                                               *)
(***************************************************************************)
\* A set of naturals that is not empty has a least member.
LEMMA LeastNatural ==
    ASSUME NEW T \in SUBSET Nat, T # {}
    PROVE  \E n \in T : \A m \in T : n <= m
<1> DEFINE R == {ss \in Nat \X Nat : ss[1] < ss[2]}
<1>1. IsWellFoundedOn(R, Nat)
  BY NatLessThanWellFounded, Zenon DEF OpToRel
<1>2. PICK n \in T : \A m \in T : <<m, n>> \notin R
  BY <1>1, WFMin, Zenon
<1>3. \A m \in T : ~(m < n)
  BY <1>2, Zenon
<1> QED
  BY <1>3

\* The walk of the derived state goes from a block to its parents.
LEMMA AncestorsClosed ==
    ASSUME NEW b \in Block
    PROVE  /\ b \in Ancestors(b)
           /\ \A x \in Ancestors(b) : HeightOf[x] > 0 => ParentOf[x] \in Ancestors(b)
<1>1. b \in Ancestors(b)
  BY Zenon DEF Ancestors
<1>2. ASSUME NEW x \in Ancestors(b), HeightOf[x] > 0 PROVE ParentOf[x] \in Ancestors(b)
  <2>1. x \in Block /\ ParentOf[x] \in Block
    BY <1>2, BlockAssumption, Zenon DEF Ancestors
  <2>2. ASSUME NEW S \in SUBSET Block, b \in S, \A y \in S : HeightOf[y] > 0 => ParentOf[y] \in S
        PROVE  ParentOf[x] \in S
    BY <1>2, <2>2, Zenon DEF Ancestors
  <2> QED
    BY <2>1, <2>2, Zenon DEF Ancestors
<1> QED
  BY <1>1, <1>2, Zenon

\* It stays in any set of blocks that have their parents with them.
LEMMA AncestorsIn ==
    ASSUME NEW S \in SUBSET Block, NEW b \in S, \A x \in S : HeightOf[x] > 0 => ParentOf[x] \in S
    PROVE  Ancestors(b) \subseteq S
BY Zenon DEF Ancestors

\* It meets every height that is not above the block.
LEMMA AncestorAtHeight ==
    ASSUME NEW b \in Block, NEW h \in Nat, h <= HeightOf[b]
    PROVE  AncestorAt(b, h) \in Ancestors(b) /\ HeightOf[AncestorAt(b, h)] = h
<1> DEFINE T == {n \in Nat : h <= n /\ \E a \in Ancestors(b) : HeightOf[a] = n}
<1>1. HeightOf[b] \in T
  BY AncestorsClosed, BlockAssumption, Zenon
<1>2. PICK n \in T : \A m \in T : n <= m
  BY <1>1, LeastNatural, Zenon
<1>3. PICK a \in Ancestors(b) : HeightOf[a] = n
  BY <1>2, Zenon
<1>4. n = h
  <2> SUFFICES ASSUME n > h PROVE FALSE
    BY <1>2
  <2>1. a \in Block /\ HeightOf[a] > 0
    BY <1>2, <1>3 DEF Ancestors
  <2>2. ParentOf[a] \in Block /\ HeightOf[a] = HeightOf[ParentOf[a]] + 1 /\ HeightOf[ParentOf[a]] \in Nat
    BY <2>1, BlockAssumption, Zenon
  <2>3. ParentOf[a] \in Ancestors(b)
    BY <1>3, <2>1, AncestorsClosed, Zenon
  <2>4. HeightOf[ParentOf[a]] \in T /\ HeightOf[ParentOf[a]] < n
    BY <1>2, <1>3, <2>2, <2>3
  <2> QED
    BY <1>2, <2>2, <2>4
<1>5. \E x \in Ancestors(b) : HeightOf[x] = h
  BY <1>3, <1>4, Zenon
<1> QED
  BY <1>5, Zenon DEF AncestorAt

\* The heaviest chain a block makes.
LEMMA ChainOfBlock ==
    ASSUME NEW S \in SUBSET Block, NEW b \in S, \A x \in S : HeightOf[x] > 0 => ParentOf[x] \in S
    PROVE  \A h \in Heights : h <= HeightOf[b] => AncestorAt(b, h) \in S
<1>1. Ancestors(b) \subseteq S
  BY AncestorsIn, Zenon
<1>2. Heights \subseteq Nat
  BY BlockAssumption, Zenon DEF Heights
<1> QED
  BY <1>1, <1>2, AncestorAtHeight, Zenon

(***************************************************************************)
(* Staleness.                                                              *)
(***************************************************************************)
\* It is known that the caches may be out of date.
Stale == lagged \/ ClearIsPending

\* Effects are told apart by their types.
LEMMA TaskTypes ==
    ASSUME NEW b, NEW x
    PROVE  Seen(b, x).type = "seen" /\ Gossip(b, x).type = "gossip"
BY Zenon DEF Seen, Gossip

\* The effects of a block, lost or not: a new heaviest one makes the caches
\* stale, and no effect makes them other than stale.
LEMMA EmitStale ==
    ASSUME lagged \in BOOLEAN, NEW b, NEW why, Emit(b, why)
    PROVE  /\ lagged' \in BOOLEAN
           /\ Stale => Stale'
           /\ Heavier(b) /\ why = "heaviest" => Stale'
<1>1. Gossip(b, why).type = "gossip"
  BY TaskTypes, Zenon
<1>2. PICK delivered \in SUBSET Effects(b, why) :
        /\ tasks' = tasks \union delivered
        /\ lagged' = IF Gossip(b, why) \in delivered THEN FALSE
                     ELSE lagged \/ (Heavier(b) /\ why = "heaviest")
  BY Zenon DEF Emit
<1>3. lagged' \in BOOLEAN
  BY <1>2, Zenon
<1>4. CASE Gossip(b, why) \in delivered
  <2>1. Stale'
    BY <1>1, <1>2, <1>4, Zenon DEF Stale, ClearIsPending
  <2> QED
    BY <1>3, <2>1, Zenon
<1>5. CASE Gossip(b, why) \notin delivered
  <2>1. tasks \subseteq tasks' /\ (lagged' <=> lagged \/ (Heavier(b) /\ why = "heaviest"))
    BY <1>2, <1>5, Zenon
  <2> QED
    BY <1>3, <2>1, Zenon DEF Stale, ClearIsPending
<1> QED
  BY <1>4, <1>5, Zenon

\* A step of the kernel that leaves the heaviest chain alone changes no answer
\* but that an unknown block may become known.
LEMMA SamePeek ==
    ASSUME TypeOK, NEW key \in Heights \union Block,
           heaviest_block' = heaviest_block, heaviest_chain' = heaviest_chain, blocks \subseteq blocks'
    PROVE  /\ key \in Heights => Peek(key)' = Peek(key)
           /\ Peek(key) # None => Peek(key)' = Peek(key)
<1>1. CASE key \in Heights
  BY <1>1, Zenon DEF Peek
<1>2. CASE key \notin Heights
  <2>1. CASE key \in blocks
    <3>1. key \in blocks' /\ (Heavier(key)' <=> Heavier(key))
      BY <2>1, Zenon DEF Heavier
    <3> QED
      BY <1>2, <2>1, <3>1, Zenon DEF Peek
  <2>2. CASE key \notin blocks
    BY <1>2, <2>2, Zenon DEF Peek
  <2> QED
    BY <2>1, <2>2, Zenon
<1> QED
  BY <1>1, <1>2, Zenon

\* A step of the kernel and the broadcast: the driver's state is as it was.
LEMMA KernelStep ==
    ASSUME TypeOK, AnswerInv, CachedIsCurrent, UNCHANGED <<caches, request>>,
           \/ Stale'
           \/ /\ ~Stale
              /\ heaviest_block' = heaviest_block /\ heaviest_chain' = heaviest_chain
              /\ blocks \subseteq blocks'
    PROVE  AnswerInv' /\ CachedIsCurrent'
<1>1. CASE Stale'
  BY <1>1, Zenon DEF Stale, AnswerInv, CachedIsCurrent
<1>2. CASE /\ ~Stale
           /\ heaviest_block' = heaviest_block /\ heaviest_chain' = heaviest_chain
           /\ blocks \subseteq blocks'
  <2>0. UNCHANGED <<block_cache, elders_cache, elders_negative_cache, crossed, request>>
    BY Zenon DEF caches
  <2>1. ASSUME NEW key \in Heights \union Block, NEW answer, IsCurrent(key, answer)
        PROVE  IsCurrent(key, answer)'
    <3>1. /\ key \in Heights => Peek(key)' = Peek(key)
          /\ Peek(key) # None => Peek(key)' = Peek(key)
      BY <1>2, SamePeek, Zenon
    <3> QED
      BY <1>2, <2>1, <3>1, Zenon DEF IsCurrent
  <2>2. AnswerInv'
    <3>1. ASSUME NEW r \in Request, request'[r].at = "insert", ~request'[r].old
          PROVE  IsCurrent(request[r].key, request[r].answer)'
      <4>1. IsCurrent(request[r].key, request[r].answer)
        BY <1>2, <2>0, <3>1, Zenon DEF AnswerInv, Stale
      <4>2. request[r].key \in Heights \union Block
        BY <2>0, <3>1, Zenon DEF TypeOK
      <4>3. request'[r].key = request[r].key /\ request'[r].answer = request[r].answer
        BY <2>0, Zenon
      <4> QED
        BY <2>1, <4>1, <4>2, <4>3, Zenon
    <3> QED
      BY <2>0, <3>1, Zenon DEF AnswerInv
  <2>3. CachedIsCurrent'
    <3>1. \A h \in Heights \ crossed : block_cache[h] \in {None, Peek(h)'}
      BY <1>2, SamePeek, Zenon DEF CachedIsCurrent, Stale
    <3>2. \A b \in Block \ crossed : elders_cache[b] \in {None, Peek(b)'}
      BY <1>2, SamePeek, Zenon DEF CachedIsCurrent, Stale
    <3>3. \A b \in Block \ crossed : b \in elders_negative_cache => \A h \in Heights : heaviest_chain'[h] # b
      BY <1>2, Zenon DEF CachedIsCurrent, Stale
    <3> QED
      BY <2>0, <3>1, <3>2, <3>3, Zenon DEF CachedIsCurrent
  <2> QED
    BY <2>2, <2>3, Zenon
<1> QED
  BY <1>1, <1>2, Zenon

(***************************************************************************)
(* The kernel.                                                             *)
(***************************************************************************)
\* %born changes nothing the caches are about.
LEMMA BornStep == ASSUME IInv, DoBorn PROVE IInv'
<1>1. /\ UNCHANGED <<blocks, pending_blocks, heaviest_block, heaviest_chain, lagged, asked>>
      /\ UNCHANGED <<block_cache, elders_cache, elders_negative_cache, crossed, request>>
      /\ tasks \subseteq tasks'
  BY Zenon DEF DoBorn, kernel, caches
<1>2. Stale => Stale'
  BY <1>1, Zenon DEF Stale, ClearIsPending
<1>3. TypeOK' /\ ChainInv'
  BY <1>1, Zenon DEF IInv, TypeOK, ChainInv
<1>4. AnswerInv' /\ CachedIsCurrent'
  <2>1. \/ Stale'
        \/ /\ ~Stale
           /\ heaviest_block' = heaviest_block /\ heaviest_chain' = heaviest_chain
           /\ blocks \subseteq blocks'
    BY <1>1, <1>2, Zenon
  <2> QED
    BY <1>1, <2>1, KernelStep, Zenon DEF IInv, caches
<1> QED
  BY <1>3, <1>4, Zenon DEF IInv

\* accept-block: the block's parent is there, so the new heaviest chain is made
\* of blocks that are; and the effects say that it is new.
LEMMA AcceptStep ==
    ASSUME IInv, NEW b \in Block, AcceptBlock(b), HeightOf[b] > 0 => ParentOf[b] \in blocks,
           UNCHANGED <<caches, asked, request>>
    PROVE  IInv'
<1>0. /\ UNCHANGED <<block_cache, elders_cache, elders_negative_cache, crossed, asked, request>>
      /\ blocks' = blocks \union {b} /\ Emit(b, "heaviest")
      /\ TypeOK /\ ChainInv
  BY Zenon DEF AcceptBlock, caches, IInv
<1>1. lagged' \in BOOLEAN /\ (Stale => Stale') /\ (Heavier(b) => Stale')
  BY <1>0, EmitStale, Zenon DEF TypeOK
<1>2. blocks' \subseteq Block /\ \A x \in blocks' : HeightOf[x] > 0 => ParentOf[x] \in blocks'
  BY <1>0, Zenon DEF TypeOK, ChainInv
<1>3. /\ heaviest_block' \in Block
      /\ heaviest_chain' \in [Heights -> Block \union {None}]
      /\ \A h \in Heights : heaviest_chain'[h] \in blocks' \union {None}
  <2>1. CASE Heavier(b)
    <3>1. /\ heaviest_block' = b
          /\ heaviest_chain' = [h \in Heights |->
               IF h <= HeightOf[b] THEN AncestorAt(b, h) ELSE heaviest_chain[h]]
      BY <2>1, Zenon DEF AcceptBlock
    <3>2. \A h \in Heights : h <= HeightOf[b] => AncestorAt(b, h) \in blocks'
      BY <1>0, <1>2, ChainOfBlock, Zenon
    <3>3. \A h \in Heights : heaviest_chain'[h] \in blocks' \union {None}
      BY <1>0, <3>1, <3>2, Zenon DEF ChainInv
    <3> QED
      BY <1>2, <3>1, <3>3, Zenon
  <2>2. CASE ~Heavier(b)
    BY <1>0, <2>2, Zenon DEF AcceptBlock, TypeOK, ChainInv
  <2> QED
    BY <2>1, <2>2, Zenon
<1>4. /\ pending_blocks' \in [Block -> Nat \union {None}]
      /\ \A p \in Block : pending_blocks'[p] # None => pending_blocks[p] # None
  <2>1. CASE Heavier(b)
    <3>1. pending_blocks' = [p \in Block |->
             IF p = b \/ (pending_blocks[p] # None /\ pending_blocks[p] + Retain <= HeightOf[b])
             THEN None ELSE pending_blocks[p]]
      BY <2>1, Zenon DEF AcceptBlock
    <3>2. \A p \in Block : pending_blocks'[p] \in {None, pending_blocks[p]}
      BY <3>1, Zenon
    <3> QED
      BY <1>0, <3>1, <3>2, Zenon DEF TypeOK
  <2>2. CASE ~Heavier(b)
    <3>1. pending_blocks' = [pending_blocks EXCEPT ![b] = None]
      BY <2>2, Zenon DEF AcceptBlock
    <3> QED
      BY <1>0, <3>1, Zenon DEF TypeOK
  <2> QED
    BY <2>1, <2>2, Zenon
<1>5. TypeOK'
  BY <1>0, <1>1, <1>2, <1>3, <1>4, Zenon DEF TypeOK
<1>6. ChainInv'
  BY <1>0, <1>2, <1>3, <1>4, Zenon DEF ChainInv
<1>7. AnswerInv' /\ CachedIsCurrent'
  <2>1. \/ Stale'
        \/ /\ ~Stale
           /\ heaviest_block' = heaviest_block /\ heaviest_chain' = heaviest_chain
           /\ blocks \subseteq blocks'
    <3>1. CASE Heavier(b)
      BY <1>1, <3>1, Zenon
    <3>2. CASE ~Heavier(b)
      <4>1. heaviest_block' = heaviest_block /\ heaviest_chain' = heaviest_chain
        BY <3>2, Zenon DEF AcceptBlock
      <4> QED
        BY <1>0, <1>1, <4>1, Zenon
    <3> QED
      BY <3>1, <3>2, Zenon
  <2> QED
    BY <1>0, <2>1, KernelStep, Zenon DEF IInv, caches
<1> QED
  BY <1>5, <1>6, <1>7, Zenon DEF IInv

\* heard-block and heard-tx.
LEMMA HeardStep ==
    ASSUME IInv, NEW b \in Block, HeardBlock(b) \/ HeardTx(b)
    PROVE  IInv'
<1>0. UNCHANGED <<caches, asked, request>>
  BY Zenon DEF HeardBlock, HeardTx
<1>1. CASE HeardTx(b)
  <2>1. AcceptBlock(b) /\ (HeightOf[b] > 0 => ParentOf[b] \in blocks)
    BY <1>1, Zenon DEF HeardTx, IInv, ChainInv
  <2> QED
    BY <1>0, <2>1, AcceptStep, Zenon
<1>2. CASE HeardBlock(b)
  <2>0. HeightOf[b] > 0 /\ ParentOf[b] \in blocks
    BY <1>2, Zenon DEF HeardBlock
  <2>1. CASE b \in blocks \/ pending_blocks[b] # None
    <3>1. UNCHANGED <<blocks, pending_blocks, heaviest_block, heaviest_chain, lagged>> /\ tasks \subseteq tasks'
      BY <1>2, <2>1, Zenon DEF HeardBlock, kernel
    <3>2. Stale => Stale'
      BY <3>1, Zenon DEF Stale, ClearIsPending
    <3>3. TypeOK' /\ ChainInv'
      BY <1>0, <3>1, Zenon DEF IInv, TypeOK, ChainInv, caches
    <3>4. AnswerInv' /\ CachedIsCurrent'
      <4>1. \/ Stale'
            \/ /\ ~Stale
               /\ heaviest_block' = heaviest_block /\ heaviest_chain' = heaviest_chain
               /\ blocks \subseteq blocks'
        BY <3>1, <3>2, Zenon
      <4> QED
        BY <1>0, <4>1, KernelStep, Zenon DEF IInv
    <3> QED
      BY <3>3, <3>4, Zenon DEF IInv
  <2>2. CASE ~(b \in blocks \/ pending_blocks[b] # None) /\ b \in Lacking
    <3>1. /\ pending_blocks' = [pending_blocks EXCEPT ![b] = HeightOf[heaviest_block]]
          /\ Emit(b, "pending")
          /\ UNCHANGED <<blocks, heaviest_block, heaviest_chain>>
      BY <1>2, <2>2, Zenon DEF HeardBlock
    <3>2. lagged' \in BOOLEAN /\ (Stale => Stale')
      BY <3>1, EmitStale, Zenon DEF IInv, TypeOK
    <3>3. TypeOK'
      <4>1. HeightOf[heaviest_block] \in Nat
        BY BlockAssumption, Zenon DEF IInv, TypeOK
      <4>2. pending_blocks' \in [Block -> Nat \union {None}]
        BY <3>1, <4>1, Zenon DEF IInv, TypeOK
      <4> QED
        BY <1>0, <3>1, <3>2, <4>2, Zenon DEF IInv, TypeOK, caches
    <3>4. ChainInv'
      BY <2>0, <3>1, Zenon DEF IInv, TypeOK, ChainInv
    <3>5. AnswerInv' /\ CachedIsCurrent'
      <4>1. \/ Stale'
            \/ /\ ~Stale
               /\ heaviest_block' = heaviest_block /\ heaviest_chain' = heaviest_chain
               /\ blocks \subseteq blocks'
        BY <3>1, <3>2, Zenon
      <4> QED
        BY <1>0, <4>1, KernelStep, Zenon DEF IInv
    <3> QED
      BY <3>3, <3>4, <3>5, Zenon DEF IInv
  <2>3. CASE ~(b \in blocks \/ pending_blocks[b] # None) /\ b \notin Lacking
    <3>1. AcceptBlock(b)
      BY <1>2, <2>3, Zenon DEF HeardBlock
    <3> QED
      BY <1>0, <2>0, <3>1, AcceptStep, Zenon
  <2> QED
    BY <2>1, <2>2, <2>3, Zenon
<1> QED
  BY <1>1, <1>2, Zenon

(***************************************************************************)
(* The tasks and the handlers of requests.                                 *)
(***************************************************************************)
\* The kernel's side of the invariant, in a step of the driver.
LEMMA SameKernel ==
    ASSUME IInv, UNCHANGED kernel, UNCHANGED lagged, asked' = asked
    PROVE  /\ ChainInv'
           /\ blocks' \subseteq Block /\ pending_blocks' \in [Block -> Nat \union {None}]
           /\ heaviest_block' \in Block /\ heaviest_chain' \in [Heights -> Block \union {None}]
           /\ lagged' \in BOOLEAN /\ asked' \in Heights \union Block
           /\ \A key : Peek(key)' = Peek(key)
<1>1. UNCHANGED <<blocks, pending_blocks, heaviest_block, heaviest_chain>>
  BY Zenon DEF kernel
<1>2. \A key : Peek(key)' = Peek(key)
  BY <1>1, Zenon DEF Peek, Heavier
<1>3. ChainInv'
  BY <1>1, Zenon DEF IInv, ChainInv
<1> QED
  BY <1>1, <1>2, <1>3, Zenon DEF IInv, TypeOK

\* [%seen %block]: the caches are not touched.
LEMMA SeenStep == ASSUME IInv, NEW t \in tasks, TaskSeen(t) PROVE IInv'
<1>1. /\ UNCHANGED kernel /\ UNCHANGED <<lagged, caches, asked, request>>
      /\ t.type = "seen" /\ tasks' = tasks \ {t}
  BY Zenon DEF TaskSeen
<1>2. UNCHANGED <<block_cache, elders_cache, elders_negative_cache, crossed, request>>
  BY <1>1, Zenon DEF caches
<1>3. Stale => Stale'
  <2>1. \A x \in tasks : x.type = "gossip" => x \in tasks'
    BY <1>1, Zenon
  <2> QED
    BY <1>1, <2>1, Zenon DEF Stale, ClearIsPending
<1>4. ChainInv' /\ TypeOK'
  BY <1>1, <1>2, SameKernel, Zenon DEF IInv, TypeOK
<1>5. AnswerInv' /\ CachedIsCurrent'
  <2>1. \/ Stale'
        \/ /\ ~Stale
           /\ heaviest_block' = heaviest_block /\ heaviest_chain' = heaviest_chain
           /\ blocks \subseteq blocks'
    BY <1>1, <1>3, Zenon DEF kernel
  <2> QED
    BY <1>1, <2>1, KernelStep, Zenon DEF IInv
<1> QED
  BY <1>4, <1>5, Zenon DEF IInv

\* [%gossip %heard-block]: after the clear nothing is cached, and whoever
\* peeked before it is known to have.
LEMMA GossipStep == ASSUME IInv, NEW t \in tasks, TaskGossip(t) PROVE IInv'
<1>1. /\ UNCHANGED kernel /\ UNCHANGED <<lagged, asked>>
      /\ block_cache' = [h \in Heights |-> None] /\ elders_cache' = [b \in Block |-> None]
      /\ elders_negative_cache' = {}
      /\ request' = [r \in Request |-> [request[r] EXCEPT !.old = @ \/ request[r].at = "insert"]]
  BY Zenon DEF TaskGossip
<1>2. \A r \in Request :
         /\ request'[r] \in [at : {"idle", "peek", "insert"}, key : Heights \union Block \union {None},
                             answer : Answer, old : BOOLEAN]
         /\ request'[r].at = request[r].at /\ request'[r].key = request[r].key
         /\ request'[r].at = "insert" => request'[r].old
  BY <1>1 DEF IInv, TypeOK
<1>3. TypeOK'
  <2>1. request' \in [Request -> [at : {"idle", "peek", "insert"}, key : Heights \union Block \union {None},
                                  answer : Answer, old : BOOLEAN]]
    BY <1>1, <1>2, Zenon
  <2>2. block_cache' \in [Heights -> Answer] /\ elders_cache' \in [Block -> Answer]
    BY <1>1, Zenon DEF Answer
  <2>3. \A r \in Request : request'[r].at # "idle" => request'[r].key # None
    BY <1>2, Zenon DEF IInv, TypeOK
  <2> QED
    BY <1>1, <2>1, <2>2, <2>3, SameKernel, Zenon DEF TypeOK
<1>4. AnswerInv'
  BY <1>2, Zenon DEF AnswerInv
<1>5. CachedIsCurrent'
  BY <1>1, Zenon DEF CachedIsCurrent
<1> QED
  BY <1>1, <1>3, <1>4, <1>5, SameKernel, Zenon DEF IInv

\* A handler's record.
Handler == [at : {"idle", "peek", "insert"}, key : Heights \union Block \union {None},
            answer : Answer, old : BOOLEAN]

\* A peek answers with a block, with a chain or with nothing; and what it says
\* is current, a height with no block apart.
LEMMA PeekAnswers ==
    ASSUME IInv, NEW key \in Heights \union Block
    PROVE  Peek(key) \in Answer /\ (Peek(key) # None \/ key \in Block => IsCurrent(key, Peek(key)))
<1>1. CASE key \in Heights
  BY <1>1, AskedAssumption, Zenon DEF Peek, Answer, IsCurrent, IInv, TypeOK
<1>2. CASE key \notin Heights /\ key \notin blocks
  <2>1. Peek(key) = None /\ key \in Block
    BY <1>2, Zenon DEF Peek
  <2>2. \A h \in Heights : heaviest_chain[h] # key
    BY <1>2, <2>1, NoneAssumption, Zenon DEF IInv, ChainInv
  <2> QED
    BY <2>1, <2>2, Zenon DEF Answer, IsCurrent
<1>3. CASE key \notin Heights /\ key \in blocks
  <2> DEFINE top == IF Heavier(key) THEN HeightOf[heaviest_block] ELSE HeightOf[key]
             S == {i \in Heights : i <= top}
  <2>1. Peek(key) = [h \in S |-> heaviest_chain[h]]
    BY <1>3, Zenon DEF Peek
  <2>2. S \in SUBSET Heights
    BY Zenon
  <2> HIDE DEF S
  <2>3. Peek(key) \in [S -> Block \union {None}]
    BY <2>1, <2>2, Zenon DEF IInv, TypeOK
  <2>4. Peek(key) # None
    BY <2>2, <2>3, NoneAssumption, Zenon
  <2>5. Peek(key) \in Answer
    BY <2>2, <2>3, Zenon DEF Answer
  <2> QED
    BY <2>4, <2>5, Zenon DEF IsCurrent
<1> QED
  BY <1>1, <1>2, <1>3, Zenon

\* What a handler's step leaves as it was.
LEMMA HandlerStep ==
    ASSUME IInv, UNCHANGED <<kernel, tasks, lagged, caches, asked>>,
           NEW r \in Request, NEW x \in Handler, request' = [request EXCEPT ![r] = x],
           x.at # "idle" => x.key # None,
           x.at = "insert" => IsCurrent(x.key, x.answer)
    PROVE  IInv'
<1>0. UNCHANGED kernel /\ UNCHANGED <<tasks, lagged, asked>>
      /\ UNCHANGED <<block_cache, elders_cache, elders_negative_cache, crossed>>
  BY Zenon DEF caches
<1>1. ClearIsPending' <=> ClearIsPending
  BY <1>0, Zenon DEF ClearIsPending
<1>2. /\ \A key : Peek(key)' = Peek(key)
      /\ UNCHANGED heaviest_chain
      /\ \A key, answer : IsCurrent(key, answer) => IsCurrent(key, answer)'
  <2>1. \A key : Peek(key)' = Peek(key)
    BY <1>0, SameKernel, Zenon
  <2>2. UNCHANGED heaviest_chain
    BY <1>0, Zenon DEF kernel
  <2> QED
    BY <2>1, <2>2, Zenon DEF IsCurrent
<1>3. \A q \in Request : request'[q] = IF q = r THEN x ELSE request[q]
  BY Zenon DEF IInv, TypeOK
<1>4. TypeOK'
  <2>1. request' \in [Request -> Handler]
    BY Zenon DEF IInv, TypeOK, Handler
  <2>2. \A q \in Request : request'[q].at # "idle" => request'[q].key # None
    BY <1>3, Zenon DEF IInv, TypeOK
  <2> QED
    BY <1>0, <2>1, <2>2, SameKernel, Zenon DEF IInv, TypeOK, Handler
<1>5. AnswerInv'
  <2> SUFFICES ASSUME ~(lagged \/ ClearIsPending), NEW q \in Request,
                      request'[q].at = "insert", ~request'[q].old
               PROVE  IsCurrent(request[q].key, request[q].answer)'
    BY <1>0, <1>1 DEF AnswerInv
  <2>1. CASE q = r
    <3>1. request'[q].key = x.key /\ request'[q].answer = x.answer /\ IsCurrent(x.key, x.answer)
      BY <1>3, <2>1, Zenon
    <3> QED
      BY <1>2, <3>1, Zenon
  <2>2. CASE q # r
    <3>1. request'[q] = request[q]
      BY <1>3, <2>2, Zenon
    <3>2. IsCurrent(request[q].key, request[q].answer)
      BY <3>1, Zenon DEF IInv, AnswerInv
    <3> QED
      BY <1>2, <3>1, <3>2, Zenon
  <2> QED
    BY <2>1, <2>2, Zenon
<1>6. CachedIsCurrent'
  BY <1>0, <1>1, <1>2 DEF IInv, CachedIsCurrent
<1> QED
  BY <1>0, <1>4, <1>5, <1>6, SameKernel, Zenon DEF IInv

\* A request the cache does not answer, and the peek for it.
LEMMA LookStep ==
    ASSUME IInv, NEW r \in Request, CheckCache(r) \/ HandlePeek(r)
    PROVE  IInv'
<1>0. UNCHANGED <<kernel, tasks, lagged, caches, asked>>
  BY Zenon DEF CheckCache, HandlePeek
<1>1. Idle \in Handler /\ Idle.at = "idle"
  BY Zenon DEF Idle, Handler, Answer
<1>2. CASE CheckCache(r)
  <2> DEFINE x == [Idle EXCEPT !.at = "peek", !.key = asked]
  <2>1. request' = [request EXCEPT ![r] = x]
    BY <1>2, Zenon DEF CheckCache
  <2>2. asked \in Heights \union Block /\ asked # None
    BY NoneAssumption, Zenon DEF IInv, TypeOK
  <2>3. x \in Handler /\ x.at = "peek" /\ x.key = asked
    BY <2>2, Zenon DEF Idle, Handler, Answer
  <2> HIDE DEF x
  <2> QED
    BY <1>0, <2>1, <2>2, <2>3, HandlerStep, Zenon
<1>3. CASE HandlePeek(r)
  <2> DEFINE key == request[r].key
             answer == Peek(key)
             x == [request[r] EXCEPT !.at = "insert", !.answer = answer]
  <2>1. /\ request[r].at = "peek"
        /\ request' = [request EXCEPT ![r] = IF answer = None /\ key \in Heights THEN Idle ELSE x]
    BY <1>3, Zenon DEF HandlePeek
  <2>2. key \in Heights \union Block /\ key # None
    BY <2>1, Zenon DEF IInv, TypeOK
  <2>3. answer \in Answer /\ (answer # None \/ key \in Block => IsCurrent(key, answer))
    BY <2>2, PeekAnswers, Zenon
  <2>4. x \in Handler /\ x.at = "insert" /\ x.key = key /\ x.answer = answer
    BY <2>3, Zenon DEF IInv, TypeOK, Handler
  <2> HIDE DEF x, key, answer
  <2>5. CASE answer = None /\ key \in Heights
    BY <1>0, <1>1, <2>1, <2>5, HandlerStep, Zenon
  <2>6. CASE ~(answer = None /\ key \in Heights)
    <3>1. IsCurrent(key, answer)
      BY <2>2, <2>3, <2>6, Zenon
    <3>2. request' = [request EXCEPT ![r] = x]
      BY <2>1, <2>6, Zenon
    <3> QED
      BY <1>0, <2>2, <2>4, <3>1, <3>2, HandlerStep, Zenon
  <2> QED
    BY <2>5, <2>6, Zenon
<1> QED
  BY <1>2, <1>3, Zenon

\* The answer is cached: it is current, or the key is known to be crossed.
LEMMA InsertStep == ASSUME IInv, NEW r \in Request, Insert(r) PROVE IInv'
<1> DEFINE key == request[r].key
           answer == request[r].answer
<1>0. /\ request[r].at = "insert"
      /\ UNCHANGED kernel /\ UNCHANGED <<tasks, lagged, asked>>
      /\ block_cache' = IF key \in Heights THEN [block_cache EXCEPT ![key] = answer] ELSE block_cache
      /\ elders_cache' = IF key \in Block /\ answer # None
                         THEN [elders_cache EXCEPT ![key] = answer] ELSE elders_cache
      /\ elders_negative_cache' = IF key \in Block /\ answer = None
                                  THEN elders_negative_cache \union {key} ELSE elders_negative_cache
      /\ crossed' = IF request[r].old THEN crossed \union {key} ELSE crossed
      /\ request' = [request EXCEPT ![r] = Idle]
  BY Zenon DEF Insert
<1>1. answer \in Answer /\ key \in Heights \union Block
  BY <1>0, Zenon DEF IInv, TypeOK
<1>2. ClearIsPending' <=> ClearIsPending
  BY <1>0, Zenon DEF ClearIsPending
<1>3. Idle \in Handler /\ Idle.at = "idle"
  BY Zenon DEF Idle, Handler, Answer
<1>4. \A q \in Request : request'[q] = IF q = r THEN Idle ELSE request[q]
  BY <1>0, Zenon DEF IInv, TypeOK
<1>5. /\ \A k : Peek(k)' = Peek(k)
      /\ UNCHANGED heaviest_chain
      /\ \A k, a : IsCurrent(k, a) => IsCurrent(k, a)'
  <2>1. \A k : Peek(k)' = Peek(k)
    BY <1>0, SameKernel, Zenon
  <2>2. UNCHANGED heaviest_chain
    BY <1>0, Zenon DEF kernel
  <2> QED
    BY <2>1, <2>2, Zenon DEF IsCurrent
<1>6. lagged \/ ClearIsPending \/ request[r].old \/ IsCurrent(key, answer)
  BY <1>0, Zenon DEF IInv, AnswerInv
<1> HIDE DEF key, answer
<1>7. TypeOK'
  <2>1. request' \in [Request -> Handler]
    BY <1>0, <1>3, Zenon DEF IInv, TypeOK, Handler
  <2>2. \A q \in Request : request'[q].at # "idle" => request'[q].key # None
    BY <1>3, <1>4, Zenon DEF IInv, TypeOK
  <2>3. block_cache' \in [Heights -> Answer]
    BY <1>0, <1>1, Zenon DEF IInv, TypeOK
  <2>4. elders_cache' \in [Block -> Answer]
    BY <1>0, <1>1, Zenon DEF IInv, TypeOK
  <2> QED
    BY <1>0, <2>1, <2>2, <2>3, <2>4, SameKernel, Zenon DEF TypeOK, Handler
<1>8. AnswerInv'
  <2> SUFFICES ASSUME ~(lagged \/ ClearIsPending), NEW q \in Request,
                      request'[q].at = "insert", ~request'[q].old
               PROVE  IsCurrent(request[q].key, request[q].answer)'
    BY <1>0, <1>2, Zenon DEF AnswerInv
  <2>1. request'[q] = request[q]
    BY <1>3, <1>4, Zenon
  <2>2. IsCurrent(request[q].key, request[q].answer)
    BY <2>1, Zenon DEF IInv, AnswerInv
  <2> QED
    BY <1>5, <2>1, <2>2, Zenon
<1>9. CachedIsCurrent'
  <2> SUFFICES ASSUME ~(lagged \/ ClearIsPending)
               PROVE  /\ \A h \in Heights \ crossed' : block_cache'[h] \in {None, Peek(h)}
                      /\ \A b \in Block \ crossed' :
                            /\ elders_cache'[b] \in {None, Peek(b)}
                            /\ b \in elders_negative_cache' => \A h \in Heights : heaviest_chain[h] # b
    BY <1>0, <1>2, <1>5, Zenon DEF CachedIsCurrent
  <2>1. /\ \A h \in Heights \ crossed : block_cache[h] \in {None, Peek(h)}
        /\ \A b \in Block \ crossed :
              /\ elders_cache[b] \in {None, Peek(b)}
              /\ b \in elders_negative_cache => \A h \in Heights : heaviest_chain[h] # b
    BY Zenon DEF IInv, CachedIsCurrent
  <2>2. key \notin crossed' => IsCurrent(key, answer)
    BY <1>0, <1>6, Zenon
  <2>3. crossed \subseteq crossed'
    BY <1>0, Zenon
  <2>4. ASSUME NEW h \in Heights \ crossed' PROVE block_cache'[h] \in {None, Peek(h)}
    <3>1. CASE h = key
      <4>1. block_cache'[h] = answer
        BY <1>0, <3>1, Zenon DEF IInv, TypeOK
      <4>2. answer \in {None, Peek(key)}
        BY <2>2, <3>1, Zenon DEF IsCurrent
      <4> QED
        BY <3>1, <4>1, <4>2, Zenon
    <3>2. CASE h # key
      <4>1. block_cache'[h] = block_cache[h]
        BY <1>0, <3>2, Zenon DEF IInv, TypeOK
      <4> QED
        BY <2>1, <2>3, <4>1, Zenon
    <3> QED
      BY <3>1, <3>2, Zenon
  <2>5. ASSUME NEW b \in Block \ crossed' PROVE elders_cache'[b] \in {None, Peek(b)}
    <3>1. CASE b = key /\ answer # None
      <4>1. elders_cache'[b] = answer
        BY <1>0, <3>1, Zenon DEF IInv, TypeOK
      <4>2. answer = Peek(key)
        BY <2>2, <3>1, Zenon DEF IsCurrent
      <4> QED
        BY <3>1, <4>1, <4>2, Zenon
    <3>2. CASE ~(b = key /\ answer # None)
      <4>1. elders_cache'[b] = elders_cache[b]
        BY <1>0, <3>2, Zenon DEF IInv, TypeOK
      <4> QED
        BY <2>1, <2>3, <4>1, Zenon
    <3> QED
      BY <3>1, <3>2, Zenon
  <2>6. ASSUME NEW b \in Block \ crossed', b \in elders_negative_cache', NEW h \in Heights
        PROVE  heaviest_chain[h] # b
    <3>1. CASE b = key /\ answer = None
      <4>1. key \notin Heights
        BY <3>1, AskedAssumption, Zenon
      <4> QED
        BY <2>2, <3>1, <4>1, Zenon DEF IsCurrent
    <3>2. CASE ~(b = key /\ answer = None)
      BY <1>0, <2>1, <2>3, <2>6, <3>2, Zenon
    <3> QED
      BY <3>1, <3>2, Zenon
  <2> QED
    BY <2>4, <2>5, <2>6, Zenon
<1> QED
  BY <1>0, <1>7, <1>8, <1>9, SameKernel, Zenon DEF IInv

(***************************************************************************)
(* The invariant.                                                          *)
(***************************************************************************)
\* The kernel boots with a block and its ancestors; nothing is cached.
LEMMA InitCaches == Init => IInv
<1> SUFFICES ASSUME Init PROVE IInv
  BY Zenon
<1>1. /\ blocks = Ancestors(Boot) /\ blocks \subseteq Block /\ Boot \in blocks
      /\ \A x \in blocks : HeightOf[x] > 0 => ParentOf[x] \in blocks
  <2>1. Ancestors(Boot) \subseteq Block
    BY Zenon DEF Ancestors
  <2> QED
    BY <2>1, BlockAssumption, AncestorsClosed, Zenon DEF Init
<1>2. \A h \in Heights : heaviest_chain[h] \in blocks \union {None}
  BY <1>1, ChainOfBlock, Zenon DEF Init
<1>3. ChainInv
  BY <1>1, <1>2, Zenon DEF Init, ChainInv
<1>4. TypeOK
  <2>1. heaviest_chain \in [Heights -> Block \union {None}]
    BY <1>1, <1>2, Zenon DEF Init
  <2>2. request \in [Request -> Handler] /\ \A r \in Request : request[r].at = "idle"
    BY Zenon DEF Init, Idle, Handler, Answer
  <2>3. block_cache \in [Heights -> Answer] /\ elders_cache \in [Block -> Answer]
    BY Zenon DEF Init, Answer
  <2>4. /\ pending_blocks \in [Block -> Nat \union {None}] /\ heaviest_block \in Block
        /\ lagged \in BOOLEAN /\ asked \in Heights \union Block
    BY BlockAssumption, AskedAssumption, Zenon DEF Init
  <2> QED
    BY <1>1, <2>1, <2>2, <2>3, <2>4, Zenon DEF TypeOK, Handler
<1>5. AnswerInv
  BY Zenon DEF Init, AnswerInv, Idle
<1>6. CachedIsCurrent
  BY Zenon DEF Init, CachedIsCurrent
<1> QED
  BY <1>3, <1>4, <1>5, <1>6, Zenon DEF IInv

\* Every step of the kernel, the tasks and the handlers keeps it.
LEMMA NextCaches == IInv /\ [Next]_vars => IInv'
<1> SUFFICES ASSUME IInv, [Next]_vars PROVE IInv'
  BY Zenon
<1>1. CASE UNCHANGED vars
  <2>1. UNCHANGED <<kernel, tasks, lagged, caches, asked, request>>
    BY <1>1, Zenon DEF vars
  <2>2. UNCHANGED <<block_cache, elders_cache, elders_negative_cache, crossed, request>>
    BY <2>1, Zenon DEF caches
  <2>3. TypeOK' /\ ChainInv'
    BY <2>1, <2>2, SameKernel, Zenon DEF IInv, TypeOK
  <2>4. Stale => Stale'
    BY <2>1, Zenon DEF Stale, ClearIsPending
  <2>5. \/ Stale'
        \/ /\ ~Stale
           /\ heaviest_block' = heaviest_block /\ heaviest_chain' = heaviest_chain
           /\ blocks \subseteq blocks'
    BY <2>1, <2>4, Zenon DEF kernel
  <2>6. AnswerInv' /\ CachedIsCurrent'
    BY <2>1, <2>5, KernelStep, Zenon DEF IInv
  <2> QED
    BY <2>3, <2>6, Zenon DEF IInv
<1> QED
  BY <1>1, BornStep, HeardStep, SeenStep, GossipStep, LookStep, InsertStep, Zenon DEF Next

\* The inductive invariant of the driver's caches: types, a heaviest chain of
\* blocks that are there, and current answers on their way to the caches.
THEOREM ChainCacheInvariant == Spec => []IInv
BY InitCaches, NextCaches, PTL DEF Spec

\* What handle_request_response caches is never answered once it is no longer
\* so, but while the clear of handle_effect's %gossip is pending, lost or
\* overtaken: for any chain of blocks and any number of requests.
THEOREM CachedIsCurrentTheorem == Spec => []CachedIsCurrent
<1>1. IInv => CachedIsCurrent
  BY Zenon DEF IInv
<1> QED
  BY <1>1, ChainCacheInvariant, PTL
=============================================================================
