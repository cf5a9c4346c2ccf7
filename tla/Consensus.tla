----------------------------- MODULE Consensus -----------------------------
(***************************************************************************)
(* The dumbnet kernel's store of blocks and transactions: +heard-block,    *)
(* +heard-tx and what they call in hoon/apps/dumbnet/inner.hoon, with the  *)
(* consensus, derived and mining state of lib/consensus.hoon,              *)
(* lib/derived.hoon and lib/miner.hoon.                                    *)
(*                                                                         *)
(* Blocks and transactions are known by their hash, so what one contains   *)
(* is a constant: a block's parent, height, accumulated work and           *)
(* transactions, the notes in the balance after it, and whether it passes  *)
(* validate-page-with-txs.  Block holds the blocks that pass the checks    *)
(* made without transactions; others leave the state as it is.             *)
(*                                                                         *)
(* A poke is one step, but for the blocks that a transaction makes ready:  *)
(* they are processed one by one, in the order of a set of hashes, before  *)
(* the next poke.  A poke that crashes leaves the state it found.          *)
(***************************************************************************)
EXTENDS Integers

CONSTANTS
    Block, Tx, Note,
    Genesis,     \* the blocks that pass check-genesis
    Parent, Height, Work, TxIds, Balance, \* functions on Block
    Ancestors,   \* Ancestors[b][h]: the ancestor of b at height h
    ValidBlock,  \* blocks that pass validate-page-with-txs
    Inputs,      \* the notes a transaction spends
    ValidTx,     \* transactions that pass validate:raw-tx
    Retain,      \* retain.a.k, or None
    None

ASSUME BlockAssumption ==
    /\ Parent \in [Block -> Block]
    /\ Height \in [Block -> Nat]
    /\ Work \in [Block -> Nat]
    /\ TxIds \in [Block -> SUBSET Tx]
    /\ Balance \in [Block -> SUBSET Note]
    /\ ValidBlock \subseteq Block
    /\ Genesis \subseteq ValidBlock
ASSUME ChainAssumption ==
    /\ \A b \in Genesis : Height[b] = 0 /\ TxIds[b] = {}
    /\ \A b, c \in Genesis : Work[b] = Work[c]
    /\ \A b \in Block \ Genesis :
          /\ Height[b] = Height[Parent[b]] + 1
          /\ Work[b] > Work[Parent[b]]
ASSUME AncestorsAssumption ==
    \A b \in Block :
        /\ Ancestors[b] \in [0..Height[b] -> Block]
        /\ Ancestors[b][Height[b]] = b
        /\ \A g \in 1..Height[b] : Ancestors[b][g - 1] = Parent[Ancestors[b][g]]
        /\ \A g \in 0..Height[b] :
              /\ Height[Ancestors[b][g]] = g
              /\ \A h \in 0..g : Ancestors[Ancestors[b][g]][h] = Ancestors[b][h]
ASSUME TargetAssumption ==   \* children of a block have the same target
    \A b, c \in Block \ Genesis : Parent[b] = Parent[c] => Work[b] = Work[c]
ASSUME TxAssumption ==
    /\ Inputs \in [Tx -> SUBSET Note]
    /\ ValidTx \subseteq Tx
ASSUME RetainAssumption == Retain \in Nat \union {None}
ASSUME NoneAssumption == None \notin Block \union Nat

Heights == {Height[b] : b \in Block}

VARIABLES
    k,       \* the kernel state
    work,    \* the ready blocks the current poke has still to process
    saved,   \* the state that poke found
    crashed  \* did the last poke crash?

vars == <<k, work, saved, crashed>>

State ==
    [blocks_needed_by : [Tx -> SUBSET Block],
     excluded_txs : SUBSET Tx,
     spent_by : [Note -> SUBSET Tx],
     pending_blocks : [Block -> Nat \union {None}],   \* heard-at
     raw_txs : [Tx -> Nat \union {None}],             \* heard-at
     blocks : SUBSET Block,
     heaviest_block : Block \union {None},
     heaviest_chain : [Heights -> Block \union {None}],
     highest_block_height : Nat \union {None},
     mining_keys : BOOLEAN,                           \* are shares set?
     candidate_parent : Block \union {None},
     candidate_txs : SUBSET Tx]

Init ==
    /\ k = [blocks_needed_by |-> [t \in Tx |-> {}],
            excluded_txs |-> {},
            spent_by |-> [n \in Note |-> {}],
            pending_blocks |-> [b \in Block |-> None],
            raw_txs |-> [t \in Tx |-> None],
            blocks |-> {},
            heaviest_block |-> None,
            heaviest_chain |-> [h \in Heights |-> None],
            highest_block_height |-> None,
            mining_keys |-> FALSE,
            candidate_parent |-> None,
            candidate_txs |-> {}]
    /\ work = {}
    /\ saved = k
    /\ crashed = FALSE

-----------------------------------------------------------------------------
(* lib/consensus.hoon.  Each arm takes the state c and produces a state.   *)

Pending(c) == {b \in Block : c.pending_blocks[b] # None}
RawTxs(c) == {t \in Tx : c.raw_txs[t] # None}
Complete(c, b) == TxIds[b] \subseteq RawTxs(c)
CheckDuplicateBlock(c, b) == b \in c.blocks \union Pending(c)

GetCurHeight(c) ==
    IF c.heaviest_block = None THEN 0 ELSE Height[c.heaviest_block]
InputsInHeaviestBalance(c, t) ==
    Inputs[t] \subseteq IF c.heaviest_block = None
                        THEN {} ELSE Balance[c.heaviest_block]
InputsSpent(c, t) == \E n \in Inputs[t] : c.spent_by[n] # {}
NeededByBlock(c, t) == c.blocks_needed_by[t] # {}

NeedTxsOf(c, b) ==
    [c EXCEPT !.blocks_needed_by =
                  [t \in Tx |-> @[t] \union {x \in {b} : t \in TxIds[b]}],
              !.excluded_txs = @ \ TxIds[b]]

AddPendingBlock(c, b) ==
    [NeedTxsOf(c, b) EXCEPT !.pending_blocks[b] = GetCurHeight(c)]

AcceptPage(c, b) ==
    IF b \in Pending(c)
    THEN [c EXCEPT !.pending_blocks[b] = None, !.blocks = @ \union {b}]
    ELSE [NeedTxsOf(c, b) EXCEPT !.blocks = @ \union {b}]

RejectPendingBlocksForgetsTxs(c, bs) ==   \* mutant: no tx becomes loose
    [c EXCEPT !.blocks_needed_by =
                  [t \in Tx |-> @[t] \ {b \in bs : t \in TxIds[b]}],
              !.pending_blocks =
                  [b \in Block |-> IF b \in bs THEN None ELSE @[b]]]
\* reject-pending-block, for each of the blocks bs
RejectPendingBlocks(c, bs) ==
    LET needed == [t \in Tx |-> c.blocks_needed_by[t]
                                    \ {b \in bs : t \in TxIds[b]}]
        touched == UNION {TxIds[b] : b \in bs}
    IN  [c EXCEPT !.blocks_needed_by = needed,
                  !.excluded_txs = @ \union
                      {t \in touched \intersect RawTxs(c) : needed[t] = {}},
                  !.pending_blocks =
                      [b \in Block |-> IF b \in bs THEN None ELSE @[b]]]

AddRawTx(c, t) ==
    [c EXCEPT !.raw_txs[t] = GetCurHeight(c),
              !.spent_by = [n \in Note |->
                               @[n] \union {x \in {t} : n \in Inputs[t]}],
              !.excluded_txs = @ \union {x \in {t} : ~NeededByBlock(c, t)}]

ReadyBlocksFirstOnly(c, t) ==   \* mutant: stops at the first ready block
    LET ready == {b \in c.blocks_needed_by[t] :
                     b \in Pending(c) /\ Complete(c, b)}
    IN  {b \in ready : b = CHOOSE x \in ready : TRUE}
\* the blocks add-raw-tx finds ready, once it has added t
ReadyBlocks(c, t) ==
    {b \in c.blocks_needed_by[t] : b \in Pending(c) /\ Complete(c, b)}

DropTxs(c, ts) ==
    [c EXCEPT !.raw_txs = [t \in Tx |-> IF t \in ts THEN None ELSE @[t]],
              !.excluded_txs = @ \ ts,
              !.spent_by = [n \in Note |-> @[n] \ {t \in ts : n \in Inputs[t]}]]

UpdateHeaviestLatest(c, b) ==   \* mutant: >= rather than >
    IF c.heaviest_block = None \/ Work[b] >= Work[c.heaviest_block]
    THEN [c EXCEPT !.heaviest_block = b] ELSE c
UpdateHeaviest(c, b) ==
    IF c.heaviest_block = None \/ Work[b] > Work[c.heaviest_block]
    THEN [c EXCEPT !.heaviest_block = b] ELSE c

Expired(c, heardAt) == Retain # None /\ heardAt + Retain <= GetCurHeight(c)
DropablePendingBlocksLate(c) ==   \* mutant: < rather than <=
    {b \in Pending(c) : Expired(c, c.pending_blocks[b] + 1)}
DropablePendingBlocksEarly(c) ==   \* mutant: one height too early
    {b \in Pending(c) : Retain # None /\ c.pending_blocks[b] + Retain <= GetCurHeight(c) + 1}
DropablePendingBlocks(c) ==
    {b \in Pending(c) : Expired(c, c.pending_blocks[b])}
DropableTxsOfBlocks(c) ==   \* mutant: not only excluded transactions
    {t \in RawTxs(c) : \/ ~InputsInHeaviestBalance(c, t)
                       \/ Expired(c, c.raw_txs[t])}
DropableTxs(c) ==
    {t \in c.excluded_txs : \/ ~InputsInHeaviestBalance(c, t)
                            \/ Expired(c, c.raw_txs[t])}

GarbageCollectTxsFirst(c) ==   \* mutant: swapped order
    LET d == DropTxs(c, DropableTxs(c))
    IN  RejectPendingBlocks(d, DropablePendingBlocks(d))
GarbageCollect(c) ==
    LET d == RejectPendingBlocks(c, DropablePendingBlocks(c))
    IN  DropTxs(d, DropableTxs(d))

-----------------------------------------------------------------------------
(* lib/derived.hoon and lib/miner.hoon *)

UpdateHighestShort(c, b) ==   \* mutant: off by one
    IF c.highest_block_height = None \/ Height[b] > c.highest_block_height
    THEN [c EXCEPT !.highest_block_height = Height[b] - 1] ELSE c
UpdateHighest(c, b) ==
    IF c.highest_block_height = None \/ Height[b] > c.highest_block_height
    THEN [c EXCEPT !.highest_block_height = Height[b]] ELSE c

UpdateDerivedTopOnly(c, b) ==   \* mutant: does not walk down
    [UpdateHighest(c, b) EXCEPT
        !.heaviest_chain[Height[c.heaviest_block]] = c.heaviest_block]
\* from the heaviest block down to the first height that is right already
UpdateDerived(c, b) ==
    LET top == Height[c.heaviest_block]
        line == Ancestors[c.heaviest_block]
        revised == {h \in 0..top :
                       \A g \in h..top : c.heaviest_chain[g] # line[g]}
    IN  [UpdateHighest(c, b) EXCEPT !.heaviest_chain =
            [h \in Heights |-> IF h \in revised THEN line[h] ELSE @[h]]]

\* Which transactions process:tx-acc takes, in what order, and whether they
\* fit is left open: any of the candidates may be added.
CandidateTxIds(c) ==
    (c.excluded_txs \union
        (RawTxs(c) \intersect UNION {TxIds[b] : b \in Pending(c)}))
    \ c.candidate_txs
AddTxsToCandidate(c) ==
    {[c EXCEPT !.candidate_txs = @ \union ts] : ts \in SUBSET CandidateTxIds(c)}

HeardNewBlockCarriesTxs(c) ==   \* mutant: keeps the old candidate's txs
    IF \/ c.heaviest_block \in {None, c.candidate_parent}
       \/ ~c.mining_keys
    THEN {c}
    ELSE AddTxsToCandidate([c EXCEPT !.candidate_parent = c.heaviest_block])
HeardNewBlock(c) ==
    IF \/ c.heaviest_block \in {None, c.candidate_parent}
       \/ ~c.mining_keys
    THEN {c}
    ELSE AddTxsToCandidate([c EXCEPT !.candidate_parent = c.heaviest_block,
                                     !.candidate_txs = {}])

\* the interval may or may not have passed since the last update
UpdateCandidateBlock(c) ==
    IF c.candidate_parent = None \/ ~c.mining_keys
    THEN {c} ELSE AddTxsToCandidate(c)

-----------------------------------------------------------------------------
(* inner.hoon *)

AcceptBlock(c, b) ==
    LET d == UpdateHeaviest(AcceptPage(c, b), b)
        e == IF d.heaviest_block # c.heaviest_block
             THEN GarbageCollect(d) ELSE d
    IN  {UpdateDerived(m, b) : m \in HeardNewBlock(e)}

\* The poke ends in state c, where update-candidate-block runs.
Done(c) ==
    /\ k' \in UpdateCandidateBlock(c)
    /\ work' = {}
    /\ saved' = k'
    /\ crashed' = FALSE

Crash ==
    /\ k' = saved
    /\ work' = {}
    /\ saved' = saved
    /\ crashed' = TRUE

Ready == work = {}   \* no poke is running

\* do-genesis (inner.hoon 1405), with which the first node of a chain makes the
\* genesis block to mine, is left out: every genesis block is heard.
HeardGenesisBlock(b) ==
    /\ Ready
    /\ \/ CheckDuplicateBlock(k, b) /\ Done(k)
       \/ /\ ~CheckDuplicateBlock(k, b)
          /\ \E c \in AcceptBlock(k, b) : Done(c)

\* no genesis yet, no parent, or a block we have
IgnoreBlock(b) ==
    /\ Ready
    /\ \/ k.heaviest_block = None
       \/ Parent[b] \notin k.blocks
       \/ CheckDuplicateBlock(k, b)
    /\ Done(k)

TakeBlock(b) ==
    /\ Ready
    /\ k.heaviest_block # None
    /\ Parent[b] \in k.blocks
    /\ ~CheckDuplicateBlock(k, b)

HeardBlockMissingTxs(b) ==
    /\ TakeBlock(b)
    /\ ~Complete(k, b)
    /\ Done(UpdateHighest(AddPendingBlock(k, b), b))

\* process-block-with-txs; a block that was never pending cannot be rejected
HeardCompleteBlock(b) ==
    /\ TakeBlock(b)
    /\ Complete(k, b)
    /\ \/ /\ b \in ValidBlock
          /\ \E c \in AcceptBlock(UpdateHighest(k, b), b) : Done(c)
       \/ b \notin ValidBlock /\ Crash

HeardKnownTx(t) ==
    /\ Ready
    /\ t \in RawTxs(k)
    /\ Done(k)

\* pending blocks wait for t
HeardNeededTx(t) ==
    /\ Ready
    /\ t \notin RawTxs(k)
    /\ NeededByBlock(k, t)
    /\ \/ /\ t \notin ValidTx
          /\ IF k.blocks_needed_by[t] \subseteq Pending(k)
             THEN Done(RejectPendingBlocks(k, k.blocks_needed_by[t]))
             ELSE Crash
       \/ /\ t \in ValidTx
          /\ LET c == AddRawTx(k, t)
             IN  IF ReadyBlocks(c, t) = {} THEN Done(c)
                 ELSE /\ k' = c
                      /\ work' = ReadyBlocks(c, t)
                      /\ saved' = k
                      /\ crashed' = FALSE

HeardLooseTx(t) ==
    /\ Ready
    /\ t \notin RawTxs(k)
    /\ ~NeededByBlock(k, t)
    /\ IF /\ InputsInHeaviestBalance(k, t)
          /\ ~InputsSpent(k, t)
          /\ t \in ValidTx
       THEN Done(AddRawTx(k, t))
       ELSE Done(k)

\* one block of process-ready-blocks
Continue(c, b) ==
    IF work = {b} THEN Done(c)
    ELSE /\ k' = c
         /\ work' = work \ {b}
         /\ UNCHANGED <<saved, crashed>>
ProcessReadyBlock(b) ==
    /\ b \in work
    /\ \/ b \notin Pending(k) /\ Crash
       \/ /\ b \in Pending(k) \intersect ValidBlock
          /\ \E c \in AcceptBlock(k, b) : Continue(c, b)
       \/ /\ b \in Pending(k) \ ValidBlock
          /\ Continue(RejectPendingBlocks(k, {b}), b)

\* do-set-mining-key
SetMiningKey ==
    /\ Ready
    /\ Done([k EXCEPT !.mining_keys = TRUE])

\* do-enable-mining, once there is a genesis block
EnableMining ==
    /\ Ready
    /\ k.heaviest_block # None
    /\ \E c \in HeardNewBlock(k) : Done(c)

Next ==
    \/ \E b \in Genesis : HeardGenesisBlock(b)
    \/ \E b \in Block \ Genesis :
          IgnoreBlock(b) \/ HeardBlockMissingTxs(b) \/ HeardCompleteBlock(b)
    \/ \E t \in Tx : HeardKnownTx(t) \/ HeardNeededTx(t) \/ HeardLooseTx(t)
    \/ \E b \in work : ProcessReadyBlock(b)
    \/ SetMiningKey
    \/ EnableMining

Spec == Init /\ [][Next]_vars
-----------------------------------------------------------------------------
(* Properties *)

\* Every part of the kernel state has its type.
TypeOK ==
    /\ k \in State
    /\ work \in SUBSET Block
    /\ saved \in State
    /\ crashed \in BOOLEAN

\* The three indexes of the transaction pool say what they are for.  The
\* comments of consensus-state (types.hoon 197-201) and +apt ask that a raw
\* transaction is in exactly one of blocks-needed-by and excluded-txs and
\* that spent-by and raw-txs agree; beyond that, blocks-needed-by names
\* exactly the accepted and pending blocks that hold the transaction.
NeededByExactly(c) ==
    \A t \in Tx : c.blocks_needed_by[t] =
                     {b \in c.blocks \union Pending(c) : t \in TxIds[b]}
ExcludedExactly(c) ==
    c.excluded_txs = {t \in RawTxs(c) : c.blocks_needed_by[t] = {}}
SpentByExactly(c) ==
    \A n \in Note : c.spent_by[n] = {t \in RawTxs(c) : n \in Inputs[t]}
IndexesAgree(c) == NeededByExactly(c) /\ ExcludedExactly(c) /\ SpentByExactly(c)
PoolIndexesAgree == IndexesAgree(k)

\* An accepted block keeps all its raw transactions, however the pool is
\* garbage-collected: they are regossiped and served to peers by crashing
\* lookups (got-raw-tx).  A block is accepted or pending, not both, and only
\* below an accepted parent.
BlocksAreWhole(c) ==
    /\ \A b \in c.blocks : Complete(c, b)
    /\ c.blocks \intersect Pending(c) = {}
    /\ Genesis \intersect Pending(c) = {}
    /\ \A b \in (c.blocks \union Pending(c)) \ Genesis : Parent[b] \in c.blocks
AcceptedBlocksAreWhole == BlocksAreWhole(k)

\* Between pokes, every pending block still misses a transaction: a complete
\* one would never be looked at again, as +heard-tx drops known transactions
\* and +heard-block duplicates.
NoneStuck(c) == \A b \in Pending(c) : ~Complete(c, b)
NoPendingBlockIsStuck == work = {} => NoneStuck(k)

\* With a retention limit, no pending block outlives it.
Fresh(c) == Retain # 0 =>
    \A b \in Pending(c) : ~Expired(c, c.pending_blocks[b])
PendingBlocksAreFresh == Fresh(k)

\* And none is dropped before the limit: a pending block is accepted, turns out
\* to be invalid or to hold an invalid transaction, or has been kept for as many
\* heights of the heaviest block as it should.
PendingBlocksAreKept ==
    [][\A b \in Pending(k) \ Pending(k') :
          \/ b \in k'.blocks
          \/ b \notin ValidBlock
          \/ ~(TxIds[b] \subseteq ValidTx)
          \/ Expired(k', k.pending_blocks[b])]_vars

\* The candidate block extends the heaviest block, and its transactions are
\* in the pool: +do-timer regossips them with a crashing lookup, and do-pow
\* hands the block to +heard-block as a complete one.
Minable(c) ==
    /\ c.candidate_parent # None =>
          c.mining_keys /\ c.candidate_parent = c.heaviest_block
    /\ c.candidate_txs \subseteq
          IF c.candidate_parent = None THEN {} ELSE RawTxs(c)
CandidateIsMinable == Minable(k)

\* heaviest-chain maps every height to the ancestor of the heaviest block
\* there, also after a reorganisation: +update:der stops revising at the
\* first height that is right.
HeaviestChainIsAccurate ==
    k.heaviest_block # None =>
        \A h \in 0..Height[k.heaviest_block] :
            k.heaviest_chain[h] = Ancestors[k.heaviest_block][h]

\* When the heaviest block changes, the loose transactions that remain can
\* be spent on top of it and are within the retention limit: the ones that
\* dropping a pending block has just made loose included.
PoolFollowsHeaviest ==
    [][k'.heaviest_block # k.heaviest_block /\ ~crashed' =>
          \A t \in k'.excluded_txs :
              /\ InputsInHeaviestBalance(k', t)
              /\ ~Expired(k', k'.raw_txs[t])]_vars

\* What pokes commit implements ForkChoice.
Fork == INSTANCE ForkChoice WITH blocks <- saved.blocks,
                                 heaviest <- saved.heaviest_block
ImplementsForkChoice == Fork!Spec

\* A block that fails validate-page-with-txs is thrown out and the poke
\* completes: "did not validate, so we throw the block out and stop tracking
\* it" (inner.hoon 1032).
InvalidBlocksAreThrownOut ==
    [][\A b \in Block \ Genesis :
          HeardCompleteBlock(b) => ~crashed']_vars

\* The blocks process-ready-blocks has still to process are pending: it skips
\* "the steps that we know its already done by the fact that it was in
\* pending-blocks" (inner.hoon 983) and looks them up there.
ReadyBlocksStayPending == work \subseteq Pending(k)
-----------------------------------------------------------------------------
(* The inductive invariant *)

Chosen(c) ==
    IF c.heaviest_block = None THEN c.blocks \union Pending(c) = {}
    ELSE /\ c.heaviest_block \in c.blocks
         /\ \A b \in c.blocks : Work[b] <= Work[c.heaviest_block]

Good(c) ==
    /\ IndexesAgree(c)
    /\ BlocksAreWhole(c)
    /\ Chosen(c)
    /\ Fresh(c)
    /\ Minable(c)

NoneStuckBut(c, bs) == \A b \in Pending(c) \ bs : ~Complete(c, b)

\* c came from s by accepting valid blocks
GrownFrom(s, c) ==
    /\ s.blocks \subseteq c.blocks
    /\ c.blocks \ s.blocks \subseteq ValidBlock
    /\ s.heaviest_block # None =>
          /\ c.heaviest_block # None
          /\ \/ c.heaviest_block = s.heaviest_block
             \/ Work[c.heaviest_block] > Work[s.heaviest_block]

IInv ==
    /\ TypeOK
    /\ Good(k) /\ NoneStuckBut(k, work)
    /\ \A b \in work \intersect Pending(k) : Complete(k, b)
    /\ Good(saved) /\ NoneStuckBut(saved, {})
    /\ GrownFrom(saved, k)
    /\ work = {} => saved = k

\* Within an epoch's target, more work means more blocks.
EvenWork == \A b, c \in Block : Work[b] > Work[c] => Height[b] > Height[c]

\* With even work, heaviest-chain holds the heaviest block's ancestors and
\* nothing else.
ChainExact(c) ==
    \A h \in Heights :
        c.heaviest_chain[h] =
            IF c.heaviest_block # None /\ h <= Height[c.heaviest_block]
            THEN Ancestors[c.heaviest_block][h] ELSE None

=============================================================================
