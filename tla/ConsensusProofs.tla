-------------------------- MODULE ConsensusProofs ---------------------------
(***************************************************************************)
(* The inductive invariant of Consensus and what follows from it.  A poke  *)
(* is one or several arms of the kernel, so the proof that it preserves    *)
(* the invariant puts the lemmas about the arms together.  These come      *)
(* first: what each of the functions on states of Consensus does to the    *)
(* parts of the invariant Good, for every block tree, set of transactions  *)
(* and retention limit.  Two properties need more than the invariant and   *)
(* come last: the chain derived from the heaviest block, and the pool      *)
(* after that block changes.                                               *)
(***************************************************************************)
EXTENDS Consensus, TLAPS

USE BlockAssumption, NoneAssumption, RetainAssumption, TxAssumption

-----------------------------------------------------------------------------
(* Arms *)

\* The parts of the invariant that say nothing of the heaviest block.
Pool(c) == IndexesAgree(c) /\ BlocksAreWhole(c)

\* add-pending-block keeps the invariant: the block is known to every
\* transaction it holds, and is within the retention limit.
LEMMA AddPendingBlockGood ==
    ASSUME NEW c \in State, Good(c),
           NEW b \in Block \ Genesis,
           c.heaviest_block # None, Parent[b] \in c.blocks,
           ~CheckDuplicateBlock(c, b), ~Complete(c, b),
           NEW bs \in SUBSET Block, NoneStuckBut(c, bs)
    PROVE  LET d == AddPendingBlock(c, b)
           IN  d \in State /\ Good(d) /\ NoneStuckBut(d, bs) /\ GrownFrom(c, d)
<1> DEFINE d == AddPendingBlock(c, b)
<1>h. c.heaviest_block \in Block /\ GetCurHeight(c) \in Nat
  BY Zenon DEF State, GetCurHeight
<1>1. /\ d \in State
      /\ d.blocks_needed_by =
            [t \in Tx |-> c.blocks_needed_by[t] \union {x \in {b} : t \in TxIds[b]}]
      /\ d.excluded_txs = c.excluded_txs \ TxIds[b]
      /\ d.spent_by = c.spent_by
      /\ d.pending_blocks = [c.pending_blocks EXCEPT ![b] = GetCurHeight(c)]
      /\ d.raw_txs = c.raw_txs
      /\ d.blocks = c.blocks
      /\ d.heaviest_block = c.heaviest_block
      /\ d.mining_keys = c.mining_keys
      /\ d.candidate_parent = c.candidate_parent
      /\ d.candidate_txs = c.candidate_txs
  BY <1>h, ZenonT(30) DEF AddPendingBlock, NeedTxsOf, State
<1> HIDE DEF d
<1>2. Pending(d) = Pending(c) \union {b} /\ RawTxs(d) = RawTxs(c)
  BY <1>1, <1>h DEF Pending, RawTxs, State
<1>3. IndexesAgree(d)
  <2>1. NeededByExactly(d)
    BY <1>1, <1>2 DEF Good, IndexesAgree, NeededByExactly, State
  <2>2. ExcludedExactly(d)
    <3>1. \A t \in Tx : d.blocks_needed_by[t] = {} <=>
                           c.blocks_needed_by[t] = {} /\ t \notin TxIds[b]
      BY <1>1
    <3>2. c.excluded_txs = {t \in RawTxs(c) : c.blocks_needed_by[t] = {}}
      BY Zenon DEF Good, IndexesAgree, ExcludedExactly
    <3> QED BY <1>1, <1>2, <3>1, <3>2, Zenon DEF ExcludedExactly, RawTxs
  <2>3. SpentByExactly(d)
    BY <1>1, <1>2 DEF Good, IndexesAgree, SpentByExactly
  <2> QED BY <2>1, <2>2, <2>3, Zenon DEF IndexesAgree
<1>4. BlocksAreWhole(d)
  BY <1>1, <1>2 DEF Good, BlocksAreWhole, Complete, CheckDuplicateBlock
<1>5. Chosen(d)
  BY <1>1, <1>2, Zenon DEF Good, Chosen
<1>6. Fresh(d)
  <2> SUFFICES ASSUME Retain # 0, NEW x \in Pending(d)
               PROVE  ~Expired(d, d.pending_blocks[x])
    BY Zenon DEF Fresh
  <2>1. GetCurHeight(d) = GetCurHeight(c)
    BY <1>1, Zenon DEF GetCurHeight
  <2>2. CASE x = b
    BY <1>1, <1>h, <2>1, <2>2 DEF Expired, State
  <2>3. CASE x # b
    <3>1. x \in Pending(c) /\ d.pending_blocks[x] = c.pending_blocks[x]
      BY <1>1, <1>2, <2>3 DEF Pending, State
    <3> QED BY <3>1, <2>1, Zenon DEF Good, Fresh, Expired
  <2> QED BY <2>2, <2>3, Zenon
<1>7. Minable(d)
  BY <1>1, <1>2, Zenon DEF Good, Minable
<1>8. NoneStuckBut(d, bs)
  BY <1>2, Zenon DEF NoneStuckBut, Complete
<1>9. GrownFrom(c, d)
  BY <1>1, Zenon DEF GrownFrom
<1> QED BY <1>1, <1>3, <1>4, <1>5, <1>6, <1>7, <1>8, <1>9, Zenon DEF Good, d

\* reject-pending-block keeps the invariant, whichever pending blocks are
\* rejected: a transaction that no other block holds becomes loose.
LEMMA RejectPendingBlocksPool ==
    ASSUME NEW c \in State, Pool(c), NEW rs \in SUBSET Pending(c)
    PROVE  LET d == RejectPendingBlocks(c, rs)
           IN  /\ d \in State
               /\ Pool(d)
               /\ Pending(d) = Pending(c) \ rs
               /\ \A b \in Pending(d) : d.pending_blocks[b] = c.pending_blocks[b]
               /\ RawTxs(d) = RawTxs(c)
               /\ \A f \in {"raw_txs", "blocks", "heaviest_block",
                            "heaviest_chain", "highest_block_height",
                            "mining_keys", "candidate_parent",
                            "candidate_txs"} : d[f] = c[f]
<1> DEFINE d == RejectPendingBlocks(c, rs)
           needed == [t \in Tx |-> c.blocks_needed_by[t]
                                       \ {b \in rs : t \in TxIds[b]}]
           touched == UNION {TxIds[b] : b \in rs}
<1>0. rs \subseteq Block /\ touched \subseteq Tx
  BY DEF Pending
<1>1. /\ d \in State
      /\ d.blocks_needed_by = needed
      /\ d.excluded_txs = c.excluded_txs \union
            {t \in touched \intersect RawTxs(c) : needed[t] = {}}
      /\ d.spent_by = c.spent_by
      /\ d.pending_blocks =
            [b \in Block |-> IF b \in rs THEN None ELSE c.pending_blocks[b]]
      /\ d.raw_txs = c.raw_txs
      /\ d.blocks = c.blocks
      /\ d.heaviest_block = c.heaviest_block
      /\ d.heaviest_chain = c.heaviest_chain
      /\ d.highest_block_height = c.highest_block_height
      /\ d.mining_keys = c.mining_keys
      /\ d.candidate_parent = c.candidate_parent
      /\ d.candidate_txs = c.candidate_txs
  BY <1>0, Zenon DEF RejectPendingBlocks, State
<1>n. \A t \in Tx : needed[t] = c.blocks_needed_by[t]
                                   \ {b \in rs : t \in TxIds[b]}
  BY Zenon
<1>t. \A t \in Tx : t \in touched <=> \E b \in rs : t \in TxIds[b]
  OBVIOUS
<1> HIDE DEF d, needed, touched
<1>2. Pending(d) = Pending(c) \ rs /\ RawTxs(d) = RawTxs(c)
  <2>1. RawTxs(d) = RawTxs(c)
    BY <1>1, Zenon DEF RawTxs
  <2>2. \A b \in Block : d.pending_blocks[b] =
                            IF b \in rs THEN None ELSE c.pending_blocks[b]
    BY <1>1, Zenon
  <2> QED BY <2>1, <2>2, Zenon DEF Pending
<1>3. \A b \in Pending(d) : d.pending_blocks[b] = c.pending_blocks[b]
  BY <1>1, <1>2, Zenon DEF Pending
<1>4. NeededByExactly(d)
  <2>1. \A t \in Tx : c.blocks_needed_by[t] =
                         {b \in c.blocks \union Pending(c) : t \in TxIds[b]}
    BY Zenon DEF Pool, IndexesAgree, NeededByExactly
  <2>2. c.blocks \intersect Pending(c) = {}
    BY Zenon DEF Pool, BlocksAreWhole
  <2> QED BY <1>1, <1>2, <1>n, <2>1, <2>2 DEF NeededByExactly
<1>5. ExcludedExactly(d)
  <2>1. \A t \in Tx : needed[t] = {} =>
                         c.blocks_needed_by[t] = {} \/ t \in touched
    BY <1>n, <1>t, Zenon
  <2>2. \A t \in Tx : c.blocks_needed_by[t] = {} => needed[t] = {}
    BY <1>n, Zenon
  <2>3. c.excluded_txs = {t \in RawTxs(c) : c.blocks_needed_by[t] = {}}
    BY Zenon DEF Pool, IndexesAgree, ExcludedExactly
  <2>4. RawTxs(c) \subseteq Tx
    BY Zenon DEF RawTxs
  <2> QED BY <1>1, <1>2, <2>1, <2>2, <2>3, <2>4, Zenon DEF ExcludedExactly
<1>6. SpentByExactly(d)
  BY <1>1, <1>2 DEF Pool, IndexesAgree, SpentByExactly
<1>7. BlocksAreWhole(d)
  BY <1>1, <1>2, Zenon DEF Pool, BlocksAreWhole, Complete
<1> QED BY <1>1, <1>2, <1>3, <1>4, <1>5, <1>6, <1>7, Zenon DEF Pool, IndexesAgree, d

\* add-raw-tx keeps the invariant, and the blocks it finds ready are all the
\* pending blocks that miss nothing any more.
LEMMA AddRawTxGood ==
    ASSUME NEW c \in State, Good(c), NoneStuckBut(c, {}),
           NEW t \in Tx, t \notin RawTxs(c)
    PROVE  LET d == AddRawTx(c, t)
           IN  /\ d \in State /\ Good(d) /\ GrownFrom(c, d)
               /\ NoneStuckBut(d, ReadyBlocks(d, t))
<1> DEFINE d == AddRawTx(c, t)
<1>h. GetCurHeight(c) \in Nat
  BY Zenon DEF State, GetCurHeight
<1>1. /\ d \in State
      /\ d.blocks_needed_by = c.blocks_needed_by
      /\ d.excluded_txs =
            c.excluded_txs \union {x \in {t} : ~NeededByBlock(c, t)}
      /\ d.spent_by =
            [n \in Note |-> c.spent_by[n] \union {x \in {t} : n \in Inputs[t]}]
      /\ d.pending_blocks = c.pending_blocks
      /\ d.raw_txs = [c.raw_txs EXCEPT ![t] = GetCurHeight(c)]
      /\ d.blocks = c.blocks
      /\ d.heaviest_block = c.heaviest_block
      /\ d.mining_keys = c.mining_keys
      /\ d.candidate_parent = c.candidate_parent
      /\ d.candidate_txs = c.candidate_txs
  BY <1>h, ZenonT(30) DEF AddRawTx, State
<1> HIDE DEF d
<1>2. Pending(d) = Pending(c)
  BY <1>1, Zenon DEF Pending
<1>3. RawTxs(d) = RawTxs(c) \union {t}
  BY <1>1, <1>h DEF RawTxs, State
<1>4. NeededByExactly(d)
  BY <1>1, <1>2 DEF Good, IndexesAgree, NeededByExactly
<1>5. ExcludedExactly(d)
  BY <1>1, <1>3, Zenon DEF Good, IndexesAgree, ExcludedExactly, NeededByBlock
<1>6. SpentByExactly(d)
  <2>1. \A n \in Note : c.spent_by[n] = {x \in RawTxs(c) : n \in Inputs[x]}
    BY Zenon DEF Good, IndexesAgree, SpentByExactly
  <2> QED BY <1>1, <1>3, <2>1 DEF SpentByExactly
<1>7. BlocksAreWhole(d)
  BY <1>1, <1>2, <1>3, Zenon DEF Good, BlocksAreWhole, Complete
<1>8. Chosen(d)
  BY <1>1, <1>2, Zenon DEF Good, Chosen
<1>9. Fresh(d)
  BY <1>1, <1>2, Zenon DEF Good, Fresh, Expired, GetCurHeight
<1>10. Minable(d)
  BY <1>1, <1>3, Zenon DEF Good, Minable
<1>11. NoneStuckBut(d, ReadyBlocks(d, t))
  <2> SUFFICES ASSUME NEW b \in Pending(d), Complete(d, b)
               PROVE  b \in ReadyBlocks(d, t)
    BY Zenon DEF NoneStuckBut
  <2>1. ~Complete(c, b)
    BY <1>2, Zenon DEF NoneStuckBut
  <2>2. t \in TxIds[b]
    BY <2>1, <1>3, Zenon DEF Complete
  <2>3. b \in d.blocks_needed_by[t]
    BY <2>2, <1>4, Zenon DEF NeededByExactly
  <2> QED BY <2>3, Zenon DEF ReadyBlocks
<1>12. GrownFrom(c, d)
  BY <1>1, Zenon DEF GrownFrom
<1> QED
  BY <1>1, <1>4, <1>5, <1>6, <1>7, <1>8, <1>9, <1>10, <1>11, <1>12, Zenon
     DEF Good, IndexesAgree, d

\* drop-tx keeps the pool consistent when only loose transactions are dropped.
LEMMA DropTxsPool ==
    ASSUME NEW c \in State, Pool(c), NEW ts \in SUBSET c.excluded_txs
    PROVE  LET d == DropTxs(c, ts)
           IN  /\ d \in State
               /\ Pool(d)
               /\ RawTxs(d) = RawTxs(c) \ ts
               /\ \A x \in RawTxs(d) : d.raw_txs[x] = c.raw_txs[x]
               /\ d.excluded_txs = c.excluded_txs \ ts
               /\ \A b \in Pending(d) : Complete(c, b) => Complete(d, b)
               /\ \A f \in {"blocks_needed_by", "pending_blocks", "blocks",
                            "heaviest_block", "heaviest_chain",
                            "highest_block_height", "mining_keys",
                            "candidate_parent", "candidate_txs"} : d[f] = c[f]
<1> DEFINE d == DropTxs(c, ts)
<1>0. ts \subseteq Tx
  BY Zenon DEF State
<1>1. /\ d \in State
      /\ d.raw_txs = [x \in Tx |-> IF x \in ts THEN None ELSE c.raw_txs[x]]
      /\ d.excluded_txs = c.excluded_txs \ ts
      /\ d.spent_by = [n \in Note |-> c.spent_by[n] \ {x \in ts : n \in Inputs[x]}]
      /\ d.blocks_needed_by = c.blocks_needed_by
      /\ d.pending_blocks = c.pending_blocks
      /\ d.blocks = c.blocks
      /\ d.heaviest_block = c.heaviest_block
      /\ d.heaviest_chain = c.heaviest_chain
      /\ d.highest_block_height = c.highest_block_height
      /\ d.mining_keys = c.mining_keys
      /\ d.candidate_parent = c.candidate_parent
      /\ d.candidate_txs = c.candidate_txs
  BY <1>0, Zenon DEF DropTxs, State
<1> HIDE DEF d
<1>2. Pending(d) = Pending(c)
  BY <1>1, Zenon DEF Pending
<1>3. RawTxs(d) = RawTxs(c) \ ts
  <2>1. \A x \in Tx : d.raw_txs[x] = IF x \in ts THEN None ELSE c.raw_txs[x]
    BY <1>1, Zenon
  <2> QED BY <2>1, Zenon DEF RawTxs
<1>4. \A x \in RawTxs(d) : d.raw_txs[x] = c.raw_txs[x]
  BY <1>1, <1>3, Zenon DEF RawTxs
<1>5. NeededByExactly(d)
  BY <1>1, <1>2 DEF Pool, IndexesAgree, NeededByExactly
<1>6. ExcludedExactly(d)
  BY <1>1, <1>3, Zenon DEF Pool, IndexesAgree, ExcludedExactly
<1>7. SpentByExactly(d)
  <2>1. \A n \in Note : c.spent_by[n] = {x \in RawTxs(c) : n \in Inputs[x]}
    BY Zenon DEF Pool, IndexesAgree, SpentByExactly
  <2> QED BY <1>1, <1>3, <2>1 DEF SpentByExactly
<1>8. \A b \in c.blocks \union Pending(c) : TxIds[b] \intersect ts = {}
  <2> SUFFICES ASSUME NEW b \in c.blocks \union Pending(c),
                      NEW x \in TxIds[b], x \in ts
               PROVE  FALSE
    BY Zenon
  <2>1. b \in Block /\ x \in Tx
    BY Zenon DEF State, Pending
  <2>2. b \in c.blocks_needed_by[x]
    BY <2>1, Zenon DEF Pool, IndexesAgree, NeededByExactly
  <2> QED BY <2>2, Zenon DEF Pool, IndexesAgree, ExcludedExactly
<1>9. BlocksAreWhole(d)
  BY <1>1, <1>2, <1>3, <1>8, Zenon DEF Pool, BlocksAreWhole, Complete
<1>10. \A b \in Pending(d) : Complete(c, b) => Complete(d, b)
  BY <1>2, <1>3, <1>8, Zenon DEF Complete
<1> QED
  BY <1>1, <1>3, <1>4, <1>5, <1>6, <1>7, <1>9, <1>10, Zenon DEF Pool, IndexesAgree, d

\* accept-page keeps the pool consistent, whether the block was pending or
\* is new, when all its transactions are known.
LEMMA AcceptPagePool ==
    ASSUME NEW c \in State, Pool(c), NEW b \in Block,
           b \notin c.blocks, Complete(c, b),
           b \notin Genesis => Parent[b] \in c.blocks
    PROVE  LET d == AcceptPage(c, b)
           IN  /\ d \in State
               /\ Pool(d)
               /\ d.blocks = c.blocks \union {b}
               /\ Pending(d) = Pending(c) \ {b}
               /\ \A x \in Pending(d) : d.pending_blocks[x] = c.pending_blocks[x]
               /\ \A f \in {"raw_txs", "heaviest_block", "heaviest_chain",
                            "highest_block_height", "mining_keys",
                            "candidate_parent", "candidate_txs"} : d[f] = c[f]
<1> DEFINE d == AcceptPage(c, b)
<1>1. CASE b \in Pending(c)
  <2>1. /\ d \in State
        /\ d.pending_blocks = [c.pending_blocks EXCEPT ![b] = None]
        /\ d.blocks = c.blocks \union {b}
        /\ d.blocks_needed_by = c.blocks_needed_by
        /\ d.excluded_txs = c.excluded_txs
        /\ d.spent_by = c.spent_by
        /\ d.raw_txs = c.raw_txs
        /\ d.heaviest_block = c.heaviest_block
        /\ d.heaviest_chain = c.heaviest_chain
        /\ d.highest_block_height = c.highest_block_height
        /\ d.mining_keys = c.mining_keys
        /\ d.candidate_parent = c.candidate_parent
        /\ d.candidate_txs = c.candidate_txs
    BY <1>1, ZenonT(30) DEF AcceptPage, State
  <2> HIDE DEF d
  <2>2. Pending(d) = Pending(c) \ {b} /\ RawTxs(d) = RawTxs(c)
    BY <2>1 DEF Pending, RawTxs, State
  <2>3. \A x \in Pending(d) : d.pending_blocks[x] = c.pending_blocks[x]
    BY <2>1, <2>2 DEF Pending, State
  <2>4. IndexesAgree(d)
    BY <1>1, <2>1, <2>2 DEF Pool, IndexesAgree, NeededByExactly,
                            ExcludedExactly, SpentByExactly
  <2>5. BlocksAreWhole(d)
    BY <1>1, <2>1, <2>2, Zenon DEF Pool, BlocksAreWhole, Complete
  <2> QED BY <2>1, <2>2, <2>3, <2>4, <2>5, Zenon DEF Pool, d
<1>2. CASE b \notin Pending(c)
  <2>1. /\ d \in State
        /\ d.blocks_needed_by =
              [t \in Tx |-> c.blocks_needed_by[t]
                                \union {x \in {b} : t \in TxIds[b]}]
        /\ d.excluded_txs = c.excluded_txs \ TxIds[b]
        /\ d.blocks = c.blocks \union {b}
        /\ d.pending_blocks = c.pending_blocks
        /\ d.spent_by = c.spent_by
        /\ d.raw_txs = c.raw_txs
        /\ d.heaviest_block = c.heaviest_block
        /\ d.heaviest_chain = c.heaviest_chain
        /\ d.highest_block_height = c.highest_block_height
        /\ d.mining_keys = c.mining_keys
        /\ d.candidate_parent = c.candidate_parent
        /\ d.candidate_txs = c.candidate_txs
    <3> DEFINE e == NeedTxsOf(c, b)
    <3>1. /\ e \in State
          /\ e.blocks_needed_by =
                [t \in Tx |-> c.blocks_needed_by[t]
                                  \union {x \in {b} : t \in TxIds[b]}]
          /\ e.excluded_txs = c.excluded_txs \ TxIds[b]
          /\ e = [c EXCEPT !.blocks_needed_by = e.blocks_needed_by,
                           !.excluded_txs = e.excluded_txs]
      BY ZenonT(30) DEF NeedTxsOf, State
    <3>2. d = [e EXCEPT !.blocks = e.blocks \union {b}]
      BY <1>2, Zenon DEF AcceptPage
    <3> HIDE DEF d, e
    <3> QED BY <3>1, <3>2, ZenonT(30) DEF State
  <2> HIDE DEF d
  <2>2. Pending(d) = Pending(c) /\ RawTxs(d) = RawTxs(c)
    BY <2>1 DEF Pending, RawTxs
  <2>3. NeededByExactly(d)
    BY <2>1, <2>2 DEF Pool, IndexesAgree, NeededByExactly
  <2>4. ExcludedExactly(d)
    <3>1. \A t \in Tx : d.blocks_needed_by[t] = {} <=>
                           c.blocks_needed_by[t] = {} /\ t \notin TxIds[b]
      BY <2>1
    <3>2. c.excluded_txs = {t \in RawTxs(c) : c.blocks_needed_by[t] = {}}
      BY Zenon DEF Pool, IndexesAgree, ExcludedExactly
    <3> QED BY <2>1, <2>2, <3>1, <3>2, ZenonT(30) DEF ExcludedExactly, RawTxs
  <2>5. SpentByExactly(d)
    BY <2>1, <2>2 DEF Pool, IndexesAgree, SpentByExactly
  <2>6. BlocksAreWhole(d)
    BY <1>2, <2>1, <2>2 DEF Pool, BlocksAreWhole, Complete
  <2> QED BY <1>2, <2>1, <2>2, <2>3, <2>4, <2>5, <2>6 DEF Pool, IndexesAgree, d
<1> QED BY <1>1, <1>2, Zenon

\* The states differ at most in what derived.hoon keeps.
SameButDerived(c, d) ==
    \A f \in {"blocks_needed_by", "excluded_txs", "spent_by", "pending_blocks",
              "raw_txs", "blocks", "heaviest_block", "mining_keys",
              "candidate_parent", "candidate_txs"} : d[f] = c[f]

\* The invariant says nothing of the derived state.
LEMMA SameButDerivedGood ==
    ASSUME NEW c, NEW d, SameButDerived(c, d)
    PROVE  /\ Pending(d) = Pending(c) /\ RawTxs(d) = RawTxs(c)
           /\ Good(c) => Good(d)
           /\ \A bs : NoneStuckBut(c, bs) => NoneStuckBut(d, bs)
           /\ \A x : GrownFrom(x, c) => GrownFrom(x, d)
<1>1. /\ d.blocks_needed_by = c.blocks_needed_by
      /\ d.excluded_txs = c.excluded_txs
      /\ d.spent_by = c.spent_by
      /\ d.pending_blocks = c.pending_blocks
      /\ d.raw_txs = c.raw_txs
      /\ d.blocks = c.blocks
      /\ d.heaviest_block = c.heaviest_block
      /\ d.mining_keys = c.mining_keys
      /\ d.candidate_parent = c.candidate_parent
      /\ d.candidate_txs = c.candidate_txs
  BY Zenon DEF SameButDerived
<1>2. Pending(d) = Pending(c) /\ RawTxs(d) = RawTxs(c)
  BY <1>1, Zenon DEF Pending, RawTxs
<1>3. \A b : Complete(d, b) = Complete(c, b)
  BY <1>2, Zenon DEF Complete
<1>4. \A h : Expired(d, h) = Expired(c, h)
  BY <1>1, Zenon DEF Expired, GetCurHeight
<1>5. Good(c) => Good(d)
  <2> SUFFICES ASSUME Good(c) PROVE Good(d)
    BY Zenon
  <2>1. IndexesAgree(d)
    BY <1>1, <1>2 DEF Good, IndexesAgree, NeededByExactly, ExcludedExactly,
                      SpentByExactly
  <2>2. BlocksAreWhole(d)
    BY <1>1, <1>2, <1>3, Zenon DEF Good, BlocksAreWhole
  <2>3. Chosen(d)
    BY <1>1, <1>2, Zenon DEF Good, Chosen
  <2>4. Fresh(d)
    BY <1>1, <1>2, <1>4, Zenon DEF Good, Fresh
  <2>5. Minable(d)
    BY <1>1, <1>2, Zenon DEF Good, Minable
  <2> QED BY <2>1, <2>2, <2>3, <2>4, <2>5, Zenon DEF Good
<1>6. \A bs : NoneStuckBut(c, bs) => NoneStuckBut(d, bs)
  BY <1>2, <1>3, Zenon DEF NoneStuckBut
<1>7. \A x : GrownFrom(x, c) => GrownFrom(x, d)
  BY <1>1, Zenon DEF GrownFrom
<1> QED BY <1>2, <1>5, <1>6, <1>7, Zenon

\* update-highest changes highest-block-height only.
LEMMA UpdateHighestSame ==
    ASSUME NEW c \in State, NEW b \in Block
    PROVE  LET d == UpdateHighest(c, b)
           IN  /\ d \in State /\ SameButDerived(c, d)
               /\ d.heaviest_chain = c.heaviest_chain
<1> DEFINE d == UpdateHighest(c, b)
<1>1. Height[b] \in Nat
  BY Zenon
<1>2. d = c \/ d = [c EXCEPT !.highest_block_height = Height[b]]
  BY Zenon DEF UpdateHighest
<1> HIDE DEF d
<1>3. CASE d = c
  BY <1>3, Zenon DEF SameButDerived, d
<1>4. CASE d = [c EXCEPT !.highest_block_height = Height[b]]
  <2>1. /\ d \in State
        /\ d.heaviest_chain = c.heaviest_chain
        /\ d.blocks_needed_by = c.blocks_needed_by
        /\ d.excluded_txs = c.excluded_txs
        /\ d.spent_by = c.spent_by
        /\ d.pending_blocks = c.pending_blocks
        /\ d.raw_txs = c.raw_txs
        /\ d.blocks = c.blocks
        /\ d.heaviest_block = c.heaviest_block
        /\ d.mining_keys = c.mining_keys
        /\ d.candidate_parent = c.candidate_parent
        /\ d.candidate_txs = c.candidate_txs
    BY <1>1, <1>4, Zenon DEF State
  <2> QED BY <2>1, Zenon DEF SameButDerived, d
<1> QED BY <1>2, <1>3, <1>4, Zenon

\* +update:der changes the derived state only.
LEMMA UpdateDerivedSame ==
    ASSUME NEW c \in State, c.heaviest_block # None, NEW b \in Block
    PROVE  LET d == UpdateDerived(c, b)
           IN  d \in State /\ SameButDerived(c, d)
<1> DEFINE top == Height[c.heaviest_block]
           line == Ancestors[c.heaviest_block]
           revised == {h \in 0..top :
                          \A g \in h..top : c.heaviest_chain[g] # line[g]}
           e == UpdateHighest(c, b)
           chain == [h \in Heights |-> IF h \in revised THEN line[h]
                                                         ELSE e.heaviest_chain[h]]
           d == UpdateDerived(c, b)
<1>1. e \in State /\ SameButDerived(c, e)
  BY UpdateHighestSame, Zenon
<1>2. d = [e EXCEPT !.heaviest_chain = chain]
  BY Zenon DEF UpdateDerived
<1>3. chain \in [Heights -> Block \union {None}]
  <2>1. c.heaviest_block \in Block
    BY Zenon DEF State
  <2>2. \A h \in revised : line[h] \in Block
    <3>1. line \in [0..top -> Block]
      BY <2>1, AncestorsAssumption, Zenon
    <3>2. revised \subseteq 0..top
      BY Zenon
    <3> HIDE DEF line, revised, top
    <3> QED BY <3>1, <3>2, Zenon
  <2>3. e.heaviest_chain \in [Heights -> Block \union {None}]
    BY <1>1, Zenon DEF State
  <2> HIDE DEF revised, line, e
  <2> QED BY <2>2, <2>3, Zenon
<1> HIDE DEF d, e, chain
<1>4. /\ d \in State
      /\ d.blocks_needed_by = e.blocks_needed_by
      /\ d.excluded_txs = e.excluded_txs
      /\ d.spent_by = e.spent_by
      /\ d.pending_blocks = e.pending_blocks
      /\ d.raw_txs = e.raw_txs
      /\ d.blocks = e.blocks
      /\ d.heaviest_block = e.heaviest_block
      /\ d.mining_keys = e.mining_keys
      /\ d.candidate_parent = e.candidate_parent
      /\ d.candidate_txs = e.candidate_txs
  BY <1>1, <1>2, <1>3, Zenon DEF State
<1> QED BY <1>1, <1>4 DEF SameButDerived, d

\* garbage-collect keeps the pool consistent, drops nothing an accepted block
\* holds, and leaves no expired block pending.
LEMMA GarbageCollectPool ==
    ASSUME NEW c \in State, Pool(c)
    PROVE  LET d == GarbageCollect(c)
           IN  /\ d \in State /\ Pool(d) /\ Fresh(d)
               /\ Pending(d) \subseteq Pending(c)
               /\ RawTxs(d) \subseteq RawTxs(c)
               /\ \A b \in Pending(d) : Complete(c, b) => Complete(d, b)
               /\ \A f \in {"blocks", "heaviest_block", "mining_keys",
                            "candidate_parent", "candidate_txs"} : d[f] = c[f]
<1> DEFINE rs == DropablePendingBlocks(c)
           e == RejectPendingBlocks(c, rs)
           ts == DropableTxs(e)
           d == DropTxs(e, ts)
<1>1. rs \in SUBSET Pending(c)
  BY Zenon DEF DropablePendingBlocks
<1>2. /\ e \in State /\ Pool(e) /\ Pending(e) = Pending(c) \ rs
      /\ \A b \in Pending(e) : e.pending_blocks[b] = c.pending_blocks[b]
      /\ RawTxs(e) = RawTxs(c)
      /\ \A f \in {"blocks", "heaviest_block", "mining_keys",
                   "candidate_parent", "candidate_txs"} : e[f] = c[f]
  BY <1>1, RejectPendingBlocksPool
<1> HIDE DEF e
<1>3. ts \in SUBSET e.excluded_txs
  BY Zenon DEF DropableTxs
<1> HIDE DEF ts
<1>4. /\ d \in State /\ Pool(d) /\ RawTxs(d) = RawTxs(e) \ ts
      /\ \A b \in Pending(d) : Complete(e, b) => Complete(d, b)
      /\ \A f \in {"pending_blocks", "blocks", "heaviest_block", "mining_keys",
                   "candidate_parent", "candidate_txs"} : d[f] = e[f]
  BY <1>2, <1>3, DropTxsPool
<1> HIDE DEF d
<1>5. Pending(d) = Pending(e)
  BY <1>4, Zenon DEF Pending
<1>6. Fresh(d)
  <2> SUFFICES ASSUME NEW b \in Pending(d)
               PROVE  ~Expired(d, d.pending_blocks[b])
    BY Zenon DEF Fresh
  <2>1. GetCurHeight(d) = GetCurHeight(c)
    BY <1>2, <1>4, Zenon DEF GetCurHeight
  <2>2. d.pending_blocks[b] = c.pending_blocks[b] /\ b \in Pending(c) \ rs
    BY <1>2, <1>4, <1>5, Zenon
  <2>3. ~Expired(c, c.pending_blocks[b])
    BY <2>2, Zenon DEF DropablePendingBlocks
  <2> QED BY <2>1, <2>2, <2>3, Zenon DEF Expired
<1>7. \A b \in Pending(d) : Complete(c, b) => Complete(d, b)
  BY <1>2, <1>4, Zenon DEF Complete
<1> QED BY <1>2, <1>4, <1>5, <1>6, <1>7, Zenon DEF GarbageCollect, d, e, ts

\* update-heaviest chooses a heaviest block again once a block is accepted,
\* and keeps the one it has on a tie.
LEMMA UpdateHeaviestChosen ==
    ASSUME NEW c \in State, Chosen(c),
           NEW b \in Block, b \in Genesis \/ Parent[b] \in c.blocks,
           NEW p \in State, p.blocks = c.blocks \union {b},
           p.heaviest_block = c.heaviest_block,
           Pending(p) \subseteq Pending(c)
    PROVE  LET u == UpdateHeaviest(p, b)
           IN  /\ u \in State /\ Chosen(u)
               /\ u.heaviest_block # None
               /\ \/ u.heaviest_block = c.heaviest_block
                  \/ c.heaviest_block = None
                  \/ Work[u.heaviest_block] > Work[c.heaviest_block]
               /\ \A f \in {"blocks_needed_by", "excluded_txs", "spent_by",
                            "pending_blocks", "raw_txs", "blocks",
                            "heaviest_chain", "highest_block_height",
                            "mining_keys", "candidate_parent",
                            "candidate_txs"} : u[f] = p[f]
<1> DEFINE u == UpdateHeaviest(p, b)
<1>1. /\ u \in State
      /\ u.heaviest_block =
            IF p.heaviest_block = None \/ Work[b] > Work[p.heaviest_block]
            THEN b ELSE p.heaviest_block
      /\ u.blocks_needed_by = p.blocks_needed_by
      /\ u.excluded_txs = p.excluded_txs
      /\ u.spent_by = p.spent_by
      /\ u.pending_blocks = p.pending_blocks
      /\ u.raw_txs = p.raw_txs
      /\ u.blocks = p.blocks
      /\ u.heaviest_chain = p.heaviest_chain
      /\ u.highest_block_height = p.highest_block_height
      /\ u.mining_keys = p.mining_keys
      /\ u.candidate_parent = p.candidate_parent
      /\ u.candidate_txs = p.candidate_txs
  BY Zenon DEF UpdateHeaviest, State
<1> HIDE DEF u
<1>2. b # None
  BY Zenon
<1>3. Chosen(u) /\ u.heaviest_block # None
  <2>1. CASE c.heaviest_block = None
    <3>1. c.blocks = {}
      BY <2>1, Zenon DEF Chosen
    <3> QED BY <3>1, <2>1, <1>1, <1>2 DEF Chosen
  <2>2. CASE c.heaviest_block # None
    <3>1. /\ c.heaviest_block \in c.blocks /\ c.blocks \subseteq Block
          /\ \A x \in c.blocks : Work[x] <= Work[c.heaviest_block]
      BY <2>2, Zenon DEF Chosen, State
    <3>2. \A x \in Block : Work[x] \in Nat
      BY Zenon
    <3>3. u.heaviest_block # None /\ u.heaviest_block \in u.blocks
      BY <1>1, <1>2, <2>2, <3>1, Zenon
    <3>4. \A x \in u.blocks : Work[x] <= Work[u.heaviest_block]
      <4>1. CASE Work[b] > Work[c.heaviest_block]
        <5>1. u.heaviest_block = b
          BY <4>1, <1>1, Zenon
        <5>2. \A x \in c.blocks : Work[x] <= Work[b]
          <6> TAKE x \in c.blocks
          <6> DEFINE wx == Work[x] wh == Work[c.heaviest_block] wb == Work[b]
          <6>1. wx \in Nat /\ wh \in Nat /\ wb \in Nat /\ wx <= wh /\ wb > wh
            BY <3>1, <3>2, <4>1, Zenon
          <6> HIDE DEF wx, wh, wb
          <6>2. wx <= wb
            BY <6>1
          <6> QED BY <6>2, Zenon DEF wx, wb
        <5>3. Work[b] <= Work[b]
          BY <3>2
        <5> QED BY <5>1, <5>2, <5>3, <1>1, Zenon
      <4>2. CASE ~(Work[b] > Work[c.heaviest_block])
        <5>1. u.heaviest_block = c.heaviest_block
          BY <4>2, <1>1, <2>2, Zenon
        <5>2. Work[b] <= Work[c.heaviest_block]
          BY <4>2, <3>1, <3>2
        <5> QED BY <5>1, <5>2, <1>1, <3>1, Zenon
      <4> QED BY <4>1, <4>2, Zenon
    <3> QED BY <3>3, <3>4, Zenon DEF Chosen
  <2> QED BY <2>1, <2>2, Zenon
<1>4. \/ u.heaviest_block = c.heaviest_block
      \/ c.heaviest_block = None
      \/ Work[u.heaviest_block] > Work[c.heaviest_block]
  BY <1>1, Zenon
<1> QED BY <1>1, <1>3, <1>4, Zenon DEF u

\* heard-new-block and update-candidate-block take the candidate's
\* transactions from the pool.
LEMMA AddTxsToCandidateSame ==
    ASSUME NEW c \in State, c.excluded_txs \subseteq RawTxs(c),
           NEW m \in AddTxsToCandidate(c)
    PROVE  /\ m \in State
           /\ m.candidate_txs \subseteq c.candidate_txs \union RawTxs(c)
           /\ \A f \in {"blocks_needed_by", "excluded_txs", "spent_by",
                        "pending_blocks", "raw_txs", "blocks",
                        "heaviest_block", "heaviest_chain",
                        "highest_block_height", "mining_keys",
                        "candidate_parent"} : m[f] = c[f]
<1>1. PICK ts \in SUBSET CandidateTxIds(c) :
         m = [c EXCEPT !.candidate_txs = c.candidate_txs \union ts]
  BY Zenon DEF AddTxsToCandidate
<1>2. ts \subseteq RawTxs(c)
  BY Zenon DEF CandidateTxIds
<1>3. ts \subseteq Tx
  BY <1>2, Zenon DEF RawTxs
<1>4. /\ m \in State
      /\ m.candidate_txs = c.candidate_txs \union ts
      /\ m.blocks_needed_by = c.blocks_needed_by
      /\ m.excluded_txs = c.excluded_txs
      /\ m.spent_by = c.spent_by
      /\ m.pending_blocks = c.pending_blocks
      /\ m.raw_txs = c.raw_txs
      /\ m.blocks = c.blocks
      /\ m.heaviest_block = c.heaviest_block
      /\ m.heaviest_chain = c.heaviest_chain
      /\ m.highest_block_height = c.highest_block_height
      /\ m.mining_keys = c.mining_keys
      /\ m.candidate_parent = c.candidate_parent
  BY <1>1, <1>3, Zenon DEF State
<1> QED BY <1>2, <1>4, Zenon

\* The states have the same consensus state.
SameConsensus(c, d) ==
    \A f \in {"blocks_needed_by", "excluded_txs", "spent_by", "pending_blocks",
              "raw_txs", "blocks", "heaviest_block"} : d[f] = c[f]

\* All but the miner's part of the invariant is about the consensus state.
LEMMA SameConsensusKeeps ==
    ASSUME NEW c, NEW d, SameConsensus(c, d)
    PROVE  /\ Pending(d) = Pending(c) /\ RawTxs(d) = RawTxs(c)
           /\ Pool(c) => Pool(d)
           /\ Chosen(c) => Chosen(d)
           /\ Fresh(c) => Fresh(d)
           /\ \A bs : NoneStuckBut(c, bs) => NoneStuckBut(d, bs)
           /\ \A x : GrownFrom(x, c) => GrownFrom(x, d)
<1>1. /\ d.blocks_needed_by = c.blocks_needed_by
      /\ d.excluded_txs = c.excluded_txs
      /\ d.spent_by = c.spent_by
      /\ d.pending_blocks = c.pending_blocks
      /\ d.raw_txs = c.raw_txs
      /\ d.blocks = c.blocks
      /\ d.heaviest_block = c.heaviest_block
  BY Zenon DEF SameConsensus
<1>2. Pending(d) = Pending(c) /\ RawTxs(d) = RawTxs(c)
  BY <1>1, Zenon DEF Pending, RawTxs
<1>3. \A b : Complete(d, b) = Complete(c, b)
  BY <1>2, Zenon DEF Complete
<1>4. \A h : Expired(d, h) = Expired(c, h)
  BY <1>1, Zenon DEF Expired, GetCurHeight
<1>5. Pool(c) => Pool(d)
  BY <1>1, <1>2, <1>3 DEF Pool, IndexesAgree, NeededByExactly,
                          ExcludedExactly, SpentByExactly, BlocksAreWhole
<1>6. Chosen(c) => Chosen(d)
  BY <1>1, <1>2, Zenon DEF Chosen
<1>7. Fresh(c) => Fresh(d)
  BY <1>1, <1>2, <1>4, Zenon DEF Fresh
<1>8. \A bs : NoneStuckBut(c, bs) => NoneStuckBut(d, bs)
  BY <1>2, <1>3, Zenon DEF NoneStuckBut
<1>9. \A x : GrownFrom(x, c) => GrownFrom(x, d)
  BY <1>1, Zenon DEF GrownFrom
<1> QED BY <1>2, <1>5, <1>6, <1>7, <1>8, <1>9, Zenon

\* The pool's loose transactions are raw transactions.
LEMMA ExcludedAreRaw ==
    ASSUME NEW c, Pool(c) PROVE c.excluded_txs \subseteq RawTxs(c)
BY Zenon DEF Pool, IndexesAgree, ExcludedExactly

\* heard-new-block makes the candidate minable again after the heaviest block
\* has changed and the pool was garbage-collected.
LEMMA HeardNewBlockGood ==
    ASSUME NEW c \in State, Pool(c), Chosen(c), Fresh(c),
           c.candidate_parent # None => c.mining_keys,
           c.candidate_parent = None => c.candidate_txs = {},
           c.candidate_parent = c.heaviest_block =>
               c.candidate_txs \subseteq RawTxs(c),
           c.heaviest_block # None,
           NEW m \in HeardNewBlock(c)
    PROVE  m \in State /\ Good(m) /\ SameConsensus(c, m)
<1>1. CASE c.heaviest_block = c.candidate_parent \/ ~c.mining_keys
  <2>1. m = c
    BY <1>1, Zenon DEF HeardNewBlock
  <2>2. Minable(c)
    BY <1>1, Zenon DEF Minable
  <2> QED BY <2>1, <2>2, Zenon DEF Good, Pool, SameConsensus
<1>2. CASE c.heaviest_block # c.candidate_parent /\ c.mining_keys
  <2> DEFINE e == [c EXCEPT !.candidate_parent = c.heaviest_block,
                            !.candidate_txs = {}]
  <2>1. m \in AddTxsToCandidate(e)
    BY <1>2, Zenon DEF HeardNewBlock
  <2>2. /\ e \in State
        /\ e.blocks_needed_by = c.blocks_needed_by
        /\ e.excluded_txs = c.excluded_txs
        /\ e.spent_by = c.spent_by
        /\ e.pending_blocks = c.pending_blocks
        /\ e.raw_txs = c.raw_txs
        /\ e.blocks = c.blocks
        /\ e.heaviest_block = c.heaviest_block
        /\ e.mining_keys = c.mining_keys
        /\ e.candidate_parent = c.heaviest_block
        /\ e.candidate_txs = {}
    BY Zenon DEF State
  <2> HIDE DEF e
  <2>3. SameConsensus(c, e)
    BY <2>2, Zenon DEF SameConsensus
  <2>4. Pool(e)
    BY <2>3, SameConsensusKeeps, Zenon
  <2>5. /\ m \in State
        /\ m.candidate_txs \subseteq e.candidate_txs \union RawTxs(e)
        /\ m.mining_keys = e.mining_keys
        /\ m.candidate_parent = e.candidate_parent
        /\ m.heaviest_block = e.heaviest_block
        /\ SameConsensus(e, m)
    BY <2>1, <2>2, <2>4, ExcludedAreRaw, AddTxsToCandidateSame
       DEF SameConsensus
  <2>6. SameConsensus(c, m)
    BY <2>3, <2>5 DEF SameConsensus
  <2>7. /\ Pool(m) /\ Chosen(m) /\ Fresh(m)
        /\ RawTxs(m) = RawTxs(c) /\ RawTxs(e) = RawTxs(c)
    BY <2>3, <2>6, SameConsensusKeeps, Zenon
  <2>8. Minable(m)
    BY <1>2, <2>2, <2>5, <2>7, Zenon DEF Minable
  <2> QED BY <2>5, <2>6, <2>7, <2>8, Zenon DEF Good, Pool
<1> QED BY <1>1, <1>2, Zenon

\* update-candidate-block, at the end of every poke, keeps the invariant.
LEMMA UpdateCandidateBlockGood ==
    ASSUME NEW c \in State, Good(c), NEW m \in UpdateCandidateBlock(c)
    PROVE  m \in State /\ Good(m) /\ SameConsensus(c, m)
<1>1. CASE c.candidate_parent = None \/ ~c.mining_keys
  BY <1>1, Zenon DEF UpdateCandidateBlock, SameConsensus
<1>2. CASE c.candidate_parent # None /\ c.mining_keys
  <2>1. m \in AddTxsToCandidate(c)
    BY <1>2, Zenon DEF UpdateCandidateBlock
  <2>2. Pool(c)
    BY Zenon DEF Good, Pool
  <2>3. /\ m \in State
        /\ m.candidate_txs \subseteq c.candidate_txs \union RawTxs(c)
        /\ m.mining_keys = c.mining_keys
        /\ m.candidate_parent = c.candidate_parent
        /\ m.heaviest_block = c.heaviest_block
        /\ SameConsensus(c, m)
    BY <2>1, <2>2, ExcludedAreRaw, AddTxsToCandidateSame, SMTT(30) DEF SameConsensus
  <2>4. Pool(m) /\ Chosen(m) /\ Fresh(m) /\ RawTxs(m) = RawTxs(c)
    BY <2>2, <2>3, SameConsensusKeeps, Zenon DEF Good
  <2>5. Minable(m)
    BY <1>2, <2>3, <2>4, Zenon DEF Good, Minable
  <2> QED BY <2>3, <2>4, <2>5, Zenon DEF Good, Pool
<1> QED BY <1>1, <1>2, Zenon

\* accept-block keeps the invariant: the whole of accepting a block, through
\* the choice of the heaviest block, garbage collection, the new candidate
\* and the derived state.
LEMMA AcceptBlockGood ==
    ASSUME NEW c \in State, Good(c),
           NEW bs \in SUBSET Block, NoneStuckBut(c, bs),
           NEW b \in ValidBlock, b \notin c.blocks, Complete(c, b),
           b \in Genesis \/ Parent[b] \in c.blocks,
           NEW m \in AcceptBlock(c, b)
    PROVE  /\ m \in State /\ Good(m) /\ GrownFrom(c, m)
           /\ NoneStuckBut(m, bs \ {b})
           /\ Pending(m) \subseteq Pending(c)
           /\ \A x \in Pending(m) : Complete(c, x) => Complete(m, x)
<1> DEFINE p == AcceptPage(c, b)
           u == UpdateHeaviest(p, b)
           e == IF u.heaviest_block # c.heaviest_block
                THEN GarbageCollect(u) ELSE u
<1>0. b \in Block /\ Pool(c)
  BY Zenon DEF Good, Pool
<1>1. /\ p \in State /\ Pool(p)
      /\ p.blocks = c.blocks \union {b}
      /\ Pending(p) = Pending(c) \ {b}
      /\ \A x \in Pending(p) : p.pending_blocks[x] = c.pending_blocks[x]
      /\ \A f \in {"raw_txs", "heaviest_block", "mining_keys",
                   "candidate_parent", "candidate_txs"} : p[f] = c[f]
  BY <1>0, AcceptPagePool, SMTT(30)
<1> HIDE DEF p
<1>2. /\ u \in State /\ Chosen(u)
      /\ u.heaviest_block # None
      /\ \/ u.heaviest_block = c.heaviest_block
         \/ c.heaviest_block = None
         \/ Work[u.heaviest_block] > Work[c.heaviest_block]
      /\ \A f \in {"blocks_needed_by", "excluded_txs", "spent_by",
                   "pending_blocks", "raw_txs", "blocks", "mining_keys",
                   "candidate_parent", "candidate_txs"} : u[f] = p[f]
  BY <1>0, <1>1, UpdateHeaviestChosen, SMTT(30) DEF Good
<1> HIDE DEF u
<1>3. Pending(u) = Pending(p) /\ RawTxs(u) = RawTxs(c)
  BY <1>1, <1>2, SMTT(30) DEF Pending, RawTxs
<1>4. Pool(u)
  <2>1. \A x : Complete(u, x) = Complete(p, x)
    BY <1>1, <1>3, RawTxs(p) = RawTxs(c), Zenon DEF Complete, RawTxs
  <2>2. RawTxs(u) = RawTxs(p)
    BY <1>2, Zenon DEF RawTxs
  <2> QED BY <1>1, <1>2, <1>3, <2>1, <2>2, SMTT(30)
          DEF Pool, IndexesAgree, NeededByExactly, ExcludedExactly,
              SpentByExactly, BlocksAreWhole
<1>5. NoneStuckBut(u, bs \ {b})
  BY <1>1, <1>3, Zenon DEF NoneStuckBut, Complete
<1>6. /\ e \in State /\ Pool(e) /\ Fresh(e)
      /\ Pending(e) \subseteq Pending(u)
      /\ RawTxs(e) \subseteq RawTxs(u)
      /\ \A x \in Pending(e) : Complete(u, x) => Complete(e, x)
      /\ \A f \in {"blocks", "heaviest_block", "mining_keys",
                   "candidate_parent", "candidate_txs"} : e[f] = u[f]
      /\ u.heaviest_block = c.heaviest_block => e = u
  <2>1. CASE u.heaviest_block # c.heaviest_block
    BY <2>1, <1>2, <1>4, GarbageCollectPool, Zenon
  <2>2. CASE u.heaviest_block = c.heaviest_block
    <3>1. GetCurHeight(u) = GetCurHeight(c)
      BY <2>2, Zenon DEF GetCurHeight
    <3>2. \A x \in Pending(u) : /\ u.pending_blocks[x] = c.pending_blocks[x]
                                /\ x \in Pending(c)
      BY <1>1, <1>2, <1>3, Zenon
    <3>3. Fresh(u)
      BY <3>1, <3>2, Zenon DEF Good, Fresh, Expired
    <3>4. e = u
      BY <2>2, Zenon
    <3> HIDE DEF e
    <3> QED BY <3>3, <3>4, <1>2, <1>4, ZenonT(30)
  <2> HIDE DEF e
  <2> QED BY ONLY <2>1, <2>2, Zenon
<1> HIDE DEF e
<1>7. Chosen(e)
  BY <1>2, <1>6, Zenon DEF Chosen
<1>8. NoneStuckBut(e, bs \ {b})
  BY <1>5, <1>6, Zenon DEF NoneStuckBut, Complete
<1>9. PICK n \in HeardNewBlock(e) : m = UpdateDerived(n, b)
  BY Zenon DEF AcceptBlock, e, u, p
<1>10. n \in State /\ Good(n) /\ SameConsensus(e, n)
  <2>1. c.candidate_parent # None =>
           c.mining_keys /\ c.candidate_parent = c.heaviest_block
    BY Zenon DEF Good, Minable
  <2>2. c.candidate_txs \subseteq
           IF c.candidate_parent = None THEN {} ELSE RawTxs(c)
    BY Zenon DEF Good, Minable
  <2>3. /\ e.candidate_parent = c.candidate_parent
        /\ e.mining_keys = c.mining_keys
        /\ e.candidate_txs = c.candidate_txs
        /\ e.heaviest_block = u.heaviest_block
    BY <1>1, <1>2, <1>6, Zenon
  <2>4. e.candidate_parent = e.heaviest_block =>
           e.candidate_txs \subseteq RawTxs(e)
    BY <1>2, <1>3, <1>6, <2>1, <2>2, <2>3, Zenon
  <2>5. e.candidate_parent # None => e.mining_keys
    BY <2>1, <2>3, Zenon
  <2>6. e.candidate_parent = None => e.candidate_txs = {}
    BY <2>2, <2>3, Zenon
  <2>7. e.heaviest_block # None
    BY <1>2, <2>3, Zenon
  <2> QED BY <2>4, <2>5, <2>6, <2>7, <1>6, <1>7, HeardNewBlockGood, Zenon
<1>11. NoneStuckBut(n, bs \ {b})
  BY <1>8, <1>10, SameConsensusKeeps, Zenon
<1>12. GrownFrom(c, n)
  <2>1. n.blocks = c.blocks \union {b} /\ n.heaviest_block = u.heaviest_block
    BY <1>1, <1>2, <1>6, <1>10, Zenon DEF SameConsensus
  <2> QED BY <2>1, <1>2, Zenon DEF GrownFrom
<1>13. n.heaviest_block # None
  BY <1>2, <1>6, <1>10, Zenon DEF SameConsensus
<1>14. m \in State /\ SameButDerived(n, m)
  BY <1>0, <1>9, <1>10, <1>13, UpdateDerivedSame, Zenon
<1>15. Pending(m) = Pending(e) /\ RawTxs(m) = RawTxs(e)
  BY <1>10, <1>14, SameButDerivedGood, SameConsensusKeeps, SMTT(30)
<1>16. Pending(m) \subseteq Pending(c)
  BY <1>1, <1>3, <1>6, <1>15, Zenon
<1>17. \A x \in Pending(m) : Complete(c, x) => Complete(m, x)
  BY <1>3, <1>6, <1>15, Zenon DEF Complete
<1> QED BY <1>10, <1>11, <1>12, <1>14, <1>16, <1>17, SameButDerivedGood, Zenon

-----------------------------------------------------------------------------
(* Pokes *)

\* Growth by accepting valid blocks adds up over the steps of a poke.
LEMMA GrownFromTransitive ==
    ASSUME NEW x \in State, NEW y \in State, NEW z \in State,
           GrownFrom(x, y), GrownFrom(y, z)
    PROVE  GrownFrom(x, z)
<1>1. x.blocks \subseteq z.blocks /\ z.blocks \ x.blocks \subseteq ValidBlock
  BY Zenon DEF GrownFrom
<1>2. ASSUME x.heaviest_block # None
      PROVE  /\ z.heaviest_block # None
             /\ \/ z.heaviest_block = x.heaviest_block
                \/ Work[z.heaviest_block] > Work[x.heaviest_block]
  <2> DEFINE wx == Work[x.heaviest_block]
             wy == Work[y.heaviest_block]
             wz == Work[z.heaviest_block]
  <2>1. y.heaviest_block # None /\ z.heaviest_block # None
    BY <1>2, Zenon DEF GrownFrom
  <2>2. wx \in Nat /\ wy \in Nat /\ wz \in Nat
    BY <1>2, <2>1, Zenon DEF State
  <2>3. (y.heaviest_block = x.heaviest_block \/ wy > wx)
        /\ (z.heaviest_block = y.heaviest_block \/ wz > wy)
    BY <1>2, <2>1, Zenon DEF GrownFrom
  <2>4. wy > wx /\ wz > wy => wz > wx
    <3> HIDE DEF wx, wy, wz
    <3> QED BY <2>2
  <2> QED BY <2>1, <2>3, <2>4, Zenon
<1> QED BY <1>1, <1>2, Zenon DEF GrownFrom

\* A poke that ends in a good state commits it.
LEMMA DoneKeeps ==
    ASSUME TypeOK, NEW c \in State, Good(c), NoneStuckBut(c, {}),
           GrownFrom(saved, c), Done(c)
    PROVE  IInv' /\ GrownFrom(saved, saved')
<1>1. k' \in State /\ Good(k') /\ SameConsensus(c, k')
  BY UpdateCandidateBlockGood, Zenon DEF Done
<1>2. NoneStuckBut(k', {}) /\ GrownFrom(saved, k')
  BY <1>1, SameConsensusKeeps, Zenon
<1>3. work' = {} /\ saved' = k' /\ crashed' = FALSE
  BY Zenon DEF Done
<1>4. GrownFrom(k', k')
  BY Zenon DEF GrownFrom
<1>5. TypeOK'
  BY <1>1, <1>3, Zenon DEF TypeOK
<1>6. Good(k)' /\ NoneStuckBut(k, work)'
  BY <1>1, <1>2, <1>3, Zenon
<1>7. Good(saved)' /\ NoneStuckBut(saved, {})' /\ GrownFrom(saved, k)'
  BY <1>1, <1>2, <1>3, <1>4, Zenon
<1>8. (\A b \in work \intersect Pending(k) : Complete(k, b))'
  BY <1>3, Zenon
<1> QED BY <1>2, <1>3, <1>5, <1>6, <1>7, <1>8, Zenon DEF IInv

\* A poke that crashes leaves the state it found.
LEMMA CrashKeeps ==
    ASSUME IInv, Crash
    PROVE  IInv' /\ GrownFrom(saved, saved')
<1>1. k' = saved /\ work' = {} /\ saved' = saved /\ crashed' = TRUE
  BY Zenon DEF Crash
<1>2. GrownFrom(saved, saved)
  BY Zenon DEF GrownFrom
<1>3. TypeOK'
  BY <1>1, Zenon DEF IInv, TypeOK
<1>4. Good(saved) /\ NoneStuckBut(saved, {})
  BY Zenon DEF IInv
<1>5. Good(k)' /\ NoneStuckBut(k, work)'
  BY <1>1, <1>4, Zenon
<1>6. Good(saved)' /\ NoneStuckBut(saved, {})' /\ GrownFrom(saved, k)'
  BY <1>1, <1>2, <1>4, Zenon
<1>7. (\A b \in work \intersect Pending(k) : Complete(k, b))'
  BY <1>1, Zenon
<1> QED BY <1>1, <1>2, <1>3, <1>5, <1>6, <1>7, Zenon DEF IInv

\* The kernel starts with an empty state.
LEMMA InitIInv == Init => IInv
<1> SUFFICES ASSUME Init PROVE IInv
  BY Zenon
<1>1. /\ k.blocks_needed_by = [t \in Tx |-> {}]
      /\ k.excluded_txs = {}
      /\ k.spent_by = [n \in Note |-> {}]
      /\ k.pending_blocks = [b \in Block |-> None]
      /\ k.raw_txs = [t \in Tx |-> None]
      /\ k.blocks = {}
      /\ k.heaviest_block = None
      /\ k.candidate_parent = None
      /\ k.candidate_txs = {}
  BY Zenon DEF Init
<1>2. k \in State
  BY Zenon DEF Init, State
<1>3. Pending(k) = {} /\ RawTxs(k) = {}
  BY <1>1 DEF Pending, RawTxs
<1>4. Good(k)
  BY <1>1, <1>3 DEF Good, IndexesAgree, NeededByExactly, ExcludedExactly,
                    SpentByExactly, BlocksAreWhole, Chosen, Fresh, Minable
<1>5. NoneStuckBut(k, {}) /\ GrownFrom(k, k)
  BY <1>3, Zenon DEF NoneStuckBut, GrownFrom
<1>6. work = {} /\ saved = k /\ crashed = FALSE
  BY Zenon DEF Init
<1> QED BY <1>2, <1>4, <1>5, <1>6, Zenon DEF IInv, TypeOK

\* Facts about the state between pokes.
LEMMA ReadyFacts ==
    ASSUME IInv, Ready
    PROVE  /\ TypeOK /\ k \in State /\ saved = k
           /\ Good(k) /\ NoneStuckBut(k, {}) /\ GrownFrom(saved, k)
BY Zenon DEF IInv, Ready, TypeOK

\* +heard-genesis-block keeps the invariant.
LEMMA HeardGenesisBlockStep ==
    ASSUME IInv, NEW b \in Genesis, HeardGenesisBlock(b)
    PROVE  IInv' /\ GrownFrom(saved, saved')
<1>0. Ready
  BY Zenon DEF HeardGenesisBlock
<1> USE <1>0
<1>1. CASE CheckDuplicateBlock(k, b) /\ Done(k)
  BY <1>1, ReadyFacts, DoneKeeps, Zenon
<1>2. CASE /\ ~CheckDuplicateBlock(k, b)
           /\ \E c \in AcceptBlock(k, b) : Done(c)
  <2>1. PICK c \in AcceptBlock(k, b) : Done(c)
    BY <1>2, Zenon
  <2>2. b \in ValidBlock /\ b \notin k.blocks /\ Complete(k, b)
    BY <1>2, ChainAssumption, Zenon DEF CheckDuplicateBlock, Complete
  <2>3. /\ c \in State /\ Good(c) /\ GrownFrom(k, c)
        /\ NoneStuckBut(c, {} \ {b})
    BY <2>2, ReadyFacts, AcceptBlockGood, Zenon
  <2>4. NoneStuckBut(c, {})
    BY <2>3, Zenon DEF NoneStuckBut
  <2> QED BY <2>1, <2>3, <2>4, ReadyFacts, DoneKeeps, Zenon
<1> QED BY <1>1, <1>2, Zenon DEF HeardGenesisBlock

\* +heard-block keeps the invariant when it takes a block.
LEMMA HeardBlockStep ==
    ASSUME IInv, NEW b \in Block \ Genesis,
           IgnoreBlock(b) \/ HeardBlockMissingTxs(b) \/ HeardCompleteBlock(b)
    PROVE  IInv' /\ GrownFrom(saved, saved')
<1>0. Ready
  BY Zenon DEF IgnoreBlock, HeardBlockMissingTxs, HeardCompleteBlock, TakeBlock
<1> USE <1>0
<1>1. CASE IgnoreBlock(b)
  BY <1>1, ReadyFacts, DoneKeeps, Zenon DEF IgnoreBlock
<1>2. CASE HeardBlockMissingTxs(b)
  <2> DEFINE d == AddPendingBlock(k, b)
             e == UpdateHighest(d, b)
  <2>1. /\ k.heaviest_block # None /\ Parent[b] \in k.blocks
        /\ ~CheckDuplicateBlock(k, b) /\ ~Complete(k, b) /\ Done(e)
    BY <1>2, Zenon DEF HeardBlockMissingTxs, TakeBlock
  <2>2. d \in State /\ Good(d) /\ NoneStuckBut(d, {}) /\ GrownFrom(k, d)
    BY <2>1, ReadyFacts, AddPendingBlockGood, Zenon
  <2> HIDE DEF d
  <2>3. e \in State /\ SameButDerived(d, e)
    BY <2>2, UpdateHighestSame, Zenon
  <2> HIDE DEF e
  <2>4. Good(e) /\ NoneStuckBut(e, {}) /\ GrownFrom(k, e)
    BY <2>2, <2>3, SameButDerivedGood, Zenon
  <2> QED BY <2>1, <2>3, <2>4, ReadyFacts, DoneKeeps, Zenon
<1>3. CASE HeardCompleteBlock(b)
  <2>1. /\ Parent[b] \in k.blocks /\ ~CheckDuplicateBlock(k, b)
        /\ Complete(k, b)
    BY <1>3, Zenon DEF HeardCompleteBlock, TakeBlock
  <2>2. CASE /\ b \in ValidBlock
             /\ \E c \in AcceptBlock(UpdateHighest(k, b), b) : Done(c)
    <3> DEFINE d == UpdateHighest(k, b)
    <3>1. PICK c \in AcceptBlock(d, b) : Done(c)
      BY <2>2, Zenon
    <3>2. d \in State /\ SameButDerived(k, d)
      BY ReadyFacts, UpdateHighestSame, Zenon
    <3> HIDE DEF d
    <3>3. /\ Good(d) /\ NoneStuckBut(d, {}) /\ RawTxs(d) = RawTxs(k)
          /\ d.blocks = k.blocks /\ d.heaviest_block = k.heaviest_block
      BY <3>2, ReadyFacts, SameButDerivedGood, Zenon DEF SameButDerived
    <3>4. Complete(d, b) /\ b \notin d.blocks /\ Parent[b] \in d.blocks
      BY <2>1, <3>3, Zenon DEF Complete, CheckDuplicateBlock
    <3>5. /\ c \in State /\ Good(c) /\ GrownFrom(d, c)
          /\ NoneStuckBut(c, {} \ {b})
      BY <2>2, <3>1, <3>2, <3>3, <3>4, AcceptBlockGood, Zenon
    <3>6. NoneStuckBut(c, {}) /\ GrownFrom(k, c)
      BY <3>3, <3>5, Zenon DEF NoneStuckBut, GrownFrom
    <3> QED BY <3>1, <3>5, <3>6, ReadyFacts, DoneKeeps, Zenon
  <2>3. CASE b \notin ValidBlock /\ Crash
    BY <2>3, CrashKeeps, Zenon
  <2> QED BY <1>3, <2>2, <2>3, Zenon DEF HeardCompleteBlock
<1> QED BY <1>1, <1>2, <1>3, Zenon

\* Rejecting pending blocks keeps the whole invariant.
LEMMA RejectPendingBlocksGood ==
    ASSUME NEW c \in State, Good(c), NEW rs \in SUBSET Pending(c),
           NEW bs, NoneStuckBut(c, bs)
    PROVE  LET d == RejectPendingBlocks(c, rs)
           IN  /\ d \in State /\ Good(d) /\ GrownFrom(c, d)
               /\ NoneStuckBut(d, bs \ rs)
               /\ Pending(d) = Pending(c) \ rs
               /\ \A b : Complete(c, b) => Complete(d, b)
<1> DEFINE d == RejectPendingBlocks(c, rs)
<1>0. Pool(c)
  BY Zenon DEF Good, Pool
<1>1. /\ d \in State /\ Pool(d)
      /\ Pending(d) = Pending(c) \ rs
      /\ \A b \in Pending(d) : d.pending_blocks[b] = c.pending_blocks[b]
      /\ RawTxs(d) = RawTxs(c)
      /\ d.blocks = c.blocks
      /\ d.heaviest_block = c.heaviest_block
      /\ d.mining_keys = c.mining_keys
      /\ d.candidate_parent = c.candidate_parent
      /\ d.candidate_txs = c.candidate_txs
  BY <1>0, RejectPendingBlocksPool
<1> HIDE DEF d
<1>2. Chosen(d)
  BY <1>1, Zenon DEF Good, Chosen
<1>3. Fresh(d)
  BY <1>1, Zenon DEF Good, Fresh, Expired, GetCurHeight
<1>4. Minable(d)
  BY <1>1, Zenon DEF Good, Minable
<1>5. NoneStuckBut(d, bs \ rs)
  BY <1>1, Zenon DEF NoneStuckBut, Complete
<1>6. GrownFrom(c, d)
  BY <1>1, Zenon DEF GrownFrom
<1>7. \A b : Complete(c, b) => Complete(d, b)
  BY <1>1, Zenon DEF Complete
<1> QED BY <1>1, <1>2, <1>3, <1>4, <1>5, <1>6, <1>7, Zenon DEF Good, Pool, d

\* +heard-tx keeps the invariant, up to the blocks it makes ready.
LEMMA HeardTxStep ==
    ASSUME IInv, NEW t \in Tx,
           HeardKnownTx(t) \/ HeardNeededTx(t) \/ HeardLooseTx(t)
    PROVE  IInv' /\ GrownFrom(saved, saved')
<1>0. Ready
  BY Zenon DEF HeardKnownTx, HeardNeededTx, HeardLooseTx
<1> USE <1>0
<1> DEFINE d == AddRawTx(k, t)
<1>1. CASE HeardKnownTx(t)
  BY <1>1, ReadyFacts, DoneKeeps, Zenon DEF HeardKnownTx
<1>2. ASSUME t \notin RawTxs(k)
      PROVE  /\ d \in State /\ Good(d) /\ GrownFrom(saved, d)
             /\ NoneStuckBut(d, ReadyBlocks(d, t))
  BY <1>2, ReadyFacts, AddRawTxGood, Zenon
<1> HIDE DEF d
<1>3. CASE HeardNeededTx(t)
  <2>1. t \notin RawTxs(k)
    BY <1>3, Zenon DEF HeardNeededTx
  <2>2. CASE /\ k.blocks_needed_by[t] \subseteq Pending(k)
             /\ Done(RejectPendingBlocks(k, k.blocks_needed_by[t]))
    <3> DEFINE r == RejectPendingBlocks(k, k.blocks_needed_by[t])
    <3>1. /\ r \in State /\ Good(r) /\ GrownFrom(k, r)
          /\ NoneStuckBut(r, {} \ k.blocks_needed_by[t])
      BY <2>2, ReadyFacts, RejectPendingBlocksGood, Zenon
    <3>2. Done(r)
      BY <2>2, Zenon
    <3> HIDE DEF r
    <3>3. NoneStuckBut(r, {})
      BY <3>1, Zenon DEF NoneStuckBut
    <3> QED BY <3>1, <3>2, <3>3, ReadyFacts, DoneKeeps, Zenon
  <2>3. CASE Crash
    BY <2>3, CrashKeeps, Zenon
  <2>4. CASE ReadyBlocks(d, t) = {} /\ Done(d)
    BY <1>2, <2>1, <2>4, ReadyFacts, DoneKeeps, Zenon
  <2>5. CASE /\ k' = d
             /\ work' = ReadyBlocks(d, t)
             /\ saved' = k
             /\ crashed' = FALSE
             /\ ReadyBlocks(d, t) # {}
    <3>1. /\ d \in State /\ Good(d) /\ GrownFrom(saved, d)
          /\ NoneStuckBut(d, ReadyBlocks(d, t))
      BY <1>2, <2>1, Zenon
    <3>2. saved' = saved
      BY <2>5, ReadyFacts, Zenon
    <3>3. ReadyBlocks(d, t) \subseteq Block
      BY Zenon DEF ReadyBlocks, Pending
    <3>4. TypeOK'
      BY <2>5, <3>1, <3>2, <3>3, ReadyFacts, Zenon DEF TypeOK
    <3>5. Good(k)' /\ NoneStuckBut(k, work)' /\ GrownFrom(saved, k)'
      BY <2>5, <3>1, <3>2, Zenon
    <3>6. Good(saved)' /\ NoneStuckBut(saved, {})'
      BY <3>2, Zenon DEF IInv
    <3>7. GrownFrom(saved, saved')
      BY <3>2, Zenon DEF GrownFrom
    <3>8. (\A b \in work \intersect Pending(k) : Complete(k, b))'
      BY <2>5, Zenon DEF ReadyBlocks
    <3> QED BY <2>5, <3>4, <3>5, <3>6, <3>7, <3>8, Zenon DEF IInv
  <2> QED BY <1>3, <2>2, <2>3, <2>4, <2>5, Zenon DEF HeardNeededTx, d
<1>4. CASE HeardLooseTx(t)
  <2>1. t \notin RawTxs(k) /\ ~NeededByBlock(k, t)
    BY <1>4, Zenon DEF HeardLooseTx
  <2>2. CASE Done(k)
    BY <2>2, ReadyFacts, DoneKeeps, Zenon
  <2>3. CASE Done(d)
    <3>1. d.blocks_needed_by = k.blocks_needed_by
      BY ReadyFacts, Zenon DEF AddRawTx, State, d
    <3>2. ReadyBlocks(d, t) = {}
      BY <2>1, <3>1, Zenon DEF ReadyBlocks, NeededByBlock
    <3> QED BY <1>2, <2>1, <2>3, <3>2, ReadyFacts, DoneKeeps, Zenon
  <2> QED BY <1>4, <2>2, <2>3, Zenon DEF HeardLooseTx, d
<1> QED BY <1>1, <1>3, <1>4, Zenon

\* process-ready-blocks keeps the invariant with every block it processes.
LEMMA ProcessReadyBlockStep ==
    ASSUME IInv, NEW b \in work, ProcessReadyBlock(b)
    PROVE  IInv' /\ GrownFrom(saved, saved')
<1>0. /\ TypeOK /\ k \in State /\ saved \in State /\ work \subseteq Block
      /\ Good(k) /\ NoneStuckBut(k, work) /\ GrownFrom(saved, k)
  BY Zenon DEF IInv, TypeOK
<1>1. ASSUME NEW c \in State, Good(c), GrownFrom(k, c),
             NoneStuckBut(c, work \ {b}), Continue(c, b),
             \A x \in (work \ {b}) \intersect Pending(c) : Complete(c, x)
      PROVE  IInv' /\ GrownFrom(saved, saved')
  <2>1. GrownFrom(saved, c)
    BY <1>0, <1>1, GrownFromTransitive, Zenon
  <2>2. CASE work = {b}
    <3>1. NoneStuckBut(c, {}) /\ Done(c)
      BY <1>1, <2>2, Zenon DEF Continue, NoneStuckBut
    <3> QED BY <1>0, <1>1, <2>1, <3>1, DoneKeeps, Zenon
  <2>3. CASE work # {b}
    <3>1. /\ k' = c /\ work' = work \ {b}
          /\ saved' = saved /\ crashed' = crashed /\ work' # {}
      BY <1>1, <2>3, Zenon DEF Continue
    <3>2. TypeOK'
      BY <3>1, <1>0, <1>1, Zenon DEF TypeOK
    <3>3. Good(k)' /\ NoneStuckBut(k, work)' /\ GrownFrom(saved, k)'
      BY <3>1, <1>1, <2>1, Zenon
    <3>4. Good(saved)' /\ NoneStuckBut(saved, {})'
      BY <3>1, Zenon DEF IInv
    <3>5. GrownFrom(saved, saved')
      BY <3>1, Zenon DEF GrownFrom
    <3>6. (\A x \in work \intersect Pending(k) : Complete(k, x))'
      BY <3>1, <1>1, Zenon
    <3> QED BY <3>1, <3>2, <3>3, <3>4, <3>5, <3>6, Zenon DEF IInv
  <2> QED BY <2>2, <2>3, Zenon
<1>2. CASE b \notin Pending(k) /\ Crash
  BY <1>2, CrashKeeps, Zenon
<1>3. CASE /\ b \in Pending(k) \intersect ValidBlock
           /\ \E c \in AcceptBlock(k, b) : Continue(c, b)
  <2>1. PICK c \in AcceptBlock(k, b) : Continue(c, b)
    BY <1>3, Zenon
  <2>2. b \notin k.blocks /\ (b \in Genesis \/ Parent[b] \in k.blocks)
    BY <1>0, <1>3, Zenon DEF Good, BlocksAreWhole
  <2>3. \A x \in work \intersect Pending(k) : Complete(k, x)
    BY Zenon DEF IInv
  <2>4. /\ c \in State /\ Good(c) /\ GrownFrom(k, c)
        /\ NoneStuckBut(c, work \ {b})
        /\ Pending(c) \subseteq Pending(k)
        /\ \A x \in Pending(c) : Complete(k, x) => Complete(c, x)
    BY <1>0, <1>3, <2>2, <2>3, AcceptBlockGood, Zenon
  <2>5. \A x \in (work \ {b}) \intersect Pending(c) : Complete(c, x)
    BY <2>3, <2>4, Zenon
  <2> QED BY <1>1, <2>1, <2>4, <2>5, Zenon
<1>4. CASE /\ b \in Pending(k) \ ValidBlock
           /\ Continue(RejectPendingBlocks(k, {b}), b)
  <2> DEFINE r == RejectPendingBlocks(k, {b})
  <2>1. /\ r \in State /\ Good(r) /\ GrownFrom(k, r)
        /\ NoneStuckBut(r, work \ {b})
        /\ Pending(r) \subseteq Pending(k)
        /\ \A x : Complete(k, x) => Complete(r, x)
    BY <1>0, <1>4, RejectPendingBlocksGood, ZenonT(30)
  <2>2. \A x \in (work \ {b}) \intersect Pending(r) : Complete(r, x)
    BY <2>1, Zenon DEF IInv
  <2> QED BY <1>1, <1>4, <2>1, <2>2, Zenon
<1> QED BY <1>2, <1>3, <1>4, Zenon DEF ProcessReadyBlock

\* do-set-mining-key and do-enable-mining keep the invariant.
LEMMA MiningStep ==
    ASSUME IInv, SetMiningKey \/ EnableMining
    PROVE  IInv' /\ GrownFrom(saved, saved')
<1>0. Ready
  BY Zenon DEF SetMiningKey, EnableMining
<1> USE <1>0
<1>1. CASE SetMiningKey
  <2> DEFINE d == [k EXCEPT !.mining_keys = TRUE]
  <2>1. /\ d \in State
        /\ d.blocks_needed_by = k.blocks_needed_by
        /\ d.excluded_txs = k.excluded_txs
        /\ d.spent_by = k.spent_by
        /\ d.pending_blocks = k.pending_blocks
        /\ d.raw_txs = k.raw_txs
        /\ d.blocks = k.blocks
        /\ d.heaviest_block = k.heaviest_block
        /\ d.mining_keys = TRUE
        /\ d.candidate_parent = k.candidate_parent
        /\ d.candidate_txs = k.candidate_txs
    BY ReadyFacts, Zenon DEF State
  <2>2. Done(d)
    BY <1>1, Zenon DEF SetMiningKey
  <2> HIDE DEF d
  <2>3. SameConsensus(k, d)
    BY <2>1, Zenon DEF SameConsensus
  <2>4. /\ Pool(d) /\ Chosen(d) /\ Fresh(d) /\ RawTxs(d) = RawTxs(k)
        /\ NoneStuckBut(d, {}) /\ GrownFrom(saved, d)
    BY <2>3, ReadyFacts, SameConsensusKeeps, Zenon DEF Good, Pool
  <2>5. Minable(d)
    BY <2>1, <2>4, ReadyFacts, Zenon DEF Good, Minable
  <2>6. Good(d)
    BY <2>4, <2>5, Zenon DEF Good, Pool
  <2> QED BY <2>1, <2>2, <2>4, <2>6, ReadyFacts, DoneKeeps, Zenon
<1>2. CASE EnableMining
  <2>1. PICK c \in HeardNewBlock(k) : Done(c)
    BY <1>2, Zenon DEF EnableMining
  <2>2. k.heaviest_block # None
    BY <1>2, Zenon DEF EnableMining
  <2>3. Pool(k) /\ Chosen(k) /\ Fresh(k) /\ Minable(k)
    BY ReadyFacts, Zenon DEF Good, Pool
  <2>4. c \in State /\ Good(c) /\ SameConsensus(k, c)
    BY <2>2, <2>3, ReadyFacts, HeardNewBlockGood, Zenon DEF Minable
  <2>5. NoneStuckBut(c, {}) /\ GrownFrom(saved, c)
    BY <2>4, ReadyFacts, SameConsensusKeeps, Zenon
  <2> QED BY <2>1, <2>4, <2>5, ReadyFacts, DoneKeeps, Zenon
<1> QED BY <1>1, <1>2, Zenon

\* Every step keeps the invariant, and commits only what grows from the state
\* committed before.
LEMMA NextStep ==
    ASSUME IInv, [Next]_vars
    PROVE  IInv' /\ GrownFrom(saved, saved')
<1>1. CASE \E b \in Genesis : HeardGenesisBlock(b)
  BY <1>1, HeardGenesisBlockStep, Zenon
<1>2. CASE \E b \in Block \ Genesis :
              IgnoreBlock(b) \/ HeardBlockMissingTxs(b) \/ HeardCompleteBlock(b)
  BY <1>2, HeardBlockStep, Zenon
<1>3. CASE \E t \in Tx : HeardKnownTx(t) \/ HeardNeededTx(t) \/ HeardLooseTx(t)
  BY <1>3, HeardTxStep, Zenon
<1>4. CASE \E b \in work : ProcessReadyBlock(b)
  BY <1>4, ProcessReadyBlockStep, Zenon
<1>5. CASE SetMiningKey \/ EnableMining
  BY <1>5, MiningStep, Zenon
<1>6. CASE UNCHANGED vars
  <2>1. k' = k /\ work' = work /\ saved' = saved /\ crashed' = crashed
    BY <1>6, Zenon DEF vars
  <2>2. TypeOK'
    BY <2>1, Zenon DEF IInv, TypeOK
  <2>3. Good(k)' /\ NoneStuckBut(k, work)' /\ GrownFrom(saved, k)'
    BY <2>1, Zenon DEF IInv
  <2>4. Good(saved)' /\ NoneStuckBut(saved, {})'
    BY <2>1, Zenon DEF IInv
  <2>5. (\A b \in work \intersect Pending(k) : Complete(k, b))'
    BY <2>1, Zenon DEF IInv
  <2>6. GrownFrom(saved, saved')
    BY <2>1, Zenon DEF GrownFrom
  <2> QED BY <2>1, <2>2, <2>3, <2>4, <2>5, <2>6, Zenon DEF IInv
<1> QED BY <1>1, <1>2, <1>3, <1>4, <1>5, <1>6, Zenon DEF Next

-----------------------------------------------------------------------------
(* Theorems *)

\* The inductive invariant holds in every reachable state.
THEOREM ConsensusInvariant == Spec => []IInv
<1>1. IInv /\ [Next]_vars => IInv'
  BY NextStep, Zenon
<1> QED BY InitIInv, <1>1, PTL DEF Spec

\* Every field of the kernel state keeps its type.
THEOREM ConsensusTypes == Spec => []TypeOK
<1>1. IInv => TypeOK
  BY Zenon DEF IInv
<1> QED BY ConsensusInvariant, <1>1, PTL

\* The pool's indexes agree with each other and with the accepted and pending
\* blocks, as the comments of consensus-state and +apt demand.
THEOREM PoolIndexesAgreeTheorem == Spec => []PoolIndexesAgree
<1>1. IInv => PoolIndexesAgree
  BY Zenon DEF IInv, Good, PoolIndexesAgree
<1> QED BY ConsensusInvariant, <1>1, PTL

\* No garbage collection takes a transaction from an accepted block.
THEOREM AcceptedBlocksAreWholeTheorem == Spec => []AcceptedBlocksAreWhole
<1>1. IInv => AcceptedBlocksAreWhole
  BY Zenon DEF IInv, Good, AcceptedBlocksAreWhole
<1> QED BY ConsensusInvariant, <1>1, PTL

\* No block that misses nothing is left pending between pokes.
THEOREM NoPendingBlockIsStuckTheorem == Spec => []NoPendingBlockIsStuck
<1>1. IInv => NoPendingBlockIsStuck
  BY Zenon DEF IInv, NoPendingBlockIsStuck, NoneStuck, NoneStuckBut
<1> QED BY ConsensusInvariant, <1>1, PTL

\* No pending block outlives a positive retention limit.
THEOREM PendingBlocksAreFreshTheorem == Spec => []PendingBlocksAreFresh
<1>1. IInv => PendingBlocksAreFresh
  BY Zenon DEF IInv, Good, PendingBlocksAreFresh
<1> QED BY ConsensusInvariant, <1>1, PTL

\* The candidate block is on the heaviest block, with transactions of the
\* pool.
THEOREM CandidateIsMinableTheorem == Spec => []CandidateIsMinable
<1>1. IInv => CandidateIsMinable
  BY Zenon DEF IInv, Good, CandidateIsMinable
<1> QED BY ConsensusInvariant, <1>1, PTL

\* What the pokes commit implements ForkChoice: valid blocks with their
\* ancestors, none ever forgotten, and the first heaviest one on top, also
\* when one transaction makes several blocks ready or such a poke crashes.
THEOREM ConsensusImplementsForkChoice == Spec => ImplementsForkChoice
<1>1. Init => Fork!Init
  <2> SUFFICES ASSUME Init PROVE Fork!Init
    BY Zenon
  <2>1. saved = k /\ k.blocks = {} /\ k.heaviest_block = None
    BY Zenon DEF Init
  <2> QED BY <2>1, Zenon DEF Fork!Init
<1>2. IInv /\ IInv' /\ [Next]_vars => [Fork!Next]_(Fork!vars)
  <2> SUFFICES ASSUME IInv, IInv', [Next]_vars
               PROVE  [Fork!Next]_(Fork!vars)
    BY Zenon
  <2>1. GrownFrom(saved, saved')
    BY NextStep, Zenon
  <2>2. saved \in State /\ Good(saved) /\ saved' \in State /\ Good(saved')
    BY Zenon DEF IInv, TypeOK
  <2> DEFINE new == saved'.blocks \ saved.blocks
  <2>3. CASE saved'.heaviest_block = None
    <3>1. saved'.blocks = {}
      BY <2>2, <2>3, Zenon DEF Good, Chosen
    <3>2. saved.blocks = {} /\ saved.heaviest_block = None
      BY <2>1, <2>3, <3>1, Zenon DEF GrownFrom
    <3> QED BY <2>3, <3>1, <3>2, Zenon DEF Fork!vars
  <2>4. CASE saved'.heaviest_block # None
    <3>1. /\ saved'.heaviest_block \in saved'.blocks
          /\ \A b \in saved'.blocks : Work[b] <= Work[saved'.heaviest_block]
      BY <2>2, <2>4, Zenon DEF Good, Chosen
    <3>2. \A b \in saved'.blocks \ Genesis : Parent[b] \in saved'.blocks
      BY <2>2, Zenon DEF Good, BlocksAreWhole
    <3>3. new \in SUBSET Block /\ new \subseteq ValidBlock \ saved.blocks
      BY <2>1, <2>2, Zenon DEF GrownFrom, State
    <3>4. saved'.blocks = saved.blocks \union new
      BY <2>1, Zenon DEF GrownFrom
    <3>5. Fork!Accept(new)
      BY <3>2, <3>3, <3>4, Zenon DEF Fork!Accept
    <3>6. ASSUME saved.heaviest_block # None,
                 Work[saved'.heaviest_block] = Work[saved.heaviest_block]
          PROVE  saved'.heaviest_block = saved.heaviest_block
      <4>1. saved.heaviest_block \in Block
        BY <2>2, <3>6, Zenon DEF State
      <4>2. Work[saved.heaviest_block] \in Nat
        BY <4>1, Zenon
      <4>3. ~(Work[saved'.heaviest_block] > Work[saved.heaviest_block])
        BY <3>6, <4>2
      <4> QED BY <2>1, <3>6, <4>3, Zenon DEF GrownFrom
    <3>7. Fork!Choose
      BY <3>1, <3>6, Zenon DEF Fork!Choose
    <3> QED BY <3>3, <3>5, <3>7, Zenon DEF Fork!Next
  <2> QED BY <2>3, <2>4, Zenon
<1> QED BY <1>1, <1>2, ConsensusInvariant, PTL
        DEF Spec, ImplementsForkChoice, Fork!Spec

-----------------------------------------------------------------------------
(* The derived chain *)

\* The states agree on the heaviest block and the derived chain.
SameChain(c, d) ==
    d.heaviest_chain = c.heaviest_chain /\ d.heaviest_block = c.heaviest_block

\* Nothing but the two fields matters to ChainExact.
LEMMA SameChainExact ==
    ASSUME NEW c, NEW d, SameChain(c, d), ChainExact(c) PROVE ChainExact(d)
BY Zenon DEF SameChain, ChainExact

\* Heights at or below a block's height are heights of blocks.
LEMMA HeightsBelow ==
    ASSUME NEW b \in Block PROVE 0..Height[b] \subseteq Heights
<1> SUFFICES ASSUME NEW h \in 0..Height[b] PROVE h \in Heights
  BY Zenon
<1>1. Ancestors[b] \in [0..Height[b] -> Block] /\ Height[Ancestors[b][h]] = h
  BY AncestorsAssumption
<1>2. Ancestors[b][h] \in Block
  BY <1>1, Zenon
<1> QED BY <1>1, <1>2, Zenon DEF Heights

\* Two blocks that share an ancestor at a height share all those below it.
LEMMA SharedAncestors ==
    \A x, y \in Block : \A g \in 0..Height[x] \intersect 0..Height[y] :
        Ancestors[x][g] = Ancestors[y][g] =>
            \A h \in 0..g : Ancestors[x][h] = Ancestors[y][h]
<1> SUFFICES ASSUME NEW x \in Block, NEW y \in Block,
                    NEW g \in 0..Height[x] \intersect 0..Height[y],
                    Ancestors[x][g] = Ancestors[y][g], NEW h \in 0..g
             PROVE  Ancestors[x][h] = Ancestors[y][h]
  BY Zenon
<1>1. Ancestors[Ancestors[x][g]][h] = Ancestors[x][h]
  BY AncestorsAssumption, SMTT(30)
<1>2. Ancestors[Ancestors[y][g]][h] = Ancestors[y][h]
  BY AncestorsAssumption
<1> QED BY <1>1, <1>2, Zenon

\* +update:der restores the chain after the heaviest block has changed, and
\* may stop at the first height that is right: below it everything is.
LEMMA UpdateDerivedExact ==
    ASSUME EvenWork, NEW c \in State, ChainExact(c),
           NEW n \in State, n.heaviest_chain = c.heaviest_chain,
           n.heaviest_block # None,
           \/ n.heaviest_block = c.heaviest_block
           \/ c.heaviest_block = None
           \/ Work[n.heaviest_block] > Work[c.heaviest_block],
           NEW b \in Block
    PROVE  ChainExact(UpdateDerived(n, b))
<1> DEFINE top == Height[n.heaviest_block]
           line == Ancestors[n.heaviest_block]
           revised == {h \in 0..top :
                          \A g \in h..top : n.heaviest_chain[g] # line[g]}
           e == UpdateHighest(n, b)
           d == UpdateDerived(n, b)
<1>1. n.heaviest_block \in Block /\ top \in Nat
  BY Zenon DEF State
<1>2. line \in [0..top -> Block] /\ 0..top \subseteq Heights
  BY <1>1, AncestorsAssumption, HeightsBelow, Zenon
<1>3. e \in State /\ SameButDerived(n, e) /\ e.heaviest_chain = n.heaviest_chain
  BY UpdateHighestSame, Zenon
<1>4. /\ d.heaviest_block = n.heaviest_block
      /\ d.heaviest_chain = [h \in Heights |-> IF h \in revised THEN line[h]
                                               ELSE n.heaviest_chain[h]]
  <2>1. d = [e EXCEPT !.heaviest_chain =
                [h \in Heights |-> IF h \in revised THEN line[h]
                                   ELSE e.heaviest_chain[h]]]
    BY Zenon DEF UpdateDerived
  <2> HIDE DEF d, e, revised, line
  <2>2. e.heaviest_block = n.heaviest_block
    BY <1>3, Zenon DEF SameButDerived
  <2> QED BY <1>3, <2>1, <2>2, Zenon DEF State
<1>5. \A h \in Heights : h \in Nat
  BY DEF Heights
<1>6. c.heaviest_block # None => /\ c.heaviest_block \in Block
                                 /\ Height[c.heaviest_block] \in Nat
                                 /\ Height[c.heaviest_block] <= top
  BY <1>1 DEF State, EvenWork
<1>r. \A h : h \in revised <=> /\ h \in 0..top
                               /\ \A g \in h..top : c.heaviest_chain[g] # line[g]
  BY Zenon
<1> HIDE DEF d, e, revised
<1>7. ASSUME NEW h \in Heights, h <= top
      PROVE  d.heaviest_chain[h] = line[h]
  <2>0. h \in 0..top
    BY <1>5, <1>7, <1>1
  <2>1. CASE h \in revised
    BY <2>1, <1>4, Zenon
  <2>2. CASE h \notin revised
    <3>1. PICK g \in h..top : c.heaviest_chain[g] = line[g]
      BY <2>0, <2>2, <1>r, Zenon
    <3>2. g \in 0..top /\ h \in 0..g /\ g \in Heights
      <4> HIDE DEF top
      <4>1. top \in Nat /\ h \in 0..top /\ g \in h..top
        BY <1>1, <2>0, <3>1, Zenon
      <4>2. g \in 0..top /\ h \in 0..g
        BY <4>1
      <4> QED BY <4>2, <1>2, Zenon
    <3>3. line[g] # None
      BY <3>2, <1>2, Zenon
    <3>4. /\ c.heaviest_block # None /\ g <= Height[c.heaviest_block]
          /\ c.heaviest_chain[g] = Ancestors[c.heaviest_block][g]
      BY <3>1, <3>2, <3>3, Zenon DEF ChainExact
    <3>5. g \in 0..Height[c.heaviest_block] /\ h <= Height[c.heaviest_block]
      BY <3>2, <3>4, <1>1, <1>6
    <3>6. c.heaviest_chain[h] = Ancestors[c.heaviest_block][h]
      BY <3>4, <3>5, Zenon DEF ChainExact
    <3>7. Ancestors[c.heaviest_block][h] = line[h]
      <4>1. Ancestors[n.heaviest_block][g] = Ancestors[c.heaviest_block][g]
        BY <3>1, <3>4, Zenon
      <4>2. n.heaviest_block \in Block /\ g \in 0..Height[n.heaviest_block]
        BY <3>2, <1>1, Zenon
      <4>3. c.heaviest_block \in Block /\ g \in 0..Height[c.heaviest_block]
        BY <3>4, <3>5, <1>6, Zenon
      <4>4. Ancestors[n.heaviest_block][h] = Ancestors[c.heaviest_block][h]
        <5> DEFINE x == n.heaviest_block
                   y == c.heaviest_block
        <5>1. /\ x \in Block /\ y \in Block /\ h \in 0..g
              /\ g \in 0..Height[x] \intersect 0..Height[y]
              /\ Ancestors[x][g] = Ancestors[y][g]
          BY <3>2, <4>1, <4>2, <4>3, Zenon
        <5> HIDE DEF x, y
        <5>2. Ancestors[x][h] = Ancestors[y][h]
          BY ONLY <5>1, SharedAncestors, Zenon
        <5> QED BY <5>2, Zenon DEF x, y
      <4> QED BY <4>4, Zenon
    <3> QED BY <2>2, <3>6, <3>7, <1>4, Zenon
  <2> QED BY <2>1, <2>2, Zenon
<1>8. ASSUME NEW h \in Heights, ~(h <= top)
      PROVE  d.heaviest_chain[h] = None
  <2>1. h \notin revised
    BY <1>8, <1>r, <1>1
  <2>2. c.heaviest_block # None => ~(h <= Height[c.heaviest_block])
    BY <1>1, <1>5, <1>6, <1>8
  <2>3. c.heaviest_chain[h] = None
    BY <2>2, Zenon DEF ChainExact
  <2> QED BY <2>1, <2>3, <1>4, Zenon
<1> QED BY <1>4, <1>7, <1>8, Zenon DEF ChainExact, d

\* The garbage collector leaves the derived chain alone.
LEMMA GarbageCollectChain ==
    ASSUME NEW c \in State, Pool(c) PROVE SameChain(c, GarbageCollect(c))
<1> DEFINE rs == DropablePendingBlocks(c)
           e == RejectPendingBlocks(c, rs)
           ts == DropableTxs(e)
<1>1. rs \in SUBSET Pending(c)
  BY Zenon DEF DropablePendingBlocks
<1>2. e \in State /\ Pool(e) /\ SameChain(c, e)
  BY <1>1, RejectPendingBlocksPool, Zenon DEF SameChain
<1> HIDE DEF e
<1>3. ts \in SUBSET e.excluded_txs
  BY Zenon DEF DropableTxs
<1>4. SameChain(e, DropTxs(e, ts))
  BY <1>2, <1>3, DropTxsPool DEF SameChain
<1>5. GarbageCollect(c) = DropTxs(e, ts)
  BY Zenon DEF GarbageCollect, e
<1> QED BY <1>2, <1>4, <1>5, Zenon DEF SameChain

\* So does the candidate block, new or updated.
LEMMA CandidateChain ==
    ASSUME NEW c \in State, Pool(c),
           NEW m \in HeardNewBlock(c) \union UpdateCandidateBlock(c)
    PROVE  SameChain(c, m)
<1> DEFINE e == [c EXCEPT !.candidate_parent = c.heaviest_block,
                          !.candidate_txs = {}]
<1>1. /\ e \in State /\ SameChain(c, e)
      /\ e.excluded_txs = c.excluded_txs /\ e.raw_txs = c.raw_txs
  BY Zenon DEF State, SameChain
<1> HIDE DEF e
<1>2. c.excluded_txs \subseteq RawTxs(c) /\ e.excluded_txs \subseteq RawTxs(e)
  BY <1>1, ExcludedAreRaw, Zenon DEF RawTxs
<1>3. m = c \/ m \in AddTxsToCandidate(c) \/ m \in AddTxsToCandidate(e)
  BY Zenon DEF HeardNewBlock, UpdateCandidateBlock, e
<1>4. CASE m = c
  BY <1>4, Zenon DEF SameChain
<1>5. CASE m \in AddTxsToCandidate(c)
  BY <1>2, <1>5, AddTxsToCandidateSame, Zenon DEF SameChain
<1>6. CASE m \in AddTxsToCandidate(e)
  BY <1>1, <1>2, <1>6, AddTxsToCandidateSame DEF SameChain
<1> QED BY <1>3, <1>4, <1>5, <1>6, Zenon

\* Accepting a block keeps the chain exact.
LEMMA AcceptBlockChain ==
    ASSUME EvenWork, NEW c \in State, Good(c), ChainExact(c),
           NEW b \in Block, b \notin c.blocks, Complete(c, b),
           b \in Genesis \/ Parent[b] \in c.blocks,
           NEW m \in AcceptBlock(c, b)
    PROVE  ChainExact(m)
<1> DEFINE p == AcceptPage(c, b)
           u == UpdateHeaviest(p, b)
           e == IF u.heaviest_block # c.heaviest_block
                THEN GarbageCollect(u) ELSE u
<1>0. Pool(c) /\ Chosen(c)
  BY Zenon DEF Good, Pool
<1>1. /\ p \in State /\ Pool(p) /\ SameChain(c, p)
      /\ p.blocks = c.blocks \union {b}
      /\ Pending(p) \subseteq Pending(c)
  BY <1>0, AcceptPagePool DEF SameChain
<1> HIDE DEF p
<1>2. /\ u \in State /\ u.heaviest_block # None
      /\ \/ u.heaviest_block = c.heaviest_block
         \/ c.heaviest_block = None
         \/ Work[u.heaviest_block] > Work[c.heaviest_block]
      /\ \A f \in {"blocks_needed_by", "excluded_txs", "spent_by",
                   "pending_blocks", "raw_txs", "blocks",
                   "heaviest_chain"} : u[f] = p[f]
  BY <1>0, <1>1, UpdateHeaviestChosen DEF SameChain
<1> HIDE DEF u
<1>3. /\ u.blocks_needed_by = p.blocks_needed_by
      /\ u.excluded_txs = p.excluded_txs /\ u.spent_by = p.spent_by
      /\ u.pending_blocks = p.pending_blocks /\ u.raw_txs = p.raw_txs
      /\ u.blocks = p.blocks /\ u.heaviest_chain = p.heaviest_chain
  BY <1>2, Zenon
<1>4. Pool(u)
  BY <1>1, <1>3 DEF Pool, IndexesAgree, NeededByExactly, ExcludedExactly,
                    SpentByExactly, BlocksAreWhole, Complete, Pending, RawTxs
<1>5. e \in State /\ Pool(e) /\ SameChain(u, e)
  <2>1. CASE u.heaviest_block # c.heaviest_block
    BY <2>1, <1>2, <1>4, GarbageCollectPool, GarbageCollectChain, Zenon
  <2>2. CASE u.heaviest_block = c.heaviest_block
    BY <2>2, <1>2, <1>4, Zenon DEF SameChain
  <2> QED BY <2>1, <2>2, Zenon
<1>6. PICK n \in HeardNewBlock(e) : m = UpdateDerived(n, b)
  BY Zenon DEF AcceptBlock, e, u, p
<1> HIDE DEF e
<1>7. n \in State /\ SameChain(e, n)
  <2>1. SameChain(e, n)
    BY <1>5, <1>6, CandidateChain, Zenon
  <2>2. n \in State
    <3> DEFINE g == [e EXCEPT !.candidate_parent = e.heaviest_block,
                              !.candidate_txs = {}]
    <3>1. g \in State /\ g.excluded_txs = e.excluded_txs /\ g.raw_txs = e.raw_txs
      BY <1>5, Zenon DEF State
    <3> HIDE DEF g
    <3>2. g.excluded_txs \subseteq RawTxs(g)
      BY <3>1, <1>5, ExcludedAreRaw, Zenon DEF RawTxs
    <3>3. n = e \/ n \in AddTxsToCandidate(g)
      BY <1>6, Zenon DEF HeardNewBlock, g
    <3> QED BY <3>1, <3>2, <3>3, <1>5, AddTxsToCandidateSame, Zenon
  <2> QED BY <2>1, <2>2, Zenon
<1>8. n.heaviest_chain = c.heaviest_chain /\ n.heaviest_block = u.heaviest_block
  BY <1>1, <1>3, <1>5, <1>7, Zenon DEF SameChain
<1> QED BY <1>2, <1>6, <1>7, <1>8, UpdateDerivedExact, Zenon

\* Both states, the running poke's and the committed one, have exact chains.
ChainsExact == ChainExact(k) /\ ChainExact(saved)

\* A poke that ends with an exact chain commits one.
LEMMA DoneChain ==
    ASSUME NEW c \in State, Good(c), ChainExact(c), Done(c)
    PROVE  ChainsExact'
<1>1. Pool(c) /\ k' \in UpdateCandidateBlock(c) /\ saved' = k'
  BY Zenon DEF Good, Pool, Done
<1>2. ChainExact(k')
  BY <1>1, CandidateChain, SameChainExact, Zenon
<1> QED BY <1>1, <1>2, Zenon DEF ChainsExact

\* A crash goes back to an exact chain.
LEMMA CrashChain == ASSUME ChainsExact, Crash PROVE ChainsExact'
BY Zenon DEF ChainsExact, Crash

\* +heard-block keeps the chain exact.
LEMMA HeardBlockChain ==
    ASSUME EvenWork, IInv, ChainsExact, NEW b \in Block,
           \/ b \in Genesis /\ HeardGenesisBlock(b)
           \/ IgnoreBlock(b)
           \/ b \notin Genesis /\ HeardBlockMissingTxs(b)
           \/ b \notin Genesis /\ HeardCompleteBlock(b)
    PROVE  ChainsExact'
<1>0. Ready /\ ChainExact(k)
  BY Zenon DEF HeardGenesisBlock, IgnoreBlock, HeardBlockMissingTxs,
         HeardCompleteBlock, TakeBlock, ChainsExact
<1> USE <1>0
<1>1. CASE Done(k)
  BY <1>1, ReadyFacts, DoneChain, Zenon
<1>2. CASE Crash
  BY <1>2, CrashChain, Zenon
<1>3. CASE /\ b \in Genesis /\ ~CheckDuplicateBlock(k, b)
           /\ \E c \in AcceptBlock(k, b) : Done(c)
  <2>1. PICK c \in AcceptBlock(k, b) : Done(c)
    BY <1>3, Zenon
  <2>2. b \in ValidBlock /\ b \notin k.blocks /\ Complete(k, b)
    BY <1>3, ChainAssumption, Zenon DEF CheckDuplicateBlock, Complete
  <2>3. c \in State /\ Good(c)
    BY <1>3, <2>2, ReadyFacts, AcceptBlockGood, Zenon
  <2>4. ChainExact(c)
    BY <1>3, <2>2, ReadyFacts, AcceptBlockChain, Zenon
  <2> QED BY <2>1, <2>3, <2>4, DoneChain, Zenon
<1>4. CASE b \notin Genesis /\ HeardBlockMissingTxs(b)
  <2> DEFINE d == AddPendingBlock(k, b)
             e == UpdateHighest(d, b)
  <2>1. /\ k.heaviest_block # None /\ Parent[b] \in k.blocks
        /\ ~CheckDuplicateBlock(k, b) /\ ~Complete(k, b) /\ Done(e)
    BY <1>4, Zenon DEF HeardBlockMissingTxs, TakeBlock
  <2>2. d \in State /\ Good(d)
    BY <1>4, <2>1, ReadyFacts, AddPendingBlockGood, Zenon
  <2>3. SameChain(k, d)
    <3> DEFINE f == NeedTxsOf(k, b)
    <3>2. SameChain(k, f)
      BY ReadyFacts, Zenon DEF NeedTxsOf, State, SameChain
    <3>3. DOMAIN f = DOMAIN k
      BY Zenon DEF NeedTxsOf
    <3> HIDE DEF f
    <3>4. d = [f EXCEPT !.pending_blocks[b] = GetCurHeight(k)]
      BY Zenon DEF AddPendingBlock, f
    <3> HIDE DEF d
    <3>5. SameChain(f, d)
      BY <3>3, <3>4, ReadyFacts, Zenon DEF State, SameChain
    <3> QED BY <3>2, <3>5, Zenon DEF SameChain
  <2> HIDE DEF d
  <2>4. e \in State /\ SameButDerived(d, e) /\ e.heaviest_chain = d.heaviest_chain
    BY <2>2, UpdateHighestSame, Zenon
  <2> HIDE DEF e
  <2>5. Good(e) /\ SameChain(k, e)
    <3>1. NoneStuckBut(d, {}) /\ GrownFrom(k, d)
      BY <1>4, <2>1, ReadyFacts, AddPendingBlockGood, Zenon DEF d
    <3>2. Good(e)
      BY <2>2, <2>4, <3>1, SameButDerivedGood, Zenon
    <3> QED BY <2>3, <2>4, <3>2, Zenon DEF SameChain, SameButDerived
  <2>6. ChainExact(e)
    BY <2>5, SameChainExact, Zenon
  <2> QED BY <2>1, <2>4, <2>5, <2>6, DoneChain, Zenon
<1>5. CASE /\ b \notin Genesis /\ TakeBlock(b) /\ Complete(k, b) /\ b \in ValidBlock
           /\ \E c \in AcceptBlock(UpdateHighest(k, b), b) : Done(c)
  <2> DEFINE d == UpdateHighest(k, b)
  <2>1. PICK c \in AcceptBlock(d, b) : Done(c)
    BY <1>5, Zenon
  <2>2. d \in State /\ SameButDerived(k, d) /\ d.heaviest_chain = k.heaviest_chain
    BY ReadyFacts, UpdateHighestSame, Zenon
  <2> HIDE DEF d
  <2>3. /\ Good(d) /\ NoneStuckBut(d, {}) /\ RawTxs(d) = RawTxs(k)
        /\ d.blocks = k.blocks /\ SameChain(k, d)
    BY <2>2, ReadyFacts, SameButDerivedGood, Zenon DEF SameButDerived, SameChain
  <2>4. Complete(d, b) /\ b \notin d.blocks /\ Parent[b] \in d.blocks
    BY <1>5, <2>3, Zenon DEF Complete, CheckDuplicateBlock, TakeBlock
  <2>5. c \in State /\ Good(c)
    BY <1>5, <2>1, <2>2, <2>3, <2>4, AcceptBlockGood, Zenon
  <2>6. ChainExact(d)
    BY <2>3, SameChainExact, Zenon
  <2>7. ChainExact(c)
    BY <2>1, <2>2, <2>3, <2>4, <2>6, AcceptBlockChain, Zenon
  <2> QED BY <2>1, <2>5, <2>7, DoneChain, Zenon
<1> QED BY <1>1, <1>2, <1>3, <1>4, <1>5, Zenon
        DEF HeardGenesisBlock, IgnoreBlock, HeardCompleteBlock

\* +heard-tx keeps the chain exact: it changes the pool only.
LEMMA HeardTxChain ==
    ASSUME IInv, ChainsExact, NEW t \in Tx,
           HeardKnownTx(t) \/ HeardNeededTx(t) \/ HeardLooseTx(t)
    PROVE  ChainsExact'
<1>0. Ready /\ ChainExact(k) /\ (t \in RawTxs(k) => HeardKnownTx(t))
  BY Zenon DEF HeardKnownTx, HeardNeededTx, HeardLooseTx, ChainsExact
<1> USE <1>0
<1> DEFINE d == AddRawTx(k, t)
           r == RejectPendingBlocks(k, k.blocks_needed_by[t])
<1>1. CASE Done(k)
  BY <1>1, ReadyFacts, DoneChain, Zenon
<1>2. CASE Crash
  BY <1>2, CrashChain, Zenon
<1>3. ASSUME t \notin RawTxs(k) PROVE d \in State /\ Good(d) /\ ChainExact(d)
  <2>1. d \in State /\ Good(d)
    BY <1>3, ReadyFacts, AddRawTxGood, Zenon
  <2>2. SameChain(k, d)
    BY ReadyFacts, Zenon DEF AddRawTx, State, SameChain
  <2> QED BY <2>1, <2>2, SameChainExact, Zenon
<1>4. CASE t \notin RawTxs(k) /\ Done(d)
  BY <1>3, <1>4, DoneChain, Zenon
<1>5. CASE t \notin RawTxs(k) /\ k' = d /\ saved' = k
  BY <1>3, <1>5, Zenon DEF ChainsExact
<1>6. CASE k.blocks_needed_by[t] \subseteq Pending(k) /\ Done(r)
  <2>1. r \in State /\ Good(r)
    BY <1>6, ReadyFacts, RejectPendingBlocksGood, Zenon
  <2>2. Pool(k)
    BY ReadyFacts, Zenon DEF Good, Pool
  <2>3. SameChain(k, r)
    BY <1>6, <2>2, ReadyFacts, RejectPendingBlocksPool DEF SameChain
  <2> QED BY <1>6, <2>1, <2>3, SameChainExact, DoneChain, SMTT(30)
<1> QED BY <1>1, <1>2, <1>4, <1>5, <1>6, Zenon
        DEF HeardKnownTx, HeardNeededTx, HeardLooseTx

\* process-ready-blocks keeps the chain exact.
LEMMA ProcessReadyBlockChain ==
    ASSUME EvenWork, IInv, ChainsExact, NEW b \in work, ProcessReadyBlock(b)
    PROVE  ChainsExact'
<1>0. /\ k \in State /\ work \subseteq Block /\ Good(k) /\ Pool(k)
      /\ NoneStuckBut(k, work) /\ ChainExact(k)
  BY Zenon DEF IInv, TypeOK, Good, Pool, ChainsExact
<1>1. ASSUME NEW c \in State, Good(c), ChainExact(c), Continue(c, b)
      PROVE  ChainsExact'
  <2>1. CASE Done(c)
    BY <1>1, <2>1, DoneChain, Zenon
  <2>2. CASE k' = c /\ saved' = saved
    BY <1>1, <2>2, Zenon DEF ChainsExact
  <2> QED BY <1>1, <2>1, <2>2, Zenon DEF Continue
<1>2. CASE Crash
  BY <1>2, CrashChain, Zenon
<1>3. CASE /\ b \in Pending(k) \intersect ValidBlock
           /\ \E c \in AcceptBlock(k, b) : Continue(c, b)
  <2>1. PICK c \in AcceptBlock(k, b) : Continue(c, b)
    BY <1>3, Zenon
  <2>2. b \notin k.blocks /\ (b \in Genesis \/ Parent[b] \in k.blocks)
    BY <1>0, <1>3, Zenon DEF Good, BlocksAreWhole
  <2>3. Complete(k, b)
    BY <1>3, Zenon DEF IInv
  <2>4. c \in State /\ Good(c)
    BY <1>0, <1>3, <2>2, <2>3, AcceptBlockGood, Zenon
  <2>5. ChainExact(c)
    BY <1>0, <1>3, <2>2, <2>3, AcceptBlockChain, Zenon
  <2> QED BY <1>1, <2>1, <2>4, <2>5, Zenon
<1>4. CASE b \in Pending(k) /\ Continue(RejectPendingBlocks(k, {b}), b)
  <2> DEFINE r == RejectPendingBlocks(k, {b})
  <2>1. r \in State /\ Good(r)
    BY <1>0, <1>4, RejectPendingBlocksGood, Zenon
  <2>2. SameChain(k, r)
    BY <1>0, <1>4, RejectPendingBlocksPool DEF SameChain
  <2>3. ChainExact(r)
    BY <1>0, <2>2, SameChainExact, Zenon
  <2> QED BY <1>1, <1>4, <2>1, <2>3, Zenon
<1> QED BY <1>2, <1>3, <1>4, Zenon DEF ProcessReadyBlock

\* The mining commands keep the chain exact.
LEMMA MiningChain ==
    ASSUME IInv, ChainsExact, SetMiningKey \/ EnableMining
    PROVE  ChainsExact'
<1>0. Ready /\ ChainExact(k)
  BY Zenon DEF SetMiningKey, EnableMining, ChainsExact
<1> USE <1>0
<1>1. ASSUME NEW c \in State, Pool(c), SameChain(k, c), Done(c)
      PROVE  ChainsExact'
  <2>1. ChainExact(c)
    BY <1>1, SameChainExact, Zenon
  <2>2. k' \in UpdateCandidateBlock(c) /\ saved' = k'
    BY <1>1, Zenon DEF Done
  <2>3. ChainExact(k')
    BY <1>1, <2>1, <2>2, CandidateChain, SameChainExact, Zenon
  <2> QED BY <2>2, <2>3, Zenon DEF ChainsExact
<1>2. CASE SetMiningKey
  <2> DEFINE d == [k EXCEPT !.mining_keys = TRUE]
  <2>1. d \in State /\ SameChain(k, d) /\ SameConsensus(k, d)
    BY ReadyFacts, Zenon DEF State, SameChain, SameConsensus
  <2>2. Done(d)
    BY <1>2, Zenon DEF SetMiningKey
  <2> HIDE DEF d
  <2>3. Pool(d)
    BY <2>1, ReadyFacts, SameConsensusKeeps, Zenon DEF Good, Pool
  <2> QED BY <1>1, <2>1, <2>2, <2>3, Zenon
<1>3. CASE EnableMining
  <2>1. PICK c \in HeardNewBlock(k) : Done(c)
    BY <1>3, Zenon DEF EnableMining
  <2>2. k.heaviest_block # None
    BY <1>3, Zenon DEF EnableMining
  <2>3. Pool(k) /\ Chosen(k) /\ Fresh(k) /\ Minable(k)
    BY ReadyFacts, Zenon DEF Good, Pool
  <2>4. c \in State /\ Good(c)
    BY <2>2, <2>3, ReadyFacts, HeardNewBlockGood, Zenon DEF Minable
  <2>5. SameChain(k, c) /\ Pool(c)
    BY <2>3, <2>4, ReadyFacts, CandidateChain, Zenon DEF Good, Pool
  <2> QED BY <1>1, <2>1, <2>4, <2>5, Zenon
<1> QED BY <1>2, <1>3, Zenon

\* While the target does not change, the walk of +update:der that stops at
\* the first height that is right leaves the whole chain right.
THEOREM HeaviestChainIsAccurateTheorem ==
    EvenWork => (Spec => []HeaviestChainIsAccurate)
<1> SUFFICES ASSUME EvenWork PROVE Spec => []HeaviestChainIsAccurate
  BY Zenon
<1>1. Init => ChainsExact
  BY DEF Init, ChainsExact, ChainExact
<1>2. IInv /\ ChainsExact /\ [Next]_vars => ChainsExact'
  <2> SUFFICES ASSUME IInv, ChainsExact, [Next]_vars PROVE ChainsExact'
    BY Zenon
  <2>1. CASE \E b \in Genesis : HeardGenesisBlock(b)
    BY <2>1, HeardBlockChain, Zenon
  <2>2. CASE \E b \in Block \ Genesis :
                IgnoreBlock(b) \/ HeardBlockMissingTxs(b) \/ HeardCompleteBlock(b)
    BY <2>2, HeardBlockChain, Zenon
  <2>3. CASE \E t \in Tx : HeardKnownTx(t) \/ HeardNeededTx(t) \/ HeardLooseTx(t)
    BY <2>3, HeardTxChain, Zenon
  <2>4. CASE \E b \in work : ProcessReadyBlock(b)
    BY <2>4, ProcessReadyBlockChain, Zenon
  <2>5. CASE SetMiningKey \/ EnableMining
    BY <2>5, MiningChain, Zenon
  <2>6. CASE UNCHANGED vars
    BY <2>6, Zenon DEF vars, ChainsExact
  <2> QED BY <2>1, <2>2, <2>3, <2>4, <2>5, <2>6, Zenon DEF Next
<1>3. IInv /\ ChainsExact => HeaviestChainIsAccurate
  <2> SUFFICES ASSUME IInv, ChainsExact, k.heaviest_block # None,
                      NEW h \in 0..Height[k.heaviest_block]
               PROVE  k.heaviest_chain[h] = Ancestors[k.heaviest_block][h]
    BY Zenon DEF HeaviestChainIsAccurate
  <2>1. k.heaviest_block \in Block /\ Height[k.heaviest_block] \in Nat
    BY Zenon DEF IInv, TypeOK, State
  <2>2. h \in Heights /\ h <= Height[k.heaviest_block]
    BY <2>1, HeightsBelow
  <2> QED BY <2>2, Zenon DEF ChainsExact, ChainExact
<1> QED BY ConsensusInvariant, <1>1, <1>2, <1>3, PTL DEF Spec

-----------------------------------------------------------------------------
(* The pool follows the heaviest block *)

\* The loose transactions fit the heaviest block and the retention limit.
Follows(c) ==
    \A t \in c.excluded_txs : /\ InputsInHeaviestBalance(c, t)
                              /\ ~Expired(c, c.raw_txs[t])

\* Follows is a matter of consensus state only.
LEMMA SameFollows ==
    ASSUME NEW c, NEW d, Follows(c),
           d.excluded_txs = c.excluded_txs, d.raw_txs = c.raw_txs,
           d.heaviest_block = c.heaviest_block
    PROVE  Follows(d)
BY Zenon DEF Follows, InputsInHeaviestBalance, Expired, GetCurHeight

\* garbage-collect leaves no loose transaction that does not fit.
LEMMA GarbageCollectFollows ==
    ASSUME NEW c \in State, Pool(c) PROVE Follows(GarbageCollect(c))
<1> DEFINE rs == DropablePendingBlocks(c)
           e == RejectPendingBlocks(c, rs)
           ts == DropableTxs(e)
           d == DropTxs(e, ts)
<1>1. rs \in SUBSET Pending(c)
  BY Zenon DEF DropablePendingBlocks
<1>2. e \in State /\ Pool(e)
  BY <1>1, RejectPendingBlocksPool, Zenon
<1> HIDE DEF e
<1>3. ts \in SUBSET e.excluded_txs
  BY Zenon DEF DropableTxs
<1>4. /\ d \in State /\ Pool(d)
      /\ d.excluded_txs = e.excluded_txs \ ts
      /\ \A x \in RawTxs(d) : d.raw_txs[x] = e.raw_txs[x]
      /\ d.heaviest_block = e.heaviest_block
  BY <1>2, <1>3, DropTxsPool
<1>5. \A t \in e.excluded_txs \ ts : /\ InputsInHeaviestBalance(e, t)
                                     /\ ~Expired(e, e.raw_txs[t])
  BY Zenon DEF DropableTxs
<1>6. d.excluded_txs \subseteq RawTxs(d)
  BY <1>4, ExcludedAreRaw, Zenon
<1> HIDE DEF d, ts
<1>7. Follows(d)
  BY <1>4, <1>5, <1>6, Zenon
     DEF Follows, InputsInHeaviestBalance, Expired, GetCurHeight
<1> QED BY <1>7, Zenon DEF GarbageCollect, d, ts, e

\* A block that becomes the heaviest is followed by the pool.
LEMMA AcceptBlockFollows ==
    ASSUME NEW c \in State, Good(c),
           NEW b \in Block, b \notin c.blocks, Complete(c, b),
           b \in Genesis \/ Parent[b] \in c.blocks,
           NEW m \in AcceptBlock(c, b), m.heaviest_block # c.heaviest_block
    PROVE  Follows(m)
<1> DEFINE p == AcceptPage(c, b)
           u == UpdateHeaviest(p, b)
           e == IF u.heaviest_block # c.heaviest_block
                THEN GarbageCollect(u) ELSE u
<1>0. Pool(c) /\ Chosen(c)
  BY Zenon DEF Good, Pool
<1>1. /\ p \in State /\ Pool(p) /\ p.heaviest_block = c.heaviest_block
      /\ p.blocks = c.blocks \union {b}
      /\ Pending(p) \subseteq Pending(c)
  BY <1>0, AcceptPagePool, SMTT(30)
<1> HIDE DEF p
<1>2. /\ u \in State /\ u.heaviest_block # None
      /\ \A f \in {"blocks_needed_by", "excluded_txs", "spent_by",
                   "pending_blocks", "raw_txs", "blocks"} : u[f] = p[f]
  BY <1>0, <1>1, UpdateHeaviestChosen, SMTT(30)
<1> HIDE DEF u
<1>3. /\ u.blocks_needed_by = p.blocks_needed_by
      /\ u.excluded_txs = p.excluded_txs /\ u.spent_by = p.spent_by
      /\ u.pending_blocks = p.pending_blocks /\ u.raw_txs = p.raw_txs
      /\ u.blocks = p.blocks
  BY <1>2, Zenon
<1>4. Pool(u)
  BY <1>1, <1>3, SMTT(30) DEF Pool, IndexesAgree, NeededByExactly, ExcludedExactly,
                    SpentByExactly, BlocksAreWhole, Complete, Pending, RawTxs
<1>5. /\ e \in State /\ Pool(e) /\ e.heaviest_block = u.heaviest_block
      /\ u.heaviest_block # c.heaviest_block => Follows(e)
  BY <1>2, <1>4, GarbageCollectPool, GarbageCollectFollows, Zenon
<1>6. PICK n \in HeardNewBlock(e) : m = UpdateDerived(n, b)
  BY Zenon DEF AcceptBlock, e, u, p
<1> HIDE DEF e
<1>7. /\ n \in State /\ n.excluded_txs = e.excluded_txs
      /\ n.raw_txs = e.raw_txs /\ n.heaviest_block = e.heaviest_block
  <2> DEFINE g == [e EXCEPT !.candidate_parent = e.heaviest_block,
                            !.candidate_txs = {}]
  <2>1. /\ g \in State /\ g.excluded_txs = e.excluded_txs
        /\ g.raw_txs = e.raw_txs /\ g.heaviest_block = e.heaviest_block
    BY <1>5, Zenon DEF State
  <2> HIDE DEF g
  <2>2. g.excluded_txs \subseteq RawTxs(g)
    BY <2>1, <1>5, ExcludedAreRaw, Zenon DEF RawTxs
  <2>3. n = e \/ n \in AddTxsToCandidate(g)
    BY <1>6, Zenon DEF HeardNewBlock, g
  <2>4. CASE n \in AddTxsToCandidate(g)
    BY <2>1, <2>2, <2>4, AddTxsToCandidateSame, SMTT(30)
  <2> QED BY <2>3, <2>4, <1>5, Zenon
<1>8. SameButDerived(n, m)
  BY <1>2, <1>5, <1>6, <1>7, UpdateDerivedSame, Zenon
<1>9. /\ m.excluded_txs = e.excluded_txs /\ m.raw_txs = e.raw_txs
      /\ m.heaviest_block = e.heaviest_block
  BY <1>7, <1>8, Zenon DEF SameButDerived
<1> QED BY <1>5, <1>9, SameFollows, Zenon

\* What a step does to the heaviest block, the pool follows.
StepFollows == k'.heaviest_block # k.heaviest_block /\ ~crashed' => Follows(k')

\* The candidate update that ends a poke leaves the pool alone.
LEMMA DoneFollows ==
    ASSUME NEW c \in State, Good(c), Done(c),
           c.heaviest_block # k.heaviest_block => Follows(c)
    PROVE  StepFollows
<1>1. SameConsensus(c, k')
  BY UpdateCandidateBlockGood, Zenon DEF Done
<1>2. /\ k'.excluded_txs = c.excluded_txs /\ k'.raw_txs = c.raw_txs
      /\ k'.heaviest_block = c.heaviest_block
  BY <1>1, Zenon DEF SameConsensus
<1> QED BY <1>2, SameFollows, Zenon DEF StepFollows

\* A poke that crashes is none of those steps.
LEMMA CrashFollows == ASSUME Crash PROVE StepFollows
BY Zenon DEF Crash, StepFollows

\* The pool follows the heaviest block in +heard-block.
LEMMA HeardBlockFollows ==
    ASSUME IInv, NEW b \in Block,
           \/ b \in Genesis /\ HeardGenesisBlock(b)
           \/ IgnoreBlock(b)
           \/ b \notin Genesis /\ HeardBlockMissingTxs(b)
           \/ b \notin Genesis /\ HeardCompleteBlock(b)
    PROVE  StepFollows
<1>0. Ready
  BY Zenon DEF HeardGenesisBlock, IgnoreBlock, HeardBlockMissingTxs,
         HeardCompleteBlock, TakeBlock
<1> USE <1>0
<1>1. CASE Done(k)
  BY <1>1, ReadyFacts, DoneFollows, Zenon
<1>2. CASE Crash
  BY <1>2, CrashFollows, Zenon
<1>3. CASE /\ b \in Genesis /\ ~CheckDuplicateBlock(k, b)
           /\ \E c \in AcceptBlock(k, b) : Done(c)
  <2>1. PICK c \in AcceptBlock(k, b) : Done(c)
    BY <1>3, Zenon
  <2>2. b \in ValidBlock /\ b \notin k.blocks /\ Complete(k, b)
    BY <1>3, ChainAssumption, Zenon DEF CheckDuplicateBlock, Complete
  <2>3. c \in State /\ Good(c)
    BY <1>3, <2>2, ReadyFacts, AcceptBlockGood, Zenon
  <2>4. c.heaviest_block # k.heaviest_block => Follows(c)
    BY <1>3, <2>2, ReadyFacts, AcceptBlockFollows, Zenon
  <2> QED BY <2>1, <2>3, <2>4, DoneFollows, Zenon
<1>4. CASE b \notin Genesis /\ HeardBlockMissingTxs(b)
  <2> DEFINE d == AddPendingBlock(k, b)
             e == UpdateHighest(d, b)
  <2>1. /\ k.heaviest_block # None /\ Parent[b] \in k.blocks
        /\ ~CheckDuplicateBlock(k, b) /\ ~Complete(k, b) /\ Done(e)
    BY <1>4, Zenon DEF HeardBlockMissingTxs, TakeBlock
  <2>2. d \in State /\ Good(d) /\ NoneStuckBut(d, {}) /\ GrownFrom(k, d)
    BY <1>4, <2>1, ReadyFacts, AddPendingBlockGood, Zenon
  <2>3. d.heaviest_block = k.heaviest_block
    <3> DEFINE f == NeedTxsOf(k, b)
    <3>1. f.heaviest_block = k.heaviest_block /\ DOMAIN f = DOMAIN k
      BY ReadyFacts, Zenon DEF NeedTxsOf, State
    <3> HIDE DEF f
    <3>2. d = [f EXCEPT !.pending_blocks[b] = GetCurHeight(k)]
      BY Zenon DEF AddPendingBlock, f
    <3> HIDE DEF d
    <3> QED BY <3>1, <3>2, ReadyFacts, Zenon DEF State
  <2> HIDE DEF d
  <2>4. e \in State /\ SameButDerived(d, e)
    BY <2>2, UpdateHighestSame, Zenon
  <2> HIDE DEF e
  <2>5. Good(e) /\ e.heaviest_block = k.heaviest_block
    BY <2>2, <2>3, <2>4, SameButDerivedGood, Zenon DEF SameButDerived
  <2> QED BY <2>1, <2>4, <2>5, DoneFollows, Zenon
<1>5. CASE /\ b \notin Genesis /\ TakeBlock(b) /\ Complete(k, b) /\ b \in ValidBlock
           /\ \E c \in AcceptBlock(UpdateHighest(k, b), b) : Done(c)
  <2> DEFINE d == UpdateHighest(k, b)
  <2>1. PICK c \in AcceptBlock(d, b) : Done(c)
    BY <1>5, Zenon
  <2>2. d \in State /\ SameButDerived(k, d)
    BY ReadyFacts, UpdateHighestSame, Zenon
  <2> HIDE DEF d
  <2>3. /\ Good(d) /\ NoneStuckBut(d, {}) /\ RawTxs(d) = RawTxs(k)
        /\ d.blocks = k.blocks /\ d.heaviest_block = k.heaviest_block
    BY <2>2, ReadyFacts, SameButDerivedGood, Zenon DEF SameButDerived
  <2>4. Complete(d, b) /\ b \notin d.blocks /\ Parent[b] \in d.blocks
    BY <1>5, <2>3, Zenon DEF Complete, CheckDuplicateBlock, TakeBlock
  <2>5. c \in State /\ Good(c)
    BY <1>5, <2>1, <2>2, <2>3, <2>4, AcceptBlockGood, Zenon
  <2>6. c.heaviest_block # k.heaviest_block => Follows(c)
    BY <2>1, <2>2, <2>3, <2>4, AcceptBlockFollows, Zenon
  <2> QED BY <2>1, <2>5, <2>6, DoneFollows, Zenon
<1> QED BY <1>1, <1>2, <1>3, <1>4, <1>5, Zenon
        DEF HeardGenesisBlock, IgnoreBlock, HeardCompleteBlock

\* +heard-tx does not change the heaviest block before it has ready blocks.
LEMMA HeardTxFollows ==
    ASSUME IInv, NEW t \in Tx,
           HeardKnownTx(t) \/ HeardNeededTx(t) \/ HeardLooseTx(t)
    PROVE  StepFollows
<1>0. Ready
  BY Zenon DEF HeardKnownTx, HeardNeededTx, HeardLooseTx
<1> USE <1>0
<1> DEFINE d == AddRawTx(k, t)
           r == RejectPendingBlocks(k, k.blocks_needed_by[t])
<1>1. CASE Done(k)
  BY <1>1, ReadyFacts, DoneFollows, Zenon
<1>2. CASE Crash
  BY <1>2, CrashFollows, Zenon
<1>3. d.heaviest_block = k.heaviest_block
  BY ReadyFacts, Zenon DEF AddRawTx, State
<1>4. CASE t \notin RawTxs(k) /\ Done(d)
  BY <1>3, <1>4, ReadyFacts, AddRawTxGood, DoneFollows, Zenon
<1>5. CASE k' = d
  BY <1>3, <1>5, Zenon DEF StepFollows
<1>6. CASE k.blocks_needed_by[t] \subseteq Pending(k) /\ Done(r)
  <2>1. r \in State /\ Good(r)
    BY <1>6, ReadyFacts, RejectPendingBlocksGood, Zenon
  <2>2. Pool(k)
    BY ReadyFacts, Zenon DEF Good, Pool
  <2>3. r.heaviest_block = k.heaviest_block
    BY <1>6, <2>2, ReadyFacts, RejectPendingBlocksPool, ZenonT(30)
  <2> QED BY <1>6, <2>1, <2>3, DoneFollows, Zenon
<1> QED BY <1>1, <1>2, <1>4, <1>5, <1>6, Zenon
        DEF HeardKnownTx, HeardNeededTx, HeardLooseTx

\* The pool follows every ready block that becomes the heaviest.
LEMMA ProcessReadyBlockFollows ==
    ASSUME IInv, NEW b \in work, ProcessReadyBlock(b)
    PROVE  StepFollows
<1>0. /\ k \in State /\ work \subseteq Block /\ Good(k) /\ Pool(k)
      /\ NoneStuckBut(k, work)
  BY Zenon DEF IInv, TypeOK, Good, Pool
<1>1. ASSUME NEW c \in State, Good(c), Continue(c, b),
             c.heaviest_block # k.heaviest_block => Follows(c)
      PROVE  StepFollows
  <2>1. CASE Done(c)
    BY <1>1, <2>1, DoneFollows, Zenon
  <2>2. CASE k' = c
    BY <1>1, <2>2, Zenon DEF StepFollows
  <2> QED BY <1>1, <2>1, <2>2, Zenon DEF Continue
<1>2. CASE Crash
  BY <1>2, CrashFollows, Zenon
<1>3. CASE /\ b \in Pending(k) \intersect ValidBlock
           /\ \E c \in AcceptBlock(k, b) : Continue(c, b)
  <2>1. PICK c \in AcceptBlock(k, b) : Continue(c, b)
    BY <1>3, Zenon
  <2>2. b \notin k.blocks /\ (b \in Genesis \/ Parent[b] \in k.blocks)
    BY <1>0, <1>3, Zenon DEF Good, BlocksAreWhole
  <2>3. Complete(k, b)
    BY <1>3, Zenon DEF IInv
  <2>4. c \in State /\ Good(c)
    BY <1>0, <1>3, <2>2, <2>3, AcceptBlockGood, Zenon
  <2>5. c.heaviest_block # k.heaviest_block => Follows(c)
    BY <1>0, <1>3, <2>2, <2>3, AcceptBlockFollows, Zenon
  <2> QED BY <1>1, <2>1, <2>4, <2>5, Zenon
<1>4. CASE b \in Pending(k) /\ Continue(RejectPendingBlocks(k, {b}), b)
  <2> DEFINE r == RejectPendingBlocks(k, {b})
  <2>1. r \in State /\ Good(r)
    BY <1>0, <1>4, RejectPendingBlocksGood, Zenon
  <2>2. r.heaviest_block = k.heaviest_block
    BY <1>0, <1>4, RejectPendingBlocksPool
  <2> QED BY <1>1, <1>4, <2>1, <2>2, Zenon
<1> QED BY <1>2, <1>3, <1>4, Zenon DEF ProcessReadyBlock

\* The mining commands do not change the heaviest block.
LEMMA MiningFollows ==
    ASSUME IInv, SetMiningKey \/ EnableMining
    PROVE  StepFollows
<1>0. Ready
  BY Zenon DEF SetMiningKey, EnableMining
<1> USE <1>0
<1>1. ASSUME NEW c \in State, Pool(c), Done(c),
             c.heaviest_block = k.heaviest_block
      PROVE  StepFollows
  <2>1. k' \in UpdateCandidateBlock(c)
    BY <1>1, Zenon DEF Done
  <2>2. SameChain(c, k')
    BY <1>1, <2>1, CandidateChain, Zenon
  <2> QED BY <1>1, <2>2, Zenon DEF SameChain, StepFollows
<1>2. CASE SetMiningKey
  <2> DEFINE d == [k EXCEPT !.mining_keys = TRUE]
  <2>1. d \in State /\ SameConsensus(k, d) /\ d.heaviest_block = k.heaviest_block
    BY ReadyFacts, ZenonT(30) DEF State, SameConsensus
  <2>2. Done(d)
    BY <1>2, Zenon DEF SetMiningKey
  <2> HIDE DEF d
  <2>3. Pool(d)
    BY <2>1, ReadyFacts, SameConsensusKeeps, Zenon DEF Good, Pool
  <2> QED BY <1>1, <2>1, <2>2, <2>3, Zenon
<1>3. CASE EnableMining
  <2>1. PICK c \in HeardNewBlock(k) : Done(c)
    BY <1>3, Zenon DEF EnableMining
  <2>2. k.heaviest_block # None
    BY <1>3, Zenon DEF EnableMining
  <2>3. Pool(k) /\ Chosen(k) /\ Fresh(k) /\ Minable(k)
    BY ReadyFacts, Zenon DEF Good, Pool
  <2>4. c \in State /\ Good(c)
    BY <2>2, <2>3, ReadyFacts, HeardNewBlockGood, Zenon DEF Minable
  <2>5. c.heaviest_block = k.heaviest_block /\ Pool(c)
    BY <2>3, <2>4, ReadyFacts, CandidateChain, Zenon DEF Good, Pool, SameChain
  <2> QED BY <1>1, <2>1, <2>4, <2>5, Zenon
<1> QED BY <1>2, <1>3, Zenon

\* Whenever the heaviest block changes, every loose transaction that the
\* garbage collector leaves can be spent on top of the new one and is within
\* the retention limit.
THEOREM PoolFollowsHeaviestTheorem == Spec => PoolFollowsHeaviest
<1>1. IInv /\ [Next]_vars => [StepFollows]_vars
  <2> SUFFICES ASSUME IInv, Next PROVE StepFollows
    BY Zenon
  <2>1. CASE \E b \in Genesis : HeardGenesisBlock(b)
    BY <2>1, HeardBlockFollows, Zenon
  <2>2. CASE \E b \in Block \ Genesis :
                IgnoreBlock(b) \/ HeardBlockMissingTxs(b) \/ HeardCompleteBlock(b)
    BY <2>2, HeardBlockFollows, Zenon
  <2>3. CASE \E t \in Tx : HeardKnownTx(t) \/ HeardNeededTx(t) \/ HeardLooseTx(t)
    BY <2>3, HeardTxFollows, Zenon
  <2>4. CASE \E b \in work : ProcessReadyBlock(b)
    BY <2>4, ProcessReadyBlockFollows, Zenon
  <2>5. CASE SetMiningKey \/ EnableMining
    BY <2>5, MiningFollows, Zenon
  <2> QED BY <2>1, <2>2, <2>3, <2>4, <2>5, Zenon DEF Next
<1> QED BY <1>1, ConsensusInvariant, PTL
        DEF Spec, PoolFollowsHeaviest, StepFollows, Follows

-----------------------------------------------------------------------------
(* Pending blocks are kept *)

\* The pending blocks of c that d lacks were accepted, or had to go.
Keeps(c, d) ==
    \A b \in Pending(c) \ Pending(d) :
        \/ b \in d.blocks
        \/ b \notin ValidBlock
        \/ ~(TxIds[b] \subseteq ValidTx)
        \/ Expired(d, c.pending_blocks[b])

\* Keeps is a matter of consensus state only.
LEMMA SameKeeps ==
    ASSUME NEW c, NEW d, NEW e, Keeps(c, d),
           e.pending_blocks = d.pending_blocks, e.blocks = d.blocks,
           e.heaviest_block = d.heaviest_block
    PROVE  Keeps(c, e)
BY Zenon DEF Keeps, Pending, Expired, GetCurHeight

\* garbage-collect drops no pending block but the expired ones.
LEMMA GarbageCollectKeeps ==
    ASSUME NEW c \in State, Pool(c) PROVE Keeps(c, GarbageCollect(c))
<1> DEFINE rs == DropablePendingBlocks(c)
           e == RejectPendingBlocks(c, rs)
           ts == DropableTxs(e)
           d == DropTxs(e, ts)
<1>1. rs \in SUBSET Pending(c)
  BY Zenon DEF DropablePendingBlocks
<1>2. /\ e \in State /\ Pool(e) /\ Pending(e) = Pending(c) \ rs
      /\ e.heaviest_block = c.heaviest_block
  BY <1>1, RejectPendingBlocksPool, Zenon
<1>3. \A b \in rs : Expired(c, c.pending_blocks[b])
  BY Zenon DEF DropablePendingBlocks
<1> HIDE DEF e, rs
<1>4. ts \in SUBSET e.excluded_txs
  BY Zenon DEF DropableTxs
<1> HIDE DEF ts
<1>5. d.pending_blocks = e.pending_blocks /\ d.heaviest_block = e.heaviest_block
  BY <1>2, <1>4, DropTxsPool
<1> HIDE DEF d
<1>6. Pending(d) = Pending(c) \ rs /\ d.heaviest_block = c.heaviest_block
  BY <1>2, <1>5, Zenon DEF Pending
<1>7. Keeps(c, d)
  BY <1>3, <1>6, Zenon DEF Keeps, Expired, GetCurHeight
<1> QED BY <1>7, Zenon DEF GarbageCollect, d, ts, e, rs

\* Accepting a block drops it and the pending blocks that have expired at the
\* height it leads to.
LEMMA AcceptBlockKept ==
    ASSUME NEW c \in State, Good(c),
           NEW b \in Block, b \notin c.blocks, Complete(c, b),
           b \in Genesis \/ Parent[b] \in c.blocks,
           NEW m \in AcceptBlock(c, b)
    PROVE  Keeps(c, m)
<1> DEFINE p == AcceptPage(c, b)
           u == UpdateHeaviest(p, b)
           e == IF u.heaviest_block # c.heaviest_block
                THEN GarbageCollect(u) ELSE u
<1>0. Pool(c) /\ Chosen(c)
  BY Zenon DEF Good, Pool
<1>1. /\ p \in State /\ Pool(p) /\ p.heaviest_block = c.heaviest_block
      /\ p.blocks = c.blocks \union {b}
      /\ Pending(p) = Pending(c) \ {b}
      /\ \A x \in Pending(p) : p.pending_blocks[x] = c.pending_blocks[x]
  BY <1>0, AcceptPagePool, SMTT(30)
<1> HIDE DEF p
<1>2. /\ u \in State /\ u.heaviest_block # None
      /\ \A f \in {"blocks_needed_by", "excluded_txs", "spent_by",
                   "pending_blocks", "raw_txs", "blocks"} : u[f] = p[f]
  BY <1>0, <1>1, UpdateHeaviestChosen, SMTT(30)
<1> HIDE DEF u
<1>3. /\ u.blocks_needed_by = p.blocks_needed_by
      /\ u.excluded_txs = p.excluded_txs /\ u.spent_by = p.spent_by
      /\ u.pending_blocks = p.pending_blocks /\ u.raw_txs = p.raw_txs
      /\ u.blocks = p.blocks
  BY <1>2, Zenon
<1>4. Pool(u)
  BY <1>1, <1>3, SMTT(30) DEF Pool, IndexesAgree, NeededByExactly, ExcludedExactly,
                    SpentByExactly, BlocksAreWhole, Complete, Pending, RawTxs
<1>5. /\ e \in State /\ Pool(e) /\ e.blocks = u.blocks
      /\ e.heaviest_block = u.heaviest_block
  BY <1>2, <1>4, GarbageCollectPool, Zenon
<1>6. Keeps(u, e)
  <2>1. Keeps(u, u)
    BY Zenon DEF Keeps
  <2> QED BY <2>1, <1>2, <1>4, GarbageCollectKeeps, Zenon
<1>7. PICK n \in HeardNewBlock(e) : m = UpdateDerived(n, b)
  BY Zenon DEF AcceptBlock, e, u, p
<1> HIDE DEF e
<1>8. Keeps(c, e)
  <2>1. Pending(u) = Pending(c) \ {b} /\ b \in e.blocks
    BY <1>1, <1>3, <1>5, Zenon DEF Pending
  <2>2. \A x \in Pending(u) : u.pending_blocks[x] = c.pending_blocks[x]
    BY <1>1, <1>3, <2>1, Zenon
  <2> QED BY <1>6, <2>1, <2>2, Zenon DEF Keeps
<1>9. /\ n \in State /\ n.pending_blocks = e.pending_blocks
      /\ n.blocks = e.blocks /\ n.heaviest_block = e.heaviest_block
  <2> DEFINE g == [e EXCEPT !.candidate_parent = e.heaviest_block,
                            !.candidate_txs = {}]
  <2>1. /\ g \in State /\ g.excluded_txs = e.excluded_txs
        /\ g.raw_txs = e.raw_txs /\ g.heaviest_block = e.heaviest_block
        /\ g.pending_blocks = e.pending_blocks /\ g.blocks = e.blocks
    BY <1>5, Zenon DEF State
  <2> HIDE DEF g
  <2>2. g.excluded_txs \subseteq RawTxs(g)
    BY <2>1, <1>5, ExcludedAreRaw, Zenon DEF RawTxs
  <2>3. n = e \/ n \in AddTxsToCandidate(g)
    BY <1>7, Zenon DEF HeardNewBlock, g
  <2>4. CASE n \in AddTxsToCandidate(g)
    BY <2>1, <2>2, <2>4, AddTxsToCandidateSame, SMTT(30)
  <2> QED BY <2>3, <2>4, <1>5, Zenon
<1>10. SameButDerived(n, m)
  BY <1>2, <1>5, <1>7, <1>9, UpdateDerivedSame, Zenon
<1>11. /\ m.pending_blocks = e.pending_blocks /\ m.blocks = e.blocks
       /\ m.heaviest_block = e.heaviest_block
  BY <1>9, <1>10, Zenon DEF SameButDerived
<1> QED BY <1>8, <1>11, SameKeeps, Zenon

\* A running poke drops pending blocks and adds none.
NoNewPending == Pending(k) \subseteq Pending(saved)

\* A step keeps the pending blocks, and so does the crash that may undo it.
StepKeeps == Keeps(k, k') /\ NoNewPending'

\* The candidate update that ends a poke leaves the pending blocks alone.
LEMMA DoneKept ==
    ASSUME NEW c \in State, Good(c), Done(c), Keeps(k, c)
    PROVE  StepKeeps
<1>1. SameConsensus(c, k') /\ saved' = k'
  BY UpdateCandidateBlockGood, Zenon DEF Done
<1>2. /\ k'.pending_blocks = c.pending_blocks /\ k'.blocks = c.blocks
      /\ k'.heaviest_block = c.heaviest_block
  BY <1>1, Zenon DEF SameConsensus
<1>3. Keeps(k, k')
  BY <1>2, SameKeeps, Zenon
<1>4. NoNewPending'
  BY <1>1, Zenon DEF NoNewPending
<1> QED BY <1>3, <1>4, Zenon DEF StepKeeps

\* A poke that crashes has every pending block back.
LEMMA CrashKept == ASSUME NoNewPending, Crash PROVE StepKeeps
BY Zenon DEF Crash, StepKeeps, Keeps, NoNewPending

\* Nothing happens to a pending block whose state is left alone.
LEMMA SamePendingKeeps ==
    ASSUME NEW c, NEW d, Pending(c) \subseteq Pending(d) PROVE Keeps(c, d)
BY Zenon DEF Keeps

\* +heard-block keeps the pending blocks.
LEMMA HeardBlockKept ==
    ASSUME IInv, NoNewPending, NEW b \in Block,
           \/ b \in Genesis /\ HeardGenesisBlock(b)
           \/ IgnoreBlock(b)
           \/ b \notin Genesis /\ HeardBlockMissingTxs(b)
           \/ b \notin Genesis /\ HeardCompleteBlock(b)
    PROVE  StepKeeps
<1>0. Ready
  BY Zenon DEF HeardGenesisBlock, IgnoreBlock, HeardBlockMissingTxs,
         HeardCompleteBlock, TakeBlock
<1> USE <1>0
<1>1. CASE Done(k)
  BY <1>1, ReadyFacts, SamePendingKeeps, DoneKept, Zenon
<1>2. CASE Crash
  BY <1>2, CrashKept, Zenon
<1>3. CASE /\ b \in Genesis /\ ~CheckDuplicateBlock(k, b)
           /\ \E c \in AcceptBlock(k, b) : Done(c)
  <2>1. PICK c \in AcceptBlock(k, b) : Done(c)
    BY <1>3, Zenon
  <2>2. b \in ValidBlock /\ b \notin k.blocks /\ Complete(k, b)
    BY <1>3, ChainAssumption, Zenon DEF CheckDuplicateBlock, Complete
  <2>3. c \in State /\ Good(c)
    BY <1>3, <2>2, ReadyFacts, AcceptBlockGood, Zenon
  <2>4. Keeps(k, c)
    BY <1>3, <2>2, ReadyFacts, AcceptBlockKept, Zenon
  <2> QED BY <2>1, <2>3, <2>4, DoneKept, Zenon
<1>4. CASE b \notin Genesis /\ HeardBlockMissingTxs(b)
  <2> DEFINE d == AddPendingBlock(k, b)
             e == UpdateHighest(d, b)
  <2>1. /\ k.heaviest_block # None /\ Parent[b] \in k.blocks
        /\ ~CheckDuplicateBlock(k, b) /\ ~Complete(k, b) /\ Done(e)
    BY <1>4, Zenon DEF HeardBlockMissingTxs, TakeBlock
  <2>2. d \in State /\ Good(d) /\ NoneStuckBut(d, {}) /\ GrownFrom(k, d)
    BY <1>4, <2>1, ReadyFacts, AddPendingBlockGood, Zenon
  <2>3. Pending(k) \subseteq Pending(d)
    <3> DEFINE f == NeedTxsOf(k, b)
    <3>1. f.pending_blocks = k.pending_blocks /\ DOMAIN f = DOMAIN k
      BY ReadyFacts, Zenon DEF NeedTxsOf, State
    <3> HIDE DEF f
    <3>2. d = [f EXCEPT !.pending_blocks[b] = GetCurHeight(k)]
      BY Zenon DEF AddPendingBlock, f
    <3>3. d.pending_blocks = [k.pending_blocks EXCEPT ![b] = GetCurHeight(k)]
      BY <3>1, <3>2, ReadyFacts, Zenon DEF State
    <3>4. GetCurHeight(k) \in Nat
      BY <2>1, ReadyFacts, Zenon DEF State, GetCurHeight
    <3>5. k.pending_blocks \in [Block -> Nat \union {None}]
      BY ReadyFacts, Zenon DEF State
    <3> HIDE DEF d
    <3> QED BY <3>3, <3>4, <3>5, ChainAssumption DEF Pending
  <2> HIDE DEF d
  <2>4. e \in State /\ SameButDerived(d, e)
    BY <2>2, UpdateHighestSame, Zenon
  <2> HIDE DEF e
  <2>5. Good(e) /\ Pending(e) = Pending(d)
    BY <2>2, <2>4, SameButDerivedGood, Zenon
  <2>6. Keeps(k, e)
    BY <2>3, <2>5, SamePendingKeeps, Zenon
  <2> QED BY <2>1, <2>4, <2>5, <2>6, DoneKept, Zenon
<1>5. CASE /\ b \notin Genesis /\ TakeBlock(b) /\ Complete(k, b) /\ b \in ValidBlock
           /\ \E c \in AcceptBlock(UpdateHighest(k, b), b) : Done(c)
  <2> DEFINE d == UpdateHighest(k, b)
  <2>1. PICK c \in AcceptBlock(d, b) : Done(c)
    BY <1>5, Zenon
  <2>2. d \in State /\ SameButDerived(k, d)
    BY ReadyFacts, UpdateHighestSame, Zenon
  <2> HIDE DEF d
  <2>3. /\ Good(d) /\ NoneStuckBut(d, {}) /\ RawTxs(d) = RawTxs(k)
        /\ Pending(d) = Pending(k) /\ d.pending_blocks = k.pending_blocks
        /\ d.blocks = k.blocks
    BY <2>2, ReadyFacts, SameButDerivedGood, Zenon DEF SameButDerived
  <2>4. Complete(d, b) /\ b \notin d.blocks /\ Parent[b] \in d.blocks
    BY <1>5, <2>3, Zenon DEF Complete, CheckDuplicateBlock, TakeBlock
  <2>5. c \in State /\ Good(c)
    BY <1>5, <2>1, <2>2, <2>3, <2>4, AcceptBlockGood, Zenon
  <2>6. Keeps(d, c)
    BY <2>1, <2>2, <2>3, <2>4, AcceptBlockKept, Zenon
  <2>7. Keeps(k, c)
    BY <2>3, <2>6, Zenon DEF Keeps
  <2> QED BY <2>1, <2>5, <2>7, DoneKept, Zenon
<1> QED BY <1>1, <1>2, <1>3, <1>4, <1>5, Zenon
        DEF HeardGenesisBlock, IgnoreBlock, HeardCompleteBlock

\* +heard-tx drops only the pending blocks that hold an invalid transaction.
LEMMA HeardTxKept ==
    ASSUME IInv, NoNewPending, NEW t \in Tx,
           HeardKnownTx(t) \/ HeardNeededTx(t) \/ HeardLooseTx(t)
    PROVE  StepKeeps
<1>0. Ready
  BY Zenon DEF HeardKnownTx, HeardNeededTx, HeardLooseTx
<1> USE <1>0
<1> DEFINE d == AddRawTx(k, t)
           r == RejectPendingBlocks(k, k.blocks_needed_by[t])
<1>1. CASE Done(k)
  BY <1>1, ReadyFacts, SamePendingKeeps, DoneKept, Zenon
<1>2. CASE Crash
  BY <1>2, CrashKept, Zenon
<1>3. Pending(d) = Pending(k) /\ Keeps(k, d)
  <2>1. d.pending_blocks = k.pending_blocks
    BY ReadyFacts, Zenon DEF AddRawTx, State
  <2> QED BY <2>1, SamePendingKeeps, Zenon DEF Pending
<1>4. CASE t \notin RawTxs(k) /\ Done(d)
  BY <1>3, <1>4, ReadyFacts, AddRawTxGood, DoneKept, Zenon
<1>5. CASE k' = d /\ saved' = k
  BY <1>3, <1>5, Zenon DEF StepKeeps, NoNewPending
<1>6. CASE t \notin ValidTx /\ k.blocks_needed_by[t] \subseteq Pending(k) /\ Done(r)
  <2>1. /\ r \in State /\ Good(r)
        /\ Pending(r) = Pending(k) \ k.blocks_needed_by[t]
    BY <1>6, ReadyFacts, RejectPendingBlocksGood, Zenon
  <2>2. NeededByExactly(k)
    BY ReadyFacts, Zenon DEF Good, IndexesAgree
  <2> HIDE DEF r
  <2>3. \A b \in k.blocks_needed_by[t] : t \in TxIds[b]
    <3>1. k.blocks_needed_by[t] = {b \in k.blocks \union Pending(k) : t \in TxIds[b]}
      BY <2>2, Zenon DEF NeededByExactly
    <3> QED BY <3>1, Zenon
  <2>4. Keeps(k, r)
    BY <1>6, <2>1, <2>3, Zenon DEF Keeps
  <2> QED BY <1>6, <2>1, <2>4, DoneKept, Zenon
<1> QED BY <1>1, <1>2, <1>4, <1>5, <1>6, Zenon
        DEF HeardKnownTx, HeardNeededTx, HeardLooseTx

\* A ready block is accepted, or invalid.
LEMMA ProcessReadyBlockKept ==
    ASSUME IInv, NoNewPending, NEW b \in work, ProcessReadyBlock(b)
    PROVE  StepKeeps
<1>0. /\ k \in State /\ work \subseteq Block /\ Good(k) /\ Pool(k)
      /\ NoneStuckBut(k, work)
  BY Zenon DEF IInv, TypeOK, Good, Pool
<1>1. ASSUME NEW c \in State, Good(c), Continue(c, b), Keeps(k, c),
             Pending(c) \subseteq Pending(k)
      PROVE  StepKeeps
  <2>1. CASE Done(c)
    BY <1>1, <2>1, DoneKept, Zenon
  <2>2. CASE k' = c /\ saved' = saved
    BY <1>1, <2>2, Zenon DEF StepKeeps, NoNewPending
  <2> QED BY <1>1, <2>1, <2>2, Zenon DEF Continue
<1>2. CASE Crash
  BY <1>2, CrashKept, Zenon
<1>3. CASE /\ b \in Pending(k) \intersect ValidBlock
           /\ \E c \in AcceptBlock(k, b) : Continue(c, b)
  <2>1. PICK c \in AcceptBlock(k, b) : Continue(c, b)
    BY <1>3, Zenon
  <2>2. b \notin k.blocks /\ (b \in Genesis \/ Parent[b] \in k.blocks)
    BY <1>0, <1>3, Zenon DEF Good, BlocksAreWhole
  <2>3. Complete(k, b)
    BY <1>3, Zenon DEF IInv
  <2>4. c \in State /\ Good(c) /\ Pending(c) \subseteq Pending(k)
    BY <1>0, <1>3, <2>2, <2>3, AcceptBlockGood, Zenon
  <2>5. Keeps(k, c)
    BY <1>0, <1>3, <2>2, <2>3, AcceptBlockKept, Zenon
  <2> QED BY <1>1, <2>1, <2>4, <2>5, Zenon
<1>4. CASE b \in Pending(k) \ ValidBlock /\ Continue(RejectPendingBlocks(k, {b}), b)
  <2> DEFINE r == RejectPendingBlocks(k, {b})
  <2>1. r \in State /\ Good(r) /\ Pending(r) = Pending(k) \ {b}
    BY <1>0, <1>4, RejectPendingBlocksGood, Zenon
  <2>2. Continue(r, b)
    BY <1>4, Zenon
  <2> HIDE DEF r
  <2>3. Keeps(k, r) /\ Pending(r) \subseteq Pending(k)
    BY <1>4, <2>1, Zenon DEF Keeps
  <2> QED BY <1>1, <2>1, <2>2, <2>3, Zenon
<1> QED BY <1>2, <1>3, <1>4, Zenon DEF ProcessReadyBlock

\* The mining commands leave the pending blocks alone.
LEMMA MiningKept ==
    ASSUME IInv, NoNewPending, SetMiningKey \/ EnableMining
    PROVE  StepKeeps
<1>0. Ready
  BY Zenon DEF SetMiningKey, EnableMining
<1> USE <1>0
<1>1. ASSUME NEW c, SameConsensus(k, c) PROVE Keeps(k, c)
  BY <1>1, SameConsensusKeeps, SamePendingKeeps, Zenon
<1>2. CASE SetMiningKey
  <2> DEFINE d == [k EXCEPT !.mining_keys = TRUE]
  <2>1. /\ d \in State /\ SameConsensus(k, d) /\ d.mining_keys = TRUE
        /\ d.heaviest_block = k.heaviest_block
        /\ d.candidate_parent = k.candidate_parent
        /\ d.candidate_txs = k.candidate_txs
    BY ReadyFacts, ZenonT(30) DEF State, SameConsensus
  <2>2. Done(d)
    BY <1>2, Zenon DEF SetMiningKey
  <2> HIDE DEF d
  <2>3. Pool(d) /\ Chosen(d) /\ Fresh(d) /\ RawTxs(d) = RawTxs(k)
    BY <2>1, ReadyFacts, SameConsensusKeeps, Zenon DEF Good, Pool
  <2>4. Minable(d)
    BY <2>1, <2>3, ReadyFacts, Zenon DEF Good, Minable
  <2>5. Good(d)
    BY <2>3, <2>4, Zenon DEF Good, Pool
  <2> QED BY <1>1, <2>1, <2>2, <2>5, DoneKept, Zenon
<1>3. CASE EnableMining
  <2>1. PICK c \in HeardNewBlock(k) : Done(c)
    BY <1>3, Zenon DEF EnableMining
  <2>2. k.heaviest_block # None
    BY <1>3, Zenon DEF EnableMining
  <2>3. Pool(k) /\ Chosen(k) /\ Fresh(k) /\ Minable(k)
    BY ReadyFacts, Zenon DEF Good, Pool
  <2>4. c \in State /\ Good(c) /\ SameConsensus(k, c)
    BY <2>2, <2>3, ReadyFacts, HeardNewBlockGood, Zenon DEF Minable
  <2> QED BY <1>1, <2>1, <2>4, DoneKept, Zenon
<1> QED BY <1>2, <1>3, Zenon

\* A pending block stays until it is accepted, is found invalid or to hold an
\* invalid transaction, or has been kept for the whole retention limit.
THEOREM PendingBlocksAreKeptTheorem == Spec => PendingBlocksAreKept
<1>1. Init => NoNewPending
  BY Zenon DEF Init, NoNewPending
<1>2. IInv /\ NoNewPending /\ [Next]_vars => NoNewPending' /\ [Keeps(k, k')]_vars
  <2>1. ASSUME IInv, NoNewPending, Next PROVE StepKeeps
    <3> USE <2>1
    <3>1. CASE \E b \in Genesis : HeardGenesisBlock(b)
      BY <3>1, HeardBlockKept, Zenon
    <3>2. CASE \E b \in Block \ Genesis :
                  IgnoreBlock(b) \/ HeardBlockMissingTxs(b) \/ HeardCompleteBlock(b)
      BY <3>2, HeardBlockKept, Zenon
    <3>3. CASE \E t \in Tx : HeardKnownTx(t) \/ HeardNeededTx(t) \/ HeardLooseTx(t)
      BY <3>3, HeardTxKept, Zenon
    <3>4. CASE \E b \in work : ProcessReadyBlock(b)
      BY <3>4, ProcessReadyBlockKept, Zenon
    <3>5. CASE SetMiningKey \/ EnableMining
      BY <3>5, MiningKept, Zenon
    <3> QED BY <3>1, <3>2, <3>3, <3>4, <3>5, Zenon DEF Next
  <2>2. NoNewPending /\ UNCHANGED vars => NoNewPending'
    BY Zenon DEF NoNewPending, vars
  <2> QED BY <2>1, <2>2, Zenon DEF StepKeeps
<1> QED BY <1>1, <1>2, ConsensusInvariant, PTL
        DEF Spec, PendingBlocksAreKept, Keeps

=============================================================================
