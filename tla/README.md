# Formal models of Nockchain

TLA+ models of the parts of this repository where threads, tasks, processes or
peers have to agree on state; the TLC runs that check small instances of them;
and TLAPS proofs that hold for every instance. Paths below are relative to
`src/`.

## 1. The system

A **NockApp** is a process that runs a *kernel* (a Nock function with a state).
Drivers *poke* the kernel with events, *peek* at its state and react to the
*effects* a poke returns. The Nockchain node is a NockApp whose kernel
(`hoon/apps/dumbnet`) keeps the block chain. Its drivers talk to peers over
libp2p, to clients over gRPC, and to mining threads.

| Part | Source | State | Operations | What is hard about it |
|---|---|---|---|---|
| Saver | `crates/nockapp/src/nockapp/save.rs` | two checkpoint files, which is next, waiters | try_load, save, wait_for_snapshot | a crash or I/O error in the middle of a save |
| Event loop | `crates/nockapp/src/nockapp/mod.rs` | action and exit channels, exit status, save mutex | pokes, peeks, save tick, signals, handle_exit, shutdown | exit racing saves, pokes and a second exit |
| Serf thread | `crates/nockapp/src/kernel/form.rs` | kernel, event number, inhibit flag | poke, peek, checkpoint, stop, poke_timeout | requests in the channel when it is stopped; a cancel that hits another poke |
| Persistent arena | `form.rs` 65-146, 1636-1829; `nockvm` `pma.rs` | arena file, metadata file | copy, persist, reopen | a crash between the two files |
| Kernel: blocks, pool | `hoon/apps/dumbnet/inner.hoon`, `lib/consensus.hoon` | blocks, pending blocks, raw transactions and three indexes, heaviest block | heard-block, heard-tx, process-ready-blocks, garbage collection | long sequences of messages in any order, forks, rollback of a poke |
| Kernel: derived | `lib/derived.hoon` | heaviest chain by height | update | an early exit of the walk |
| Kernel: candidate | `lib/miner.hoon` | candidate block | heard-new-block, update-candidate-block | a candidate on a stale parent |
| Peer state | `crates/nockchain-libp2p-io/src/p2p_state.rs` | connections, block to peer tables, seen sets, caches | track, lose, remove, check_cache | tables that must mirror each other and the kernel |
| Traffic cop, fair queue | `traffic_cop.rs`, `key_fair_queue.rs` | a map and a channel of keys | send, recv | two structures, two users |
| libp2p loop | `driver.rs` | join set, swarm | requests, effects | lost and late answers |
| Mining driver | `crates/nockchain/src/mining.rs` | mining data, attempts, cancel tokens | effect, attempt ends | a cancel or a proof that is out of date |
| gRPC | `crates/nockapp-grpc` | balance cache, block explorer cache | queries, refresh | a view older than the heaviest block |
| Interpreter | `crates/nockvm/rust/nockvm/src/interpreter.rs`, `jets/nock.rs` | frames, open calls, cache, scry gates, running status | the twelve operations, hints, virtualization, cancel | two ways out with an error; state that every exit has to restore |
| Jets, memory, serialisation, mathematics, STARK, transaction rules, wallet, compiler, tools | see `PROJECT.json` | | | sequential or pure; not modelled |

Effects connect the kernel to the drivers, pokes connect the drivers to the
kernel, and the Saver sees the kernel as an event number and a state.
`PROJECT.json` lists every component with its status, and the hazards at the
lines where they bite, the ones without a property yet included.

## 2. Modules

| Module | Models | Role |
|---|---|---|
| `DurableCheckpoint` | what checkpoint files promise | abstract specification: one durable register |
| `Saver` | `save.rs` | implements `DurableCheckpoint` |
| `SaverProofs` | | proofs about `Saver` |
| `NockApp` | `mod.rs`, `driver.rs`, `form.rs` composed with the Saver | implements `Saver` |
| `NockAppProofs` | | proofs about `NockApp` |
| `ForkChoice` | what the kernel commits of the block tree | abstract specification |
| `Consensus` | `inner.hoon`, `lib/consensus.hoon`, `lib/derived.hoon`, `lib/miner.hoon` | implements `ForkChoice` |
| `ConsensusProofs` | | the arms of the kernel, the invariant of `Consensus`, the theorems that follow from it, the derived chain, and the pool after a reorganisation |
| `KeyedMailbox` | what a fair queue promises its callers | abstract specification: one mailbox per key |
| `FairQueue` | `key_fair_queue.rs` | implements `KeyedMailbox` |
| `FairQueueProofs` | | proofs about `FairQueue` |
| `TrafficCop` | `traffic_cop.rs` | the task with two fair queues and their callers |
| `TrafficCopProofs` | | proofs about `TrafficCop`, on top of `FairQueueProofs` |
| `Peers` | `p2p_state.rs` (connections, block tracking), `driver.rs` | the libp2p loop, its tasks, the mutex and the channel |
| `PeersProofs` | | proofs about `Peers` |
| `ChainCache` | `p2p_state.rs` (caches), `driver.rs`, `inner.hoon` | the driver's caches composed with the kernel's chain |
| `ChainCacheProofs` | | proofs about `ChainCache` |
| `Mining` | `mining.rs`, `inner.hoon`, `lib/miner.hoon` | the mining driver composed with the kernel's candidate |
| `Noun` | `noun.rs`, atoms, axes and lists of `interpreter.rs` | nouns |
| `NockReference` | `++mink` of `hoon-138.hoon` | reference definition of Nock |
| `Interpreter` | `interpreter.rs`, `jets/nock.rs` | the evaluator step by step |
| `InterpreterNock` | | the evaluator compared with the reference |
| `InterpreterProofs` | | proofs about `Interpreter` |
| `MC...` | | instances for TLC |

Definitions whose comment says *mutant* are plausible mistakes: replacing the
definition they follow by them must make the property named in `PROJECT.json`
fail. They are not part of any specification.

### Saver

A file is `Absent`, `Torn` or the checkpoint it holds. A save is four steps
under the mutex: `Capture` (the serf hands over a checkpoint), `OpenFile`
(`next_path` is truncated in place), `FileWritten`, and `SaveReturns` (turn to
the other file, fire the waiters). `SaveFails` is the early return on an I/O
error. `LoadNothing`, `LoadCheckpoint` and `LoadFails` are the outcomes of
`try_load`. `Crash` may happen between any two steps. A checkpoint's checksum is
taken to tell a torn file from a whole one. Only the process dies: the loss of
data that the operating system had not flushed is not modelled (the code calls
no fsync). Starting with `--new` is the initial state.

### NockApp

The kernel state is the set of pokes it has applied. A request moves from the
driver (`Send`) through the event loop (`HandleAction`) and a spawned task
(`TaskSends`, `TaskGetsResult`, `TaskAnswers`) to the serf thread
(`SerfTakesPoke`, `PokeSucceeds`, `PokeFails`, `SerfPeeks`, `SerfCheckpoints`,
`SerfStops`). A save is a task that holds the mutex (`SaveTick`, `SaveRequests`,
`SaveOpens`, `SaveWrites`, `SaveReturns`, `SaveFails`). `handle_exit` is cut
where it awaits a lock: `HandleExit`, `ExitWaits`, `ExitSaves`, and the spawned
`ExitTaskEnds`. Then `HandleShutdown`, `StopSends`, `StopJoins`, `HandleDone` and
`RuntimeDropped` end the process, and `Boot` starts another one. `Signal` and
`SignalAgain` are the first and the second SIGINT or SIGTERM.

### Consensus

A block or a transaction is known by its hash, so what it contains is constant:
`Parent`, `Height`, `Work` (accumulated), `TxIds`, `Balance` (the notes after
it), `Inputs`. `Block` holds the blocks that pass the checks made without
transactions and the proof of work; the others leave the state as it is.
`ValidBlock` are the ones that pass `validate-page-with-txs`.

A poke is one step, `Done` or `Crash`, except that the blocks which a
transaction makes ready are processed one by one (`ProcessReadyBlock`); `saved`
is the state to return to if one of them crashes. Their order is that of a set
of hashes, so any order is allowed. The garbage collection, the derived state
and the candidate are part of the step that changes the heaviest block, as they
are in `accept-block`.

Left out: effects; elders; timestamps and targets; the `btc-data` checks and the
init phase, which only gate pokes; `do-genesis`, which makes a genesis page the
candidate of the node that starts a chain (here every genesis block is heard);
state upgrades.
A mined block (`do-pow`) reaches `heard-block` as a complete block. Messages are
those of the libp2p wire. Which transactions fit in the candidate is any subset.
`SetMiningKey` and `EnableMining` are the two commands that touch the candidate;
the mining flag itself only gates effects.

### Fair queue and traffic cop

A send is `Insert` (into the map) and, if the key had no request, `Announce`
(the key goes into the channel). A recv is `RecvKey` and `Remove`. Between the
steps of either anything may happen, and the receiver may be dropped. The
traffic cop extends the high priority queue with a second instance of it, the
biased select, and the kernel calls, which return.

### Peers

`P2PState` is behind one mutex. A task takes it for one step, except the task of
`%liar-block-id`: it keeps the mutex (`lock`) while it sends the peers to ban
into the bounded channel (`swarm_rx`). The loop takes one thing at a time
(`TakeEvent`, `TakeRequest`, `TakeEffect`, `TakeSwarmAction`, `TakeReset`), and
a handler that needs the mutex waits for it in `loop`. The swarm is external:
connections come and go, pings end, a dial is denied. The kernel gives the
effects of `heard-block`. Where the code walks a hash set, the members come in
any order (`Orders`). `Budgets` bounds what the environment does. `tasks` is a
set: two equal effects that wait at one time are one task.

### ChainCache

The kernel is its blocks, pending blocks and heaviest chain. Each `%seen` and
`%gossip` effect is a task. Any of them may be lost by lag, those of `do-born`
included, and the others run in any order; `unseen` says that no `%seen` for the
last height of the heaviest chain was sent, or that it was lost. A request is
`CheckCache`, `HandlePeek`, `Insert`. The walk of the derived state is defined
by the set of a block's ancestors (`Ancestors`), which has one block at each
height, so that it can be reasoned about without recursion. Work is height: one target. Blocks that
are rejected, and the transaction cache, are left out.

### Mining

A candidate is the number of its commitment. A thread is queued, mining, in the
`%crud` poke that follows a cancelled attempt, or has a result the loop has not
taken. `Send` is the broadcast channel, which drops its oldest effect when full.

### Interpreter

The stack is a sequence of frames with work items and a mean stack. An open call
of `interpret` records what its caller does with the result. Each step takes the
top work item. `LeaveRunning` is the regular way out; `try_or_bail!` and `?`
return without it, which `bailed` records. `Cancel` may come at the steps in
`CancelSteps`. Atoms are words of `WordBits` bits, so that atoms of several
words are small. Left out: `jet_mule`, `jet_mute`, all other jets, jet tests,
the registration of `%fast`, and printing.

`InterpreterNock` evaluates the same formula with `++mink`. At four kinds of steps
the code takes another way than `++mink` and may come to another result. `Strays`
names them one by one, and `strayed` records that one was taken. They are listed
with the disagreements below.

## 3. Runs

| Run | Configuration | Result |
|---|---|---|
| `saver` | `MCSaver.cfg` | A fired waiter names a durable event (`WokenIsDurable`), the newest checkpoint is never the one overwritten (`NewestIsKept`), the files implement the register (`ImplementsDurable`). |
| `nockapp` | `MCNockApp.cfg` | An Ack means applied, a Nack or a dropped channel not applied (`AnswersAreTrue`); a clean exit keeps what was acked before it began (`CleanExitIsDurable`); the serf is stopped once (`StopOnce`); the composition implements the Saver (`ImplementsSaver`). |
| `nockapp_live` | `MCNockAppLive.cfg` | An exit ends the process (`ExitCompletes`) and requests are answered (`RequestsAreAnswered`), with a transient I/O error and with checkpointing off. |
| `consensus` | `MCConsensus.cfg` | The indexes of the pool agree (`PoolIndexesAgree`); accepted blocks keep their transactions and ancestors (`AcceptedBlocksAreWhole`); no complete block stays pending (`NoPendingBlockIsStuck`); no block is pending beyond the retention limit (`PendingBlocksAreFresh`), and none is dropped before it unless it or one of its transactions is invalid (`PendingBlocksAreKept`); the candidate can be mined (`CandidateIsMinable`); `heaviest-chain` is right (`HeaviestChainIsAccurate`); loose transactions follow the heaviest block (`PoolFollowsHeaviest`); committed states are a fork choice (`ImplementsForkChoice`). |
| `traffic_cop` | `MCTrafficCop.cfg` | The `expect` of recv holds (`KeyIsInMap`); a key has one turn (`OneTurnPerKey`); map and channel implement the mailboxes (`ImplementsMailbox`); one request is out at a time (`TakenIsHandled`); pokes are answered whatever others send (`PokesAreAnswered`), peeks unless the high priority queue has keys in it again and again (`PeeksAreAnswered`). |
| `peers` | `MCPeers.cfg` | The two maps of the block tracker agree (`TrackerAgrees`); the connections known, in all and by peer, are the open ones, and an address lists no connection of another and goes with its last one (`ConnectionsAgree`; it may lack some of its own, see below); the sender of a bad block is blocked or still tracked with it (`LiarsAreKnown`); the loop is stuck only behind a channel that stays full (`StuckOnlyWhenFull`). |
| `chain_cache` | `MCChainCache.cfg` | A cached answer is the kernel's, except while a clear is pending, lost by lag or overtaken by a request (`CachedIsCurrent`); every height of the heaviest chain comes to be served, unless the `%seen` for the last one was lost (`EveryHeightIsServed`). |
| `mining` | `MCMining.cfg` | Every thread comes to work on a candidate that stays (`CandidateIsMined`). |
| `interpreter` | `MCInterpreter.cfg` | But for the exceptions below, the result is that of `++mink` (`ResultIsNock`), a `%memo` hit is what evaluating would give (`HitIsNock`), and so is what the cache keeps for the next computation (`CacheIsNock`). The context is idle at the end exactly when no call returned early; then the frames and the scry gates are as they were (`IdleAgain`). |

Three runs end in a counterexample, where the code does not do what a line of the
repository says of it:

| Run | What happens | What is said |
|---|---|---|
| `consensus_invalid` | An invalid block heard with all its transactions was never pending; rejecting it crashes the poke. | "throw the block out and stop tracking it" |
| `consensus_ready` | Accepting one ready block drops another one by garbage collection; looking it up crashes and rolls back the poke. | "it was in pending-blocks" |
| `consensus_retarget` | Heights above a shorter, heavier chain are never removed; when the longer chain wins again, the walk stops at one of them and leaves wrong blocks below. | "heaviest chain is accurate" |

`PROJECT.json` quotes the lines.

### Disagreements without a run

The models reach all of these but the last three, which were found by reading.
The properties name them as exceptions, or speak of what is left.

* A crash while the first checkpoint ever is written leaves one torn file. Every
  later start panics on the `expect` at `mod.rs:209`.
* A save that fails during an exit, with no save interval, leaves the exit
  waiting for ever, although `mod.rs:793` says "continuing with shutdown anyway".
  A poke running when an exit begins may be acked and not saved (`mod.rs:786`:
  "ensure we have the latest state").
* `inner.hoon:654` says "the order here matters since we want to add the block to
  tracking and then ban the peer who sent it". The tasks of the effects run in
  any order, so a ban may find nobody, and a good block may stay tracked.
* `p2p_state.rs:108` enters an address with an empty set, without its first
  connection. When a second one is lost the entry goes, with its counts, while the
  first is open: "Not tracking {ip} but it is connected. Please inform the
  developers." (`p2p_state.rs:173`). `ConnectionsAgree` says of addresses only what
  holds in spite of this.
* The `%liar-block-id` task and the loop wait for each other when the channel is
  full (`driver.rs:703`).
* A second cancel during the `%crud` poke of a cancelled attempt makes the mining
  driver panic (`mining.rs:177`). A `%mine` effect broadcast late, by the task of
  an older poke, leaves the threads on the older candidate until the next one.
* `interpret` returns early on a formula that `push_formula` refuses and on a scry
  that blocks or crashes (`interpreter.rs` 612, 681, 1084, 1096). The outermost call
  then leaves its frames on the stack and `running_status` above idle, and drops
  the trace. An inner call leaves its frames to its caller, which takes its next
  item from them, where `++mink` gives a tone (`hoon-138.hoon:5962`). `IdleAgain`
  states the first; `ResultIsNock` says nothing once the second has happened.
* A `%10` at an axis that is not there panics (`interpreter.rs` 1660, 1663), in a
  virtualization too, where `++mink` crashes. At axis 0 the two parts are evaluated
  before that, and one of them may crash first (`EditsAxis0`).
* A static hint of the mean kind pops a mean stack on which nothing was pushed
  for it (`interpreter.rs` 1991-1993): the trace loses an entry, or an empty stack
  is popped (`PopsUnpushed`).
* `interpret` swaps the cache at every virtualization but not at the call of a scry
  gate (`interpreter.rs:1300`). A gate that memoizes a scry shares the entry with
  who called it, whose gate may answer otherwise (`SharesEntry`).
* A `%memo` hit skips the clue (`interpreter.rs:972`), which `++mink` evaluates and
  which may crash (`SkipsClue`).
* `HeardTx` responses are looked up in `seen_blocks` (`driver.rs:1350`).
* `tx_cache` is never cleared.
* `seen_elders` is entered before the poke it stands for (`driver.rs:1369`).

### Bounds

* `saver`: three events, two kernel states (so that two checkpoints with one
  event number could differ), two waiters, any number of crashes and failures.
  Two files alternate, so three saves meet every combination of them.
* `nockapp`: two pokes, two exits, two starts, one I/O error. Two pokes let one
  be running while another waits; two exits are a race; the second start shows
  what was durable. Pokes and exits are symmetric in the safety run. The liveness
  runs use no symmetry, and one poke and one peek.
* `traffic_cop`: two peers, one with two poking tasks; two peeking tasks of one
  peer. Two tasks under one key are needed for a replacement, two keys for a turn.
* `peers`: two connections of one peer, or one each of two peers, all from one
  address, with two ticks or two blocks. A channel of one place, one failed ping
  and a prune size of one bring every limit within reach.
* `chain_cache`: the node boots with a genesis block and one block; a fork of three
  blocks from genesis takes over. The `%seen` of `do-born` covers one height more
  than the boot chain, so the last height needs that of the accepted block. One
  block lacks transactions, the retention is one. One request, for one key that
  each behaviour chooses: requests meet only in the caches.
* `mining`: two threads, three candidates and a broadcast of two places, enough
  for a candidate to be overtaken, reordered and dropped.
* `interpreter`: 7225 programs: every operation on leaves and on formulas it
  refuses, nestings of the operations that move the subject, the frame or the
  trace, static and dynamic hints of every kind, and virtualizations under seven
  scry gates, two of which memoize. Each way of `Strays` is taken by some of them,
  and without it in `Strays` a property fails. Words of two bits make carries and
  axes of several words common. Two cancel points; all programs end within
  `MaxSteps`.
* `consensus`: two genesis blocks and ten others (a trunk,
  three competing branches, an invalid block, a block with an invalid
  transaction), four transactions, two of which spend the same note, and a
  retention limit of two. Branches are long enough for a reorganisation and for
  blocks to expire. `consensus_ready` lowers the limit to one. The default is 20
  (`types.hoon:263`), for which the same takes a longer chain.
  `consensus_retarget` has two branches with different targets.

Deadlock is checked in `consensus`. The other models have bounded events and
starts, and may stop when these are used up.

### Fairness

`NockApp!Fairness` is weak fairness of each step of the event loop, the tasks,
the serf thread and the runtime. Tokio schedules every ready task; `select!`
polls its branches in random order, so a ready branch is not passed over for
ever; the serf is an operating system thread; a poke is assumed to end. Nothing
is assumed of drivers, signals, crashes, or of writes succeeding: a write is fair
in succeeding or failing, and failures are bounded by `MaxIoError`.

`TrafficCop` has weak fairness of the task and of the second step of a send; not
of callers. `Peers` and `ChainCache` have weak fairness of the loop's branches
and of spawned tasks, and none of peers, the swarm or requests. In `Mining` the
two branches of the `select!` have strong fairness, since each may be disabled
while the loop is in the other one; an attempt ends by itself, as it tries one
nonce.

## 4. Proofs

All theorems hold for every value of the constants that satisfies the named
assumptions of the module. The bounds of the models (`MaxEvent`, `MaxStart`,
`MaxIoError`, `Budgets`) are constants like the others, and arbitrary. Every
assumption is evaluated by TLC on the constants of the runs; most of them only
say that a value which stands for "nothing" is none of the real ones. Every
invariant and action property of the runs is proved, but the three that compare
the interpreter with `++mink`.

**Saver.** `SaverInvariant` proves `Saver!IInv`. The properties are not inductive
by themselves: that the newest checkpoint is kept depends on which file the last
save went to (`SlotInv`), on no file being ahead of the kernel
(`KernelIsNewest`), and on files with equal event numbers being equal
(`TieInv`), without which the strict comparison in `try_load` could pick the
other state. From it follow `SaverTypes`, `WokenIsDurableTheorem`,
`NewestIsKeptTheorem` and `SaverImplementsDurable`: the register changes in one
step, when the last byte is written, to a checkpoint no newer than the kernel, and
one with the event number of the old is equal to it (`NotNewer`).

**NockApp.** `NockAppInvariant` proves `NockApp!IInv`, which has the Saver's
invariant in it: every step of a NockApp is a step of its Saver or leaves the
Saver alone (`NockAppImplementsSaver`), so that part is kept by the lemma
`SaverProofs` has for it. What is added says where things are:

* a request is once in the channel that its state names (`QueueInv`), and
  nothing in memory outlives a process (`ProcInv`);
* the state of a request says whether the running kernel has applied the poke,
  and no checkpoint holds a poke that was never sent (`AppliedInv`). From these
  follows `AnswersAreTrueTheorem`;
* an exit is in one place (`ExitInv`), whence `StopOnceTheorem`;
* an exit gets past its wait only when its waiter fired (`SnapshotInv`), and every
  checkpoint as recent as the exit has what was acked before it (`AckedInv`).
  With the Saver's own theorem that a fired waiter names a durable event, this
  gives `CleanExitIsDurableTheorem`.

**Consensus.** `ConsensusInvariant` proves `Consensus!IInv`. It states `Good` of
the working state and of the state a crash returns to: exact indexes, whole
blocks, a heaviest block that is heaviest, fresh pending blocks, a minable
candidate. Half way through a poke only the blocks still to be processed may be
complete and pending (`NoneStuckBut`), and the working state has grown from the
saved one (`GrownFrom`). There is one lemma for each arm of the kernel that
changes the state, and one step for each action. The theorems cover every
property of the `consensus` run:

* `ConsensusTypes`, `PoolIndexesAgreeTheorem`, `AcceptedBlocksAreWholeTheorem`,
  `NoPendingBlockIsStuckTheorem`, `PendingBlocksAreFreshTheorem` and
  `CandidateIsMinableTheorem` follow from the invariant;
* `ConsensusImplementsForkChoice` maps a poke that completes to one step of
  `ForkChoice` and every other step to a stutter;
* `PoolFollowsHeaviestTheorem` and `PendingBlocksAreKeptTheorem` are action
  properties. The second also needs that a running poke adds no pending block
  (`NoNewPending`), so that a crash gives back all that were dropped;
* `HeaviestChainIsAccurateTheorem` assumes `EvenWork` (more work means more
  blocks, as within one target). Then `heaviest-chain` holds nothing above the
  heaviest block (`ChainExact`), so the early exit of the walk is right. Without
  the assumption it is not, as `consensus_retarget` shows.

The assumptions on the block tree say that a block is one higher than its parent
and heavier, that blocks with one parent have one target, that genesis blocks
are at height 0 without transactions and are equally heavy, and that `Ancestors`
is what its name says.

**Fair queue.** `FairQueueInvariant` proves `FairQueue!IInv` for any callers and
keys. `KeyIsInMap` is not inductive: it needs that a key has a request exactly
when its turn is on its way into the channel, in it, or held by recv (`TurnInv`),
and that a request is under its own key (`MapInv`). `KeyIsInMapTheorem`,
`OneTurnPerKeyTheorem` and `FairQueueImplementsMailbox` follow; an insert and a
remove are the two steps of the mailbox.

**Traffic cop.** Each step of the traffic cop is a step of one of the two queues,
or of neither (`TrafficCopImplementsQueues`); so the invariants of both hold, and
`TrafficCopImplementsMailbox` follows from the theorem about one queue. For
`TakenIsHandledTheorem` the invariant (`CopIInv`) adds that the task has a request
in hand from at most one queue, and only where it selects (`OneInHand`).

**Peers.** `TrackerAgreesTheorem` needs no assumption on the constants. The
invariant (`TrackerInv`) adds to the property only that the two maps are maps;
one lemma for each operation of the tracker shows that it changes both alike.
The other two theorems follow from `PeersInvariant`, which proves `Peers!IInv`:

* `ConnectionsAgreeTheorem`: the swarm's events reach the loop late, so the maps
  agree with the open connections only when no event waits. The invariant says
  that what waits makes up exactly the difference, connection by connection, and
  that nothing about a connection waits in front of its start (`ConnInv`);
* `LiarsAreKnownTheorem`: `LiarInv` says that every sender of a bad block whose
  connections stay is blocked, in the channel or the list of those to be banned,
  tracked with the block, or in a `%track` task or effect (`Known`), in whatever
  order the tasks run.

**ChainCache.** `ChainCacheInvariant` proves `ChainCache!IInv`, and
`CachedIsCurrentTheorem` follows. A cache is filled from an answer that a handler
holds across two locks, so what is needed is that the answer was current and is
still so, or was marked by the clear that overtook it (`AnswerInv`); and that the
heaviest chain is made of blocks that are there, with their parents (`ChainInv`),
since an answer that a block is unknown is right only for a block outside the
chain. Growth of the chain without a new heaviest block changes no cached
answer (`SamePeek`). That a block has an ancestor at every height below its own is
an induction on height, done as the existence of a least height without one
(`LeastNatural`).

**Interpreter.** `InterpreterInvariant` proves `Interpreter!IInv` for any programs,
number of steps and use of the cancel token; `InterpreterTypes` and
`IdleAgainTheorem` follow. A context is idle at the end only if every open call
keeps to its part of it, so the invariant says what belongs to which call:

* the first frame of a call ends with `DONE`, its others with `RET`, and the item
  that made the call is on top of the frame below (`Stacked`). Hence a call that
  breaks or is done leaves the stack as it was when it was made (`Unwound`);
* while a call runs, `running_status` is the number of open calls, negated once
  cancelled; when one has returned, it is one nearer to zero (`GoesOn`, `Returns`);
* the outermost call that changes the scry gates has none to put back
  (`ScryInv`), and the outermost call of all has the empty cache to restore
  (`Outermost`).

There is one lemma for each way on from a step (another item, break, early
return, panic, a call) and one for each work item. After an early return, which
`bailed` records, no more is claimed than the types and that `running_status`
stays farther from idle than the open calls account for (`Beyond`, in `StateInv`):
the calls still open cannot bring it back, so the context is not idle at the end.

**Only model-checked.** Liveness (`ExitCompletes`, `RequestsAreAnswered`,
`PokesAreAnswered`, `PeeksAreAnswered`, `StuckOnlyWhenFull`,
`EveryHeightIsServed`, and `CandidateIsMined`, which is all that `Mining` states)
needs fairness, which is outside what the prover can do. `ResultIsNock`, `HitIsNock`
and `CacheIsNock` (`InterpreterNock`) compare the evaluator with a recursive
definition of Nock (`NockReference`): that needs an induction over formulas, which
the prover cannot do, and it does not accept recursive operators in what it
reasons about.

## 5. Not modelled

* The persistent arena and its two files, state upgrades and `check-and-repair`:
  the hazards of `PROJECT.json` that have no property, besides the two that the
  code does not withstand (`save.rs:166`, `mining.rs:177`).
* The timers of `poke_timeout`. In `NockApp` a running poke may fail at any time,
  so a cancel that hits the poke of another caller is one of its behaviours.
* Elders, the init phase, `compute-target` and `update-min-timestamps`; the gRPC
  caches; dialling and the seen sets of transactions and elders.
* Pure computations (jets, noun serialisation, field and polynomial arithmetic,
  the prover and verifier, transaction rules, key derivation) are constants or
  predicates of the models.

Command lines, conversions between
message formats, HTTP, files, metrics and logging change no state that the
properties speak of. The libraries (tokio, libp2p, tonic) are modelled by what
the code relies on.
