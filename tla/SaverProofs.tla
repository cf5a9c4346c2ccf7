---------------------------- MODULE SaverProofs ----------------------------
(***************************************************************************)
(* Proofs about the Saver, for every set of kernel states and waiters and  *)
(* every bound on the number of events: a waiter that fires names an event *)
(* that is on disk, the newest checkpoint is never in the file about to be *)
(* overwritten, and the two files implement one durable register.          *)
(***************************************************************************)
EXTENDS Saver, TLAPS

\* WhichSnapshot::next alternates between the two files.
LEMMA SnapshotFlip ==
    /\ WhichSnapshot = {0, 1}
    /\ NextSnapshot(0) = 1
    /\ NextSnapshot(1) = 0
BY DEF WhichSnapshot, NextSnapshot

\* The state Serf::new makes without a checkpoint is one of event 0.
LEMMA FreshIsCheckpoint == Fresh \in Checkpoint /\ Fresh.event_num = 0
BY InitialStateAssumption, Zenon DEF Fresh, Checkpoint

\* A checkpoint has an event number, so checkpoints can be compared.
LEMMA CheckpointFields ==
    ASSUME NEW c \in Checkpoint
    PROVE  c.event_num \in Nat /\ c.ker_state \in KernelState
BY Zenon DEF Checkpoint

\* With no file and nothing loaded the invariant holds.
LEMMA InitIInv == Init => IInv
<1> SUFFICES ASSUME Init PROVE IInv
  BY Zenon
<1>1. TypeOK
  BY Zenon DEF Init, TypeOK, WhichSnapshot
<1>2. ~Loads(0) /\ ~Loads(1)
  BY SentinelAssumption, Zenon DEF Init, Loads, WhichSnapshot
<1> QED
  BY <1>1, <1>2, Zenon DEF Init, IInv, MemoryInv, KernelIsNewest, SlotInv, TieInv, WakeInv

\* Every step of the Saver, the kernel or a crash keeps the types.
LEMMA TypeStep == IInv /\ [Next]_vars => TypeOK'
<1> SUFFICES ASSUME IInv, [Next]_vars PROVE TypeOK'
  BY Zenon
<1> USE SnapshotFlip, SentinelAssumption DEF IInv, TypeOK, saverVars
<1>1. CASE LoadNothing
  BY <1>1, FreshIsCheckpoint, Zenon DEF LoadNothing
<1>2. CASE LoadCheckpoint
  <2>1. Stored \in Checkpoint /\ NextSnapshot(LoadedFrom) \in WhichSnapshot
    BY <1>2, Zenon DEF LoadCheckpoint, Stored, LoadedFrom, Loads
  <2> QED
    BY <1>2, <2>1, CheckpointFields, Zenon DEF LoadCheckpoint
<1>3. CASE LoadFails
  BY <1>3, Zenon DEF LoadFails
<1>4. CASE EventUpdate
  <2>1. kernel' \in Checkpoint
    BY <1>4, CheckpointFields DEF EventUpdate, Checkpoint
  <2> QED
    BY <1>4, <2>1, Zenon DEF EventUpdate
<1>5. CASE Crash
  BY <1>5, Zenon DEF Crash
<1>6. CASE Capture
  BY <1>6, Zenon DEF Capture
<1>7. CASE OpenFile
  BY <1>7, Zenon DEF OpenFile
<1>8. CASE FileWritten
  <2>1. ckpt \in Checkpoint
    BY <1>8, Zenon DEF FileWritten, MemoryInv
  <2> QED
    BY <1>8, <2>1, Zenon DEF FileWritten
<1>9. CASE SaveFails
  BY <1>9, Zenon DEF SaveFails
<1>10. CASE SaveReturns
  <2>1. ckpt \in Checkpoint
    BY <1>10, Zenon DEF SaveReturns, MemoryInv
  <2> QED
    BY <1>10, <2>1, CheckpointFields, Zenon DEF SaveReturns
<1>11. ASSUME NEW w \in Waiter, NEW n \in 0 .. MaxEvent, WaitForSnapshot(w, n) PROVE TypeOK'
  <2>1. n \in Nat
    BY MaxEventAssumption
  <2> QED
    BY <1>11, <2>1 DEF WaitForSnapshot
<1>12. CASE UNCHANGED vars
  BY <1>12, Zenon DEF vars
<1> QED
  BY <1>1, <1>2, <1>3, <1>4, <1>5, <1>6, <1>7, <1>8, <1>9, <1>10, <1>11, <1>12, Zenon DEF Next

\* Every step keeps the inductive invariant.
LEMMA InvStep == IInv /\ [Next]_vars => IInv'
<1> SUFFICES ASSUME IInv, [Next]_vars PROVE IInv'
  BY Zenon
<1> USE SnapshotFlip, SentinelAssumption
<1>0. TypeOK'
  BY TypeStep, Zenon
<1>1. CASE LoadNothing
  <2>1. /\ slot' = slot /\ kernel' = Fresh /\ last_event_num' = 0 /\ save_to_next' = 0
        /\ phase = "idle" /\ phase' = "idle" /\ ckpt = NoCheckpoint /\ ckpt' = NoCheckpoint
        /\ woken = {} /\ woken' = {} /\ waiters' = {} /\ ~failed'
        /\ ~Loads(0) /\ ~Loads(1)
    BY <1>1, Zenon DEF LoadNothing, Loads, IInv, MemoryInv
  <2>2. ~Loads(0)' /\ ~Loads(1)'
    BY <2>1, Zenon DEF Loads
  <2> QED
    BY <1>0, <2>1, <2>2, FreshIsCheckpoint, Zenon
    DEF IInv, MemoryInv, KernelIsNewest, SlotInv, TieInv, WakeInv
<1>2. CASE LoadCheckpoint
  <2> DEFINE w == LoadedFrom
             o == NextSnapshot(LoadedFrom)
  <2>1. /\ slot' = slot /\ kernel' = slot[w] /\ last_event_num' = slot[w].event_num
        /\ save_to_next' = o /\ w \in WhichSnapshot /\ o \in WhichSnapshot
        /\ NextSnapshot(o) = w /\ slot[w] \in Checkpoint
        /\ phase' = "idle" /\ ckpt' = NoCheckpoint /\ woken' = {} /\ waiters' = {} /\ ~failed'
    BY <1>2, Zenon DEF LoadCheckpoint, Stored, LoadedFrom, Loads, IInv, MemoryInv
  <2>2. \A v \in WhichSnapshot : Loads(v) => NotNewer(slot[v], slot[w])
    BY <1>2, CheckpointFields DEF LoadCheckpoint, Stored, LoadedFrom, Loads, NotNewer, IInv, TieInv
  <2>3. \A v \in WhichSnapshot : Loads(v)' <=> Loads(v)
    BY <2>1, Zenon DEF Loads
  <2>4. MemoryInv' /\ KernelIsNewest' /\ WakeInv'
    BY <2>1, <2>2, <2>3, Zenon DEF MemoryInv, KernelIsNewest, WakeInv, NotNewer
  <2>5. SlotInv'
    BY <2>1, <2>2, <2>3, Zenon DEF SlotInv, NotNewer, Loads
  <2>6. TieInv'
    BY <2>1, <2>3, Zenon DEF TieInv, IInv
  <2> QED
    BY <1>0, <2>4, <2>5, <2>6, Zenon DEF IInv
<1>3. CASE LoadFails
  BY <1>0, <1>3, Zenon
  DEF LoadFails, saverVars, IInv, MemoryInv, KernelIsNewest, SlotInv, TieInv, WakeInv, Loads
<1>4. CASE EventUpdate
  <2>1. /\ kernel \in Checkpoint /\ kernel' \in Checkpoint /\ kernel # Down /\ kernel' # Down
        /\ kernel'.event_num = kernel.event_num + 1
        /\ UNCHANGED <<slot, save_to_next, last_event_num, waiters, woken, phase, ckpt, failed>>
    <3>1. kernel \in Checkpoint /\ kernel.event_num \in Nat
      BY <1>4, CheckpointFields, Zenon DEF EventUpdate, IInv, TypeOK
    <3>2. kernel' \in Checkpoint /\ kernel'.event_num = kernel.event_num + 1
      BY <1>4, <3>1 DEF EventUpdate, Checkpoint
    <3> QED
      BY <1>4, <3>1, <3>2, Zenon DEF EventUpdate, saverVars
  <2>2. \A v \in WhichSnapshot : Loads(v)' <=> Loads(v)
    BY <2>1, Zenon DEF Loads
  <2>3. \A c \in Checkpoint : NotNewer(c, kernel) => NotNewer(c, kernel')
    BY <2>1, CheckpointFields DEF NotNewer
  <2>4. KernelIsNewest'
    BY <2>1, <2>2, <2>3, Zenon DEF KernelIsNewest, IInv, TypeOK, Loads
  <2>5. SlotInv'
    BY <2>1, <2>2, Zenon DEF IInv, TypeOK, SlotInv, NotNewer
  <2>6. MemoryInv' /\ TieInv' /\ WakeInv'
    BY <2>1, <2>2, Zenon DEF IInv, MemoryInv, TieInv, WakeInv
  <2> QED
    BY <1>0, <2>4, <2>5, <2>6, Zenon DEF IInv
<1>5. CASE Crash
  BY <1>0, <1>5, Zenon
  DEF Crash, IInv, MemoryInv, KernelIsNewest, SlotInv, TieInv, WakeInv, Loads
<1>6. CASE Capture
  <2>1. /\ kernel \in Checkpoint /\ ckpt' = kernel /\ kernel' = kernel /\ phase' = "captured"
        /\ UNCHANGED <<slot, save_to_next, last_event_num, waiters, woken, failed>>
    BY <1>6, Zenon DEF Capture, saverVars, IInv, TypeOK
  <2>2. \A v \in WhichSnapshot : Loads(v)' <=> Loads(v)
    BY <2>1, Zenon DEF Loads
  <2>3. last_event_num <= kernel.event_num
    BY <1>6, <2>1, CheckpointFields
    DEF Capture, IInv, TypeOK, SlotInv, KernelIsNewest, NotNewer, Loads
  <2>4. KernelIsNewest'
    BY <2>1, <2>2, <2>3, CheckpointFields DEF KernelIsNewest, IInv, NotNewer
  <2>5. SlotInv'
    BY <1>6, <2>1, <2>2, CheckpointFields, Zenon
    DEF Capture, SlotInv, KernelIsNewest, IInv, TypeOK, NotNewer
  <2> QED
    BY <1>0, <1>6, <2>1, <2>2, <2>4, <2>5 DEF Capture, IInv, MemoryInv, TieInv, WakeInv
<1>7. CASE OpenFile
  <2>1. /\ slot' = [slot EXCEPT ![save_to_next] = Torn] /\ phase' = "writing"
        /\ UNCHANGED <<save_to_next, last_event_num, waiters, woken, ckpt, kernel, failed>>
        /\ slot'[save_to_next] = Torn
        /\ slot'[NextSnapshot(save_to_next)] = slot[NextSnapshot(save_to_next)]
        /\ save_to_next \in WhichSnapshot
    BY <1>7 DEF OpenFile, saverVars, IInv, TypeOK
  <2>2. ~Loads(save_to_next)' /\ (Loads(NextSnapshot(save_to_next))' <=> Loads(NextSnapshot(save_to_next)))
    BY <2>1, Zenon DEF Loads
  <2>3. KernelIsNewest' /\ TieInv'
    BY <2>1, <2>2 DEF KernelIsNewest, TieInv, IInv, NotNewer
  <2>4. SlotInv'
    BY <2>1, <2>2, Zenon DEF SlotInv, IInv, NotNewer
  <2> QED
    BY <1>0, <1>7, <2>1, <2>3, <2>4 DEF OpenFile, IInv, MemoryInv, WakeInv
<1>8. CASE FileWritten
  <2>1. /\ slot' = [slot EXCEPT ![save_to_next] = ckpt] /\ phase' = "written"
        /\ UNCHANGED <<save_to_next, last_event_num, waiters, woken, ckpt, kernel, failed>>
        /\ slot'[save_to_next] = ckpt
        /\ slot'[NextSnapshot(save_to_next)] = slot[NextSnapshot(save_to_next)]
        /\ save_to_next \in WhichSnapshot /\ ckpt \in Checkpoint /\ kernel # Down
    BY <1>8 DEF FileWritten, saverVars, IInv, TypeOK, MemoryInv
  <2>2. Loads(save_to_next)' /\ (Loads(NextSnapshot(save_to_next))' <=> Loads(NextSnapshot(save_to_next)))
    BY <2>1, Zenon DEF Loads
  <2>3. KernelIsNewest' /\ TieInv'
    BY <2>1, <2>2 DEF KernelIsNewest, TieInv, SlotInv, IInv, NotNewer
  <2>4. SlotInv'
    BY <2>1, <2>2, Zenon DEF SlotInv, IInv, NotNewer
  <2> QED
    BY <1>0, <1>8, <2>1, <2>3, <2>4 DEF FileWritten, IInv, MemoryInv, WakeInv
<1>9. CASE SaveFails
  <2>1. \A v \in WhichSnapshot : Loads(v)' <=> Loads(v)
    BY <1>9, Zenon DEF SaveFails, Loads
  <2>2. /\ UNCHANGED <<slot, save_to_next, last_event_num, waiters, woken, kernel, failed>>
        /\ phase' = "idle" /\ ckpt' = NoCheckpoint /\ phase # "written" /\ kernel # Down
    BY <1>9, Zenon DEF SaveFails, saverVars, IInv, MemoryInv
  <2>3. MemoryInv' /\ TieInv' /\ WakeInv'
    BY <2>1, <2>2, Zenon DEF IInv, MemoryInv, TieInv, WakeInv
  <2>4. KernelIsNewest'
    BY <2>1, <2>2, Zenon DEF IInv, KernelIsNewest, NotNewer
  <2>5. SlotInv'
    BY <2>1, <2>2, Zenon DEF IInv, TypeOK, SlotInv, NotNewer
  <2> QED
    BY <1>0, <2>3, <2>4, <2>5, Zenon DEF IInv
<1>10. CASE SaveReturns
  <2>1. /\ slot' = slot /\ phase' = "idle" /\ ckpt' = NoCheckpoint /\ kernel' = kernel
        /\ save_to_next' = NextSnapshot(save_to_next) /\ last_event_num' = ckpt.event_num
        /\ NextSnapshot(NextSnapshot(save_to_next)) = save_to_next
        /\ save_to_next \in WhichSnapshot /\ ckpt \in Checkpoint /\ kernel # Down /\ ~failed'
        /\ slot[save_to_next] = ckpt
    BY <1>10, Zenon DEF SaveReturns, IInv, TypeOK, MemoryInv, SlotInv
  <2>2. \A v \in WhichSnapshot : Loads(v)' <=> Loads(v)
    BY <2>1, Zenon DEF Loads
  <2>3. MemoryInv'
    BY <2>1, Zenon DEF MemoryInv
  <2>4. KernelIsNewest' /\ TieInv'
    BY <2>1, <2>2, Zenon DEF KernelIsNewest, TieInv, IInv, NotNewer
  <2>5. SlotInv'
    BY <2>1, <2>2, Zenon DEF SlotInv, IInv, NotNewer, Loads
  <2>6. WakeInv'
    <3> SUFFICES ASSUME NEW x \in woken' PROVE x[1] <= ckpt.event_num
      BY <2>1, Zenon DEF WakeInv
    <3>1. x \in woken => x[1] \in Nat /\ x[1] <= last_event_num
      BY Zenon DEF IInv, WakeInv, TypeOK
    <3>2. last_event_num \in Nat /\ ckpt.event_num \in Nat /\ last_event_num <= ckpt.event_num
      BY <2>1, CheckpointFields, Zenon DEF IInv, TypeOK, KernelIsNewest
    <3>3. x \notin woken => x[1] <= ckpt.event_num
      BY <1>10, Zenon DEF SaveReturns
    <3> QED
      BY <3>1, <3>2, <3>3
  <2> QED
    BY <1>0, <2>3, <2>4, <2>5, <2>6, Zenon DEF IInv
<1>11. ASSUME NEW w \in Waiter, NEW n \in 0 .. MaxEvent, WaitForSnapshot(w, n) PROVE IInv'
  <2>1. /\ UNCHANGED <<slot, save_to_next, last_event_num, phase, ckpt, kernel, failed>>
        /\ kernel # Down
    BY <1>11, Zenon DEF WaitForSnapshot
  <2>2. \A v \in WhichSnapshot : Loads(v)' <=> Loads(v)
    BY <2>1, Zenon DEF Loads
  <2>3. WakeInv'
    BY <1>11 DEF WaitForSnapshot, WakeInv, IInv
  <2>4. MemoryInv' /\ TieInv'
    BY <2>1, <2>2, Zenon DEF IInv, MemoryInv, TieInv
  <2>5. KernelIsNewest'
    BY <2>1, <2>2, Zenon DEF IInv, KernelIsNewest, NotNewer
  <2>6. SlotInv'
    BY <2>1, <2>2, Zenon DEF IInv, TypeOK, SlotInv, NotNewer
  <2> QED
    BY <1>0, <2>3, <2>4, <2>5, <2>6, Zenon DEF IInv
<1>12. CASE UNCHANGED vars
  BY <1>0, <1>12, Zenon
  DEF vars, saverVars, IInv, MemoryInv, KernelIsNewest, SlotInv, TieInv, WakeInv, Loads, NotNewer
<1> QED
  BY <1>1, <1>2, <1>3, <1>4, <1>5, <1>6, <1>7, <1>8, <1>9, <1>10, <1>11, <1>12, Zenon DEF Next

(***************************************************************************)
(* The theorems.                                                           *)
(***************************************************************************)
\* The invariant holds in every reachable state of every Saver.
THEOREM SaverInvariant == Spec => []IInv
<1>1. Init => IInv
  BY InitIInv, Zenon
<1>2. IInv /\ [Next]_vars => IInv'
  BY InvStep, Zenon
<1> QED
  BY <1>1, <1>2, PTL DEF Spec

\* The Saver's fields, the files and the save under way keep their types.
THEOREM SaverTypes == Spec => []TypeOK
<1>1. IInv => TypeOK
  BY Zenon DEF IInv
<1> QED
  BY <1>1, SaverInvariant, PTL

\* What a restarted process would load is at least as recent as the last
\* save this process knows of.
LEMMA StoredCoversLastSave ==
    ASSUME IInv, kernel # Down, last_event_num > 0
    PROVE  Stored \in Checkpoint /\ Stored.event_num >= last_event_num
<1> USE SnapshotFlip
<1>1. Loads(NextSnapshot(save_to_next)) /\ slot[NextSnapshot(save_to_next)].event_num = last_event_num
  BY DEF IInv, SlotInv, TypeOK
<1> QED
  BY <1>1, CheckpointFields DEF Stored, LoadedFrom, Loads, IInv, TypeOK

\* A waiter fires only for an event that is on disk (Saver::wait_for_snapshot
\* and the waiters Saver::save fires).
THEOREM WokenIsDurableTheorem == Spec => []WokenIsDurable
<1>1. IInv => WokenIsDurable
  <2> SUFFICES ASSUME IInv, NEW x \in woken, x[1] > 0
               PROVE  Stored \in Checkpoint /\ Stored.event_num >= x[1]
    BY Zenon DEF WokenIsDurable
  <2>1. x[1] \in Nat /\ x[1] <= last_event_num /\ last_event_num \in Nat /\ kernel # Down
    BY Zenon DEF IInv, TypeOK, WakeInv, MemoryInv
  <2>2. Stored \in Checkpoint /\ Stored.event_num >= last_event_num
    BY <2>1, StoredCoversLastSave
  <2> QED
    BY <2>1, <2>2, CheckpointFields
<1> QED
  BY <1>1, SaverInvariant, PTL

\* The file Saver::save is about to overwrite is never the only one that holds
\* the newest checkpoint.
THEOREM NewestIsKeptTheorem == Spec => []NewestIsKept
<1>1. IInv => NewestIsKept
  BY SnapshotFlip, SentinelAssumption, CheckpointFields
  DEF IInv, TypeOK, SlotInv, TieInv, NewestIsKept, Stored, LoadedFrom, Loads, NotNewer
<1> QED
  BY <1>1, SaverInvariant, PTL

(***************************************************************************)
(* The refinement.  Only FileWritten changes what would be loaded; opening *)
(* a file destroys its old content, but the newest checkpoint is in the    *)
(* other file.                                                             *)
(***************************************************************************)
\* What try_load would load is a function of the two files.
LEMMA StoredUnchanged ==
    ASSUME slot' = slot
    PROVE  Stored' = Stored
BY Zenon DEF Stored, LoadedFrom, Loads

\* Truncating the file of the next save does not change what would be
\* loaded: the other file has the newest checkpoint.
LEMMA OpenFileKeepsStored ==
    ASSUME IInv, OpenFile
    PROVE  Stored' = Stored
<1> USE SnapshotFlip, SentinelAssumption
<1> DEFINE other == NextSnapshot(save_to_next)
<1>1. /\ slot'[save_to_next] = Torn /\ slot'[other] = slot[other]
      /\ save_to_next \in WhichSnapshot /\ other \in WhichSnapshot /\ kernel # Down
  BY DEF OpenFile, IInv, TypeOK, MemoryInv
<1>2. CASE Loads(other)
  <2>1. Stored' = slot[other]
    BY <1>1, <1>2, Zenon DEF Stored, LoadedFrom, Loads
  <2>2. Loads(save_to_next) => NotNewer(slot[save_to_next], slot[other])
    BY <1>1, <1>2, Zenon DEF OpenFile, IInv, SlotInv
  <2>3. Stored = slot[other]
    BY <1>1, <1>2, <2>2, CheckpointFields DEF Stored, LoadedFrom, Loads, NotNewer
  <2> QED
    BY <2>1, <2>3, Zenon
<1>3. CASE ~Loads(other)
  <2>1. ~Loads(save_to_next)
    BY <1>1, <1>3, Zenon DEF OpenFile, IInv, SlotInv
  <2> QED
    BY <1>1, <1>3, <2>1, Zenon DEF Stored, LoadedFrom, Loads
<1> QED
  BY <1>2, <1>3, Zenon

\* Once the last byte is written the captured checkpoint would be loaded.
LEMMA FileWrittenStores ==
    ASSUME IInv, FileWritten
    PROVE  /\ Stored' = ckpt /\ ckpt \in Checkpoint
           /\ Stored # NoCheckpoint => NotNewer(Stored, ckpt)
<1> USE SnapshotFlip, SentinelAssumption
<1> DEFINE other == NextSnapshot(save_to_next)
<1>1. /\ slot'[save_to_next] = ckpt /\ slot'[other] = slot[other] /\ ckpt \in Checkpoint
      /\ save_to_next \in WhichSnapshot /\ other \in WhichSnapshot /\ kernel # Down
      /\ phase # "written"
  BY DEF FileWritten, IInv, TypeOK, MemoryInv
<1>2. Loads(other) => NotNewer(slot[other], ckpt)
  BY <1>1, Zenon DEF IInv, SlotInv
<1>3. Stored' = ckpt
  BY <1>1, <1>2, CheckpointFields DEF Stored, LoadedFrom, Loads, NotNewer
<1>4. Stored # NoCheckpoint => NotNewer(Stored, ckpt)
  BY <1>1, <1>2, CheckpointFields DEF IInv, SlotInv, Stored, LoadedFrom, Loads, NotNewer
<1> QED
  BY <1>1, <1>3, <1>4, Zenon

\* The two checkpoint files of the Saver implement the durable register: no
\* crash and no failed write loses or changes what was stored last.
THEOREM SaverImplementsDurable == Spec => ImplementsDurable
<1> USE DEF Durable!Checkpoint, Durable!Fresh, Durable!vars
<1>1. Init => Durable!Init
  BY SnapshotFlip, SentinelAssumption, Zenon DEF Init, Durable!Init, Stored, Loads
<1>2. IInv /\ IInv' /\ [Next]_vars => [Durable!Next]_(Durable!vars)
  <2> SUFFICES ASSUME IInv, IInv', [Next]_vars
               PROVE  Durable!Next \/ UNCHANGED <<kernel, Stored>>
    BY Zenon
  <2> USE SnapshotFlip, SentinelAssumption, StoredUnchanged
  <2>1. CASE LoadNothing
    BY <2>1, Zenon DEF LoadNothing, Fresh, Stored, Loads, Durable!Next, Durable!Restart
  <2>2. CASE LoadCheckpoint
    BY <2>2, Zenon DEF LoadCheckpoint, Durable!Next, Durable!Restart
  <2>3. CASE LoadFails
    BY <2>3, Zenon DEF LoadFails
  <2>4. CASE EventUpdate
    <3>1. kernel' \in Checkpoint /\ kernel'.event_num = kernel.event_num + 1
      BY <2>4 DEF EventUpdate, Checkpoint, IInv, TypeOK
    <3> QED
      BY <2>4, <3>1, Zenon DEF EventUpdate, Checkpoint, Durable!Next, Durable!Advance
  <2>5. CASE Crash
    BY <2>5, Zenon DEF Crash, Durable!Next, Durable!Crash
  <2>6. CASE Capture
    BY <2>6, Zenon DEF Capture
  <2>7. CASE OpenFile
    BY <2>7, OpenFileKeepsStored, Zenon DEF OpenFile
  <2>8. CASE FileWritten
    <3>1. kernel # Down /\ NotNewer(ckpt, kernel) /\ kernel' = kernel
      BY <2>8, Zenon DEF FileWritten, IInv, MemoryInv, KernelIsNewest
    <3> QED
      BY <2>8, <3>1, FileWrittenStores, Zenon
      DEF Checkpoint, NotNewer, Durable!NotNewer, Durable!Next, Durable!Store
  <2>9. CASE SaveFails
    BY <2>9, Zenon DEF SaveFails
  <2>10. CASE SaveReturns
    BY <2>10, Zenon DEF SaveReturns
  <2>11. ASSUME NEW w \in Waiter, NEW n \in 0 .. MaxEvent, WaitForSnapshot(w, n) PROVE UNCHANGED <<kernel, Stored>>
    BY <2>11, Zenon DEF WaitForSnapshot
  <2>12. CASE UNCHANGED vars
    BY <2>12, Zenon DEF vars
  <2> QED
    BY <2>1, <2>2, <2>3, <2>4, <2>5, <2>6, <2>7, <2>8, <2>9, <2>10, <2>11, <2>12, Zenon DEF Next
<1> QED
  BY <1>1, <1>2, SaverInvariant, PTL DEF Spec, ImplementsDurable, Durable!Spec
=============================================================================
