------------------------------- MODULE Saver -------------------------------
(***************************************************************************)
(* The Saver of a NockApp (crates/nockapp/src/nockapp/save.rs): two        *)
(* checkpoint files, 0.chkjam and 1.chkjam, written in turn, the waiters   *)
(* that want to know when an event is on disk, and the choice of the file  *)
(* to load when the process starts.  The kernel is only what the Saver     *)
(* sees of it: an event number and a state.                                *)
(*                                                                         *)
(* A file is Absent, Torn (it exists and load_checkpoint_file refuses it:  *)
(* truncated, half written, checksum mismatch) or the checkpoint it holds. *)
(* The process may die between any two steps; the file system outlives it. *)
(***************************************************************************)
EXTENDS Integers

CONSTANTS
    KernelState,   \* the values a kernel state can have
    InitialState,  \* the state of a freshly booted kernel
    Waiter,        \* the callers of wait_for_snapshot
    MaxEvent,      \* bound on the events of a run
    Absent, Torn, NoCheckpoint, Down

Checkpoint == [event_num : Nat, ker_state : KernelState]

ASSUME InitialStateAssumption == InitialState \in KernelState
ASSUME MaxEventAssumption == MaxEvent \in Nat
ASSUME SentinelAssumption ==
    /\ Absent \notin Checkpoint
    /\ Torn \notin Checkpoint
    /\ NoCheckpoint \notin Checkpoint
    /\ Down \notin Checkpoint
    /\ Absent # Torn

WhichSnapshot == {0, 1}

\* WhichSnapshot::next
NextSnapshot(which) == 1 - which

VARIABLES
    slot,           \* the two files, by WhichSnapshot
    save_to_next,   \* the file the next save overwrites
    last_event_num, \* event number of the last save or load
    waiters,        \* {<<event_num, waiter>>}: oneshot senders not yet fired
    woken,          \* {<<event_num, waiter>>}: waiters told their event is saved
    phase,          \* how far the save that holds the mutex has come
    ckpt,           \* the checkpoint that save is writing
    kernel,         \* the running kernel, or Down
    failed          \* try_load returned BothCheckpointsFailed

saverVars == <<save_to_next, last_event_num, waiters, woken>>
vars == <<slot, saverVars, phase, ckpt, kernel, failed>>

Fresh == [event_num |-> 0, ker_state |-> InitialState]

(***************************************************************************)
(* Loading.                                                                *)
(***************************************************************************)
\* load_checkpoint_file(path) is Ok
Loads(which) == slot[which] \in Checkpoint

\* The checkpoint try_load picks and the file it will overwrite next.  When
\* both files load, file 0 must be strictly newer to be picked.
LoadedFrom ==
    IF Loads(0) /\ (Loads(1) => slot[0].event_num > slot[1].event_num)
    THEN 0 ELSE 1

\* What a process that started now would load.
Stored == IF Loads(0) \/ Loads(1) THEN slot[LoadedFrom] ELSE NoCheckpoint

Init ==
    /\ slot = [w \in WhichSnapshot |-> Absent]
    /\ save_to_next = 0
    /\ last_event_num = 0
    /\ waiters = {}
    /\ woken = {}
    /\ phase = "idle"
    /\ ckpt = NoCheckpoint
    /\ kernel = Down
    /\ failed = FALSE

\* Mutant: an empty Saver is at the event before the first (0 - 1 underflows).
LoadNothingBefore ==
    /\ kernel = Down /\ ~failed
    /\ \A w \in WhichSnapshot : slot[w] = Absent
    /\ save_to_next' = 0
    /\ last_event_num' = -1
    /\ kernel' = Fresh
    /\ UNCHANGED <<slot, waiters, woken, phase, ckpt, failed>>

\* try_load when neither file exists: an empty Saver and a fresh kernel.
LoadNothing ==
    /\ kernel = Down /\ ~failed
    /\ \A w \in WhichSnapshot : slot[w] = Absent
    /\ save_to_next' = 0
    /\ last_event_num' = 0
    /\ kernel' = Fresh
    /\ UNCHANGED <<slot, waiters, woken, phase, ckpt, failed>>

\* Mutant: the loaded file is the one the next save overwrites.
LoadCheckpointReusesFile ==
    /\ kernel = Down /\ ~failed
    /\ Stored # NoCheckpoint
    /\ save_to_next' = LoadedFrom
    /\ last_event_num' = Stored.event_num
    /\ kernel' = Stored
    /\ UNCHANGED <<slot, waiters, woken, phase, ckpt, failed>>

\* try_load when at least one file loads.
LoadCheckpoint ==
    /\ kernel = Down /\ ~failed
    /\ Stored # NoCheckpoint
    /\ save_to_next' = NextSnapshot(LoadedFrom)
    /\ last_event_num' = Stored.event_num
    /\ kernel' = Stored
    /\ UNCHANGED <<slot, waiters, woken, phase, ckpt, failed>>

\* try_load when a file exists and none loads: BothCheckpointsFailed, on
\* which NockApp::new panics.
LoadFails ==
    /\ kernel = Down /\ ~failed
    /\ \E w \in WhichSnapshot : slot[w] # Absent
    /\ Stored = NoCheckpoint
    /\ failed' = TRUE
    /\ UNCHANGED <<slot, saverVars, phase, ckpt, kernel>>

(***************************************************************************)
(* The running kernel, and the process dying.                              *)
(***************************************************************************)
\* Serf::event_update after a successful poke
EventUpdate ==
    /\ kernel # Down
    /\ kernel.event_num < MaxEvent
    /\ \E s \in KernelState :
          kernel' = [event_num |-> kernel.event_num + 1, ker_state |-> s]
    /\ UNCHANGED <<slot, saverVars, phase, ckpt, failed>>

\* Everything in memory is gone; a file that was being written stays Torn.
Crash ==
    /\ kernel # Down
    /\ kernel' = Down
    /\ waiters' = {}
    /\ woken' = {}
    /\ phase' = "idle"
    /\ ckpt' = NoCheckpoint
    /\ UNCHANGED <<slot, save_to_next, last_event_num, failed>>

(***************************************************************************)
(* Saving, under the mutex: one save at a time.                            *)
(***************************************************************************)
\* The serf hands the save task its checkpoint.
Capture ==
    /\ kernel # Down
    /\ phase = "idle"
    /\ phase' = "captured"
    /\ ckpt' = kernel
    /\ UNCHANGED <<slot, saverVars, kernel, failed>>

\* Mutant: save_to_file opens last_path.
OpenFileLastPath ==
    /\ phase = "captured"
    /\ phase' = "writing"
    /\ slot' = [slot EXCEPT ![NextSnapshot(save_to_next)] = Torn]
    /\ UNCHANGED <<saverVars, ckpt, kernel, failed>>

\* save_to_file opens next_path and truncates it.
OpenFile ==
    /\ phase = "captured"
    /\ phase' = "writing"
    /\ slot' = [slot EXCEPT ![save_to_next] = Torn]
    /\ UNCHANGED <<saverVars, ckpt, kernel, failed>>

\* The last byte is in the file.
FileWritten ==
    /\ phase = "writing"
    /\ phase' = "written"
    /\ slot' = [slot EXCEPT ![save_to_next] = ckpt]
    /\ UNCHANGED <<saverVars, ckpt, kernel, failed>>

\* save_to_file returns an I/O error, before or after truncating the file:
\* save returns early, so the same file is overwritten next time.
SaveFails ==
    /\ phase \in {"captured", "writing"}
    /\ phase' = "idle"
    /\ ckpt' = NoCheckpoint
    /\ UNCHANGED <<slot, saverVars, kernel, failed>>

\* Mutant: the waiters are dropped instead of fired.
SaveReturnsForgetsWaiters ==
    /\ phase = "written"
    /\ phase' = "idle"
    /\ ckpt' = NoCheckpoint
    /\ save_to_next' = NextSnapshot(save_to_next)
    /\ last_event_num' = ckpt.event_num
    /\ waiters' = {x \in waiters : x[1] > ckpt.event_num}
    /\ UNCHANGED <<slot, woken, kernel, failed>>

\* The rest of save: turn to the other file, fire the waiters this
\* checkpoint satisfies, keep the others.
SaveReturns ==
    /\ phase = "written"
    /\ phase' = "idle"
    /\ ckpt' = NoCheckpoint
    /\ save_to_next' = NextSnapshot(save_to_next)
    /\ last_event_num' = ckpt.event_num
    /\ LET fired == {x \in waiters : x[1] <= ckpt.event_num}
       IN  /\ woken' = woken \union fired
           /\ waiters' = waiters \ fired
    /\ UNCHANGED <<slot, kernel, failed>>

\* Mutant: one event too early.
WaitForSnapshotEarly(w, n) ==
    /\ kernel # Down
    /\ phase = "idle"
    /\ n <= kernel.event_num
    /\ \A x \in waiters \union woken : x[2] # w
    /\ IF last_event_num + 1 >= n
       THEN /\ woken' = woken \union {<<n, w>>}
            /\ UNCHANGED waiters
       ELSE /\ waiters' = waiters \union {<<n, w>>}
            /\ UNCHANGED woken
    /\ UNCHANGED <<slot, save_to_next, last_event_num, phase, ckpt, kernel, failed>>

\* wait_for_snapshot(n), under the mutex, for an event n that has happened:
\* ready at once when the last save is recent enough, else a waiter is queued.
WaitForSnapshot(w, n) ==
    /\ kernel # Down
    /\ phase = "idle"
    /\ n <= kernel.event_num
    /\ \A x \in waiters \union woken : x[2] # w
    /\ IF last_event_num >= n
       THEN /\ woken' = woken \union {<<n, w>>}
            /\ UNCHANGED waiters
       ELSE /\ waiters' = waiters \union {<<n, w>>}
            /\ UNCHANGED woken
    /\ UNCHANGED <<slot, save_to_next, last_event_num, phase, ckpt, kernel, failed>>

Next ==
    \/ LoadNothing \/ LoadCheckpoint \/ LoadFails
    \/ EventUpdate \/ Crash
    \/ Capture \/ OpenFile \/ FileWritten \/ SaveFails \/ SaveReturns
    \/ \E w \in Waiter, n \in 0 .. MaxEvent : WaitForSnapshot(w, n)

Spec == Init /\ [][Next]_vars

(***************************************************************************)
(* Properties.                                                             *)
(***************************************************************************)
TypeOK ==
    /\ slot \in [WhichSnapshot -> Checkpoint \union {Absent, Torn}]
    /\ save_to_next \in WhichSnapshot
    /\ last_event_num \in Nat
    /\ waiters \subseteq (Nat \X Waiter)
    /\ woken \subseteq (Nat \X Waiter)
    /\ phase \in {"idle", "captured", "writing", "written"}
    /\ ckpt \in Checkpoint \union {NoCheckpoint}
    /\ kernel \in Checkpoint \union {Down}
    /\ failed \in BOOLEAN

\* A waiter fires only when a checkpoint at least as recent as the event it
\* waits for would be loaded, whatever happens to the process from then on.
\* (Event 0 is the fresh kernel, which needs no checkpoint.)
WokenIsDurable ==
    \A x \in woken : x[1] > 0 => Stored \in Checkpoint /\ Stored.event_num >= x[1]

\* The file about to be overwritten is never the only copy of the newest
\* checkpoint: the other file holds it.
NewestIsKept ==
    kernel # Down /\ phase # "written" /\ Stored # NoCheckpoint =>
        slot[NextSnapshot(save_to_next)] = Stored

(***************************************************************************)
(* The invariant that makes the three properties inductive.                *)
(***************************************************************************)
\* Of two checkpoints of one kernel, b is as recent as a; at the same event
\* number they are the same checkpoint.
NotNewer(a, b) == a.event_num <= b.event_num /\ (a.event_num = b.event_num => a = b)

MemoryInv ==
    /\ kernel = Down => phase = "idle" /\ waiters = {} /\ woken = {}
    /\ failed => kernel = Down
    /\ phase = "idle" <=> ckpt = NoCheckpoint

\* No file and no checkpoint on its way to a file is ahead of the kernel.
KernelIsNewest ==
    kernel # Down =>
        /\ \A w \in WhichSnapshot : Loads(w) => NotNewer(slot[w], kernel)
        /\ ckpt # NoCheckpoint => NotNewer(ckpt, kernel) /\ last_event_num <= ckpt.event_num

\* The file that is not about to be overwritten holds the last save, and the
\* other one, when it loads, is older; or there is no checkpoint at all.
SlotInv ==
    kernel # Down =>
        LET other == NextSnapshot(save_to_next)
        IN  /\ IF Loads(other)
               THEN /\ slot[other].event_num = last_event_num
                    /\ ckpt # NoCheckpoint => NotNewer(slot[other], ckpt)
                    /\ phase # "written" /\ Loads(save_to_next) =>
                          NotNewer(slot[save_to_next], slot[other])
               ELSE /\ last_event_num = 0
                    /\ phase # "written" => ~Loads(save_to_next)
            /\ phase = "written" => slot[save_to_next] = ckpt

\* Two files with the same event number hold the same checkpoint, so it does
\* not matter which of them try_load picks.
TieInv ==
    Loads(0) /\ Loads(1) /\ slot[0].event_num = slot[1].event_num => slot[0] = slot[1]

WakeInv == \A x \in woken : x[1] <= last_event_num

IInv == TypeOK /\ MemoryInv /\ KernelIsNewest /\ SlotInv /\ TieInv /\ WakeInv

\* The two files implement one durable register.
Durable == INSTANCE DurableCheckpoint WITH stored <- Stored
ImplementsDurable == Durable!Spec
=============================================================================
