------------------------- MODULE DurableCheckpoint -------------------------
(***************************************************************************)
(* What the checkpoint files of a NockApp promise, whatever their number   *)
(* and layout: one durable register.  A store that is interrupted leaves   *)
(* the register as it was, the register never goes back to an older event  *)
(* number, and a restarted process resumes from exactly what it holds.     *)
(***************************************************************************)
EXTENDS Integers

CONSTANTS
    KernelState,   \* the values a kernel state can have
    InitialState,  \* the state of a freshly booted kernel
    NoCheckpoint,  \* the register before the first store
    Down           \* the kernel of a process that is not running

Checkpoint == [event_num : Nat, ker_state : KernelState]

Fresh == [event_num |-> 0, ker_state |-> InitialState]

VARIABLES
    kernel,  \* the running kernel, or Down
    stored   \* the durable checkpoint, or NoCheckpoint

vars == <<kernel, stored>>

Init ==
    /\ kernel = Down
    /\ stored = NoCheckpoint

\* The kernel handles an event.
Advance ==
    /\ kernel # Down
    /\ kernel' \in Checkpoint
    /\ kernel'.event_num = kernel.event_num + 1
    /\ UNCHANGED stored

\* Of two checkpoints, b is as recent as a; with the same event number they
\* are the same.
NotNewer(a, b) == a.event_num <= b.event_num /\ (a.event_num = b.event_num => a = b)

\* A checkpoint taken earlier becomes durable, atomically.
Store ==
    /\ kernel # Down
    /\ stored' \in Checkpoint
    /\ NotNewer(stored', kernel)
    /\ stored # NoCheckpoint => NotNewer(stored, stored')
    /\ UNCHANGED kernel

Crash ==
    /\ kernel' = Down
    /\ UNCHANGED stored

Restart ==
    /\ kernel = Down
    /\ kernel' = IF stored = NoCheckpoint THEN Fresh ELSE stored
    /\ UNCHANGED stored

Next == Advance \/ Store \/ Crash \/ Restart

Spec == Init /\ [][Next]_vars
=============================================================================
