------------------------------ MODULE NockApp ------------------------------
(***************************************************************************)
(* A NockApp (crates/nockapp/src/nockapp/mod.rs): the event loop `run`,    *)
(* the serf thread that owns the kernel (kernel/form.rs), the tasks the    *)
(* loop spawns for each poke, peek, save and exit, and the process dying   *)
(* and starting again.  The checkpoint files are the Saver's.              *)
(*                                                                         *)
(* The kernel state is the set of pokes whose event it has applied: the    *)
(* poke itself, or the %crud event that replaces one that crashed.  A      *)
(* request is made once; a retry is another request.  The bounded channels *)
(* queue their blocked senders in order, so a channel and the senders that *)
(* wait for it are one sequence.                                           *)
(***************************************************************************)
EXTENDS Integers, Sequences

CONSTANTS
    Poke, Peek,     \* the requests drivers make
    ExitCode,       \* the exits asked for, by a driver or a signal
    Checkpointing,  \* the values checkpointing_enabled may have
    SaveInterval,   \* is there a save interval?
    MaxStart,       \* bound on the times the process starts
    MaxIoError,     \* bound on the failed writes
    NoExit, Absent, Torn, NoCheckpoint, Down, MaxEvent

Request == Poke \union Peek

ASSUME RequestAssumption ==
    /\ Poke \intersect Peek = {}
    /\ {"checkpoint", "stop"} \intersect Request = {}
ASSUME ExitAssumption ==
    /\ NoExit \notin ExitCode
    /\ {"shutdown", "done"} \intersect ExitCode = {}
ASSUME OptionsAssumption == Checkpointing \subseteq BOOLEAN /\ SaveInterval \in BOOLEAN
ASSUME BoundsAssumption == {MaxStart, MaxIoError, MaxEvent} \subseteq Nat

VARIABLES
    slot, save_to_next, last_event_num, waiters, woken, phase, ckpt, kernel, failed,
    proc,       \* "down", "up", "ending" (run returned) or "done"
    req,        \* what has become of each request
    actions,    \* action_channel
    serfQ,      \* the serf's action channel
    serf,       \* the serf thread is "alive" or "stopped"
    inhibit,    \* the serf refuses pokes and peeks
    save,       \* the save task, which holds the Saver's mutex
    exitQ,      \* the exit channel
    loop,       \* where the event loop is: "select", or inside handle_exit
    exit_code,  \* the exit being carried out; exit_status is exit_code # NoExit
    exit_event_num,
    exitTasks,  \* exits whose task waits for the snapshot
    stopTask,   \* the task that stops the serf
    abort_immediately,
    requested,  \* exits asked for by this process
    ackedAtExit,\* the pokes acked when exit_status was set
    checkpointing_enabled,
    starts, ioErrors

S == INSTANCE Saver WITH KernelState <- SUBSET Poke, InitialState <- {}, Waiter <- ExitCode

ASSUME SaverAssumption ==
    /\ {Absent, Torn, NoCheckpoint, Down} \intersect S!Checkpoint = {}
    /\ Absent # Torn

saverVars == <<slot, save_to_next, last_event_num, waiters, woken, phase, ckpt, kernel, failed>>
serfVars == <<serfQ, serf, inhibit>>
exitVars == <<exitQ, loop, exit_code, exit_event_num, exitTasks, stopTask,
              abort_immediately, requested, ackedAtExit>>
fixed == <<checkpointing_enabled, starts, ioErrors>>
vars == <<saverVars, proc, req, actions, serfVars, save, exitVars, fixed>>

Pending == {"queued", "spawned", "sent", "running", "ok", "err", "acking", "nacking"}
Answered == {"acked", "nacked", "dropped"}

Up == proc = "up"
InSelect == Up /\ loop = "select"

\* One action at a time: the serf thread waits for result_ack after a poke.
SerfIdle == Up /\ serf = "alive" /\ \A p \in Poke : req[p] \notin {"running", "ok", "err"}
MutexFree == save = "none"

Init ==
    /\ S!Init
    /\ proc = "down"
    /\ req = [r \in Request |-> "idle"]
    /\ actions = <<>>
    /\ serfQ = <<>> /\ serf = "stopped" /\ inhibit = FALSE
    /\ save = "none"
    /\ exitQ = <<>> /\ loop = "select" /\ exit_code = NoExit /\ exit_event_num = 0
    /\ exitTasks = {} /\ stopTask = "none" /\ abort_immediately = FALSE
    /\ requested = {} /\ ackedAtExit = {}
    /\ checkpointing_enabled \in Checkpointing
    /\ starts = 0 /\ ioErrors = 0

(***************************************************************************)
(* The process starts and dies.                                            *)
(***************************************************************************)
\* NockApp::new.  When try_load fails the process does not come up.
Boot ==
    /\ proc \in {"down", "done"}
    /\ starts < MaxStart
    /\ starts' = starts + 1
    /\ \/ /\ S!LoadNothing \/ S!LoadCheckpoint
          /\ proc' = "up"
          /\ serf' = "alive"
       \/ /\ S!LoadFails
          /\ proc' = "down"
          /\ UNCHANGED serf
    /\ exit_code' = NoExit
    /\ exit_event_num' = 0
    /\ requested' = {}
    /\ ackedAtExit' = {}
    /\ UNCHANGED <<req, actions, serfQ, inhibit, save, exitQ, loop, exitTasks, stopTask,
                   abort_immediately, checkpointing_enabled, ioErrors>>

\* What every end of the process does to its memory.
ProcessEnds ==
    /\ S!Crash
    /\ req' = [r \in Request |-> IF req[r] = "idle" THEN "idle" ELSE "past"]
    /\ actions' = <<>>
    /\ serfQ' = <<>> /\ serf' = "stopped" /\ inhibit' = FALSE
    /\ save' = "none"
    /\ exitQ' = <<>> /\ loop' = "select" /\ exitTasks' = {} /\ stopTask' = "none"
    /\ abort_immediately' = FALSE
    /\ UNCHANGED <<exit_code, exit_event_num, requested, ackedAtExit, fixed>>

Crash ==
    /\ proc \in {"up", "ending"}
    /\ proc' = "down"
    /\ ProcessEnds

\* main returns and the runtime is dropped: tasks end where they are, but a
\* file write that has started runs on a blocking thread and is waited for.
RuntimeDropped ==
    /\ proc = "ending"
    /\ phase # "writing"
    /\ proc' = "done"
    /\ ProcessEnds

(***************************************************************************)
(* Drivers and the event loop.                                             *)
(***************************************************************************)
\* NockAppHandle::send_poke, send_peek
Send(r) ==
    /\ Up
    /\ req[r] = "idle"
    /\ req' = [req EXCEPT ![r] = "queued"]
    /\ actions' = Append(actions, r)
    /\ UNCHANGED <<saverVars, proc, serfVars, save, exitVars, fixed>>

\* handle_action: during an exit the request is dropped with its channel,
\* else a task is spawned for it.
HandleAction ==
    /\ InSelect
    /\ actions # <<>>
    /\ actions' = Tail(actions)
    /\ req' = [req EXCEPT ![Head(actions)] =
                 IF exit_code # NoExit THEN "dropped" ELSE "spawned"]
    /\ UNCHANGED <<saverVars, proc, serfVars, save, exitVars, fixed>>

\* The task of a poke or a peek sends it to the serf, if there is one.
TaskSends(r) ==
    /\ Up
    /\ req[r] = "spawned"
    /\ IF serf = "alive"
       THEN /\ req' = [req EXCEPT ![r] = "sent"]
            /\ serfQ' = Append(serfQ, r)
       ELSE /\ req' = [req EXCEPT ![r] = "nacking"]
            /\ UNCHANGED serfQ
    /\ UNCHANGED <<saverVars, proc, actions, serf, inhibit, save, exitVars, fixed>>

\* The task has the result; for a poke it sends result_ack to the serf.
TaskGetsResult(r) ==
    /\ Up
    /\ req[r] \in {"ok", "err"}
    /\ req' = [req EXCEPT ![r] = IF @ = "ok" THEN "acking" ELSE "nacking"]
    /\ UNCHANGED <<saverVars, proc, actions, serfVars, save, exitVars, fixed>>

\* The task answers on the driver's ack_channel or result_channel.
TaskAnswers(r) ==
    /\ Up
    /\ req[r] \in {"acking", "nacking"}
    /\ req' = [req EXCEPT ![r] = IF @ = "acking" THEN "acked" ELSE "nacked"]
    /\ UNCHANGED <<saverVars, proc, actions, serfVars, save, exitVars, fixed>>

(***************************************************************************)
(* The serf thread (serf_loop).                                            *)
(***************************************************************************)
Receives(m) ==
    /\ SerfIdle
    /\ serfQ # <<>>
    /\ Head(serfQ) = m

\* Mutant: an inhibited poke is answered Ok.
SerfTakesPokeInhibitedOk(p) ==
    /\ Receives(p)
    /\ serfQ' = Tail(serfQ)
    /\ req' = [req EXCEPT ![p] = IF inhibit THEN "ok" ELSE "running"]
    /\ UNCHANGED <<saverVars, proc, actions, serf, inhibit, save, exitVars, fixed>>

\* A poke starts to run, unless the serf is inhibited.
SerfTakesPoke(p) ==
    /\ Receives(p)
    /\ serfQ' = Tail(serfQ)
    /\ req' = [req EXCEPT ![p] = IF inhibit THEN "err" ELSE "running"]
    /\ UNCHANGED <<saverVars, proc, actions, serf, inhibit, save, exitVars, fixed>>

\* do_poke ends with event_update: the poke, or its %crud, succeeded.
PokeSucceeds(p) ==
    /\ Up
    /\ req[p] = "running"
    /\ S!EventUpdate
    /\ kernel'.ker_state = kernel.ker_state \union {p}
    /\ req' = [req EXCEPT ![p] = "ok"]
    /\ UNCHANGED <<proc, actions, serfVars, save, exitVars, fixed>>

\* Mutant: a poke that failed is put back in the channel to be tried again.
PokeFailsRetries(p) ==
    /\ Up
    /\ req[p] = "running"
    /\ req' = [req EXCEPT ![p] = "sent"]
    /\ serfQ' = Append(serfQ, p)
    /\ UNCHANGED <<saverVars, proc, actions, serf, inhibit, save, exitVars, fixed>>

\* The poke and its %crud both crashed (or were cancelled).
PokeFails(p) ==
    /\ Up
    /\ req[p] = "running"
    /\ req' = [req EXCEPT ![p] = "err"]
    /\ UNCHANGED <<saverVars, proc, actions, serfVars, save, exitVars, fixed>>

\* A peek changes nothing and the serf does not wait for its task.
SerfPeeks(r) ==
    /\ Receives(r)
    /\ serfQ' = Tail(serfQ)
    /\ \E res \in IF inhibit THEN {"err"} ELSE {"ok", "err"} :
          req' = [req EXCEPT ![r] = res]
    /\ UNCHANGED <<saverVars, proc, actions, serf, inhibit, save, exitVars, fixed>>

\* create_checkpoint
SerfCheckpoints ==
    /\ Receives("checkpoint")
    /\ serfQ' = Tail(serfQ)
    /\ S!Capture
    /\ save' = "saving"
    /\ UNCHANGED <<proc, req, actions, serf, inhibit, exitVars, fixed>>

\* The thread ends.  Whoever waits for a place in its channel or for a
\* result gets an error.
SerfStops ==
    /\ Receives("stop")
    /\ serf' = "stopped"
    /\ serfQ' = <<>>
    /\ req' = [r \in Request |-> IF req[r] = "sent" THEN "nacking" ELSE req[r]]
    /\ save' = IF save = "requested" THEN "none" ELSE save
    /\ UNCHANGED <<saverVars, proc, actions, inhibit, exitVars, fixed>>

(***************************************************************************)
(* The save task (save_f).                                                 *)
(***************************************************************************)
\* The save interval ticks and the mutex is free: handle_save_permit_res
\* spawns a save when there is something new.
SaveTick ==
    /\ InSelect
    /\ checkpointing_enabled /\ SaveInterval
    /\ MutexFree
    /\ last_event_num < kernel.event_num
    /\ save' = "spawned"
    /\ UNCHANGED <<saverVars, proc, req, actions, serfVars, exitVars, fixed>>

SaveRequests ==
    /\ Up
    /\ save = "spawned"
    /\ IF serf = "alive"
       THEN /\ save' = "requested"
            /\ serfQ' = Append(serfQ, "checkpoint")
       ELSE /\ save' = "none"
            /\ UNCHANGED serfQ
    /\ UNCHANGED <<saverVars, proc, req, actions, serf, inhibit, exitVars, fixed>>

SaveOpens ==
    /\ Up
    /\ S!OpenFile
    /\ UNCHANGED <<proc, req, actions, serfVars, save, exitVars, fixed>>

SaveWrites ==
    /\ proc \in {"up", "ending"}
    /\ S!FileWritten
    /\ UNCHANGED <<proc, req, actions, serfVars, save, exitVars, fixed>>

\* Mutant: the error of save_to_file is ignored and the waiters fire.
SaveFailsWakes ==
    /\ proc \in {"up", "ending"}
    /\ ioErrors < MaxIoError
    /\ ioErrors' = ioErrors + 1
    /\ phase \in {"captured", "writing"}
    /\ phase' = "idle"
    /\ ckpt' = NoCheckpoint
    /\ last_event_num' = ckpt.event_num
    /\ woken' = woken \union waiters
    /\ waiters' = {}
    /\ save' = "none"
    /\ UNCHANGED <<slot, save_to_next, kernel, failed, proc, req, actions, serfVars, exitVars, checkpointing_enabled, starts>>

SaveFails ==
    /\ proc \in {"up", "ending"}
    /\ ioErrors < MaxIoError
    /\ ioErrors' = ioErrors + 1
    /\ S!SaveFails
    /\ save' = "none"
    /\ UNCHANGED <<proc, req, actions, serfVars, exitVars, checkpointing_enabled, starts>>

SaveReturns ==
    /\ Up
    /\ S!SaveReturns
    /\ save' = "none"
    /\ UNCHANGED <<proc, req, actions, serfVars, exitVars, fixed>>

(***************************************************************************)
(* Exit.                                                                   *)
(***************************************************************************)
\* A driver (drivers/exit.rs on an %exit effect) calls NockAppExit::exit.
DriverExits(c) ==
    /\ Up
    /\ c \notin requested
    /\ requested' = requested \union {c}
    /\ exitQ' = Append(exitQ, c)
    /\ UNCHANGED <<saverVars, proc, req, actions, serfVars, save, loop, exit_code, exit_event_num,
                   exitTasks, stopTask, abort_immediately, ackedAtExit, fixed>>

\* The first signal asks for an exit.
Signal(c) ==
    /\ InSelect
    /\ ~abort_immediately
    /\ c \notin requested
    /\ abort_immediately' = TRUE
    /\ requested' = requested \union {c}
    /\ exitQ' = Append(exitQ, c)
    /\ UNCHANGED <<saverVars, proc, req, actions, serfVars, save, loop, exit_code, exit_event_num,
                   exitTasks, stopTask, ackedAtExit, fixed>>

\* The second one is process::exit.
SignalAgain ==
    /\ InSelect
    /\ abort_immediately
    /\ proc' = "down"
    /\ ProcessEnds

TakesExit(m) ==
    /\ InSelect
    /\ exitQ # <<>>
    /\ Head(exitQ) = m

\* handle_exit returns at once when an exit is under way.
ExitAgain(c) ==
    /\ TakesExit(c)
    /\ exit_code # NoExit
    /\ exitQ' = Tail(exitQ)
    /\ UNCHANGED <<saverVars, proc, req, actions, serfVars, save, loop, exit_code, exit_event_num,
                   exitTasks, stopTask, abort_immediately, requested, ackedAtExit, fixed>>

\* Mutant: exit_status is not looked at.
HandleExitTwice(c) ==
    /\ TakesExit(c)
    /\ exitQ' = Tail(exitQ)
    /\ exit_code' = c
    /\ exit_event_num' = kernel.event_num
    /\ loop' = "wait"
    /\ ackedAtExit' = {p \in Poke : req[p] = "acked"}
    /\ UNCHANGED <<saverVars, proc, req, actions, serfVars, save, exitTasks, stopTask,
                   abort_immediately, requested, fixed>>

\* handle_exit up to its first lock: exit_status is set and the event number
\* read.  Without checkpointing the shutdown is sent by a task of its own.
HandleExit(c) ==
    /\ TakesExit(c)
    /\ exit_code = NoExit
    /\ exitQ' = Tail(exitQ)
    /\ exit_code' = c
    /\ IF checkpointing_enabled
       THEN /\ exit_event_num' = kernel.event_num
            /\ loop' = "wait"
            /\ UNCHANGED exitTasks
       ELSE /\ exitTasks' = exitTasks \union {c}
            /\ UNCHANGED <<exit_event_num, loop>>
    /\ ackedAtExit' = {p \in Poke : req[p] = "acked"}
    /\ UNCHANGED <<saverVars, proc, req, actions, serfVars, save, stopTask,
                   abort_immediately, requested, fixed>>

\* handle_exit registers for the snapshot of exit_event_num, under the lock.
ExitWaits ==
    /\ Up
    /\ loop = "wait"
    /\ MutexFree
    /\ S!WaitForSnapshot(exit_code, exit_event_num)
    /\ loop' = "save"
    /\ UNCHANGED <<proc, req, actions, serfVars, save, exitQ, exit_code, exit_event_num, exitTasks,
                   stopTask, abort_immediately, requested, ackedAtExit, fixed>>

\* save_locked spawns a save, then handle_exit spawns the task that waits.
ExitSaves ==
    /\ Up
    /\ loop = "save"
    /\ MutexFree
    /\ save' = "spawned"
    /\ exitTasks' = exitTasks \union {exit_code}
    /\ loop' = "select"
    /\ UNCHANGED <<saverVars, proc, req, actions, serfVars, exitQ, exit_code, exit_event_num,
                   stopTask, abort_immediately, requested, ackedAtExit, fixed>>

\* Mutant: the shutdown does not wait for the snapshot.
ExitTaskEndsAtOnce(c) ==
    /\ Up
    /\ c \in exitTasks
    /\ exitTasks' = exitTasks \ {c}
    /\ exitQ' = Append(exitQ, "shutdown")
    /\ UNCHANGED <<saverVars, proc, req, actions, serfVars, save, loop, exit_code, exit_event_num,
                   stopTask, abort_immediately, requested, ackedAtExit, fixed>>

\* The snapshot is there: NockAppExit::shutdown.
ExitTaskEnds(c) ==
    /\ Up
    /\ c \in exitTasks
    /\ checkpointing_enabled => \E x \in woken : x[2] = c
    /\ exitTasks' = exitTasks \ {c}
    /\ exitQ' = Append(exitQ, "shutdown")
    /\ UNCHANGED <<saverVars, proc, req, actions, serfVars, save, loop, exit_code, exit_event_num,
                   stopTask, abort_immediately, requested, ackedAtExit, fixed>>

\* SerfThread::stop, called by the loop
HandleShutdown ==
    /\ TakesExit("shutdown")
    /\ exitQ' = Tail(exitQ)
    /\ inhibit' = TRUE
    /\ stopTask' = "spawned"
    /\ UNCHANGED <<saverVars, proc, req, actions, serfQ, serf, save, loop, exit_code, exit_event_num,
                   exitTasks, abort_immediately, requested, ackedAtExit, fixed>>

\* The future it returns sends Stop and joins the thread ...
StopSends ==
    /\ Up
    /\ stopTask = "spawned"
    /\ stopTask' = "joining"
    /\ serfQ' = Append(serfQ, "stop")
    /\ UNCHANGED <<saverVars, proc, req, actions, serf, inhibit, save, exitQ, loop, exit_code,
                   exit_event_num, exitTasks, abort_immediately, requested, ackedAtExit, fixed>>

\* ... and NockAppExit::done follows.
StopJoins ==
    /\ Up
    /\ stopTask = "joining"
    /\ serf = "stopped"
    /\ stopTask' = "none"
    /\ exitQ' = Append(exitQ, "done")
    /\ UNCHANGED <<saverVars, proc, req, actions, serfVars, save, loop, exit_code, exit_event_num,
                   exitTasks, abort_immediately, requested, ackedAtExit, fixed>>

\* run returns.
HandleDone ==
    /\ TakesExit("done")
    /\ exitQ' = Tail(exitQ)
    /\ proc' = "ending"
    /\ UNCHANGED <<saverVars, req, actions, serfVars, save, loop, exit_code, exit_event_num,
                   exitTasks, stopTask, abort_immediately, requested, ackedAtExit, fixed>>

\* The steps of the event loop, the tasks, the serf thread and the runtime:
\* the scheduler and the operating system run each of them sooner or later.
Progress ==
    \/ HandleAction
    \/ \E r \in Request : TaskSends(r) \/ TaskGetsResult(r) \/ TaskAnswers(r)
    \/ \E p \in Poke : SerfTakesPoke(p) \/ PokeSucceeds(p) \/ PokeFails(p)
    \/ \E r \in Peek : SerfPeeks(r)
    \/ SerfCheckpoints \/ SerfStops
    \/ SaveTick \/ SaveRequests \/ SaveOpens \/ SaveWrites \/ SaveReturns
    \/ \E c \in ExitCode : ExitAgain(c) \/ HandleExit(c) \/ ExitTaskEnds(c)
    \/ ExitWaits \/ ExitSaves \/ HandleShutdown \/ StopSends \/ StopJoins \/ HandleDone
    \/ RuntimeDropped

\* What happens to them: starts, requests, signals, failures.
Environment ==
    \/ Boot \/ Crash \/ SaveFails
    \/ \E r \in Request : Send(r)
    \/ \E c \in ExitCode : DriverExits(c) \/ Signal(c)
    \/ SignalAgain

Next == Progress \/ Environment

Spec == Init /\ [][Next]_vars

\* select! polls its ready branches in random order, so none is passed over
\* for ever; tasks and the serf thread are scheduled; a poke ends.
Fairness ==
    /\ WF_vars(HandleAction)
    /\ \A r \in Request : WF_vars(TaskSends(r)) /\ WF_vars(TaskGetsResult(r)) /\ WF_vars(TaskAnswers(r))
    /\ \A p \in Poke : WF_vars(SerfTakesPoke(p)) /\ WF_vars(PokeSucceeds(p) \/ PokeFails(p))
    /\ \A r \in Peek : WF_vars(SerfPeeks(r))
    /\ WF_vars(SerfCheckpoints) /\ WF_vars(SerfStops)
    /\ WF_vars(SaveTick) /\ WF_vars(SaveRequests)
    /\ WF_vars(SaveOpens \/ SaveFails) /\ WF_vars(SaveWrites \/ SaveFails) /\ WF_vars(SaveReturns)
    /\ \A c \in ExitCode : WF_vars(ExitAgain(c)) /\ WF_vars(HandleExit(c)) /\ WF_vars(ExitTaskEnds(c))
    /\ WF_vars(ExitWaits) /\ WF_vars(ExitSaves)
    /\ WF_vars(HandleShutdown) /\ WF_vars(StopSends) /\ WF_vars(StopJoins)
    /\ WF_vars(HandleDone) /\ WF_vars(RuntimeDropped)

FairSpec == Spec /\ Fairness

(***************************************************************************)
(* Properties.                                                             *)
(***************************************************************************)
AppTypeOK ==
    /\ proc \in {"down", "up", "ending", "done"}
    /\ req \in [Request -> Pending \union Answered \union {"idle", "past"}]
    /\ actions \in Seq(Request)
    /\ serfQ \in Seq(Request \union {"checkpoint", "stop"})
    /\ serf \in {"alive", "stopped"}
    /\ inhibit \in BOOLEAN
    /\ save \in {"none", "spawned", "requested", "saving"}
    /\ exitQ \in Seq(ExitCode \union {"shutdown", "done"})
    /\ loop \in {"select", "wait", "save"}
    /\ exit_code \in ExitCode \union {NoExit}
    /\ exit_event_num \in Nat
    /\ exitTasks \subseteq ExitCode
    /\ stopTask \in {"none", "spawned", "joining"}
    /\ abort_immediately \in BOOLEAN
    /\ requested \subseteq ExitCode
    /\ ackedAtExit \subseteq Poke
    /\ checkpointing_enabled \in Checkpointing
    /\ starts \in 0 .. MaxStart
    /\ ioErrors \in 0 .. MaxIoError

TypeOK == S!TypeOK /\ AppTypeOK

\* The saves, loads and waiters of a NockApp are those of the Saver run under
\* its mutex, so what is proved of the Saver holds of it.
ImplementsSaver == S!Spec

\* An answered poke tells the driver the truth about the running kernel: an
\* Ack means its event was applied, a Nack or a dropped channel that it was
\* not, even while the serf is being stopped under it.
AnswersAreTrue ==
    proc \in {"up", "ending"} =>
        \A p \in Poke :
            /\ req[p] = "acked" => p \in kernel.ker_state
            /\ req[p] \in {"nacked", "dropped"} => p \notin kernel.ker_state

\* When run has returned, the checkpoint the next start loads has every poke
\* that was acked before the exit began, and is as recent as exit_event_num.
CleanExitIsDurable ==
    proc = "done" /\ checkpointing_enabled =>
        /\ exit_event_num > 0 => S!Stored # NoCheckpoint /\ S!Stored.event_num >= exit_event_num
        /\ ackedAtExit # {} => S!Stored # NoCheckpoint /\ ackedAtExit \subseteq S!Stored.ker_state

\* The join handle is taken once: a second stop would panic the event loop.
StopOnce ==
    \A i \in DOMAIN exitQ : exitQ[i] = "shutdown" =>
        /\ ~inhibit
        /\ \A j \in DOMAIN exitQ : exitQ[j] = "shutdown" => i = j

\* An exit that has begun ends the process.
ExitCompletes == (exit_code # NoExit /\ Up) ~> ~Up

\* Every request is answered, or its channel is dropped, or the process ends.
RequestsAreAnswered == \A r \in Request : req[r] = "queued" ~> req[r] \notin Pending

(***************************************************************************)
(* The invariant that makes the safety properties inductive.               *)
(***************************************************************************)
Occurs(x, q) == \E i \in DOMAIN q : q[i] = x

\* A member of R is at most once in the queue.
AtMostOnce(R, q) == \A i, j \in DOMAIN q : q[i] = q[j] /\ q[i] \in R => i = j

\* The kernel runs exactly while there is a process; nothing that is in its
\* memory outlives it.
ProcInv ==
    /\ kernel = Down <=> proc \in {"down", "done"}
    /\ proc \in {"down", "done"} =>
          /\ \A r \in Request : req[r] \in {"idle", "past"}
          /\ actions = <<>> /\ serfQ = <<>> /\ exitQ = <<>>
          /\ loop = "select" /\ exitTasks = {} /\ stopTask = "none" /\ ~inhibit

\* A request is in the channel its state says, once.
QueueInv ==
    /\ \A r \in Request : Occurs(r, actions) => req[r] = "queued"
    /\ \A r \in Request : Occurs(r, serfQ) => req[r] = "sent"
    /\ AtMostOnce(Request, actions)
    /\ AtMostOnce(Request, serfQ)

\* The checkpoints there are: in the files and in the hands of the save.
Kept == {slot[w] : w \in {v \in S!WhichSnapshot : S!Loads(v)}} \union ({ckpt} \ {NoCheckpoint})

\* The events of a checkpoint are bounded, and the one of event 0 is fresh.
SoundCheckpoint(c) == c.event_num <= MaxEvent /\ (c.event_num = 0 => c.ker_state = {})

\* The state of a poke's request says whether the running kernel has applied
\* it; no checkpoint has a poke that was never sent.
AppliedInv ==
    /\ \A c \in Kept : SoundCheckpoint(c) /\ \A p \in c.ker_state : req[p] # "idle"
    /\ kernel # Down =>
          /\ SoundCheckpoint(kernel)
          /\ \A p \in Poke :
                /\ req[p] \in {"ok", "acking", "acked"} => p \in kernel.ker_state
                /\ req[p] \notin {"ok", "acking", "acked", "past"} => p \notin kernel.ker_state
          /\ ckpt # NoCheckpoint => ckpt.ker_state \subseteq kernel.ker_state

\* An exit is in one place: in handle_exit, in the task that waits for the
\* snapshot, on its way back as a shutdown, or the serf is being stopped.
ExitInv ==
    /\ exit_code = NoExit =>
          loop = "select" /\ exitTasks = {} /\ ~Occurs("shutdown", exitQ) /\ ~inhibit
    /\ loop # "select" => exitTasks = {} /\ ~Occurs("shutdown", exitQ) /\ ~inhibit
    /\ exitTasks \subseteq {exit_code}
    /\ exitTasks # {} => ~Occurs("shutdown", exitQ) /\ ~inhibit
    /\ Occurs("shutdown", exitQ) => ~inhibit
    /\ AtMostOnce({"shutdown"}, exitQ)
    /\ ~inhibit => stopTask = "none" /\ ~Occurs("done", exitQ)
    /\ proc = "ending" => inhibit

\* Only the exit waits for a snapshot, and with checkpointing it gets past the
\* wait when its waiter has fired.
SnapshotInv ==
    /\ \A x \in waiters \union woken : x = <<exit_event_num, exit_code>> /\ exit_code # NoExit
    /\ checkpointing_enabled /\ (Occurs("shutdown", exitQ) \/ inhibit) =>
          <<exit_event_num, exit_code>> \in woken

\* The kernel has what was acked before the exit, and so has every checkpoint
\* that is as recent as the exit.
AckedInv ==
    checkpointing_enabled =>
        /\ kernel # Down /\ exit_code # NoExit =>
              /\ kernel.event_num >= exit_event_num
              /\ ackedAtExit \subseteq kernel.ker_state
              /\ \A c \in Kept : c.event_num >= exit_event_num => ackedAtExit \subseteq c.ker_state
        /\ ackedAtExit # {} => exit_event_num > 0
        /\ exit_code = NoExit => ackedAtExit = {} /\ exit_event_num = 0

IInv ==
    /\ TypeOK /\ S!IInv
    /\ ProcInv /\ QueueInv /\ AppliedInv /\ ExitInv /\ SnapshotInv /\ AckedInv
    /\ CleanExitIsDurable
=============================================================================
