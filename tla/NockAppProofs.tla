--------------------------- MODULE NockAppProofs ----------------------------
(***************************************************************************)
(* Proofs about a NockApp, for any pokes, peeks and exits and any number   *)
(* of starts and failed writes: it uses its Saver as the Saver module says *)
(* (so what SaverProofs proves holds of it), its answers are true, a clean *)
(* exit keeps what was acked before it, and the serf is stopped once.      *)
(***************************************************************************)
EXTENDS NockApp, TLAPS

SP == INSTANCE SaverProofs
    WITH KernelState <- SUBSET Poke, InitialState <- {}, Waiter <- ExitCode

(***************************************************************************)
(* The steps, by what they are about.                                      *)
(***************************************************************************)
RequestStep ==
    \/ HandleAction
    \/ \E r \in Request : Send(r) \/ TaskSends(r) \/ TaskGetsResult(r) \/ TaskAnswers(r)
    \/ \E p \in Poke : SerfTakesPoke(p) \/ PokeSucceeds(p) \/ PokeFails(p)
    \/ \E r \in Peek : SerfPeeks(r)

SaveStep ==
    \/ SerfCheckpoints \/ SaveTick \/ SaveRequests
    \/ SaveOpens \/ SaveWrites \/ SaveFails \/ SaveReturns

ExitStep ==
    \/ \E c \in ExitCode : DriverExits(c) \/ Signal(c) \/ ExitAgain(c) \/ HandleExit(c) \/ ExitTaskEnds(c)
    \/ ExitWaits \/ ExitSaves \/ HandleShutdown \/ StopSends \/ StopJoins \/ HandleDone
    \/ SerfStops

ProcessStep == Boot \/ Crash \/ SignalAgain \/ RuntimeDropped

\* Every step is one of the four kinds.
LEMMA StepKinds ==
    Next => RequestStep \/ SaveStep \/ ExitStep \/ ProcessStep
BY Zenon DEF Next, Progress, Environment, RequestStep, SaveStep, ExitStep, ProcessStep

(***************************************************************************)
(* Channels.                                                               *)
(***************************************************************************)
\* What is sent and received has the channel's type.
LEMMA ChannelType ==
    ASSUME NEW T, NEW q \in Seq(T)
    PROVE  /\ \A x \in T : Append(q, x) \in Seq(T)
           /\ q # <<>> => Head(q) \in T /\ Tail(q) \in Seq(T)
OBVIOUS

\* A send puts one thing at the end of a channel.
LEMMA Sent ==
    ASSUME NEW T, NEW q \in Seq(T), NEW x \in T
    PROVE  /\ Append(q, x) \in Seq(T)
           /\ \A y : Occurs(y, Append(q, x)) <=> Occurs(y, q) \/ y = x
           /\ \A R : AtMostOnce(R, q) /\ (x \in R => ~Occurs(x, q)) => AtMostOnce(R, Append(q, x))
<1>1. /\ Len(q) \in Nat
      /\ DOMAIN q = 1 .. Len(q)
      /\ DOMAIN Append(q, x) = 1 .. (Len(q) + 1)
      /\ Append(q, x)[Len(q) + 1] = x
      /\ \A i \in 1 .. Len(q) : Append(q, x)[i] = q[i]
      /\ Append(q, x) \in Seq(T)
  OBVIOUS
<1> QED
  BY <1>1 DEF Occurs, AtMostOnce

\* A receive takes the head of a channel; what is there at most once is gone.
LEMMA Received ==
    ASSUME NEW T, NEW q \in Seq(T), q # <<>>
    PROVE  /\ Head(q) \in T /\ Tail(q) \in Seq(T)
           /\ Occurs(Head(q), q)
           /\ \A y : Occurs(y, Tail(q)) => Occurs(y, q)
           /\ \A y : y # Head(q) /\ Occurs(y, q) => Occurs(y, Tail(q))
           /\ \A R : AtMostOnce(R, q) =>
                 AtMostOnce(R, Tail(q)) /\ (Head(q) \in R => ~Occurs(Head(q), Tail(q)))
<1>1. /\ Len(q) \in Nat /\ Len(q) > 0
      /\ DOMAIN q = 1 .. Len(q)
      /\ DOMAIN Tail(q) = 1 .. (Len(q) - 1)
      /\ Head(q) = q[1]
      /\ \A i \in 1 .. (Len(q) - 1) : Tail(q)[i] = q[i + 1]
      /\ Head(q) \in T /\ Tail(q) \in Seq(T)
  OBVIOUS
<1>2. Occurs(Head(q), q)
  BY <1>1 DEF Occurs
<1>3. ASSUME NEW y, Occurs(y, Tail(q)) PROVE Occurs(y, q)
  <2>1. PICK i \in 1 .. (Len(q) - 1) : Tail(q)[i] = y
    BY <1>1, <1>3, Zenon DEF Occurs
  <2>2. i + 1 \in DOMAIN q /\ q[i + 1] = y
    BY <1>1, <2>1
  <2> QED
    BY <2>2, Zenon DEF Occurs
<1>4. ASSUME NEW y, y # Head(q), Occurs(y, q) PROVE Occurs(y, Tail(q))
  <2>1. PICK i \in 1 .. Len(q) : q[i] = y
    BY <1>1, <1>4, Zenon DEF Occurs
  <2>2. i - 1 \in DOMAIN Tail(q) /\ Tail(q)[i - 1] = y
    BY <1>1, <1>4, <2>1
  <2> QED
    BY <2>2, Zenon DEF Occurs
<1>5. ASSUME NEW R, AtMostOnce(R, q)
      PROVE  AtMostOnce(R, Tail(q)) /\ (Head(q) \in R => ~Occurs(Head(q), Tail(q)))
  <2>1. AtMostOnce(R, Tail(q))
    <3> SUFFICES ASSUME NEW i \in DOMAIN Tail(q), NEW j \in DOMAIN Tail(q),
                        Tail(q)[i] = Tail(q)[j], Tail(q)[i] \in R
                 PROVE  i = j
      BY Zenon DEF AtMostOnce
    <3>1. i + 1 \in DOMAIN q /\ j + 1 \in DOMAIN q /\ q[i + 1] = q[j + 1] /\ q[i + 1] \in R
      BY <1>1
    <3>2. i + 1 = j + 1
      BY <1>5, <3>1, Zenon DEF AtMostOnce
    <3>3. i \in Nat /\ j \in Nat
      BY <1>1
    <3> QED
      BY <3>2, <3>3
  <2>2. ASSUME Head(q) \in R, Occurs(Head(q), Tail(q)) PROVE FALSE
    <3>1. PICK i \in DOMAIN Tail(q) : Tail(q)[i] = Head(q)
      BY <2>2, Zenon DEF Occurs
    <3>2. i + 1 \in DOMAIN q /\ 1 \in DOMAIN q /\ q[i + 1] = q[1] /\ q[1] \in R /\ i + 1 # 1
      BY <1>1, <2>2, <3>1
    <3> QED
      BY <1>5, <3>2, Zenon DEF AtMostOnce
  <2> QED
    BY <2>1, <2>2, Zenon
<1> QED
  BY <1>1, <1>2, <1>3, <1>4, <1>5, Zenon

\* A new channel is empty.
LEMMA NewChannel ==
    /\ \A y : ~Occurs(y, <<>>)
    /\ \A R : AtMostOnce(R, <<>>)
    /\ \A T : <<>> \in Seq(T)
BY DEF Occurs, AtMostOnce

(***************************************************************************)
(* The Saver of a NockApp is a Saver: its lemmas hold here.                *)
(***************************************************************************)
LEMMA SaverFacts ==
    /\ Absent \notin SP!Checkpoint
    /\ Torn \notin SP!Checkpoint
    /\ NoCheckpoint \notin SP!Checkpoint
    /\ Down \notin SP!Checkpoint
    /\ Absent # Torn
    /\ MaxEvent \in Nat
    /\ {} \in SUBSET Poke
BY SaverAssumption, BoundsAssumption, Zenon DEF S!Checkpoint, SP!Checkpoint

\* An empty Saver satisfies the Saver's invariant.
LEMMA SaverInit == S!Init => S!IInv
<1>1. SP!Init => SP!IInv
  BY SP!InitIInv, SaverFacts, Zenon
<1>2. SP!Init <=> S!Init
  BY Zenon DEF SP!Init, S!Init, SP!WhichSnapshot, S!WhichSnapshot
<1>3. SP!IInv <=> S!IInv
  BY Zenon DEF S!IInv, SP!IInv, S!TypeOK, SP!TypeOK, S!MemoryInv, SP!MemoryInv, S!KernelIsNewest,
         SP!KernelIsNewest, S!SlotInv, SP!SlotInv, S!TieInv, SP!TieInv, S!WakeInv, SP!WakeInv,
         S!NotNewer, SP!NotNewer, S!Loads, SP!Loads, S!Checkpoint, SP!Checkpoint,
         S!WhichSnapshot, SP!WhichSnapshot, S!NextSnapshot, SP!NextSnapshot
<1> QED
  BY <1>1, <1>2, <1>3, Zenon

\* A step of the Saver keeps its invariant.
LEMMA SaverKeeps == S!IInv /\ [S!Next]_(S!vars) => S!IInv'
<1>1. SP!IInv /\ [SP!Next]_(SP!vars) => SP!IInv'
  BY SP!InvStep, SaverFacts, Zenon
<1>2. (SP!IInv <=> S!IInv) /\ (SP!IInv' <=> S!IInv')
  BY Zenon DEF S!IInv, SP!IInv, S!TypeOK, SP!TypeOK, S!MemoryInv, SP!MemoryInv, S!KernelIsNewest,
         SP!KernelIsNewest, S!SlotInv, SP!SlotInv, S!TieInv, SP!TieInv, S!WakeInv, SP!WakeInv,
         S!NotNewer, SP!NotNewer, S!Loads, SP!Loads, S!Checkpoint, SP!Checkpoint,
         S!WhichSnapshot, SP!WhichSnapshot, S!NextSnapshot, SP!NextSnapshot
<1>3. S!vars = SP!vars /\ S!vars' = SP!vars' /\ (S!Next <=> SP!Next)
  BY Zenon DEF S!Next, SP!Next, S!vars, SP!vars, S!saverVars, SP!saverVars,
         S!LoadNothing, SP!LoadNothing, S!LoadCheckpoint, SP!LoadCheckpoint, S!LoadFails,
         SP!LoadFails, S!EventUpdate, SP!EventUpdate, S!Crash, SP!Crash, S!Capture, SP!Capture,
         S!OpenFile, SP!OpenFile, S!FileWritten, SP!FileWritten, S!SaveFails, SP!SaveFails,
         S!SaveReturns, SP!SaveReturns, S!WaitForSnapshot, SP!WaitForSnapshot, S!Stored, SP!Stored,
         S!LoadedFrom, SP!LoadedFrom, S!Loads, SP!Loads, S!Checkpoint, SP!Checkpoint,
         S!Fresh, SP!Fresh, S!WhichSnapshot, SP!WhichSnapshot, S!NextSnapshot, SP!NextSnapshot
<1> QED
  BY <1>1, <1>2, <1>3, Zenon

\* What the next start would load covers the last save this process knows of.
LEMMA StoredCovers ==
    ASSUME S!IInv, kernel # Down, last_event_num > 0
    PROVE  S!Stored \in S!Checkpoint /\ S!Stored.event_num >= last_event_num
<1>1. SP!IInv
  BY Zenon DEF S!IInv, SP!IInv, S!TypeOK, SP!TypeOK, S!MemoryInv, SP!MemoryInv, S!KernelIsNewest,
         SP!KernelIsNewest, S!SlotInv, SP!SlotInv, S!TieInv, SP!TieInv, S!WakeInv, SP!WakeInv,
         S!NotNewer, SP!NotNewer, S!Loads, SP!Loads, S!Checkpoint, SP!Checkpoint,
         S!WhichSnapshot, SP!WhichSnapshot, S!NextSnapshot, SP!NextSnapshot
<1>2. SP!Stored \in SP!Checkpoint /\ SP!Stored.event_num >= last_event_num
  BY <1>1, SP!StoredCoversLastSave, SaverFacts, Zenon
<1> QED
  BY <1>2, Zenon DEF S!Stored, SP!Stored, S!LoadedFrom, SP!LoadedFrom, S!Loads, SP!Loads,
              S!Checkpoint, SP!Checkpoint

(***************************************************************************)
(* Every step of a NockApp is a step of its Saver, or none.                *)
(***************************************************************************)
\* The steps of requests: only a poke that succeeds touches the kernel.
LEMMA RequestIsSaver == RequestStep => [S!Next]_(S!vars)
<1> SUFFICES ASSUME RequestStep PROVE S!Next \/ UNCHANGED saverVars
  BY Zenon DEF S!vars, S!saverVars, saverVars
<1>1. ASSUME NEW p \in Poke, PokeSucceeds(p) PROVE S!Next
  BY <1>1, Zenon DEF PokeSucceeds, S!Next
<1> QED
  BY <1>1, Zenon DEF RequestStep, HandleAction, Send, TaskSends, TaskGetsResult, TaskAnswers, SerfTakesPoke,
                     PokeFails, SerfPeeks

\* The steps of a save are the Saver's.
LEMMA SaveIsSaver == SaveStep => [S!Next]_(S!vars)
<1> SUFFICES ASSUME SaveStep PROVE S!Next \/ UNCHANGED saverVars
  BY Zenon DEF S!vars, S!saverVars, saverVars
<1> QED
  BY Zenon DEF SaveStep, SerfCheckpoints, SaveTick, SaveRequests, SaveOpens, SaveWrites, SaveFails,
               SaveReturns, S!Next

\* Of the steps of an exit only the wait for the snapshot is the Saver's; it
\* waits for an event that has happened.
LEMMA ExitIsSaver == IInv /\ ExitStep => [S!Next]_(S!vars)
<1> SUFFICES ASSUME IInv, ExitStep PROVE S!Next \/ UNCHANGED saverVars
  BY Zenon DEF S!vars, S!saverVars, saverVars
<1>1. CASE ExitWaits
  <2>1. S!WaitForSnapshot(exit_code, exit_event_num)
    BY <1>1, Zenon DEF ExitWaits
  <2>2. exit_code \in ExitCode
    BY <1>1, Zenon DEF ExitWaits, IInv, TypeOK, AppTypeOK, ExitInv
  <2>3. exit_event_num \in 0 .. MaxEvent
    <3>1. /\ kernel # Down /\ exit_event_num <= kernel.event_num
          /\ exit_event_num \in Nat /\ kernel \in S!Checkpoint
      BY <2>1, Zenon DEF S!WaitForSnapshot, IInv, TypeOK, AppTypeOK, S!TypeOK
    <3>2. kernel.event_num <= MaxEvent /\ kernel.event_num \in Nat
      BY <3>1, Zenon DEF IInv, AppliedInv, SoundCheckpoint, S!Checkpoint
    <3> QED
      BY <3>1, <3>2, BoundsAssumption
  <2> QED
    BY <2>1, <2>2, <2>3, Zenon DEF S!Next
<1>2. CASE ~ExitWaits
  BY <1>2, Zenon DEF ExitStep, DriverExits, Signal, ExitAgain, HandleExit, ExitTaskEnds, ExitSaves,
                     HandleShutdown, StopSends, StopJoins, HandleDone, SerfStops
<1> QED
  BY <1>1, <1>2, Zenon

\* A start is a try_load, the end of the process the end of the Saver.
LEMMA ProcessIsSaver == ProcessStep => [S!Next]_(S!vars)
BY Zenon DEF ProcessStep, Boot, Crash, SignalAgain, RuntimeDropped, ProcessEnds, S!Next

\* Every step.
LEMMA StepIsSaver == IInv /\ [Next]_vars => [S!Next]_(S!vars)
<1> SUFFICES ASSUME IInv, [Next]_vars PROVE [S!Next]_(S!vars)
  BY Zenon
<1>1. CASE UNCHANGED vars
  BY <1>1, Zenon DEF vars, saverVars, S!vars, S!saverVars
<1> QED
  BY <1>1, StepKinds, RequestIsSaver, SaveIsSaver, ExitIsSaver, ProcessIsSaver, Zenon

(***************************************************************************)
(* Types.                                                                  *)
(***************************************************************************)
\* A request has a state and is in at most two channels.
LEMMA RequestTypes == AppTypeOK /\ RequestStep => AppTypeOK'
<1> SUFFICES ASSUME AppTypeOK, RequestStep PROVE AppTypeOK'
  BY Zenon
<1>1. UNCHANGED <<proc, serf, inhibit, save, exitVars, fixed>>
  BY Zenon DEF RequestStep, HandleAction, Send, TaskSends, TaskGetsResult, TaskAnswers, SerfTakesPoke,
               PokeSucceeds, PokeFails, SerfPeeks, serfVars
<1>2. req' \in [Request -> Pending \union Answered \union {"idle", "past"}]
  BY DEF RequestStep, HandleAction, Send, TaskSends, TaskGetsResult, TaskAnswers, SerfTakesPoke,
         PokeSucceeds, PokeFails, SerfPeeks, AppTypeOK, Pending, Answered
<1>3. actions' \in Seq(Request)
  <2>1. \/ actions' = actions
        \/ actions # <<>> /\ actions' = Tail(actions)
        \/ \E r \in Request : actions' = Append(actions, r)
    BY Zenon DEF RequestStep, HandleAction, Send, TaskSends, TaskGetsResult, TaskAnswers, SerfTakesPoke,
                 PokeSucceeds, PokeFails, SerfPeeks
  <2>2. actions \in Seq(Request)
    BY Zenon DEF AppTypeOK
  <2> QED
    BY <2>1, <2>2, ChannelType, Zenon
<1>4. serfQ' \in Seq(Request \union {"checkpoint", "stop"})
  <2>1. \/ serfQ' = serfQ
        \/ serfQ # <<>> /\ serfQ' = Tail(serfQ)
        \/ \E r \in Request : serfQ' = Append(serfQ, r)
    BY Zenon DEF RequestStep, HandleAction, Send, TaskSends, TaskGetsResult, TaskAnswers, SerfTakesPoke,
                 PokeSucceeds, PokeFails, SerfPeeks, Receives, serfVars
  <2>2. serfQ \in Seq(Request \union {"checkpoint", "stop"})
    BY Zenon DEF AppTypeOK
  <2> QED
    BY <2>1, <2>2, ChannelType, Zenon
<1> QED
  BY <1>1, <1>2, <1>3, <1>4 DEF exitVars, fixed, AppTypeOK

\* A save task has a state, and sends the serf a request for a checkpoint.
LEMMA SaveTypes == AppTypeOK /\ SaveStep => AppTypeOK'
<1> SUFFICES ASSUME AppTypeOK, SaveStep PROVE AppTypeOK'
  BY Zenon
<1>1. UNCHANGED <<proc, req, actions, serf, inhibit, exitVars, checkpointing_enabled, starts>>
  BY Zenon DEF SaveStep, SerfCheckpoints, SaveTick, SaveRequests, SaveOpens, SaveWrites, SaveFails,
               SaveReturns, serfVars, fixed
<1>2. save' \in {"none", "spawned", "requested", "saving"}
  BY Zenon DEF SaveStep, SerfCheckpoints, SaveTick, SaveRequests, SaveOpens, SaveWrites, SaveFails,
         SaveReturns, AppTypeOK
<1>3. serfQ' \in Seq(Request \union {"checkpoint", "stop"})
  <2>1. \/ serfQ' = serfQ
        \/ serfQ # <<>> /\ serfQ' = Tail(serfQ)
        \/ serfQ' = Append(serfQ, "checkpoint")
    BY Zenon DEF SaveStep, SerfCheckpoints, SaveTick, SaveRequests, SaveOpens, SaveWrites, SaveFails,
                 SaveReturns, Receives, serfVars
  <2>2. serfQ \in Seq(Request \union {"checkpoint", "stop"})
    BY Zenon DEF AppTypeOK
  <2> QED
    BY <2>1, <2>2, ChannelType, Zenon
<1>4. ioErrors' = ioErrors \/ (ioErrors < MaxIoError /\ ioErrors' = ioErrors + 1)
  BY Zenon DEF SaveStep, SerfCheckpoints, SaveTick, SaveRequests, SaveOpens, SaveWrites, SaveFails,
               SaveReturns, fixed
<1>5. ioErrors' \in 0 .. MaxIoError
  BY <1>4, BoundsAssumption DEF AppTypeOK
<1> QED
  BY <1>1, <1>2, <1>3, <1>5 DEF exitVars, AppTypeOK

\* The steps of an exit.
LEMMA ExitTypes == IInv /\ ExitStep => AppTypeOK'
<1> SUFFICES ASSUME IInv, ExitStep PROVE AppTypeOK'
  BY Zenon
<1>0. AppTypeOK
  BY Zenon DEF IInv, TypeOK
<1>1. UNCHANGED <<actions, fixed>>
  BY Zenon DEF ExitStep, DriverExits, Signal, ExitAgain, HandleExit, ExitTaskEnds, ExitWaits, ExitSaves,
               HandleShutdown, StopSends, StopJoins, HandleDone, SerfStops
<1>2. req' = req \/ req' = [r \in Request |-> IF req[r] = "sent" THEN "nacking" ELSE req[r]]
  BY Zenon DEF ExitStep, DriverExits, Signal, ExitAgain, HandleExit, ExitTaskEnds, ExitWaits, ExitSaves,
               HandleShutdown, StopSends, StopJoins, HandleDone, SerfStops
<1>3. req' \in [Request -> Pending \union Answered \union {"idle", "past"}]
  BY <1>0, <1>2, Zenon DEF AppTypeOK, Pending
<1>4. serfQ' \in Seq(Request \union {"checkpoint", "stop"})
  <2>1. serfQ' = serfQ \/ serfQ' = <<>> \/ serfQ' = Append(serfQ, "stop")
    BY Zenon DEF ExitStep, DriverExits, Signal, ExitAgain, HandleExit, ExitTaskEnds, ExitWaits, ExitSaves,
                 HandleShutdown, StopSends, StopJoins, HandleDone, SerfStops, serfVars
  <2>2. serfQ \in Seq(Request \union {"checkpoint", "stop"})
    BY <1>0, Zenon DEF AppTypeOK
  <2> QED
    BY <2>1, <2>2, ChannelType, NewChannel, Zenon
<1>5. exitQ' \in Seq(ExitCode \union {"shutdown", "done"})
  <2>1. \/ exitQ' = exitQ
        \/ exitQ # <<>> /\ exitQ' = Tail(exitQ)
        \/ \E m \in ExitCode \union {"shutdown", "done"} : exitQ' = Append(exitQ, m)
    BY Zenon DEF ExitStep, DriverExits, Signal, ExitAgain, HandleExit, ExitTaskEnds, ExitWaits, ExitSaves,
                 HandleShutdown, StopSends, StopJoins, HandleDone, SerfStops, TakesExit, exitVars
  <2>2. exitQ \in Seq(ExitCode \union {"shutdown", "done"})
    BY <1>0, Zenon DEF AppTypeOK
  <2> QED
    BY <2>1, <2>2, ChannelType
<1>6. /\ proc' \in {"down", "up", "ending", "done"}
      /\ serf' \in {"alive", "stopped"}
      /\ save' \in {"none", "spawned", "requested", "saving"}
      /\ loop' \in {"select", "wait", "save"}
      /\ stopTask' \in {"none", "spawned", "joining"}
      /\ requested' \subseteq ExitCode
  <2>1. proc' = proc \/ proc' = "ending"
    BY Zenon DEF ExitStep, DriverExits, Signal, ExitAgain, HandleExit, ExitTaskEnds, ExitWaits, ExitSaves,
                 HandleShutdown, StopSends, StopJoins, HandleDone, SerfStops, serfVars, exitVars
  <2>2. serf' = serf \/ serf' = "stopped"
    BY Zenon DEF ExitStep, DriverExits, Signal, ExitAgain, HandleExit, ExitTaskEnds, ExitWaits, ExitSaves,
                 HandleShutdown, StopSends, StopJoins, HandleDone, SerfStops, serfVars, exitVars
  <2>3. save' = save \/ save' = "spawned" \/ save' = "none"
    BY Zenon DEF ExitStep, DriverExits, Signal, ExitAgain, HandleExit, ExitTaskEnds, ExitWaits, ExitSaves,
                 HandleShutdown, StopSends, StopJoins, HandleDone, SerfStops, serfVars, exitVars
  <2>4. loop' = loop \/ loop' = "select" \/ loop' = "wait" \/ loop' = "save"
    BY Zenon DEF ExitStep, DriverExits, Signal, ExitAgain, HandleExit, ExitTaskEnds, ExitWaits, ExitSaves,
                 HandleShutdown, StopSends, StopJoins, HandleDone, SerfStops, serfVars, exitVars
  <2>5. stopTask' = stopTask \/ stopTask' = "none" \/ stopTask' = "spawned" \/ stopTask' = "joining"
    BY Zenon DEF ExitStep, DriverExits, Signal, ExitAgain, HandleExit, ExitTaskEnds, ExitWaits, ExitSaves,
                 HandleShutdown, StopSends, StopJoins, HandleDone, SerfStops, serfVars, exitVars
  <2>6. requested' = requested \/ \E c \in ExitCode : requested' = requested \union {c}
    BY Zenon DEF ExitStep, DriverExits, Signal, ExitAgain, HandleExit, ExitTaskEnds, ExitWaits, ExitSaves,
                 HandleShutdown, StopSends, StopJoins, HandleDone, SerfStops, serfVars, exitVars
  <2>7. /\ proc \in {"down", "up", "ending", "done"}
        /\ serf \in {"alive", "stopped"}
        /\ save \in {"none", "spawned", "requested", "saving"}
        /\ loop \in {"select", "wait", "save"}
        /\ stopTask \in {"none", "spawned", "joining"}
        /\ requested \subseteq ExitCode
    BY <1>0, Zenon DEF AppTypeOK
  <2> QED
    BY <2>1, <2>2, <2>3, <2>4, <2>5, <2>6, <2>7, Zenon
<1>10. inhibit' \in BOOLEAN /\ abort_immediately' \in BOOLEAN
  <2>1. inhibit' = inhibit \/ inhibit' = TRUE
    BY Zenon DEF ExitStep, DriverExits, Signal, ExitAgain, HandleExit, ExitTaskEnds, ExitWaits, ExitSaves,
                 HandleShutdown, StopSends, StopJoins, HandleDone, SerfStops, serfVars
  <2>2. abort_immediately' = abort_immediately \/ abort_immediately' = TRUE
    BY Zenon DEF ExitStep, DriverExits, Signal, ExitAgain, HandleExit, ExitTaskEnds, ExitWaits, ExitSaves,
                 HandleShutdown, StopSends, StopJoins, HandleDone, SerfStops, exitVars
  <2> QED
    BY <1>0, <2>1, <2>2, Zenon DEF AppTypeOK
<1>7. exit_code' \in ExitCode \union {NoExit} /\ ackedAtExit' \subseteq Poke
  BY <1>0, Zenon DEF ExitStep, DriverExits, Signal, ExitAgain, HandleExit, ExitTaskEnds, ExitWaits, ExitSaves,
              HandleShutdown, StopSends, StopJoins, HandleDone, SerfStops, exitVars, AppTypeOK
<1>8. exitTasks' \subseteq ExitCode
  <2>1. \/ exitTasks' = exitTasks
        \/ \E c \in ExitCode : exitTasks' = exitTasks \union {c} \/ exitTasks' = exitTasks \ {c}
        \/ loop = "save" /\ exitTasks' = exitTasks \union {exit_code}
    BY Zenon DEF ExitStep, DriverExits, Signal, ExitAgain, HandleExit, ExitTaskEnds, ExitWaits, ExitSaves,
                 HandleShutdown, StopSends, StopJoins, HandleDone, SerfStops, exitVars
  <2>2. loop = "save" => exit_code \in ExitCode
    BY <1>0, Zenon DEF IInv, ExitInv, AppTypeOK
  <2> QED
    BY <1>0, <2>1, <2>2, Zenon DEF AppTypeOK
<1>9. exit_event_num' \in Nat
  <2>1. exit_event_num' = exit_event_num \/ (Up /\ exit_event_num' = kernel.event_num)
    BY Zenon DEF ExitStep, DriverExits, Signal, ExitAgain, HandleExit, ExitTaskEnds, ExitWaits, ExitSaves,
                 HandleShutdown, StopSends, StopJoins, HandleDone, SerfStops, exitVars, TakesExit, InSelect
  <2>2. Up => kernel.event_num \in Nat
    BY Zenon DEF IInv, TypeOK, S!TypeOK, S!Checkpoint, ProcInv, Up
  <2> QED
    BY <1>0, <2>1, <2>2, Zenon DEF AppTypeOK
<1> QED
  BY <1>0, <1>1, <1>3, <1>4, <1>5, <1>6, <1>7, <1>8, <1>9, <1>10, Zenon DEF fixed, AppTypeOK

\* A process starts or ends.
LEMMA ProcessTypes == AppTypeOK /\ ProcessStep => AppTypeOK'
<1> SUFFICES ASSUME AppTypeOK, ProcessStep PROVE AppTypeOK'
  BY Zenon
<1>1. CASE Boot
  <2>1. starts' \in 0 .. MaxStart
    BY <1>1, BoundsAssumption DEF Boot, AppTypeOK
  <2>2. proc' \in {"down", "up"} /\ serf' \in {"alive", "stopped"}
    BY <1>1, Zenon DEF Boot, AppTypeOK
  <2>3. exit_code' = NoExit /\ exit_event_num' = 0 /\ requested' = {} /\ ackedAtExit' = {}
    BY <1>1, Zenon DEF Boot
  <2>4. UNCHANGED <<req, actions, serfQ, inhibit, save, exitQ, loop, exitTasks, stopTask,
                    abort_immediately, checkpointing_enabled, ioErrors>>
    BY <1>1, Zenon DEF Boot
  <2> QED
    BY <2>1, <2>2, <2>3, <2>4 DEF AppTypeOK
<1>2. CASE Crash \/ SignalAgain \/ RuntimeDropped
  <2>1. proc' \in {"down", "done"} /\ ProcessEnds
    BY <1>2, Zenon DEF Crash, SignalAgain, RuntimeDropped
  <2>2. req' \in [Request -> Pending \union Answered \union {"idle", "past"}]
    BY <2>1, Zenon DEF ProcessEnds, AppTypeOK
  <2> QED
    BY <2>1, <2>2, NewChannel, Zenon DEF ProcessEnds, AppTypeOK, fixed
<1> QED
  BY <1>1, <1>2, Zenon DEF ProcessStep

\* Every step keeps the types, the Saver's with the Saver's invariant.
LEMMA TypeStep == IInv /\ [Next]_vars => TypeOK' /\ S!IInv'
<1> SUFFICES ASSUME IInv, [Next]_vars PROVE TypeOK' /\ S!IInv'
  BY Zenon
<1>1. S!IInv'
  BY StepIsSaver, SaverKeeps, Zenon DEF IInv
<1>2. S!TypeOK'
  BY <1>1, Zenon DEF S!IInv
<1>3. AppTypeOK
  BY Zenon DEF IInv, TypeOK
<1>4. UNCHANGED vars => AppTypeOK'
  BY <1>3, Zenon DEF vars, serfVars, exitVars, fixed, AppTypeOK
<1>5. AppTypeOK'
  BY <1>3, <1>4, StepKinds, RequestTypes, SaveTypes, ExitTypes, ProcessTypes, Zenon
<1> QED
  BY <1>1, <1>2, <1>5, Zenon DEF TypeOK

(***************************************************************************)
(* What the four kinds of step leave alone.                                *)
(***************************************************************************)
\* A request's step runs in a process that is up, and of the Saver's
\* variables changes only the kernel, when a poke succeeds.
LEMMA RequestFrame ==
    RequestStep =>
        /\ Up
        /\ UNCHANGED <<proc, serf, inhibit, save, exitVars, fixed>>
        /\ UNCHANGED <<slot, ckpt, waiters, woken, last_event_num>>
        /\ kernel' = kernel \/ \E p \in Poke : PokeSucceeds(p)
<1> SUFFICES ASSUME RequestStep
             PROVE  /\ Up
                    /\ UNCHANGED <<proc, serf, inhibit, save, exitVars, fixed>>
                    /\ UNCHANGED <<slot, ckpt, waiters, woken, last_event_num>>
                    /\ kernel' = kernel \/ \E p \in Poke : PokeSucceeds(p)
  BY Zenon
<1>1. Up /\ UNCHANGED <<proc, serf, inhibit, save, exitVars, fixed>>
  BY Zenon DEF RequestStep, HandleAction, Send, TaskSends, TaskGetsResult, TaskAnswers, SerfTakesPoke,
               PokeSucceeds, PokeFails, SerfPeeks, serfVars, InSelect, Receives, SerfIdle
<1>2. UNCHANGED <<slot, ckpt, waiters, woken, last_event_num>>
  BY Zenon DEF RequestStep, HandleAction, Send, TaskSends, TaskGetsResult, TaskAnswers, SerfTakesPoke,
               PokeSucceeds, PokeFails, SerfPeeks, saverVars, S!EventUpdate, S!saverVars
<1>3. kernel' = kernel \/ \E p \in Poke : PokeSucceeds(p)
  BY Zenon DEF RequestStep, HandleAction, Send, TaskSends, TaskGetsResult, TaskAnswers, SerfTakesPoke,
               PokeFails, SerfPeeks, saverVars
<1> QED
  BY <1>1, <1>2, <1>3, Zenon

\* A poke that succeeds makes the next kernel, with the poke applied.
LEMMA PokeApplies ==
    ASSUME S!TypeOK, NEW p \in Poke, PokeSucceeds(p)
    PROVE  /\ kernel # Down /\ kernel' # Down
           /\ kernel.event_num < MaxEvent
           /\ kernel'.event_num = kernel.event_num + 1
           /\ kernel'.ker_state = kernel.ker_state \union {p}
<1>1. /\ kernel # Down /\ kernel.event_num < MaxEvent
      /\ \E s \in SUBSET Poke : kernel' = [event_num |-> kernel.event_num + 1, ker_state |-> s]
      /\ kernel'.ker_state = kernel.ker_state \union {p}
  BY Zenon DEF PokeSucceeds, S!EventUpdate
<1>2. kernel' \in S!Checkpoint
  BY <1>1 DEF S!TypeOK, S!Checkpoint
<1> QED
  BY <1>1, <1>2, SaverAssumption

\* A step of a save runs in a process that has not ended and leaves the
\* requests, the exit and the kernel alone.
LEMMA SaveFrame ==
    SaveStep =>
        /\ proc \in {"up", "ending"}
        /\ UNCHANGED <<proc, req, actions, serf, inhibit, exitVars, checkpointing_enabled, kernel>>
<1> SUFFICES ASSUME SaveStep
             PROVE  /\ proc = "up" \/ proc = "ending"
                    /\ UNCHANGED <<proc, req, actions, serf, inhibit, exitVars,
                                   checkpointing_enabled, kernel>>
  BY Zenon
<1>1. proc = "up" \/ proc = "ending"
  BY Zenon DEF SaveStep, SerfCheckpoints, SaveTick, SaveRequests, SaveOpens, SaveWrites, SaveFails,
         SaveReturns, Receives, SerfIdle, Up, InSelect
<1>2. UNCHANGED <<proc, req, actions, serf, inhibit, exitVars, checkpointing_enabled>>
  BY Zenon DEF SaveStep, SerfCheckpoints, SaveTick, SaveRequests, SaveOpens, SaveWrites, SaveFails,
               SaveReturns, serfVars, fixed
<1>3. UNCHANGED kernel
  BY Zenon DEF SaveStep, SerfCheckpoints, SaveTick, SaveRequests, SaveOpens, SaveWrites, SaveFails,
               SaveReturns, saverVars, S!Capture, S!OpenFile, S!FileWritten, S!SaveFails, S!SaveReturns
<1> QED
  BY <1>1, <1>2, <1>3, Zenon

\* A step of an exit leaves the files and the kernel alone.
LEMMA ExitFrame ==
    ExitStep =>
        /\ Up
        /\ UNCHANGED <<slot, ckpt, kernel, last_event_num, actions, checkpointing_enabled>>
        /\ proc' \in {"up", "ending"}
<1> SUFFICES ASSUME ExitStep
             PROVE  /\ Up
                    /\ UNCHANGED <<slot, ckpt, kernel, last_event_num, actions, checkpointing_enabled>>
                    /\ proc' = proc \/ proc' = "ending"
  BY Zenon DEF Up
<1>1. Up
  BY Zenon DEF ExitStep, DriverExits, Signal, ExitAgain, HandleExit, ExitTaskEnds, ExitWaits, ExitSaves,
               HandleShutdown, StopSends, StopJoins, HandleDone, SerfStops, TakesExit, InSelect,
               Receives, SerfIdle
<1>2. UNCHANGED <<slot, ckpt, kernel, last_event_num>>
  BY Zenon DEF ExitStep, DriverExits, Signal, ExitAgain, HandleExit, ExitTaskEnds, ExitWaits, ExitSaves,
               HandleShutdown, StopSends, StopJoins, HandleDone, SerfStops, saverVars, S!WaitForSnapshot
<1>3. UNCHANGED <<actions, checkpointing_enabled>> /\ (proc' = proc \/ proc' = "ending")
  BY Zenon DEF ExitStep, DriverExits, Signal, ExitAgain, HandleExit, ExitTaskEnds, ExitWaits, ExitSaves,
               HandleShutdown, StopSends, StopJoins, HandleDone, SerfStops, fixed
<1> QED
  BY <1>1, <1>2, <1>3, Zenon

\* Only an exit that waits for its snapshot touches the waiters.
LEMMA ExitWaiters == ExitStep => ExitWaits \/ UNCHANGED <<waiters, woken>>
BY Zenon DEF ExitStep, DriverExits, Signal, ExitAgain, HandleExit, ExitTaskEnds, ExitSaves,
             HandleShutdown, StopSends, StopJoins, HandleDone, SerfStops, saverVars

\* The ends of a process: its memory is gone, its files stay.
LEMMA EndFrame ==
    Crash \/ SignalAgain \/ RuntimeDropped =>
        /\ proc \in {"up", "ending"} /\ proc' \in {"down", "done"}
        /\ kernel # Down /\ kernel' = Down /\ ckpt' = NoCheckpoint /\ waiters' = {} /\ woken' = {}
        /\ \A r \in Request : req'[r] = IF req[r] = "idle" THEN "idle" ELSE "past"
        /\ actions' = <<>> /\ serfQ' = <<>> /\ exitQ' = <<>>
        /\ loop' = "select" /\ exitTasks' = {} /\ stopTask' = "none" /\ inhibit' = FALSE
        /\ UNCHANGED <<slot, exit_code, exit_event_num, ackedAtExit, checkpointing_enabled>>
<1> SUFFICES ASSUME Crash \/ SignalAgain \/ RuntimeDropped
             PROVE  /\ proc \in {"up", "ending"} /\ proc' \in {"down", "done"}
                    /\ kernel # Down /\ kernel' = Down /\ ckpt' = NoCheckpoint
                    /\ waiters' = {} /\ woken' = {}
                    /\ \A r \in Request : req'[r] = IF req[r] = "idle" THEN "idle" ELSE "past"
                    /\ actions' = <<>> /\ serfQ' = <<>> /\ exitQ' = <<>>
                    /\ loop' = "select" /\ exitTasks' = {} /\ stopTask' = "none" /\ inhibit' = FALSE
                    /\ UNCHANGED <<slot, exit_code, exit_event_num, ackedAtExit, checkpointing_enabled>>
  BY Zenon
<1>1. ProcessEnds /\ proc \in {"up", "ending"} /\ proc' \in {"down", "done"}
  BY Zenon DEF Crash, SignalAgain, RuntimeDropped, InSelect, Up
<1> QED
  BY <1>1, Zenon DEF ProcessEnds, S!Crash, fixed

\* The start of a process, which finds the memory of the last one gone.
LEMMA BootFrame ==
    Boot =>
        /\ proc \in {"down", "done"}
        /\ \/ proc' = "up" /\ (S!LoadNothing \/ S!LoadCheckpoint)
           \/ proc' = "down" /\ kernel' = Down
        /\ exit_code' = NoExit /\ exit_event_num' = 0 /\ ackedAtExit' = {}
        /\ UNCHANGED <<slot, ckpt, waiters, woken>>
        /\ UNCHANGED <<req, actions, serfQ, inhibit, exitQ, loop, exitTasks, stopTask,
                       checkpointing_enabled>>
<1> SUFFICES ASSUME Boot
             PROVE  /\ proc \in {"down", "done"}
                    /\ \/ proc' = "up" /\ (S!LoadNothing \/ S!LoadCheckpoint)
                       \/ proc' = "down" /\ kernel' = Down
                    /\ exit_code' = NoExit /\ exit_event_num' = 0 /\ ackedAtExit' = {}
                    /\ UNCHANGED <<slot, ckpt, waiters, woken>>
                    /\ UNCHANGED <<req, actions, serfQ, inhibit, exitQ, loop, exitTasks, stopTask,
                                   checkpointing_enabled>>
  BY Zenon
<1> QED
  BY Zenon DEF Boot, S!LoadNothing, S!LoadCheckpoint, S!LoadFails, S!saverVars

(***************************************************************************)
(* ProcInv.                                                                *)
(***************************************************************************)
\* The kernel runs while there is a process, and memory ends with it.
LEMMA ProcStep == IInv /\ Next => ProcInv'
<1> SUFFICES ASSUME IInv, Next PROVE ProcInv'
  BY Zenon
<1>1. ProcInv
  BY Zenon DEF IInv
<1>2. CASE RequestStep
  <2>1. proc' = "up" /\ kernel # Down
    BY <1>1, <1>2, RequestFrame, Zenon DEF ProcInv, Up
  <2>2. kernel' # Down
    BY <1>2, <2>1, RequestFrame, PokeApplies, Zenon DEF IInv, TypeOK
  <2> QED
    BY <2>1, <2>2, Zenon DEF ProcInv
<1>3. CASE SaveStep
  BY <1>1, <1>3, SaveFrame, Zenon DEF ProcInv
<1>4. CASE ExitStep
  BY <1>1, <1>4, ExitFrame, Zenon DEF ProcInv, Up
<1>5. CASE Boot
  <2>1. \A w \in {0, 1} : S!Loads(w) => slot[w] # Down
    BY SaverAssumption, Zenon DEF S!Loads
  <2>2. S!LoadNothing \/ S!LoadCheckpoint => kernel' # Down
    <3>1. S!Fresh # Down
      BY SaverAssumption DEF S!Fresh, S!Checkpoint
    <3>2. S!Stored # NoCheckpoint => S!Stored # Down
      BY <2>1, Zenon DEF S!Stored, S!LoadedFrom
    <3> QED
      BY <3>1, <3>2, Zenon DEF S!LoadNothing, S!LoadCheckpoint
  <2> QED
    BY <1>1, <1>5, <2>2, BootFrame DEF ProcInv
<1>6. CASE Crash \/ SignalAgain \/ RuntimeDropped
  BY <1>1, <1>6, EndFrame, Zenon DEF ProcInv
<1> QED
  BY <1>2, <1>3, <1>4, <1>5, <1>6, StepKinds, Zenon DEF ProcessStep

(***************************************************************************)
(* QueueInv.                                                               *)
(***************************************************************************)
\* A request moves from channel to channel with its state.
LEMMA RequestQueues == IInv /\ RequestStep => QueueInv'
<1> SUFFICES ASSUME IInv, RequestStep PROVE QueueInv'
  BY Zenon
<1> DEFINE T == Request \union {"checkpoint", "stop"}
<1>1. /\ QueueInv /\ actions \in Seq(Request) /\ serfQ \in Seq(T)
      /\ req \in [Request -> Pending \union Answered \union {"idle", "past"}]
  BY Zenon DEF IInv, TypeOK, AppTypeOK
<1> HIDE DEF T
<1>2. CASE HandleAction
  <2>1. /\ actions # <<>> /\ actions' = Tail(actions) /\ serfQ' = serfQ
        /\ \A r \in Request : r # Head(actions) => req'[r] = req[r]
    BY <1>1, <1>2, Zenon DEF HandleAction, serfVars
  <2>2. /\ Occurs(Head(actions), actions) /\ Head(actions) \in Request
        /\ ~Occurs(Head(actions), Tail(actions))
        /\ \A r : Occurs(r, Tail(actions)) => Occurs(r, actions)
        /\ AtMostOnce(Request, Tail(actions))
    BY <1>1, <2>1, Received, Zenon DEF QueueInv
  <2> QED
    BY <1>1, <2>1, <2>2, Zenon DEF QueueInv
<1>3. ASSUME NEW r \in Request, Send(r) PROVE QueueInv'
  <2>1. /\ req[r] = "idle" /\ req' = [req EXCEPT ![r] = "queued"]
        /\ actions' = Append(actions, r) /\ serfQ' = serfQ
    BY <1>3, Zenon DEF Send, serfVars
  <2>2. ~Occurs(r, actions) /\ ~Occurs(r, serfQ)
    BY <1>1, <2>1, Zenon DEF QueueInv
  <2>3. /\ \A y : Occurs(y, actions') <=> Occurs(y, actions) \/ y = r
        /\ AtMostOnce(Request, actions')
    BY <1>1, <2>1, <2>2, Sent, Zenon DEF QueueInv
  <2> QED
    BY <1>1, <2>1, <2>2, <2>3, Zenon DEF QueueInv
<1>4. ASSUME NEW r \in Request, TaskSends(r) PROVE QueueInv'
  <2>1. /\ req[r] = "spawned" /\ actions' = actions
        /\ \A s \in Request : s # r => req'[s] = req[s]
        /\ \/ serfQ' = Append(serfQ, r) /\ req'[r] = "sent"
           \/ serfQ' = serfQ
    BY <1>1, <1>4, Zenon DEF TaskSends
  <2>2. ~Occurs(r, actions) /\ ~Occurs(r, serfQ)
    BY <1>1, <2>1, Zenon DEF QueueInv
  <2>3. r \in T
    BY Zenon DEF T
  <2>4. CASE serfQ' = Append(serfQ, r) /\ req'[r] = "sent"
    <3>1. /\ \A y : Occurs(y, serfQ') <=> Occurs(y, serfQ) \/ y = r
          /\ AtMostOnce(Request, serfQ')
      BY <1>1, <2>2, <2>3, <2>4, Sent, Zenon DEF QueueInv
    <3> QED
      BY <1>1, <2>1, <2>2, <2>4, <3>1, Zenon DEF QueueInv
  <2>5. CASE serfQ' = serfQ
    BY <1>1, <2>1, <2>2, <2>5, Zenon DEF QueueInv
  <2> QED
    BY <2>1, <2>4, <2>5, Zenon
<1>5. ASSUME NEW r \in Request, SerfTakesPoke(r) \/ SerfPeeks(r) PROVE QueueInv'
  <2>1. /\ serfQ # <<>> /\ Head(serfQ) = r /\ serfQ' = Tail(serfQ) /\ actions' = actions
        /\ \A s \in Request : s # r => req'[s] = req[s]
    BY <1>1, <1>5, Zenon DEF SerfTakesPoke, SerfPeeks, Receives
  <2>2. /\ Occurs(r, serfQ) /\ ~Occurs(r, serfQ')
        /\ \A y : Occurs(y, serfQ') => Occurs(y, serfQ)
        /\ AtMostOnce(Request, serfQ')
    BY <1>1, <2>1, Received, Zenon DEF QueueInv
  <2>3. ~Occurs(r, actions)
    BY <1>1, <2>2, Zenon DEF QueueInv
  <2> QED
    BY <1>1, <2>1, <2>2, <2>3, Zenon DEF QueueInv
<1>6. ASSUME NEW r \in Request, TaskGetsResult(r) \/ TaskAnswers(r) \/ PokeSucceeds(r) \/ PokeFails(r)
      PROVE  QueueInv'
  <2>1. /\ req[r] # "queued" /\ req[r] # "sent" /\ actions' = actions /\ serfQ' = serfQ
        /\ \A s \in Request : s # r => req'[s] = req[s]
    BY <1>1, <1>6, Zenon DEF TaskGetsResult, TaskAnswers, PokeSucceeds, PokeFails, serfVars
  <2> QED
    BY <1>1, <2>1, Zenon DEF QueueInv
<1>7. Poke \subseteq Request /\ Peek \subseteq Request
  BY Zenon DEF Request
<1> QED
  BY <1>2, <1>3, <1>4, <1>5, <1>6, <1>7, Zenon DEF RequestStep

\* The messages that are not requests do not disturb the serf's channel.
LEMMA QueueStep == IInv /\ Next => QueueInv'
<1> SUFFICES ASSUME IInv, Next PROVE QueueInv'
  BY Zenon
<1> DEFINE T == Request \union {"checkpoint", "stop"}
<1>1. /\ QueueInv /\ actions \in Seq(Request) /\ serfQ \in Seq(T)
      /\ req \in [Request -> Pending \union Answered \union {"idle", "past"}]
  BY Zenon DEF IInv, TypeOK, AppTypeOK
<1>2. "checkpoint" \in T /\ "stop" \in T /\ "checkpoint" \notin Request /\ "stop" \notin Request
  BY RequestAssumption, Zenon
<1> HIDE DEF T
<1>3. CASE SaveStep
  <2>1. actions' = actions /\ req' = req
    BY <1>3, SaveFrame, Zenon
  <2>2. \/ serfQ' = serfQ
        \/ serfQ # <<>> /\ serfQ' = Tail(serfQ)
        \/ serfQ' = Append(serfQ, "checkpoint")
    BY <1>3, Zenon DEF SaveStep, SerfCheckpoints, SaveTick, SaveRequests, SaveOpens, SaveWrites,
                       SaveFails, SaveReturns, Receives, serfVars
  <2>3. /\ \A r \in Request : Occurs(r, serfQ') => Occurs(r, serfQ)
        /\ AtMostOnce(Request, serfQ')
    <3>1. CASE serfQ' = serfQ
      BY <1>1, <3>1, Zenon DEF QueueInv
    <3>2. CASE serfQ # <<>> /\ serfQ' = Tail(serfQ)
      BY <1>1, <3>2, Received, Zenon DEF QueueInv
    <3>3. CASE serfQ' = Append(serfQ, "checkpoint")
      BY <1>1, <1>2, <3>3, Sent DEF QueueInv
    <3> QED
      BY <2>2, <3>1, <3>2, <3>3, Zenon
  <2> QED
    BY <1>1, <2>1, <2>3, Zenon DEF QueueInv
<1>4. CASE ExitStep
  <2>1. actions' = actions
    BY <1>4, ExitFrame, Zenon
  <2>2. \/ serfQ' = serfQ /\ req' = req
        \/ serfQ' = Append(serfQ, "stop") /\ req' = req
        \/ serfQ' = <<>> /\ req' = [r \in Request |-> IF req[r] = "sent" THEN "nacking" ELSE req[r]]
    BY <1>4, Zenon DEF ExitStep, DriverExits, Signal, ExitAgain, HandleExit, ExitTaskEnds, ExitWaits,
                       ExitSaves, HandleShutdown, StopSends, StopJoins, HandleDone, SerfStops, serfVars
  <2>3. CASE serfQ' = serfQ /\ req' = req
    BY <1>1, <2>1, <2>3, Zenon DEF QueueInv
  <2>4. CASE serfQ' = Append(serfQ, "stop") /\ req' = req
    <3>1. /\ \A r \in Request : Occurs(r, serfQ') => Occurs(r, serfQ)
          /\ AtMostOnce(Request, serfQ')
      BY <1>1, <1>2, <2>4, Sent DEF QueueInv
    <3> QED
      BY <1>1, <2>1, <2>4, <3>1, Zenon DEF QueueInv
  <2>5. CASE serfQ' = <<>> /\ req' = [r \in Request |-> IF req[r] = "sent" THEN "nacking" ELSE req[r]]
    BY <1>1, <2>1, <2>5, NewChannel, Zenon DEF QueueInv
  <2> QED
    BY <2>2, <2>3, <2>4, <2>5, Zenon
<1>5. CASE Boot
  BY <1>1, <1>5, BootFrame, Zenon DEF QueueInv
<1>6. CASE Crash \/ SignalAgain \/ RuntimeDropped
  BY <1>6, EndFrame, NewChannel, Zenon DEF QueueInv
<1> QED
  BY <1>3, <1>4, <1>5, <1>6, StepKinds, RequestQueues, Zenon DEF ProcessStep

(***************************************************************************)
(* AppliedInv.                                                             *)
(***************************************************************************)
\* The checkpoints there are have the type of checkpoints.
LEMMA KeptType == S!TypeOK => Kept \subseteq S!Checkpoint
BY Zenon DEF Kept, S!TypeOK, S!Loads

\* A step keeps checkpoints or makes one of the running kernel.
LEMMA KeptStep ==
    ASSUME IInv, Next
    PROVE  /\ \A c \in Kept' : c \in Kept \/ (kernel # Down /\ c = kernel)
           /\ ckpt' = ckpt \/ ckpt' = NoCheckpoint \/ (kernel # Down /\ ckpt' = kernel)
<1> DEFINE Goal == /\ \A c \in Kept' : c \in Kept \/ (kernel # Down /\ c = kernel)
                   /\ ckpt' = ckpt \/ ckpt' = NoCheckpoint \/ (kernel # Down /\ ckpt' = kernel)
<1>1. CASE UNCHANGED <<slot, ckpt>>
  BY <1>1, Zenon DEF Kept, S!Loads, S!WhichSnapshot, S!Checkpoint
<1>2. CASE slot' = slot /\ ckpt' = NoCheckpoint
  BY <1>2, Zenon DEF Kept, S!Loads, S!WhichSnapshot, S!Checkpoint
<1>3. CASE slot' = slot /\ kernel # Down /\ ckpt' = kernel
  BY <1>3, Zenon DEF Kept, S!Loads, S!WhichSnapshot, S!Checkpoint
<1>4. CASE ckpt' = ckpt /\ slot' = [slot EXCEPT ![save_to_next] = Torn]
  BY <1>4, SaverAssumption DEF Kept, S!Loads, S!WhichSnapshot, S!Checkpoint, IInv, TypeOK, S!TypeOK
<1>5. CASE ckpt' = ckpt /\ ckpt # NoCheckpoint /\ slot' = [slot EXCEPT ![save_to_next] = ckpt]
  BY <1>5 DEF Kept, S!Loads, S!WhichSnapshot, S!Checkpoint, IInv, TypeOK, S!TypeOK
<1>6. CASE SaveStep
  <2>1. \/ UNCHANGED <<slot, ckpt>>
        \/ slot' = slot /\ ckpt' = NoCheckpoint
        \/ slot' = slot /\ kernel # Down /\ ckpt' = kernel
        \/ ckpt' = ckpt /\ slot' = [slot EXCEPT ![save_to_next] = Torn]
        \/ phase = "writing" /\ ckpt' = ckpt /\ slot' = [slot EXCEPT ![save_to_next] = ckpt]
    BY <1>6, Zenon DEF SaveStep, SerfCheckpoints, SaveTick, SaveRequests, SaveOpens, SaveWrites, SaveFails,
                       SaveReturns, saverVars, S!Capture, S!OpenFile, S!FileWritten, S!SaveFails,
                       S!SaveReturns
  <2>2. phase = "writing" => ckpt # NoCheckpoint
    BY Zenon DEF IInv, S!IInv, S!MemoryInv
  <2> QED
    BY <1>1, <1>2, <1>3, <1>4, <1>5, <2>1, <2>2, Zenon
<1>7. CASE RequestStep
  BY <1>1, <1>7, RequestFrame, Zenon
<1>8. CASE ExitStep
  BY <1>1, <1>8, ExitFrame, Zenon
<1>9. CASE ProcessStep
  BY <1>1, <1>2, <1>9, BootFrame, EndFrame, Zenon DEF ProcessStep
<1> QED
  BY <1>6, <1>7, <1>8, <1>9, StepKinds, Zenon

\* A request is made once.
LEMMA NeverIdleAgain ==
    ASSUME IInv, Next, NEW r \in Request, req[r] # "idle"
    PROVE  req'[r] # "idle"
<1>1. req \in [Request -> Pending \union Answered \union {"idle", "past"}]
  BY Zenon DEF IInv, TypeOK, AppTypeOK
<1>2. CASE RequestStep
  BY <1>1, <1>2, Zenon DEF RequestStep, HandleAction, Send, TaskSends, TaskGetsResult, TaskAnswers,
                    SerfTakesPoke, PokeSucceeds, PokeFails, SerfPeeks
<1>3. CASE SaveStep
  BY <1>3, SaveFrame, Zenon
<1>4. CASE ExitStep
  <2>1. req' = req \/ req' = [x \in Request |-> IF req[x] = "sent" THEN "nacking" ELSE req[x]]
    BY <1>4, Zenon DEF ExitStep, DriverExits, Signal, ExitAgain, HandleExit, ExitTaskEnds, ExitWaits,
                       ExitSaves, HandleShutdown, StopSends, StopJoins, HandleDone, SerfStops
  <2> QED
    BY <1>1, <2>1, Zenon
<1>5. CASE ProcessStep
  BY <1>5, BootFrame, EndFrame, Zenon DEF ProcessStep
<1> QED
  BY <1>2, <1>3, <1>4, <1>5, StepKinds, Zenon

\* A step of a request that does not end a poke with success leaves what its
\* state says of the kernel as it was.
LEMMA RequestClass ==
    ASSUME IInv, RequestStep, NEW p \in Poke
    PROVE  \/ PokeSucceeds(p) /\ req'[p] = "ok"
           \/ /\ req'[p] \in {"ok", "acking", "acked"} <=> req[p] \in {"ok", "acking", "acked"}
              /\ req'[p] = "past" <=> req[p] = "past"
<1> DEFINE Same == /\ req'[p] \in {"ok", "acking", "acked"} <=> req[p] \in {"ok", "acking", "acked"}
                   /\ req'[p] = "past" <=> req[p] = "past"
<1>1. /\ req \in [Request -> Pending \union Answered \union {"idle", "past"}]
      /\ p \in Request /\ p \notin Peek
  BY RequestAssumption, Zenon DEF IInv, TypeOK, AppTypeOK, Request
<1>2. CASE HandleAction
  <2>1. Head(actions) \in Request /\ req[Head(actions)] = "queued"
    <3>1. actions \in Seq(Request) /\ actions # <<>>
      BY <1>2, Zenon DEF HandleAction, IInv, TypeOK, AppTypeOK
    <3>2. Head(actions) \in Request /\ Occurs(Head(actions), actions)
      BY <3>1, Received, Zenon
    <3> QED
      BY <3>2, Zenon DEF IInv, QueueInv
  <2> QED
    BY <1>1, <1>2, <2>1, Zenon DEF HandleAction
<1>3. ASSUME NEW r \in Poke, SerfTakesPoke(r) PROVE Same
  <2>1. req[r] = "sent"
    <3>1. serfQ \in Seq(Request \union {"checkpoint", "stop"}) /\ serfQ # <<>> /\ Head(serfQ) = r
      BY <1>3, Zenon DEF SerfTakesPoke, Receives, IInv, TypeOK, AppTypeOK
    <3>2. Occurs(r, serfQ)
      BY <3>1, Received, Zenon
    <3> QED
      BY <3>2, Zenon DEF IInv, QueueInv, Request
  <2> QED
    BY <1>1, <1>3, <2>1, Zenon DEF SerfTakesPoke
<1>4. ASSUME NEW r \in Peek, SerfPeeks(r) PROVE Same
  BY <1>1, <1>4, Zenon DEF SerfPeeks
<1>5. ASSUME NEW r \in Request, Send(r) \/ TaskSends(r) \/ TaskGetsResult(r) \/ TaskAnswers(r)
      PROVE  Same
  BY <1>1, <1>5, Zenon DEF Send, TaskSends, TaskGetsResult, TaskAnswers
<1>6. ASSUME NEW r \in Poke, PokeFails(r) PROVE Same
  BY <1>1, <1>6, Zenon DEF PokeFails
<1>7. ASSUME NEW r \in Poke, PokeSucceeds(r) PROVE Same \/ (PokeSucceeds(p) /\ req'[p] = "ok")
  <2>1. req' = [req EXCEPT ![r] = "ok"] /\ r \in Request
    BY <1>7, Zenon DEF PokeSucceeds, Request
  <2> QED
    BY <1>1, <1>7, <2>1, Zenon
<1> QED
  BY <1>2, <1>3, <1>4, <1>5, <1>6, <1>7, Zenon DEF RequestStep

\* What the invariant says of the running kernel.
KernelApplied ==
    kernel # Down =>
        /\ SoundCheckpoint(kernel)
        /\ \A p \in Poke :
              /\ req[p] \in {"ok", "acking", "acked"} => p \in kernel.ker_state
              /\ req[p] \notin {"ok", "acking", "acked", "past"} => p \notin kernel.ker_state

\* It holds of the kernel a start loads and of the one a poke makes.
LEMMA KernelAppliedStep == IInv /\ Next => KernelApplied'
<1> SUFFICES ASSUME IInv, Next PROVE KernelApplied'
  BY Zenon
<1>1. KernelApplied /\ S!TypeOK
  BY Zenon DEF IInv, AppliedInv, KernelApplied, TypeOK
<1>2. CASE RequestStep
  <2>1. kernel # Down
    BY <1>2, RequestFrame, Zenon DEF IInv, ProcInv, Up
  <2>2. kernel \in S!Checkpoint /\ kernel.event_num \in Nat
    BY <1>1, <2>1, Zenon DEF S!TypeOK, S!Checkpoint
  <2>3. SoundCheckpoint(kernel)'
    <3>1. CASE kernel' = kernel
      BY <1>1, <2>1, <3>1, Zenon DEF KernelApplied, SoundCheckpoint
    <3>2. ASSUME NEW p \in Poke, PokeSucceeds(p) PROVE SoundCheckpoint(kernel)'
      <4>1. kernel.event_num < MaxEvent /\ kernel'.event_num = kernel.event_num + 1
        BY <1>1, <3>2, PokeApplies, Zenon
      <4> QED
        BY <2>2, <4>1, BoundsAssumption DEF SoundCheckpoint
    <3> QED
      BY <1>2, <3>1, <3>2, RequestFrame, Zenon
  <2>4. ASSUME NEW q \in Poke
        PROVE  /\ req'[q] \in {"ok", "acking", "acked"} => q \in kernel'.ker_state
               /\ req'[q] \notin {"ok", "acking", "acked", "past"} => q \notin kernel'.ker_state
    <3>1. CASE PokeSucceeds(q)
      <4>1. q \in kernel'.ker_state
        BY <1>1, <3>1, PokeApplies, Zenon
      <4>2. req'[q] = "ok"
        BY <3>1, Zenon DEF PokeSucceeds, IInv, TypeOK, AppTypeOK, Request
      <4> QED
        BY <4>1, <4>2, Zenon
    <3>2. CASE ~PokeSucceeds(q)
      <4>1. /\ req'[q] \in {"ok", "acking", "acked"} <=> req[q] \in {"ok", "acking", "acked"}
            /\ req'[q] = "past" <=> req[q] = "past"
        BY <1>2, <3>2, RequestClass, Zenon
      <4>2. q \in kernel'.ker_state <=> q \in kernel.ker_state
        <5>1. ASSUME NEW p \in Poke, PokeSucceeds(p)
              PROVE  q \in kernel'.ker_state <=> q \in kernel.ker_state
          <6>1. kernel'.ker_state = kernel.ker_state \union {p}
            BY <1>1, <5>1, PokeApplies, Zenon
          <6>2. p # q
            BY <3>2, <5>1, Zenon
          <6> QED
            BY <6>1, <6>2, Zenon
        <5> QED
          BY <1>2, <5>1, RequestFrame, Zenon
      <4> QED
        BY <1>1, <2>1, <4>1, <4>2, Zenon DEF KernelApplied
    <3> QED
      BY <3>1, <3>2, Zenon
  <2> QED
    BY <2>3, <2>4, Zenon DEF KernelApplied
<1>3. CASE SaveStep
  BY <1>1, <1>3, SaveFrame, Zenon DEF KernelApplied, SoundCheckpoint
<1>4. CASE ExitStep
  <2>1. kernel' = kernel
    BY <1>4, ExitFrame, Zenon
  <2>2. req' = req \/ req' = [x \in Request |-> IF req[x] = "sent" THEN "nacking" ELSE req[x]]
    BY <1>4, Zenon DEF ExitStep, DriverExits, Signal, ExitAgain, HandleExit, ExitTaskEnds, ExitWaits,
                       ExitSaves, HandleShutdown, StopSends, StopJoins, HandleDone, SerfStops
  <2>3. ASSUME NEW p \in Poke
        PROVE  /\ req'[p] \in {"ok", "acking", "acked"} <=> req[p] \in {"ok", "acking", "acked"}
               /\ req'[p] = "past" <=> req[p] = "past"
    BY <2>2, Zenon DEF Request
  <2> QED
    BY <1>1, <2>1, <2>3, Zenon DEF KernelApplied, SoundCheckpoint
<1>5. CASE Boot
  <2>1. ASSUME NEW p \in Poke PROVE req'[p] \in {"idle", "past"} /\ req'[p] = req[p]
    BY <1>5, BootFrame, Zenon DEF IInv, ProcInv, Request
  <2>2. CASE kernel' = Down
    BY <2>2, Zenon DEF KernelApplied
  <2>3. CASE S!LoadNothing
    <3>1. kernel'.event_num = 0 /\ kernel'.ker_state = {}
      BY <2>3, Zenon DEF S!LoadNothing, S!Fresh
    <3> QED
      BY <2>1, <3>1, BoundsAssumption DEF KernelApplied, SoundCheckpoint
  <2>4. CASE S!LoadCheckpoint
    <3>1. kernel' = S!Stored /\ S!Stored # NoCheckpoint
      BY <2>4, Zenon DEF S!LoadCheckpoint
    <3>2. S!Stored \in Kept
      BY <3>1, Zenon DEF Kept, S!Stored, S!LoadedFrom, S!WhichSnapshot
    <3> QED
      BY <2>1, <3>1, <3>2, Zenon DEF IInv, AppliedInv, KernelApplied, SoundCheckpoint
  <2> QED
    BY <1>5, <2>2, <2>3, <2>4, BootFrame, Zenon
<1>6. CASE Crash \/ SignalAgain \/ RuntimeDropped
  BY <1>6, EndFrame, Zenon DEF KernelApplied
<1> QED
  BY <1>2, <1>3, <1>4, <1>5, <1>6, StepKinds, Zenon DEF ProcessStep

\* A kernel that runs on keeps what it has applied.
LEMMA KernelGrows ==
    ASSUME IInv, Next, kernel # Down, kernel' # Down
    PROVE  /\ kernel.ker_state \subseteq kernel'.ker_state
           /\ kernel.event_num <= kernel'.event_num
<1>1. S!TypeOK /\ kernel.event_num \in Nat
  BY Zenon DEF IInv, TypeOK, S!TypeOK, S!Checkpoint
<1> DEFINE n == kernel.event_num
<1>2. n \in Nat /\ n <= n /\ n <= n + 1
  <2> HIDE DEF n
  <2>1. n \in Nat
    BY <1>1, Zenon DEF n
  <2> QED
    BY <2>1
<1>3. CASE kernel' = kernel
  BY <1>2, <1>3, Zenon
<1>4. ASSUME NEW p \in Poke, PokeSucceeds(p)
      PROVE  kernel.ker_state \subseteq kernel'.ker_state /\ kernel.event_num <= kernel'.event_num
  <2>1. kernel'.event_num = n + 1 /\ kernel'.ker_state = kernel.ker_state \union {p}
    BY <1>1, <1>4, PokeApplies, Zenon
  <2> QED
    BY <1>2, <2>1, Zenon
<1>5. CASE Boot
  BY <1>5, BootFrame, Zenon DEF IInv, ProcInv
<1> QED
  BY <1>3, <1>4, <1>5, StepKinds, RequestFrame, SaveFrame, ExitFrame, EndFrame DEF ProcessStep

\* AppliedInv is kept by every step.
LEMMA AppliedStep == IInv /\ Next => AppliedInv'
<1> SUFFICES ASSUME IInv, Next PROVE AppliedInv'
  BY Zenon
<1>1. S!TypeOK /\ AppliedInv
  BY Zenon DEF IInv, TypeOK
<1>2. ASSUME NEW c \in Kept' PROVE SoundCheckpoint(c)' /\ \A p \in c.ker_state : req'[p] # "idle"
  <2>1. CASE c \in Kept
    <3>1. c.ker_state \subseteq Request
      BY <1>1, <2>1, KeptType, Zenon DEF S!Checkpoint, Request
    <3>2. SoundCheckpoint(c) /\ \A p \in c.ker_state : req[p] # "idle"
      BY <1>1, <2>1, Zenon DEF AppliedInv
    <3> QED
      BY <3>1, <3>2, NeverIdleAgain, Zenon DEF SoundCheckpoint
  <2>2. CASE kernel # Down /\ c = kernel
    <3>1. c.ker_state \subseteq Poke
      BY <1>1, <2>2, Zenon DEF S!TypeOK, S!Checkpoint
    <3>2. SoundCheckpoint(c) /\ \A p \in c.ker_state : req[p] # "idle"
      BY <1>1, <2>2, <3>1, Zenon DEF AppliedInv
    <3> QED
      BY <3>1, <3>2, NeverIdleAgain, Zenon DEF SoundCheckpoint, Request
  <2> QED
    BY <2>1, <2>2, KeptStep, Zenon
<1>3. ASSUME kernel' # Down, ckpt' # NoCheckpoint PROVE ckpt'.ker_state \subseteq kernel'.ker_state
  <2>1. CASE kernel # Down
    <3>1. ckpt'.ker_state \subseteq kernel.ker_state
      BY <1>1, <1>3, <2>1, KeptStep, Zenon DEF AppliedInv
    <3>2. kernel.ker_state \subseteq kernel'.ker_state
      BY <1>3, <2>1, KernelGrows, Zenon
    <3> QED
      BY <3>1, <3>2, Zenon
  <2>2. CASE kernel = Down
    BY <1>3, <2>2, KeptStep, Zenon DEF IInv, S!IInv, S!MemoryInv
  <2> QED
    BY <2>1, <2>2, Zenon
<1>4. KernelApplied'
  BY KernelAppliedStep, Zenon
<1> QED
  BY <1>2, <1>3, <1>4, Zenon DEF AppliedInv, KernelApplied

(***************************************************************************)
(* ExitInv.                                                                *)
(***************************************************************************)
\* An exit asked for, or one that is ignored, is not the loop's own message.
LEMMA ExitAsked ==
    ASSUME IInv, NEW c \in ExitCode, DriverExits(c) \/ Signal(c) \/ ExitAgain(c)
    PROVE  /\ UNCHANGED <<proc, inhibit, loop, exit_code, exit_event_num, exitTasks, stopTask,
                          ackedAtExit, waiters, woken>>
           /\ Occurs("shutdown", exitQ') <=> Occurs("shutdown", exitQ)
           /\ Occurs("done", exitQ') <=> Occurs("done", exitQ)
           /\ AtMostOnce({"shutdown"}, exitQ')
<1> DEFINE T == ExitCode \union {"shutdown", "done"}
<1>1. exitQ \in Seq(T) /\ AtMostOnce({"shutdown"}, exitQ)
  BY Zenon DEF IInv, TypeOK, AppTypeOK, ExitInv
<1>2. c \in T /\ c # "shutdown" /\ c # "done"
  BY ExitAssumption, Zenon
<1> HIDE DEF T
<1>3. UNCHANGED <<proc, inhibit, loop, exit_code, exit_event_num, exitTasks, stopTask, ackedAtExit,
                  waiters, woken>>
  BY Zenon DEF DriverExits, Signal, ExitAgain, serfVars, saverVars
<1>4. exitQ' = Append(exitQ, c) \/ (exitQ # <<>> /\ Head(exitQ) = c /\ exitQ' = Tail(exitQ))
  BY Zenon DEF DriverExits, Signal, ExitAgain, TakesExit
<1>5. CASE exitQ' = Append(exitQ, c)
  BY <1>1, <1>2, <1>3, <1>5, Sent
<1>6. CASE exitQ # <<>> /\ Head(exitQ) = c /\ exitQ' = Tail(exitQ)
  <2>1. /\ \A y : Occurs(y, exitQ') => Occurs(y, exitQ)
        /\ \A y : y # c /\ Occurs(y, exitQ) => Occurs(y, exitQ')
        /\ AtMostOnce({"shutdown"}, exitQ')
    BY <1>1, <1>6, Received, Zenon
  <2> QED
    BY <1>2, <1>3, <2>1, Zenon
<1> QED
  BY <1>4, <1>5, <1>6, Zenon

\* handle_exit starts an exit when none has been started.
LEMMA ExitStarts ==
    ASSUME IInv, NEW c \in ExitCode, HandleExit(c)
    PROVE  /\ exit_code = NoExit /\ exit_code' = c /\ c # NoExit
           /\ loop = "select" /\ exitTasks = {} /\ ~inhibit /\ stopTask = "none"
           /\ loop' \in {"select", "wait"} /\ exitTasks' \subseteq {c}
           /\ loop' # "select" => exitTasks' = {}
           /\ UNCHANGED <<proc, inhibit, stopTask, waiters, woken>>
           /\ ~Occurs("shutdown", exitQ') /\ ~Occurs("done", exitQ')
           /\ AtMostOnce({"shutdown"}, exitQ')
<1>1. /\ exit_code = NoExit /\ exit_code' = c /\ c # NoExit
      /\ exitQ # <<>> /\ exitQ' = Tail(exitQ)
      /\ UNCHANGED <<proc, inhibit, stopTask, waiters, woken>>
  BY ExitAssumption, Zenon DEF HandleExit, TakesExit, serfVars, saverVars
<1>2. /\ loop = "select" /\ exitTasks = {} /\ ~inhibit /\ stopTask = "none"
      /\ ~Occurs("shutdown", exitQ) /\ ~Occurs("done", exitQ) /\ AtMostOnce({"shutdown"}, exitQ)
  BY <1>1, Zenon DEF IInv, ExitInv
<1>3. /\ ~Occurs("shutdown", exitQ') /\ ~Occurs("done", exitQ')
      /\ AtMostOnce({"shutdown"}, exitQ')
  <2>1. exitQ \in Seq(ExitCode \union {"shutdown", "done"})
    BY Zenon DEF IInv, TypeOK, AppTypeOK
  <2> QED
    BY <1>1, <1>2, <2>1, Received, Zenon
<1>4. \/ loop' = "wait" /\ exitTasks' = exitTasks
      \/ loop' = loop /\ exitTasks' = exitTasks \union {c}
  BY Zenon DEF HandleExit
<1> QED
  BY <1>1, <1>2, <1>3, <1>4, Zenon

\* An exit is in one place at a time.
LEMMA ExitInvStep == IInv /\ Next => ExitInv'
<1> SUFFICES ASSUME IInv, Next PROVE ExitInv'
  BY Zenon
<1> DEFINE T == ExitCode \union {"shutdown", "done"}
<1>1. ExitInv /\ exitQ \in Seq(T)
  BY Zenon DEF IInv, TypeOK, AppTypeOK
<1>2. "shutdown" \in T /\ "done" \in T
  BY Zenon
<1> HIDE DEF T
<1>3. CASE RequestStep
  BY <1>1, <1>3, RequestFrame DEF exitVars, ExitInv
<1>4. CASE SaveStep
  BY <1>1, <1>4, SaveFrame DEF exitVars, ExitInv
<1>5. ASSUME NEW c \in ExitCode, DriverExits(c) \/ Signal(c) \/ ExitAgain(c) PROVE ExitInv'
  BY <1>1, <1>5, ExitAsked, Zenon DEF ExitInv
<1>6. ASSUME NEW c \in ExitCode, HandleExit(c) PROVE ExitInv'
  <2>1. proc' # "ending"
    BY <1>1, <1>6, ExitStarts, Zenon DEF ExitInv
  <2> QED
    BY <1>6, <2>1, ExitStarts, Zenon DEF ExitInv
<1>7. ASSUME NEW c \in ExitCode, ExitTaskEnds(c) PROVE ExitInv'
  <2>1. /\ c \in exitTasks /\ exitTasks' = exitTasks \ {c} /\ exitQ' = Append(exitQ, "shutdown")
        /\ UNCHANGED <<proc, inhibit, loop, exit_code, stopTask>>
    BY <1>7, Zenon DEF ExitTaskEnds, serfVars
  <2>2. /\ exit_code # NoExit /\ loop = "select" /\ ~Occurs("shutdown", exitQ) /\ ~inhibit
        /\ exitTasks' = {} /\ stopTask = "none" /\ ~Occurs("done", exitQ) /\ proc # "ending"
    BY <1>1, <2>1, Zenon DEF ExitInv
  <2>3. AtMostOnce({"shutdown"}, exitQ') /\ ~Occurs("done", exitQ')
    <3>1. AtMostOnce({"shutdown"}, exitQ)
      BY <1>1, Zenon DEF ExitInv
    <3> QED
      BY <1>1, <1>2, <2>1, <2>2, <3>1, Sent
  <2> QED
    BY <2>1, <2>2, <2>3, Zenon DEF ExitInv
<1>8. CASE ExitWaits
  BY <1>1, <1>8, Zenon DEF ExitWaits, serfVars, ExitInv
<1>9. CASE ExitSaves
  BY <1>1, <1>9, Zenon DEF ExitSaves, serfVars, ExitInv
<1>10. CASE HandleShutdown
  <2>1. /\ exitQ # <<>> /\ Head(exitQ) = "shutdown" /\ exitQ' = Tail(exitQ) /\ inhibit' = TRUE
        /\ UNCHANGED <<proc, loop, exit_code, exitTasks>>
    BY <1>10, Zenon DEF HandleShutdown, TakesExit
  <2>2. Occurs("shutdown", exitQ) /\ ~Occurs("shutdown", exitQ') /\ AtMostOnce({"shutdown"}, exitQ')
    BY <1>1, <2>1, Received, Zenon DEF ExitInv
  <2> QED
    BY <1>1, <2>1, <2>2, Zenon DEF ExitInv
<1>11. CASE StopSends
  BY <1>1, <1>11, Zenon DEF StopSends, ExitInv
<1>12. CASE StopJoins
  <2>1. /\ stopTask = "joining" /\ exitQ' = Append(exitQ, "done")
        /\ UNCHANGED <<proc, inhibit, loop, exit_code, exitTasks>>
    BY <1>12, Zenon DEF StopJoins, serfVars
  <2>2. inhibit /\ AtMostOnce({"shutdown"}, exitQ)
    BY <1>1, <2>1, Zenon DEF ExitInv
  <2>3. (Occurs("shutdown", exitQ') <=> Occurs("shutdown", exitQ)) /\ AtMostOnce({"shutdown"}, exitQ')
    BY <1>1, <1>2, <2>1, <2>2, Sent
  <2> QED
    BY <1>1, <2>1, <2>2, <2>3, Zenon DEF ExitInv
<1>13. CASE HandleDone
  <2>1. /\ exitQ # <<>> /\ Head(exitQ) = "done" /\ exitQ' = Tail(exitQ)
        /\ UNCHANGED <<inhibit, loop, exit_code, exitTasks, stopTask>>
    BY <1>13, Zenon DEF HandleDone, TakesExit, serfVars
  <2>2. /\ Occurs("done", exitQ) /\ (\A y : Occurs(y, exitQ') => Occurs(y, exitQ))
        /\ AtMostOnce({"shutdown"}, exitQ')
    BY <1>1, <2>1, Received, Zenon DEF ExitInv
  <2> QED
    BY <1>1, <2>1, <2>2, Zenon DEF ExitInv
<1>14. CASE SerfStops
  BY <1>1, <1>14, Zenon DEF SerfStops, exitVars, ExitInv
<1>15. CASE Boot
  <2>1. /\ UNCHANGED <<inhibit, exitQ, loop, exitTasks, stopTask>> /\ exit_code' = NoExit
        /\ proc \in {"down", "done"} /\ proc' \in {"up", "down"}
    BY <1>15, BootFrame, Zenon
  <2>2. loop = "select" /\ exitTasks = {} /\ exitQ = <<>> /\ ~inhibit /\ stopTask = "none"
    BY <2>1, Zenon DEF IInv, ProcInv
  <2> QED
    BY <2>1, <2>2, NewChannel, Zenon DEF ExitInv
<1>16. CASE Crash \/ SignalAgain \/ RuntimeDropped
  BY <1>16, EndFrame, NewChannel, Zenon DEF ExitInv
<1> QED
  BY <1>3, <1>4, <1>5, <1>6, <1>7, <1>8, <1>9, <1>10, <1>11, <1>12, <1>13, <1>14, <1>15, <1>16,
     StepKinds, Zenon DEF ExitStep, ProcessStep

(***************************************************************************)
(* SnapshotInv.                                                            *)
(***************************************************************************)
\* The waiters are the exit's, and its shutdown follows its snapshot.
LEMMA SnapshotStep == IInv /\ Next => SnapshotInv'
<1> SUFFICES ASSUME IInv, Next PROVE SnapshotInv'
  BY Zenon
<1> DEFINE Ours == \A x \in waiters \union woken : x = <<exit_event_num, exit_code>> /\ exit_code # NoExit
           Past == Occurs("shutdown", exitQ) \/ inhibit
<1>1. Ours /\ (checkpointing_enabled /\ Past => <<exit_event_num, exit_code>> \in woken)
  BY Zenon DEF IInv, SnapshotInv
<1>2. CASE /\ UNCHANGED <<waiters, woken, exit_event_num, exit_code, checkpointing_enabled>>
           /\ Past' => Past
  BY <1>1, <1>2, Zenon DEF SnapshotInv
<1> HIDE DEF Past, Ours
<1>3. CASE RequestStep
  BY <1>2, <1>3, RequestFrame, Zenon DEF exitVars, fixed, Past
<1>4. CASE SaveStep
  <2>1. UNCHANGED <<exit_event_num, exit_code, checkpointing_enabled, exitQ, inhibit>>
    BY <1>4, SaveFrame, Zenon DEF exitVars
  <2>2. UNCHANGED <<waiters, woken>> \/ S!SaveReturns
    BY <1>4, Zenon DEF SaveStep, SerfCheckpoints, SaveTick, SaveRequests, SaveOpens, SaveWrites, SaveFails,
                       SaveReturns, saverVars, S!Capture, S!OpenFile, S!FileWritten, S!SaveFails,
                       S!saverVars
  <2>3. ASSUME S!SaveReturns
        PROVE  woken \subseteq woken' /\ waiters' \union woken' \subseteq waiters \union woken
    BY <2>3, Zenon DEF S!SaveReturns
  <2> QED
    BY <1>1, <1>2, <2>1, <2>2, <2>3, Zenon DEF Past, Ours, SnapshotInv
<1>5. ASSUME NEW c \in ExitCode, DriverExits(c) \/ Signal(c) \/ ExitAgain(c) PROVE SnapshotInv'
  <2>1. UNCHANGED checkpointing_enabled
    BY <1>5, Zenon DEF DriverExits, Signal, ExitAgain, fixed
  <2> QED
    BY <1>2, <1>5, <2>1, ExitAsked, Zenon DEF Past
<1>6. ASSUME NEW c \in ExitCode, HandleExit(c) PROVE SnapshotInv'
  <2>1. waiters = {} /\ woken = {}
    BY <1>1, <1>6, ExitStarts, Zenon DEF Ours
  <2> QED
    BY <1>6, <2>1, ExitStarts, Zenon DEF SnapshotInv
<1>7. ASSUME NEW c \in ExitCode, ExitTaskEnds(c) PROVE SnapshotInv'
  <2>1. /\ checkpointing_enabled => \E x \in woken : x[2] = c
        /\ UNCHANGED <<waiters, woken, exit_event_num, exit_code, checkpointing_enabled>>
    BY <1>7, Zenon DEF ExitTaskEnds, saverVars, fixed
  <2> QED
    BY <1>1, <2>1, Zenon DEF Ours, SnapshotInv
<1>8. CASE ExitWaits
  <2>1. /\ loop = "wait" /\ S!WaitForSnapshot(exit_code, exit_event_num)
        /\ UNCHANGED <<exitQ, inhibit, exit_code, exit_event_num, checkpointing_enabled>>
    BY <1>8, Zenon DEF ExitWaits, serfVars, fixed
  <2>2. exit_code # NoExit /\ ~Occurs("shutdown", exitQ) /\ ~inhibit
    BY <2>1, Zenon DEF IInv, ExitInv
  <2>3. waiters' \union woken' = waiters \union woken \union {<<exit_event_num, exit_code>>}
    BY <2>1, Zenon DEF S!WaitForSnapshot
  <2> QED
    BY <1>1, <2>1, <2>2, <2>3, Zenon DEF Ours, SnapshotInv
<1>9. CASE ExitSaves \/ StopSends \/ SerfStops
  BY <1>2, <1>9, Zenon DEF ExitSaves, StopSends, SerfStops, saverVars, serfVars, exitVars, fixed, Past
<1>10. CASE HandleShutdown \/ StopJoins \/ HandleDone
  <2>1. UNCHANGED <<waiters, woken, exit_event_num, exit_code, checkpointing_enabled>>
    BY <1>10, Zenon DEF HandleShutdown, StopJoins, HandleDone, saverVars, fixed
  <2>2. Past
    <3>1. exitQ \in Seq(ExitCode \union {"shutdown", "done"})
      BY Zenon DEF IInv, TypeOK, AppTypeOK
    <3>2. \/ exitQ # <<>> /\ Head(exitQ) = "shutdown"
          \/ exitQ # <<>> /\ Head(exitQ) = "done"
          \/ stopTask = "joining"
      BY <1>10, Zenon DEF HandleShutdown, StopJoins, HandleDone, TakesExit
    <3>3. Occurs("shutdown", exitQ) \/ Occurs("done", exitQ) \/ stopTask = "joining"
      BY <3>1, <3>2, Received, Zenon
    <3> QED
      BY <3>3, Zenon DEF IInv, ExitInv, Past
  <2> QED
    BY <1>2, <2>1, <2>2, Zenon
<1>11. CASE Boot
  <2>1. kernel = Down /\ exitQ = <<>> /\ ~inhibit
    BY <1>11, BootFrame, Zenon DEF IInv, ProcInv
  <2>2. waiters = {} /\ woken = {}
    BY <2>1, Zenon DEF IInv, S!IInv, S!MemoryInv
  <2> QED
    BY <1>11, <2>1, <2>2, BootFrame, NewChannel DEF SnapshotInv
<1>12. CASE Crash \/ SignalAgain \/ RuntimeDropped
  BY <1>12, EndFrame, NewChannel, Zenon DEF SnapshotInv
<1> QED
  BY <1>3, <1>4, <1>5, <1>6, <1>7, <1>8, <1>9, <1>10, <1>11, <1>12, StepKinds, Zenon
     DEF ExitStep, ProcessStep

(***************************************************************************)
(* AckedInv and CleanExitIsDurable.                                        *)
(***************************************************************************)
\* No checkpoint is ahead of the kernel; one as recent as it is the kernel's.
LEMMA KeptNotNewer ==
    ASSUME IInv, kernel # Down, NEW c \in Kept, c.event_num >= kernel.event_num
    PROVE  c = kernel
<1>1. S!NotNewer(c, kernel)
  <2>1. CASE c = ckpt /\ ckpt # NoCheckpoint
    BY <2>1, Zenon DEF IInv, S!IInv, S!KernelIsNewest
  <2>2. CASE \E w \in S!WhichSnapshot : S!Loads(w) /\ c = slot[w]
    BY <2>2, Zenon DEF IInv, S!IInv, S!KernelIsNewest
  <2> QED
    BY <2>1, <2>2, Zenon DEF Kept
<1>2. c.event_num \in Nat /\ kernel.event_num \in Nat
  <2>1. c \in S!Checkpoint /\ kernel \in S!Checkpoint
    BY KeptType, Zenon DEF IInv, TypeOK, S!TypeOK
  <2> QED
    BY <2>1, Zenon DEF S!Checkpoint
<1> QED
  BY <1>1, <1>2 DEF S!NotNewer

\* The kernel that an exit sees has what was acked by then.
LEMMA AckedAtStart ==
    ASSUME IInv, checkpointing_enabled, NEW c \in ExitCode, HandleExit(c) PROVE AckedInv'
<1>1. /\ kernel # Down /\ kernel' = kernel /\ UNCHANGED <<slot, ckpt>> /\ exit_code' = c
      /\ exit_event_num' = kernel.event_num
      /\ ackedAtExit' = {p \in Poke : req[p] = "acked"}
  BY Zenon DEF HandleExit, TakesExit, InSelect, Up, saverVars, IInv, ProcInv
<1>2. c # NoExit
  BY ExitAssumption, Zenon
<1>3. ackedAtExit' \subseteq kernel.ker_state
  BY <1>1, Zenon DEF IInv, AppliedInv
<1>4. ackedAtExit' # {} => kernel.event_num > 0
  <2>1. kernel.event_num \in Nat
    BY <1>1, Zenon DEF IInv, TypeOK, S!TypeOK, S!Checkpoint
  <2>2. kernel.event_num = 0 => kernel.ker_state = {}
    BY <1>1, Zenon DEF IInv, AppliedInv, SoundCheckpoint
  <2> QED
    BY <1>3, <2>1, <2>2
<1>5. Kept' = Kept
  BY <1>1, Zenon DEF Kept, S!Loads, S!WhichSnapshot, S!Checkpoint
<1>6. ASSUME NEW d \in Kept, d.event_num >= kernel.event_num
      PROVE  ackedAtExit' \subseteq d.ker_state
  BY <1>1, <1>3, <1>6, KeptNotNewer, Zenon
<1>7. kernel.event_num >= kernel.event_num
  BY <1>1 DEF IInv, TypeOK, S!TypeOK, S!Checkpoint
<1> QED
  BY <1>1, <1>2, <1>3, <1>4, <1>5, <1>6, <1>7, Zenon DEF AckedInv

\* AckedInv is kept by every step.
LEMMA AckedStep == IInv /\ Next => AckedInv'
<1> SUFFICES ASSUME IInv, Next PROVE AckedInv'
  BY Zenon
<1> SUFFICES ASSUME checkpointing_enabled PROVE AckedInv'
  <2>1. UNCHANGED checkpointing_enabled
    BY StepKinds, RequestFrame, SaveFrame, ExitFrame, BootFrame, EndFrame, Zenon DEF ProcessStep, fixed
  <2> QED
    BY <2>1, Zenon DEF AckedInv
<1>1. AckedInv /\ AppTypeOK
  BY Zenon DEF IInv, TypeOK
<1>2. CASE kernel # Down /\ kernel' # Down /\ UNCHANGED <<exit_code, exit_event_num, ackedAtExit>>
  <2>1. ASSUME exit_code # NoExit
        PROVE  /\ kernel'.event_num >= exit_event_num
               /\ ackedAtExit \subseteq kernel'.ker_state
               /\ \A c \in Kept' : c.event_num >= exit_event_num => ackedAtExit \subseteq c.ker_state
    <3>1. /\ kernel.event_num >= exit_event_num
          /\ ackedAtExit \subseteq kernel.ker_state
          /\ \A c \in Kept : c.event_num >= exit_event_num => ackedAtExit \subseteq c.ker_state
      BY <1>1, <1>2, <2>1, Zenon DEF AckedInv
    <3>2. kernel.event_num \in Nat /\ kernel'.event_num \in Nat /\ exit_event_num \in Nat
      <4>1. S!TypeOK /\ S!TypeOK'
        BY TypeStep, Zenon DEF IInv, TypeOK
      <4> QED
        BY <1>1, <1>2, <4>1, Zenon DEF AppTypeOK, S!TypeOK, S!Checkpoint
    <3>3. kernel.ker_state \subseteq kernel'.ker_state /\ kernel.event_num <= kernel'.event_num
      BY <1>2, KernelGrows, Zenon
    <3>4. \A c \in Kept' : c \in Kept \/ c = kernel
      BY KeptStep, Zenon
    <3> QED
      BY <3>1, <3>2, <3>3, <3>4
  <2> QED
    BY <1>1, <1>2, <2>1, Zenon DEF AckedInv
<1>3. CASE kernel' = Down /\ UNCHANGED <<exit_code, exit_event_num, ackedAtExit>>
  BY <1>1, <1>3, Zenon DEF AckedInv
<1>4. CASE Boot
  BY <1>4, BootFrame, Zenon DEF AckedInv
<1>5. CASE Crash \/ SignalAgain \/ RuntimeDropped
  BY <1>3, <1>5, EndFrame, Zenon
<1>6. CASE RequestStep \/ SaveStep \/ ExitStep
  <2>1. kernel # Down /\ kernel' # Down
    <3>1. proc \in {"up", "ending"} /\ proc' \in {"up", "ending"}
      BY <1>6, RequestFrame, SaveFrame, ExitFrame, Zenon DEF Up
    <3> QED
      BY <3>1, ProcStep, Zenon DEF IInv, ProcInv
  <2>2. UNCHANGED <<exit_code, exit_event_num, ackedAtExit>> \/ \E c \in ExitCode : HandleExit(c)
    <3>1. CASE RequestStep \/ SaveStep
      BY <3>1, RequestFrame, SaveFrame, Zenon DEF exitVars
    <3>2. CASE ExitStep
      BY <3>2, Zenon DEF ExitStep, DriverExits, Signal, ExitAgain, ExitTaskEnds, ExitWaits, ExitSaves,
                         HandleShutdown, StopSends, StopJoins, HandleDone, SerfStops, exitVars
    <3> QED
      BY <1>6, <3>1, <3>2, Zenon
  <2> QED
    BY <1>2, <2>1, <2>2, AckedAtStart, Zenon
<1> QED
  BY <1>4, <1>5, <1>6, StepKinds, Zenon DEF ProcessStep

\* The process is done when the serf has been stopped, which follows the
\* snapshot of the exit.
LEMMA CleanExitStep == IInv /\ Next => CleanExitIsDurable'
<1> SUFFICES ASSUME IInv, Next, proc' = "done", checkpointing_enabled'
             PROVE  CleanExitIsDurable'
  BY Zenon DEF CleanExitIsDurable
<1>1. RuntimeDropped
  <2>1. Boot => proc' # "done"
    BY BootFrame, Zenon
  <2>2. Crash \/ SignalAgain => proc' # "done"
    BY Zenon DEF Crash, SignalAgain
  <2>3. RequestStep \/ SaveStep \/ ExitStep => proc' # "done"
    BY RequestFrame, SaveFrame, ExitFrame, Zenon DEF Up
  <2> QED
    BY <2>1, <2>2, <2>3, StepKinds, Zenon DEF ProcessStep
<1>2. /\ proc = "ending" /\ kernel # Down /\ checkpointing_enabled
      /\ UNCHANGED <<slot, exit_event_num, ackedAtExit>>
  BY <1>1, EndFrame, Zenon DEF RuntimeDropped
<1>3. <<exit_event_num, exit_code>> \in woken /\ exit_code # NoExit
  BY <1>2, Zenon DEF IInv, ExitInv, SnapshotInv
<1>4. exit_event_num <= last_event_num
  BY <1>3, Zenon DEF IInv, S!IInv, S!WakeInv
<1>5. exit_event_num \in Nat /\ last_event_num \in Nat
  BY Zenon DEF IInv, TypeOK, AppTypeOK, S!TypeOK
<1>6. ASSUME exit_event_num > 0
      PROVE  /\ S!Stored # NoCheckpoint /\ S!Stored.event_num >= exit_event_num
             /\ ackedAtExit \subseteq S!Stored.ker_state
  <2>1. S!Stored \in S!Checkpoint /\ S!Stored.event_num >= last_event_num
    BY <1>2, <1>4, <1>5, <1>6, StoredCovers DEF IInv
  <2>2. S!Stored.event_num \in Nat
    BY <2>1, Zenon DEF S!Checkpoint
  <2>3. S!Stored # NoCheckpoint /\ S!Stored.event_num >= exit_event_num
    BY <1>4, <1>5, <2>1, <2>2, SaverAssumption
  <2>4. S!Stored \in Kept
    BY <2>3, Zenon DEF Kept, S!Stored, S!LoadedFrom, S!WhichSnapshot
  <2> QED
    BY <1>2, <1>3, <2>3, <2>4, Zenon DEF IInv, AckedInv
<1>7. ackedAtExit # {} => exit_event_num > 0
  BY <1>2, Zenon DEF IInv, AckedInv
<1>8. S!Stored' = S!Stored
  BY <1>2, Zenon DEF S!Stored, S!LoadedFrom, S!Loads, S!Checkpoint
<1> QED
  BY <1>2, <1>6, <1>7, <1>8, Zenon DEF CleanExitIsDurable

(***************************************************************************)
(* The invariant, and what follows from it.                                *)
(***************************************************************************)
\* A NockApp that has never been started satisfies the invariant.
LEMMA NockAppInit == Init => IInv
<1> SUFFICES ASSUME Init PROVE IInv
  BY Zenon
<1>1. S!IInv /\ S!TypeOK
  BY SaverInit, Zenon DEF Init, S!IInv
<1>2. AppTypeOK
  <2>1. req \in [Request -> Pending \union Answered \union {"idle", "past"}]
    BY Zenon DEF Init
  <2>2. \A T : actions \in Seq(T) /\ serfQ \in Seq(T) /\ exitQ \in Seq(T)
    BY NewChannel, Zenon DEF Init
  <2>3. 0 \in Nat /\ 0 \in 0 .. MaxStart /\ 0 \in 0 .. MaxIoError
    BY BoundsAssumption
  <2> QED
    BY <2>1, <2>2, <2>3, Zenon DEF Init, AppTypeOK
<1>3. slot = [w \in {0, 1} |-> Absent] /\ ckpt = NoCheckpoint /\ kernel = Down /\ waiters = {} /\ woken = {}
  BY Zenon DEF Init, S!Init, S!WhichSnapshot
<1>4. ProcInv
  BY <1>3, Zenon DEF Init, ProcInv
<1>5. QueueInv /\ ExitInv
  BY NewChannel, Zenon DEF Init, QueueInv, ExitInv
<1>6. SnapshotInv
  BY <1>3, NewChannel, Zenon DEF Init, SnapshotInv
<1>7. Kept = {}
  BY <1>3, SaverAssumption, Zenon DEF Kept, S!Loads, S!WhichSnapshot
<1>8. AppliedInv /\ AckedInv /\ CleanExitIsDurable
  BY <1>3, <1>7, Zenon DEF Init, AppliedInv, AckedInv, CleanExitIsDurable
<1> QED
  BY <1>1, <1>2, <1>4, <1>5, <1>6, <1>8, Zenon DEF IInv, TypeOK

\* Every step keeps the invariant.
LEMMA NockAppStep == IInv /\ [Next]_vars => IInv'
<1> SUFFICES ASSUME IInv, [Next]_vars PROVE IInv'
  BY Zenon
<1>1. TypeOK' /\ S!IInv'
  BY TypeStep, Zenon
<1>2. CASE Next
  BY <1>1, <1>2, ProcStep, QueueStep, AppliedStep, ExitInvStep, SnapshotStep, AckedStep,
     CleanExitStep, Zenon DEF IInv
<1>3. CASE UNCHANGED vars
  <2>1. /\ UNCHANGED <<slot, waiters, woken, ckpt, kernel, proc, req, actions, serfQ, inhibit>>
        /\ UNCHANGED <<exitQ, loop, exit_code, exit_event_num, exitTasks, stopTask, ackedAtExit,
                       checkpointing_enabled>>
    BY <1>3, Zenon DEF vars, saverVars, serfVars, exitVars, fixed
  <2>2. Kept' = Kept /\ S!Stored' = S!Stored
    BY <2>1, Zenon DEF Kept, S!Stored, S!LoadedFrom, S!Loads, S!WhichSnapshot, S!Checkpoint
  <2>3. ProcInv' /\ QueueInv' /\ ExitInv' /\ SnapshotInv'
    BY <2>1, Zenon DEF IInv, ProcInv, QueueInv, ExitInv, SnapshotInv
  <2>4. AppliedInv' /\ AckedInv' /\ CleanExitIsDurable'
    BY <2>1, <2>2, Zenon DEF IInv, AppliedInv, SoundCheckpoint, AckedInv, CleanExitIsDurable
  <2> QED
    BY <1>1, <2>3, <2>4, Zenon DEF IInv
<1> QED
  BY <1>2, <1>3, Zenon

\* The invariant holds of every run of a NockApp, through crashes and starts.
THEOREM NockAppInvariant == Spec => []IInv
<1>1. Init => IInv
  BY NockAppInit, Zenon
<1>2. IInv /\ [Next]_vars => IInv'
  BY NockAppStep, Zenon
<1> QED
  BY <1>1, <1>2, PTL DEF Spec

\* The event loop, the serf, the tasks and the Saver keep their types.
THEOREM NockAppTypes == Spec => []TypeOK
<1>1. IInv => TypeOK
  BY Zenon DEF IInv
<1> QED
  BY <1>1, NockAppInvariant, PTL

\* An Ack means the poke's event was applied, a Nack or a dropped channel
\* that it was not (the poke's task in handle_action, serf_loop).
THEOREM AnswersAreTrueTheorem == Spec => []AnswersAreTrue
<1>1. IInv => AnswersAreTrue
  BY Zenon DEF IInv, ProcInv, AppliedInv, AnswersAreTrue
<1> QED
  BY <1>1, NockAppInvariant, PTL

\* When run has returned, the next start loads what was acked before the exit
\* (handle_exit, wait_for_snapshot, save).
THEOREM CleanExitIsDurableTheorem == Spec => []CleanExitIsDurable
<1>1. IInv => CleanExitIsDurable
  BY Zenon DEF IInv
<1> QED
  BY <1>1, NockAppInvariant, PTL

\* There is one shutdown, and none once the serf was told to stop
\* (SerfThread::stop takes the join handle).
THEOREM StopOnceTheorem == Spec => []StopOnce
<1>1. IInv => StopOnce
  BY Zenon DEF IInv, ExitInv, StopOnce, Occurs, AtMostOnce
<1> QED
  BY <1>1, NockAppInvariant, PTL

\* A NockApp uses its Saver as the Saver's specification says, so what is
\* proved of the Saver holds of a NockApp.
THEOREM NockAppImplementsSaver == Spec => ImplementsSaver
<1>1. Init => S!Init
  BY Zenon DEF Init
<1>2. IInv /\ [Next]_vars => [S!Next]_(S!vars)
  BY StepIsSaver, Zenon
<1> QED
  BY <1>1, <1>2, NockAppInvariant, PTL DEF Spec, ImplementsSaver, S!Spec
=============================================================================
