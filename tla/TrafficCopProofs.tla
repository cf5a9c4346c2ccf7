-------------------------- MODULE TrafficCopProofs --------------------------
(***************************************************************************)
(* Proofs about the traffic cop, for any peers and callers: its two queues *)
(* are fair queues (so what FairQueueProofs proves holds of both), and the *)
(* one request out of them is the one the task works on.                   *)
(***************************************************************************)
EXTENDS TrafficCop, FairQueueProofs

LowProofs == INSTANCE FairQueueProofs WITH Caller <- Peeker, KeyOf <- PeekKey,
    enqueued <- lEnqueued, keys <- lKeys, got <- lGot, call <- lCall

(***************************************************************************)
(* The low priority queue is a fair queue: its lemmas hold here.           *)
(***************************************************************************)
LEMMA LowAssumption == PeekKey \in [Peeker -> Key] /\ None \notin Peeker /\ None \notin Key
BY PeekAssumption, QueueAssumption

\* The two instances of the queue's invariant are one.
LEMMA LowInvariants == (LowProofs!IInv <=> Low!IInv) /\ (LowProofs!IInv' <=> Low!IInv')
BY DEF LowProofs!IInv, Low!IInv, LowProofs!TypeOK, Low!TypeOK, LowProofs!TurnInv, Low!TurnInv,
       LowProofs!MapInv, Low!MapInv, LowProofs!NoRepeats, Low!NoRepeats, LowProofs!Open, Low!Open,
       LowProofs!Announcing, Low!Announcing, LowProofs!InChannel, Low!InChannel,
       LowProofs!Occurs, Low!Occurs, LowProofs!CallState, Low!CallState

\* A new low queue satisfies the queue's invariant.
LEMMA LowInit == Low!Init => Low!IInv
<1>1. LowProofs!Init => LowProofs!IInv
  BY LowProofs!InitIInv, LowAssumption, Zenon
<1>2. LowProofs!Init <=> Low!Init
  BY DEF LowProofs!Init, Low!Init
<1> QED
  BY <1>1, <1>2, LowInvariants

\* Every step of the low queue keeps it.
LEMMA LowStep == Low!IInv /\ [Low!Next]_(Low!vars) => Low!IInv'
<1>1. LowProofs!IInv /\ [LowProofs!Next]_(LowProofs!vars) => LowProofs!IInv'
  BY LowProofs!NextIInv, LowAssumption, Zenon
<1>2. LowProofs!vars = Low!vars /\ LowProofs!vars' = Low!vars' /\ (LowProofs!Next <=> Low!Next)
  BY DEF LowProofs!vars, Low!vars, LowProofs!Next, Low!Next, LowProofs!Insert, Low!Insert,
         LowProofs!Announce, Low!Announce, LowProofs!SendError, Low!SendError,
         LowProofs!Return, Low!Return, LowProofs!RecvKey, Low!RecvKey, LowProofs!Remove, Low!Remove,
         LowProofs!DropReceiver, Low!DropReceiver, LowProofs!Open, Low!Open,
         LowProofs!Replaced, Low!Replaced
<1> QED
  BY <1>1, <1>2, LowInvariants

(***************************************************************************)
(* Every step of the task or a caller is a step of each queue, or none.    *)
(***************************************************************************)
\* The task answers the caller whose request it took.
LEMMA WhoIsCaller ==
    ASSUME TakenIsHandled, alive
    PROVE  /\ at \in {"enable", "poke"} => who \in Caller
           /\ at = "peek" => who \in Peeker
BY DEF TakenIsHandled

\* The high priority queue.
LEMMA StepIsHigh == CopIInv /\ [CopNext]_copVars => [Next]_vars
<1> SUFFICES ASSUME CopIInv, [CopNext]_copVars PROVE Next \/ UNCHANGED vars
  OBVIOUS
<1>1. CASE \E c \in Caller : PokeHighPriority(c) \/ PokeReturnsError(c)
  BY <1>1, Zenon DEF PokeHighPriority, PokeReturnsError, Next
<1>2. CASE \E c \in Peeker : Peek(c) \/ PeekReturnsError(c)
  BY <1>2, Zenon DEF Peek, PeekReturnsError, Low!Insert, Low!Announce, Low!SendError, Low!Return,
                     high, vars
<1>3. CASE SelectHigh \/ RecvHigh \/ TaskDropped
  BY <1>3, Zenon DEF SelectHigh, RecvHigh, TaskDropped, Next
<1>4. CASE SelectLow \/ RecvLow \/ PeekDone \/ Enabled
  BY <1>4, Zenon DEF SelectLow, RecvLow, PeekDone, Enabled, Low!RecvKey, Low!Remove, Low!Return, high, vars
<1>5. CASE Disabled \/ PokeDone
  <2>1. alive /\ at \in {"enable", "poke"} /\ Return(who)
    BY <1>5 DEF Disabled, PokeDone
  <2>2. who \in Caller
    BY <2>1, WhoIsCaller DEF CopIInv
  <2> QED
    BY <2>1, <2>2, Zenon DEF Next
<1>6. CASE UNCHANGED copVars
  BY <1>6, Zenon DEF copVars, high, vars
<1> QED
  BY <1>1, <1>2, <1>3, <1>4, <1>5, <1>6, Zenon DEF CopNext, TaskSteps

\* The low priority queue.
LEMMA StepIsLow == CopIInv /\ [CopNext]_copVars => [Low!Next]_(Low!vars)
<1> SUFFICES ASSUME CopIInv, [CopNext]_copVars PROVE Low!Next \/ UNCHANGED Low!vars
  OBVIOUS
<1>1. CASE \E c \in Peeker : Peek(c) \/ PeekReturnsError(c)
  BY <1>1, Zenon DEF Peek, PeekReturnsError, Low!Next
<1>2. CASE \E c \in Caller : PokeHighPriority(c) \/ PokeReturnsError(c)
  BY <1>2, Zenon DEF PokeHighPriority, PokeReturnsError, Insert, Announce, SendError, Return,
                     low, Low!vars
<1>3. CASE SelectLow \/ RecvLow
  BY <1>3, Zenon DEF SelectLow, RecvLow, Low!Next
<1>4. CASE SelectHigh \/ RecvHigh \/ PokeDone \/ Disabled \/ Enabled
  BY <1>4, Zenon DEF SelectHigh, RecvHigh, PokeDone, Disabled, Enabled, RecvKey, Remove, Return,
                     low, Low!vars
<1>5. CASE PeekDone
  <2>1. alive /\ at = "peek" /\ Low!Return(who)
    BY <1>5 DEF PeekDone
  <2>2. who \in Peeker
    BY <2>1, WhoIsCaller DEF CopIInv
  <2> QED
    BY <2>1, <2>2, Zenon DEF Low!Next
<1>6. CASE TaskDropped
  BY <1>6, Zenon DEF TaskDropped, DropReceiver, Low!DropReceiver, Low!Next
<1>7. CASE UNCHANGED copVars
  BY <1>7, Zenon DEF copVars, low, Low!vars
<1> QED
  BY <1>1, <1>2, <1>3, <1>4, <1>5, <1>6, <1>7, Zenon DEF CopNext, TaskSteps

(***************************************************************************)
(* The request in hand.                                                    *)
(***************************************************************************)
TakenHigh == {c \in Caller : call[c] = "taken"}
TakenLow == {c \in Peeker : lCall[c] = "taken"}

\* What a step does to the requests out of the high queue: recv takes one,
\* an answer gives one back, nothing else touches them.
LEMMA HighTaken ==
    ASSUME IInv
    PROVE  /\ \A c \in Caller : Insert(c) \/ Announce(c) \/ SendError(c) => TakenHigh' = TakenHigh
           /\ \A c \in Caller : Return(c) => TakenHigh' = TakenHigh \ {c}
           /\ Remove => enqueued[got] \in Caller /\ TakenHigh' = TakenHigh \union {enqueued[got]}
<1>1. call \in [Caller -> CallState] /\ enqueued \in [Key -> Caller \union {None}] /\ got \in Key \union {None}
  BY DEF IInv, TypeOK
<1>2. ASSUME NEW c \in Caller, Insert(c) PROVE TakenHigh' = TakenHigh
  BY <1>1, <1>2 DEF Insert, Open, Replaced, TakenHigh
<1>3. ASSUME NEW c \in Caller, Announce(c) \/ SendError(c) PROVE TakenHigh' = TakenHigh
  BY <1>1, <1>3 DEF Announce, SendError, TakenHigh
<1>4. ASSUME NEW c \in Caller, Return(c) PROVE TakenHigh' = TakenHigh \ {c}
  BY <1>1, <1>4 DEF Return, TakenHigh
<1>5. ASSUME Remove
      PROVE  enqueued[got] \in Caller /\ TakenHigh' = TakenHigh \union {enqueued[got]}
  BY <1>1, <1>5 DEF Remove, TakenHigh
<1> QED
  BY <1>2, <1>3, <1>4, <1>5

\* The same for the low queue.
LEMMA LowTaken ==
    ASSUME Low!IInv
    PROVE  /\ \A c \in Peeker : Low!Insert(c) \/ Low!Announce(c) \/ Low!SendError(c) => TakenLow' = TakenLow
           /\ \A c \in Peeker : Low!Return(c) => TakenLow' = TakenLow \ {c}
           /\ Low!Remove => lEnqueued[lGot] \in Peeker /\ TakenLow' = TakenLow \union {lEnqueued[lGot]}
<1>1. /\ lCall \in [Peeker -> Low!CallState] /\ lEnqueued \in [Key -> Peeker \union {None}]
      /\ lGot \in Key \union {None}
  BY DEF Low!IInv, Low!TypeOK
<1>2. ASSUME NEW c \in Peeker, Low!Insert(c) PROVE TakenLow' = TakenLow
  BY <1>1, <1>2 DEF Low!Insert, Low!Open, Low!Replaced, TakenLow
<1>3. ASSUME NEW c \in Peeker, Low!Announce(c) \/ Low!SendError(c) PROVE TakenLow' = TakenLow
  BY <1>1, <1>3 DEF Low!Announce, Low!SendError, TakenLow
<1>4. ASSUME NEW c \in Peeker, Low!Return(c) PROVE TakenLow' = TakenLow \ {c}
  BY <1>1, <1>4 DEF Low!Return, TakenLow
<1>5. ASSUME Low!Remove
      PROVE  lEnqueued[lGot] \in Peeker /\ TakenLow' = TakenLow \union {lEnqueued[lGot]}
  BY <1>1, <1>5 DEF Low!Remove, TakenLow
<1> QED
  BY <1>2, <1>3, <1>4, <1>5

\* Every step keeps the task and the requests out of the queues in agreement.
LEMMA HandStep == CopIInv /\ [CopNext]_copVars => OneInHand' /\ TakenIsHandled'
<1> SUFFICES ASSUME CopIInv, [CopNext]_copVars PROVE OneInHand' /\ TakenIsHandled'
  OBVIOUS
<1>1. IInv /\ Low!IInv /\ OneInHand /\ (got # None \/ lGot # None => alive)
  BY DEF CopIInv, IInv, MapInv, Low!IInv, Low!MapInv
<1>2. alive => /\ TakenHigh = IF at \in {"enable", "poke"} THEN {who} ELSE {}
               /\ TakenLow = IF at = "peek" THEN {who} ELSE {}
  BY DEF CopIInv, TakenIsHandled, TakenHigh, TakenLow
<1> DEFINE Handled == alive => /\ TakenHigh = IF at \in {"enable", "poke"} THEN {who} ELSE {}
                               /\ TakenLow = IF at = "peek" THEN {who} ELSE {}
<1> SUFFICES OneInHand' /\ Handled'
  BY DEF TakenIsHandled, TakenHigh, TakenLow
<1>3. ASSUME NEW c \in Caller, PokeHighPriority(c) PROVE OneInHand' /\ Handled'
  <2>1. UNCHANGED <<got, alive, at, who, lGot, lCall>> /\ TakenHigh' = TakenHigh
    <3>1. UNCHANGED <<got, alive, at, who, lGot, lCall>>
      BY <1>3, Zenon DEF PokeHighPriority, Insert, Announce, SendError, low, task
    <3>2. Insert(c) \/ Announce(c) \/ SendError(c)
      BY <1>3, Zenon DEF PokeHighPriority
    <3> QED
      BY <1>1, <3>1, <3>2, HighTaken
  <2> QED
    BY <1>1, <1>2, <2>1 DEF OneInHand, TakenLow
<1>4. ASSUME NEW c \in Peeker, Peek(c) PROVE OneInHand' /\ Handled'
  <2>1. UNCHANGED <<lGot, alive, at, who, got, call>> /\ TakenLow' = TakenLow
    <3>1. UNCHANGED <<lGot, alive, at, who, got, call>>
      BY <1>4, Zenon DEF Peek, Low!Insert, Low!Announce, Low!SendError, high, task
    <3>2. Low!Insert(c) \/ Low!Announce(c) \/ Low!SendError(c)
      BY <1>4, Zenon DEF Peek
    <3> QED
      BY <1>1, <3>1, <3>2, LowTaken
  <2> QED
    BY <1>1, <1>2, <2>1 DEF OneInHand, TakenHigh
<1>5. ASSUME NEW c \in Caller, PokeReturnsError(c) PROVE OneInHand' /\ Handled'
  <2>1. UNCHANGED <<got, alive, at, who, lGot, lCall>> /\ Return(c) /\ (alive => c \notin TakenHigh)
    BY <1>5 DEF PokeReturnsError, Return, low, task, TakenHigh
  <2>2. TakenHigh' = TakenHigh \ {c}
    BY <1>1, <2>1, HighTaken
  <2> QED
    BY <1>1, <1>2, <2>1, <2>2 DEF OneInHand, TakenLow
<1>6. ASSUME NEW c \in Peeker, PeekReturnsError(c) PROVE OneInHand' /\ Handled'
  <2>1. UNCHANGED <<lGot, alive, at, who, got, call>> /\ Low!Return(c) /\ (alive => c \notin TakenLow)
    BY <1>6 DEF PeekReturnsError, Low!Return, high, task, TakenLow
  <2>2. TakenLow' = TakenLow \ {c}
    BY <1>1, <2>1, LowTaken
  <2> QED
    BY <1>1, <1>2, <2>1, <2>2 DEF OneInHand, TakenHigh
<1>7. CASE SelectHigh
  <2>1. UNCHANGED <<call, alive, at, who, lGot, lCall>> /\ at = "select" /\ lGot = None
    BY <1>7 DEF SelectHigh, Idle, RecvKey, low, task
  <2> QED
    BY <1>2, <2>1 DEF OneInHand, TakenHigh, TakenLow
<1>8. CASE SelectLow
  <2>1. UNCHANGED <<call, alive, at, who, got, lCall>> /\ at = "select" /\ got = None
    BY <1>8 DEF SelectLow, Idle, Low!RecvKey, high, task
  <2> QED
    BY <1>2, <2>1 DEF OneInHand, TakenHigh, TakenLow
<1>9. CASE RecvHigh
  <2>1. /\ got # None /\ got' = None /\ UNCHANGED <<alive, lGot, lCall>> /\ Remove
        /\ at' = "enable" /\ who' = enqueued[got]
    BY <1>9 DEF RecvHigh, Remove, low
  <2>2. at = "select" /\ lGot = None
    BY <1>1, <2>1 DEF OneInHand
  <2>3. TakenHigh' = TakenHigh \union {enqueued[got]}
    BY <1>1, <2>1, HighTaken
  <2> QED
    BY <1>2, <2>1, <2>2, <2>3 DEF OneInHand, TakenLow
<1>10. CASE RecvLow
  <2>1. /\ lGot # None /\ lGot' = None /\ UNCHANGED <<alive, got, call>> /\ Low!Remove
        /\ at' = "peek" /\ who' = lEnqueued[lGot]
    BY <1>10 DEF RecvLow, Low!Remove, high
  <2>2. at = "select" /\ got = None
    BY <1>1, <2>1 DEF OneInHand
  <2>3. TakenLow' = TakenLow \union {lEnqueued[lGot]}
    BY <1>1, <2>1, LowTaken
  <2> QED
    BY <1>2, <2>1, <2>2, <2>3 DEF OneInHand, TakenHigh
<1>11. CASE Enabled
  <2>1. UNCHANGED <<got, call, lGot, lCall, alive, who>> /\ at = "enable" /\ at' = "poke"
    BY <1>11 DEF Enabled, high, low
  <2> QED
    BY <1>1, <1>2, <2>1 DEF OneInHand, TakenHigh, TakenLow
<1>12. CASE Disabled \/ PokeDone
  <2>1. /\ UNCHANGED <<got, alive, lGot, lCall>> /\ Return(who) /\ alive
        /\ at \in {"enable", "poke"} /\ at' = "select"
    BY <1>12 DEF Disabled, PokeDone, Return, low
  <2>2. who \in Caller /\ TakenHigh' = TakenHigh \ {who}
    BY <1>1, <2>1, HighTaken, WhoIsCaller DEF CopIInv
  <2> QED
    BY <1>1, <1>2, <2>1, <2>2 DEF OneInHand, TakenLow
<1>13. CASE PeekDone
  <2>1. /\ UNCHANGED <<lGot, alive, got, call>> /\ Low!Return(who) /\ alive
        /\ at = "peek" /\ at' = "select"
    BY <1>13 DEF PeekDone, Low!Return, high
  <2>2. who \in Peeker /\ TakenLow' = TakenLow \ {who}
    BY <1>1, <2>1, LowTaken, WhoIsCaller DEF CopIInv
  <2> QED
    BY <1>1, <1>2, <2>1, <2>2 DEF OneInHand, TakenHigh
<1>14. CASE TaskDropped
  <2>1. UNCHANGED <<got, lGot, at>> /\ alive' = FALSE
    BY <1>14 DEF TaskDropped, DropReceiver, task
  <2> QED
    BY <1>1, <2>1 DEF OneInHand
<1>15. CASE UNCHANGED copVars
  <2>1. UNCHANGED <<got, call, lGot, lCall, alive, at, who>>
    BY <1>15 DEF copVars, high, low, task
  <2> QED
    BY <1>1, <1>2, <2>1 DEF OneInHand, TakenHigh, TakenLow
<1> QED
  BY <1>3, <1>4, <1>5, <1>6, <1>7, <1>8, <1>9, <1>10, <1>11, <1>12, <1>13, <1>14, <1>15, Zenon
     DEF CopNext, TaskSteps

(***************************************************************************)
(* The theorems.                                                           *)
(***************************************************************************)
\* The invariants of the two queues and of the task hold in every run of the
\* traffic cop, for any number of peers, pokes and peeks (traffic_cop_task).
THEOREM TrafficCopInvariant == CopSpec => []CopIInv
<1>1. CopInit => CopIInv
  BY InitIInv, LowInit DEF CopInit, CopIInv, OneInHand, TakenIsHandled, Init, Low!Init
<1>2. CopIInv /\ [CopNext]_copVars => CopIInv'
  BY StepIsHigh, StepIsLow, NextIInv, LowStep, HandStep, Zenon DEF CopIInv
<1> QED
  BY <1>1, <1>2, PTL DEF CopSpec

\* At most one request is out of the two queues, the one the task works on:
\* the result of a kernel call goes to the caller that asked for it.
THEOREM TakenIsHandledTheorem == CopSpec => []TakenIsHandled
<1>1. CopIInv => TakenIsHandled
  BY DEF CopIInv
<1> QED
  BY <1>1, TrafficCopInvariant, PTL

\* The traffic cop drives both queues as the fair queue's specification says,
\* so a key it receives has its request in either queue, one turn per peer.
THEOREM TrafficCopImplementsQueues == CopSpec => Spec /\ Low!Spec
<1>1. CopInit => Init /\ Low!Init
  BY DEF CopInit
<1> QED
  BY <1>1, StepIsHigh, StepIsLow, TrafficCopInvariant, PTL DEF CopSpec, Spec, Low!Spec

\* With the queue's own theorem: a poke's mailbox per peer is what the callers
\* of poke_high_priority see.
THEOREM TrafficCopImplementsMailbox == CopSpec => ImplementsMailbox
BY TrafficCopImplementsQueues, FairQueueImplementsMailbox, PTL
=============================================================================
