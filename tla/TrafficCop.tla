----------------------------- MODULE TrafficCop -----------------------------
(***************************************************************************)
(* The traffic cop of the libp2p driver (traffic_cop.rs): one task through *)
(* which all pokes and peeks of the driver reach the kernel, one at a      *)
(* time, fed by two fair queues.  Pokes go to the high priority queue,     *)
(* peeks to the low priority one; the select of the task is biased, so it  *)
(* looks at the low queue only when the high one is empty.                 *)
(*                                                                         *)
(* The kernel is only what the task sees of it: poke_timeout and peek      *)
(* return.  The enable future of a poke is a choice; what it reads is the  *)
(* business of P2PState.                                                   *)
(***************************************************************************)
EXTENDS FairQueue

CONSTANTS
    Peeker,  \* callers of peek; the callers of poke_high_priority are Caller
    PeekKey  \* the peer a peeking caller acts for

ASSUME PeekAssumption == PeekKey \in [Peeker -> Key] /\ None \notin Peeker

VARIABLES
    lEnqueued, lKeys, lGot, lCall,  \* the low priority queue
    at,     \* where the task is: "select", "enable", "poke" or "peek"
    who     \* whose action it handles, or None

\* The high priority queue is the one of the module extended; the task is the
\* receiver of both, so alive says that it runs.
high == <<enqueued, keys, got, call>>
low == <<lEnqueued, lKeys, lGot, lCall>>
task == <<at, who>>
copVars == <<high, low, alive, task>>

Low == INSTANCE FairQueue WITH Caller <- Peeker, KeyOf <- PeekKey,
    enqueued <- lEnqueued, keys <- lKeys, got <- lGot, call <- lCall

CopInit ==
    /\ Init
    /\ Low!Init
    /\ at = "select"
    /\ who = None

(***************************************************************************)
(* The callers.                                                            *)
(***************************************************************************)
\* poke_high_priority, up to result_rx.await
PokeHighPriority(c) ==
    /\ Insert(c) \/ Announce(c) \/ SendError(c)
    /\ UNCHANGED <<low, task>>

\* peek, up to result_rx.await
Peek(c) ==
    /\ Low!Insert(c) \/ Low!Announce(c) \/ Low!SendError(c)
    /\ UNCHANGED <<high, task>>

\* result_rx.await ends with an error: the request was replaced, or taken by
\* a task that is no more, or was never sent.
PokeReturnsError(c) ==
    /\ call[c] \in {"lost", "failed"} \/ ~alive
    /\ Return(c)
    /\ UNCHANGED <<low, task>>

PeekReturnsError(c) ==
    /\ lCall[c] \in {"lost", "failed"} \/ ~alive
    /\ Low!Return(c)
    /\ UNCHANGED <<high, task>>

(***************************************************************************)
(* traffic_cop_task.                                                       *)
(***************************************************************************)
\* Mutant: the select goes on while a poke or a peek is in the kernel.
IdleEarly == alive /\ got = None /\ lGot = None

Idle == alive /\ at = "select" /\ got = None /\ lGot = None

\* Mutant: the high branch cancels a low recv that already holds its key.
SelectHighCancels ==
    /\ at = "select" /\ got = None
    /\ RecvKey
    /\ lGot' = None
    /\ UNCHANGED <<lEnqueued, lKeys, lCall, task>>

\* The first branch of the biased select: a key is in the high queue.
SelectHigh ==
    /\ Idle
    /\ RecvKey
    /\ UNCHANGED <<low, task>>

\* The second branch, polled when the first is pending.
SelectLow ==
    /\ Idle
    /\ keys = <<>>
    /\ Low!RecvKey
    /\ UNCHANGED <<high, task>>

RecvHigh ==
    /\ Remove
    /\ at' = "enable"
    /\ who' = enqueued[got]
    /\ UNCHANGED low

RecvLow ==
    /\ Low!Remove
    /\ at' = "peek"
    /\ who' = lEnqueued[lGot]
    /\ UNCHANGED high

\* enable.await says yes.
Enabled ==
    /\ alive /\ at = "enable"
    /\ at' = "poke"
    /\ UNCHANGED <<high, low, alive, who>>

\* Mutant: a poke that is not enabled gives its key another turn.
DisabledRequeues ==
    /\ alive /\ at = "enable"
    /\ at' = "select"
    /\ who' = None
    /\ keys' = Append(keys, KeyOf[who])
    /\ call' = [call EXCEPT ![who] = "idle"]
    /\ UNCHANGED <<enqueued, got, alive, low>>

\* enable.await says no: the poke is answered with a Nack.
Disabled ==
    /\ alive /\ at = "enable"
    /\ at' = "select"
    /\ who' = None
    /\ Return(who)
    /\ UNCHANGED low

\* handle.poke_timeout returns and its result is sent on.
PokeDone ==
    /\ alive /\ at = "poke"
    /\ at' = "select"
    /\ who' = None
    /\ Return(who)
    /\ UNCHANGED low

\* handle.peek returns and its result is sent on.
PeekDone ==
    /\ alive /\ at = "peek"
    /\ at' = "select"
    /\ who' = None
    /\ Low!Return(who)
    /\ UNCHANGED high

\* The task is dropped with the driver's join set, at any await.
TaskDropped ==
    /\ DropReceiver
    /\ lGot = None
    /\ lKeys' = <<>>
    /\ UNCHANGED <<lEnqueued, lGot, lCall, task>>

TaskSteps ==
    \/ SelectHigh \/ SelectLow \/ RecvHigh \/ RecvLow
    \/ Enabled \/ Disabled \/ PokeDone \/ PeekDone

CopNext ==
    \/ \E c \in Caller : PokeHighPriority(c) \/ PokeReturnsError(c)
    \/ \E c \in Peeker : Peek(c) \/ PeekReturnsError(c)
    \/ TaskSteps
    \/ TaskDropped

\* The threads inside send run on; the task takes its next step (the kernel
\* ends every poke, by the timeout if need be, and every peek).
CopFairness ==
    /\ \A c \in Caller : WF_copVars(Announce(c) /\ UNCHANGED <<low, task>>)
    /\ \A c \in Peeker : WF_copVars(Low!Announce(c) /\ UNCHANGED <<high, task>>)
    /\ WF_copVars(TaskSteps)

CopSpec == CopInit /\ [][CopNext]_copVars /\ CopFairness

(***************************************************************************)
(* Properties.                                                             *)
(***************************************************************************)
\* A poke is answered however many other pokes and peeks keep coming: a peer
\* that floods the driver has one turn in the queue like any other.
PokesAreAnswered ==
    \A c \in Caller : Open(c) ~> (call[c] = "idle" \/ call[c] = "lost" \/ ~alive)

\* A peek is answered, unless the high queue has keys in it again and again:
\* the select prefers them, so a steady flow of pokes can starve a peek.
PeeksAreAnswered ==
    \A c \in Peeker :
        \/ Low!Open(c) ~> (lCall[c] = "idle" \/ lCall[c] = "lost" \/ ~alive)
        \/ []<>(keys # <<>>)

\* At most one request is out of the queues: the one the task works on.
\* The result of the kernel call therefore goes to the caller that asked.
TakenIsHandled ==
    alive =>
        /\ {c \in Caller : call[c] = "taken"} =
              IF at \in {"enable", "poke"} THEN {who} ELSE {}
        /\ {c \in Peeker : lCall[c] = "taken"} =
              IF at = "peek" THEN {who} ELSE {}

(***************************************************************************)
(* The invariant that makes TakenIsHandled inductive.                      *)
(***************************************************************************)
\* While recv of one queue holds a key, the task handles nothing and the
\* recv of the other queue holds none.
OneInHand ==
    /\ at \in {"select", "enable", "poke", "peek"}
    /\ got # None => at = "select" /\ lGot = None
    /\ lGot # None => at = "select"

CopIInv == IInv /\ Low!IInv /\ OneInHand /\ TakenIsHandled
=============================================================================
