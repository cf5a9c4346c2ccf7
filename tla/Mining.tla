------------------------------- MODULE Mining -------------------------------
(***************************************************************************)
(* The mining driver (create_mining_driver in mining.rs): a loop that      *)
(* takes %mine effects and the results of mining attempts, one attempt per *)
(* serf thread, and the cancel token of each thread.                       *)
(*                                                                         *)
(* A candidate block is the number of its commitment: the kernel makes a   *)
(* new one for a new heaviest block and when the timestamp has grown old.  *)
(* The effects of a poke are broadcast by the task of that poke, after its *)
(* ack, so those of two pokes may be broadcast in either order; the        *)
(* broadcast drops its oldest effect when it is full.                      *)
(***************************************************************************)
EXTENDS Naturals, Sequences

CONSTANTS
    Thread,        \* the mining threads
    MaxCandidate,  \* bound on the candidates of a behaviour
    Capacity       \* of the broadcast channel

Other == 0  \* an effect that is not %mine

VARIABLES
    candidate,     \* candidate-block.m of the kernel, 0 before there is one
    emitting,      \* candidates whose %mine effect is not broadcast yet
    effects,       \* what the driver has not taken from the broadcast
    sent,          \* the last candidate that was broadcast
    lost,          \* whether the broadcast dropped it
    mining_data,   \* the candidate the driver knows, 0 for none
    thread,        \* what each thread does, for which candidate
    driver         \* "select", "panicked", or the thread whose proof it pokes with

vars == <<candidate, emitting, effects, sent, lost, mining_data, thread, driver>>

Init ==
    /\ candidate = 0 /\ emitting = {}
    /\ effects = <<>> /\ sent = 0 /\ lost = FALSE
    /\ mining_data = 0
    /\ thread = [t \in Thread |-> [at |-> "none", header |-> 0, cancelled |-> FALSE]]
    /\ driver = "select"

(***************************************************************************)
(* The main kernel.                                                        *)
(***************************************************************************)
\* do-mine at %born and after a new heaviest block, update-candidate-block
\* after a poke.
NewCandidate ==
    /\ candidate < MaxCandidate
    /\ candidate' = candidate + 1
    /\ emitting' = emitting \union {candidate + 1}

Refresh ==
    /\ NewCandidate
    /\ UNCHANGED <<effects, sent, lost, mining_data, thread, driver>>

\* The task of a poke broadcasts.
Send(e) ==
    IF Len(effects) < Capacity
    THEN effects' = Append(effects, e) /\ lost' = (lost /\ e = Other)
    ELSE /\ effects' = Append(Tail(effects), e)
         /\ lost' = (e = Other /\ (lost \/ Head(effects) = sent))

Broadcast(c) ==
    /\ c \in emitting
    /\ emitting' = emitting \ {c}
    /\ Send(c)
    /\ sent' = c
    /\ UNCHANGED <<candidate, mining_data, thread, driver>>

BroadcastOther ==
    /\ Send(Other)
    /\ UNCHANGED <<candidate, emitting, sent, mining_data, thread, driver>>

(***************************************************************************)
(* The threads.                                                            *)
(***************************************************************************)
Moves(t, from, to) ==
    /\ thread[t].at = from
    /\ thread' = [thread EXCEPT ![t].at = to, ![t].cancelled = FALSE]
    /\ UNCHANGED <<candidate, emitting, effects, sent, lost, mining_data, driver>>

\* The serf takes the poke and runs it: it can be cancelled.
Starts(t) == Moves(t, "queued", "mining")

\* An attempt ends, with a proof or without; a cancelled one is interrupted,
\* unless it ends first, and the kernel is told by a second poke, the %crud.
Ends(t) ==
    \/ thread[t].header < MaxCandidate /\ Moves(t, "mining", "found")
    \/ Moves(t, "mining", "retry")
    \/ thread[t].cancelled /\ Moves(t, "mining", "crud")

\* The %crud gives no effects; a %crud that is cancelled is an error.
CrudEnds(t) ==
    \/ Moves(t, "crud", "retry")
    \/ thread[t].cancelled /\ Moves(t, "crud", "failed")

\* NockCancelToken::cancel: of a thread that runs nothing it does nothing.
Cancelled(th) == IF th.at \in {"mining", "crud"} THEN [th EXCEPT !.cancelled = TRUE] ELSE th

(***************************************************************************)
(* The driver's loop.                                                      *)
(***************************************************************************)
\* Mutant: the attempt goes on with the header it had.
AttemptAgain(th, c) == [at |-> "queued", header |-> th.header, cancelled |-> FALSE]

\* start_mining_attempt
Attempt(th, c) == [at |-> "queued", header |-> c, cancelled |-> FALSE]

\* mining_attempts.is_empty()
NotStarted == \A t \in Thread : thread[t].at = "none"

\* next_effect: a %mine effect starts the threads or cancels their attempts.
TakeEffect ==
    /\ driver = "select"
    /\ effects # <<>>
    /\ effects' = Tail(effects)
    /\ IF Head(effects) = Other
       THEN UNCHANGED <<mining_data, thread>>
       ELSE /\ mining_data' = Head(effects)
            /\ thread' = [t \in Thread |->
                 IF NotStarted THEN [at |-> "queued", header |-> Head(effects), cancelled |-> FALSE]
                 ELSE Cancelled(thread[t])]
    /\ UNCHANGED <<candidate, emitting, sent, lost, driver>>

\* join_next: the next attempt of the thread starts, a proof is poked with
\* first, and an error is not expected.
JoinNext(t) ==
    /\ driver = "select"
    /\ \/ /\ thread[t].at = "retry"
          /\ thread' = [thread EXCEPT ![t] = Attempt(@, mining_data)]
          /\ UNCHANGED driver
       \/ /\ thread[t].at = "found"
          /\ driver' = t
          /\ UNCHANGED thread
       \/ /\ thread[t].at = "failed"
          /\ driver' = "panicked"
          /\ UNCHANGED thread
    /\ UNCHANGED <<candidate, emitting, effects, sent, lost, mining_data>>

\* The poke with a proof is handled: do-pow makes a block of the candidate it
\* is for, which is the new heaviest; the next attempt starts.
Poked(t) ==
    /\ driver = t
    /\ driver' = "select"
    /\ thread' = [thread EXCEPT ![t] = Attempt(@, mining_data)]
    /\ IF thread[t].header = candidate THEN NewCandidate ELSE UNCHANGED <<candidate, emitting>>
    /\ UNCHANGED <<effects, sent, lost, mining_data>>

Next ==
    \/ Refresh \/ BroadcastOther \/ TakeEffect
    \/ \E c \in emitting : Broadcast(c)
    \/ \E t \in Thread : Starts(t) \/ Ends(t) \/ CrudEnds(t) \/ JoinNext(t) \/ Poked(t)

\* An attempt ends by itself: it tries one nonce.  The loop's select! is fair
\* to its two branches, and join_next to the attempts that have ended.
Fairness ==
    /\ WF_vars(\E c \in emitting : Broadcast(c))
    /\ SF_vars(TakeEffect)
    /\ \A t \in Thread :
          /\ WF_vars(Starts(t)) /\ WF_vars(Ends(t)) /\ WF_vars(CrudEnds(t))
          /\ WF_vars(Poked(t)) /\ SF_vars(JoinNext(t))

Spec == Init /\ [][Next]_vars /\ Fairness

(***************************************************************************)
(* Properties.                                                             *)
(***************************************************************************)
\* When the kernel's candidate stays the same every thread comes to work on
\* it, although a cancel that meets a thread between two attempts is lost;
\* but not if the driver has panicked, nor if the %mine effect of an older
\* candidate was broadcast after it or the broadcast dropped it unread.
CandidateIsMined ==
    []<>(\/ driver = "panicked" \/ sent # candidate \/ lost
         \/ \A t \in Thread : thread[t].header = candidate)
=============================================================================
