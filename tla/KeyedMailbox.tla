---------------------------- MODULE KeyedMailbox ----------------------------
(***************************************************************************)
(* What a key_fair_queue promises its callers: one mailbox per key.  A     *)
(* caller puts its request into the mailbox of its key and takes out the   *)
(* one that was there, whose caller is told at once.  The receiver empties *)
(* one mailbox at a time.  Once the receiver is gone a put may fail.       *)
(***************************************************************************)
CONSTANTS
    Caller,  \* the concurrent users of the senders, one open call each
    Key,     \* the keys (one peer each, in the libp2p driver)
    KeyOf,   \* the key a caller sends under
    None     \* an empty mailbox

VARIABLES
    box,   \* [Key -> Caller or None]: whose request is in the mailbox
    call,  \* [Caller -> state of its call]
    open   \* the receiver is alive

vars == <<box, call, open>>

Init ==
    /\ box = [k \in Key |-> None]
    /\ call = [c \in Caller |-> "idle"]
    /\ open = TRUE

Put(c) ==
    /\ call[c] = "idle"
    /\ box' = [box EXCEPT ![KeyOf[c]] = c]
    /\ call' = [x \in Caller |->
                  IF x = c THEN "waiting"
                  ELSE IF x = box[KeyOf[c]] /\ call[x] = "waiting" THEN "lost"
                  ELSE call[x]]
    /\ UNCHANGED open

Take(k) ==
    /\ open
    /\ box[k] # None
    /\ call[box[k]] = "waiting"
    /\ box' = [box EXCEPT ![k] = None]
    /\ call' = [call EXCEPT ![box[k]] = "taken"]
    /\ UNCHANGED open

\* A put that found the receiver gone, and was not overtaken or was.
Refuse(c) ==
    /\ ~open
    /\ call[c] \in {"waiting", "lost"}
    /\ call' = [call EXCEPT ![c] = "failed"]
    /\ UNCHANGED <<box, open>>

\* The call ends: with an answer, with the news that it was replaced, or
\* with the error.
Return(c) ==
    /\ call[c] \in {"taken", "lost", "failed"}
    /\ call' = [call EXCEPT ![c] = "idle"]
    /\ UNCHANGED <<box, open>>

Close ==
    /\ open
    /\ open' = FALSE
    /\ UNCHANGED <<box, call>>

Next ==
    \/ \E c \in Caller : Put(c) \/ Refuse(c) \/ Return(c)
    \/ \E k \in Key : Take(k)
    \/ Close

Spec == Init /\ [][Next]_vars
=============================================================================
