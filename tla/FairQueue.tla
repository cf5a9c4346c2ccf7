----------------------------- MODULE FairQueue ------------------------------
(***************************************************************************)
(* The fair queue of the libp2p driver (key_fair_queue.rs): a concurrent   *)
(* map from keys to the one request enqueued under the key, and a channel  *)
(* of keys that says in which order to serve them.  A send inserts into    *)
(* the map and then, only if the key had no request, sends the key; a recv *)
(* takes a key and then removes the key's request.  Senders are cloned and *)
(* run on other threads than the receiver: between the two steps of either *)
(* anything can happen.                                                    *)
(*                                                                         *)
(* A request carries the sender of its caller's result.  When insert       *)
(* replaces it, it is dropped, and its caller gets an error at once.       *)
(***************************************************************************)
EXTENDS Naturals, Sequences

CONSTANTS
    Caller,  \* the concurrent users of the senders, one open call each
    Key,     \* the keys (one peer each, in the libp2p driver)
    KeyOf,   \* the key a caller sends under
    None     \* no request, no key

ASSUME QueueAssumption ==
    /\ KeyOf \in [Caller -> Key]
    /\ None \notin Caller
    /\ None \notin Key

VARIABLES
    enqueued,  \* [Key -> Caller or None]: the map
    keys,      \* the channel of keys
    got,       \* the key recv holds, its request not removed yet, or None
    call,      \* [Caller -> state of its call]
    alive      \* the receiver has not been dropped

vars == <<enqueued, keys, got, call, alive>>

\* "announcing": in the map, the key not sent yet; "lost_announcing": the
\* same, and the request has been replaced in the meantime.
CallState ==
    {"idle", "announcing", "lost_announcing", "waiting", "taken", "lost", "failed"}

\* A request that is in the map and whose caller waits for its result.
Open(c) == call[c] \in {"announcing", "waiting"}

Init ==
    /\ enqueued = [k \in Key |-> None]
    /\ keys = <<>>
    /\ got = None
    /\ call = [c \in Caller |-> "idle"]
    /\ alive = TRUE

\* Mutant: the caller is left waiting.
ReplacedSilently(s) == s

\* The state of a caller whose request has been dropped from the map.
Replaced(s) == IF s = "announcing" THEN "lost_announcing" ELSE "lost"

\* Mutant: the key is sent whether or not it had a request.
InsertAlwaysAnnounces(c) ==
    LET old == enqueued[KeyOf[c]]
    IN  /\ call[c] = "idle"
        /\ enqueued' = [enqueued EXCEPT ![KeyOf[c]] = c]
        /\ call' = [x \in Caller |->
                      IF x = c THEN "announcing"
                      ELSE IF x = old /\ Open(x) THEN Replaced(call[x])
                      ELSE call[x]]
        /\ UNCHANGED <<keys, got, alive>>

\* send, first step: enqueued.insert.  Only the sender that found no request
\* under the key goes on to send the key.
Insert(c) ==
    LET old == enqueued[KeyOf[c]]
    IN  /\ call[c] = "idle"
        /\ enqueued' = [enqueued EXCEPT ![KeyOf[c]] = c]
        /\ call' = [x \in Caller |->
                      IF x = c THEN IF old = None THEN "announcing" ELSE "waiting"
                      ELSE IF x = old /\ Open(x) THEN Replaced(call[x])
                      ELSE call[x]]
        /\ UNCHANGED <<keys, got, alive>>

\* Mutant: the key is not sent when the request was replaced meanwhile.
AnnounceOnlyOwn(c) ==
    /\ alive
    /\ call[c] \in {"announcing", "lost_announcing"}
    /\ keys' = IF call[c] = "announcing" THEN Append(keys, KeyOf[c]) ELSE keys
    /\ call' = [call EXCEPT ![c] = IF @ = "announcing" THEN "waiting" ELSE "lost"]
    /\ UNCHANGED <<enqueued, got, alive>>

\* send, second step: key_sender.send.
Announce(c) ==
    /\ alive
    /\ call[c] \in {"announcing", "lost_announcing"}
    /\ keys' = Append(keys, KeyOf[c])
    /\ call' = [call EXCEPT ![c] = IF @ = "announcing" THEN "waiting" ELSE "lost"]
    /\ UNCHANGED <<enqueued, got, alive>>

\* send, second step, with the receiver gone: SendError.  The request stays
\* in the map.
SendError(c) ==
    /\ ~alive
    /\ call[c] \in {"announcing", "lost_announcing"}
    /\ call' = [call EXCEPT ![c] = "failed"]
    /\ UNCHANGED <<enqueued, keys, got, alive>>

\* recv, first step: a key comes out of the channel.
RecvKey ==
    /\ alive
    /\ got = None
    /\ keys # <<>>
    /\ got' = Head(keys)
    /\ keys' = Tail(keys)
    /\ UNCHANGED <<enqueued, call, alive>>

\* recv, second step: the key's request comes out of the map, which
\* expect()s it to be there.
Remove ==
    /\ got # None
    /\ enqueued[got] # None
    /\ enqueued' = [enqueued EXCEPT ![got] = None]
    /\ call' = [call EXCEPT ![enqueued[got]] = "taken"]
    /\ got' = None
    /\ UNCHANGED <<keys, alive>>

\* The caller's result_rx.await ends.
Return(c) ==
    /\ call[c] \in {"taken", "lost", "failed"}
    /\ call' = [call EXCEPT ![c] = "idle"]
    /\ UNCHANGED <<enqueued, keys, got, alive>>

\* The receiver is dropped between two recvs, with the keys in the channel;
\* the map lives as long as the senders.
DropReceiver ==
    /\ alive
    /\ got = None
    /\ alive' = FALSE
    /\ keys' = <<>>
    /\ UNCHANGED <<enqueued, got, call>>

Next ==
    \/ \E c \in Caller : Insert(c) \/ Announce(c) \/ SendError(c) \/ Return(c)
    \/ RecvKey \/ Remove
    \/ DropReceiver

Spec == Init /\ [][Next]_vars

(***************************************************************************)
(* Properties.                                                             *)
(***************************************************************************)
TypeOK ==
    /\ enqueued \in [Key -> Caller \union {None}]
    /\ keys \in Seq(Key)
    /\ got \in Key \union {None}
    /\ call \in [Caller -> CallState]
    /\ alive \in BOOLEAN

\* The expect of recv ("Key from queue should be in dashmap") never fails.
KeyIsInMap == got # None => enqueued[got] # None

\* Fairness between keys: however many requests are sent under a key, it has
\* at most one turn in the channel.
OneTurnPerKey == \A i, j \in 1 .. Len(keys) : keys[i] = keys[j] => i = j

\* Map and channel together are one mailbox per key: no request is lost
\* without its caller being told, none is served twice.
Abstract(s) ==
    CASE s = "announcing" -> "waiting"
      [] s = "lost_announcing" -> "lost"
      [] OTHER -> s

Mailbox == INSTANCE KeyedMailbox
    WITH box <- enqueued, call <- [c \in Caller |-> Abstract(call[c])], open <- alive
ImplementsMailbox == Mailbox!Spec

(***************************************************************************)
(* The invariant that makes the safety properties inductive.               *)
(***************************************************************************)
Announcing(c) == call[c] \in {"announcing", "lost_announcing"}

Occurs(k, s) == \E i \in 1 .. Len(s) : s[i] = k

NoRepeats(s) == \A i, j \in 1 .. Len(s) : s[i] = s[j] => i = j

InChannel(k) == Occurs(k, keys)

\* A key has a request exactly when its turn is in one of three places: on
\* its way into the channel, in the channel, or in the hands of recv.
TurnInv ==
    alive =>
        /\ \A k \in Key : enqueued[k] # None <=>
              \/ got = k
              \/ InChannel(k)
              \/ \E c \in Caller : Announcing(c) /\ KeyOf[c] = k
        /\ got # None => ~InChannel(got)
        /\ \A c \in Caller : Announcing(c) =>
              /\ got # KeyOf[c]
              /\ ~InChannel(KeyOf[c])
              /\ \A d \in Caller : Announcing(d) /\ KeyOf[d] = KeyOf[c] => d = c

\* The map holds requests under their own key, and while the receiver lives
\* their callers wait; an announcing caller's request is still in the map.
MapInv ==
    /\ \A k \in Key : enqueued[k] # None => KeyOf[enqueued[k]] = k
    /\ alive => \A k \in Key : enqueued[k] # None => Open(enqueued[k])
    /\ \A c \in Caller : Open(c) => enqueued[KeyOf[c]] = c
    /\ got # None => alive

IInv == TypeOK /\ TurnInv /\ NoRepeats(keys) /\ MapInv
=============================================================================
