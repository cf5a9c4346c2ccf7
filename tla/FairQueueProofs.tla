-------------------------- MODULE FairQueueProofs ---------------------------
(***************************************************************************)
(* Proofs about the fair queue, for any set of callers and keys: recv      *)
(* never finds a key without a request, a key has at most one turn, and    *)
(* the map and the channel implement one mailbox per key.                  *)
(***************************************************************************)
EXTENDS FairQueue, TLAPS

\* Sending a key puts it, and nothing else, into the channel.
LEMMA OccursAppend ==
    ASSUME NEW S, NEW s \in Seq(S), NEW x \in S
    PROVE  \A k : Occurs(k, Append(s, x)) <=> Occurs(k, s) \/ k = x
<1>1. /\ Len(Append(s, x)) = Len(s) + 1
      /\ Len(s) \in Nat
      /\ Append(s, x)[Len(s) + 1] = x
      /\ \A i \in 1 .. Len(s) : Append(s, x)[i] = s[i]
  OBVIOUS
<1> QED
  BY <1>1 DEF Occurs

\* Sending a key that is not in the channel repeats none.
LEMMA NoRepeatsAppend ==
    ASSUME NEW S, NEW s \in Seq(S), NEW x \in S, NoRepeats(s), ~Occurs(x, s)
    PROVE  NoRepeats(Append(s, x))
<1>1. /\ Len(Append(s, x)) = Len(s) + 1
      /\ Len(s) \in Nat
      /\ Append(s, x)[Len(s) + 1] = x
      /\ \A i \in 1 .. Len(s) : Append(s, x)[i] = s[i]
  OBVIOUS
<1> QED
  BY <1>1 DEF Occurs, NoRepeats

\* Receiving a key takes it, and nothing else, out of the channel.
LEMMA OccursTail ==
    ASSUME NEW S, NEW s \in Seq(S), s # <<>>, NoRepeats(s)
    PROVE  /\ NoRepeats(Tail(s))
           /\ Tail(s) \in Seq(S)
           /\ Head(s) \in S
           /\ Occurs(Head(s), s)
           /\ \A k : Occurs(k, Tail(s)) <=> Occurs(k, s) /\ k # Head(s)
<1>1. /\ Len(Tail(s)) = Len(s) - 1
      /\ Len(s) \in Nat /\ Len(s) > 0
      /\ Head(s) = s[1]
      /\ \A i \in 1 .. Len(Tail(s)) : Tail(s)[i] = s[i + 1]
      /\ Tail(s) \in Seq(S)
      /\ Head(s) \in S
  OBVIOUS
<1>2. NoRepeats(Tail(s))
  BY <1>1 DEF NoRepeats
<1>3. Occurs(Head(s), s)
  BY <1>1 DEF Occurs
<1>4. ASSUME NEW k, Occurs(k, Tail(s)) PROVE Occurs(k, s) /\ k # Head(s)
  <2>1. PICK i \in 1 .. Len(Tail(s)) : Tail(s)[i] = k
    BY <1>4, Zenon DEF Occurs
  <2>2. i + 1 \in 1 .. Len(s) /\ s[i + 1] = k /\ 1 \in 1 .. Len(s) /\ i + 1 # 1
    BY <2>1, <1>1
  <2> QED
    BY <2>2, <1>1, Zenon DEF Occurs, NoRepeats
<1>5. ASSUME NEW k, Occurs(k, s), k # Head(s) PROVE Occurs(k, Tail(s))
  <2>1. PICK i \in 1 .. Len(s) : s[i] = k
    BY <1>5, Zenon DEF Occurs
  <2>2. i - 1 \in 1 .. Len(Tail(s)) /\ Tail(s)[i - 1] = k
    BY <2>1, <1>1, <1>5
  <2> QED
    BY <2>2, Zenon DEF Occurs
<1> QED
  BY <1>1, <1>2, <1>3, <1>4, <1>5, Zenon

\* A new channel has no keys.
LEMMA OccursEmpty == NoRepeats(<<>>) /\ \A k : ~Occurs(k, <<>>)
BY DEF NoRepeats, Occurs

\* A new queue satisfies the invariant.
LEMMA InitIInv == Init => IInv
<1> SUFFICES ASSUME Init PROVE IInv
  BY Zenon
<1>1. TypeOK
  BY DEF Init, TypeOK, CallState
<1>2. \A c \in Caller : ~Announcing(c) /\ ~Open(c)
  BY Zenon DEF Init, Announcing, Open
<1>3. \A k \in Key : got # k
  BY QueueAssumption, Zenon DEF Init
<1> QED
  BY <1>1, <1>2, <1>3, OccursEmpty, Zenon DEF Init, IInv, TurnInv, MapInv, InChannel

\* What Insert does to each call, and to the map under each key.
LEMMA InsertCalls ==
    ASSUME IInv, NEW c \in Caller, Insert(c)
    PROVE  /\ call'[c] = IF enqueued[KeyOf[c]] = None THEN "announcing" ELSE "waiting"
           /\ \A x \in Caller \ {c} :
                 call'[x] = IF x = enqueued[KeyOf[c]] /\ Open(x)
                            THEN Replaced(call[x]) ELSE call[x]
           /\ enqueued'[KeyOf[c]] = c
           /\ \A k \in Key \ {KeyOf[c]} : enqueued'[k] = enqueued[k]
           /\ KeyOf[c] \in Key
           /\ ~Announcing(c) /\ ~Open(c)
           /\ Announcing(c)' <=> enqueued[KeyOf[c]] = None
           /\ Open(c)'
           /\ \A x \in Caller \ {c} : Announcing(x)' <=> Announcing(x)
           /\ \A x \in Caller \ {c} : Open(x)' <=> Open(x) /\ x # enqueued[KeyOf[c]]
<1>1. KeyOf[c] \in Key
  BY QueueAssumption, Zenon
<1>2. call'[c] = IF enqueued[KeyOf[c]] = None THEN "announcing" ELSE "waiting"
  BY Zenon DEF Insert
<1>3. \A x \in Caller \ {c} : call'[x] = IF x = enqueued[KeyOf[c]] /\ Open(x)
                                        THEN Replaced(call[x]) ELSE call[x]
  BY Zenon DEF Insert
<1>4. /\ enqueued'[KeyOf[c]] = c
      /\ \A k \in Key \ {KeyOf[c]} : enqueued'[k] = enqueued[k]
  BY <1>1, Zenon DEF Insert, IInv, TypeOK
<1>5. ~Announcing(c) /\ ~Open(c)
  BY Zenon DEF Insert, Announcing, Open
<1>6. Announcing(c)' <=> enqueued[KeyOf[c]] = None
  BY <1>2, Zenon DEF Announcing
<1>7. Open(c)'
  BY <1>2, Zenon DEF Open
<1>8. \A x \in Caller \ {c} : Announcing(x)' <=> Announcing(x)
  BY <1>3, Zenon DEF Announcing, Open, Replaced
<1>9. \A x \in Caller \ {c} : Open(x)' <=> Open(x) /\ x # enqueued[KeyOf[c]]
  BY <1>3, Zenon DEF Open, Replaced
<1> QED
  BY <1>1, <1>2, <1>3, <1>4, <1>5, <1>6, <1>7, <1>8, <1>9, Zenon

\* send, first step, keeps the invariant: the sender that finds the key
\* without a request is the one that owes the channel the key.
LEMMA InsertStep ==
    ASSUME IInv, NEW c \in Caller, Insert(c)
    PROVE  IInv'
<1> DEFINE k0 == KeyOf[c]
<1>1. TypeOK'
  BY QueueAssumption, Zenon DEF Insert, IInv, TypeOK, CallState, Replaced, Open
<1>2. /\ keys' = keys /\ got' = got /\ alive' = alive
      /\ \A k : InChannel(k)' <=> InChannel(k)
  BY Zenon DEF Insert, InChannel
<1>3. NoRepeats(keys)'
  BY <1>2, Zenon DEF IInv
<1>4. MapInv'
  <2>1. ASSUME NEW k \in Key, enqueued'[k] # None
        PROVE  KeyOf[enqueued'[k]] = k /\ (alive => Open(enqueued[k])')
    <3>1. CASE k = k0
      BY <3>1, InsertCalls, Zenon
    <3>2. CASE k # k0
      <4>1. enqueued'[k] = enqueued[k] /\ enqueued[k] \in Caller
        BY <2>1, <3>2, InsertCalls DEF IInv, TypeOK
      <4>2. KeyOf[enqueued[k]] = k /\ (alive => Open(enqueued[k]))
        BY <4>1, <2>1, Zenon DEF IInv, MapInv
      <4>3. PICK x \in Caller : x = enqueued[k]
        BY <4>1, Zenon
      <4>4. x # c /\ (x = enqueued[k0] => ~alive)
        BY <4>2, <4>3, <3>2, InsertCalls, QueueAssumption DEF IInv, MapInv
      <4>5. alive => Open(x)'
        BY <4>2, <4>3, <4>4, InsertCalls, Zenon
      <4> QED
        BY <4>1, <4>2, <4>3, <4>5, Zenon DEF Open
    <3> QED
      BY <3>1, <3>2, Zenon
  <2>2. ASSUME NEW x \in Caller, Open(x)' PROVE enqueued'[KeyOf[x]] = x
    BY <2>2, InsertCalls, QueueAssumption DEF IInv, MapInv
  <2> QED
    BY <1>2, <2>1, <2>2, QueueAssumption, Zenon DEF IInv, MapInv, Open
<1>5. ASSUME alive PROVE \A k \in Key : enqueued'[k] # None <=>
              \/ got = k
              \/ InChannel(k)
              \/ \E d \in Caller : Announcing(d)' /\ KeyOf[d] = k
  <2>1. enqueued'[k0] # None
    BY InsertCalls, QueueAssumption, Zenon
  <2>2. \/ got = k0
        \/ InChannel(k0)
        \/ \E d \in Caller : Announcing(d)' /\ KeyOf[d] = k0
    BY <1>5, InsertCalls DEF IInv, TurnInv
  <2>3. \A k \in Key \ {k0} : (\E d \in Caller : Announcing(d)' /\ KeyOf[d] = k)
                                <=> (\E d \in Caller : Announcing(d) /\ KeyOf[d] = k)
    BY InsertCalls, Zenon
  <2> QED
    BY <1>5, <2>1, <2>2, <2>3, InsertCalls DEF IInv, TurnInv
<1>6. ASSUME alive, NEW d \in Caller, Announcing(d)'
      PROVE  /\ got # KeyOf[d]
             /\ ~InChannel(KeyOf[d])
             /\ \A e \in Caller : Announcing(e)' /\ KeyOf[e] = KeyOf[d] => e = d
  BY <1>6, InsertCalls DEF IInv, TurnInv
<1>7. TurnInv'
  BY <1>2, <1>5, <1>6, Zenon DEF IInv, TurnInv
<1> QED
  BY <1>1, <1>3, <1>4, <1>7, Zenon DEF IInv

\* send, second step, keeps the invariant: the turn moves into the channel.
LEMMA AnnounceStep ==
    ASSUME IInv, NEW c \in Caller, Announce(c)
    PROVE  IInv'
<1>1. KeyOf[c] \in Key /\ keys \in Seq(Key)
  BY QueueAssumption, Zenon DEF IInv, TypeOK
<1>2. TypeOK'
  BY <1>1 DEF Announce, IInv, TypeOK, CallState
<1>3. /\ enqueued' = enqueued /\ got' = got /\ alive' = alive
      /\ keys' = Append(keys, KeyOf[c])
      /\ alive /\ Announcing(c)
  BY Zenon DEF Announce, Announcing
<1>4. /\ \A k : InChannel(k)' <=> InChannel(k) \/ k = KeyOf[c]
      /\ ~InChannel(KeyOf[c])
      /\ NoRepeats(keys)'
  BY <1>1, <1>3, OccursAppend, NoRepeatsAppend DEF InChannel, IInv, TurnInv
<1>5. /\ ~Announcing(c)'
      /\ \A d \in Caller \ {c} : Announcing(d)' <=> Announcing(d)
  BY Zenon DEF Announce, Announcing, IInv, TypeOK
<1>6. \A d \in Caller : Open(d)' <=> Open(d)
  BY Zenon DEF Announce, Open, IInv, TypeOK
<1>7. MapInv'
  BY <1>3, <1>6, QueueAssumption, Zenon DEF IInv, MapInv, TypeOK
<1>8. got # KeyOf[c]
  BY <1>3, Zenon DEF IInv, TurnInv
<1>9. TurnInv'
  BY <1>1, <1>3, <1>4, <1>5, <1>8, Zenon DEF IInv, TurnInv
<1> QED
  BY <1>2, <1>4, <1>7, <1>9, Zenon DEF IInv

\* recv, first step, keeps the invariant: the turn moves out of the channel.
LEMMA RecvKeyStep ==
    ASSUME IInv, RecvKey
    PROVE  IInv'
<1>1. /\ keys \in Seq(Key) /\ keys # <<>> /\ NoRepeats(keys)
      /\ got = None /\ alive /\ alive' = alive
      /\ enqueued' = enqueued /\ call' = call
      /\ got' = Head(keys) /\ keys' = Tail(keys)
  BY Zenon DEF IInv, TypeOK, RecvKey
<1>2. /\ NoRepeats(keys)' /\ keys' \in Seq(Key) /\ got' \in Key
      /\ InChannel(got')
      /\ \A k : InChannel(k)' <=> InChannel(k) /\ k # got'
  BY <1>1, OccursTail, Zenon DEF InChannel
<1>3. TypeOK'
  BY <1>1, <1>2, Zenon DEF IInv, TypeOK
<1>4. \A c \in Caller : (Announcing(c)' <=> Announcing(c)) /\ (Open(c)' <=> Open(c))
  BY <1>1, Zenon DEF Announcing, Open
<1>5. MapInv'
  BY <1>1, <1>4, QueueAssumption, Zenon DEF IInv, MapInv, TypeOK
<1>6. TurnInv'
  BY <1>1, <1>2, <1>4, QueueAssumption, Zenon DEF IInv, TurnInv
<1> QED
  BY <1>2, <1>3, <1>5, <1>6, Zenon DEF IInv

\* recv, second step, keeps the invariant: the key has no turn and no request.
LEMMA RemoveStep ==
    ASSUME IInv, Remove
    PROVE  IInv'
<1>0. PICK w \in Caller : w = enqueued[got]
  BY Zenon DEF IInv, TypeOK, Remove
<1>1. got \in Key /\ alive /\ KeyOf[w] = got /\ Open(w)
  BY <1>0, Zenon DEF IInv, TypeOK, Remove, MapInv
<1>2. TypeOK'
  BY <1>0, <1>1, Zenon DEF IInv, TypeOK, Remove, CallState
<1>3. /\ keys' = keys /\ alive' = alive /\ got' = None
      /\ enqueued'[got] = None
      /\ \A k \in Key \ {got} : enqueued'[k] = enqueued[k]
      /\ \A k : InChannel(k)' <=> InChannel(k)
  BY <1>0, <1>1, Zenon DEF Remove, IInv, TypeOK, InChannel
<1>4. \A c \in Caller \ {w} : (Announcing(c)' <=> Announcing(c)) /\ (Open(c)' <=> Open(c))
  BY <1>0, <1>1, Zenon DEF Remove, Announcing, Open, IInv, TypeOK
<1>5. ~Announcing(w) /\ ~Announcing(w)' /\ ~Open(w)'
  <2>1. ~Announcing(w)
    BY <1>0, <1>1, Zenon DEF IInv, TurnInv
  <2>2. call'[w] = "taken"
    BY <1>0, <1>1, Zenon DEF Remove, IInv, TypeOK
  <2> QED
    BY <2>1, <2>2, Zenon DEF Announcing, Open
<1>6. MapInv'
  BY <1>0, <1>1, <1>3, <1>4, <1>5, QueueAssumption DEF IInv, MapInv, TypeOK
<1>7. TurnInv'
  BY <1>0, <1>1, <1>3, <1>4, <1>5, QueueAssumption DEF IInv, TurnInv
<1> QED
  BY <1>2, <1>3, <1>6, <1>7, Zenon DEF IInv

\* The other steps move no turn.
LEMMA QuietStep ==
    ASSUME IInv,
           \/ \E c \in Caller : SendError(c) \/ Return(c)
           \/ DropReceiver
           \/ UNCHANGED vars
    PROVE  IInv'
<1>1. ASSUME NEW c \in Caller, SendError(c) PROVE IInv'
  <2>1. TypeOK'
    BY <1>1, Zenon DEF SendError, IInv, TypeOK, CallState
  <2>2. /\ enqueued' = enqueued /\ keys' = keys /\ got' = got /\ ~alive /\ alive' = alive
        /\ \A d \in Caller : Open(d)' => Open(d)
    BY <1>1, Zenon DEF SendError, Open, IInv, TypeOK
  <2>3. MapInv'
    BY <2>2, Zenon DEF IInv, MapInv
  <2> QED
    BY <2>1, <2>2, <2>3, Zenon DEF IInv, TurnInv
<1>2. ASSUME NEW c \in Caller, Return(c) PROVE IInv'
  <2>1. TypeOK'
    BY <1>2, Zenon DEF Return, IInv, TypeOK, CallState
  <2>2. /\ enqueued' = enqueued /\ keys' = keys /\ got' = got /\ alive' = alive
        /\ \A d \in Caller : (Open(d)' <=> Open(d)) /\ (Announcing(d)' <=> Announcing(d))
        /\ \A k : InChannel(k)' <=> InChannel(k)
    BY <1>2, Zenon DEF Return, Open, Announcing, IInv, TypeOK, InChannel
  <2>3. MapInv'
    BY <2>2, QueueAssumption, Zenon DEF IInv, MapInv, TypeOK
  <2>4. TurnInv'
    BY <2>2, Zenon DEF IInv, TurnInv
  <2> QED
    BY <2>1, <2>2, <2>3, <2>4, Zenon DEF IInv
<1>3. CASE DropReceiver
  <2>1. TypeOK'
    <3>1. keys' \in Seq(Key) /\ alive' = FALSE
      BY <1>3 DEF DropReceiver
    <3> QED
      BY <1>3, <3>1, Zenon DEF DropReceiver, IInv, TypeOK
  <2>2. enqueued' = enqueued /\ got' = got /\ got = None /\ ~alive' /\ call' = call /\ keys' = <<>>
    BY <1>3, Zenon DEF DropReceiver
  <2>3. MapInv'
    BY <2>2, Zenon DEF IInv, MapInv, Open
  <2> QED
    BY <2>1, <2>2, <2>3, OccursEmpty, Zenon DEF IInv, TurnInv
<1>4. CASE UNCHANGED vars
  BY <1>4 DEF vars, IInv, TypeOK, TurnInv, MapInv, Open, Announcing, InChannel
<1> QED
  BY <1>1, <1>2, <1>3, <1>4, Zenon

\* Every step of a sender, the receiver or a caller keeps the invariant.
LEMMA NextIInv == IInv /\ [Next]_vars => IInv'
BY InsertStep, AnnounceStep, RecvKeyStep, RemoveStep, QuietStep, Zenon DEF Next

\* Map and channel agree on which keys have a request, for any number of
\* callers and keys (Sender::send, Receiver::recv).
THEOREM FairQueueInvariant == Spec => []IInv
BY InitIInv, NextIInv, PTL DEF Spec

\* The expect of Receiver::recv ("Key from queue should be in dashmap")
\* never fails.
THEOREM KeyIsInMapTheorem == Spec => []KeyIsInMap
<1>1. IInv => KeyIsInMap
  BY QueueAssumption, Zenon DEF IInv, TypeOK, TurnInv, MapInv, KeyIsInMap
<1> QED
  BY <1>1, FairQueueInvariant, PTL

\* A key has at most one turn in the channel, whatever is sent under it.
THEOREM OneTurnPerKeyTheorem == Spec => []OneTurnPerKey
<1>1. IInv => OneTurnPerKey
  BY Zenon DEF IInv, NoRepeats, OneTurnPerKey
<1> QED
  BY <1>1, FairQueueInvariant, PTL

\* A step of the map and the channel is a step of the mailboxes, or none.
LEMMA MailboxStep == IInv /\ [Next]_vars => [Mailbox!Next]_(Mailbox!vars)
<1> SUFFICES ASSUME IInv, [Next]_vars PROVE [Mailbox!Next]_(Mailbox!vars)
  BY Zenon
<1> DEFINE seen == [c \in Caller |-> Abstract(call[c])]
<1> USE DEF IInv, TypeOK, CallState
<1>1. ASSUME NEW c \in Caller, Insert(c) PROVE Mailbox!Put(c)
  <2>1. seen[c] = "idle"
    BY <1>1, Zenon DEF Insert, Abstract
  <2>2. seen' = [x \in Caller |->
                   IF x = c THEN "waiting"
                   ELSE IF x = enqueued[KeyOf[c]] /\ seen[x] = "waiting" THEN "lost"
                   ELSE seen[x]]
    BY <1>1, Zenon DEF Insert, Abstract, Replaced, Open
  <2> QED
    BY <1>1, <2>1, <2>2, Zenon DEF Insert, Mailbox!Put
<1>2. ASSUME NEW c \in Caller, Announce(c) PROVE UNCHANGED Mailbox!vars
  <2>1. seen' = seen
    BY <1>2, Zenon DEF Announce, Abstract
  <2> QED
    BY <1>2, <2>1, Zenon DEF Announce, Mailbox!vars
<1>3. ASSUME NEW c \in Caller, SendError(c) PROVE Mailbox!Refuse(c)
  <2>1. seen[c] \in {"waiting", "lost"} /\ seen' = [seen EXCEPT ![c] = "failed"]
    BY <1>3, Zenon DEF SendError, Abstract
  <2> QED
    BY <1>3, <2>1, Zenon DEF SendError, Mailbox!Refuse
<1>4. ASSUME NEW c \in Caller, Return(c) PROVE Mailbox!Return(c)
  <2>1. seen[c] \in {"taken", "lost", "failed"} /\ seen' = [seen EXCEPT ![c] = "idle"]
    BY <1>4, Zenon DEF Return, Abstract
  <2> QED
    BY <1>4, <2>1, Zenon DEF Return, Mailbox!Return
<1>5. CASE RecvKey
  BY <1>5, Zenon DEF RecvKey, Mailbox!vars
<1>6. CASE Remove
  <2>1. got \in Key /\ enqueued[got] \in Caller /\ alive /\ Open(enqueued[got])
    BY <1>6, Zenon DEF Remove, MapInv
  <2>2. seen[enqueued[got]] = "waiting" /\ seen' = [seen EXCEPT ![enqueued[got]] = "taken"]
    BY <1>6, <2>1, Zenon DEF Remove, Abstract, Open
  <2>3. Mailbox!Take(got)
    BY <1>6, <2>1, <2>2, Zenon DEF Remove, Mailbox!Take
  <2> QED
    BY <2>1, <2>3, Zenon DEF Mailbox!Next
<1>7. CASE DropReceiver
  BY <1>7, Zenon DEF DropReceiver, Mailbox!Close, Mailbox!Next
<1>8. CASE UNCHANGED vars
  BY <1>8, Zenon DEF vars, Mailbox!vars
<1> QED
  BY <1>1, <1>2, <1>3, <1>4, <1>5, <1>6, <1>7, <1>8, Zenon DEF Next, Mailbox!Next

\* The map and the channel of the fair queue, with every interleaving of
\* send and recv, implement one mailbox per key: no request is dropped
\* without its caller being told, and none is handed out twice.
THEOREM FairQueueImplementsMailbox == Spec => ImplementsMailbox
<1>1. Init => Mailbox!Init
  BY Zenon DEF Init, Mailbox!Init, Abstract
<1> QED
  BY <1>1, MailboxStep, FairQueueInvariant, PTL DEF Spec, ImplementsMailbox, Mailbox!Spec
=============================================================================
