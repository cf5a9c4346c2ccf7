-------------------------- MODULE InterpreterNock ---------------------------
(***************************************************************************)
(* The interpreter computes what ++mink defines: its results, and what it  *)
(* keeps in its cache.  There are steps at which its code takes another    *)
(* way than ++mink, and may come to another result.  Strays names them,    *)
(* and strayed records that one was taken.                                 *)
(***************************************************************************)
EXTENDS Interpreter, NockReference

VARIABLE strayed

\* The fuel of the reference: more than any program here needs.
Fuel == 40

Expected == Nock(program[1], program[2], Fuel)

Product(s, f, gates) ==
    LET r == Mink(s, f, gates, D(0), Fuel)
    IN  IF r.k = "ok" THEN {r.v} ELSE {}

AtItem == calls # <<>> /\ ret = None /\ HasWork(frames)

MemoHit == Stage(11, 1) /\ W.x = MEMO /\ MemoKey(W.z) \in DOMAIN cache

(***************************************************************************)
(* The ways that are not ++mink's.                                         *)
(***************************************************************************)
\* A static hint of the mean kind pops the mean stack, on which nothing was
\* pushed for it (interpreter.rs:1991): the trace loses an entry, or the pop of
\* an empty one panics.
PopsUnpushed == Stage(STATIC, 2) /\ W.x = MEAN

\* A %10 at axis 0, which ++mink refuses at once: its parts are evaluated first.
EditsAxis0 == Stage(10, 1) /\ Value(W.x) = 0

\* The gates under which bodies are evaluated with the cache in use: a scry gate
\* is called with the cache of who scries (interpreter.rs:1300).
GatesOfCache ==
    {scry_stack} \cup
    {calls[k].cont.scry : k \in {i \in 1 .. Len(calls) :
        /\ calls[i].cont.kind = "scry"
        /\ \A j \in i + 1 .. Len(calls) : calls[j].cont.kind \notin {"mink", "mure"}}}

\* A %memo for a body that gives one thing to the scry gate which evaluates it
\* and another to who scries: both have the same entry.
SharesEntry ==
    /\ W.op \in {11, STATIC} /\ W.x = MEMO
    /\ \E g \in GatesOfCache : Product(subject, W.z, g) # Product(subject, W.z, scry_stack)

\* A %memo hit skips the clue (interpreter.rs:972), which would have crashed.
SkipsClue == MemoHit /\ Product(subject, W.y, scry_stack) = {}

Strays == AtItem /\ (PopsUnpushed \/ EditsAxis0 \/ SharesEntry \/ SkipsClue)

NockInit == Init /\ strayed = FALSE
NoteStrays == strayed' = (strayed \/ Strays)
NockNext ==
    \/ Start /\ NoteStrays
    \/ Step /\ NoteStrays
    \/ NoItem /\ NoteStrays
    \/ Return /\ NoteStrays
    \/ Cancel /\ NoteStrays
NockSpec == NockInit /\ [][NockNext]_<<vars, strayed>>

(***************************************************************************)
(* Properties.                                                             *)
(***************************************************************************)
\* A result of interpret and an outcome of ++mink outside every virtualization.
Agrees(result, outcome) ==
    \/ result.k = "ok" /\ outcome.k = "ok" /\ result.v = outcome.v
    \/ /\ result.k = "det" /\ outcome.k = "crash" /\ outcome.d = 0
       /\ outcome.v \in {AnyTrace, result.v}

\* The result of interpret is the one ++mink defines: the product, or a
\* deterministic crash with the trace of the mean hints around it.  A
\* nondeterministic error is only ever the effect of the cancel token.  What the
\* code does otherwise: the early return of the outermost call drops the trace;
\* a %10 at an axis that is not there panics, in a virtualization too, where
\* ++mink gives a tone.  Nothing is said of a computation that took one of the
\* ways of Strays, nor of one that goes on after an inner call has returned
\* early (a formula push_formula refuses, a scry that blocks or crashes): the
\* caller then takes its next item off the frames that call left behind.
ResultIsNock ==
    Finished /\ bailed # "inner" /\ ~strayed =>
        \/ bailed = "no" /\ Agrees(ret, Expected)
        \/ bailed = "no" /\ cancelled /\ ret.k = "nondet"
        \/ bailed = "outer" /\ ret.k = "det" /\ Expected.k = "crash"
        \/ /\ ret.k = "panic" /\ Stage(10, 3)
           /\ Expected.k = "crash" \/ \E i \in 1 .. Len(calls) : Scried(calls[i])

\* A %memo hit gives what evaluating the body here, under the scry gates in
\* force here, would give: interpret swaps the cache at every ++mink.  It does
\* not at the call of a scry gate, so SharesEntry is an exception.
HitIsNock ==
    AtItem /\ MemoHit /\ bailed = "no" /\ ~strayed /\ ~Strays =>
        Product(subject, W.z, scry_stack) = {cache[MemoKey(W.z)]}

\* What is left in the cache for the next computation is what evaluating the
\* body would give, with the exceptions of HitIsNock.
CacheIsNock ==
    Finished /\ bailed = "no" /\ ret.k # "panic" /\ ~strayed =>
        \A k \in DOMAIN cache : Product(k[1], k[2], <<>>) = {cache[k]}
=============================================================================
