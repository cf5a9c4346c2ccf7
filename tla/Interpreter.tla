----------------------------- MODULE Interpreter -----------------------------
(***************************************************************************)
(* The Nock interpreter of nockvm (src/interpreter.rs), with the jets of   *)
(* ++mink and ++mure (src/jets/nock.rs) that call it again, and the cancel *)
(* token another thread may use while it runs.                             *)
(*                                                                         *)
(* The NockStack is a sequence of frames, each with a stack of work items  *)
(* and a mean stack (the trace of a crash); `interpret' keeps the subject  *)
(* and the last result in locals.  An open call of `interpret' is a record *)
(* of `calls': what its caller does with the result (cont), the frame it   *)
(* must unwind to, the cache it restores, and the caller's locals.  A call *)
(* that has returned leaves its result in ret until the caller, which is   *)
(* `interpret' again or the program that asked, takes it.                  *)
(*                                                                         *)
(* `interpret' has two ways out with an error: the break of its loop, after*)
(* which running_status is decremented and `exit' unwinds the frames; and  *)
(* the `return' in try_or_bail! and in `?', which does neither.  bailed    *)
(* says if a call left the second way: the outermost one, or one that some *)
(* other call of `interpret' is waiting for.                               *)
(***************************************************************************)
EXTENDS Noun, Integers

CONSTANTS
    Programs,     \* <<subject, formula>> pairs the program may ask for
    MaxSteps,     \* bound: work steps of a computation
    CancelSteps   \* bound: the steps at which the token may be used

VARIABLES
    program,      \* the pair asked for
    frames,       \* the NockStack: [work, mean], the top frame last
    subject, res, \* the locals of the running call of interpret
    calls,        \* open calls of interpret, the running one last
    cache,        \* context.cache: [subject body] |-> product
    scry_stack,   \* context.scry_stack: scry gates, the innermost last
    running_status, \* context.running_status
    ret,          \* the result a call has returned with, until it is taken
    bailed,       \* "no", "outer" or "inner"
    cancelled,    \* the cancel token was used
    steps         \* work steps taken

vars == <<program, frames, subject, res, calls, cache, scry_stack, running_status,
          ret, bailed, cancelled, steps>>

RUNNING_IDLE == 0

EmptyCache == [x \in {} |-> D(0)]

(***************************************************************************)
(* Results: ok, blocked (Error::ScryBlocked), crashed (ScryCrashed), det   *)
(* and nondet (Deterministic, NonDeterministic: the mote is left out);     *)
(* panic, and undefined: the code reads a work item off an empty frame.    *)
(***************************************************************************)
Result(k, v) == [k |-> k, v |-> v]
None == Result("none", D(0))
BAIL_EXIT == Result("det", D(0))
BAIL_FAIL == Result("nondet", D(0))

(***************************************************************************)
(* Work items.  x, y and z hold the nouns of the item in the order of its  *)
(* fields in NockWork; todo counts its stages from 1.                      *)
(***************************************************************************)
Work(op, x, y, z, tail) == [op |-> op, todo |-> 1, x |-> x, y |-> y, z |-> z, tail |-> tail]

CONS == 20
STATIC == 30
RET == 40
DONE == 50

Plain(op) == Work(op, D(0), D(0), D(0), FALSE)

\* hint::is_tail
IsTail(tag) == tag \notin {FAST, MEMO}

NoWork == Plain(99)

\* push_formula: the work item of a formula, NoWork for one it refuses.
WorkOf(f, tail) ==
    IF IsAtom(f) THEN NoWork
    ELSE IF IsCell(HeadOf(f)) THEN Work(CONS, HeadOf(f), TailOf(f), D(0), FALSE)
    ELSE LET op == Value(HeadOf(f))
             a == TailOf(f)
             pair == IsCell(a)
         IN  CASE op = 0 /\ IsAtom(a) -> Work(op, a, D(0), D(0), FALSE)
               [] op \in {1, 3, 4} -> Work(op, a, D(0), D(0), FALSE)
               [] op \in {2, 7, 8} /\ pair -> Work(op, HeadOf(a), TailOf(a), D(0), tail)
               [] op \in {5, 12} /\ pair -> Work(op, HeadOf(a), TailOf(a), D(0), FALSE)
               [] op = 6 /\ pair /\ IsCell(TailOf(a)) ->
                      Work(op, HeadOf(a), HeadOf(TailOf(a)), TailOf(TailOf(a)), tail)
               [] op = 9 /\ pair /\ IsAtom(HeadOf(a)) ->
                      Work(op, HeadOf(a), TailOf(a), D(0), tail)
               [] op = 10 /\ pair /\ IsCell(HeadOf(a)) /\ IsAtom(HeadOf(HeadOf(a))) ->
                      Work(op, HeadOf(HeadOf(a)), TailOf(a), TailOf(HeadOf(a)), FALSE)
               [] op = 11 /\ pair /\ IsAtom(HeadOf(a)) ->
                      Work(STATIC, HeadOf(a), D(0), TailOf(a), tail /\ IsTail(HeadOf(a)))
               [] op = 11 /\ pair /\ IsCell(HeadOf(a)) /\ IsAtom(HeadOf(HeadOf(a))) ->
                      Work(11, HeadOf(HeadOf(a)), TailOf(HeadOf(a)), TailOf(a),
                           tail /\ IsTail(HeadOf(HeadOf(a))))
               [] OTHER -> NoWork

(***************************************************************************)
(* The stack.                                                              *)
(***************************************************************************)
Top(s) == s[Len(s)]
Pop(s) == SubSeq(s, 1, Len(s) - 1)

TopFrame(fs) == Top(fs)
SetFrame(fs, f) == [fs EXCEPT ![Len(fs)] = f]
Mean(fs) == IF fs = <<>> THEN D(0) ELSE TopFrame(fs).mean

PushWork(fs, w) == SetFrame(fs, [TopFrame(fs) EXCEPT !.work = Append(@, w)])
PopWork(fs) == SetFrame(fs, [TopFrame(fs) EXCEPT !.work = Pop(@)])
SetWork(fs, w) == PushWork(PopWork(fs), w)
HasWork(fs) == fs # <<>> /\ TopFrame(fs).work # <<>>

FramePush(fs, mean, w) == Append(fs, [work |-> <<w>>, mean |-> mean])
\* mean_frame_push, and the item that pops the frame again
mean_frame_push(fs) == FramePush(fs, Mean(fs), Plain(RET))

mean_push(fs, noun) == SetFrame(fs, [TopFrame(fs) EXCEPT !.mean = T(noun, @)])
mean_pop(fs) == SetFrame(fs, [TopFrame(fs) EXCEPT !.mean = TailOf(@)])

W == Top(TopFrame(frames).work)
Stage(op, todo) == W.op = op /\ W.todo = todo
NextStage == [W EXCEPT !.todo = @ + 1]

(***************************************************************************)
(* Ways on from a step.  fs is the stack, cs the open calls the step       *)
(* leaves; the running call is the last of cs.                             *)
(***************************************************************************)
\* The next step is another work item of this call.
Continue(fs, cs, s, r) ==
    /\ frames' = fs /\ calls' = cs /\ subject' = s /\ res' = r /\ ret' = None
    /\ UNCHANGED <<running_status, bailed>>

\* `return Err': by try_or_bail! or `?', nothing is undone.
Bail(fs, cs, result) ==
    /\ frames' = fs /\ calls' = cs /\ ret' = result
    /\ bailed' = IF bailed = "no" /\ Len(cs) = 1 THEN "outer" ELSE "inner"
    /\ UNCHANGED <<subject, res, running_status>>

\* try_or_bail!(push_formula(stack, f, tail)) with subject s
PushFormula(fs, s, r, f, tail) ==
    LET w == WorkOf(f, tail)
    IN  IF w = NoWork THEN Bail(fs, calls, BAIL_EXIT)
        ELSE Continue(PushWork(fs, w), calls, s, r)

\* Mutant: a cancelled call leaves the status alone.
LeaveRunningOnly(status) == IF status > RUNNING_IDLE THEN status - 1 ELSE status

\* The loop after the computation: a running call is taken off, a cancelled
\* one is added back.
LeaveRunning(status) ==
    IF status < RUNNING_IDLE THEN status + 1
    ELSE IF status = RUNNING_IDLE THEN status
    ELSE status - 1

\* `exit': the trace is the error's, on top of the mean stack of this frame.
ExitError(fs, result) ==
    IF result.k = "blocked" THEN result ELSE Result(result.k, Weld(result.v, Mean(fs)))

\* Mutant: the frame of the caller is popped too.
UnwindTooFar(fs, frame) == SubSeq(fs, 1, frame - 1)

\* `exit': frames are popped down to the one interpret was called on.
Unwind(fs, frame) == SubSeq(fs, 1, frame)

\* `break Err(..)': the loop ends and `exit' restores the cache and the stack.
Break(fs, cs, result) ==
    LET call == Top(cs)
    IN  /\ running_status' = LeaveRunning(running_status)
        /\ cache' = call.cache
        /\ calls' = cs
        /\ ret' = IF Len(fs) < call.frame THEN Result("undefined", D(0)) ELSE ExitError(fs, result)
        /\ frames' = IF Len(fs) < call.frame THEN fs ELSE Unwind(fs, call.frame)
        /\ UNCHANGED <<subject, res, bailed>>

\* The process panics, or the code reads what is not there.
Abort(k) ==
    /\ ret' = Result(k, D(0))
    /\ UNCHANGED <<frames, calls, subject, res, running_status, bailed, cache, scry_stack>>

\* A call of interpret(context, s, f): it starts, or, cancelled, fails at once.
Interpret(fs, cont, s, f) ==
    LET call == [cont |-> cont, frame |-> Len(fs), cache |-> cache', subject |-> subject, res |-> res]
        cs == Append(calls, call)
        entered == FramePush(fs, D(0), Plain(DONE))
        w == WorkOf(f, TRUE)
    IN  IF running_status < RUNNING_IDLE
        THEN /\ frames' = fs /\ calls' = cs
             /\ ret' = ExitError(fs, BAIL_FAIL)
             /\ UNCHANGED <<subject, res, running_status, bailed>>
        ELSE /\ running_status' = running_status + 1
             /\ subject' = s /\ res' = D(0)
             /\ calls' = cs
             /\ IF w = NoWork
                THEN /\ frames' = entered /\ ret' = BAIL_EXIT
                     /\ bailed' = IF bailed = "no" /\ Len(cs) = 1 THEN "outer" ELSE "inner"
                ELSE /\ frames' = PushWork(entered, w) /\ ret' = None
                     /\ UNCHANGED bailed

(***************************************************************************)
(* One action per work item and stage.  Every action below is conjoined    *)
(* with Running: the running call has a work item on its top frame.        *)
(***************************************************************************)
Same == UNCHANGED <<cache, scry_stack>>

\* The result of the item on top is r.
Produce(r) == Continue(PopWork(frames), calls, subject, r) /\ Same

Fail == Break(frames, calls, BAIL_EXIT) /\ UNCHANGED scry_stack

\* The first stages of an item: it goes to its next stage, and f is evaluated.
Compute(w, f) == PushFormula(SetWork(frames, w), subject, res, f, FALSE) /\ Same

Work0 ==
    /\ Stage(0, 1)
    /\ LET noun == Slot(subject, Value(W.x))
       IN  IF noun = NoNoun THEN Fail ELSE Produce(noun)

Work1 == Stage(1, 1) /\ Produce(W.x)

Work2 ==
    \/ Stage(2, 1) /\ Compute(NextStage, W.x)
    \/ Stage(2, 2) /\ Compute([NextStage EXCEPT !.x = res], W.y)
    \/ /\ Stage(2, 3) /\ W.tail
       /\ PushFormula(PopWork(frames), W.x, res, res, TRUE) /\ Same
    \/ /\ Stage(2, 3) /\ ~W.tail
       /\ LET kept == SetWork(frames, [NextStage EXCEPT !.x = subject])
          IN  PushFormula(mean_frame_push(kept), W.x, res, res, TRUE)
       /\ Same
    \/ Stage(2, 4) /\ Continue(PopWork(frames), calls, W.x, res) /\ Same

Work3 ==
    \/ Stage(3, 1) /\ Compute(NextStage, W.x)
    \/ Stage(3, 2) /\ Produce(IF IsCell(res) THEN YES ELSE NO)

Work4 ==
    \/ Stage(4, 1) /\ Compute(NextStage, W.x)
    \/ Stage(4, 2) /\ IF IsAtom(res) THEN Produce(Inc(res)) ELSE Fail

Work5 ==
    \/ Stage(5, 1) /\ Compute(NextStage, W.x)
    \/ Stage(5, 2) /\ Compute([NextStage EXCEPT !.x = res], W.y)
    \/ Stage(5, 3) /\ Produce(IF res = W.x THEN YES ELSE NO)

Work6 ==
    \/ Stage(6, 1) /\ Compute(NextStage, W.x)
    \/ /\ Stage(6, 2) /\ res \in {YES, NO}
       /\ PushFormula(PopWork(frames), subject, res, IF res = YES THEN W.y ELSE W.z, W.tail)
       /\ Same
    \/ Stage(6, 2) /\ res \notin {YES, NO} /\ Break(PopWork(frames), calls, BAIL_EXIT)
       /\ UNCHANGED scry_stack

\* Mutant: the subject is not put back after a %7 that is not in tail position.
Work7KeepsSubject ==
    \/ Stage(7, 1) /\ Compute(NextStage, W.x)
    \/ /\ Stage(7, 2)
       /\ PushFormula(PopWork(frames), res, res, W.y, W.tail) /\ Same

Work7 ==
    \/ Stage(7, 1) /\ Compute(NextStage, W.x)
    \/ /\ Stage(7, 2) /\ W.tail
       /\ PushFormula(PopWork(frames), res, res, W.y, TRUE) /\ Same
    \/ /\ Stage(7, 2) /\ ~W.tail
       /\ PushFormula(SetWork(frames, [NextStage EXCEPT !.x = subject]), res, res, W.y, FALSE)
       /\ Same
    \/ Stage(7, 3) /\ Continue(PopWork(frames), calls, W.x, res) /\ Same

Work8 ==
    \/ Stage(8, 1) /\ Compute(NextStage, W.x)
    \/ /\ Stage(8, 2) /\ W.tail
       /\ PushFormula(PopWork(frames), T(res, subject), res, W.y, TRUE) /\ Same
    \/ /\ Stage(8, 2) /\ ~W.tail
       /\ PushFormula(SetWork(frames, [NextStage EXCEPT !.x = subject]),
                      T(res, subject), res, W.y, FALSE)
       /\ Same
    \/ Stage(8, 3) /\ Continue(PopWork(frames), calls, W.x, res) /\ Same

\* util::mink: a fresh cache, and one scry gate more, around a call of interpret.
CallMink(jet, s, f, scry) ==
    /\ cache' = EmptyCache
    /\ scry_stack' = Append(scry_stack, scry)
    /\ Interpret(frames, [kind |-> jet, cache |-> cache, scry |-> scry_stack], s, f)

\* jet_mink
JetMink(core) ==
    IF NoNoun \in {Slot(core, 24), Slot(core, 25), Slot(core, 13)} THEN Fail
    ELSE CallMink("mink", Slot(core, 24), Slot(core, 25), Slot(core, 13))

\* jet_mure, jet_mole
JetMure(core) ==
    IF Slot(core, 6) = NoNoun THEN Fail
    ELSE CallMink("mure", Slot(core, 6), SlamGateFol, PassThruScry)

JetOf(core, axis) == IF IsCell(core) /\ axis = 2 THEN HeadOf(core) ELSE NoNoun

Work9 ==
    \/ Stage(9, 1) /\ Compute(NextStage, W.y)
    \/ /\ Stage(9, 2)
       /\ LET axis == Value(W.x)
              formula == Slot(res, axis)
              kept == SetWork(frames, [NextStage EXCEPT !.y = subject])
          IN  CASE formula = NoNoun -> Fail
                [] JetOf(res, axis) = MinkBattery -> JetMink(res)
                [] JetOf(res, axis) = MureBattery -> JetMure(res)
                [] OTHER ->
                     /\ Same
                     /\ IF W.tail THEN PushFormula(PopWork(frames), res, res, formula, TRUE)
                        ELSE PushFormula(mean_frame_push(kept),
                                         res, res, formula, TRUE)
    \/ Stage(9, 3) /\ Continue(PopWork(frames), calls, W.y, res) /\ Same

Work10 ==
    \/ Stage(10, 1) /\ Compute(NextStage, W.y)
    \/ Stage(10, 2) /\ Compute([NextStage EXCEPT !.y = res], W.z)
    \/ /\ Stage(10, 3)
       /\ LET noun == Edit(Value(W.x), res, W.y)
          IN  IF noun = NoNoun THEN Abort("panic") ELSE Produce(noun)

WorkCons ==
    \/ Stage(CONS, 1) /\ Compute(NextStage, W.x)
    \/ Stage(CONS, 2) /\ Compute([NextStage EXCEPT !.x = res], W.y)
    \/ Stage(CONS, 3) /\ Produce(T(W.x, res))

(***************************************************************************)
(* Hints.                                                                  *)
(***************************************************************************)
\* Mutant: the key is the body alone.
MemoKeyBody(body) == <<D(0), body>>

MemoKey(body) == <<subject, body>>

\* %bout: the body in a call of interpret of its own.
Bout == Same /\ Interpret(frames, [kind |-> "bout"], subject, W.z)

\* match_post_nock, and the item is done.  A static tag of the mean kind pops
\* the mean stack too, though match_pre_nock pushed nothing.
PostHint ==
    IF W.x = MEAN /\ IsAtom(Mean(frames)) THEN Abort("panic")
    ELSE /\ cache' = IF W.x = MEMO THEN [k \in DOMAIN cache \cup {MemoKey(W.z)} |->
                                           IF k = MemoKey(W.z) THEN res ELSE cache[k]]
                     ELSE cache
         /\ UNCHANGED scry_stack
         /\ Continue(PopWork(IF W.x = MEAN THEN mean_pop(frames) ELSE frames), calls, subject, res)

\* match_pre_nock of a dynamic hint, and its body
PreHint ==
    LET fs == IF W.x = MEAN THEN mean_push(frames, T(W.x, res)) ELSE frames
    IN  PushFormula(IF W.tail THEN PopWork(fs) ELSE SetWork(fs, [NextStage EXCEPT !.y = res]),
                    subject, res, W.z, W.tail)

Work11D ==
    \/ /\ Stage(11, 1) /\ W.x = MEMO /\ MemoKey(W.z) \in DOMAIN cache
       /\ Produce(cache[MemoKey(W.z)])
    \/ /\ Stage(11, 1) /\ ~(W.x = MEMO /\ MemoKey(W.z) \in DOMAIN cache)
       /\ Compute(NextStage, W.y)
    \/ Stage(11, 2) /\ W.x = BOUT /\ Bout
    \/ Stage(11, 2) /\ W.x # BOUT /\ PreHint /\ Same
    \/ Stage(11, 3) /\ PostHint

\* step_work11s: a body that push_formula refuses ends in `break', not in a return.
Work11S ==
    \/ Stage(STATIC, 1) /\ W.x = BOUT /\ Bout
    \/ /\ Stage(STATIC, 1) /\ W.x # BOUT
       /\ LET fs == IF W.tail THEN PopWork(frames) ELSE SetWork(frames, NextStage)
              w == WorkOf(W.z, W.tail)
          IN  IF w = NoWork THEN Break(fs, calls, BAIL_EXIT) /\ UNCHANGED scry_stack
              ELSE Continue(PushWork(fs, w), calls, subject, res) /\ Same
    \/ Stage(STATIC, 2) /\ PostHint

(***************************************************************************)
(* Scry.                                                                   *)
(***************************************************************************)
\* The gate on top of the scry stack, slammed with [reff path] by a call of
\* interpret that has the rest of the scry stack.
CallScryGate ==
    LET gate == Top(scry_stack)
        core == T(HeadOf(gate), T(T(W.x, res), TailOf(TailOf(gate))))
    IN  /\ UNCHANGED cache
        /\ scry_stack' = Pop(scry_stack)
        /\ Interpret(SetWork(frames, [W EXCEPT !.y = res]),
                     [kind |-> "scry", scry |-> scry_stack, reff |-> W.x, path |-> res],
                     D(0), T(D(9), T(D(2), T(D(1), core))))

\* step_work12
Work12 ==
    \/ Stage(12, 1) /\ Compute(NextStage, W.x)
    \/ Stage(12, 2) /\ Compute([NextStage EXCEPT !.x = res], W.y)
    \/ /\ Stage(12, 3)
       /\ LET gate == Top(scry_stack)
          IN  IF scry_stack = <<>> \/ IsAtom(gate) \/ IsAtom(TailOf(gate))
              THEN Bail(frames, calls, BAIL_EXIT) /\ Same
              ELSE CallScryGate

Ret == Stage(RET, 1) /\ Continue(Pop(frames), calls, subject, res) /\ Same

Done ==
    /\ Stage(DONE, 1)
    /\ frames' = Pop(frames)
    /\ running_status' = LeaveRunning(running_status)
    /\ ret' = Result("ok", res)
    /\ UNCHANGED <<calls, subject, res, cache, scry_stack, bailed>>

(***************************************************************************)
(* A call of interpret has returned, and its caller, interpret too, goes   *)
(* on.  The item that made the call is on top of the caller's frame, unless*)
(* the call left its own frames behind.                                    *)
(***************************************************************************)
Call == Top(calls)

\* Finish the item on top of the stack with result r, the caller's locals back.
Resume(r) ==
    IF HasWork(frames) THEN Continue(PopWork(frames), Pop(calls), Call.subject, r)
    ELSE /\ ret' = Result("undefined", D(0))
         /\ UNCHANGED <<frames, calls, subject, res, running_status, bailed>>

\* util::mink
Tone ==
    CASE ret.k = "ok" -> T(D(0), ret.v)
      [] ret.k = "blocked" -> T(D(1), ret.v)
      [] ret.k = "det" -> T(D(2), ret.v)

\* jet_mink gives the tone, jet_mure a unit of its product.
JetProduct == IF Call.cont.kind = "mure" /\ ret.k # "ok" THEN D(0) ELSE Tone

\* Mutant: the caller's cache is not put back.
ReturnMinkKeepsCache ==
    /\ Call.cont.kind \in {"mink", "mure"}
    /\ \/ /\ ret.k \in {"ok", "blocked", "det"}
          /\ cache' = cache /\ scry_stack' = Call.cont.scry
          /\ Resume(JetProduct)
       \/ /\ ret.k = "crashed" /\ UNCHANGED scry_stack
          /\ Break(frames, Pop(calls),
                   IF scry_stack = Call.cont.scry THEN Result("det", ret.v) ELSE ret)
       \/ /\ ret.k = "nondet" /\ scry_stack' = Call.cont.scry
          /\ Break(frames, Pop(calls), ret)

ReturnMink ==
    /\ Call.cont.kind \in {"mink", "mure"}
    /\ \/ /\ ret.k \in {"ok", "blocked", "det"}
          /\ cache' = Call.cont.cache /\ scry_stack' = Call.cont.scry
          /\ Resume(JetProduct)
       \/ /\ ret.k = "crashed" /\ UNCHANGED scry_stack
          /\ Break(frames, Pop(calls),
                   IF scry_stack = Call.cont.scry THEN Result("det", ret.v) ELSE ret)
       \/ /\ ret.k = "nondet" /\ scry_stack' = Call.cont.scry
          /\ Break(frames, Pop(calls), ret)

ReturnBout ==
    /\ Call.cont.kind = "bout"
    /\ UNCHANGED scry_stack
    /\ IF ret.k = "ok" THEN Resume(ret.v) /\ UNCHANGED cache
       ELSE Break(frames, Pop(calls), ret)

\* The rest of step_work12: every failure is a `return Err' of the caller.
ReturnScry ==
    LET outer == Pop(calls)
        crashed == Result("crashed", D(0))
    IN  /\ Call.cont.kind = "scry"
        /\ UNCHANGED cache
        /\ CASE ret.k = "ok" /\ IsCell(ret.v) /\ IsCell(TailOf(ret.v)) ->
                   Resume(TailOf(TailOf(ret.v))) /\ scry_stack' = Call.cont.scry
             [] ret.k = "ok" /\ IsCell(ret.v) /\ IsAtom(TailOf(ret.v)) ->
                   /\ Bail(mean_push(frames, T(HUNK, T(Call.cont.reff, Call.cont.path))), outer, crashed)
                   /\ UNCHANGED scry_stack
             [] OTHER ->
                   /\ Bail(frames, outer,
                           CASE ret.k = "ok" /\ ret.v = D(0) -> Result("blocked", Call.cont.path)
                             [] ret.k = "ok" /\ ret.v # D(0) -> crashed
                             [] ret.k \in {"det", "crashed"} -> Result("crashed", ret.v)
                             [] ret.k = "nondet" -> ret
                             [] ret.k = "blocked" -> BAIL_FAIL)
                   /\ UNCHANGED scry_stack

(***************************************************************************)
(* The specification.                                                      *)
(***************************************************************************)
Init ==
    /\ program \in Programs
    /\ frames = <<>> /\ calls = <<>>
    /\ subject = D(0) /\ res = D(0)
    /\ cache = EmptyCache /\ scry_stack = <<>>
    /\ running_status = RUNNING_IDLE
    /\ ret = None /\ bailed = "no" /\ cancelled = FALSE /\ steps = 0

Start ==
    /\ calls = <<>>
    /\ Same
    /\ Interpret(<<>>, [kind |-> "top"], program[1], program[2])
    /\ UNCHANGED <<program, cancelled, steps>>

Step ==
    /\ calls # <<>> /\ ret = None /\ HasWork(frames)
    /\ \/ Work0 \/ Work1 \/ Work2 \/ Work3 \/ Work4 \/ Work5 \/ Work6 \/ Work7 \/ Work8
       \/ Work9 \/ Work10 \/ WorkCons \/ Work11D \/ Work11S \/ Work12 \/ Ret \/ Done
    /\ steps < MaxSteps /\ steps' = steps + 1
    /\ UNCHANGED <<program, cancelled>>

\* interpret looks for a work item on a frame that has none.
NoItem ==
    /\ calls # <<>> /\ ret = None /\ ~HasWork(frames)
    /\ Abort("undefined")
    /\ UNCHANGED <<program, cancelled, steps>>

Finished == ret.k \in {"panic", "undefined"} \/ (ret # None /\ Len(calls) = 1)

Return ==
    /\ ret # None /\ ~Finished
    /\ ReturnMink \/ ReturnBout \/ ReturnScry
    /\ UNCHANGED <<program, cancelled, steps>>

\* NockCancelToken::cancel, by another thread; it has no effect when idle or
\* already cancelled.
Cancel ==
    /\ steps \in CancelSteps
    /\ running_status > RUNNING_IDLE
    /\ running_status' = -running_status
    /\ cancelled' = TRUE
    /\ UNCHANGED <<program, frames, subject, res, calls, cache, scry_stack, ret, bailed, steps>>

Next == Start \/ Step \/ NoItem \/ Return \/ Cancel

Spec == Init /\ [][Next]_vars

(***************************************************************************)
(* Properties.                                                             *)
(***************************************************************************)
\* Work items are the ones push_formula makes; while no call has returned early,
\* interpret counts at most the open calls as running, negated once cancelled.
TypeOK ==
    /\ \A i \in 1 .. Len(frames) : \A j \in 1 .. Len(frames[i].work) :
          frames[i].work[j].op \in 0 .. 12 \cup {CONS, STATIC, RET, DONE}
    /\ \A i \in 1 .. Len(calls) : calls[i].frame \in 0 .. Len(frames) \/ bailed = "inner"
    /\ running_status \in Int /\ (bailed = "no" => running_status \in -Len(calls) .. Len(calls))
    /\ ret.k \in {"none", "ok", "blocked", "crashed", "det", "nondet", "panic", "undefined"}
    /\ bailed \in {"no", "outer", "inner"}

\* After interpret has returned to the program, cancelled or not, its context
\* is idle again exactly when no call of interpret, the outermost or an inner
\* one, has left by the `return' of try_or_bail! or `?': each of those leaves
\* running_status away from idle for good.  Without one, no frame and no scry
\* gate is left either, and an error leaves no entry in the cache.
IdleAgain ==
    Finished /\ ret.k # "panic" =>
        /\ running_status = RUNNING_IDLE <=> bailed = "no"
        /\ bailed = "no" =>
              /\ frames = <<>> /\ scry_stack = <<>>
              /\ ret.k # "ok" => cache = EmptyCache

(***************************************************************************)
(* The invariant that makes TypeOK and IdleAgain inductive.                *)
(***************************************************************************)
\* What push_formula pushes; RET and DONE are the first items of a frame.
Ops == 0 .. 12 \cup {CONS, STATIC}

IsSeq(s) == s \in Seq(Range(s))
IsWork(w) == DOMAIN w = {"op", "todo", "x", "y", "z", "tail"} /\ w.op \in Ops \cup {RET, DONE}
IsFrame(f) ==
    /\ DOMAIN f = {"work", "mean"}
    /\ IsSeq(f.work)
    /\ \A j \in 1 .. Len(f.work) : IsWork(f.work[j])
IsStack(fs) == IsSeq(fs) /\ \A i \in 1 .. Len(fs) : IsFrame(fs[i])
AreCalls(cs) == IsSeq(cs) /\ \A i \in 1 .. Len(cs) : cs[i].frame \in Nat

\* A call that has returned early is counted as running still, beside the n
\* that are.
Beyond(status, n) == status > n \/ status < -n

StateInv ==
    /\ IsStack(frames)
    /\ AreCalls(calls)
    /\ running_status \in Int
    /\ bailed \in {"no", "outer", "inner"}
    /\ ret.k \in {"none", "ok", "blocked", "crashed", "det", "nondet", "panic", "undefined"}
    /\ ret.k = "none" => ret = None
    /\ ret.k # "none" => calls # <<>>
    /\ bailed = "outer" => ret.k # "none" /\ Len(calls) = 1 /\ calls[1].frame = 0
    /\ bailed # "no" =>
          Beyond(running_status, IF ret.k \in {"none", "panic"} THEN Len(calls) ELSE Len(calls) - 1)

\* The frames of open calls: the first one of each call ends with DONE, the
\* others with RET; below the first frame of a call is the item that made it.
Stacked(fs, cs) ==
    /\ \A i \in 1 .. Len(fs) :
          /\ Len(fs[i].work) > 0
          /\ fs[i].work[1].op = IF \E k \in 1 .. Len(cs) : i = cs[k].frame + 1 THEN DONE ELSE RET
          /\ \A j \in 2 .. Len(fs[i].work) : fs[i].work[j].op \in Ops
    /\ \A k \in 1 .. Len(cs) :
          /\ cs[k].frame < Len(fs)
          /\ k = 1 => cs[k].frame = 0
          /\ k > 1 => cs[k].frame > 0 /\ Len(fs[cs[k].frame].work) > 1
          /\ \A j \in 1 .. k - 1 : cs[j].frame < cs[k].frame
    /\ cs = <<>> => fs = <<>>

\* The call has left its frames, and the item that made it is on top again.
Unwound(fs, cs) ==
    /\ cs # <<>> /\ Len(fs) = Top(cs).frame
    /\ Stacked(fs, Pop(cs))
    /\ Len(cs) > 1 => Len(TopFrame(fs).work) > 1

\* The first call that runs under other scry gates than the program has none
\* to put back.
Scried(call) == call.cont.kind \in {"mink", "mure", "scry"}
ScryInv(cs, gates) ==
    /\ \A i \in 1 .. Len(cs) :
          Scried(cs[i]) /\ (\A j \in 1 .. i - 1 : ~Scried(cs[j])) => cs[i].cont.scry = <<>>
    /\ (\A i \in 1 .. Len(cs) : ~Scried(cs[i])) => gates = <<>>

Outermost(cs) == cs # <<>> => cs[1].cont.kind = "top" /\ cs[1].cache = EmptyCache

\* A call goes on, or is about to return, with the status of cancel or without.
GoesOn(fs, cs, gates, status) ==
    /\ Stacked(fs, cs) /\ ScryInv(cs, gates) /\ Outermost(cs)
    /\ status \in {Len(cs), -Len(cs)}
Returns(fs, cs, gates, status) ==
    /\ Unwound(fs, cs) /\ ScryInv(cs, gates) /\ Outermost(cs)
    /\ status \in {Len(cs) - 1, 1 - Len(cs)}

\* While no call has returned early.
CallInv ==
    /\ ret.k \in {"none", "panic"} => GoesOn(frames, calls, scry_stack, running_status)
    /\ ret.k \in {"ok", "det", "nondet"} => Returns(frames, calls, scry_stack, running_status)
    /\ ret.k \notin {"blocked", "crashed", "undefined"}
    /\ calls = <<>> \/ (Len(calls) = 1 /\ ret.k \in {"det", "nondet"}) => cache = EmptyCache

IInv == StateInv /\ (bailed = "no" => CallInv)
=============================================================================
