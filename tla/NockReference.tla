---------------------------- MODULE NockReference ----------------------------
(***************************************************************************)
(* What a Nock computation means, translated from ++mink of               *)
(* hoonc/hoon/hoon-138.hoon: the virtual Nock interpreter written in Hoon, *)
(* which the kernel's Nock code defines and the Rust interpreter jets.     *)
(*                                                                         *)
(* A computation runs at a level: the number of virtualizations (calls of  *)
(* ++mink) around it, each with its scry gate in the sequence h, the       *)
(* innermost last.  An outcome is                                          *)
(*    ok     the product v;                                                *)
(*    block  the scry gate of level d gave ~: v is the path;               *)
(*    crash  level d crashes: v is the trace, or AnyTrace when the crash   *)
(*           is that of a scry gate, run outside ++mink's own trace;       *)
(*    fuel   the evaluation is deeper than the bound of the recursion.     *)
(***************************************************************************)
EXTENDS Noun, SequencesExt

AnyTrace == D(9999)

Ok(v) == [k |-> "ok", v |-> v, d |-> 0]
Block(path, d) == [k |-> "block", v |-> path, d |-> d]
Crash(trace, d) == [k |-> "crash", v |-> trace, d |-> d]
NoFuel == [k |-> "fuel", v |-> D(0), d |-> 0]

(***************************************************************************)
(* Axes, as ++mink has them: the side of axis 2 or 3 an axis is on, the    *)
(* axis within that side, and ++mink's own ++frag and ++edit.              *)
(***************************************************************************)
cap(axis) == IF axis >= 3 * 2 ^ (HighestBit(axis) - 1) THEN 3 ELSE 2
mas(axis) == axis - 2 ^ (HighestBit(axis) - 1) * (cap(axis) - 1)

RECURSIVE Frag(_, _)
Frag(axis, noun) ==
    IF axis = 0 THEN NoNoun
    ELSE IF axis = 1 THEN noun
    ELSE IF IsAtom(noun) THEN NoNoun
    ELSE Frag(mas(axis), IF cap(axis) = 2 THEN HeadOf(noun) ELSE TailOf(noun))

RECURSIVE MinkEdit(_, _, _)
MinkEdit(axis, target, value) ==
    IF axis = 1 THEN value
    ELSE IF IsAtom(target) THEN NoNoun
    ELSE LET mutant == MinkEdit(mas(axis), IF cap(axis) = 2 THEN HeadOf(target) ELSE TailOf(target), value)
         IN  IF mutant = NoNoun THEN NoNoun
             ELSE IF cap(axis) = 2 THEN T(mutant, TailOf(target)) ELSE T(HeadOf(target), mutant)

\* The shapes of a formula, [op args], that ++mink's ?+ accepts.
WellFormed(f) ==
    /\ IsCell(f)
    /\ \/ IsCell(HeadOf(f))
       \/ LET op == Value(HeadOf(f)) a == TailOf(f)
          IN  \/ op = 0 /\ IsAtom(a)
              \/ op \in {1, 3, 4}
              \/ op \in {2, 5, 7, 8, 12} /\ IsCell(a)
              \/ op = 6 /\ IsCell(a) /\ IsCell(TailOf(a))
              \/ op = 9 /\ IsCell(a) /\ IsAtom(HeadOf(a))
              \/ op = 10 /\ IsCell(a) /\ IsCell(HeadOf(a)) /\ IsAtom(HeadOf(HeadOf(a)))
              \/ op = 11 /\ IsCell(a) /\ (IsCell(HeadOf(a)) => IsAtom(HeadOf(HeadOf(a))))

RECURSIVE Mink(_, _, _, _, _)

\* ++mink called with a sample [[subject formula] scry] at the level of h: its
\* tone.  What belongs to an outer level passes through.
MinkTone(s, f, scry, h, fuel) ==
    LET r == Mink(s, f, Append(h, scry), D(0), fuel)
    IN  CASE r.k = "ok" -> Ok(T(D(0), r.v))
          [] r.k = "block" /\ r.d = Len(h) + 1 -> Ok(T(D(1), r.v))
          [] r.k = "crash" /\ r.d = Len(h) + 1 -> Ok(T(D(2), r.v))
          [] OTHER -> r

\* The scry gate of level Len(h), slammed with [ref path] one level out.
Scry(ref, path, h, fuel) ==
    LET gate == Last(h)
    IN  IF ~IsCell(gate) \/ ~IsCell(TailOf(gate)) THEN Crash(AnyTrace, Len(h) - 1)
        ELSE Mink(T(HeadOf(gate), T(T(ref, path), TailOf(TailOf(gate)))), SlamGateFol,
                  Front(h), D(0), fuel)

Mink(s, f, h, trace, fuel) ==
    LET d == Len(h)
        op == Value(HeadOf(f))
        a == TailOf(f)
        Eval(sub, form) == Mink(sub, form, h, trace, fuel - 1)
        \* the product of form feeds the rest; anything else is the outcome
        Then(r, K(_)) == IF r.k = "ok" THEN K(r.v) ELSE r
        Exit == Crash(trace, d)
        Arm(axis, core) ==
            IF HeadOf(core) = MinkBattery /\ axis = 2 THEN
                IF Frag(24, core) = NoNoun \/ Frag(25, core) = NoNoun THEN Exit
                ELSE MinkTone(Frag(24, core), Frag(25, core), Frag(13, core), h, fuel - 1)
            ELSE IF HeadOf(core) = MureBattery /\ axis = 2 THEN
                IF Frag(6, core) = NoNoun THEN Exit
                ELSE LET ton == MinkTone(Frag(6, core), SlamGateFol, PassThruScry, h, fuel - 1)
                     IN  Then(ton, LAMBDA t : Ok(IF HeadOf(t) = D(0) THEN t ELSE D(0)))
            ELSE IF Frag(axis, core) = NoNoun THEN Exit
            ELSE Eval(core, Frag(axis, core))
        Unit(ref, path) ==
            IF d = 0 THEN Exit
            ELSE LET r == Scry(ref, path, h, fuel - 1)
                 IN  CASE r.k = "crash" /\ r.d = d - 1 -> Crash(AnyTrace, d - 1)
                       [] r.k # "ok" -> r
                       [] r.v = D(0) -> Block(path, d)
                       [] IsAtom(r.v) -> Crash(AnyTrace, d - 1)
                       [] IsAtom(TailOf(r.v)) -> Crash(T(T(HUNK, T(ref, path)), trace), d)
                       [] OTHER -> Ok(TailOf(TailOf(r.v)))
    IN  IF fuel = 0 THEN NoFuel
        ELSE IF ~WellFormed(f) THEN Exit
        ELSE IF IsCell(HeadOf(f)) THEN
            Then(Eval(s, HeadOf(f)), LAMBDA p : Then(Eval(s, a), LAMBDA q : Ok(T(p, q))))
        ELSE CASE op = 0 -> IF Frag(Value(a), s) = NoNoun THEN Exit ELSE Ok(Frag(Value(a), s))
          [] op = 1 -> Ok(a)
          [] op = 2 -> Then(Eval(s, HeadOf(a)), LAMBDA p :
                            Then(Eval(s, TailOf(a)), LAMBDA q : Eval(p, q)))
          [] op = 3 -> Then(Eval(s, a), LAMBDA p : Ok(IF IsCell(p) THEN YES ELSE NO))
          [] op = 4 -> Then(Eval(s, a), LAMBDA p : IF IsCell(p) THEN Exit ELSE Ok(D(Value(p) + 1)))
          [] op = 5 -> Then(Eval(s, HeadOf(a)), LAMBDA p :
                            Then(Eval(s, TailOf(a)), LAMBDA q : Ok(IF p = q THEN YES ELSE NO)))
          [] op = 6 -> Then(Eval(s, HeadOf(a)), LAMBDA p :
                            CASE p = YES -> Eval(s, HeadOf(TailOf(a)))
                              [] p = NO -> Eval(s, TailOf(TailOf(a)))
                              [] OTHER -> Exit)
          [] op = 7 -> Then(Eval(s, HeadOf(a)), LAMBDA p : Eval(p, TailOf(a)))
          [] op = 8 -> Then(Eval(s, HeadOf(a)), LAMBDA p : Eval(T(p, s), TailOf(a)))
          [] op = 9 -> Then(Eval(s, TailOf(a)), LAMBDA p :
                            IF IsAtom(p) THEN (IF Frag(Value(HeadOf(a)), p) = NoNoun THEN Exit
                                               ELSE Eval(p, Frag(Value(HeadOf(a)), p)))
                            ELSE Arm(Value(HeadOf(a)), p))
          [] op = 10 -> IF HeadOf(HeadOf(a)) = D(0) THEN Exit
                        ELSE Then(Eval(s, TailOf(a)), LAMBDA p :
                             Then(Eval(s, TailOf(HeadOf(a))), LAMBDA q :
                                  LET m == MinkEdit(Value(HeadOf(HeadOf(a))), p, q)
                                  IN  IF m = NoNoun THEN Exit ELSE Ok(m)))
          [] op = 11 /\ IsAtom(HeadOf(a)) -> Eval(s, TailOf(a))
          [] op = 11 /\ IsCell(HeadOf(a)) ->
                 Then(Eval(s, TailOf(HeadOf(a))), LAMBDA p :
                      LET tag == HeadOf(HeadOf(a))
                      IN  Mink(s, TailOf(a), h,
                               IF tag = MEAN THEN T(T(tag, p), trace) ELSE trace, fuel - 1))
          [] op = 12 -> Then(Eval(s, HeadOf(a)), LAMBDA p :
                             Then(Eval(s, TailOf(a)), LAMBDA q : Unit(p, q)))
          [] OTHER -> Exit

\* The outcome of a formula outside every virtualization.
Nock(s, f, fuel) == Mink(s, f, <<>>, D(0), fuel)
=============================================================================
