---------------------------- MODULE MCInterpreter ----------------------------
(***************************************************************************)
(* Interpreter on formulas enumerated by shape.                            *)
(***************************************************************************)
EXTENDS InterpreterNock

A(n) == D(n)
C(a, b) == T(a, b)
C3(a, b, c) == T(a, T(b, c))
C4(a, b, c, d) == T(a, T(b, T(c, d)))

Axis(n) == C(A(0), A(n))
Const(n) == C(A(1), n)

\* Leaves, and formulas the interpreter refuses.
Leaves == {Axis(1), Axis(2), Axis(3), Axis(0), Axis(5), Axis(4), Const(A(0)), Const(A(1)), Const(C(A(3), A(4)))}
Malformed == {A(5), C(A(13), A(0)), C(A(0), C(A(1), A(1))), C(A(2), A(0)), C3(A(6), Axis(1), A(0))}

Edits(L, M) == {C3(A(10), C(A(n), x), y) : n \in {0, 1, 2, 7}, x \in L, y \in M}
Hints(L, M) == {C3(A(11), C(t, x), y) : t \in {MEMO, MEAN, FAST, BOUT, SLOG}, x \in L, y \in M}
               \cup {C3(A(11), t, y) : t \in {MEMO, MEAN, FAST, BOUT, SLOG}, y \in M}
Pairs(L, M) == {C(x, y) : x \in L, y \in M}
               \cup {C3(A(op), x, y) : op \in {5, 7, 8}, x \in L, y \in M}
               \cup {C3(A(2), x, Const(y)) : x \in L, y \in M}
Unary(L) == {C(A(op), x) : op \in {3, 4}, x \in L}
            \cup {C4(A(6), x, Const(A(8)), Axis(3)) : x \in L}

Once(L, M) == Unary(L) \cup Pairs(L, M) \cup Hints(L, M) \cup Edits(L, M)

\* A core whose arm at axis 2 is f, called: [9 2 1 core].
CallCore(f) == C3(A(9), A(2), Const(C3(f, A(1), A(2))))

\* A body that scries, and one that does not, under %memo.
MemoScry == C3(A(11), C(MEMO, Const(A(0))), C3(A(12), Axis(2), Axis(3)))
MemoInc == C3(A(11), C(MEMO, Const(A(0))), C(A(4), Const(A(3))))

\* Gates for ++mink: null, [~ ~], a value, a crash, pass-through, and two that
\* memoize, on the subject that scries, what they go on from.
Gate(body) == C3(body, C(A(0), A(0)), A(0))
MemoGate(f) == Gate(C3(Const(A(0)), Const(A(0)), C(A(4), C3(A(7), Const(C(A(1), A(2))), f))))
Gates == {NullScry, Gate(Const(C(A(0), A(0)))), Gate(Const(C3(A(0), A(0), A(7)))),
          Gate(Axis(0)), PassThruScry, MemoGate(MemoScry), MemoGate(MemoInc)}

VirtualOf(s, f, gate) == C3(A(9), A(2), Const(C3(MinkBattery, C(C(s, f), gate), A(0))))
MureOf(f) == C3(A(9), A(2), Const(C3(MureBattery, C3(f, A(0), A(0)), A(0))))

Subjects == {C(A(1), A(2)), C(C(A(0), A(8)), A(1))}

\* Every operation on leaves, and on the formulas it refuses.
Flat == Once(Leaves, Leaves) \cup Once({Axis(1)}, Malformed) \cup Once(Malformed, {Axis(1)})
        \cup Malformed \cup {C3(A(12), Axis(2), Axis(3))}

\* Nested: operations that move the subject, cut the frame or mark the trace,
\* under operations that need the subject and the trace back.
Movers == {C3(A(7), Const(C(A(3), A(4))), Axis(2)), C3(A(8), Axis(3), Axis(2)),
           C3(A(2), Const(A(6)), Const(Axis(1))), CallCore(Axis(6)), CallCore(Axis(0)),
           C3(A(7), Const(A(9)), Axis(2)),
           C3(A(11), C(MEAN, Axis(3)), Axis(2)), C3(A(11), C(MEAN, Axis(3)), Axis(0)),
           C3(A(11), C(MEAN, Const(A(1))), CallCore(Axis(0))),
           C3(A(11), C(MEAN, Const(A(1))), C3(A(7), CallCore(Axis(6)), Axis(1))),
           C3(A(11), MEAN, Axis(2)),
           C3(A(10), C(A(0), Axis(1)), C3(A(11), C(MEAN, Axis(3)), Axis(0))),
           C3(A(11), C(MEMO, Const(A(0))), C(A(4), Axis(3))),
           C3(A(11), C(MEMO, Axis(0)), C(A(4), Axis(3))),
           C3(A(11), C(BOUT, Const(A(0))), CallCore(Axis(7))),
           C4(A(6), Axis(3), Axis(2), CallCore(Axis(6))),
           C3(A(10), C(A(2), C3(A(7), Axis(3), Axis(1))), Axis(1))}

Nested == {C(x, y) : x \in Movers, y \in Movers}
          \cup {C3(A(op), x, y) : op \in {5, 7, 8}, x \in Movers, y \in Movers}
          \cup {C3(A(11), C(MEAN, Const(A(2))), C(x, y)) : x \in Movers, y \in Movers}
          \cup {CallCore(C(x, y)) : x \in Movers, y \in Movers}

\* Virtualized computations, within one that goes on after them.
Inner == {MemoScry, Axis(2), Axis(0), C3(A(11), C(MEAN, Axis(2)), Axis(0)), CallCore(Axis(6)),
          MemoInc, C3(A(10), C(A(2), Axis(1)), Axis(2)),
          C3(A(12), Axis(2), Axis(3)), C(C3(A(12), Axis(2), Axis(3)), Axis(3)),
          C(C3(A(12), Axis(2), Axis(3)), MemoScry), C(C3(A(12), Axis(2), Axis(3)), MemoInc)}
Minks == {VirtualOf(C(A(1), A(2)), f, g) : f \in Inner, g \in Gates} \cup {MureOf(f) : f \in Inner}
Virtual == {C(x, y) : x \in Minks, y \in {Axis(3), MemoScry, MemoInc}}
           \cup {C(VirtualOf(C(A(5), A(6)), x, g), Axis(2)) : x \in Minks, g \in Gates}
           \cup {C3(A(11), C(MEAN, Axis(2)), C(x, Axis(0))) : x \in Minks}

MCPrograms == {<<s, f>> : s \in Subjects, f \in Flat \cup Nested}
              \cup {<<C(A(1), A(2)), f>> : f \in Virtual}
              \cup {<<C(A(1), A(2)), C(VirtualOf(A(0), f, NullScry), Axis(3))>> : f \in Malformed}
=============================================================================
