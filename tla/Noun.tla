-------------------------------- MODULE Noun --------------------------------
(***************************************************************************)
(* Nouns (nockvm/src/noun.rs): an atom is a natural number, a cell a pair  *)
(* of nouns.  An atom n is the one-tuple <<n>>, a cell the pair <<h, t>>;  *)
(* the empty tuple stands for "no noun", the Err of the Rust operations.   *)
(*                                                                         *)
(* An atom of the implementation is direct (it fits a machine word less    *)
(* its tag bit) or a vector of words; the operations whose code differs    *)
(* between the two are modelled on words of WordBits bits.                 *)
(***************************************************************************)
EXTENDS Naturals, Sequences, Functions

CONSTANT WordBits  \* bits of a machine word (64)

ASSUME WordBitsAssumption == WordBits \in Nat \ {0}

D(n) == <<n>>
T(h, t) == <<h, t>>

NoNoun == <<>>
IsAtom(n) == Len(n) = 1
IsCell(n) == Len(n) = 2
Value(n) == n[1]
HeadOf(n) == n[1]
TailOf(n) == n[2]

YES == D(0)
NO == D(1)

\* Numbers of bits: the position of the highest one bit of n > 0.
HighestBit(n) == CHOOSE k \in 0 .. n : 2 ^ k <= n /\ n < 2 ^ (k + 1)

Bit(n, i) == (n \div 2 ^ i) % 2

(***************************************************************************)
(* Axes.  The path to axis a: the bits below the highest one, TRUE for     *)
(* "descend into the tail".                                                *)
(***************************************************************************)
\* DirectAxisIterator, and the loop of slot_direct
DirectPath(axis) ==
    [i \in 1 .. HighestBit(axis) |-> Bit(axis, HighestBit(axis) - i) = 1]

\* The words of an indirect atom, least significant first.
WordsValue(ws) == SumFunction([i \in 1 .. Len(ws) |-> ws[i] * 2 ^ (WordBits * (i - 1))])

\* The highest one bit of a vector of words that is not all zeros: leading
\* zero words are skipped.
IndirectHighest(ws) ==
    LET top == CHOOSE i \in 1 .. Len(ws) :
                  ws[i] # 0 /\ \A j \in i + 1 .. Len(ws) : ws[j] = 0
    IN  (top - 1) * WordBits + HighestBit(ws[top])

\* IndirectAxisIterator, and the loop of slot_indirect
IndirectPath(ws) ==
    LET high == IndirectHighest(ws)
    IN  [i \in 1 .. high |->
            LET idx == high - i
            IN  Bit(ws[1 + idx \div WordBits], idx % WordBits) = 1]

\* An atom's representation: direct if it fits a word less its tag bit.
IsDirect(n) == n < 2 ^ (WordBits - 1)

\* The words of an indirect atom, the highest not zero.
WordsOf(n) ==
    [i \in 1 .. 1 + HighestBit(n) \div WordBits |-> (n \div 2 ^ ((i - 1) * WordBits)) % 2 ^ WordBits]

\* The iterator that the representation of the axis asks for.
AxisPath(axis) == IF IsDirect(axis) THEN DirectPath(axis) ELSE IndirectPath(WordsOf(axis))

\* slot_direct, slot_indirect: follow a path, which fails at an atom.
Descend(noun, path) ==
    LET at[i \in 0 .. Len(path)] ==
          IF i = 0 THEN noun
          ELSE IF ~IsCell(at[i - 1]) THEN NoNoun
          ELSE IF path[i] THEN TailOf(at[i - 1]) ELSE HeadOf(at[i - 1])
    IN  at[Len(path)]

\* slot_atom: the noun at an axis, or NoNoun.
Slot(noun, axis) == IF axis = 0 THEN NoNoun ELSE Descend(noun, AxisPath(axis))

\* edit of interpreter.rs: tree with the noun at axis replaced by patch.
\* Where the tree has no such axis the code panics: NoNoun.
\* The cells on the way are built again, the lowest first.
EditPath(path, patch, tree) ==
    LET on(i) == Descend(tree, SubSeq(path, 1, Len(path) - i))
        built[i \in 0 .. Len(path)] ==
          IF i = 0 THEN patch
          ELSE IF path[Len(path) - i + 1] THEN T(HeadOf(on(i)), built[i - 1])
          ELSE T(built[i - 1], TailOf(on(i)))
    IN  IF on(0) = NoNoun THEN NoNoun ELSE built[Len(path)]

Edit(axis, patch, tree) ==
    IF axis = 0 THEN NoNoun ELSE EditPath(AxisPath(axis), patch, tree)

(***************************************************************************)
(* inc of interpreter.rs on an indirect atom: the lowest zero bit becomes  *)
(* one, the ones below it zero; if there is no zero bit, one word more.    *)
(***************************************************************************)
BitOfWords(ws, i) == Bit(ws[1 + i \div WordBits], i % WordBits)

FirstZero(ws) ==
    LET len == Len(ws) * WordBits
        zeros == {i \in 0 .. len - 1 : BitOfWords(ws, i) = 0}
    IN  IF zeros = {} THEN len ELSE CHOOSE i \in zeros : \A j \in zeros : i <= j

WordOfBits(bit(_), k) ==
    SumFunction([b \in 0 .. WordBits - 1 |-> 2 ^ b * bit((k - 1) * WordBits + b)])

IncWords(ws) ==
    LET len == Len(ws) * WordBits
        first == FirstZero(ws)
        size == IF first = len THEN Len(ws) + 1 ELSE Len(ws)
        bit(i) == IF i < first THEN 0 ELSE IF i = first THEN 1
                  ELSE IF i >= len THEN 0 ELSE BitOfWords(ws, i)
    IN  [k \in 1 .. size |-> WordOfBits(bit, k)]

Inc(atom) ==
    IF IsDirect(Value(atom)) THEN D(Value(atom) + 1)
    ELSE D(WordsValue(IncWords(WordsOf(Value(atom)))))

(***************************************************************************)
(* Lists: cells ended by an atom.                                          *)
(***************************************************************************)
Rest(list, k) == Descend(list, [i \in 1 .. k |-> TRUE])

ListLen(list) ==
    LET from[k \in Nat] == IF IsAtom(Rest(list, k)) THEN k ELSE from[k + 1]
    IN  from[0]

\* weld: the items of list in front of end
Weld(list, end) ==
    LET n == ListLen(list)
        welded[i \in 0 .. n] == IF i = 0 THEN end ELSE T(HeadOf(Rest(list, n - i)), welded[i - 1])
    IN  welded[n]

(***************************************************************************)
(* Nouns that interpret and ++mink both know.                              *)
(***************************************************************************)
\* Hint tags: the five tags that push on the trace are one, as are the tags
\* without an effect on the result.
MEMO == D(2001)
MEAN == D(2002)
FAST == D(2003)
BOUT == D(2004)
SLOG == D(2005)

HUNK == D(2010)

\* Batteries of the two jetted cores: ++mink itself and ++mure.
MinkBattery == D(3001)
MureBattery == D(3002)

SlamGateFol == T(D(9), T(D(2), T(D(0), D(1))))

\* |=(a=^ ``.*(a [%12 [%0 2] %0 3])), and |=(^ ~)
PassThruScry ==
    LET sig == T(D(1), D(0))
        cry == T(D(12), T(T(D(0), D(2)), T(D(0), D(3))))
        res == T(D(2), T(T(D(0), D(6)), T(D(1), cry)))
    IN  T(T(sig, T(sig, res)), T(T(D(0), D(0)), D(0)))

NullScry == T(T(D(1), D(0)), T(T(D(0), D(0)), D(0)))
=============================================================================
