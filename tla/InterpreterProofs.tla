-------------------------- MODULE InterpreterProofs --------------------------
(***************************************************************************)
(* The stack discipline of interpret, for any programs and any use of the  *)
(* cancel token: unless a call returns early or the process panics, every  *)
(* way out of a computation leaves the context idle.                       *)
(***************************************************************************)
EXTENDS Interpreter, TLAPS

(***************************************************************************)
(* Stacks.                                                                 *)
(***************************************************************************)
\* A sequence over some set is one over its own elements.
LEMMA SeqOfItself == ASSUME NEW X, NEW s \in Seq(X) PROVE IsSeq(s)
<1>1. Len(s) \in Nat /\ s \in [1 .. Len(s) -> X]
  OBVIOUS
<1>2. s \in [1 .. Len(s) -> Range(s)]
  BY <1>1, Zenon DEF Range
<1> QED
  BY <1>1, <1>2 DEF IsSeq

\* What a sequence is a function on.
LEMMA SeqLen == ASSUME NEW s, IsSeq(s) PROVE Len(s) \in Nat /\ DOMAIN s = 1 .. Len(s) /\ (Len(s) = 0 <=> s = <<>>)
BY DEF IsSeq

\* Push, pop, unwinding and replacing the item on top.
LEMMA SeqAppend ==
    ASSUME NEW s, IsSeq(s), NEW x
    PROVE  /\ IsSeq(Append(s, x)) /\ Len(Append(s, x)) = Len(s) + 1
           /\ \A i \in 1 .. Len(s) : Append(s, x)[i] = s[i]
           /\ Append(s, x)[Len(s) + 1] = x
<1> DEFINE X == Range(s) \cup {x}
<1>1. s \in Seq(X) /\ x \in X
  BY DEF IsSeq
<1> HIDE DEF X
<1>2. Append(s, x) \in Seq(X)
  BY <1>1
<1>3. /\ Len(Append(s, x)) = Len(s) + 1
      /\ \A i \in 1 .. Len(s) : Append(s, x)[i] = s[i]
      /\ Append(s, x)[Len(s) + 1] = x
  BY <1>1
<1> QED
  BY <1>2, <1>3, SeqOfItself, Zenon

\* A prefix: what is left when the stack is unwound.
LEMMA SeqTake ==
    ASSUME NEW s, IsSeq(s), NEW n \in 0 .. Len(s)
    PROVE  /\ IsSeq(SubSeq(s, 1, n)) /\ Len(SubSeq(s, 1, n)) = n
           /\ \A i \in 1 .. n : SubSeq(s, 1, n)[i] = s[i]
<1> DEFINE X == Range(s)
<1>1. s \in Seq(X)
  BY Zenon DEF IsSeq
<1> HIDE DEF X
<1>2. SubSeq(s, 1, n) \in Seq(X)
  BY <1>1
<1>3. /\ Len(SubSeq(s, 1, n)) = n
      /\ \A i \in 1 .. n : SubSeq(s, 1, n)[i] = s[i]
  BY <1>1
<1> QED
  BY <1>2, <1>3, SeqOfItself, Zenon

\* What is below the top.
LEMMA SeqPop ==
    ASSUME NEW s, IsSeq(s), s # <<>>
    PROVE  /\ IsSeq(Pop(s)) /\ Len(Pop(s)) = Len(s) - 1
           /\ \A i \in 1 .. Len(s) - 1 : Pop(s)[i] = s[i]
<1>1. Len(s) \in Nat /\ Len(s) - 1 \in 0 .. Len(s)
  BY SeqLen
<1> QED
  BY <1>1, SeqTake, Zenon DEF Pop

\* The element on top is another one.
LEMMA SeqSet ==
    ASSUME NEW fs, IsSeq(fs), fs # <<>>, NEW f
    PROVE  /\ IsSeq(SetFrame(fs, f)) /\ Len(SetFrame(fs, f)) = Len(fs)
           /\ \A i \in 1 .. Len(fs) : SetFrame(fs, f)[i] = IF i = Len(fs) THEN f ELSE fs[i]
<1> DEFINE X == Range(fs) \cup {f}
<1>1. fs \in Seq(X) /\ f \in X /\ Len(fs) \in 1 .. Len(fs)
  BY SeqLen DEF IsSeq
<1> HIDE DEF X
<1>2. SetFrame(fs, f) \in Seq(X)
  BY <1>1 DEF SetFrame
<1>3. Len(SetFrame(fs, f)) = Len(fs)
  BY <1>1 DEF SetFrame
<1>4. \A i \in 1 .. Len(fs) : SetFrame(fs, f)[i] = IF i = Len(fs) THEN f ELSE fs[i]
  BY <1>1 DEF SetFrame
<1> QED
  BY <1>2, <1>3, <1>4, SeqOfItself, Zenon

\* A frame with other work on it.
LEMMA FrameWork ==
    ASSUME NEW f, IsFrame(f), NEW ws, IsSeq(ws), \A j \in 1 .. Len(ws) : IsWork(ws[j])
    PROVE  IsFrame([f EXCEPT !.work = ws]) /\ [f EXCEPT !.work = ws].work = ws
<1>1. /\ [f EXCEPT !.work = ws].work = ws
      /\ DOMAIN [f EXCEPT !.work = ws] = {"work", "mean"}
  BY Zenon DEF IsFrame
<1> QED
  BY <1>1, Zenon DEF IsFrame

\* A frame with another mean stack has the same items.
LEMMA FrameMean ==
    ASSUME NEW f, IsFrame(f), NEW m
    PROVE  IsFrame([f EXCEPT !.mean = m]) /\ [f EXCEPT !.mean = m].work = f.work
<1>1. /\ [f EXCEPT !.mean = m].work = f.work
      /\ DOMAIN [f EXCEPT !.mean = m] = {"work", "mean"}
  BY Zenon DEF IsFrame
<1> QED
  BY <1>1, Zenon DEF IsFrame

\* The item that interpret takes next is one that push_formula pushed.
OnTop(fs) == fs # <<>> /\ Len(TopFrame(fs).work) > 1

\* gs is fs but for the frame on top.
SameBelow(fs, gs) ==
    /\ IsStack(gs) /\ Len(gs) = Len(fs)
    /\ \A i \in 1 .. Len(fs) - 1 : gs[i] = fs[i]

\* The frame on top is a frame, and its items are a sequence.
LEMMA StackTop ==
    ASSUME NEW fs, IsStack(fs), fs # <<>>
    PROVE  /\ Len(fs) \in Nat \ {0} /\ IsFrame(TopFrame(fs))
           /\ IsSeq(TopFrame(fs).work) /\ Len(TopFrame(fs).work) \in Nat
<1>1. Len(fs) \in Nat \ {0}
  BY SeqLen, Zenon DEF IsStack
<1>2. IsFrame(TopFrame(fs))
  BY <1>1 DEF IsStack, TopFrame, Top
<1> QED
  BY <1>1, <1>2, SeqLen, Zenon DEF IsFrame

\* A frame in the place of the one on top.
LEMMA FrameSet ==
    ASSUME NEW fs, IsStack(fs), fs # <<>>, NEW f, IsFrame(f)
    PROVE  SameBelow(fs, SetFrame(fs, f)) /\ SetFrame(fs, f) # <<>> /\ TopFrame(SetFrame(fs, f)) = f
<1> DEFINE gs == SetFrame(fs, f)
<1>1. /\ IsSeq(gs) /\ Len(gs) = Len(fs)
      /\ \A i \in 1 .. Len(fs) : gs[i] = IF i = Len(fs) THEN f ELSE fs[i]
  BY SeqSet, Zenon DEF IsStack
<1>2. Len(fs) \in Nat \ {0}
  BY StackTop, Zenon
<1> HIDE DEF gs
<1>3. IsStack(gs)
  BY <1>1, <1>2, Zenon DEF IsStack
<1>4. gs # <<>> /\ TopFrame(gs) = f
  BY <1>1, <1>2, SeqLen DEF TopFrame, Top
<1> QED
  BY <1>1, <1>2, <1>3, <1>4 DEF SameBelow, gs

\* Push and pop of a work item, and of an item of the mean stack.
LEMMA PushTop ==
    ASSUME NEW fs, IsStack(fs), fs # <<>>, NEW w, IsWork(w)
    PROVE  /\ SameBelow(fs, PushWork(fs, w)) /\ PushWork(fs, w) # <<>>
           /\ TopFrame(PushWork(fs, w)).work = Append(TopFrame(fs).work, w)
<1> DEFINE f == TopFrame(fs)
           ws == Append(f.work, w)
<1>1. IsFrame(f) /\ IsSeq(f.work) /\ Len(f.work) \in Nat
  BY StackTop, Zenon
<1>2. /\ IsSeq(ws) /\ Len(ws) = Len(f.work) + 1
      /\ \A i \in 1 .. Len(f.work) : ws[i] = f.work[i]
      /\ ws[Len(f.work) + 1] = w
  BY <1>1, SeqAppend, Zenon
<1> HIDE DEF ws
<1>3. \A j \in 1 .. Len(ws) : IsWork(ws[j])
  BY <1>1, <1>2 DEF IsFrame
<1>4. IsFrame([f EXCEPT !.work = ws]) /\ [f EXCEPT !.work = ws].work = ws
  BY <1>1, <1>2, <1>3, FrameWork, Zenon
<1>5. PushWork(fs, w) = SetFrame(fs, [f EXCEPT !.work = ws])
  BY Zenon DEF PushWork, ws
<1> QED
  BY <1>4, <1>5, FrameSet, Zenon DEF ws

\* Popping an item changes the frame on top only.
LEMMA PopTop ==
    ASSUME NEW fs, IsStack(fs), HasWork(fs)
    PROVE  /\ SameBelow(fs, PopWork(fs)) /\ PopWork(fs) # <<>>
           /\ TopFrame(PopWork(fs)).work = Pop(TopFrame(fs).work)
<1> DEFINE f == TopFrame(fs)
           ws == Pop(f.work)
<1>0. fs # <<>> /\ f.work # <<>>
  BY Zenon DEF HasWork
<1>1. IsFrame(f) /\ IsSeq(f.work) /\ Len(f.work) \in Nat
  BY <1>0, StackTop, Zenon
<1>2. /\ IsSeq(ws) /\ Len(ws) = Len(f.work) - 1
      /\ \A i \in 1 .. Len(f.work) - 1 : ws[i] = f.work[i]
  BY <1>0, <1>1, SeqPop, Zenon
<1> HIDE DEF ws
<1>3. \A j \in 1 .. Len(ws) : IsWork(ws[j])
  BY <1>1, <1>2 DEF IsFrame
<1>4. IsFrame([f EXCEPT !.work = ws]) /\ [f EXCEPT !.work = ws].work = ws
  BY <1>1, <1>2, <1>3, FrameWork, Zenon
<1>5. PopWork(fs) = SetFrame(fs, [f EXCEPT !.work = ws])
  BY Zenon DEF PopWork, ws
<1> QED
  BY <1>0, <1>4, <1>5, FrameSet, Zenon DEF ws

\* So do mean_push and mean_pop, which leave its items alone.
LEMMA MeanTop ==
    ASSUME NEW fs, IsStack(fs), fs # <<>>, NEW noun, NEW gs \in {mean_push(fs, noun), mean_pop(fs)}
    PROVE  SameBelow(fs, gs) /\ gs # <<>> /\ TopFrame(gs).work = TopFrame(fs).work
<1> DEFINE f == TopFrame(fs)
<1>1. IsFrame(f)
  BY StackTop, Zenon
<1>2. PICK m : gs = SetFrame(fs, [f EXCEPT !.mean = m])
  BY Zenon DEF mean_push, mean_pop
<1>3. IsFrame([f EXCEPT !.mean = m]) /\ [f EXCEPT !.mean = m].work = f.work
  BY <1>1, FrameMean, Zenon
<1> QED
  BY <1>2, <1>3, FrameSet, Zenon

\* Frames and calls still match when only the items on top have changed.
LEMMA StackedTop ==
    ASSUME NEW fs, IsStack(fs), fs # <<>>, NEW cs, AreCalls(cs), Stacked(fs, cs),
           NEW gs, SameBelow(fs, gs), Len(TopFrame(gs).work) > 0,
           TopFrame(gs).work[1].op = TopFrame(fs).work[1].op,
           \A j \in 2 .. Len(TopFrame(gs).work) : TopFrame(gs).work[j].op \in Ops
    PROVE  Stacked(gs, cs)
<1>1. Len(fs) \in Nat \ {0} /\ Len(gs) = Len(fs) /\ \A i \in 1 .. Len(fs) - 1 : gs[i] = fs[i]
  BY StackTop, Zenon DEF SameBelow
<1>2. Len(cs) \in Nat /\ \A k \in 1 .. Len(cs) : cs[k].frame \in Nat
  BY SeqLen, Zenon DEF AreCalls
<1>3. TopFrame(gs) = gs[Len(fs)] /\ TopFrame(fs) = fs[Len(fs)]
  BY <1>1, Zenon DEF TopFrame, Top
<1>4. ASSUME NEW i \in 1 .. Len(gs)
      PROVE  /\ Len(gs[i].work) > 0
             /\ gs[i].work[1].op = IF \E k \in 1 .. Len(cs) : i = cs[k].frame + 1 THEN DONE ELSE RET
             /\ \A j \in 2 .. Len(gs[i].work) : gs[i].work[j].op \in Ops
  <2>1. fs[i].work[1].op = IF \E k \in 1 .. Len(cs) : i = cs[k].frame + 1 THEN DONE ELSE RET
    BY <1>1, Zenon DEF Stacked
  <2>2. CASE i = Len(fs)
    BY <1>3, <2>1, <2>2, Zenon
  <2>3. CASE i # Len(fs)
    <3>1. gs[i] = fs[i]
      BY <1>1, <2>3
    <3>2. Len(fs[i].work) > 0 /\ \A j \in 2 .. Len(fs[i].work) : fs[i].work[j].op \in Ops
      BY <1>1, Zenon DEF Stacked
    <3> QED
      BY <2>1, <3>1, <3>2, Zenon
  <2> QED
    BY <2>2, <2>3, Zenon
<1>5. ASSUME NEW k \in 1 .. Len(cs)
      PROVE  /\ cs[k].frame < Len(gs)
             /\ k = 1 => cs[k].frame = 0
             /\ k > 1 => cs[k].frame > 0 /\ Len(gs[cs[k].frame].work) > 1
             /\ \A j \in 1 .. k - 1 : cs[j].frame < cs[k].frame
  <2>1. /\ cs[k].frame < Len(fs)
        /\ k = 1 => cs[k].frame = 0
        /\ k > 1 => cs[k].frame > 0 /\ Len(fs[cs[k].frame].work) > 1
        /\ \A j \in 1 .. k - 1 : cs[j].frame < cs[k].frame
    BY Zenon DEF Stacked
  <2>2. k > 1 => gs[cs[k].frame] = fs[cs[k].frame]
    <3>1. cs[k].frame \in Nat /\ (k > 1 => cs[k].frame \in 1 .. Len(fs) - 1)
      BY <1>1, <1>2, <2>1
    <3> QED
      BY <1>1, <3>1, Zenon
  <2> QED
    BY <1>1, <2>1, <2>2, Zenon
<1>6. cs # <<>>
  BY Zenon DEF Stacked
<1> QED
  BY <1>4, <1>5, <1>6, Zenon DEF Stacked

\* PopWork of an item, and of nothing else, keeps frames and calls matched.
LEMMA Popped ==
    ASSUME NEW fs, IsStack(fs), HasWork(fs)
    PROVE  /\ IsStack(PopWork(fs)) /\ PopWork(fs) # <<>> /\ Len(PopWork(fs)) = Len(fs)
           /\ \A cs : AreCalls(cs) /\ Stacked(fs, cs) /\ OnTop(fs) => Stacked(PopWork(fs), cs)
<1> DEFINE gs == PopWork(fs)
           ws == TopFrame(fs).work
<1>0. fs # <<>> /\ ws # <<>>
  BY Zenon DEF HasWork
<1>1. SameBelow(fs, gs) /\ gs # <<>> /\ TopFrame(gs).work = Pop(ws)
  BY PopTop, Zenon
<1>2. IsSeq(ws) /\ Len(ws) \in Nat
  BY <1>0, StackTop, Zenon
<1>3. /\ IsSeq(Pop(ws)) /\ Len(Pop(ws)) = Len(ws) - 1
      /\ \A i \in 1 .. Len(ws) - 1 : Pop(ws)[i] = ws[i]
  BY <1>0, <1>2, SeqPop, Zenon
<1>4. ASSUME NEW cs, AreCalls(cs), Stacked(fs, cs), OnTop(fs) PROVE Stacked(gs, cs)
  <2>1. Len(ws) > 1
    BY <1>4, Zenon DEF OnTop
  <2>2. \A j \in 2 .. Len(ws) : ws[j].op \in Ops
    BY <1>0, <1>4, StackTop DEF Stacked, TopFrame, Top
  <2>3. /\ Len(TopFrame(gs).work) > 0 /\ TopFrame(gs).work[1].op = ws[1].op
        /\ \A j \in 2 .. Len(TopFrame(gs).work) : TopFrame(gs).work[j].op \in Ops
    BY <1>1, <1>2, <1>3, <2>1, <2>2
  <2> HIDE DEF gs
  <2> QED
    BY <1>0, <1>1, <1>4, <2>3, StackedTop, Zenon
<1> QED
  BY <1>1, <1>4, Zenon DEF SameBelow

\* PushWork of what push_formula makes.
LEMMA Pushed ==
    ASSUME NEW fs, IsStack(fs), fs # <<>>, NEW w, IsWork(w), w.op \in Ops
    PROVE  /\ IsStack(PushWork(fs, w)) /\ HasWork(PushWork(fs, w)) /\ Len(PushWork(fs, w)) = Len(fs)
           /\ \A cs : AreCalls(cs) /\ Stacked(fs, cs) =>
                 Stacked(PushWork(fs, w), cs) /\ OnTop(PushWork(fs, w))
<1> DEFINE gs == PushWork(fs, w)
           ws == TopFrame(fs).work
<1>1. SameBelow(fs, gs) /\ gs # <<>> /\ TopFrame(gs).work = Append(ws, w)
  BY PushTop, Zenon
<1>2. IsSeq(ws) /\ Len(ws) \in Nat
  BY StackTop, Zenon
<1>3. /\ IsSeq(Append(ws, w)) /\ Len(Append(ws, w)) = Len(ws) + 1
      /\ \A i \in 1 .. Len(ws) : Append(ws, w)[i] = ws[i]
      /\ Append(ws, w)[Len(ws) + 1] = w
  BY <1>2, SeqAppend, Zenon
<1>4. HasWork(gs)
  <2>1. Append(ws, w) # <<>>
    <3> DEFINE as == Append(ws, w)
    <3>1. IsSeq(as) /\ Len(as) # 0
      BY <1>2, <1>3
    <3> HIDE DEF as
    <3> QED
      BY <3>1, SeqLen, Zenon DEF as
  <2> QED
    BY <1>1, <2>1, Zenon DEF HasWork
<1>5. ASSUME NEW cs, AreCalls(cs), Stacked(fs, cs) PROVE Stacked(gs, cs) /\ OnTop(gs)
  <2>1. Len(ws) > 0 /\ \A j \in 2 .. Len(ws) : ws[j].op \in Ops
    BY <1>5, StackTop DEF Stacked, TopFrame, Top
  <2>2. /\ Len(TopFrame(gs).work) > 1 /\ TopFrame(gs).work[1].op = ws[1].op
        /\ \A j \in 2 .. Len(TopFrame(gs).work) : TopFrame(gs).work[j].op \in Ops
    BY <1>1, <1>2, <1>3, <2>1
  <2>3. Len(TopFrame(gs).work) > 0
    BY <1>1, <1>2, <1>3
  <2> HIDE DEF gs
  <2>4. OnTop(gs)
    BY <1>1, <2>2, Zenon DEF OnTop
  <2> QED
    BY <1>1, <1>5, <2>2, <2>3, <2>4, StackedTop, Zenon
<1> QED
  BY <1>1, <1>4, <1>5, Zenon DEF SameBelow

\* The item on top goes to another stage.
LEMMA Set ==
    ASSUME NEW fs, IsStack(fs), HasWork(fs), NEW w, IsWork(w), w.op \in Ops
    PROVE  /\ IsStack(SetWork(fs, w)) /\ HasWork(SetWork(fs, w)) /\ Len(SetWork(fs, w)) = Len(fs)
           /\ \A cs : AreCalls(cs) /\ Stacked(fs, cs) /\ OnTop(fs) =>
                 Stacked(SetWork(fs, w), cs) /\ OnTop(SetWork(fs, w))
<1> DEFINE gs == PopWork(fs)
<1>1. /\ IsStack(gs) /\ gs # <<>> /\ Len(gs) = Len(fs)
      /\ \A cs : AreCalls(cs) /\ Stacked(fs, cs) /\ OnTop(fs) => Stacked(gs, cs)
  BY Popped, Zenon
<1> HIDE DEF gs
<1>2. /\ IsStack(PushWork(gs, w)) /\ HasWork(PushWork(gs, w)) /\ Len(PushWork(gs, w)) = Len(gs)
      /\ \A cs : AreCalls(cs) /\ Stacked(gs, cs) => Stacked(PushWork(gs, w), cs) /\ OnTop(PushWork(gs, w))
  BY <1>1, Pushed, Zenon
<1> QED
  BY <1>1, <1>2, Zenon DEF SetWork, gs

\* mean_push and mean_pop leave the work alone.
LEMMA Meant ==
    ASSUME NEW fs, IsStack(fs), fs # <<>>, NEW noun, NEW gs \in {mean_push(fs, noun), mean_pop(fs)}
    PROVE  /\ IsStack(gs) /\ gs # <<>> /\ Len(gs) = Len(fs)
           /\ HasWork(fs) => HasWork(gs)
           /\ OnTop(fs) => OnTop(gs)
           /\ \A cs : AreCalls(cs) /\ Stacked(fs, cs) => Stacked(gs, cs)
<1>1. SameBelow(fs, gs) /\ gs # <<>> /\ TopFrame(gs).work = TopFrame(fs).work
  BY MeanTop, Zenon
<1>2. ASSUME NEW cs, AreCalls(cs), Stacked(fs, cs) PROVE Stacked(gs, cs)
  <2>1. Len(TopFrame(fs).work) > 0 /\ \A j \in 2 .. Len(TopFrame(fs).work) : TopFrame(fs).work[j].op \in Ops
    BY <1>2, StackTop DEF Stacked, TopFrame, Top
  <2> QED
    BY <1>1, <1>2, <2>1, StackedTop, Zenon
<1> QED
  BY <1>1, <1>2, Zenon DEF SameBelow, HasWork, OnTop

(***************************************************************************)
(* Frames of calls.                                                        *)
(***************************************************************************)
\* What the first item of a frame is.
LEMMA PlainWork ==
    ASSUME NEW op \in {RET, DONE}
    PROVE  IsWork(Plain(op)) /\ Plain(op).op = op /\ op \notin Ops
BY DEF IsWork, Plain, Work, Ops, RET, DONE, CONS, STATIC

\* frame_push: one frame more, with one item.
LEMMA FramePushed ==
    ASSUME NEW fs, IsStack(fs), NEW mean, NEW w, IsWork(w)
    PROVE  /\ IsStack(FramePush(fs, mean, w)) /\ Len(FramePush(fs, mean, w)) = Len(fs) + 1
           /\ FramePush(fs, mean, w) # <<>>
           /\ \A i \in 1 .. Len(fs) : FramePush(fs, mean, w)[i] = fs[i]
           /\ FramePush(fs, mean, w)[Len(fs) + 1].work = <<w>>
<1> DEFINE f == [work |-> <<w>>, mean |-> mean]
           gs == FramePush(fs, mean, w)
<1>0. Len(fs) \in Nat /\ IsSeq(fs)
  BY SeqLen, Zenon DEF IsStack
<1>1. /\ IsSeq(gs) /\ Len(gs) = Len(fs) + 1
      /\ \A i \in 1 .. Len(fs) : gs[i] = fs[i]
      /\ gs[Len(fs) + 1] = f
  BY <1>0, SeqAppend, Zenon DEF FramePush
<1>2. IsFrame(f) /\ f.work = <<w>>
  <2>1. <<w>> \in Seq({w})
    OBVIOUS
  <2>2. IsSeq(<<w>>)
    BY <2>1, SeqOfItself, Zenon
  <2> QED
    BY <2>2 DEF IsFrame
<1> HIDE DEF f, gs
<1>3. IsStack(gs)
  BY <1>0, <1>1, <1>2 DEF IsStack
<1>4. gs # <<>>
  BY <1>0, <1>1, SeqLen
<1> QED
  BY <1>1, <1>2, <1>3, <1>4, Zenon DEF gs

\* mean_frame_push starts a frame of the same call.
LEMMA RetPushed ==
    ASSUME NEW fs, IsStack(fs), fs # <<>>, NEW cs, AreCalls(cs), Stacked(fs, cs)
    PROVE  Stacked(mean_frame_push(fs), cs)
<1> DEFINE gs == mean_frame_push(fs)
           n == Len(fs)
<1>1. /\ Len(gs) = n + 1
      /\ \A i \in 1 .. n : gs[i] = fs[i]
      /\ gs[n + 1].work = <<Plain(RET)>>
  BY PlainWork, FramePushed DEF mean_frame_push
<1>2. n \in Nat \ {0} /\ Len(cs) \in Nat /\ \A k \in 1 .. Len(cs) : cs[k].frame \in Nat
  BY StackTop, SeqLen, Zenon DEF AreCalls
<1> HIDE DEF gs
<1>3. ASSUME NEW i \in 1 .. Len(gs)
      PROVE  /\ Len(gs[i].work) > 0
             /\ gs[i].work[1].op = IF \E k \in 1 .. Len(cs) : i = cs[k].frame + 1 THEN DONE ELSE RET
             /\ \A j \in 2 .. Len(gs[i].work) : gs[i].work[j].op \in Ops
  <2>1. CASE i = n + 1
    <3>1. \A k \in 1 .. Len(cs) : i # cs[k].frame + 1
      BY <1>2, <2>1 DEF Stacked
    <3>2. Len(gs[i].work) = 1 /\ gs[i].work[1].op = RET
      <4>1. gs[i].work = <<Plain(RET)>> /\ Plain(RET).op = RET
        BY <1>1, <2>1, PlainWork, Zenon
      <4> QED
        BY <4>1
    <3> QED
      BY <3>1, <3>2
  <2>2. CASE i # n + 1
    <3>1. i \in 1 .. n /\ gs[i] = fs[i]
      BY <1>1, <1>2, <2>2
    <3> QED
      BY <3>1, Zenon DEF Stacked
  <2> QED
    BY <2>1, <2>2, Zenon
<1>4. ASSUME NEW k \in 1 .. Len(cs)
      PROVE  /\ cs[k].frame < Len(gs)
             /\ k = 1 => cs[k].frame = 0
             /\ k > 1 => cs[k].frame > 0 /\ Len(gs[cs[k].frame].work) > 1
             /\ \A j \in 1 .. k - 1 : cs[j].frame < cs[k].frame
  <2>1. /\ cs[k].frame < n
        /\ k = 1 => cs[k].frame = 0
        /\ k > 1 => cs[k].frame > 0 /\ Len(fs[cs[k].frame].work) > 1
        /\ \A j \in 1 .. k - 1 : cs[j].frame < cs[k].frame
    BY Zenon DEF Stacked
  <2>2. cs[k].frame \in Nat /\ (k > 1 => cs[k].frame \in 1 .. n)
    BY <1>2, <2>1
  <2> QED
    BY <1>1, <1>2, <2>1, <2>2
<1>5. cs # <<>>
  BY Zenon DEF Stacked
<1> QED
  BY <1>3, <1>4, <1>5, Zenon DEF Stacked, gs

\* interpret starts the first frame of a call.
LEMMA DonePushed ==
    ASSUME NEW fs, IsStack(fs), NEW cs, AreCalls(cs), Stacked(fs, cs), cs # <<>> => OnTop(fs),
           NEW mean, NEW call, call.frame = Len(fs)
    PROVE  Stacked(FramePush(fs, mean, Plain(DONE)), Append(cs, call))
<1> DEFINE gs == FramePush(fs, mean, Plain(DONE))
           ds == Append(cs, call)
           n == Len(fs)
           m == Len(cs)
<1>1. /\ Len(gs) = n + 1
      /\ \A i \in 1 .. n : gs[i] = fs[i]
      /\ gs[n + 1].work = <<Plain(DONE)>>
  BY PlainWork, FramePushed
<1>2. n \in Nat /\ m \in Nat /\ \A k \in 1 .. m : cs[k].frame \in Nat
  BY SeqLen, Zenon DEF AreCalls, IsStack
<1>3. /\ IsSeq(ds) /\ Len(ds) = m + 1
      /\ \A k \in 1 .. m : ds[k] = cs[k]
      /\ ds[m + 1] = call
  BY SeqAppend, Zenon DEF AreCalls
<1> HIDE DEF gs, ds
<1>4. ASSUME NEW i \in 1 .. Len(gs)
      PROVE  /\ Len(gs[i].work) > 0
             /\ gs[i].work[1].op = IF \E k \in 1 .. Len(ds) : i = ds[k].frame + 1 THEN DONE ELSE RET
             /\ \A j \in 2 .. Len(gs[i].work) : gs[i].work[j].op \in Ops
  <2>1. CASE i = n + 1
    <3>1. m + 1 \in 1 .. Len(ds) /\ i = ds[m + 1].frame + 1
      BY <1>2, <1>3, <2>1
    <3>2. Len(gs[i].work) = 1 /\ gs[i].work[1].op = DONE
      <4>1. gs[i].work = <<Plain(DONE)>> /\ Plain(DONE).op = DONE
        BY <1>1, <2>1, PlainWork, Zenon
      <4> QED
        BY <4>1
    <3> QED
      BY <3>1, <3>2
  <2>2. CASE i # n + 1
    <3>1. i \in 1 .. n /\ gs[i] = fs[i]
      BY <1>1, <1>2, <2>2
    <3>2. (\E k \in 1 .. Len(ds) : i = ds[k].frame + 1) <=> \E k \in 1 .. m : i = cs[k].frame + 1
      <4>1. \A k \in 1 .. Len(ds) : i = ds[k].frame + 1 => k \in 1 .. m
        BY <1>2, <1>3, <3>1
      <4>2. \A k \in 1 .. m : k \in 1 .. Len(ds) /\ ds[k].frame = cs[k].frame
        BY <1>2, <1>3
      <4> QED
        BY <4>1, <4>2, Zenon
    <3>3. /\ Len(fs[i].work) > 0
          /\ fs[i].work[1].op = IF \E k \in 1 .. m : i = cs[k].frame + 1 THEN DONE ELSE RET
          /\ \A j \in 2 .. Len(fs[i].work) : fs[i].work[j].op \in Ops
      BY <3>1, Zenon DEF Stacked
    <3> QED
      BY <3>1, <3>2, <3>3, Zenon
  <2> QED
    BY <2>1, <2>2, Zenon
<1>5. ASSUME NEW k \in 1 .. Len(ds)
      PROVE  /\ ds[k].frame < Len(gs)
             /\ k = 1 => ds[k].frame = 0
             /\ k > 1 => ds[k].frame > 0 /\ Len(gs[ds[k].frame].work) > 1
             /\ \A j \in 1 .. k - 1 : ds[j].frame < ds[k].frame
  <2>1. CASE k = m + 1
    <3>1. ds[k].frame = n
      BY <1>3, <2>1, Zenon
    <3>2. k = 1 => n = 0
      <4>1. k = 1 => cs = <<>>
        BY <1>2, <2>1, SeqLen DEF AreCalls
      <4> QED
        BY <4>1, SeqLen, Zenon DEF Stacked, IsStack
    <3>3. k > 1 => n > 0 /\ Len(gs[n].work) > 1
      <4>1. k > 1 => OnTop(fs)
        BY <1>2, <2>1, SeqLen DEF AreCalls
      <4>2. OnTop(fs) => n \in Nat \ {0} /\ Len(fs[n].work) > 1
        BY StackTop, Zenon DEF OnTop, TopFrame, Top
      <4> QED
        BY <1>1, <4>1, <4>2
    <3>4. \A j \in 1 .. k - 1 : ds[j].frame < n
      BY <1>2, <1>3, <2>1 DEF Stacked
    <3>5. n < Len(gs)
      BY <1>1, <1>2
    <3> HIDE DEF n, m
    <3> QED
      BY <3>1, <3>2, <3>3, <3>4, <3>5, Zenon
  <2>2. CASE k # m + 1
    <3>1. k \in 1 .. m /\ ds[k] = cs[k] /\ \A j \in 1 .. k - 1 : ds[j] = cs[j]
      BY <1>2, <1>3, <2>2
    <3>2. /\ cs[k].frame < n
          /\ k = 1 => cs[k].frame = 0
          /\ k > 1 => cs[k].frame > 0 /\ Len(fs[cs[k].frame].work) > 1
          /\ \A j \in 1 .. k - 1 : cs[j].frame < cs[k].frame
      BY <3>1, Zenon DEF Stacked
    <3>3. cs[k].frame \in Nat /\ (k > 1 => cs[k].frame \in 1 .. n)
      BY <1>2, <3>1, <3>2
    <3>4. k > 1 => Len(gs[cs[k].frame].work) > 1
      BY <1>1, <3>2, <3>3, Zenon
    <3>5. cs[k].frame < Len(gs)
      BY <1>1, <1>2, <3>2, <3>3
    <3> QED
      BY <3>1, <3>2, <3>4, <3>5, Zenon
  <2> QED
    BY <2>1, <2>2, Zenon
<1>6. ds # <<>>
  BY <1>2, <1>3, SeqLen
<1> QED
  BY <1>4, <1>5, <1>6, Zenon DEF Stacked, gs, ds

\* Unwinding leaves a stack.
LEMMA StackTake ==
    ASSUME NEW fs, IsStack(fs), NEW n \in 0 .. Len(fs) PROVE IsStack(SubSeq(fs, 1, n))
<1>1. /\ IsSeq(SubSeq(fs, 1, n)) /\ Len(SubSeq(fs, 1, n)) = n
      /\ \A i \in 1 .. n : SubSeq(fs, 1, n)[i] = fs[i]
  BY SeqTake, Zenon DEF IsStack
<1>2. Len(fs) \in Nat
  BY SeqLen, Zenon DEF IsStack
<1> QED
  BY <1>1, <1>2 DEF IsStack

\* The open calls after a return, and after a call.
LEMMA CallsPop ==
    ASSUME NEW cs, AreCalls(cs), cs # <<>>
    PROVE  /\ AreCalls(Pop(cs)) /\ Len(cs) \in Nat \ {0} /\ Len(Pop(cs)) = Len(cs) - 1
           /\ \A k \in 1 .. Len(cs) - 1 : Pop(cs)[k] = cs[k]
           /\ Top(cs).frame \in Nat
<1>1. /\ IsSeq(Pop(cs)) /\ Len(Pop(cs)) = Len(cs) - 1
      /\ \A k \in 1 .. Len(cs) - 1 : Pop(cs)[k] = cs[k]
  BY SeqPop, Zenon DEF AreCalls
<1>2. Len(cs) \in Nat \ {0}
  BY SeqLen, Zenon DEF AreCalls
<1>3. Top(cs).frame \in Nat
  BY <1>2 DEF AreCalls, Top
<1> QED
  BY <1>1, <1>2, <1>3 DEF AreCalls

\* One more open call.
LEMMA CallsPush ==
    ASSUME NEW cs, AreCalls(cs), NEW call, call.frame \in Nat
    PROVE  /\ AreCalls(Append(cs, call)) /\ Len(cs) \in Nat /\ Len(Append(cs, call)) = Len(cs) + 1
           /\ \A k \in 1 .. Len(cs) : Append(cs, call)[k] = cs[k]
           /\ Append(cs, call)[Len(cs) + 1] = call /\ Append(cs, call) # <<>>
<1> DEFINE ds == Append(cs, call)
<1>1. /\ IsSeq(ds) /\ Len(ds) = Len(cs) + 1
      /\ \A k \in 1 .. Len(cs) : ds[k] = cs[k]
      /\ ds[Len(cs) + 1] = call
  BY SeqAppend, Zenon DEF AreCalls
<1>2. Len(cs) \in Nat
  BY SeqLen, Zenon DEF AreCalls
<1> HIDE DEF ds
<1>3. AreCalls(ds)
  BY <1>1, <1>2 DEF AreCalls
<1>4. ds # <<>>
  BY <1>1, <1>2, SeqLen
<1> QED
  BY <1>1, <1>2, <1>3, <1>4, Zenon DEF ds

\* exit pops the frames of the call: the item that made it is on top again.
LEMMA Unwinding ==
    ASSUME NEW fs, IsStack(fs), NEW cs, AreCalls(cs), cs # <<>>, Stacked(fs, cs)
    PROVE  /\ Top(cs).frame \in 0 .. Len(fs) - 1
           /\ Unwound(SubSeq(fs, 1, Top(cs).frame), cs)
<1> DEFINE n == Top(cs).frame
           m == Len(cs)
           gs == SubSeq(fs, 1, n)
           ds == Pop(cs)
<1>1. /\ m \in Nat \ {0} /\ Len(ds) = m - 1 /\ AreCalls(ds)
      /\ \A k \in 1 .. m - 1 : ds[k] = cs[k]
  BY CallsPop, Zenon
<1>2. n = cs[m].frame /\ n \in Nat /\ \A k \in 1 .. m : cs[k].frame \in Nat
  BY <1>1 DEF Top, AreCalls
<1>3. /\ n < Len(fs) /\ (m = 1 => n = 0)
      /\ m > 1 => n > 0 /\ Len(fs[n].work) > 1
      /\ \A k \in 1 .. m - 1 : cs[k].frame < n
  <2> HIDE DEF n
  <2>1. m \in 1 .. Len(cs)
    BY <1>1
  <2>2. /\ cs[m].frame < Len(fs)
        /\ m = 1 => cs[m].frame = 0
        /\ m > 1 => cs[m].frame > 0 /\ Len(fs[cs[m].frame].work) > 1
        /\ \A j \in 1 .. m - 1 : cs[j].frame < cs[m].frame
    BY <2>1, Zenon DEF Stacked
  <2> QED
    BY <1>2, <2>2, Zenon
<1>4. Len(fs) \in Nat /\ n \in 0 .. Len(fs) - 1 /\ n \in 0 .. Len(fs)
  BY <1>2, <1>3, SeqLen DEF IsStack
<1>5. IsSeq(gs) /\ Len(gs) = n /\ \A i \in 1 .. n : gs[i] = fs[i]
  BY <1>4, SeqTake, Zenon DEF IsStack
<1> HIDE DEF gs, ds, n, m
<1>6. ASSUME NEW i \in 1 .. Len(gs)
      PROVE  /\ Len(gs[i].work) > 0
             /\ gs[i].work[1].op = IF \E k \in 1 .. Len(ds) : i = ds[k].frame + 1 THEN DONE ELSE RET
             /\ \A j \in 2 .. Len(gs[i].work) : gs[i].work[j].op \in Ops
  <2>1. i \in 1 .. Len(fs) /\ gs[i] = fs[i] /\ i # n + 1
    BY <1>4, <1>5
  <2>2. (\E k \in 1 .. Len(ds) : i = ds[k].frame + 1) <=> \E k \in 1 .. m : i = cs[k].frame + 1
    <3>1. \A k \in 1 .. m : i = cs[k].frame + 1 => k \in 1 .. Len(ds)
      BY <1>1, <1>2, <2>1
    <3>2. \A k \in 1 .. Len(ds) : k \in 1 .. m /\ ds[k].frame = cs[k].frame
      BY <1>1
    <3> QED
      BY <3>1, <3>2, Zenon
  <2>3. /\ Len(fs[i].work) > 0
        /\ fs[i].work[1].op = IF \E k \in 1 .. m : i = cs[k].frame + 1 THEN DONE ELSE RET
        /\ \A j \in 2 .. Len(fs[i].work) : fs[i].work[j].op \in Ops
    BY <2>1, Zenon DEF Stacked, m
  <2> QED
    BY <2>1, <2>2, <2>3, Zenon
<1>7. ASSUME NEW k \in 1 .. Len(ds)
      PROVE  /\ ds[k].frame < Len(gs)
             /\ k = 1 => ds[k].frame = 0
             /\ k > 1 => ds[k].frame > 0 /\ Len(gs[ds[k].frame].work) > 1
             /\ \A j \in 1 .. k - 1 : ds[j].frame < ds[k].frame
  <2>1. k \in 1 .. m - 1 /\ k \in 1 .. m /\ ds[k] = cs[k] /\ \A j \in 1 .. k - 1 : ds[j] = cs[j]
    BY <1>1
  <2>2. /\ k = 1 => cs[k].frame = 0
        /\ k > 1 => cs[k].frame > 0 /\ Len(fs[cs[k].frame].work) > 1
        /\ \A j \in 1 .. k - 1 : cs[j].frame < cs[k].frame
    BY <2>1, Zenon DEF Stacked, m
  <2>3. cs[k].frame < n /\ cs[k].frame \in Nat
    BY <1>2, <1>3, <2>1, Zenon
  <2>4. k > 1 => cs[k].frame \in 1 .. n
    BY <1>2, <2>2, <2>3
  <2>5. k > 1 => Len(gs[cs[k].frame].work) > 1
    BY <1>5, <2>2, <2>4, Zenon
  <2> QED
    BY <1>5, <2>1, <2>2, <2>3, <2>5, Zenon
<1>8. ds = <<>> => gs = <<>>
  <2>1. ds = <<>> => n = 0
    BY <1>1, <1>3, SeqLen DEF AreCalls
  <2> QED
    BY <1>5, <2>1, SeqLen, Zenon
<1>9. Stacked(gs, ds)
  BY <1>6, <1>7, <1>8, Zenon DEF Stacked
<1>10. m > 1 => Len(TopFrame(gs).work) > 1
  BY <1>2, <1>3, <1>5 DEF TopFrame, Top
<1> QED
  BY <1>4, <1>5, <1>9, <1>10, Zenon DEF Unwound, gs, ds, n, m

\* The first item of a frame is on top when it is the only one.
LEMMA LastItem ==
    ASSUME NEW fs, IsStack(fs), HasWork(fs), NEW cs, AreCalls(cs), Stacked(fs, cs),
           NEW op \in {RET, DONE}, Top(TopFrame(fs).work).op = op
    PROVE  op = IF \E k \in 1 .. Len(cs) : Len(fs) = cs[k].frame + 1 THEN DONE ELSE RET
<1> DEFINE ws == TopFrame(fs).work
<1>1. fs # <<>> /\ Len(fs) \in Nat \ {0} /\ Len(ws) \in Nat
  BY StackTop, Zenon DEF HasWork
<1>2. /\ Len(ws) > 0
      /\ ws[1].op = IF \E k \in 1 .. Len(cs) : Len(fs) = cs[k].frame + 1 THEN DONE ELSE RET
      /\ \A j \in 2 .. Len(ws) : ws[j].op \in Ops
  <2>1. Len(fs) \in 1 .. Len(fs)
    BY <1>1
  <2> QED
    BY <2>1, Zenon DEF Stacked, TopFrame, Top
<1>3. ws[Len(ws)].op = op /\ op \notin Ops
  BY PlainWork, Zenon DEF Top
<1> HIDE DEF ws
<1>4. Len(ws) = 1
  <2>1. Len(ws) \notin 2 .. Len(ws)
    BY <1>2, <1>3, Zenon
  <2>2. \A n \in Nat : n > 0 /\ n \notin 2 .. n => n = 1
    OBVIOUS
  <2> QED
    BY <1>1, <1>2, <2>1, <2>2, Zenon
<1> QED
  BY <1>2, <1>3, <1>4, Zenon

\* An item that push_formula pushed is not the first of its frame.
LEMMA ItemOnTop ==
    ASSUME NEW fs, IsStack(fs), HasWork(fs), NEW cs, AreCalls(cs), Stacked(fs, cs),
           Top(TopFrame(fs).work).op \in Ops
    PROVE  OnTop(fs)
<1> DEFINE ws == TopFrame(fs).work
<1>1. fs # <<>> /\ Len(fs) \in Nat \ {0} /\ Len(ws) \in Nat
  BY StackTop, Zenon DEF HasWork
<1>2. Len(ws) > 0 /\ ws[1].op \in {RET, DONE}
  BY <1>1 DEF Stacked, TopFrame, Top
<1>3. ws[Len(ws)].op \in Ops
  BY Zenon DEF Top
<1> HIDE DEF ws
<1>4. Len(ws) # 1
  <2>1. ws[1].op \notin Ops
    BY <1>2, PlainWork, Zenon
  <2> QED
    BY <1>3, <2>1, Zenon
<1>5. Len(ws) > 1
  <2>1. \A n \in Nat : n > 0 /\ n # 1 => n > 1
    OBVIOUS
  <2> QED
    BY <1>1, <1>2, <1>4, <2>1, Zenon
<1> QED
  BY <1>1, <1>5, Zenon DEF OnTop, ws

\* RET pops a frame of the call.
LEMMA RetPopped ==
    ASSUME NEW fs, IsStack(fs), HasWork(fs), NEW cs, AreCalls(cs), cs # <<>>, Stacked(fs, cs),
           Top(TopFrame(fs).work).op = RET
    PROVE  Stacked(Pop(fs), cs)
<1> DEFINE n == Len(fs) - 1
           gs == Pop(fs)
<1>1. fs # <<>> /\ Len(fs) \in Nat \ {0}
  BY StackTop, Zenon DEF HasWork
<1>2. IsSeq(gs) /\ Len(gs) = n /\ n \in Nat /\ \A i \in 1 .. n : gs[i] = fs[i]
  BY <1>1, SeqPop DEF IsStack
<1>3. Len(cs) \in Nat /\ \A k \in 1 .. Len(cs) : cs[k].frame \in Nat
  BY SeqLen, Zenon DEF AreCalls
<1>4. \A k \in 1 .. Len(cs) : cs[k].frame < n
  <2>1. RET # DONE
    BY DEF RET, DONE
  <2>2. \A k \in 1 .. Len(cs) : Len(fs) # cs[k].frame + 1
    BY <2>1, LastItem, Zenon
  <2>3. \A k \in 1 .. Len(cs) : cs[k].frame < Len(fs)
    BY Zenon DEF Stacked
  <2> QED
    BY <1>1, <1>3, <2>2, <2>3
<1> HIDE DEF gs
<1>5. \A i \in 1 .. Len(gs) :
          /\ Len(gs[i].work) > 0
          /\ gs[i].work[1].op = IF \E k \in 1 .. Len(cs) : i = cs[k].frame + 1 THEN DONE ELSE RET
          /\ \A j \in 2 .. Len(gs[i].work) : gs[i].work[j].op \in Ops
  <2>1. \A i \in 1 .. Len(gs) : i \in 1 .. Len(fs) /\ gs[i] = fs[i]
    BY <1>1, <1>2
  <2> QED
    BY <2>1, Zenon DEF Stacked
<1>6. ASSUME NEW k \in 1 .. Len(cs)
      PROVE  /\ cs[k].frame < Len(gs)
             /\ k = 1 => cs[k].frame = 0
             /\ k > 1 => cs[k].frame > 0 /\ Len(gs[cs[k].frame].work) > 1
             /\ \A j \in 1 .. k - 1 : cs[j].frame < cs[k].frame
  <2>1. /\ k = 1 => cs[k].frame = 0
        /\ k > 1 => cs[k].frame > 0 /\ Len(fs[cs[k].frame].work) > 1
        /\ \A j \in 1 .. k - 1 : cs[j].frame < cs[k].frame
    BY Zenon DEF Stacked
  <2>2. cs[k].frame < n /\ (k > 1 => cs[k].frame \in 1 .. n)
    BY <1>2, <1>3, <1>4, <2>1
  <2> QED
    BY <1>2, <2>1, <2>2, Zenon
<1> QED
  BY <1>5, <1>6, Zenon DEF Stacked, gs

\* DONE pops the first one: the call is unwound.
LEMMA DonePopped ==
    ASSUME NEW fs, IsStack(fs), HasWork(fs), NEW cs, AreCalls(cs), cs # <<>>, Stacked(fs, cs),
           Top(TopFrame(fs).work).op = DONE
    PROVE  Unwound(Pop(fs), cs)
<1>1. fs # <<>> /\ Len(fs) \in Nat \ {0}
  BY StackTop, Zenon DEF HasWork
<1>2. Len(cs) \in Nat \ {0} /\ \A k \in 1 .. Len(cs) : cs[k].frame \in Nat
  BY SeqLen, Zenon DEF AreCalls
<1>3. PICK k \in 1 .. Len(cs) : Len(fs) = cs[k].frame + 1
  <2>1. RET # DONE
    BY DEF RET, DONE
  <2> QED
    BY <2>1, LastItem, Zenon
<1>4. k = Len(cs)
  <2>1. Len(cs) \in 1 .. Len(cs) /\ cs[Len(cs)].frame < Len(fs)
    BY <1>2 DEF Stacked
  <2>2. k < Len(cs) => cs[k].frame < cs[Len(cs)].frame
    BY <1>2 DEF Stacked
  <2> QED
    BY <1>1, <1>2, <1>3, <2>1, <2>2
<1>5. Top(cs).frame = Len(fs) - 1
  BY <1>1, <1>2, <1>3, <1>4 DEF Top
<1> QED
  BY <1>5, Unwinding, Zenon DEF Pop

(***************************************************************************)
(* Work items.                                                             *)
(***************************************************************************)
LEMMA ItemMade ==
    ASSUME NEW op \in Ops, NEW x, NEW y, NEW z, NEW tail
    PROVE  IsWork(Work(op, x, y, z, tail)) /\ Work(op, x, y, z, tail).op \in Ops
BY Zenon DEF IsWork, Work

\* push_formula pushes an item, or refuses the formula.
LEMMA FormulaItem ==
    ASSUME NEW f, NEW tail
    PROVE  WorkOf(f, tail) = NoWork \/ (IsWork(WorkOf(f, tail)) /\ WorkOf(f, tail).op \in Ops)
<1> DEFINE Good(w) == w = NoWork \/ (IsWork(w) /\ w.op \in Ops)
           op == Value(HeadOf(f))
           a == TailOf(f)
<1>1. \A o \in Ops : \A x, y, z, t : Good(Work(o, x, y, z, t))
  BY ItemMade, Zenon
<1>2. CONS \in Ops /\ STATIC \in Ops /\ 0 .. 12 \subseteq Ops
  BY Zenon DEF Ops
<1>3. CASE IsAtom(f)
  BY <1>3, Zenon DEF WorkOf
<1>4. CASE ~IsAtom(f) /\ IsCell(HeadOf(f))
  <2>1. WorkOf(f, tail) = Work(CONS, HeadOf(f), a, D(0), FALSE)
    BY <1>4, Zenon DEF WorkOf
  <2> QED
    BY <1>1, <1>2, <2>1, Zenon
<1>5. CASE ~IsAtom(f) /\ ~IsCell(HeadOf(f))
  <2> DEFINE w1 == Work(op, a, D(0), D(0), FALSE)
             w2 == Work(op, HeadOf(a), TailOf(a), D(0), tail)
             w5 == Work(op, HeadOf(a), TailOf(a), D(0), FALSE)
             w6 == Work(op, HeadOf(a), HeadOf(TailOf(a)), TailOf(TailOf(a)), tail)
             w10 == Work(op, HeadOf(HeadOf(a)), TailOf(a), TailOf(HeadOf(a)), FALSE)
             w11s == Work(STATIC, HeadOf(a), D(0), TailOf(a), tail /\ IsTail(HeadOf(a)))
             w11d == Work(11, HeadOf(HeadOf(a)), TailOf(HeadOf(a)), TailOf(a),
                          tail /\ IsTail(HeadOf(HeadOf(a))))
             ws == {w1, w2, w5, w6, w10}
  <2>2. \/ op \in 0 .. 12 /\ WorkOf(f, tail) \in ws
        \/ WorkOf(f, tail) \in {w11s, w11d, NoWork}
    <3> HIDE DEF w1, w2, w5, w6, w10, w11s, w11d
    <3>1. WorkOf(f, tail) =
             CASE op = 0 /\ IsAtom(a) -> w1
               [] op \in {1, 3, 4} -> w1
               [] op \in {2, 7, 8} /\ IsCell(a) -> w2
               [] op \in {5, 12} /\ IsCell(a) -> w5
               [] op = 6 /\ IsCell(a) /\ IsCell(TailOf(a)) -> w6
               [] op = 9 /\ IsCell(a) /\ IsAtom(HeadOf(a)) -> w2
               [] op = 10 /\ IsCell(a) /\ IsCell(HeadOf(a)) /\ IsAtom(HeadOf(HeadOf(a))) -> w10
               [] op = 11 /\ IsCell(a) /\ IsAtom(HeadOf(a)) -> w11s
               [] op = 11 /\ IsCell(a) /\ IsCell(HeadOf(a)) /\ IsAtom(HeadOf(HeadOf(a))) -> w11d
               [] OTHER -> NoWork
      BY <1>5, Zenon DEF WorkOf, w1, w2, w5, w6, w10, w11s, w11d
    <3> QED
      BY <3>1
  <2>3. op \in 0 .. 12 => \A w \in ws : Good(w)
    <3> HIDE DEF Good, op
    <3>1. op \in 0 .. 12 => op \in Ops
      BY <1>2, Zenon
    <3> QED
      BY <1>1, <3>1, Zenon
  <2>4. Good(w11s) /\ Good(w11d)
    <3> DEFINE t1 == tail /\ IsTail(HeadOf(a))
               t2 == tail /\ IsTail(HeadOf(HeadOf(a)))
    <3> HIDE DEF Good, t1, t2
    <3>1. 11 \in Ops
      BY <1>2
    <3>2. /\ Good(Work(STATIC, HeadOf(a), D(0), TailOf(a), t1))
          /\ Good(Work(11, HeadOf(HeadOf(a)), TailOf(HeadOf(a)), TailOf(a), t2))
      BY <1>1, <1>2, <3>1, Zenon
    <3> QED
      BY <3>2, Zenon DEF t1, t2
  <2>5. Good(NoWork)
    BY Zenon
  <2>6. Good(WorkOf(f, tail))
    <3> HIDE DEF Good, op, ws, w11s, w11d
    <3> QED
      BY <2>2, <2>3, <2>4, <2>5, Zenon
  <2> QED
    BY <2>6, Zenon
<1> QED
  BY <1>3, <1>4, <1>5, Zenon

\* An item with one field changed is an item of the same kind.
LEMMA ItemSet ==
    ASSUME NEW w, IsWork(w), NEW v,
           NEW u \in {[w EXCEPT !.todo = v], [w EXCEPT !.x = v], [w EXCEPT !.y = v]}
    PROVE  IsWork(u) /\ u.op = w.op
BY Zenon DEF IsWork

\* The items that a step puts back on top.
LEMMA Items ==
    ASSUME IsStack(frames), HasWork(frames)
    PROVE  /\ IsWork(W)
           /\ IsWork(NextStage) /\ NextStage.op = W.op
           /\ \A r : IsWork([NextStage EXCEPT !.x = r]) /\ [NextStage EXCEPT !.x = r].op = W.op
           /\ \A r : IsWork([NextStage EXCEPT !.y = r]) /\ [NextStage EXCEPT !.y = r].op = W.op
           /\ \A r : IsWork([W EXCEPT !.y = r]) /\ [W EXCEPT !.y = r].op = W.op
<1>1. IsWork(W)
  <2> DEFINE ws == TopFrame(frames).work
  <2>1. IsFrame(TopFrame(frames)) /\ IsSeq(ws) /\ ws # <<>>
    BY StackTop, Zenon DEF HasWork
  <2>2. Len(ws) \in 1 .. Len(ws)
    BY <2>1, SeqLen
  <2> QED
    BY <2>1, <2>2, Zenon DEF W, Top, IsFrame
<1>2. IsWork(NextStage) /\ NextStage.op = W.op
  <2>1. NextStage = [W EXCEPT !.todo = W.todo + 1]
    BY Zenon DEF NextStage
  <2> QED
    BY <1>1, <2>1, ItemSet, Zenon
<1>3. ASSUME NEW r PROVE IsWork([NextStage EXCEPT !.x = r]) /\ [NextStage EXCEPT !.x = r].op = W.op
  <2> DEFINE w == NextStage
  <2> HIDE DEF w
  <2>1. IsWork([w EXCEPT !.x = r]) /\ [w EXCEPT !.x = r].op = W.op
    BY <1>2, ItemSet, Zenon DEF w
  <2> QED
    BY <2>1, Zenon DEF w
<1>4. ASSUME NEW r PROVE IsWork([NextStage EXCEPT !.y = r]) /\ [NextStage EXCEPT !.y = r].op = W.op
  <2> DEFINE w == NextStage
  <2> HIDE DEF w
  <2>1. IsWork([w EXCEPT !.y = r]) /\ [w EXCEPT !.y = r].op = W.op
    BY <1>2, ItemSet, Zenon DEF w
  <2> QED
    BY <2>1, Zenon DEF w
<1>5. ASSUME NEW r PROVE IsWork([W EXCEPT !.y = r]) /\ [W EXCEPT !.y = r].op = W.op
  BY <1>1, ItemSet, Zenon
<1> QED
  BY <1>1, <1>2, <1>3, <1>4, <1>5, Zenon

(***************************************************************************)
(* The scry gates, and what the outermost call keeps.                      *)
(***************************************************************************)
LEMMA ScryPush ==
    ASSUME NEW cs, AreCalls(cs), NEW gates, ScryInv(cs, gates), NEW call, call.frame \in Nat, NEW gates2,
           Scried(call) => call.cont.scry = gates, ~Scried(call) => gates2 = gates
    PROVE  ScryInv(Append(cs, call), gates2)
<1> DEFINE ds == Append(cs, call)
           n == Len(cs)
<1>1. n \in Nat /\ Len(ds) = n + 1 /\ (\A k \in 1 .. n : ds[k] = cs[k]) /\ ds[n + 1] = call
  BY CallsPush
<1> HIDE DEF ds, n
<1>2. (\A k \in 1 .. n : ~Scried(cs[k])) => gates = <<>>
  BY Zenon DEF ScryInv, n
<1>3. ASSUME NEW i \in 1 .. Len(ds), Scried(ds[i]), \A j \in 1 .. i - 1 : ~Scried(ds[j])
      PROVE  ds[i].cont.scry = <<>>
  <2>1. CASE i = n + 1
    <3>1. \A k \in 1 .. n : ~Scried(cs[k])
      BY <1>1, <1>3, <2>1
    <3> QED
      BY <1>1, <1>2, <1>3, <2>1, <3>1, Zenon
  <2>2. CASE i \in 1 .. n
    <3>1. ds[i] = cs[i] /\ \A j \in 1 .. i - 1 : ~Scried(cs[j])
      BY <1>1, <1>3, <2>2
    <3> QED
      BY <1>3, <2>2, <3>1, Zenon DEF ScryInv, n
  <2> QED
    BY <1>1, <2>1, <2>2
<1>4. ASSUME \A i \in 1 .. Len(ds) : ~Scried(ds[i]) PROVE gates2 = <<>>
  <2>1. ~Scried(call) /\ \A k \in 1 .. n : ~Scried(cs[k])
    BY <1>1, <1>4
  <2> QED
    BY <1>2, <2>1, Zenon
<1>5. ScryInv(ds, gates2)
  BY <1>3, <1>4, Zenon DEF ScryInv
<1> QED
  BY <1>5, Zenon DEF ds

\* A call that returns puts back the scry gates it was made with.
LEMMA ScryPop ==
    ASSUME NEW cs, AreCalls(cs), cs # <<>>, NEW gates, ScryInv(cs, gates)
    PROVE  ScryInv(Pop(cs), IF Scried(Top(cs)) THEN Top(cs).cont.scry ELSE gates)
<1> DEFINE ds == Pop(cs)
           n == Len(cs)
<1>1. n \in Nat \ {0} /\ Len(ds) = n - 1 /\ (\A k \in 1 .. n - 1 : ds[k] = cs[k]) /\ Top(cs) = cs[n]
  BY CallsPop, Zenon DEF Top
<1> HIDE DEF ds, n
<1>2. ASSUME NEW i \in 1 .. Len(ds), Scried(ds[i]), \A j \in 1 .. i - 1 : ~Scried(ds[j])
      PROVE  ds[i].cont.scry = <<>>
  <2>1. i \in 1 .. n /\ ds[i] = cs[i] /\ \A j \in 1 .. i - 1 : ~Scried(cs[j])
    BY <1>1, <1>2
  <2> QED
    BY <1>2, <2>1, Zenon DEF ScryInv, n
<1>3. ASSUME \A i \in 1 .. Len(ds) : ~Scried(ds[i])
      PROVE  (IF Scried(Top(cs)) THEN Top(cs).cont.scry ELSE gates) = <<>>
  <2>1. n \in 1 .. n /\ \A k \in 1 .. n - 1 : ~Scried(cs[k])
    BY <1>1, <1>3
  <2>2. Scried(cs[n]) => cs[n].cont.scry = <<>>
    BY <2>1, Zenon DEF ScryInv, n
  <2>3. ~Scried(cs[n]) => \A k \in 1 .. n : ~Scried(cs[k])
    BY <1>1, <2>1
  <2>4. ~Scried(cs[n]) => gates = <<>>
    BY <2>3, Zenon DEF ScryInv, n
  <2> QED
    BY <1>1, <2>2, <2>4, Zenon
<1> QED
  BY <1>2, <1>3, Zenon DEF ScryInv, ds

\* An inner call leaves the outermost one alone.
LEMMA OutermostPush ==
    ASSUME NEW cs, AreCalls(cs), cs # <<>>, Outermost(cs), NEW call, call.frame \in Nat
    PROVE  Outermost(Append(cs, call))
<1>1. 1 \in 1 .. Len(cs)
  BY CallsPop
<1>2. Append(cs, call)[1] = cs[1]
  BY <1>1, CallsPush
<1> QED
  BY <1>2, Zenon DEF Outermost

\* So does its return.
LEMMA OutermostPop ==
    ASSUME NEW cs, AreCalls(cs), cs # <<>>, Outermost(cs)
    PROVE  Outermost(Pop(cs))
<1>1. Pop(cs) # <<>> => 1 \in 1 .. Len(cs) - 1
  <2>1. Pop(cs) # <<>> => Len(Pop(cs)) # 0
    BY CallsPop, SeqLen, Zenon DEF AreCalls
  <2> QED
    BY <2>1, CallsPop
<1>2. Pop(cs) # <<>> => Pop(cs)[1] = cs[1]
  BY <1>1, CallsPop, Zenon
<1> QED
  BY <1>2, Zenon DEF Outermost

\* The caller of a call that has just been made.
LEMMA PushedCaller ==
    ASSUME NEW cs, AreCalls(cs), NEW call, call.frame \in Nat
    PROVE  Pop(Append(cs, call)) = cs /\ Top(Append(cs, call)) = call
<1> DEFINE ds == Append(cs, call)
<1>1. /\ AreCalls(ds) /\ Len(cs) \in Nat /\ Len(ds) = Len(cs) + 1
      /\ \A k \in 1 .. Len(cs) : ds[k] = cs[k]
      /\ ds[Len(cs) + 1] = call /\ ds # <<>>
  BY CallsPush, Zenon
<1> HIDE DEF ds
<1>2. /\ AreCalls(Pop(ds)) /\ Len(Pop(ds)) = Len(cs)
      /\ \A k \in 1 .. Len(cs) : Pop(ds)[k] = cs[k]
  <2>1. Len(ds) - 1 = Len(cs)
    BY <1>1
  <2>2. /\ AreCalls(Pop(ds)) /\ Len(Pop(ds)) = Len(ds) - 1
        /\ \A k \in 1 .. Len(ds) - 1 : Pop(ds)[k] = ds[k]
    BY <1>1, CallsPop, Zenon
  <2> QED
    BY <1>1, <2>1, <2>2, Zenon
<1>3. /\ cs \in Seq(Range(cs)) /\ Pop(ds) \in Seq(Range(Pop(ds)))
  BY <1>2, Zenon DEF AreCalls, IsSeq
<1>4. Pop(ds) = cs
  <2> DEFINE es == Pop(ds)
  <2> HIDE DEF es
  <2>1. es = cs
    BY <1>1, <1>2, <1>3 DEF es
  <2> QED
    BY <2>1, Zenon DEF es
<1>5. Top(ds) = call
  BY <1>1, Zenon DEF Top
<1> QED
  BY <1>4, <1>5, Zenon DEF ds

(***************************************************************************)
(* The ways on from a step keep the invariant.                             *)
(***************************************************************************)
\* What `break' and `return Err' have for the caller.
Errors == {"blocked", "crashed", "det", "nondet"}

\* The next item of the same call, or of the caller.
LEMMA ContinueWay ==
    ASSUME StateInv, bailed # "outer", NEW fs, IsStack(fs), NEW cs, AreCalls(cs), cs # <<>>,
           NEW s, NEW r, Continue(fs, cs, s, r),
           bailed = "no" => GoesOn(fs, cs, scry_stack', running_status),
           bailed # "no" => Beyond(running_status, Len(cs))
    PROVE  IInv'
<1>1. /\ frames' = fs /\ calls' = cs /\ ret' = None
      /\ running_status' = running_status /\ bailed' = bailed
  BY Zenon DEF Continue
<1>2. ret'.k = "none"
  BY <1>1, Zenon DEF None, Result
<1>3. StateInv'
  BY <1>1, <1>2, Zenon DEF StateInv
<1>4. bailed' = "no" => CallInv'
  BY <1>1, <1>2, Zenon DEF CallInv
<1> QED
  BY <1>3, <1>4, Zenon DEF IInv

\* `exit': the frames and the cache of the call that breaks.
LEMMA BreakWay ==
    ASSUME StateInv, bailed # "outer", NEW fs, IsStack(fs), NEW cs, AreCalls(cs), cs # <<>>,
           NEW result, result.k \in Errors, Break(fs, cs, result),
           bailed = "no" => GoesOn(fs, cs, scry_stack', running_status) /\ result.k \in {"det", "nondet"},
           bailed # "no" => Beyond(running_status, Len(cs))
    PROVE  IInv'
<1> DEFINE n == Top(cs).frame
<1>1. /\ running_status' = LeaveRunning(running_status) /\ cache' = Top(cs).cache
      /\ calls' = cs /\ bailed' = bailed
      /\ ret' = IF Len(fs) < n THEN Result("undefined", D(0)) ELSE ExitError(fs, result)
      /\ frames' = IF Len(fs) < n THEN fs ELSE SubSeq(fs, 1, n)
  BY Zenon DEF Break, Unwind
<1>2. n \in Nat /\ Len(fs) \in Nat /\ Len(cs) \in Nat \ {0}
  BY CallsPop, SeqLen, Zenon DEF IsStack
<1>3. running_status \in Int /\ running_status' \in Int
  BY <1>1 DEF StateInv, LeaveRunning, RUNNING_IDLE
<1>4. ExitError(fs, result).k = result.k
  BY Zenon DEF ExitError, Result
<1>5. ret'.k \in Errors \cup {"undefined"}
  BY <1>1, <1>4, Zenon DEF Result
<1>6. IsStack(frames')
  <2>1. CASE Len(fs) < n
    BY <1>1, <2>1, Zenon
  <2>2. CASE ~(Len(fs) < n)
    <3>1. n \in 0 .. Len(fs)
      BY <1>2, <2>2
    <3> QED
      BY <1>1, <2>2, <3>1, StackTake, Zenon
  <2> QED
    BY <2>1, <2>2, Zenon
<1>7. StateInv'
  <2>1. bailed # "no" => Beyond(running_status', Len(cs) - 1)
    BY <1>1, <1>2, <1>3 DEF Beyond, LeaveRunning, RUNNING_IDLE
  <2> QED
    BY <1>1, <1>3, <1>5, <1>6, <2>1, Zenon DEF StateInv, Errors
<1>8. ASSUME bailed = "no" PROVE CallInv'
  <2>1. Stacked(fs, cs) /\ ScryInv(cs, scry_stack') /\ Outermost(cs)
    BY <1>8, Zenon DEF GoesOn
  <2>2. n \in 0 .. Len(fs) - 1 /\ Unwound(SubSeq(fs, 1, n), cs)
    BY <2>1, Unwinding, Zenon
  <2>3. frames' = SubSeq(fs, 1, n) /\ ret'.k \in {"det", "nondet"}
    BY <1>1, <1>2, <1>4, <1>8, <2>2
  <2>4. running_status' \in {Len(cs) - 1, 1 - Len(cs)}
    <3>1. running_status \in {Len(cs), -Len(cs)}
      BY <1>8, Zenon DEF GoesOn
    <3> QED
      BY <1>1, <1>2, <3>1 DEF LeaveRunning, RUNNING_IDLE
  <2>5. Returns(frames', calls', scry_stack', running_status')
    BY <1>1, <2>1, <2>2, <2>3, <2>4, Zenon DEF Returns
  <2>6. Len(calls') = 1 => cache' = EmptyCache
    BY <1>1, <2>1, Zenon DEF Outermost, Top
  <2> QED
    BY <1>1, <2>3, <2>5, <2>6, Zenon DEF CallInv
<1> QED
  BY <1>1, <1>7, <1>8, Zenon DEF IInv

\* `return Err': from now on only the types are claimed.
LEMMA BailWay ==
    ASSUME StateInv, NEW fs, IsStack(fs), NEW cs, AreCalls(cs), cs # <<>>,
           NEW result, result.k \in Errors, Bail(fs, cs, result),
           bailed = "no" => cs[1].frame = 0, Beyond(running_status, Len(cs) - 1)
    PROVE  IInv'
<1>1. /\ frames' = fs /\ calls' = cs /\ ret' = result /\ running_status' = running_status
      /\ bailed' = IF bailed = "no" /\ Len(cs) = 1 THEN "outer" ELSE "inner"
  BY Zenon DEF Bail
<1>2. bailed' \in {"outer", "inner"} /\ (bailed' = "outer" => bailed = "no" /\ Len(cs) = 1)
  BY <1>1, Zenon
<1>3. StateInv'
  BY <1>1, <1>2, Zenon DEF StateInv, Errors
<1> QED
  BY <1>2, <1>3, Zenon DEF IInv

\* A panic; a step that finds no item has followed an early return.
LEMMA AbortWay ==
    ASSUME IInv, calls # <<>>, ret = None, NEW k \in {"panic", "undefined"}, Abort(k),
           bailed = "no" => k = "panic"
    PROVE  IInv'
<1>1. /\ ret' = Result(k, D(0))
      /\ UNCHANGED <<frames, calls, running_status, bailed, cache, scry_stack>>
  BY Zenon DEF Abort
<1>2. ret.k = "none" /\ ret'.k = k
  BY <1>1, Zenon DEF None, Result
<1>3. bailed # "outer"
  BY <1>2, Zenon DEF IInv, StateInv
<1>4. StateInv'
  <2>1. StateInv /\ (bailed # "no" => Beyond(running_status, Len(calls)))
    BY <1>2, Zenon DEF IInv, StateInv
  <2>2. Len(calls) \in Nat /\ running_status \in Int
    BY <2>1, SeqLen, Zenon DEF StateInv, AreCalls
  <2>3. bailed # "no" => Beyond(running_status, Len(calls) - 1)
    BY <2>1, <2>2 DEF Beyond
  <2> QED
    BY <1>1, <1>2, <1>3, <2>1, <2>3, Zenon DEF StateInv
<1>5. bailed' = "no" => CallInv'
  BY <1>1, <1>2, Zenon DEF IInv, CallInv
<1> QED
  BY <1>4, <1>5, Zenon DEF IInv

\* What a step that calls interpret must have ready for it.
Callable(fs, cont) ==
    LET call == [cont |-> cont, frame |-> Len(fs), cache |-> cache', subject |-> subject, res |-> res]
    IN  /\ Stacked(fs, calls) /\ (calls # <<>> => OnTop(fs))
        /\ running_status \in {Len(calls), -Len(calls)}
        /\ ScryInv(Append(calls, call), scry_stack') /\ Outermost(Append(calls, call))

\* A call of interpret: it starts, is refused, or fails at once.
LEMMA InterpretWay ==
    ASSUME StateInv, bailed # "outer", NEW fs, IsStack(fs), NEW cont, NEW s, NEW f,
           Interpret(fs, cont, s, f), bailed = "no" => Callable(fs, cont),
           bailed # "no" => Beyond(running_status, Len(calls))
    PROVE  IInv'
<1> DEFINE call == [cont |-> cont, frame |-> Len(fs), cache |-> cache', subject |-> subject, res |-> res]
           cs == Append(calls, call)
           entered == FramePush(fs, D(0), Plain(DONE))
           w == WorkOf(f, TRUE)
<1>1. Len(fs) \in Nat /\ call.frame = Len(fs) /\ AreCalls(calls) /\ running_status \in Int
  BY SeqLen, Zenon DEF IsStack, StateInv
<1>2. /\ AreCalls(cs) /\ Len(calls) \in Nat /\ Len(cs) = Len(calls) + 1 /\ cs # <<>>
      /\ cs[Len(calls) + 1] = call
  <2> HIDE DEF call
  <2>1. call.frame \in Nat
    BY <1>1, Zenon
  <2> QED
    BY <1>1, <2>1, CallsPush, Zenon
<1>3. Pop(cs) = calls /\ Top(cs) = call
  BY <1>1, PushedCaller, Zenon
<1>4. bailed = "no" =>
          /\ Stacked(fs, calls) /\ (calls # <<>> => OnTop(fs))
          /\ running_status \in {Len(calls), -Len(calls)}
          /\ ScryInv(cs, scry_stack') /\ Outermost(cs)
  BY Zenon DEF Callable
<1>5. CASE running_status < RUNNING_IDLE
  <2>1. /\ frames' = fs /\ calls' = cs /\ ret' = ExitError(fs, BAIL_FAIL)
        /\ running_status' = running_status /\ bailed' = bailed
    BY <1>5, Zenon DEF Interpret
  <2> HIDE DEF call, cs
  <2>2. ret'.k = "nondet"
    BY <2>1, Zenon DEF ExitError, BAIL_FAIL, Result
  <2>3. StateInv'
    <3>1. Len(cs) - 1 = Len(calls)
      BY <1>2
    <3> QED
      BY <1>1, <1>2, <2>1, <2>2, <3>1, Zenon DEF StateInv
  <2>4. ASSUME bailed = "no" PROVE CallInv'
    <3>1. Len(cs) > 1 /\ Len(calls) > 0
      BY <1>1, <1>2, <1>4, <1>5, <2>4 DEF RUNNING_IDLE
    <3>2. calls # <<>>
      BY <1>1, <3>1, SeqLen DEF AreCalls
    <3>3. Unwound(fs, cs)
      BY <1>1, <1>2, <1>3, <1>4, <2>4, <3>2, Zenon DEF Unwound, OnTop
    <3>4. running_status \in {Len(cs) - 1, 1 - Len(cs)}
      BY <1>2, <1>4, <2>4
    <3>5. Returns(frames', calls', scry_stack', running_status')
      BY <1>4, <2>1, <2>4, <3>3, <3>4, Zenon DEF Returns
    <3> QED
      BY <1>2, <2>1, <2>2, <3>1, <3>5 DEF CallInv
  <2> QED
    BY <2>1, <2>3, <2>4, Zenon DEF IInv
<1>6. CASE ~(running_status < RUNNING_IDLE)
  <2>1. /\ running_status' = running_status + 1 /\ calls' = cs
        /\ IF w = NoWork
           THEN /\ frames' = entered /\ ret' = BAIL_EXIT
                /\ bailed' = IF bailed = "no" /\ Len(cs) = 1 THEN "outer" ELSE "inner"
           ELSE frames' = PushWork(entered, w) /\ ret' = None /\ bailed' = bailed
    BY <1>6, Zenon DEF Interpret
  <2>2. IsStack(entered) /\ entered # <<>>
    <3>1. IsWork(Plain(DONE))
      BY PlainWork, Zenon
    <3> QED
      BY <3>1, FramePushed, Zenon
  <2>3. bailed = "no" => Stacked(entered, cs)
    BY <1>1, <1>4, DonePushed, Zenon
  <2> HIDE DEF call, cs, entered, w
  <2>4. running_status' \in Int
    BY <1>1, <2>1
  <2>5. CASE w = NoWork
    <3>1. /\ frames' = entered /\ ret' = BAIL_EXIT
          /\ bailed' = IF bailed = "no" /\ Len(cs) = 1 THEN "outer" ELSE "inner"
      BY <2>1, <2>5, Zenon
    <3>2. ret'.k = "det"
      BY <3>1, Zenon DEF BAIL_EXIT, Result
    <3>3. bailed' \in {"outer", "inner"} /\ (bailed' = "outer" => bailed = "no" /\ Len(cs) = 1)
      BY <3>1, Zenon
    <3>4. bailed = "no" => cs[1].frame = 0
      BY <1>2, <2>3 DEF Stacked
    <3>5. Beyond(running_status', Len(cs) - 1)
      BY <1>1, <1>2, <1>4, <1>6, <2>1 DEF Beyond, RUNNING_IDLE
    <3>6. StateInv'
      BY <1>2, <2>1, <2>2, <2>4, <3>1, <3>2, <3>3, <3>4, <3>5, Zenon DEF StateInv
    <3> QED
      BY <3>3, <3>6, Zenon DEF IInv
  <2>6. CASE w # NoWork
    <3>1. frames' = PushWork(entered, w) /\ ret' = None /\ bailed' = bailed
      BY <2>1, <2>6, Zenon
    <3>2. IsWork(w) /\ w.op \in Ops
      BY <2>6, FormulaItem, Zenon DEF w
    <3>3. IsStack(frames') /\ (bailed = "no" => Stacked(frames', cs))
      BY <1>2, <2>2, <2>3, <3>1, <3>2, Pushed, Zenon
    <3>4. ret'.k = "none"
      BY <3>1, Zenon DEF None, Result
    <3>5. StateInv'
      <4>1. bailed # "no" => Beyond(running_status', Len(cs))
        BY <1>1, <1>2, <1>6, <2>1 DEF Beyond, RUNNING_IDLE
      <4> QED
        BY <1>2, <2>1, <2>4, <3>1, <3>3, <3>4, <4>1, Zenon DEF StateInv
    <3>6. ASSUME bailed = "no" PROVE CallInv'
      <4>1. running_status' \in {Len(cs), -Len(cs)}
        BY <1>1, <1>2, <1>4, <1>6, <2>1, <3>6 DEF RUNNING_IDLE
      <4>2. GoesOn(frames', calls', scry_stack', running_status')
        BY <1>4, <2>1, <3>3, <3>6, <4>1, Zenon DEF GoesOn
      <4> QED
        BY <1>2, <2>1, <3>4, <4>2, Zenon DEF CallInv
    <3> QED
      BY <3>1, <3>5, <3>6, Zenon DEF IInv
  <2> QED
    BY <2>5, <2>6, Zenon
<1> QED
  BY <1>5, <1>6, Zenon

(***************************************************************************)
(* The steps of work items.                                                *)
(***************************************************************************)
\* A call of interpret is running and has an item.
StepReady == IInv /\ calls # <<>> /\ ret = None /\ HasWork(frames)

\* A stack that a step may leave, and one with a formula's item on top.
Kept(fs) == IsStack(fs) /\ fs # <<>> /\ (bailed = "no" => Stacked(fs, calls))
Ready(fs) == Kept(fs) /\ HasWork(fs) /\ (bailed = "no" => OnTop(fs))

\* What a step of interpret can rely on.
LEMMA StepFacts ==
    ASSUME StepReady
    PROVE  /\ StateInv /\ bailed # "outer" /\ Kept(frames) /\ AreCalls(calls)
           /\ bailed = "no" => GoesOn(frames, calls, scry_stack, running_status) /\ calls[1].frame = 0
           /\ bailed # "no" => Beyond(running_status, Len(calls))
           /\ W.op \in Ops => Ready(frames)
<1>1. ret.k = "none" /\ StateInv /\ calls # <<>> /\ HasWork(frames)
  BY Zenon DEF StepReady, IInv, None, Result
<1>2. bailed # "outer" /\ IsStack(frames) /\ AreCalls(calls)
  BY <1>1, Zenon DEF StateInv
<1>3. frames # <<>>
  BY <1>1, Zenon DEF HasWork
<1>4. bailed = "no" => GoesOn(frames, calls, scry_stack, running_status)
  BY <1>1, Zenon DEF StepReady, IInv, CallInv
<1>5. bailed = "no" => Stacked(frames, calls)
  BY <1>4, Zenon DEF GoesOn
<1>6. bailed = "no" => calls[1].frame = 0
  <2>1. 1 \in 1 .. Len(calls)
    BY <1>1, <1>2, CallsPop
  <2> QED
    BY <1>5, <2>1, Zenon DEF Stacked
<1>7. W.op \in Ops /\ bailed = "no" => OnTop(frames)
  BY <1>1, <1>2, <1>5, ItemOnTop, Zenon DEF W
<1>8. bailed # "no" => Beyond(running_status, Len(calls))
  BY <1>1, Zenon DEF StateInv
<1> QED
  BY <1>1, <1>2, <1>3, <1>4, <1>5, <1>6, <1>7, <1>8, Zenon DEF Kept, Ready

\* The stacks a step makes from one with a formula's item on top.
LEMMA ReadyStacks ==
    ASSUME AreCalls(calls), NEW fs, Ready(fs)
    PROVE  /\ Kept(PopWork(fs))
           /\ \A w : IsWork(w) /\ w.op \in Ops => Ready(SetWork(fs, w))
           /\ \A noun : Ready(mean_push(fs, noun))
           /\ Ready(mean_pop(fs))
<1>1. IsStack(fs) /\ fs # <<>> /\ HasWork(fs) /\ (bailed = "no" => Stacked(fs, calls) /\ OnTop(fs))
  BY Zenon DEF Ready, Kept
<1>2. Kept(PopWork(fs))
  <2>1. /\ IsStack(PopWork(fs)) /\ PopWork(fs) # <<>>
        /\ bailed = "no" => Stacked(PopWork(fs), calls)
    BY <1>1, Popped, Zenon
  <2> QED
    BY <2>1, Zenon DEF Kept
<1>3. ASSUME NEW w, IsWork(w), w.op \in Ops PROVE Ready(SetWork(fs, w))
  <2>1. /\ IsStack(SetWork(fs, w)) /\ HasWork(SetWork(fs, w))
        /\ bailed = "no" => Stacked(SetWork(fs, w), calls) /\ OnTop(SetWork(fs, w))
    BY <1>1, <1>3, Set, Zenon
  <2> QED
    BY <2>1, Zenon DEF Ready, Kept, HasWork
<1>4. ASSUME NEW noun, NEW gs \in {mean_push(fs, noun), mean_pop(fs)} PROVE Ready(gs)
  <2>1. IsStack(gs) /\ gs # <<>> /\ HasWork(gs) /\ (bailed = "no" => Stacked(gs, calls) /\ OnTop(gs))
    BY <1>1, <1>4, Meant, Zenon
  <2> QED
    BY <2>1, Zenon DEF Ready, Kept
<1> QED
  BY <1>2, <1>3, <1>4, Zenon

\* mean_frame_push keeps the stack in order.
LEMMA KeptFrame ==
    ASSUME AreCalls(calls), NEW fs, Kept(fs)
    PROVE  Kept(mean_frame_push(fs))
<1>1. IsStack(fs) /\ fs # <<>> /\ (bailed = "no" => Stacked(fs, calls))
  BY Zenon DEF Kept
<1>2. IsStack(mean_frame_push(fs)) /\ mean_frame_push(fs) # <<>>
  BY <1>1, PlainWork, FramePushed DEF mean_frame_push
<1>3. bailed = "no" => Stacked(mean_frame_push(fs), calls)
  BY <1>1, RetPushed, Zenon
<1> QED
  BY <1>2, <1>3, Zenon DEF Kept

\* A step that goes on with a stack in order.
LEMMA StepContinues ==
    ASSUME StepReady, NEW fs, Kept(fs), NEW s, NEW r, Continue(fs, calls, s, r), scry_stack' = scry_stack
    PROVE  IInv'
<1>1. bailed = "no" => GoesOn(fs, calls, scry_stack', running_status)
  BY StepFacts, Zenon DEF GoesOn, Kept
<1>2. calls # <<>> /\ IsStack(fs)
  BY Zenon DEF StepReady, Kept
<1> QED
  BY <1>1, <1>2, StepFacts, ContinueWay, Zenon

\* A step that breaks with BAIL_EXIT.
LEMMA StepBreaks ==
    ASSUME StepReady, NEW fs, Kept(fs), Break(fs, calls, BAIL_EXIT), scry_stack' = scry_stack
    PROVE  IInv'
<1>1. bailed = "no" => GoesOn(fs, calls, scry_stack', running_status)
  BY StepFacts, Zenon DEF GoesOn, Kept
<1>2. calls # <<>> /\ IsStack(fs)
  BY Zenon DEF StepReady, Kept
<1>3. BAIL_EXIT.k = "det" /\ BAIL_EXIT.k \in Errors
  BY Zenon DEF BAIL_EXIT, Result, Errors
<1> QED
  BY <1>1, <1>2, <1>3, StepFacts, BreakWay, Zenon

\* A step that returns early.
LEMMA StepBails ==
    ASSUME StepReady, NEW fs, Kept(fs), Bail(fs, calls, BAIL_EXIT)
    PROVE  IInv'
<1>1. calls # <<>> /\ IsStack(fs)
  BY Zenon DEF StepReady, Kept
<1>2. BAIL_EXIT.k \in Errors
  BY Zenon DEF BAIL_EXIT, Result, Errors
<1>3. Beyond(running_status, Len(calls) - 1)
  <2>1. /\ bailed = "no" => running_status \in {Len(calls), -Len(calls)}
        /\ bailed # "no" => Beyond(running_status, Len(calls))
    BY StepFacts, Zenon DEF GoesOn
  <2>2. Len(calls) \in Nat \ {0} /\ running_status \in Int
    BY <1>1, StepFacts, CallsPop, Zenon DEF StateInv
  <2> QED
    BY <2>1, <2>2 DEF Beyond
<1> QED
  BY <1>1, <1>2, <1>3, StepFacts, BailWay, Zenon

\* A step that ends in push_formula.
LEMMA StepPushes ==
    ASSUME StepReady, NEW fs, Kept(fs), NEW s, NEW r, NEW f, NEW tail, PushFormula(fs, s, r, f, tail),
           scry_stack' = scry_stack
    PROVE  IInv'
<1> DEFINE w == WorkOf(f, tail)
<1>1. CASE w = NoWork
  <2>1. Bail(fs, calls, BAIL_EXIT)
    BY <1>1, Zenon DEF PushFormula
  <2> QED
    BY <2>1, StepBails, Zenon
<1>2. CASE w # NoWork
  <2>1. Continue(PushWork(fs, w), calls, s, r)
    BY <1>2, Zenon DEF PushFormula
  <2>2. IsWork(w) /\ w.op \in Ops
    BY <1>2, FormulaItem, Zenon
  <2>3. Kept(PushWork(fs, w))
    <3> HIDE DEF w
    <3>1. IsStack(fs) /\ fs # <<>> /\ (bailed = "no" => Stacked(fs, calls)) /\ AreCalls(calls)
      BY StepFacts, Zenon DEF Kept
    <3>2. /\ IsStack(PushWork(fs, w)) /\ HasWork(PushWork(fs, w))
          /\ bailed = "no" => Stacked(PushWork(fs, w), calls)
      BY <2>2, <3>1, Pushed, Zenon
    <3> QED
      BY <3>2, Zenon DEF Kept, HasWork
  <2> QED
    BY <2>1, <2>3, StepContinues, Zenon
<1> QED
  BY <1>1, <1>2, Zenon

\* A step that finishes its item.
LEMMA StepProduces ==
    ASSUME StepReady, W.op \in Ops, NEW r, Produce(r)
    PROVE  IInv'
<1>1. Kept(PopWork(frames))
  BY StepFacts, ReadyStacks, Zenon
<1>2. Continue(PopWork(frames), calls, subject, r) /\ scry_stack' = scry_stack
  BY Zenon DEF Produce, Same
<1> QED
  BY <1>1, <1>2, StepContinues, Zenon

\* A step that breaks with its item on top.
LEMMA StepFails == ASSUME StepReady, Fail PROVE IInv'
BY StepFacts, StepBreaks, Zenon DEF Fail

\* A step that goes to the next stage and evaluates a formula.
LEMMA StepComputes ==
    ASSUME StepReady, W.op \in Ops, NEW f, NEW w, IsWork(w), w.op = W.op, Compute(w, f)
    PROVE  IInv'
<1>1. Kept(SetWork(frames, w))
  BY StepFacts, ReadyStacks, Zenon DEF Ready
<1>2. PushFormula(SetWork(frames, w), subject, res, f, FALSE) /\ scry_stack' = scry_stack
  BY Zenon DEF Compute, Same
<1> QED
  BY <1>1, <1>2, StepPushes, Zenon

\* A step that calls interpret has changed the scry gates only if the call puts
\* them back.
LEMMA StepCalls ==
    ASSUME StepReady, NEW fs, Ready(fs), NEW cont, NEW s, NEW f, Interpret(fs, cont, s, f),
           cont.kind \in {"mink", "mure", "scry"} => cont.scry = scry_stack,
           cont.kind \notin {"mink", "mure", "scry"} => scry_stack' = scry_stack
    PROVE  IInv'
<1> DEFINE call == [cont |-> cont, frame |-> Len(fs), cache |-> cache', subject |-> subject, res |-> res]
<1>1. IsStack(fs) /\ HasWork(fs) /\ (bailed = "no" => Stacked(fs, calls) /\ OnTop(fs))
  BY Zenon DEF Ready, Kept
<1>2. StateInv /\ bailed # "outer" /\ AreCalls(calls) /\ calls # <<>>
      /\ (bailed = "no" => GoesOn(frames, calls, scry_stack, running_status))
      /\ (bailed # "no" => Beyond(running_status, Len(calls)))
  BY StepFacts, Zenon DEF StepReady
<1>3. call.frame \in Nat /\ call.cont = cont
  BY <1>1, SeqLen, Zenon DEF IsStack
<1>4. ASSUME bailed = "no"
      PROVE  /\ ScryInv(Append(calls, call), scry_stack') /\ Outermost(Append(calls, call))
             /\ running_status \in {Len(calls), -Len(calls)}
  <2> HIDE DEF call
  <2>1. /\ ScryInv(calls, scry_stack) /\ Outermost(calls)
        /\ running_status \in {Len(calls), -Len(calls)}
    BY <1>2, <1>4, Zenon DEF GoesOn
  <2>2. ScryInv(Append(calls, call), scry_stack')
    BY <1>2, <1>3, <2>1, ScryPush, Zenon DEF Scried
  <2>3. Outermost(Append(calls, call))
    BY <1>2, <1>3, <2>1, OutermostPush, Zenon
  <2> QED
    BY <2>1, <2>2, <2>3, Zenon
<1>5. bailed = "no" => Callable(fs, cont)
  BY <1>1, <1>4, Zenon DEF Callable
<1> QED
  BY <1>1, <1>2, <1>5, InterpretWay, Zenon

\* A step at some stage of an item other than RET and DONE.
LEMMA AtStage ==
    ASSUME StepReady, NEW op \in Ops, NEW todo, Stage(op, todo)
    PROVE  /\ W.op \in Ops /\ Ready(frames) /\ Kept(frames) /\ AreCalls(calls)
           /\ IsWork(NextStage) /\ NextStage.op = W.op
           /\ \A r : IsWork([NextStage EXCEPT !.x = r]) /\ [NextStage EXCEPT !.x = r].op = W.op
           /\ \A r : IsWork([NextStage EXCEPT !.y = r]) /\ [NextStage EXCEPT !.y = r].op = W.op
           /\ \A r : IsWork([W EXCEPT !.y = r]) /\ [W EXCEPT !.y = r].op = W.op
<1>1. W.op \in Ops
  BY Zenon DEF Stage
<1>2. Ready(frames) /\ Kept(frames) /\ AreCalls(calls)
  BY <1>1, StepFacts, Zenon
<1>3. IsStack(frames) /\ HasWork(frames)
  BY <1>2, Zenon DEF Ready, Kept
<1> QED
  BY <1>1, <1>2, <1>3, Items, Zenon

\* The items of formulas.
LEMMA OpNumbers == 0 .. 12 \subseteq Ops /\ CONS \in Ops /\ STATIC \in Ops
BY Zenon DEF Ops

\* Nock 0: the noun at an axis.
LEMMA Work0Keeps == ASSUME StepReady, Work0 PROVE IInv'
<1>1. Stage(0, 1) /\ 0 \in Ops
  BY OpNumbers DEF Work0
<1>2. W.op \in Ops
  BY <1>1, AtStage, Zenon
<1>3. Fail \/ \E r : Produce(r)
  BY Zenon DEF Work0
<1> QED
  BY <1>2, <1>3, StepFails, StepProduces, Zenon

\* Nock 1: a constant.
LEMMA Work1Keeps == ASSUME StepReady, Work1 PROVE IInv'
<1>1. Stage(1, 1) /\ 1 \in Ops /\ Produce(W.x)
  BY OpNumbers DEF Work1
<1> QED
  BY <1>1, AtStage, StepProduces, Zenon

\* Nock 2: in tail position, or in a frame of its own.
LEMMA Work2Keeps == ASSUME StepReady, Work2 PROVE IInv'
<1>0. 2 \in Ops
  BY OpNumbers
<1>1. CASE Stage(2, 1) /\ Compute(NextStage, W.x)
  BY <1>0, <1>1, AtStage, StepComputes, Zenon
<1>2. CASE Stage(2, 2) /\ Compute([NextStage EXCEPT !.x = res], W.y)
  BY <1>0, <1>2, AtStage, StepComputes, Zenon
<1>3. CASE Stage(2, 3) /\ PushFormula(PopWork(frames), W.x, res, res, TRUE) /\ Same
  <2>1. Kept(PopWork(frames)) /\ scry_stack' = scry_stack
    BY <1>0, <1>3, AtStage, ReadyStacks, Zenon DEF Same
  <2> QED
    BY <1>3, <2>1, StepPushes, Zenon
<1>4. CASE Stage(2, 3) /\ PushFormula(mean_frame_push(SetWork(frames, [NextStage EXCEPT !.x = subject])), W.x, res, res, TRUE) /\ Same
  <2>1. Kept(SetWork(frames, [NextStage EXCEPT !.x = subject])) /\ scry_stack' = scry_stack /\ AreCalls(calls)
    BY <1>0, <1>4, AtStage, ReadyStacks, Zenon DEF Ready, Same
  <2>2. Kept(mean_frame_push(SetWork(frames, [NextStage EXCEPT !.x = subject])))
    BY <2>1, KeptFrame, Zenon
  <2> QED
    BY <1>4, <2>1, <2>2, StepPushes, Zenon
<1>5. CASE Stage(2, 4) /\ Continue(PopWork(frames), calls, W.x, res) /\ Same
  <2>1. Kept(PopWork(frames)) /\ scry_stack' = scry_stack
    BY <1>0, <1>5, AtStage, ReadyStacks, Zenon DEF Same
  <2> QED
    BY <1>5, <2>1, StepContinues, Zenon
<1> QED
  BY <1>1, <1>2, <1>3, <1>4, <1>5, Zenon DEF Work2

\* Nock 3: cell or atom.
LEMMA Work3Keeps == ASSUME StepReady, Work3 PROVE IInv'
<1>0. 3 \in Ops
  BY OpNumbers
<1>1. CASE Stage(3, 1) /\ Compute(NextStage, W.x)
  BY <1>0, <1>1, AtStage, StepComputes, Zenon
<1>2. CASE Stage(3, 2) /\ Produce(IF IsCell(res) THEN YES ELSE NO)
  BY <1>0, <1>2, AtStage, StepProduces, Zenon
<1> QED
  BY <1>1, <1>2, Zenon DEF Work3

\* Nock 4: increment, of an atom only.
LEMMA Work4Keeps == ASSUME StepReady, Work4 PROVE IInv'
<1>0. 4 \in Ops
  BY OpNumbers
<1>1. CASE Stage(4, 1) /\ Compute(NextStage, W.x)
  BY <1>0, <1>1, AtStage, StepComputes, Zenon
<1>2. CASE Stage(4, 2) /\ Produce(Inc(res))
  BY <1>0, <1>2, AtStage, StepProduces, Zenon
<1>3. CASE Fail
  BY <1>3, StepFails, Zenon
<1> QED
  BY <1>1, <1>2, <1>3, Zenon DEF Work4

\* Nock 5: equality.
LEMMA Work5Keeps == ASSUME StepReady, Work5 PROVE IInv'
<1>0. 5 \in Ops
  BY OpNumbers
<1>1. CASE Stage(5, 1) /\ Compute(NextStage, W.x)
  BY <1>0, <1>1, AtStage, StepComputes, Zenon
<1>2. CASE Stage(5, 2) /\ Compute([NextStage EXCEPT !.x = res], W.y)
  BY <1>0, <1>2, AtStage, StepComputes, Zenon
<1>3. CASE Stage(5, 3) /\ Produce(IF res = W.x THEN YES ELSE NO)
  BY <1>0, <1>3, AtStage, StepProduces, Zenon
<1> QED
  BY <1>1, <1>2, <1>3, Zenon DEF Work5

\* Nock 6: a test that is no loobean breaks without its item.
LEMMA Work6Keeps == ASSUME StepReady, Work6 PROVE IInv'
<1>0. 6 \in Ops
  BY OpNumbers
<1>1. CASE Stage(6, 1) /\ Compute(NextStage, W.x)
  BY <1>0, <1>1, AtStage, StepComputes, Zenon
<1>2. CASE Stage(6, 2) /\ PushFormula(PopWork(frames), subject, res, IF res = YES THEN W.y ELSE W.z, W.tail) /\ Same
  <2>1. Kept(PopWork(frames)) /\ scry_stack' = scry_stack
    BY <1>0, <1>2, AtStage, ReadyStacks, Zenon DEF Same
  <2> QED
    BY <1>2, <2>1, StepPushes, Zenon
<1>3. CASE Stage(6, 2) /\ Break(PopWork(frames), calls, BAIL_EXIT) /\ UNCHANGED scry_stack
  <2>1. Kept(PopWork(frames)) /\ scry_stack' = scry_stack
    BY <1>0, <1>3, AtStage, ReadyStacks, Zenon
  <2> QED
    BY <1>3, <2>1, StepBreaks, Zenon
<1> QED
  BY <1>1, <1>2, <1>3, Zenon DEF Work6

\* Nock 7: the subject is kept in the item.
LEMMA Work7Keeps == ASSUME StepReady, Work7 PROVE IInv'
<1>0. 7 \in Ops
  BY OpNumbers
<1>1. CASE Stage(7, 1) /\ Compute(NextStage, W.x)
  BY <1>0, <1>1, AtStage, StepComputes, Zenon
<1>2. CASE Stage(7, 2) /\ PushFormula(PopWork(frames), res, res, W.y, TRUE) /\ Same
  <2>1. Kept(PopWork(frames)) /\ scry_stack' = scry_stack
    BY <1>0, <1>2, AtStage, ReadyStacks, Zenon DEF Same
  <2> QED
    BY <1>2, <2>1, StepPushes, Zenon
<1>3. CASE Stage(7, 2) /\ PushFormula(SetWork(frames, [NextStage EXCEPT !.x = subject]), res, res, W.y, FALSE) /\ Same
  <2>1. Kept(SetWork(frames, [NextStage EXCEPT !.x = subject])) /\ scry_stack' = scry_stack
    BY <1>0, <1>3, AtStage, ReadyStacks, Zenon DEF Ready, Same
  <2> QED
    BY <1>3, <2>1, StepPushes, Zenon
<1>4. CASE Stage(7, 3) /\ Continue(PopWork(frames), calls, W.x, res) /\ Same
  <2>1. Kept(PopWork(frames)) /\ scry_stack' = scry_stack
    BY <1>0, <1>4, AtStage, ReadyStacks, Zenon DEF Same
  <2> QED
    BY <1>4, <2>1, StepContinues, Zenon
<1> QED
  BY <1>1, <1>2, <1>3, <1>4, Zenon DEF Work7

\* Nock 8: the same with a longer subject.
LEMMA Work8Keeps == ASSUME StepReady, Work8 PROVE IInv'
<1>0. 8 \in Ops
  BY OpNumbers
<1>1. CASE Stage(8, 1) /\ Compute(NextStage, W.x)
  BY <1>0, <1>1, AtStage, StepComputes, Zenon
<1>2. CASE Stage(8, 2) /\ PushFormula(PopWork(frames), T(res, subject), res, W.y, TRUE) /\ Same
  <2>1. Kept(PopWork(frames)) /\ scry_stack' = scry_stack
    BY <1>0, <1>2, AtStage, ReadyStacks, Zenon DEF Same
  <2> QED
    BY <1>2, <2>1, StepPushes, Zenon
<1>3. CASE Stage(8, 2) /\ PushFormula(SetWork(frames, [NextStage EXCEPT !.x = subject]), T(res, subject), res, W.y, FALSE) /\ Same
  <2>1. Kept(SetWork(frames, [NextStage EXCEPT !.x = subject])) /\ scry_stack' = scry_stack
    BY <1>0, <1>3, AtStage, ReadyStacks, Zenon DEF Ready, Same
  <2> QED
    BY <1>3, <2>1, StepPushes, Zenon
<1>4. CASE Stage(8, 3) /\ Continue(PopWork(frames), calls, W.x, res) /\ Same
  <2>1. Kept(PopWork(frames)) /\ scry_stack' = scry_stack
    BY <1>0, <1>4, AtStage, ReadyStacks, Zenon DEF Same
  <2> QED
    BY <1>4, <2>1, StepContinues, Zenon
<1> QED
  BY <1>1, <1>2, <1>3, <1>4, Zenon DEF Work8

\* A cell of two formulas.
LEMMA WorkConsKeeps == ASSUME StepReady, WorkCons PROVE IInv'
<1>0. CONS \in Ops
  BY OpNumbers, Zenon
<1>1. CASE Stage(CONS, 1) /\ Compute(NextStage, W.x)
  BY <1>0, <1>1, AtStage, StepComputes, Zenon
<1>2. CASE Stage(CONS, 2) /\ Compute([NextStage EXCEPT !.x = res], W.y)
  BY <1>0, <1>2, AtStage, StepComputes, Zenon
<1>3. CASE Stage(CONS, 3) /\ Produce(T(W.x, res))
  BY <1>0, <1>3, AtStage, StepProduces, Zenon
<1> QED
  BY <1>1, <1>2, <1>3, Zenon DEF WorkCons

\* A step that panics.
LEMMA StepAborts == ASSUME StepReady, Abort("panic") PROVE IInv'
BY AbortWay, Zenon DEF StepReady

\* The jets of ++mink and ++mure: the call restores the scry gates.
LEMMA CallMinkKeeps ==
    ASSUME StepReady, Ready(frames), NEW jet \in {"mink", "mure"}, NEW s, NEW f, NEW scry, CallMink(jet, s, f, scry)
    PROVE  IInv'
<1> DEFINE cont == [kind |-> jet, cache |-> cache, scry |-> scry_stack]
<1>1. Interpret(frames, cont, s, f)
  BY Zenon DEF CallMink
<1>2. cont.kind \in {"mink", "mure", "scry"} /\ cont.scry = scry_stack
  BY Zenon
<1> HIDE DEF cont
<1> QED
  BY <1>1, <1>2, StepCalls, Zenon

\* A jet that finds its sample makes its call, one that does not breaks.
LEMMA JetKeeps == ASSUME StepReady, Ready(frames), NEW core, JetMink(core) \/ JetMure(core) PROVE IInv'
<1>1. Fail \/ \E jet \in {"mink", "mure"} : \E s, f, scry : CallMink(jet, s, f, scry)
  BY Zenon DEF JetMink, JetMure
<1> QED
  BY <1>1, StepFails, CallMinkKeeps, Zenon

\* Nock 9: a jet, in tail position, or in a frame of its own.
LEMMA Work9Keeps == ASSUME StepReady, Work9 PROVE IInv'
<1> DEFINE kept == SetWork(frames, [NextStage EXCEPT !.y = subject])
           formula == Slot(res, Value(W.x))
           jet == JetOf(res, Value(W.x))
<1>0. 9 \in Ops
  BY OpNumbers
<1>1. CASE Stage(9, 1) /\ Compute(NextStage, W.y)
  BY <1>0, <1>1, AtStage, StepComputes, Zenon
<1>2. CASE /\ Stage(9, 2)
           /\ CASE formula = NoNoun -> Fail
                [] jet = MinkBattery -> JetMink(res)
                [] jet = MureBattery -> JetMure(res)
                [] OTHER ->
                     /\ Same
                     /\ IF W.tail THEN PushFormula(PopWork(frames), res, res, formula, TRUE)
                        ELSE PushFormula(mean_frame_push(kept), res, res, formula, TRUE)
  <2>1. Ready(frames) /\ AreCalls(calls) /\ Kept(PopWork(frames)) /\ Kept(kept)
    BY <1>0, <1>2, AtStage, ReadyStacks, Zenon DEF Ready
  <2>2. Kept(mean_frame_push(kept))
    BY <2>1, KeptFrame, Zenon
  <2>3. \/ Fail \/ JetMink(res) \/ JetMure(res)
        \/ /\ scry_stack' = scry_stack
           /\ \/ PushFormula(PopWork(frames), res, res, formula, TRUE)
              \/ PushFormula(mean_frame_push(kept), res, res, formula, TRUE)
    <3> HIDE DEF kept, formula, jet
    <3> QED
      BY <1>2, Zenon DEF Same
  <2> QED
    BY <2>1, <2>2, <2>3, StepFails, JetKeeps, StepPushes, Zenon
<1>3. CASE Stage(9, 3) /\ Continue(PopWork(frames), calls, W.y, res) /\ Same
  <2>1. Kept(PopWork(frames)) /\ scry_stack' = scry_stack
    BY <1>0, <1>3, AtStage, ReadyStacks, Zenon DEF Same
  <2> QED
    BY <1>3, <2>1, StepContinues, Zenon
<1> QED
  BY <1>1, <1>2, <1>3, Zenon DEF Work9

\* Nock 10: an axis that is not there panics.
LEMMA Work10Keeps == ASSUME StepReady, Work10 PROVE IInv'
<1>0. 10 \in Ops
  BY OpNumbers
<1>1. CASE Stage(10, 1) /\ Compute(NextStage, W.y)
  BY <1>0, <1>1, AtStage, StepComputes, Zenon
<1>2. CASE Stage(10, 2) /\ Compute([NextStage EXCEPT !.y = res], W.z)
  BY <1>0, <1>2, AtStage, StepComputes, Zenon
<1>3. CASE Stage(10, 3) /\ (Abort("panic") \/ \E r : Produce(r))
  BY <1>0, <1>3, AtStage, StepAborts, StepProduces, Zenon
<1> QED
  BY <1>1, <1>2, <1>3, Zenon DEF Work10

\* %bout calls interpret under the same gates and the same cache.
LEMMA BoutKeeps == ASSUME StepReady, Ready(frames), Bout PROVE IInv'
<1> DEFINE cont == [kind |-> "bout"]
<1>1. Interpret(frames, cont, subject, W.z) /\ scry_stack' = scry_stack
  BY Zenon DEF Bout, Same
<1>2. cont.kind \notin {"mink", "mure", "scry"}
  BY Zenon
<1> HIDE DEF cont
<1> QED
  BY <1>1, <1>2, StepCalls, Zenon

\* match_pre_nock pushes on the mean stack, and the body follows.
LEMMA PreHintKeeps == ASSUME StepReady, NEW op \in Ops, NEW todo, Stage(op, todo), PreHint, Same PROVE IInv'
<1> DEFINE fs == IF W.x = MEAN THEN mean_push(frames, T(W.x, res)) ELSE frames
           w == [NextStage EXCEPT !.y = res]
<1>1. AreCalls(calls) /\ Ready(frames) /\ IsWork(w) /\ w.op \in Ops
  BY AtStage, Zenon
<1>2. Ready(fs)
  BY <1>1, ReadyStacks, Zenon
<1> HIDE DEF fs, w
<1>3. Kept(PopWork(fs)) /\ Kept(SetWork(fs, w))
  BY <1>1, <1>2, ReadyStacks, Zenon DEF Ready
<1>4. Kept(IF W.tail THEN PopWork(fs) ELSE SetWork(fs, w))
  BY <1>3, Zenon
<1>5. PushFormula(IF W.tail THEN PopWork(fs) ELSE SetWork(fs, w), subject, res, W.z, W.tail)
  BY Zenon DEF PreHint, fs, w
<1> QED
  BY <1>4, <1>5, StepPushes, Zenon DEF Same

\* match_post_nock pops it, or panics where there is nothing to pop.
LEMMA PostHintKeeps == ASSUME StepReady, NEW op \in Ops, NEW todo, Stage(op, todo), PostHint PROVE IInv'
<1> DEFINE fs == IF W.x = MEAN THEN mean_pop(frames) ELSE frames
<1>1. AreCalls(calls) /\ Ready(frames)
  BY AtStage, Zenon
<1>2. Ready(fs)
  BY <1>1, ReadyStacks, Zenon
<1>3. Abort("panic") \/ (scry_stack' = scry_stack /\ Continue(PopWork(fs), calls, subject, res))
  BY Zenon DEF PostHint
<1> HIDE DEF fs
<1>4. Kept(PopWork(fs))
  BY <1>1, <1>2, ReadyStacks, Zenon
<1> QED
  BY <1>3, <1>4, StepAborts, StepContinues, Zenon

\* A dynamic hint.
LEMMA Work11DKeeps == ASSUME StepReady, Work11D PROVE IInv'
<1>0. 11 \in Ops
  BY OpNumbers
<1>1. CASE Stage(11, 1) /\ Produce(cache[MemoKey(W.z)])
  BY <1>0, <1>1, AtStage, StepProduces, Zenon
<1>2. CASE Stage(11, 1) /\ Compute(NextStage, W.y)
  BY <1>0, <1>2, AtStage, StepComputes, Zenon
<1>3. CASE Stage(11, 2) /\ Bout
  BY <1>0, <1>3, AtStage, BoutKeeps, Zenon
<1>4. CASE Stage(11, 2) /\ PreHint /\ Same
  BY <1>0, <1>4, PreHintKeeps, Zenon
<1>5. CASE Stage(11, 3) /\ PostHint
  BY <1>0, <1>5, PostHintKeeps, Zenon
<1> QED
  BY <1>1, <1>2, <1>3, <1>4, <1>5, Zenon DEF Work11D

\* A static hint: a body that push_formula refuses ends in a break.
LEMMA Work11SKeeps == ASSUME StepReady, Work11S PROVE IInv'
<1> DEFINE fs == IF W.tail THEN PopWork(frames) ELSE SetWork(frames, NextStage)
           w == WorkOf(W.z, W.tail)
<1>0. STATIC \in Ops
  BY OpNumbers, Zenon
<1>1. CASE Stage(STATIC, 1) /\ Bout
  BY <1>0, <1>1, AtStage, BoutKeeps, Zenon
<1>2. CASE /\ Stage(STATIC, 1)
           /\ IF w = NoWork THEN Break(fs, calls, BAIL_EXIT) /\ UNCHANGED scry_stack
              ELSE Continue(PushWork(fs, w), calls, subject, res) /\ Same
  <2>1. Kept(PopWork(frames)) /\ Kept(SetWork(frames, NextStage))
    BY <1>0, <1>2, AtStage, ReadyStacks, Zenon DEF Ready
  <2>2. Kept(fs)
    BY <2>1, Zenon
  <2> HIDE DEF fs, w
  <2>3. CASE w = NoWork
    BY <1>2, <2>2, <2>3, StepBreaks, Zenon
  <2>4. CASE w # NoWork
    <3>1. PushFormula(fs, subject, res, W.z, W.tail) /\ scry_stack' = scry_stack
      BY <1>2, <2>4, Zenon DEF PushFormula, Same, w
    <3> QED
      BY <2>2, <3>1, StepPushes, Zenon
  <2> QED
    BY <2>3, <2>4, Zenon
<1>3. CASE Stage(STATIC, 2) /\ PostHint
  BY <1>0, <1>3, PostHintKeeps, Zenon
<1> QED
  BY <1>1, <1>2, <1>3, Zenon DEF Work11S

\* Nock 12: the gate is called with the rest of the scry stack.
LEMMA Work12Keeps == ASSUME StepReady, Work12 PROVE IInv'
<1>0. 12 \in Ops
  BY OpNumbers
<1>1. CASE Stage(12, 1) /\ Compute(NextStage, W.x)
  BY <1>0, <1>1, AtStage, StepComputes, Zenon
<1>2. CASE Stage(12, 2) /\ Compute([NextStage EXCEPT !.x = res], W.y)
  BY <1>0, <1>2, AtStage, StepComputes, Zenon
<1>3. CASE Stage(12, 3) /\ Bail(frames, calls, BAIL_EXIT)
  BY <1>0, <1>3, AtStage, StepBails, Zenon
<1>4. CASE Stage(12, 3) /\ CallScryGate
  <2> DEFINE cont == [kind |-> "scry", scry |-> scry_stack, reff |-> W.x, path |-> res]
             fs == SetWork(frames, [W EXCEPT !.y = res])
  <2>1. \E f : Interpret(fs, cont, D(0), f)
    BY <1>4, Zenon DEF CallScryGate
  <2>2. cont.kind \in {"mink", "mure", "scry"} /\ cont.scry = scry_stack
    BY Zenon
  <2>3. Ready(fs)
    BY <1>0, <1>4, AtStage, ReadyStacks, Zenon
  <2> HIDE DEF cont, fs
  <2> QED
    BY <2>1, <2>2, <2>3, StepCalls, Zenon
<1> QED
  BY <1>1, <1>2, <1>3, <1>4, Zenon DEF Work12

\* The end of a frame, and of a call.
LEMMA RetKeeps == ASSUME StepReady, Ret PROVE IInv'
<1>1. W.op = RET /\ Continue(Pop(frames), calls, subject, res) /\ scry_stack' = scry_stack
  BY Zenon DEF Ret, Stage, Same
<1>2. /\ StateInv /\ bailed # "outer" /\ AreCalls(calls) /\ calls # <<>>
      /\ IsStack(frames) /\ frames # <<>> /\ HasWork(frames)
      /\ bailed = "no" => GoesOn(frames, calls, scry_stack, running_status)
      /\ bailed # "no" => Beyond(running_status, Len(calls))
  BY StepFacts, Zenon DEF StepReady, Kept
<1>3. IsStack(Pop(frames))
  <2>1. Len(frames) - 1 \in 0 .. Len(frames)
    BY <1>2, StackTop
  <2> QED
    BY <1>2, <2>1, StackTake, Zenon DEF Pop
<1>4. bailed = "no" => Stacked(Pop(frames), calls)
  BY <1>1, <1>2, RetPopped, Zenon DEF GoesOn, W
<1>5. bailed = "no" => GoesOn(Pop(frames), calls, scry_stack', running_status)
  BY <1>1, <1>2, <1>4, Zenon DEF GoesOn
<1> QED
  BY <1>1, <1>2, <1>3, <1>5, ContinueWay, Zenon

\* DONE pops the first frame of the call and takes it off the status.
LEMMA DoneKeeps == ASSUME StepReady, Done PROVE IInv'
<1>1. /\ W.op = DONE /\ frames' = Pop(frames) /\ running_status' = LeaveRunning(running_status)
      /\ ret' = Result("ok", res) /\ UNCHANGED <<calls, cache, scry_stack, bailed>>
  BY Zenon DEF Done, Stage
<1>2. /\ StateInv /\ bailed # "outer" /\ AreCalls(calls) /\ calls # <<>>
      /\ IsStack(frames) /\ frames # <<>> /\ HasWork(frames)
      /\ bailed = "no" => GoesOn(frames, calls, scry_stack, running_status)
      /\ bailed # "no" => Beyond(running_status, Len(calls))
  BY StepFacts, Zenon DEF StepReady, Kept
<1>3. IsStack(Pop(frames))
  <2>1. Len(frames) - 1 \in 0 .. Len(frames)
    BY <1>2, StackTop
  <2> QED
    BY <1>2, <2>1, StackTake, Zenon DEF Pop
<1>4. ret'.k = "ok" /\ running_status' \in Int
  BY <1>1, <1>2 DEF Result, StateInv, LeaveRunning, RUNNING_IDLE
<1>5. StateInv'
  <2>1. Len(calls) \in Nat \ {0} /\ running_status \in Int
    BY <1>2, CallsPop, Zenon DEF StateInv
  <2>2. bailed # "no" => Beyond(running_status', Len(calls) - 1)
    BY <1>1, <1>2, <2>1 DEF Beyond, LeaveRunning, RUNNING_IDLE
  <2> QED
    BY <1>1, <1>2, <1>3, <1>4, <2>2, Zenon DEF StateInv
<1>6. ASSUME bailed = "no" PROVE CallInv'
  <2>1. /\ Stacked(frames, calls) /\ ScryInv(calls, scry_stack) /\ Outermost(calls)
        /\ running_status \in {Len(calls), -Len(calls)}
    BY <1>2, <1>6, Zenon DEF GoesOn
  <2>2. Unwound(Pop(frames), calls)
    BY <1>1, <1>2, <2>1, DonePopped, Zenon DEF W
  <2>3. running_status' \in {Len(calls) - 1, 1 - Len(calls)}
    BY <1>1, <1>2, <2>1, CallsPop DEF LeaveRunning, RUNNING_IDLE
  <2>4. Returns(frames', calls', scry_stack', running_status')
    BY <1>1, <2>1, <2>2, <2>3, Zenon DEF Returns
  <2> QED
    BY <1>1, <1>2, <1>4, <2>4, Zenon DEF CallInv
<1> QED
  BY <1>1, <1>5, <1>6, Zenon DEF IInv

\* Every step of interpret.
LEMMA StepKeeps == ASSUME IInv, Step PROVE IInv'
<1>1. StepReady
  BY Zenon DEF Step, StepReady
<1>2. \/ Work0 \/ Work1 \/ Work2 \/ Work3 \/ Work4 \/ Work5 \/ Work6 \/ Work7 \/ Work8
      \/ Work9 \/ Work10 \/ WorkCons \/ Work11D \/ Work11S \/ Work12 \/ Ret \/ Done
  BY Zenon DEF Step
<1> QED
  BY <1>1, <1>2, Work0Keeps, Work1Keeps, Work2Keeps, Work3Keeps, Work4Keeps, Work5Keeps, Work6Keeps,
     Work7Keeps, Work8Keeps, Work9Keeps, Work10Keeps, WorkConsKeeps, Work11DKeeps, Work11SKeeps,
     Work12Keeps, RetKeeps, DoneKeeps, Zenon

(***************************************************************************)
(* Start, cancel and the return of a call.                                 *)
(***************************************************************************)
LEMMA EmptyStack == IsStack(<<>>) /\ AreCalls(<<>>)
<1>1. IsSeq(<<>>) /\ Len(<<>>) = 0
  <2>1. <<>> \in Seq({}) /\ Len(<<>>) = 0
    OBVIOUS
  <2> QED
    BY <2>1, SeqOfItself, Zenon
<1> QED
  BY <1>1 DEF IsStack, AreCalls

\* A context without a computation.
LEMMA InitI == ASSUME Init PROVE IInv
<1>1. /\ frames = <<>> /\ calls = <<>> /\ cache = EmptyCache /\ scry_stack = <<>>
      /\ running_status = 0 /\ ret = None /\ ret.k = "none" /\ bailed = "no"
  BY Zenon DEF Init, None, Result, RUNNING_IDLE
<1>2. StateInv
  BY <1>1, EmptyStack DEF StateInv
<1>3. Len(frames) = 0 /\ Len(calls) = 0
  BY <1>1, Zenon
<1>4. Stacked(frames, calls)
  BY <1>1, <1>3 DEF Stacked
<1>5. ScryInv(calls, scry_stack)
  BY <1>1, <1>3 DEF ScryInv
<1>6. GoesOn(frames, calls, scry_stack, running_status)
  BY <1>1, <1>3, <1>4, <1>5, Zenon DEF GoesOn, Outermost
<1>7. CallInv
  BY <1>1, <1>6, Zenon DEF CallInv
<1> QED
  BY <1>2, <1>7, Zenon DEF IInv

\* The program calls interpret.
LEMMA StartKeeps == ASSUME IInv, Start PROVE IInv'
<1> DEFINE cont == [kind |-> "top"]
           call == [cont |-> cont, frame |-> Len(<<>>), cache |-> cache', subject |-> subject, res |-> res]
<1>1. /\ calls = <<>> /\ cache' = cache /\ scry_stack' = scry_stack
      /\ Interpret(<<>>, cont, program[1], program[2])
  BY Zenon DEF Start, Same
<1>2. /\ StateInv /\ ret.k = "none" /\ bailed # "outer"
      /\ bailed # "no" => Beyond(running_status, Len(calls))
  BY <1>1, Zenon DEF IInv, StateInv
<1>3. call.frame = 0 /\ call.frame \in Nat /\ call.cont = cont /\ call.cache = cache' /\ cont.kind = "top"
  BY Zenon
<1>4. ASSUME bailed = "no" PROVE Callable(<<>>, cont)
  <2>1. GoesOn(frames, calls, scry_stack, running_status) /\ cache = EmptyCache
    BY <1>1, <1>2, <1>4, Zenon DEF IInv, CallInv
  <2>2. /\ Stacked(frames, calls) /\ ScryInv(calls, scry_stack)
        /\ running_status \in {Len(calls), -Len(calls)}
    BY <2>1, Zenon DEF GoesOn
  <2>3. frames = <<>>
    BY <1>1, <2>2, Zenon DEF Stacked
  <2> HIDE DEF call, cont
  <2>4. AreCalls(calls)
    BY <1>2, Zenon DEF StateInv
  <2>5. ~Scried(call)
    BY <1>3, Zenon DEF Scried
  <2>6. ScryInv(Append(calls, call), scry_stack')
    BY <1>1, <1>3, <2>2, <2>4, <2>5, ScryPush, Zenon
  <2>7. Append(calls, call)[1] = call
    <3>1. Len(calls) = 0
      BY <1>1, Zenon
    <3>2. Append(calls, call)[Len(calls) + 1] = call
      BY <1>3, <2>4, CallsPush, Zenon
    <3> QED
      BY <3>1, <3>2
  <2>8. Outermost(Append(calls, call))
    BY <1>1, <1>3, <2>1, <2>7, Zenon DEF Outermost
  <2> QED
    BY <1>1, <2>2, <2>3, <2>6, <2>8, Zenon DEF Callable, call
<1> HIDE DEF cont
<1> QED
  BY <1>1, <1>2, <1>4, EmptyStack, InterpretWay, Zenon

\* A running call that has not lost its frames always has an item.
LEMMA NoItemKeeps == ASSUME IInv, NoItem PROVE IInv'
<1>1. calls # <<>> /\ ret = None /\ ~HasWork(frames) /\ Abort("undefined")
  BY Zenon DEF NoItem
<1>2. ret.k = "none" /\ StateInv
  BY <1>1, Zenon DEF None, Result, IInv
<1>3. ASSUME bailed = "no" PROVE FALSE
  <2>1. Stacked(frames, calls)
    BY <1>2, <1>3, Zenon DEF IInv, CallInv, GoesOn
  <2>2. IsStack(frames) /\ AreCalls(calls)
    BY <1>2, Zenon DEF StateInv
  <2>3. Top(calls).frame \in 0 .. Len(frames) - 1
    BY <1>1, <2>1, <2>2, Unwinding, Zenon
  <2>4. frames # <<>>
    BY <2>3
  <2>5. Len(frames) \in 1 .. Len(frames)
    BY <2>2, <2>4, StackTop
  <2>6. Len(TopFrame(frames).work) > 0
    BY <2>1, <2>5, Zenon DEF Stacked, TopFrame, Top
  <2>7. TopFrame(frames).work # <<>>
    BY <2>2, <2>4, <2>6, StackTop, SeqLen
  <2> QED
    BY <1>1, <2>4, <2>7, Zenon DEF HasWork
<1> QED
  BY <1>1, <1>3, AbortWay, Zenon

\* The token only negates the status.
LEMMA CancelKeeps == ASSUME IInv, Cancel PROVE IInv'
<1>1. /\ running_status' = -running_status
      /\ UNCHANGED <<frames, calls, cache, scry_stack, ret, bailed>>
  BY Zenon DEF Cancel
<1>2. StateInv'
  <2>1. StateInv /\ running_status \in Int /\ Len(calls) \in Nat
    BY SeqLen, Zenon DEF IInv, StateInv, AreCalls
  <2>2. \A n \in Int : Beyond(running_status, n) => Beyond(-running_status, n)
    BY <2>1 DEF Beyond
  <2> QED
    BY <1>1, <2>1, <2>2 DEF StateInv
<1>3. ASSUME bailed = "no" PROVE CallInv'
  <2>1. CallInv /\ Len(calls) \in Nat
    BY <1>3, SeqLen, Zenon DEF IInv, StateInv, AreCalls
  <2>2. GoesOn(frames, calls, scry_stack, running_status) => GoesOn(frames, calls, scry_stack, -running_status)
    BY <2>1 DEF GoesOn
  <2>3. Returns(frames, calls, scry_stack, running_status) => Returns(frames, calls, scry_stack, -running_status)
    BY <2>1 DEF Returns
  <2> QED
    BY <1>1, <2>1, <2>2, <2>3, Zenon DEF CallInv
<1> QED
  BY <1>1, <1>2, <1>3, Zenon DEF IInv

\* A call has returned to another one.
ReturnReady == IInv /\ ret # None /\ ~Finished

\* What the caller of a call that has returned can rely on.
LEMMA ReturnFacts ==
    ASSUME ReturnReady
    PROVE  /\ StateInv /\ bailed # "outer" /\ IsStack(frames) /\ AreCalls(Pop(calls)) /\ Pop(calls) # <<>>
           /\ ret.k \in Errors \cup {"ok"}
           /\ bailed # "no" => Beyond(running_status, Len(Pop(calls)))
           /\ bailed = "no" =>
                 /\ ret.k \in {"ok", "det", "nondet"} /\ OnTop(frames) /\ HasWork(frames)
                 /\ Stacked(frames, Pop(calls)) /\ Pop(calls)[1].frame = 0 /\ Outermost(Pop(calls))
                 /\ ScryInv(Pop(calls), IF Scried(Call) THEN Call.cont.scry ELSE scry_stack)
                 /\ running_status \in {Len(Pop(calls)), -Len(Pop(calls))}
<1> DEFINE outer == Pop(calls)
<1>1. StateInv /\ ret # None /\ ret.k \notin {"panic", "undefined"} /\ Len(calls) # 1
  BY Zenon DEF ReturnReady, IInv, Finished
<1>2. ret.k \in Errors \cup {"ok"} /\ ret.k # "none"
  BY <1>1, Zenon DEF StateInv, Errors
<1>3. AreCalls(calls) /\ IsStack(frames) /\ calls # <<>> /\ bailed # "outer"
  BY <1>1, <1>2, Zenon DEF StateInv
<1>4. /\ AreCalls(outer) /\ Len(calls) \in Nat \ {0} /\ Len(outer) = Len(calls) - 1
  BY <1>3, CallsPop, Zenon
<1>5. Len(calls) > 1 /\ Len(outer) # 0
  BY <1>1, <1>4
<1>6. outer # <<>>
  BY <1>4, <1>5, SeqLen, Zenon DEF AreCalls
<1>7. ASSUME bailed = "no"
      PROVE  /\ ret.k \in {"ok", "det", "nondet"} /\ OnTop(frames) /\ HasWork(frames)
             /\ Stacked(frames, outer) /\ outer[1].frame = 0 /\ Outermost(outer)
             /\ ScryInv(outer, IF Scried(Call) THEN Call.cont.scry ELSE scry_stack)
             /\ running_status \in {Len(outer), -Len(outer)}
  <2>1. CallInv
    BY <1>7, Zenon DEF ReturnReady, IInv
  <2>2. ret.k \in {"ok", "det", "nondet"}
    BY <1>2, <2>1, Zenon DEF CallInv, Errors
  <2>3. Returns(frames, calls, scry_stack, running_status)
    BY <2>1, <2>2, Zenon DEF CallInv
  <2>4. /\ Unwound(frames, calls) /\ ScryInv(calls, scry_stack) /\ Outermost(calls)
        /\ running_status \in {Len(calls) - 1, 1 - Len(calls)}
    BY <2>3, Zenon DEF Returns
  <2>5. Stacked(frames, outer) /\ Len(TopFrame(frames).work) > 1
    BY <1>5, <2>4, Zenon DEF Unwound
  <2>6. Top(outer).frame \in 0 .. Len(frames) - 1
    BY <1>3, <1>4, <1>6, <2>5, Unwinding, Zenon
  <2>7. frames # <<>>
    BY <2>6
  <2>8. OnTop(frames)
    BY <2>5, <2>7, Zenon DEF OnTop
  <2>9. HasWork(frames)
    <3>1. IsSeq(TopFrame(frames).work) /\ Len(TopFrame(frames).work) # 0
      BY <1>3, <2>5, <2>7, StackTop
    <3>2. TopFrame(frames).work # <<>>
      BY <3>1, SeqLen, Zenon
    <3> QED
      BY <2>7, <3>2, Zenon DEF HasWork
  <2>10. outer[1].frame = 0
    BY <1>4, <1>5, <2>5 DEF Stacked
  <2>11. Outermost(outer)
    BY <1>3, <2>4, OutermostPop, Zenon
  <2>12. ScryInv(outer, IF Scried(Call) THEN Call.cont.scry ELSE scry_stack)
    BY <1>3, <2>4, ScryPop, Zenon DEF Call
  <2>13. running_status \in {Len(outer), -Len(outer)}
    BY <1>4, <2>4
  <2> QED
    BY <2>2, <2>5, <2>8, <2>9, <2>10, <2>11, <2>12, <2>13, Zenon
<1>8. bailed # "no" => Beyond(running_status, Len(outer))
  BY <1>1, <1>2, <1>4, Zenon DEF StateInv, Errors
<1> QED
  BY <1>1, <1>2, <1>3, <1>4, <1>6, <1>7, <1>8, Zenon

\* The caller takes the result, with the scry gates it had at the call.
LEMMA ResumeKeeps ==
    ASSUME ReturnReady, NEW r, Resume(r),
           scry_stack' = IF Scried(Call) THEN Call.cont.scry ELSE scry_stack
    PROVE  IInv'
<1> DEFINE outer == Pop(calls)
<1>1. CASE HasWork(frames)
  <2>1. Continue(PopWork(frames), outer, Call.subject, r)
    BY <1>1, Zenon DEF Resume
  <2>2. /\ StateInv /\ bailed # "outer" /\ AreCalls(outer) /\ outer # <<>> /\ IsStack(frames)
        /\ bailed # "no" => Beyond(running_status, Len(outer))
        /\ bailed = "no" =>
              /\ OnTop(frames) /\ Stacked(frames, outer) /\ Outermost(outer)
              /\ ScryInv(outer, scry_stack')
              /\ running_status \in {Len(outer), -Len(outer)}
    BY ReturnFacts, Zenon
  <2> HIDE DEF outer
  <2>3. IsStack(PopWork(frames)) /\ (bailed = "no" => Stacked(PopWork(frames), outer))
    BY <1>1, <2>2, Popped, Zenon
  <2>4. bailed = "no" => GoesOn(PopWork(frames), outer, scry_stack', running_status)
    BY <2>2, <2>3, Zenon DEF GoesOn
  <2> QED
    BY <2>1, <2>2, <2>3, <2>4, ContinueWay, Zenon
<1>2. CASE ~HasWork(frames)
  <2>1. ret' = Result("undefined", D(0)) /\ UNCHANGED <<frames, calls, running_status, bailed>>
    BY <1>2, Zenon DEF Resume
  <2>2. ret'.k = "undefined"
    BY <2>1, Zenon DEF Result
  <2>3. StateInv /\ bailed # "outer" /\ bailed # "no" /\ ret.k \notin {"none", "panic"}
    BY <1>2, ReturnFacts, Zenon DEF Errors
  <2>4. StateInv'
    BY <2>1, <2>2, <2>3, Zenon DEF StateInv
  <2> QED
    BY <2>1, <2>3, <2>4, Zenon DEF IInv
<1> QED
  BY <1>1, <1>2, Zenon

\* The caller breaks with the error of the call, or with its own.
LEMMA ReturnBreaks ==
    ASSUME ReturnReady, NEW result, result.k \in Errors, Break(frames, Pop(calls), result),
           bailed = "no" => /\ result.k \in {"det", "nondet"}
                            /\ scry_stack' = IF Scried(Call) THEN Call.cont.scry ELSE scry_stack
    PROVE  IInv'
<1>1. bailed = "no" => GoesOn(frames, Pop(calls), scry_stack', running_status)
  BY ReturnFacts, Zenon DEF GoesOn
<1> QED
  BY <1>1, ReturnFacts, BreakWay, Zenon

\* util::mink takes the result.
LEMMA ReturnMinkKeeps == ASSUME ReturnReady, ReturnMink PROVE IInv'
<1>1. Scried(Call)
  BY Zenon DEF ReturnMink, Scried
<1>2. CASE scry_stack' = Call.cont.scry /\ Resume(JetProduct)
  BY <1>1, <1>2, ResumeKeeps, Zenon
<1>3. CASE /\ ret.k = "crashed"
           /\ Break(frames, Pop(calls),
                    IF scry_stack = Call.cont.scry THEN Result("det", ret.v) ELSE ret)
  <2> DEFINE result == IF scry_stack = Call.cont.scry THEN Result("det", ret.v) ELSE ret
  <2>1. result.k \in Errors
    BY <1>3, Zenon DEF Errors, Result
  <2>2. bailed # "no"
    BY <1>3, ReturnFacts, Zenon
  <2>3. Break(frames, Pop(calls), result)
    BY <1>3, Zenon
  <2> HIDE DEF result
  <2> QED
    BY <2>1, <2>2, <2>3, ReturnBreaks, Zenon
<1>4. CASE ret.k = "nondet" /\ scry_stack' = Call.cont.scry /\ Break(frames, Pop(calls), ret)
  BY <1>1, <1>4, ReturnBreaks DEF Errors
<1> QED
  BY <1>2, <1>3, <1>4, Zenon DEF ReturnMink

\* %bout takes it.
LEMMA ReturnBoutKeeps == ASSUME ReturnReady, ReturnBout PROVE IInv'
<1>1. ~Scried(Call) /\ scry_stack' = scry_stack
  BY Zenon DEF ReturnBout, Scried
<1>2. CASE ret.k = "ok" /\ Resume(ret.v)
  BY <1>1, <1>2, ResumeKeeps, Zenon
<1>3. CASE ret.k # "ok" /\ Break(frames, Pop(calls), ret)
  <2>1. ret.k \in Errors /\ (bailed = "no" => ret.k \in {"det", "nondet"})
    BY <1>3, ReturnFacts, Zenon
  <2> QED
    BY <1>1, <1>3, <2>1, ReturnBreaks, Zenon
<1> QED
  BY <1>2, <1>3, Zenon DEF ReturnBout

\* A trace pushed on a stack without a frame changes nothing.
LEMMA MeanStack == ASSUME NEW fs, IsStack(fs), NEW noun PROVE IsStack(mean_push(fs, noun))
<1>1. CASE fs # <<>>
  BY <1>1, Meant, Zenon
<1>2. CASE fs = <<>>
  <2>1. \A f : SetFrame(fs, f) = fs
    BY <1>2 DEF SetFrame
  <2> QED
    BY <2>1, Zenon DEF mean_push
<1> QED
  BY <1>1, <1>2, Zenon

\* step_work12 takes the answer of the gate, or returns early.
LEMMA ReturnScryKeeps == ASSUME ReturnReady, ReturnScry PROVE IInv'
<1> DEFINE outer == Pop(calls)
           crashed == Result("crashed", D(0))
           pushed == mean_push(frames, T(HUNK, T(Call.cont.reff, Call.cont.path)))
           error == CASE ret.k = "ok" /\ ret.v = D(0) -> Result("blocked", Call.cont.path)
                      [] ret.k = "ok" /\ ret.v # D(0) -> crashed
                      [] ret.k \in {"det", "crashed"} -> Result("crashed", ret.v)
                      [] ret.k = "nondet" -> ret
                      [] ret.k = "blocked" -> BAIL_FAIL
<1>1. Scried(Call)
  BY Zenon DEF ReturnScry, Scried
<1>2. /\ StateInv /\ bailed # "outer" /\ IsStack(frames) /\ AreCalls(outer) /\ outer # <<>>
      /\ ret.k \in Errors \cup {"ok"}
      /\ bailed = "no" => outer[1].frame = 0
      /\ Beyond(running_status, Len(outer) - 1)
  <2>1. /\ bailed = "no" => running_status \in {Len(outer), -Len(outer)}
        /\ bailed # "no" => Beyond(running_status, Len(outer))
        /\ AreCalls(outer) /\ outer # <<>> /\ StateInv
    BY ReturnFacts, Zenon
  <2>2. Len(outer) \in Nat \ {0} /\ running_status \in Int
    BY <2>1, CallsPop, Zenon DEF StateInv
  <2>3. Beyond(running_status, Len(outer) - 1)
    BY <2>1, <2>2 DEF Beyond
  <2> QED
    BY <2>3, ReturnFacts, Zenon
<1>3. CASE scry_stack' = Call.cont.scry /\ Resume(TailOf(TailOf(ret.v)))
  BY <1>1, <1>3, ResumeKeeps, Zenon
<1>4. CASE Bail(pushed, outer, crashed)
  <2>1. crashed.k \in Errors
    BY Zenon DEF Errors, Result
  <2>2. IsStack(pushed)
    BY <1>2, MeanStack, Zenon
  <2> HIDE DEF outer, crashed, pushed
  <2> QED
    BY <1>2, <1>4, <2>1, <2>2, BailWay, Zenon
<1>5. CASE Bail(frames, outer, error)
  <2>1. error.k \in Errors
    BY <1>2, Zenon DEF Errors, Result, BAIL_FAIL
  <2> HIDE DEF outer, error
  <2> QED
    BY <1>2, <1>5, <2>1, BailWay, Zenon
<1> QED
  <2>1. \/ scry_stack' = Call.cont.scry /\ Resume(TailOf(TailOf(ret.v)))
        \/ Bail(pushed, outer, crashed)
        \/ Bail(frames, outer, error)
    <3>1. /\ TRUE
          /\ CASE ret.k = "ok" /\ IsCell(ret.v) /\ IsCell(TailOf(ret.v)) ->
                   Resume(TailOf(TailOf(ret.v))) /\ scry_stack' = Call.cont.scry
             [] ret.k = "ok" /\ IsCell(ret.v) /\ IsAtom(TailOf(ret.v)) ->
                   /\ Bail(pushed, outer, crashed)
                   /\ UNCHANGED scry_stack
             [] OTHER -> Bail(frames, outer, error) /\ UNCHANGED scry_stack
      BY Zenon DEF ReturnScry
    <3> HIDE DEF outer, crashed, pushed, error
    <3> QED
      BY <3>1, Zenon
  <2> QED
    BY <1>3, <1>4, <1>5, <2>1, Zenon

\* Every action keeps the invariant.
LEMMA NextI == ASSUME IInv, Next PROVE IInv'
<1>1. CASE Return
  <2>1. ReturnReady /\ (ReturnMink \/ ReturnBout \/ ReturnScry)
    BY <1>1, Zenon DEF Return, ReturnReady
  <2> QED
    BY <2>1, ReturnMinkKeeps, ReturnBoutKeeps, ReturnScryKeeps, Zenon
<1> QED
  BY <1>1, StartKeeps, StepKeeps, NoItemKeeps, CancelKeeps, Zenon DEF Next

(***************************************************************************)
(* The theorems.                                                           *)
(***************************************************************************)
LEMMA StutterI == ASSUME IInv, UNCHANGED vars PROVE IInv'
BY Zenon DEF vars, IInv, StateInv, CallInv

\* interpret keeps its frames, its open calls, the scry gates and the status of
\* the token in step, whatever is computed and whenever it is cancelled.
THEOREM InterpreterInvariant == Spec => []IInv
<1>1. Init => IInv
  BY InitI, Zenon
<1>2. IInv /\ [Next]_vars => IInv'
  BY NextI, StutterI, Zenon
<1> QED
  BY <1>1, <1>2, PTL DEF Spec

\* The types follow from the invariant.
LEMMA InvTypes == ASSUME IInv PROVE TypeOK
<1>1. StateInv /\ (bailed = "no" => CallInv)
  BY Zenon DEF IInv
<1>2. ASSUME NEW i \in 1 .. Len(frames), NEW j \in 1 .. Len(frames[i].work)
      PROVE  frames[i].work[j].op \in 0 .. 12 \cup {CONS, STATIC, RET, DONE}
  <2>1. IsWork(frames[i].work[j])
    BY <1>1, Zenon DEF StateInv, IsStack, IsFrame
  <2> QED
    BY <2>1, Zenon DEF IsWork, Ops
<1>3. IsStack(frames) /\ AreCalls(calls) /\ Len(frames) \in Nat /\ Len(calls) \in Nat
      /\ \A i \in 1 .. Len(calls) : calls[i].frame \in Nat
  BY <1>1, SeqLen, Zenon DEF StateInv, IsStack, AreCalls
<1>4. ASSUME bailed = "no"
      PROVE  /\ \A i \in 1 .. Len(calls) : calls[i].frame \in 0 .. Len(frames)
             /\ running_status \in -Len(calls) .. Len(calls)
  <2>1. CASE GoesOn(frames, calls, scry_stack, running_status)
    <3>1. running_status \in {Len(calls), -Len(calls)} /\ Stacked(frames, calls)
      BY <2>1, Zenon DEF GoesOn
    <3>2. running_status \in -Len(calls) .. Len(calls)
      BY <1>3, <3>1
    <3>3. \A i \in 1 .. Len(calls) : calls[i].frame < Len(frames)
      BY <3>1, Zenon DEF Stacked
    <3> QED
      BY <1>3, <3>2, <3>3
  <2>2. CASE Returns(frames, calls, scry_stack, running_status)
    <3>1. /\ calls # <<>> /\ Len(frames) = Top(calls).frame /\ Stacked(frames, Pop(calls))
          /\ running_status \in {Len(calls) - 1, 1 - Len(calls)}
      BY <2>2, Zenon DEF Returns, Unwound
    <3>2. /\ Len(calls) \in Nat \ {0} /\ Len(Pop(calls)) = Len(calls) - 1
          /\ \A k \in 1 .. Len(calls) - 1 : Pop(calls)[k] = calls[k]
      BY <1>3, <3>1, CallsPop, Zenon
    <3>3. ASSUME NEW i \in 1 .. Len(calls) PROVE calls[i].frame \in 0 .. Len(frames)
      <4>1. CASE i = Len(calls)
        BY <1>3, <3>1, <4>1 DEF Top
      <4>2. CASE i \in 1 .. Len(calls) - 1
        <5>1. Pop(calls)[i].frame < Len(frames)
          BY <3>1, <3>2, <4>2, Zenon DEF Stacked
        <5> QED
          BY <1>3, <3>2, <4>2, <5>1
      <4> QED
        BY <3>2, <4>1, <4>2
    <3> QED
      BY <3>1, <3>2, <3>3
  <2> QED
    BY <1>1, <1>4, <2>1, <2>2, Zenon DEF CallInv, StateInv
<1>5. ASSUME bailed = "outer" PROVE \A i \in 1 .. Len(calls) : calls[i].frame \in 0 .. Len(frames)
  <2>1. Len(calls) = 1 /\ calls[1].frame = 0
    BY <1>1, <1>5, Zenon DEF StateInv
  <2> QED
    BY <1>3, <2>1
<1>6. /\ running_status \in Int
      /\ ret.k \in {"none", "ok", "blocked", "crashed", "det", "nondet", "panic", "undefined"}
      /\ bailed \in {"no", "outer", "inner"}
  BY <1>1, Zenon DEF StateInv
<1> QED
  BY <1>2, <1>4, <1>5, <1>6, Zenon DEF TypeOK

\* Work items are the ones push_formula makes, a call never has fewer frames than
\* it must unwind to, and running_status counts at most the open calls.
THEOREM InterpreterTypes == Spec => []TypeOK
<1>1. IInv => TypeOK
  BY InvTypes, Zenon
<1> QED
  BY <1>1, InterpreterInvariant, PTL

\* So does the idle context.
LEMMA InvIdle ==
    ASSUME IInv, Finished, bailed = "no", ret.k # "panic"
    PROVE  /\ running_status = RUNNING_IDLE
           /\ frames = <<>> /\ scry_stack = <<>>
           /\ ret.k # "ok" => cache = EmptyCache
<1>1. CallInv /\ StateInv
  BY Zenon DEF IInv
<1>2. ret # None /\ Len(calls) = 1
  BY <1>1, Zenon DEF Finished, CallInv
<1>3. ret.k \in {"ok", "det", "nondet"}
  BY <1>1, <1>2, Zenon DEF CallInv, StateInv
<1>4. Returns(frames, calls, scry_stack, running_status) /\ (ret.k # "ok" => cache = EmptyCache)
  BY <1>1, <1>2, <1>3, Zenon DEF CallInv
<1>5. running_status = RUNNING_IDLE
  BY <1>2, <1>4 DEF Returns, RUNNING_IDLE
<1>6. calls # <<>> /\ Stacked(frames, Pop(calls)) /\ AreCalls(calls)
  BY <1>1, <1>4, Zenon DEF Returns, Unwound, StateInv
<1>7. Pop(calls) = <<>>
  <2>1. AreCalls(Pop(calls)) /\ Len(Pop(calls)) = Len(calls) - 1
    BY <1>6, CallsPop, Zenon
  <2>2. Len(Pop(calls)) = 0
    BY <1>2, <2>1
  <2>3. IsSeq(Pop(calls))
    BY <2>1, Zenon DEF AreCalls
  <2> QED
    BY <2>2, <2>3, SeqLen, Zenon
<1>8. frames = <<>>
  BY <1>6, <1>7, Zenon DEF Stacked
<1>9. scry_stack = <<>>
  <2>1. calls[1].cont.kind = "top" /\ ScryInv(calls, scry_stack)
    BY <1>4, <1>6, Zenon DEF Returns, Outermost
  <2>2. \A i \in 1 .. Len(calls) : ~Scried(calls[i])
    BY <1>2, <2>1 DEF Scried
  <2> QED
    BY <2>1, <2>2, Zenon DEF ScryInv
<1> QED
  BY <1>4, <1>5, <1>8, <1>9, Zenon

\* After an early return it is not idle.
LEMMA InvNotIdle == ASSUME IInv, Finished, bailed # "no", ret.k # "panic" PROVE running_status # RUNNING_IDLE
<1>1. StateInv /\ ret.k # "none" /\ calls # <<>>
  BY Zenon DEF IInv, StateInv, Finished
<1>2. Beyond(running_status, Len(calls) - 1)
  BY <1>1, Zenon DEF StateInv
<1>3. Len(calls) \in Nat \ {0}
  BY <1>1, CallsPop, Zenon DEF StateInv
<1> QED
  BY <1>2, <1>3 DEF Beyond, RUNNING_IDLE

\* After interpret has returned to the program, by a result, an error or a cancel,
\* the context is idle exactly when no call returned early; and then no frame and
\* no scry gate is left, and no entry in the cache after an error.
THEOREM IdleAgainTheorem == Spec => []IdleAgain
<1>1. IInv => IdleAgain
  BY InvIdle, InvNotIdle, Zenon DEF IdleAgain
<1> QED
  BY <1>1, InterpreterInvariant, PTL
=============================================================================
