-------------------------- MODULE TransformedProofs --------------------------
(***************************************************************************)
(* Proofs about the transformed program, for every program, stack depth,   *)
(* word size and source of countdowns, unless paths are balanced (by       *)
(* default they are not).  No sample falls due in the fast path, and the   *)
(* transformed program implements naive sampling: with the countdown       *)
(* cached in a local if every site weighs one, and in the global whatever  *)
(* sites weigh, as far as an int can tell.                                 *)
(***************************************************************************)
EXTENDS Transformed, TLAPS

-----------------------------------------------------------------------------
(* The inductive invariant *)

\* Above an activation that holds the countdown only weightless functions run.
WeightlessAbove ==
    \A i \in Active : Holds(i) =>
        \A j \in Active : j > i => Owner[frames[j].at] \notin Weighty

\* The countdown variable of an activation.
LeftOf(f, g) == IF CacheCountdown THEN f.local ELSE g

\* Untransformed functions, and only they, run "plain"; a region is chosen at
\* a function's entry or after a call, and every call that needs it is followed
\* by a choice; a countdown in use, here v, is not zero, and in the original
\* copy it covers the rest of the region.
FrameOK(f, v) ==
    /\ f.mode = "plain" <=> ~Transformed(Owner[f.at])
    /\ f.mode = "import" =>
          \/ f.at \in Entries
          \/ f.at \in Calls /\ f.phase = "returned"
    /\ Holding(f) =>
          /\ v > 0
          /\ f.at \notin Entries
          /\ f.at \in WeightyCalls => f.phase = "run"
    /\ f.mode = "original" =>
          v > Threshold(f.at) \/ (v > 0 /\ Count(f.at) = 0)

FramesOK == \A i \in Active : FrameOK(frames[i], LeftOf(frames[i], global))

IInv == TypeOK /\ global > 0 /\ WeightlessAbove /\ FramesOK

-----------------------------------------------------------------------------
(* Lemmas about the operators of the model *)

\* Subtracting what does not exceed the countdown does not wrap.
LEMMA DecrementExact ==
    ASSUME NEW v \in Word, NEW s \in Nat, s <= v
    PROVE  Decrement(v, s) = v - s /\ Decrement(v, s) \in Word
  BY CountdownAssumption, SMT DEF Decrement, Word

\* Whatever is subtracted, the result is a word.
LEMMA DecrementWord ==
    ASSUME NEW v \in Word, NEW s \in Nat
    PROVE  Decrement(v, s) \in Word
  BY CountdownAssumption, SMT DEF Decrement, Word

\* What remains of a region is a natural number, and nothing remains of a
\* region that ends here.
LEMMA ThresholdNat ==
    ASSUME NEW n \in Node
    PROVE  Threshold(n) \in Nat /\ Count(n) \in Nat
  BY WeightAssumption DEF Threshold, Count

\* A site is not a header, and the rest of its region includes the site.
LEMMA SiteWeight ==
    ASSUME NEW n \in Sites, NEW s \in Succ[n]
    PROVE  /\ n \in Node /\ s \in Node
           /\ n \notin Headers /\ Scale[n] \in Nat \ {0}
           /\ Count(n) > 0
           /\ Threshold(n) >= Scale[n] + Threshold(s)
  <1>1. n \in Node /\ Scale[n] \in Nat \ {0} /\ n \notin Headers /\ s \in Node
    BY ProgramAssumption DEF Headers, WeightyCalls, Sites
  <1>2. Weight[n].threshold >= Scale[n] + Threshold(s) /\ Weight[n].count >= 1
    BY <1>1, WeightAssumption DEF SelfScale, SelfCount
  <1> QED
    BY <1>1, <1>2, WeightAssumption DEF Threshold, Count

\* Moving on from any statement but a header leaves no more to run than before.
LEMMA MoveWeight ==
    ASSUME NEW n \in Node \ Headers, NEW s \in Succ[n]
    PROVE  /\ s \in Node
           /\ Threshold(n) >= Threshold(s)
           /\ Count(n) >= Count(s)
  <1>1. s \in Node
    BY ProgramAssumption
  <1>2. SelfScale(n) \in Nat /\ SelfCount(n) \in Nat
    BY ProgramAssumption DEF SelfScale, SelfCount
  <1>3. /\ Weight[n].threshold >= SelfScale(n) + Threshold(s)
        /\ Weight[n].count >= SelfCount(n) + Count(s)
    BY WeightAssumption
  <1> QED
    BY <1>1, <1>2, <1>3, ThresholdNat, WeightAssumption DEF Threshold, Count

\* The weight of a header covers the region behind it.
LEMMA HeaderWeight ==
    ASSUME NEW n \in Node, NEW s \in Succ[n]
    PROVE  /\ s \in Node
           /\ Weight[n].threshold >= Threshold(s)
           /\ Weight[n].count >= Count(s)
  <1>1. s \in Node
    BY ProgramAssumption
  <1>2. SelfScale(n) \in Nat /\ SelfCount(n) \in Nat
    BY ProgramAssumption DEF SelfScale, SelfCount
  <1>3. /\ Weight[n].threshold >= SelfScale(n) + Threshold(s)
        /\ Weight[n].count >= SelfCount(n) + Count(s)
    BY WeightAssumption
  <1> QED
    BY <1>1, <1>2, <1>3, ThresholdNat, WeightAssumption

\* The choice at a header picks the original copy only if the countdown
\* outlasts whatever path the region takes.
LEMMA ChoiceCovers ==
    ASSUME NEW n \in Node, NEW s \in Succ[n], NEW v \in Word, v > 0
    PROVE  /\ CheckThreshold(Weight[n], v) \in {"original", "instrumented"}
           /\ CheckThreshold(Weight[n], v) = "original" =>
                 v > Threshold(s) \/ (v > 0 /\ Count(s) = 0)
  BY HeaderWeight, ThresholdNat, WeightAssumption
  DEF CheckThreshold, Exceeds, Word

\* Without balancing, moving on costs nothing.
LEMMA GoOnDefault ==
    ASSUME ~BalancePaths,
           NEW mode, NEW v \in Word, mode # "plain", GoOn(mode, v)
    PROVE  /\ \E n \in Succ[at] :
                 frames' = [frames EXCEPT ![depth] =
                     [at |-> n, phase |-> "run", mode |-> mode,
                      local |-> IF CacheCountdown THEN v ELSE 0]]
           /\ global' = IF CacheCountdown THEN global ELSE v
  <1>1. \A h, n : Toll(h, n, mode) = 0
    BY DEF Toll
  <1>2. Decrement(v, 0) = v
    BY DecrementExact DEF Word
  <1> QED
    BY <1>1, <1>2 DEF GoOn

-----------------------------------------------------------------------------
(* The invariant is inductive *)

EventOK(e) == e \in [site : Sites, sampled : BOOLEAN] \cup {NoEvent}

\* A frame that holds no countdown is in order whatever the countdown.
LEMMA FrameFree ==
    ASSUME NEW f, ~Holding(f), NEW v, NEW w, FrameOK(f, v)
    PROVE  FrameOK(f, w)
  BY DEF FrameOK, Holding

\* Below an activation of a transformed function nothing holds the countdown.
LEMMA NoneBelow ==
    ASSUME IInv, 0 < depth, top.mode # "plain"
    PROVE  \A i \in Active : i # depth => ~Holds(i)
  <1>1. depth \in Active /\ depth \in 1..MaxDepth /\ MaxDepth \in Nat
    BY ProgramAssumption DEF IInv, TypeOK, Active
  <1>2. top \in Frame /\ Transformed(Owner[at])
    BY <1>1 DEF IInv, TypeOK, FramesOK, FrameOK, top, at
  <1>3. Owner[at] \in Weighty
    BY <1>2, ProgramAssumption, WeightyAssumption DEF at, Frame
  <1> SUFFICES ASSUME NEW i \in Active, i # depth, Holds(i) PROVE FALSE
    OBVIOUS
  <1>4. depth > i
    BY <1>1 DEF Active
  <1> QED
    BY <1>1, <1>3, <1>4 DEF IInv, WeightlessAbove, at, top

\* A step that only rewrites the top frame, and the global countdown if that
\* is the one in use, keeps the invariant if the new frame is in order and in
\* the same function.
LEMMA TopStep ==
    ASSUME IInv, 0 < depth, NEW f \in Frame, FrameOK(f, LeftOf(f, global')),
           Owner[f.at] = Owner[at],
           frames' = [frames EXCEPT ![depth] = f],
           depth' = depth, EventOK(event'), global' \in Word, global' > 0,
           global' = global \/ (~CacheCountdown /\ top.mode # "plain")
    PROVE  IInv'
  <1>2. depth \in 1..MaxDepth /\ Active' = Active
    BY DEF IInv, TypeOK, Active
  <1>3. \A i \in 1..MaxDepth : frames'[i] = IF i = depth THEN f ELSE frames[i]
    BY <1>2 DEF IInv, TypeOK
  <1>4. TypeOK'
    <2>1. frames' \in [1..MaxDepth -> Frame \cup {Blank}]
      BY <1>2 DEF IInv, TypeOK
    <2> QED
      BY <1>2, <1>3, <2>1 DEF IInv, TypeOK, EventOK
  <1>5. WeightlessAbove'
    <2>1. \A i \in Active : Owner[frames'[i].at] = Owner[frames[i].at]
      BY <1>2, <1>3 DEF Active, at, top
    <2>2. \A i, j \in Active : j > i => i # depth
      BY <1>2 DEF Active
    <2>3. \A i \in Active : i # depth => frames'[i] = frames[i]
      BY <1>2, <1>3 DEF Active, IInv, TypeOK
    <2> QED
      BY <1>2, <2>1, <2>2, <2>3 DEF WeightlessAbove, Holds, IInv
  <1>6. FramesOK'
    <2> SUFFICES ASSUME NEW i \in Active
                 PROVE  FrameOK(frames'[i], LeftOf(frames'[i], global'))
      BY <1>2 DEF FramesOK
    <2>1. i \in 1..MaxDepth /\ FrameOK(frames[i], LeftOf(frames[i], global))
      BY <1>2, ProgramAssumption DEF FramesOK, Active, IInv, TypeOK
    <2>2. CASE i = depth
      BY <1>3, <2>1, <2>2
    <2>3. CASE i # depth /\ global' = global
      BY <1>3, <2>1, <2>3
    <2>4. CASE i # depth /\ top.mode # "plain"
      <3>1. ~Holding(frames[i]) /\ frames'[i] = frames[i]
        BY <1>3, <2>1, <2>4, NoneBelow DEF Holds
      <3> QED
        BY <2>1, <3>1, FrameFree
    <2> QED
      BY <2>2, <2>3, <2>4
  <1> QED
    BY <1>4, <1>5, <1>6 DEF IInv

\* Going on within the function, in either copy, from the current frame.
LEMMA GoOnStep ==
    ASSUME ~BalancePaths, IInv, 0 < depth,
           NEW mode \in {"original", "instrumented"}, top.mode # "plain",
           NEW v \in Word, v > 0,
           mode = "original" =>
              \A n \in Succ[at] : v > Threshold(n) \/ Count(n) = 0,
           GoOn(mode, v), depth' = depth, EventOK(event')
    PROVE  IInv'
  <1>1. PICK n \in Succ[at] :
           frames' = [frames EXCEPT ![depth] =
               [at |-> n, phase |-> "run", mode |-> mode,
                local |-> IF CacheCountdown THEN v ELSE 0]]
    BY GoOnDefault
  <1>2. global' = IF CacheCountdown THEN global ELSE v
    BY GoOnDefault
  <1> DEFINE f == [at |-> n, phase |-> "run", mode |-> mode,
                   local |-> IF CacheCountdown THEN v ELSE 0]
  <1>3. top \in Frame /\ FrameOK(top, LeftOf(top, global)) /\ global \in Word /\ global > 0
    BY DEF IInv, TypeOK, FramesOK, Active, top
  <1>4. at \in Node /\ n \in Node /\ Owner[n] = Owner[at] /\ n \notin Entries
    BY <1>3, ProgramAssumption DEF at, Frame
  <1>5. f \in Frame
    BY <1>4, CountdownAssumption DEF Frame, Mode, Word
  <1>8. LeftOf(f, global') = v
    BY <1>2 DEF LeftOf
  <1>6. FrameOK(f, v)
    BY <1>3, <1>4 DEF FrameOK, at, Holding
  <1>9. frames' = [frames EXCEPT ![depth] = f]
    BY <1>1
  <1>7. f.at = n
    OBVIOUS
  <1> HIDE DEF f
  <1> QED
    BY <1>2, <1>3, <1>4, <1>5, <1>6, <1>7, <1>8, <1>9, TopStep

\* A frame in use is a frame, and it is in order.
LEMMA TopFrame ==
    ASSUME IInv, 0 < depth
    PROVE  /\ MaxDepth \in Nat /\ depth \in 1..MaxDepth /\ depth \in Active
           /\ top \in Frame /\ FrameOK(top, Countdown) /\ top = frames[depth]
           /\ at \in Node
           /\ Countdown \in Word /\ top.local \in Word /\ global \in Word /\ global > 0
  <1>1. MaxDepth \in Nat /\ depth \in 1..MaxDepth /\ depth \in Active /\ top \in Frame
    BY ProgramAssumption DEF IInv, TypeOK, Active, top
  <1>2. Countdown = LeftOf(top, global)
    BY DEF Countdown, LeftOf
  <1> QED
    BY <1>1, <1>2 DEF IInv, TypeOK, FramesOK, top, at, Frame, LeftOf

LEMMA ImportInv ==
    ASSUME ~BalancePaths, IInv, Import
    PROVE  IInv'
  <1>1. /\ at \in Node /\ global \in Word /\ global > 0
        /\ top.mode = "import" /\ 0 < depth /\ depth' = depth
    BY TopFrame DEF Import
  <1> DEFINE mode == CheckThreshold(Weight[at], global)
  <1>2. Succ[at] # {}
    BY DEF Import, GoOn
  <1>3. mode \in {"original", "instrumented"}
    BY <1>1, <1>2, ChoiceCovers
  <1>4. mode = "original" =>
           \A n \in Succ[at] : global > Threshold(n) \/ Count(n) = 0
    BY <1>1, ChoiceCovers
  <1>5. EventOK(event')
    BY DEF Import, EventOK
  <1> HIDE DEF mode
  <1>6. GoOn(mode, global)
    BY DEF Import, mode
  <1> QED
    BY <1>1, <1>3, <1>4, <1>5, <1>6, GoOnStep

LEMMA BackJumpInv ==
    ASSUME ~BalancePaths, IInv, BackJump
    PROVE  IInv'
  <1>1. /\ at \in Node /\ Countdown \in Word /\ Countdown > 0
        /\ top.mode # "plain" /\ 0 < depth /\ depth' = depth
    BY TopFrame DEF BackJump, Countdown, FrameOK, Holding
  <1> DEFINE mode == CheckThreshold(Weight[at], Countdown)
  <1>2. Succ[at] # {}
    BY DEF BackJump, GoOn
  <1>3. mode \in {"original", "instrumented"}
    BY <1>1, <1>2, ChoiceCovers
  <1>4. mode = "original" =>
           \A n \in Succ[at] : Countdown > Threshold(n) \/ Count(n) = 0
    BY <1>1, ChoiceCovers
  <1>5. EventOK(event')
    BY DEF BackJump, EventOK
  <1> HIDE DEF mode
  <1>6. GoOn(mode, Countdown)
    BY DEF BackJump, mode
  <1> QED
    BY <1>1, <1>3, <1>4, <1>5, <1>6, GoOnStep

\* Staying in the original copy keeps the rest of the region covered.
LEMMA OriginalSiteInv ==
    ASSUME ~BalancePaths, IInv, OriginalSite
    PROVE  IInv'
  <1>1. /\ at \in Sites /\ at \in Node /\ Countdown \in Word
        /\ top.mode = "original" /\ 0 < depth /\ depth' = depth
        /\ Countdown > Threshold(at) \/ Count(at) = 0
    BY TopFrame DEF OriginalSite, Countdown, FrameOK, at
  <1>2. Succ[at] # {}
    BY DEF OriginalSite, GoOn
  <1>3. PICK s \in Succ[at] : TRUE
    BY <1>2
  <1>4. /\ Scale[at] \in Nat \ {0}
        /\ \A n \in Succ[at] : n \in Node /\ Threshold(at) >= Scale[at] + Threshold(n)
        /\ Count(at) > 0
    BY <1>1, <1>3, SiteWeight
  <1> DEFINE v == Decrement(Countdown, SiteDecrement(at))
  <1>5. \A n \in Succ[at] : Countdown - Scale[at] > Threshold(n) /\ Threshold(n) \in Nat
    BY <1>1, <1>4, ThresholdNat DEF Word
  <1>6. Scale[at] <= Countdown
    BY <1>1, <1>3, <1>4, <1>5 DEF Word
  <1>7. v = Countdown - Scale[at] /\ v \in Word
    BY <1>1, <1>4, <1>6, DecrementExact DEF SiteDecrement
  <1>8. v > 0 /\ \A n \in Succ[at] : v > Threshold(n)
    BY <1>1, <1>3, <1>4, <1>5, <1>7 DEF Word
  <1>9. EventOK(event')
    BY <1>1 DEF OriginalSite, EventOK
  <1>10. GoOn("original", v)
    BY DEF OriginalSite
  <1> HIDE DEF v
  <1> QED
    BY <1>1, <1>7, <1>8, <1>9, <1>10, GoOnStep

LEMMA InstrumentedSiteInv ==
    ASSUME ~BalancePaths, IInv, InstrumentedSite
    PROVE  IInv'
  <1>1. /\ at \in Sites /\ Countdown \in Word
        /\ top.mode = "instrumented" /\ 0 < depth /\ depth' = depth
    BY TopFrame DEF InstrumentedSite, Countdown
  <1> DEFINE left == Decrement(Countdown, Scale[at])
             sampled == AtMostZero(left)
  <1>2. PICK nxt \in IF sampled THEN Fresh ELSE {left} : GoOn("instrumented", nxt)
    BY DEF InstrumentedSite
  <1>3. left \in Word
    BY <1>1, ProgramAssumption, DecrementWord
  <1>4. nxt \in Word /\ nxt > 0
    <2>1. CASE sampled
      BY <2>1, <1>2, CountdownAssumption DEF Word
    <2>2. CASE ~sampled
      <3>1. nxt = left /\ left # 0
        BY <2>2, <1>2 DEF AtMostZero
      <3> HIDE DEF left
      <3> QED
        BY <3>1, <1>3 DEF Word
    <2> QED
      BY <2>1, <2>2
  <1>5. EventOK(event')
    BY <1>1 DEF InstrumentedSite, EventOK, AtMostZero
  <1> HIDE DEF left, sampled
  <1> QED
    BY <1>1, <1>2, <1>4, <1>5, GoOnStep

\* Control moves within a copy, or within an untransformed function.
LEMMA PlainInv ==
    ASSUME ~BalancePaths, IInv, Plain
    PROVE  IInv'
  <1>1. /\ at \in Node /\ at \notin Sites /\ 0 < depth /\ depth' = depth
        /\ top \in Frame /\ FrameOK(top, Countdown) /\ top.mode # "import"
        /\ top = frames[depth]
    BY TopFrame DEF Plain
  <1>2. EventOK(event')
    BY DEF Plain, EventOK
  <1>3. GoOn(top.mode, Countdown)
    BY DEF Plain
  <1>4. CASE top.mode = "plain"
    <2>1. PICK n \in Succ[at] :
             /\ frames' = [frames EXCEPT ![depth] =
                   [at |-> n, phase |-> "run", mode |-> "plain", local |-> 0]]
             /\ global' = global
      BY <1>3, <1>4 DEF GoOn
    <2> DEFINE f == [at |-> n, phase |-> "run", mode |-> "plain", local |-> 0]
    <2>2. n \in Node /\ Owner[n] = Owner[at]
      BY <1>1, ProgramAssumption
    <2>3. f \in Frame
      BY <2>2, CountdownAssumption DEF Frame, Mode, Word
    <2>4. FrameOK(f, LeftOf(f, global'))
      BY <1>1, <1>4, <2>2 DEF FrameOK, Holding, at
    <2>5. f.at = n /\ frames' = [frames EXCEPT ![depth] = f]
      BY <2>1
    <2>6. global' \in Word /\ global' > 0
      BY <2>1, TopFrame, <1>1
    <2> HIDE DEF f
    <2> QED
      BY <1>1, <1>2, <2>1, <2>2, <2>3, <2>4, <2>5, <2>6, TopStep
  <1>5. CASE top.mode # "plain"
    <2>1. top.mode \in {"original", "instrumented"}
      BY <1>1, <1>5 DEF Frame, Mode
    <2>2. at \notin Headers
      BY <1>1, <1>5, <2>1 DEF Plain, Headers, FrameOK, Holding, WeightyCalls, at
    <2>3. Countdown \in Word /\ Countdown > 0
      BY <1>1, <2>1, TopFrame DEF FrameOK, Holding
    <2>4. top.mode = "original" =>
             \A n \in Succ[at] : Countdown > Threshold(n) \/ Count(n) = 0
      <3> SUFFICES ASSUME top.mode = "original", NEW n \in Succ[at]
                   PROVE  Countdown > Threshold(n) \/ Count(n) = 0
        OBVIOUS
      <3>1. Countdown > Threshold(at) \/ Count(at) = 0
        BY <1>1 DEF Countdown, FrameOK, at
      <3>2. n \in Node /\ Threshold(at) >= Threshold(n) /\ Count(at) >= Count(n)
        BY <1>1, <2>2, MoveWeight
      <3> QED
        BY <1>1, <2>3, <3>1, <3>2, ThresholdNat DEF Word
    <2> QED
      BY <1>1, <1>2, <1>3, <1>5, <2>1, <2>3, <2>4, GoOnStep
  <1> QED
    BY <1>4, <1>5

\* The first frame of a call is in order, and it holds no countdown.
LEMMA StartFrame ==
    ASSUME NEW f \in Func
    PROVE  /\ Start(f) \in Frame /\ ~Holding(Start(f))
           /\ \A v : FrameOK(Start(f), v)
           /\ Owner[Start(f).at] = f
  <1>1. Entry[f] \in Node /\ Entry[f] \in Entries /\ Owner[Entry[f]] = f
    BY ProgramAssumption DEF Entries
  <1>2. Start(f) \in Frame
    BY <1>1, CountdownAssumption DEF Start, Frame, Mode, Word
  <1> QED
    BY <1>1, <1>2 DEF Start, FrameOK, Holding

LEMMA InvokeInv ==
    ASSUME IInv, NEW f \in Roots, Invoke(f)
    PROVE  IInv'
  <1>1. f \in Func /\ MaxDepth \in Nat \ {0}
    BY ProgramAssumption
  <1>2. depth = 0 /\ depth' = 1 /\ global' = global /\ event' = NoEvent
    BY DEF Invoke
  <1>3. /\ frames' \in [1..MaxDepth -> Frame \cup {Blank}]
        /\ \A i \in 1..MaxDepth : frames'[i] = IF i = 1 THEN Start(f) ELSE frames[i]
    BY <1>1, StartFrame DEF Invoke, IInv, TypeOK
  <1>4. Active' = {1}
    BY <1>2 DEF Active
  <1>5. TypeOK'
    BY <1>1, <1>2, <1>3, StartFrame DEF IInv, TypeOK
  <1>6. WeightlessAbove'
    BY <1>4 DEF WeightlessAbove
  <1>7. FramesOK'
    BY <1>1, <1>3, <1>4, StartFrame DEF FramesOK
  <1> QED
    BY <1>2, <1>5, <1>6, <1>7 DEF IInv

LEMMA ReturnInv ==
    ASSUME IInv, Return
    PROVE  IInv'
  <1>1. /\ MaxDepth \in Nat /\ depth \in 1..MaxDepth
        /\ top \in Frame /\ FrameOK(top, Countdown) /\ top = frames[depth]
        /\ global \in Word /\ global > 0
    BY TopFrame DEF Return
  <1>2. depth' = depth - 1 /\ event' = NoEvent
    BY DEF Return
  <1>3. /\ frames' \in [1..MaxDepth -> Frame \cup {Blank}]
        /\ \A i \in 1..MaxDepth : frames'[i] = IF i = depth THEN Blank ELSE frames[i]
    BY <1>1 DEF Return, IInv, TypeOK
  <1>4. Active' = Active \ {depth} /\ \A i \in Active' : i \in 1..MaxDepth /\ i < depth
    BY <1>1, <1>2 DEF Active
  <1>5. global' \in Word /\ global' > 0
    <2>1. CASE top.mode = "plain"
      BY <1>1, <2>1 DEF Return
    <2>2. CASE top.mode = "import"
      <3>1. at \in Entries \/ at \in Calls
        BY <1>1, <2>2 DEF FrameOK, at
      <3>2. at \in Returns
        BY DEF Return
      <3> QED
        BY <3>1, <3>2, ProgramAssumption
    <2>3. CASE top.mode \in {"original", "instrumented"}
      BY <1>1, <2>3 DEF Return, Countdown, FrameOK, Holding, Frame
    <2> QED
      BY <1>1, <2>1, <2>2, <2>3 DEF Frame, Mode
  <1>6. TypeOK'
    BY <1>1, <1>2, <1>3, <1>5 DEF IInv, TypeOK
  <1>7. WeightlessAbove'
    BY <1>3, <1>4 DEF IInv, WeightlessAbove, Holds
  <1>8. FramesOK'
    <2>1. \A x : LeftOf(x, global') = LeftOf(x, global)
      BY DEF Return, Countdown, LeftOf
    <2> QED
      BY <1>3, <1>4, <2>1 DEF IInv, FramesOK
  <1> QED
    BY <1>5, <1>6, <1>7, <1>8 DEF IInv

LEMMA CallInv ==
    ASSUME IInv, NEW f \in Func, Call(f)
    PROVE  IInv'
  <1> DEFINE export == at \in WeightyCalls
             caller == [at |-> at, phase |-> "returned",
                        mode |-> IF export THEN "import" ELSE top.mode,
                        local |-> IF export THEN 0 ELSE top.local]
  <1>1. /\ MaxDepth \in Nat /\ depth \in 1..MaxDepth /\ depth < MaxDepth
        /\ depth \in Active
        /\ top \in Frame /\ FrameOK(top, Countdown) /\ top = frames[depth]
        /\ at \in Node /\ global \in Word /\ global > 0
    BY TopFrame DEF Call
  <1>2. /\ depth' = depth + 1 /\ event' = NoEvent
        /\ at \in Calls /\ f \in Callee[at] /\ top.mode # "import"
        /\ frames' = [frames EXCEPT ![depth] = caller, ![depth + 1] = Start(f)]
        /\ global' = IF export THEN Countdown ELSE global
    BY DEF Call
  <1>3. /\ caller.at = at /\ caller.phase = "returned"
        /\ caller.mode = IF export THEN "import" ELSE top.mode
        /\ caller.local = IF export THEN 0 ELSE top.local
        /\ caller \in Frame
    BY <1>1, CountdownAssumption DEF Frame, Mode, Word, at
  <1>4. export => top.mode \in {"original", "instrumented"} /\ Transformed(Owner[at])
    BY <1>1, <1>2 DEF WeightyCalls, FrameOK, Frame, Mode, at
  <1>12. \A x : LeftOf(x, global') = LeftOf(x, global)
    BY <1>2 DEF Countdown, LeftOf
  <1>5. FrameOK(caller, LeftOf(caller, global'))
    <2>1. CASE export
      <3>1. ~Holding(caller) /\ caller.mode = "import"
        BY <1>3, <2>1 DEF Holding
      <3> QED
        BY <1>2, <1>3, <1>4, <2>1, <3>1 DEF FrameOK
    <2>2. CASE ~export
      <3>1. caller.mode = top.mode /\ LeftOf(caller, global') = Countdown
        BY <1>2, <1>3, <2>2 DEF Countdown, LeftOf
      <3> HIDE DEF caller
      <3> QED
        BY <1>1, <1>2, <1>3, <2>2, <3>1 DEF FrameOK, Holding, at
    <2> QED
      BY <2>1, <2>2
  <1>6. global' \in Word /\ global' > 0
    BY <1>1, <1>2, <1>4 DEF Countdown, FrameOK, Holding, Frame
  <1> HIDE DEF export, caller
  <1>7. /\ frames' \in [1..MaxDepth -> Frame \cup {Blank}]
        /\ \A i \in 1..MaxDepth : frames'[i] = IF i = depth THEN caller
                                               ELSE IF i = depth + 1 THEN Start(f)
                                               ELSE frames[i]
    BY <1>1, <1>2, <1>3, StartFrame DEF IInv, TypeOK
  <1>8. Active' = Active \cup {depth + 1} /\ Active' \subseteq 1..MaxDepth
    BY <1>1, <1>2 DEF Active
  <1>9. TypeOK'
    BY <1>1, <1>2, <1>3, <1>6, <1>7, StartFrame DEF IInv, TypeOK
  <1>10. FramesOK'
    BY <1>1, <1>5, <1>7, <1>8, <1>12, StartFrame DEF IInv, FramesOK
  <1>11. WeightlessAbove'
    <2> SUFFICES ASSUME NEW i \in Active', Holds(i)', NEW j \in Active', j > i
                 PROVE  Owner[frames'[j].at] \notin Weighty
      BY DEF WeightlessAbove
    <2>1. i \in Active /\ i <= depth
      BY <1>1, <1>7, <1>8, StartFrame DEF Holds, Active
    <2>2. Holds(i)
      BY <1>1, <1>3, <1>7, <1>8, <2>1 DEF Holds, Holding, Active
    <2>3. CASE j \in Active
      <3>1. Owner[frames'[j].at] = Owner[frames[j].at]
        BY <1>1, <1>3, <1>7, <1>8, <2>3 DEF Active, at
      <3> QED
        BY <2>1, <2>2, <2>3, <3>1 DEF IInv, WeightlessAbove
    <2>4. CASE j = depth + 1
      <3>1. f \notin Weighty
        <4>1. CASE i = depth
          <5>1. caller.mode = top.mode /\ Holding(top)
            BY <1>1, <1>3, <1>7, <2>1, <4>1 DEF Holds, Holding
          <5>2. Transformed(Owner[at])
            BY <1>1, <5>1 DEF FrameOK, Holding, at
          <5>3. at \notin WeightyCalls
            BY <1>1, <1>3, <1>7, <4>1 DEF Holds, Holding, export
          <5> QED
            BY <1>2, <5>2, <5>3 DEF WeightyCalls
        <4>2. CASE i < depth
          <5>1. Owner[at] \notin Weighty
            BY <1>1, <2>1, <2>2, <4>2 DEF IInv, WeightlessAbove, at
          <5> QED
            BY <1>2, <5>1, WeightyAssumption
        <4> QED
          BY <1>1, <2>1, <4>1, <4>2 DEF Active
      <3> QED
        BY <1>1, <1>7, <1>8, <2>4, <3>1, StartFrame
    <2> QED
      BY <1>8, <2>3, <2>4
  <1> QED
    BY <1>6, <1>9, <1>10, <1>11 DEF IInv

LEMMA InitIInv == Init => IInv
  <1> SUFFICES ASSUME Init PROVE IInv
    OBVIOUS
  <1>1. Active = {}
    BY DEF Init, Active
  <1>2. TypeOK /\ global > 0
    BY CountdownAssumption, ProgramAssumption DEF Init, TypeOK, Word
  <1> QED
    BY <1>1, <1>2 DEF IInv, WeightlessAbove, FramesOK

LEMMA StepIInv ==
    ASSUME ~BalancePaths
    PROVE  IInv /\ [Next]_vars => IInv'
  <1> SUFFICES ASSUME IInv, [Next]_vars PROVE IInv'
    OBVIOUS
  <1>1. CASE UNCHANGED vars
    BY <1>1 DEF vars, IInv, TypeOK, WeightlessAbove, FramesOK, Active, Holds
  <1>2. CASE Next
    BY <1>2, InvokeInv, ImportInv, BackJumpInv, PlainInv, OriginalSiteInv,
       InstrumentedSiteInv, CallInv, ReturnInv DEF Next
  <1> QED
    BY <1>1, <1>2

-----------------------------------------------------------------------------
(* What the invariant gives *)

LEMMA IInvGives ==
    ASSUME IInv
    PROVE  TypeOK /\ OneHolder /\ FastPathCovered
  <1>1. TypeOK
    BY DEF IInv
  <1>2. OneHolder
    <2> SUFFICES ASSUME NEW i \in Active, Holds(i), NEW j \in Active, j > i
                 PROVE  frames[j].mode = "plain" /\ frames[j].at \notin Sites
      BY DEF OneHolder
    <2>1. Owner[frames[j].at] \notin Weighty
      BY DEF IInv, WeightlessAbove
    <2>2. frames[j] \in Frame /\ FrameOK(frames[j], LeftOf(frames[j], global))
      BY ProgramAssumption DEF IInv, FramesOK, TypeOK, Active
    <2>3. Owner[frames[j].at] \in Func
      BY <2>2, ProgramAssumption DEF Frame
    <2>4. ~Transformed(Owner[frames[j].at])
      BY <2>1, <2>3, WeightyAssumption
    <2> QED
      BY <2>2, <2>4 DEF FrameOK, Transformed
  <1>3. FastPathCovered
    BY DEF IInv, FramesOK, FrameOK, LeftOf, FastPathCovered, Active
  <1> QED
    BY <1>1, <1>2, <1>3

LEMMA InvariantHolds ==
    ASSUME ~BalancePaths
    PROVE  Spec => []IInv
  <1> QED
    BY InitIInv, StepIInv, PTL DEF Spec

\* The countdown has one owner: above an activation that keeps it in its local,
\* every other is untransformed and away from sites.  (localCopy.ml,
\* weightyCalls.ml)
THEOREM CountdownHasOneHolder ==
    ASSUME ~BalancePaths
    PROVE  Spec => []OneHolder
  <1>1. IInv => OneHolder
    BY IInvGives
  <1> QED
    BY <1>1, InvariantHolds, PTL

\* At every moment of every execution the thread's state is well typed, and no
\* sample can fall due in a fast path.  (weighPaths.ml, choose at a threshold)
THEOREM FastPathSafe ==
    ASSUME ~BalancePaths
    PROVE  Spec => [](TypeOK /\ FastPathCovered)
  <1>1. IInv => TypeOK /\ FastPathCovered
    BY IInvGives
  <1> QED
    BY <1>1, InvariantHolds, PTL

-----------------------------------------------------------------------------
(* Where the live countdown is *)

Unique(d, fr) ==
    \A i, j \in 1..d : Holding(fr[i]) /\ Holding(fr[j]) => i = j

\* The countdown is the one that the only activation which holds it names.
LEMMA LiveHeld ==
    ASSUME NEW d, NEW fr, NEW g,
           Unique(d, fr), NEW i \in 1..d, Holding(fr[i])
    PROVE  LiveOf(d, fr, g) = LeftOf(fr[i], g)
  <1> DEFINE h == CHOOSE j \in 1..d : Holding(fr[j])
  <1>1. h \in 1..d /\ Holding(fr[h])
    OBVIOUS
  <1>2. h = i
    BY <1>1 DEF Unique
  <1>3. LiveOf(d, fr, g) = LeftOf(fr[h], g)
    BY DEF LiveOf, LeftOf
  <1> HIDE DEF h
  <1> QED
    BY <1>2, <1>3

\* With no holder the countdown is the global one.
LEMMA LiveFree ==
    ASSUME NEW d, NEW fr, NEW g, \A i \in 1..d : ~Holding(fr[i])
    PROVE  LiveOf(d, fr, g) = g
  BY DEF LiveOf

\* The countdown stays if its holders do.
LEMMA LiveSame ==
    ASSUME NEW d, NEW e, NEW fr, NEW hr, NEW g,
           Unique(d, fr), Unique(e, hr),
           \A i \in 1..d : Holding(fr[i]) =>
              i \in 1..e /\ Holding(hr[i]) /\ hr[i].local = fr[i].local,
           \A i \in 1..e : Holding(hr[i]) => i \in 1..d /\ Holding(fr[i])
    PROVE  LiveOf(e, hr, g) = LiveOf(d, fr, g)
  <1>1. CASE \E i \in 1..d : Holding(fr[i])
    <2>1. PICK i \in 1..d : Holding(fr[i])
      BY <1>1
    <2>2. LiveOf(d, fr, g) = LeftOf(fr[i], g)
      BY <2>1, LiveHeld
    <2>3. LiveOf(e, hr, g) = LeftOf(hr[i], g)
      BY <2>1, LiveHeld
    <2> QED
      BY <2>1, <2>2, <2>3 DEF LeftOf
  <1>2. CASE \A i \in 1..d : ~Holding(fr[i])
    BY <1>2, LiveFree
  <1> QED
    BY <1>1, <1>2

\* The invariant leaves at most one holder, and none below a frame that runs
\* the code of a transformed function.
LEMMA IInvUnique ==
    ASSUME IInv
    PROVE  /\ Unique(depth, frames)
           /\ 0 < depth /\ top.mode # "plain" =>
                 \A i \in 1..depth : Holding(frames[i]) => i = depth
  <1>1. OneHolder /\ depth \in Nat
    BY IInvGives, ProgramAssumption DEF TypeOK
  <1>2. \A i, j \in 1..depth : Holding(frames[i]) /\ j > i => frames[j].mode = "plain"
    BY <1>1 DEF OneHolder, Holds, Active
  <1>3. \A i, j \in 1..depth : Holding(frames[i]) /\ Holding(frames[j]) => ~(j > i)
    BY <1>2 DEF Holding
  <1> QED
    BY <1>1, <1>2, <1>3 DEF Unique, top

-----------------------------------------------------------------------------
(* Steps as the naive program sees them *)

\* The abstract stack after a step that rewrites the top frame.
LEMMA StackTop ==
    ASSUME TypeOK, 0 < depth, NEW f, frames' = [frames EXCEPT ![depth] = f]
    PROVE  Stack' = [Stack EXCEPT ![depth] = [at |-> f.at, phase |-> f.phase]]
  <1>1. depth \in 1..MaxDepth
    BY ProgramAssumption DEF TypeOK
  <1> QED
    BY <1>1 DEF Stack, TypeOK

LEMMA StackAt ==
    ASSUME TypeOK, 0 < depth
    PROVE  Stack[depth].at = at /\ Stack[depth].phase = top.phase
  BY ProgramAssumption DEF TypeOK, Stack, at, top

\* After a statement of a transformed function, the running activation is the
\* one that holds the countdown.
LEMMA GoOnMaps ==
    ASSUME ~BalancePaths, IInv, 0 < depth, depth' = depth,
           top.mode # "plain", NEW mode \in {"original", "instrumented"},
           NEW v \in Word, GoOn(mode, v)
    PROVE  /\ Live' = v
           /\ \E n \in Succ[at] :
                 Stack' = [Stack EXCEPT ![depth] = [at |-> n, phase |-> "run"]]
  <1>1. PICK n \in Succ[at] :
           frames' = [frames EXCEPT ![depth] =
               [at |-> n, phase |-> "run", mode |-> mode,
                local |-> IF CacheCountdown THEN v ELSE 0]]
    BY GoOnDefault
  <1> DEFINE f == [at |-> n, phase |-> "run", mode |-> mode,
                   local |-> IF CacheCountdown THEN v ELSE 0]
  <1>10. global' = IF CacheCountdown THEN global ELSE v
    BY GoOnDefault
  <1>2. TypeOK /\ depth \in 1..MaxDepth /\ MaxDepth \in Nat
    BY TopFrame DEF IInv
  <1>3. \A i \in 1..MaxDepth : frames'[i] = IF i = depth THEN f ELSE frames[i]
    BY <1>1, <1>2 DEF TypeOK
  <1>4. Holding(f) /\ LeftOf(f, global') = v /\ f.at = n /\ f.phase = "run"
    BY <1>10 DEF Holding, LeftOf
  <1>9. frames' = [frames EXCEPT ![depth] = f]
    BY <1>1
  <1> HIDE DEF f
  <1>5. Stack' = [Stack EXCEPT ![depth] = [at |-> n, phase |-> "run"]]
    BY <1>2, <1>4, <1>9, StackTop
  <1>6. \A i \in 1..depth : Holding(frames'[i]) => i = depth
    BY <1>2, <1>3, IInvUnique
  <1>7. Unique(depth, frames') /\ depth \in 1..depth /\ Holding(frames'[depth])
    BY <1>2, <1>3, <1>4, <1>6 DEF Unique
  <1>8. LiveOf(depth, frames', global') = LeftOf(frames'[depth], global')
    BY <1>7, LiveHeld
  <1> QED
    BY <1>2, <1>3, <1>4, <1>5, <1>8 DEF Live

\* The countdown of a running transformed function is the live one.
LEMMA LiveTop ==
    ASSUME IInv, 0 < depth, Holding(top)
    PROVE  Live = Countdown
  <1>1. depth \in 1..depth /\ top = frames[depth]
    BY TopFrame DEF Active
  <1>2. LiveOf(depth, frames, global) = LeftOf(frames[depth], global)
    BY <1>1, LiveHeld, IInvUnique
  <1> QED
    BY <1>1, <1>2 DEF Live, Countdown, LeftOf

LEMMA LiveImport ==
    ASSUME IInv, 0 < depth, top.mode = "import"
    PROVE  Live = global
  <1>1. \A i \in 1..depth : Holding(frames[i]) => i = depth
    BY IInvUnique
  <1>2. ~Holding(frames[depth])
    BY DEF Holding, top
  <1>3. \A i \in 1..depth : ~Holding(frames[i])
    BY <1>1, <1>2
  <1> QED
    BY <1>3, LiveFree DEF Live

\* The statements of the two programs.
LEMMA SameProgram ==
    /\ Naive!Sites = Sites /\ Naive!Calls = Calls /\ Naive!Returns = Returns
    /\ \A f : Naive!Start(f) = [at |-> Start(f).at, phase |-> Start(f).phase]
    /\ Naive!Blank = [at |-> Blank.at, phase |-> Blank.phase]
  BY DEF Naive!Sites, Sites, Naive!Calls, Calls, Naive!Returns, Returns,
         Naive!Start, Start, Naive!Blank, Blank

LEMMA NaiveAt ==
    ASSUME TypeOK, 0 < depth
    PROVE  Naive!at = at /\ Stack[depth].phase = top.phase
  BY StackAt DEF Naive!at

LEMMA ImportMaps ==
    ASSUME ~BalancePaths, IInv, Import
    PROVE  Naive!Move
  <1>1. /\ TypeOK /\ 0 < depth /\ depth' = depth /\ top.mode = "import"
        /\ top \in Frame /\ FrameOK(top, Countdown) /\ at \in Node
        /\ global \in Word /\ global > 0
    BY TopFrame DEF Import, IInv
  <1> DEFINE mode == CheckThreshold(Weight[at], global)
  <1>2. mode \in {"original", "instrumented"} /\ GoOn(mode, global)
    <2>1. GoOn(mode, global)
      BY DEF Import
    <2>2. Succ[at] # {}
      BY <2>1 DEF GoOn
    <2> QED
      BY <1>1, <2>1, <2>2, ChoiceCovers
  <1> HIDE DEF mode
  <1>3. /\ Live' = global
        /\ \E n \in Succ[at] :
              Stack' = [Stack EXCEPT ![depth] = [at |-> n, phase |-> "run"]]
    BY <1>1, <1>2, GoOnMaps
  <1>4. Live = global
    BY <1>1, LiveImport
  <1>5. at \notin Sites /\ (at \in Calls => top.phase = "returned")
    BY <1>1, ProgramAssumption DEF FrameOK, at
  <1>6. event' = NoEvent
    BY DEF Import
  <1> QED
    BY <1>1, <1>3, <1>4, <1>5, <1>6, SameProgram, NaiveAt DEF Naive!Move, Naive!Advance

LEMMA BackJumpMaps ==
    ASSUME ~BalancePaths, IInv, BackJump
    PROVE  Naive!Move
  <1>1. /\ TypeOK /\ 0 < depth /\ depth' = depth /\ Holding(top)
        /\ at \in Node /\ top.mode # "plain" /\ at \in BackJumps
        /\ Countdown \in Word /\ Countdown > 0
    BY TopFrame DEF BackJump, IInv, Holding, Countdown, FrameOK, Frame
  <1> DEFINE mode == CheckThreshold(Weight[at], Countdown)
  <1>2. mode \in {"original", "instrumented"} /\ GoOn(mode, Countdown)
    <2>1. GoOn(mode, Countdown)
      BY DEF BackJump
    <2>2. Succ[at] # {}
      BY <2>1 DEF GoOn
    <2> QED
      BY <1>1, <2>1, <2>2, ChoiceCovers
  <1> HIDE DEF mode
  <1>3. /\ Live' = Countdown
        /\ \E n \in Succ[at] :
              Stack' = [Stack EXCEPT ![depth] = [at |-> n, phase |-> "run"]]
    BY <1>1, <1>2, GoOnMaps
  <1>4. Live = Countdown
    BY <1>1, LiveTop
  <1>5. at \notin Sites /\ at \notin Calls
    BY <1>1, ProgramAssumption
  <1>6. event' = NoEvent
    BY DEF BackJump
  <1> QED
    BY <1>1, <1>3, <1>4, <1>5, <1>6, SameProgram, NaiveAt DEF Naive!Move, Naive!Advance

\* A step that neither loads nor stores a countdown leaves the live one alone.
LEMMA SameHolders ==
    ASSUME IInv, global' = global,
           depth \in Nat, depth' \in Nat,
           \A i \in 1..depth : Holding(frames[i]) =>
              i \in 1..depth' /\ Holding(frames'[i]) /\ frames'[i].local = frames[i].local,
           \A i \in 1..depth' : Holding(frames'[i]) => i \in 1..depth /\ Holding(frames[i])
    PROVE  Live' = Live
  <1>1. Unique(depth, frames)
    BY IInvUnique
  <1>2. Unique(depth', frames')
    BY <1>1 DEF Unique
  <1>3. LiveOf(depth', frames', global) = LiveOf(depth, frames, global)
    BY <1>1, <1>2, LiveSame
  <1> QED
    BY <1>3 DEF Live

LEMMA PlainMaps ==
    ASSUME ~BalancePaths, IInv, Plain
    PROVE  Naive!Move
  <1>1. /\ TypeOK /\ 0 < depth /\ depth' = depth /\ top = frames[depth]
        /\ top \in Frame /\ FrameOK(top, Countdown) /\ at \in Node /\ depth \in 1..MaxDepth
        /\ MaxDepth \in Nat
    BY TopFrame DEF Plain, IInv
  <1>2. /\ GoOn(top.mode, Countdown) /\ event' = NoEvent /\ top.mode # "import"
        /\ at \notin Sites /\ (at \in Calls => top.phase = "returned")
    BY DEF Plain
  <1>3. /\ Live' = Live
        /\ \E n \in Succ[at] :
              Stack' = [Stack EXCEPT ![depth] = [at |-> n, phase |-> "run"]]
    <2>1. CASE top.mode = "plain"
      <3>1. PICK n \in Succ[at] :
               /\ frames' = [frames EXCEPT ![depth] =
                     [at |-> n, phase |-> "run", mode |-> "plain", local |-> 0]]
               /\ global' = global
        BY <1>2, <2>1 DEF GoOn
      <3> DEFINE f == [at |-> n, phase |-> "run", mode |-> "plain", local |-> 0]
      <3>2. /\ frames' = [frames EXCEPT ![depth] = f]
            /\ ~Holding(f) /\ f.at = n /\ f.phase = "run"
        BY <3>1 DEF Holding
      <3> HIDE DEF f
      <3>3. Stack' = [Stack EXCEPT ![depth] = [at |-> n, phase |-> "run"]]
        BY <1>1, <3>2, StackTop
      <3>4. \A i \in 1..MaxDepth : frames'[i] = IF i = depth THEN f ELSE frames[i]
        BY <1>1, <3>2 DEF TypeOK
      <3>5. ~Holding(frames[depth])
        BY <1>1, <2>1 DEF Holding
      <3>6. Live' = Live
        BY <1>1, <3>1, <3>2, <3>4, <3>5, SameHolders
      <3> QED
        BY <3>3, <3>6
    <2>2. CASE top.mode # "plain"
      <3>1. Holding(top) /\ top.mode \in {"original", "instrumented"}
        BY <1>1, <1>2, <2>2 DEF Holding, Frame, Mode
      <3>2. Countdown \in Word
        BY <1>1, TopFrame
      <3> QED
        BY <1>1, <1>2, <2>2, <3>1, <3>2, GoOnMaps, LiveTop
    <2> QED
      BY <2>1, <2>2
  <1> QED
    BY <1>1, <1>2, <1>3, SameProgram, NaiveAt DEF Naive!Move, Naive!Advance

\* A site that takes the countdown below zero must not be overlooked.  The
\* unsigned local only meets zero if every site weighs one; the global, an
\* int, does whatever they weigh, if the countdowns are positive as ints and
\* no site is too heavy for a difference.
CountdownsFit ==
    IF CacheCountdown THEN \A n \in Sites : Scale[n] = 1
    ELSE /\ \A v \in Fresh : v < Modulus \div 2
         /\ \A n \in Sites : Scale[n] <= Modulus \div 2

\* The global, where it is the countdown in use, is positive as an int.
SignedInv == ~CacheCountdown => global < Modulus \div 2

\* The check of the instrumented copy is the naive one.
LEMMA DueIsDue ==
    ASSUME CountdownsFit, NEW n \in Sites, NEW v \in Word, v > 0,
           ~CacheCountdown => v < Modulus \div 2
    PROVE  LET left == Decrement(v, Scale[n])
           IN  /\ left \in Word
               /\ AtMostZero(left) \in BOOLEAN
               /\ AtMostZero(left) <=> v - Scale[n] <= 0
               /\ ~AtMostZero(left) => left = v - Scale[n]
               /\ ~AtMostZero(left) /\ ~CacheCountdown => left < Modulus \div 2
  <1> DEFINE s == Scale[n]
             left == Decrement(v, s)
             half == Modulus \div 2
  <1>1. /\ s \in Nat \ {0} /\ v \in Nat /\ v < Modulus /\ Modulus \in Nat
        /\ half \in Nat /\ half + half <= Modulus /\ half < Modulus
    BY ProgramAssumption, CountdownAssumption DEF Word, Sites
  <1>2. left \in Word /\ AtMostZero(left) \in BOOLEAN
    BY <1>1, DecrementWord DEF AtMostZero
  <1>3. AtMostZero(left) <=> left = 0 \/ (~CacheCountdown /\ left >= half)
    BY DEF AtMostZero
  <1>4. CASE s <= v
    <2>1. left = v - s
      BY <1>1, <1>4, DecrementExact
    <2> QED
      BY <1>1, <1>2, <1>3, <1>4, <2>1 DEF CountdownsFit
  <1>5. CASE v < s
    <2>1. ~CacheCountdown /\ s <= half /\ v < half
      BY <1>1, <1>5 DEF CountdownsFit
    <2>2. left = (v - s) + Modulus
      <3> HIDE DEF s
      <3>1. v - s < 0 /\ 0 <= (v - s) + Modulus /\ (v - s) + Modulus < Modulus
        BY <1>1, <1>5, <2>1
      <3> QED
        BY <1>1, <3>1, SMT DEF Decrement
    <2>3. left >= half
      BY <1>1, <2>1, <2>2
    <2> QED
      BY <1>1, <1>2, <1>3, <1>5, <2>1, <2>3
  <1> QED
    BY <1>1, <1>4, <1>5

\* In the original copy an execution that is not sampled was not due.
LEMMA OriginalSiteMaps ==
    ASSUME ~BalancePaths, IInv, OriginalSite
    PROVE  Naive!Site
  <1>1. /\ TypeOK /\ 0 < depth /\ depth' = depth /\ Holding(top)
        /\ at \in Sites /\ at \in Node /\ top.mode = "original" /\ Countdown \in Word
        /\ Countdown > Threshold(at) \/ Count(at) = 0
    BY TopFrame DEF OriginalSite, IInv, Holding, Countdown, FrameOK, at
  <1> DEFINE v == Decrement(Countdown, SiteDecrement(at))
  <1>2. GoOn("original", v) /\ event' = [site |-> at, sampled |-> FALSE]
    BY DEF OriginalSite
  <1>3. PICK s \in Succ[at] : TRUE
    BY <1>2 DEF GoOn
  <1>4. /\ Scale[at] \in Nat \ {0} /\ s \in Node /\ Count(at) > 0
        /\ Threshold(at) >= Scale[at] + Threshold(s)
    BY <1>1, SiteWeight
  <1>5. Countdown > Scale[at]
    BY <1>1, <1>4, ThresholdNat DEF Word
  <1>6. v = Countdown - Scale[at] /\ v \in Word /\ v > 0
    <2>1. SiteDecrement(at) = Scale[at]
      BY DEF SiteDecrement
    <2>2. Scale[at] <= Countdown
      BY <1>1, <1>4, <1>5 DEF Word
    <2>3. v = Countdown - Scale[at] /\ v \in Word
      BY <1>1, <1>4, <2>1, <2>2, DecrementExact
    <2> QED
      BY <1>1, <1>4, <1>5, <2>3 DEF Word
  <1> HIDE DEF v
  <1>7. /\ Live' = v
        /\ \E n \in Succ[at] :
              Stack' = [Stack EXCEPT ![depth] = [at |-> n, phase |-> "run"]]
    BY <1>1, <1>2, <1>6, GoOnMaps
  <1>8. Live = Countdown
    BY <1>1, LiveTop
  <1> QED
    BY <1>1, <1>2, <1>6, <1>7, <1>8, SameProgram, NaiveAt DEF Naive!Site, Naive!Advance

\* In the instrumented copy the check is the naive one.
LEMMA InstrumentedSiteMaps ==
    ASSUME ~BalancePaths, CountdownsFit, IInv, SignedInv, InstrumentedSite
    PROVE  Naive!Site
  <1>1. /\ TypeOK /\ 0 < depth /\ depth' = depth /\ Holding(top)
        /\ at \in Sites /\ at \in Node /\ top.mode # "plain"
        /\ Countdown \in Word /\ Countdown > 0
    BY TopFrame DEF InstrumentedSite, IInv, Holding, FrameOK
  <1> DEFINE left == Decrement(Countdown, Scale[at])
             sampled == AtMostZero(left)
  <1>2. PICK nxt \in IF sampled THEN Fresh ELSE {left} : GoOn("instrumented", nxt)
    BY DEF InstrumentedSite
  <1>3. event' = [site |-> at, sampled |-> sampled]
    BY DEF InstrumentedSite
  <1>4. ~CacheCountdown => Countdown < Modulus \div 2
    BY DEF SignedInv, Countdown
  <1>5. /\ left \in Word /\ sampled \in BOOLEAN
        /\ sampled <=> Countdown - Scale[at] <= 0
        /\ ~sampled => left = Countdown - Scale[at]
    BY <1>1, <1>4, DueIsDue
  <1>6. Scale[at] \in Nat /\ Countdown \in Nat
    BY <1>1, ProgramAssumption DEF Word
  <1> HIDE DEF left, sampled
  <1>7. nxt \in Word
    BY <1>2, <1>5, CountdownAssumption
  <1>8. /\ Live' = nxt
        /\ \E n \in Succ[at] :
              Stack' = [Stack EXCEPT ![depth] = [at |-> n, phase |-> "run"]]
    BY <1>1, <1>2, <1>7, GoOnMaps
  <1>9. Live = Countdown
    BY <1>1, LiveTop
  <1>10. /\ Naive!at = at /\ at \in Naive!Sites
         /\ \E n \in Succ[at] : Naive!Advance(n)
    BY <1>1, <1>8, SameProgram, NaiveAt DEF Naive!Advance
  <1>11. CASE sampled
    <2>1. Live - Scale[at] <= 0 /\ nxt \in Fresh
      BY <1>2, <1>5, <1>9, <1>11
    <2>2. event' = [site |-> at, sampled |-> TRUE]
      BY <1>3, <1>5, <1>11
    <2> QED
      BY <1>1, <1>8, <1>10, <2>1, <2>2 DEF Naive!Site
  <1>12. CASE ~sampled
    <2>1. Live - Scale[at] > 0 /\ nxt = Live - Scale[at]
      BY <1>2, <1>5, <1>6, <1>9, <1>12
    <2>2. event' = [site |-> at, sampled |-> FALSE]
      BY <1>3, <1>5, <1>12
    <2> QED
      BY <1>1, <1>8, <1>10, <2>1, <2>2 DEF Naive!Site
  <1> QED
    BY <1>11, <1>12

LEMMA InvokeMaps ==
    ASSUME IInv, NEW f \in Roots, Invoke(f)
    PROVE  Naive!Invoke(f)
  <1>1. /\ TypeOK /\ depth = 0 /\ depth' = 1 /\ global' = global /\ event' = NoEvent
        /\ frames' = [frames EXCEPT ![1] = Start(f)]
        /\ MaxDepth \in Nat \ {0} /\ f \in Func
    BY ProgramAssumption DEF Invoke, IInv
  <1>2. frames'[1] = Start(f)
    BY <1>1 DEF TypeOK
  <1>3. Live' = Live
    BY <1>1, <1>2, SameHolders, StartFrame
  <1>4. Stack' = [Stack EXCEPT ![1] = Naive!Start(f)]
    BY <1>1, SameProgram DEF Stack, TypeOK
  <1> QED
    BY <1>1, <1>3, <1>4 DEF Naive!Invoke

LEMMA ReturnMaps ==
    ASSUME IInv, Return
    PROVE  Naive!Return
  <1>1. /\ TypeOK /\ 0 < depth /\ depth' = depth - 1 /\ event' = NoEvent
        /\ at \in Returns /\ top = frames[depth] /\ top \in Frame /\ FrameOK(top, Countdown)
        /\ depth \in 1..MaxDepth /\ MaxDepth \in Nat
        /\ frames' = [frames EXCEPT ![depth] = Blank]
    BY TopFrame DEF Return, IInv
  <1>2. Stack' = [Stack EXCEPT ![depth] = Naive!Blank]
    BY <1>1, StackTop, SameProgram
  <1>3. \A i \in 1..MaxDepth : frames'[i] = IF i = depth THEN Blank ELSE frames[i]
    BY <1>1 DEF TypeOK
  <1>4. Live' = Live
    <2>1. CASE top.mode = "plain"
      <3>1. global' = global /\ ~Holding(frames[depth])
        BY <1>1, <2>1 DEF Return, Holding
      <3> QED
        BY <1>1, <1>3, <3>1, SameHolders
    <2>2. CASE top.mode = "import"
      BY <1>1, <2>2, ProgramAssumption DEF FrameOK, at
    <2>3. CASE Holding(top)
      <3>1. Live = Countdown /\ global' = Countdown
        BY <1>1, <2>3, LiveTop DEF Return, Holding
      <3>2. \A i \in 1..depth' : ~Holding(frames'[i])
        <4> SUFFICES ASSUME NEW i \in 1..depth' PROVE ~Holding(frames'[i])
          OBVIOUS
        <4>1. i \in 1..depth /\ i # depth /\ frames'[i] = frames[i]
          BY <1>1, <1>3
        <4>2. top.mode # "plain"
          BY <2>3 DEF Holding
        <4> QED
          BY <1>1, <4>1, <4>2, IInvUnique
      <3>3. LiveOf(depth', frames', global') = global'
        BY <3>2, LiveFree
      <3> QED
        BY <3>1, <3>3 DEF Live
    <2> QED
      BY <1>1, <2>1, <2>2, <2>3 DEF Frame, Mode, Holding
  <1> QED
    BY <1>1, <1>2, <1>4, SameProgram, NaiveAt DEF Naive!Return

LEMMA CallMaps ==
    ASSUME IInv, NEW f \in Func, Call(f)
    PROVE  Naive!Call(f)
  <1> DEFINE export == at \in WeightyCalls
             caller == [at |-> at, phase |-> "returned",
                        mode |-> IF export THEN "import" ELSE top.mode,
                        local |-> IF export THEN 0 ELSE top.local]
  <1>1. /\ TypeOK /\ 0 < depth /\ depth < MaxDepth /\ depth' = depth + 1
        /\ event' = NoEvent /\ at \in Calls /\ f \in Callee[at]
        /\ top.phase = "run" /\ top.mode # "import"
        /\ top = frames[depth] /\ top \in Frame /\ FrameOK(top, Countdown)
        /\ depth \in 1..MaxDepth /\ MaxDepth \in Nat
        /\ frames' = [frames EXCEPT ![depth] = caller, ![depth + 1] = Start(f)]
        /\ global' = IF export THEN Countdown ELSE global
    BY TopFrame DEF Call, IInv
  <1>2. /\ caller.at = at /\ caller.phase = "returned"
        /\ caller.mode = IF export THEN "import" ELSE top.mode
        /\ ~export => caller.local = top.local
    OBVIOUS
  <1>3. export => Holding(top)
    BY <1>1 DEF WeightyCalls, FrameOK, Frame, Mode, at, Holding
  <1> HIDE DEF export, caller
  <1>4. /\ \A i \in 1..MaxDepth : frames'[i] = IF i = depth THEN caller
                                               ELSE IF i = depth + 1 THEN Start(f)
                                               ELSE frames[i]
        /\ depth + 1 \in 1..MaxDepth
    BY <1>1 DEF TypeOK
  <1>5. Stack' = [Stack EXCEPT ![depth].phase = "returned",
                               ![depth + 1] = Naive!Start(f)]
    BY <1>1, <1>2, <1>4, SameProgram DEF Stack, TypeOK, at
  <1>8. /\ depth \in Nat /\ depth + 1 # depth /\ 1..depth' = 1..(depth + 1)
        /\ \A i \in 1..depth' : i \in 1..MaxDepth
        /\ \A i \in 1..depth' : i = depth + 1 \/ i \in 1..depth
    BY <1>1
  <1>9. /\ frames'[depth] = caller /\ frames'[depth + 1] = Start(f)
        /\ \A i \in 1..depth : i # depth => frames'[i] = frames[i]
    <2>1. frames'[depth] = caller
      BY <1>1, <1>4
    <2>2. frames'[depth + 1] = Start(f)
      BY <1>4, <1>8
    <2>3. \A i \in 1..depth : i # depth => frames'[i] = frames[i]
      <3> SUFFICES ASSUME NEW i \in 1..depth, i # depth PROVE frames'[i] = frames[i]
        OBVIOUS
      <3>1. i \in 1..MaxDepth /\ i # depth + 1
        BY <1>1
      <3> QED
        BY <1>4, <3>1
    <2> QED
      BY <2>1, <2>2, <2>3
  <1>6. ~Holding(frames'[depth + 1])
    BY <1>9, StartFrame
  <1>7. Live' = Live
    <2>1. CASE export
      <3>1. Live = Countdown /\ global' = Countdown
        BY <1>1, <1>3, <2>1, LiveTop
      <3>2. \A i \in 1..depth' : ~Holding(frames'[i])
        <4> SUFFICES ASSUME NEW i \in 1..depth' PROVE ~Holding(frames'[i])
          OBVIOUS
        <4>1. CASE i = depth
          BY <1>2, <1>9, <2>1, <4>1 DEF Holding
        <4>2. CASE i = depth + 1
          BY <1>6, <4>2
        <4>3. CASE i \in 1..depth /\ i # depth
          <5>1. frames'[i] = frames[i]
            BY <1>9, <4>3
          <5>2. top.mode # "plain"
            BY <1>3, <2>1 DEF Holding
          <5> QED
            BY <1>1, <4>3, <5>1, <5>2, IInvUnique
        <4> QED
          BY <1>8, <4>1, <4>2, <4>3
      <3>3. LiveOf(depth', frames', global') = global'
        BY <3>2, LiveFree
      <3> QED
        BY <3>1, <3>3 DEF Live
    <2>2. CASE ~export
      <3>1. global' = global
        BY <1>1, <2>2
      <3>2. caller.mode = top.mode /\ caller.local = top.local
        BY <1>2, <2>2
      <3>3. \A i \in 1..depth : /\ Holding(frames'[i]) <=> Holding(frames[i])
                                /\ Holding(frames[i]) => frames'[i].local = frames[i].local
        BY <1>1, <1>9, <3>2 DEF Holding
      <3>4. \A i \in 1..depth' : Holding(frames'[i]) =>
               i \in 1..depth /\ Holding(frames[i])
        BY <1>6, <1>8, <3>3
      <3>5. depth \in Nat /\ depth' \in Nat /\ 1..depth \subseteq 1..depth'
        BY <1>1
      <3> QED
        BY <3>1, <3>3, <3>4, <3>5, SameHolders
    <2> QED
      BY <2>1, <2>2
  <1> QED
    BY <1>1, <1>5, <1>7, SameProgram, NaiveAt DEF Naive!Call

-----------------------------------------------------------------------------

\* The global stays a positive int: the check lets nothing else pass.
LEMMA SignedStep ==
    ASSUME ~BalancePaths, CountdownsFit
    PROVE  IInv /\ SignedInv /\ [Next]_vars => SignedInv'
  <1> SUFFICES ASSUME IInv, SignedInv, [Next]_vars, ~CacheCountdown
               PROVE  global' < Modulus \div 2
    BY DEF SignedInv
  <1>1. global < Modulus \div 2 /\ Countdown = global
    BY DEF SignedInv, Countdown
  <1>2. \A mode, v : v \in Word /\ v < Modulus \div 2 /\ GoOn(mode, v) =>
           global' < Modulus \div 2
    <2> SUFFICES ASSUME NEW mode, NEW v \in Word, v < Modulus \div 2, GoOn(mode, v)
                 PROVE  global' < Modulus \div 2
      OBVIOUS
    <2>1. CASE mode = "plain"
      BY <1>1, <2>1 DEF GoOn
    <2>2. CASE mode # "plain"
      BY <2>2, GoOnDefault
    <2> QED
      BY <2>1, <2>2
  <1>3. CASE UNCHANGED vars
    BY <1>1, <1>3 DEF vars
  <1>4. CASE \E f \in Roots : Invoke(f)
    BY <1>1, <1>4 DEF Invoke
  <1>5. CASE Import
    BY <1>1, <1>2, <1>5, TopFrame DEF Import
  <1>6. CASE BackJump
    BY <1>1, <1>2, <1>6, TopFrame DEF BackJump
  <1>7. CASE Plain
    BY <1>1, <1>2, <1>7, TopFrame DEF Plain
  <1>8. CASE OriginalSite
    <2>1. /\ at \in Sites /\ at \in Node /\ Countdown \in Word
          /\ Countdown > Threshold(at) \/ Count(at) = 0
      BY <1>8, TopFrame DEF OriginalSite, FrameOK, at
    <2>2. GoOn("original", Decrement(Countdown, Scale[at]))
      BY <1>8 DEF OriginalSite, SiteDecrement
    <2>3. PICK s \in Succ[at] : TRUE
      BY <2>2 DEF GoOn
    <2>4. /\ Scale[at] \in Nat \ {0} /\ Scale[at] <= Countdown /\ Modulus \div 2 \in Nat
      BY <2>1, <2>3, SiteWeight, ThresholdNat, CountdownAssumption DEF Word
    <2>5. /\ Decrement(Countdown, Scale[at]) = Countdown - Scale[at]
          /\ Decrement(Countdown, Scale[at]) \in Word
      BY <2>1, <2>4, DecrementExact
    <2>6. Countdown - Scale[at] < Modulus \div 2
      BY <1>1, <2>1, <2>4 DEF Word
    <2> QED
      BY <1>2, <2>2, <2>5, <2>6
  <1>9. CASE InstrumentedSite
    <2> DEFINE left == Decrement(Countdown, Scale[at])
    <2>1. at \in Sites /\ Countdown \in Word /\ Countdown > 0
      BY <1>9, TopFrame DEF InstrumentedSite, FrameOK, Holding
    <2>2. left \in Word /\ (~AtMostZero(left) => left < Modulus \div 2)
      BY <1>1, <2>1, DueIsDue
    <2>3. PICK nxt \in IF AtMostZero(left) THEN Fresh ELSE {left} : GoOn("instrumented", nxt)
      BY <1>9 DEF InstrumentedSite
    <2>4. \A v \in Fresh : v \in Word /\ v < Modulus \div 2
      BY CountdownAssumption DEF CountdownsFit
    <2> HIDE DEF left
    <2>5. nxt \in Word /\ nxt < Modulus \div 2
      BY <2>2, <2>3, <2>4
    <2> QED
      BY <1>2, <2>3, <2>5
  <1>10. CASE \E f \in Func : Call(f)
    BY <1>1, <1>10 DEF Call
  <1>11. CASE Return
    BY <1>1, <1>11 DEF Return
  <1> QED
    BY <1>3, <1>4, <1>5, <1>6, <1>7, <1>8, <1>9, <1>10, <1>11 DEF Next

LEMMA InitMaps == Init => Naive!Init
  <1> SUFFICES ASSUME Init PROVE Naive!Init
    OBVIOUS
  <1>1. Live = global
    BY LiveFree DEF Live, Init
  <1>2. Stack = [i \in 1..MaxDepth |-> Naive!Blank]
    BY SameProgram DEF Init, Stack
  <1> QED
    BY <1>1, <1>2 DEF Init, Naive!Init

LEMMA StepMaps ==
    ASSUME ~BalancePaths, CountdownsFit
    PROVE  IInv /\ SignedInv /\ [Next]_vars => [Naive!Next]_(Naive!vars)
  <1> SUFFICES ASSUME IInv, SignedInv, [Next]_vars PROVE [Naive!Next]_(Naive!vars)
    OBVIOUS
  <1>1. CASE UNCHANGED vars
    BY <1>1 DEF vars, Naive!vars, Live, LiveOf, Stack
  <1>2. CASE Next
    BY <1>2, InvokeMaps, ImportMaps, BackJumpMaps, PlainMaps, OriginalSiteMaps,
       InstrumentedSiteMaps, CallMaps, ReturnMaps DEF Next, Naive!Next
  <1> QED
    BY <1>1, <1>2

\* The transformed program samples at exactly the executions of sites that the
\* naive one would (transformer.ml as a whole): whatever the program, however
\* its regions were weighed, whichever copies run them, and wherever the
\* countdown is kept.
THEOREM Refinement ==
    ASSUME ~BalancePaths, CountdownsFit
    PROVE  Spec => SamplesOnSchedule
  <1>1. Init => IInv /\ SignedInv /\ Naive!Init
    BY InitIInv, InitMaps DEF Init, SignedInv, CountdownsFit
  <1>2. IInv /\ SignedInv /\ [Next]_vars => IInv' /\ SignedInv'
    BY StepIInv, SignedStep
  <1>3. IInv /\ SignedInv /\ [Next]_vars => [Naive!Next]_(Naive!vars)
    BY StepMaps
  <1> QED
    BY <1>1, <1>2, <1>3, PTL DEF Spec, SamplesOnSchedule, Naive!Spec

=============================================================================
