----------------------------- MODULE Transformed -----------------------------
(***************************************************************************)
(* A thread running the code that transformer.ml produces.  The body of a  *)
(* function with sites exists twice: in the original copy a site only      *)
(* decrements the countdown, in the instrumented copy it also checks for   *)
(* zero and samples.  At every region header the countdown is compared     *)
(* with the weight of the region, to pick the copy that runs it.  The      *)
(* countdown lives in a local (unsigned) variable while a function runs,   *)
(* and in the thread's global (int) variable across weighty calls.         *)
(*                                                                         *)
(* Every variable here belongs to one thread (cbi_nextEventCountdown is    *)
(* thread-local), so threads need not be interleaved.                      *)
(***************************************************************************)
EXTENDS Program, FiniteSetsExt

CONSTANTS Modulus,              \* 2^32: the range of unsigned int
          Fresh,                \* what cbi_getNextEventCountdown may return
          NoEvent,
          CacheCountdown,       \* --cache-countdown (default TRUE)
          BalancePaths,         \* --balance-paths (default FALSE)
          SpecializeEmpty,      \* --specialize-empty-regions (default TRUE)
          SpecializeSingleton   \* --specialize-singleton-regions (default TRUE)

VARIABLES depth,    \* activations on the thread's stack
          frames,   \* 1..MaxDepth -> Frame
          global,   \* cbi_nextEventCountdown, as a bit pattern
          event     \* the last statement executed, if it was a site

vars == <<depth, frames, global, event>>

Word == 0 .. Modulus - 1

ASSUME CountdownAssumption ==
    /\ Modulus \in Nat /\ Modulus > 1
    /\ Fresh \subseteq Word \ {0}
    /\ \A flag \in {CacheCountdown, BalancePaths, SpecializeEmpty,
                    SpecializeSingleton} : flag \in BOOLEAN

\* Which copy of the body an activation runs: "import" when it is about to
\* load the countdown and choose one, "plain" in a function left untransformed.
Mode == {"plain", "import", "original", "instrumented"}

Blank == [at |-> NoEvent, phase |-> "run", mode |-> "plain", local |-> 0]
Frame == [at : Node, phase : {"run", "returned"}, mode : Mode, local : Word]

top == frames[depth]
at  == top.at

\* The countdown variable that the code of the running function names.
Countdown == IF CacheCountdown THEN top.local ELSE global

\* Mutated form: >= for > in the threshold check.
Exceeds_AtLeast(v, threshold) == v >= threshold

\* Unsigned comparison: the threshold is an unsigned constant.
Exceeds(v, threshold) == v > threshold

\* Mutated form: the comparison of an unsigned variable, whatever its type.
AtMostZero_Equal(v) == v = 0

\* "countdown <= 0" has the type of the variable: unsigned in the cached
\* local, where it means zero, and signed in the global.
AtMostZero(v) == v = 0 \/ (~CacheCountdown /\ v >= Modulus \div 2)

\* Mutated form: the decrement is forgotten.
Decrement_Dropped(v, scale) == v

Decrement(v, scale) == (v - scale) % Modulus

\* checkThreshold: the copy that runs a region of weight w.
CheckThreshold(w, v) ==
    IF w.count = 0 /\ SpecializeEmpty THEN "original"
    ELSE IF w.count = 1 /\ SpecializeSingleton THEN "instrumented"
    ELSE IF Exceeds(v, w.threshold) THEN "original"
    ELSE "instrumented"

\* With --balance-paths the whole weight of a region is paid up front, by
\* statements that checkThreshold prepends to the destination of a choice.
\* The destination of a backward jump keeps them for whoever reaches it.
Prepended(n) ==
    MapThenSumSet(LAMBDA j : Weight[j].threshold,
                  {j \in BackJumps : n \in Succ[j]})

Toll(h, n, mode) ==
    IF ~BalancePaths \/ mode # "original" THEN 0
    ELSE Prepended(n) + (IF h \in Headers \ BackJumps THEN Weight[h].threshold ELSE 0)

\* Mutated form: the fast path forgets to count.
SiteDecrement_None(n) == 0

SiteDecrement(n) == IF BalancePaths THEN 0 ELSE Scale[n]

\* The running activation goes on to a successor of its statement in copy
\* mode, with v as the new value of its countdown variable.
GoOn(mode, v) ==
    \E n \in Succ[at] :
        LET paid == Decrement(v, Toll(at, n, mode)) IN
        /\ frames' = [frames EXCEPT ![depth] =
              [at |-> n, phase |-> "run", mode |-> mode,
               local |-> IF CacheCountdown /\ mode # "plain" THEN paid ELSE 0]]
        /\ global' = IF CacheCountdown \/ mode = "plain" THEN global ELSE paid

Start(f) ==
    [at |-> Entry[f], phase |-> "run", local |-> 0,
     mode |-> IF Transformed(f) THEN "import" ELSE "plain"]

Init ==
    /\ depth = 0
    /\ frames = [i \in 1..MaxDepth |-> Blank]
    /\ global \in Fresh
    /\ event = NoEvent

\* Uninstrumented code calls into the program.
Invoke(f) ==
    /\ depth = 0
    /\ depth' = 1
    /\ frames' = [frames EXCEPT ![1] = Start(f)]
    /\ event' = NoEvent
    /\ UNCHANGED global

\* Function entry, and the return of a weighty call: load the countdown and
\* choose the copy for the region that starts here.
Import ==
    /\ 0 < depth
    /\ top.mode = "import"
    /\ GoOn(CheckThreshold(Weight[at], global), global)
    /\ event' = NoEvent
    /\ UNCHANGED depth

\* A backward goto, which has the same choice in both copies.
BackJump ==
    /\ 0 < depth
    /\ top.mode \in {"original", "instrumented"} /\ at \in BackJumps
    /\ GoOn(CheckThreshold(Weight[at], Countdown), Countdown)
    /\ event' = NoEvent
    /\ UNCHANGED depth

\* Any other statement, or the rest of a call that had no post-call choice:
\* control stays in the copy it is in.
Plain ==
    /\ 0 < depth
    /\ top.mode # "import"
    /\ at \notin Sites
    /\ at \in BackJumps => top.mode = "plain"
    /\ at \in Calls => top.phase = "returned"
    /\ GoOn(top.mode, Countdown)
    /\ event' = NoEvent
    /\ UNCHANGED depth

OriginalSite ==
    /\ 0 < depth
    /\ top.mode = "original" /\ at \in Sites
    /\ GoOn("original", Decrement(Countdown, SiteDecrement(at)))
    /\ event' = [site |-> at, sampled |-> FALSE]
    /\ UNCHANGED depth

InstrumentedSite ==
    /\ 0 < depth
    /\ top.mode = "instrumented" /\ at \in Sites
    /\ LET left == Decrement(Countdown, Scale[at])
           sampled == AtMostZero(left)
       IN  /\ \E next \in IF sampled THEN Fresh ELSE {left} :
                  GoOn("instrumented", next)
           /\ event' = [site |-> at, sampled |-> sampled]
    /\ UNCHANGED depth

\* Mutated form: no export before the call and no import after it.
Call_NoExport(f) ==
    /\ 0 < depth /\ depth < MaxDepth
    /\ at \in Calls /\ top.phase = "run" /\ top.mode # "import"
    /\ f \in Callee[at]
    /\ depth' = depth + 1
    /\ frames' = [frames EXCEPT ![depth].phase = "returned", ![depth + 1] = Start(f)]
    /\ event' = NoEvent
    /\ UNCHANGED global

\* A weighty call is preceded by an export, and its return by an import.
Call(f) ==
    /\ 0 < depth /\ depth < MaxDepth
    /\ at \in Calls /\ top.phase = "run" /\ top.mode # "import"
    /\ f \in Callee[at]
    /\ depth' = depth + 1
    /\ LET export == at \in WeightyCalls
           caller == [at |-> at, phase |-> "returned",
                      mode |-> IF export THEN "import" ELSE top.mode,
                      local |-> IF export THEN 0 ELSE top.local]
       IN  /\ frames' = [frames EXCEPT ![depth] = caller, ![depth + 1] = Start(f)]
           /\ global' = IF export THEN Countdown ELSE global
    /\ event' = NoEvent

\* A return statement of a transformed function exports the countdown first.
Return ==
    /\ 0 < depth
    /\ at \in Returns
    /\ depth' = depth - 1
    /\ frames' = [frames EXCEPT ![depth] = Blank]
    /\ global' = IF top.mode = "plain" THEN global ELSE Countdown
    /\ event' = NoEvent

Next ==
    \/ \E f \in Roots : Invoke(f)
    \/ Import
    \/ BackJump
    \/ Plain
    \/ OriginalSite
    \/ InstrumentedSite
    \/ \E f \in Func : Call(f)
    \/ Return

Spec == Init /\ [][Next]_vars

\* A thread that can run does.
FairSpec == Spec /\ WF_vars(Next)

-----------------------------------------------------------------------------
(* Properties *)

Active == 1..depth

\* An activation that has loaded the countdown and not stored it back.
Holding(frame) == frame.mode \in {"original", "instrumented"}
Holds(i) == Holding(frames[i])

\* The one live countdown, wherever it is.
LiveOf(d, fr, g) ==
    IF CacheCountdown /\ \E i \in 1..d : Holding(fr[i])
    THEN fr[CHOOSE i \in 1..d : Holding(fr[i])].local
    ELSE g
Live == LiveOf(depth, frames, global)

\* Types: the state of the thread between statements.
TypeOK ==
    /\ depth \in 0..MaxDepth
    /\ frames \in [1..MaxDepth -> Frame \cup {Blank}]
    /\ \A i \in 1..MaxDepth :
          IF i <= depth THEN frames[i] \in Frame ELSE frames[i] = Blank
    /\ global \in Word
    /\ event \in [site : Sites, sampled : BOOLEAN] \cup {NoEvent}

\* The countdown has one owner.  While an activation keeps it in its local,
\* every activation above it is untransformed: whatever reaches a site was
\* called with the countdown exported (countdown.ml, weightyCalls.ml).
OneHolder ==
    \A i \in Active : Holds(i) =>
        \A j \in Active : j > i => frames[j].mode = "plain" /\ frames[j].at \notin Sites

\* No sample falls due in the original copy, where none could be taken: what
\* is left of the countdown there exceeds all that the rest of the region can
\* take from it, on whatever path (countdown.ml checkThreshold, sites.ml).
FastPathCovered ==
    \A i \in Active : frames[i].mode = "original" =>
        LET v == IF CacheCountdown THEN frames[i].local ELSE global
        IN  v > Threshold(frames[i].at) \/ (v > 0 /\ Count(frames[i].at) = 0)

\* The transformed program samples at exactly the executions of sites that
\* the naive one, with a check at every site, would.
Stack ==
    [i \in 1..MaxDepth |-> [at |-> frames[i].at, phase |-> frames[i].phase]]
Naive == INSTANCE NaiveSampling WITH stack <- Stack, countdown <- Live
SamplesOnSchedule == Naive!Spec

\* A program that keeps reaching sites keeps being sampled: no countdown is
\* lost on the way and none stops falling.
SitesAreSampled ==
    []<>(event # NoEvent) => []<>(event # NoEvent /\ event.sampled)

\* The next sample is at most the longest countdown away.
NextSampleInReach == \E v \in Fresh : Live <= v
=============================================================================
