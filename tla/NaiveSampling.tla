---------------------------- MODULE NaiveSampling ----------------------------
(***************************************************************************)
(* What the sampling transformation promises: the program runs as before,  *)
(* and one countdown is decremented at every site.  The execution of a     *)
(* site that takes it to zero is sampled and draws the next countdown.  No *)
(* fast path, no cached copies, no call boundaries.                        *)
(***************************************************************************)
EXTENDS Program

CONSTANTS Fresh,    \* the countdowns cbi_getNextEventCountdown may return
          NoEvent   \* the last statement executed was not a site

VARIABLES depth,      \* activations on the call stack
          stack,      \* 1..MaxDepth -> [at, phase]
          countdown,  \* opportunities up to and including the next sample
          event       \* the last statement executed, if it was a site

vars == <<depth, stack, countdown, event>>

Blank    == [at |-> NoEvent, phase |-> "run"]
Start(f) == [at |-> Entry[f], phase |-> "run"]
at       == stack[depth].at

Init ==
    /\ depth = 0
    /\ stack = [i \in 1..MaxDepth |-> Blank]
    /\ countdown \in Fresh
    /\ event = NoEvent

Advance(n) == stack' = [stack EXCEPT ![depth] = [at |-> n, phase |-> "run"]]

Invoke(f) ==
    /\ depth = 0
    /\ depth' = 1
    /\ stack' = [stack EXCEPT ![1] = Start(f)]
    /\ event' = NoEvent
    /\ UNCHANGED countdown

Call(f) ==
    /\ 0 < depth /\ depth < MaxDepth
    /\ at \in Calls /\ stack[depth].phase = "run"
    /\ f \in Callee[at]
    /\ depth' = depth + 1
    /\ stack' = [stack EXCEPT ![depth].phase = "returned", ![depth + 1] = Start(f)]
    /\ event' = NoEvent
    /\ UNCHANGED countdown

Return ==
    /\ 0 < depth
    /\ at \in Returns
    /\ depth' = depth - 1
    /\ stack' = [stack EXCEPT ![depth] = Blank]
    /\ event' = NoEvent
    /\ UNCHANGED countdown

Move ==
    /\ 0 < depth
    /\ at \notin Sites
    /\ at \in Calls => stack[depth].phase = "returned"
    /\ \E n \in Succ[at] : Advance(n)
    /\ event' = NoEvent
    /\ UNCHANGED <<depth, countdown>>

Site ==
    /\ 0 < depth
    /\ at \in Sites
    /\ \E n \in Succ[at] : Advance(n)
    /\ LET left == countdown - Scale[at]
       IN  \/ /\ left > 0
              /\ countdown' = left
              /\ event' = [site |-> at, sampled |-> FALSE]
           \/ /\ left <= 0
              /\ countdown' \in Fresh
              /\ event' = [site |-> at, sampled |-> TRUE]
    /\ UNCHANGED depth

Next ==
    \/ \E f \in Roots : Invoke(f)
    \/ \E f \in Func : Call(f)
    \/ Return
    \/ Move
    \/ Site

Spec == Init /\ [][Next]_vars
=============================================================================
