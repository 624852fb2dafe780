------------------------------- MODULE Program -------------------------------
(***************************************************************************)
(* The program that the instrumentor transforms, after loops have become   *)
(* gotos: per function a control-flow graph whose nodes are statements.    *)
(* A statement is a sampling site, a call, a backward goto, a return (no   *)
(* successor) or anything else, which only moves control.  What the        *)
(* analyses computed about the program (which functions are weighty, what  *)
(* every region weighs) is a constant too, with the facts the transformed  *)
(* code relies on as assumptions; modules Weighty and WeighPaths model the *)
(* analyses themselves.                                                    *)
(***************************************************************************)
EXTENDS Integers

CONSTANTS
    Func,       \* functions of the instrumented program
    Roots,      \* those that uninstrumented code (libc, an event loop) calls
    Node,       \* statements of all functions
    Owner,      \* Node -> Func: the function a statement belongs to
    Entry,      \* Func -> Node: the block that wraps the function's body
    Succ,       \* Node -> SUBSET Node: control-flow successors
    Scale,      \* site -> weight of one execution (1 unless --load-scales)
    Callee,     \* call -> SUBSET Func: what the called lvalue may be
    BackJumps,  \* gotos to a statement that precedes them
    Weighty,    \* functions the weightiness analysis collected
    Weight,     \* Node -> [threshold, count], as WeighPaths.weigh left them
    MaxDepth    \* bound: activations on the call stack of one thread

Sites   == DOMAIN Scale
Calls   == DOMAIN Callee
Entries == {Entry[f] : f \in Func}
Returns == {n \in Node : Succ[n] = {}}

\* Only a function with sites is rewritten: the others keep no countdown of
\* their own and pass the global one through untouched.
Transformed(f) == \E n \in Sites : Owner[n] = f

\* The calls after which a rewritten function must import the countdown anew.
WeightyCalls ==
    {c \in Calls : Transformed(Owner[c]) /\ \E f \in Callee[c] : f \in Weighty}

\* Where a region starts: control passes a threshold check on leaving one.
Headers == Entries \cup BackJumps \cup WeightyCalls

\* What a region still holds from n on: a region ends at the next header.
Threshold(n) == IF n \in Headers THEN 0 ELSE Weight[n].threshold
Count(n)     == IF n \in Headers THEN 0 ELSE Weight[n].count

SelfScale(n) == IF n \in Sites THEN Scale[n] ELSE 0
SelfCount(n) == IF n \in Sites THEN 1 ELSE 0

ASSUME ProgramAssumption ==
    /\ Owner \in [Node -> Func]
    /\ Entry \in [Func -> Node]
    /\ Succ \in [Node -> SUBSET Node]
    /\ Roots \subseteq Func
    /\ \A f \in Func : Owner[Entry[f]] = f
    /\ \A n \in Node : \A s \in Succ[n] : Owner[s] = Owner[n] /\ s \notin Entries
    /\ Sites \subseteq Node /\ Scale \in [Sites -> Nat \ {0}]
    /\ Calls \subseteq Node /\ Callee \in [Calls -> SUBSET Func]
    /\ BackJumps \subseteq Node
    /\ Sites \cap (Calls \cup BackJumps \cup Entries \cup Returns) = {}
    /\ Calls \cap (BackJumps \cup Entries \cup Returns) = {}
    /\ Returns \cap (BackJumps \cup Entries) = {}
    /\ MaxDepth \in Nat \ {0}

\* A function that has a site, or calls one that is weighty, is weighty.
ASSUME WeightyAssumption ==
    /\ \A f \in Func : Transformed(f) => f \in Weighty
    /\ \A c \in Calls :
          (\E f \in Callee[c] : f \in Weighty) => Owner[c] \in Weighty

\* The weight of a statement covers every path through the rest of its region.
ASSUME WeightAssumption ==
    /\ Weight \in [Node -> [threshold : Nat, count : Nat]]
    /\ \A n \in Node :
          /\ Weight[n].threshold >= SelfScale(n)
          /\ Weight[n].count >= SelfCount(n)
          /\ \A s \in Succ[n] :
                /\ Weight[n].threshold >= SelfScale(n) + Threshold(s)
                /\ Weight[n].count >= SelfCount(n) + Count(s)
=============================================================================
