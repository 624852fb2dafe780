----------------------------- MODULE WeighPaths -----------------------------
(***************************************************************************)
(* The weight of every statement: a bound on what the sites on any path    *)
(* from it can take from the countdown before control reaches the next     *)
(* header, and on how many such sites there are (weight.ml, weighPaths.ml).*)
(* A graph is a record [succ, scale, headers] over a set of statements.    *)
(***************************************************************************)
EXTENDS Integers, FiniteSetsExt

weightless == [threshold |-> 0, count |-> 0]

\* Mutated form: the heaviest record, as polymorphic max would pick it.
MaxWeight_Lexical(ws) ==
    IF ws = {} THEN weightless
    ELSE CHOOSE w \in ws : \A v \in ws :
            \/ v.threshold < w.threshold
            \/ v.threshold = w.threshold /\ v.count <= w.count

\* Componentwise: the two maxima may come from different paths.
MaxWeight(ws) ==
    [threshold |-> Max({w.threshold : w \in ws} \cup {0}),
     count     |-> Max({w.count : w \in ws} \cup {0})]

SumWeight(a, b) ==
    [threshold |-> a.threshold + b.threshold, count |-> a.count + b.count]

SelfWeight(g, n) ==
    IF n \in DOMAIN g.scale THEN [threshold |-> g.scale[n], count |-> 1]
    ELSE weightless

\* Well defined because every cycle of the graph runs through a header.
weigh(nodes, g) ==
    LET weight[n \in nodes] ==
            SumWeight(SelfWeight(g, n),
                      MaxWeight({IF s \in g.headers THEN weightless ELSE weight[s]
                                 : s \in g.succ[n]}))
    IN  weight
=============================================================================
