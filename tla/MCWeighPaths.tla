---------------------------- MODULE MCWeighPaths ----------------------------
(***************************************************************************)
(* All function bodies of at most Size items, written from the first item  *)
(* to the last; whenever one is complete, its loops are removed, its jumps *)
(* classified and its statements weighed.                                  *)
(***************************************************************************)
EXTENDS Balance

CONSTANTS Size,     \* bound: items of a body
          MaxGotos, \* bound: gotos that the program itself contains
          Weights   \* item -> the scale of the site that may be there

\* A scale is 1, or the number that --load-scales gives the site.
ASSUME WeightsAssumption == Size \in Nat /\ \A i \in 1..Size : Weights[i] \in Nat

VARIABLE body       \* what is written so far

MCWeights == <<1, 3, 1, 1, 0, 2>>

At == Len(body) + 1

\* The innermost statement of these kinds that the next item is in, or 0.
Within(kinds) == Enclosing(Append(body, EmptyStmt), At, kinds)

HasElse(i) == \E k \in DOMAIN body : body[k].kind = "else" /\ Parent(body)[k] = i

Open == Cardinality({i \in DOMAIN body : body[i].kind \in Compound})
        - Cardinality({i \in DOMAIN body : body[i].kind = "end"})

\* Every statement still open needs its end, an if its else as well.
Room == Size - Len(body) - Open
        - Cardinality({i \in DOMAIN body : body[i].kind = "if" /\ ~HasElse(i)})

Write(item) == body' = Append(body, item)

\* A case belongs to the nearest switch, and its default is unique.
LabelsHere ==
    LET switch == Within({"switch"}) IN
    {"none"} \cup (IF switch = 0 THEN {} ELSE {"case"})
             \cup (IF switch = 0 \/ \E i \in (switch + 1)..Len(body) : body[i].label = "default"
                   THEN {} ELSE {"default"})

WritePlain ==
    \E kind \in {"instr", "return"}, label \in LabelsHere :
        Room > 0 /\ Write(Item(kind, 0, label))

WriteGoto ==
    /\ Room > 0
    /\ Cardinality(Gotos(body)) < MaxGotos
    /\ \E dest \in (1..Size) \ {At}, label \in LabelsHere :
          /\ dest < At => IsStatement(body, dest)
          /\ Write(Item("goto", dest, label))

WriteBreak ==
    \E label \in LabelsHere :
        Room > 0 /\ Within({"loop", "switch"}) # 0 /\ Write(Item("break", 0, label))

WriteContinue ==
    \E label \in LabelsHere :
        Room > 0 /\ Within({"loop"}) # 0 /\ Write(Item("continue", 0, label))

OpenCompound ==
    \E kind \in Compound, label \in LabelsHere :
        /\ Room > (IF kind = "if" THEN 2 ELSE 1)
        /\ Write(Item(kind, 0, label))

\* A weighty call is never a case itself, but the block around it may be.
WriteCall == Room > 0 /\ Write(Item("call", 0, "none"))

WriteElse ==
    LET i == Within(Compound) IN
    i # 0 /\ body[i].kind = "if" /\ ~HasElse(i) /\ Write(Item("else", 0, "none"))

WriteEnd ==
    LET i == Within(Compound) IN
    i # 0 /\ (body[i].kind = "if" => HasElse(i)) /\ Write(Item("end", 0, "none"))

Init == body = <<>>

Next == WritePlain \/ WriteCall \/ WriteGoto \/ WriteBreak \/ WriteContinue
        \/ OpenCompound \/ WriteElse \/ WriteEnd

Spec == Init /\ [][Next]_body

Complete == body # <<>> /\ Open = 0 /\ \A i \in Gotos(body) : IsStatement(body, body[i].dest)

-----------------------------------------------------------------------------
\* Removing the loops leaves the control flow between the statements of the
\* program what it was: only the goto behind a former loop is new, and it
\* stands for falling off the end of the body.
FlowIsKept ==
    Complete =>
    LET jumps == RemoveLoops(body)
        flow == build(jumps)
        Origin(i) == IF jumps[i].kind = "back" THEN jumps[i].dest ELSE i
    IN  \A i \in Statements(body) : {Origin(s) : s \in flow[i]} = build(body)[i]

\* Wherever control runs for ever, it runs through a backward goto, where
\* the region ends and the countdown is looked at again; so weigh, which
\* stops at those gotos, terminates.  (Not so for a goto to itself, which
\* the bodies here leave out.)
CyclesAreCut ==
    Complete =>
    LET jumps == RemoveLoops(body)
        flow == build(jumps)
    IN  \A ring \in SUBSET (Statements(jumps) \ Backward(jumps)) :
            (\A i \in ring : flow[i] \cap ring # {}) => ring = {}

\* What control may run through from n up to the next header.
Linked(g, path) == \A i \in path :
    LET later == {j \in path : j > i} IN later # {} => Min(later) \in g.succ[i]

PathsFrom(nodes, g, n) ==
    {{}} \cup {path \in (SUBSET (nodes \ g.headers)) \ {{}} :
                  Min(path) \in g.succ[n] /\ Linked(g, path)}

Total(g, path) == MapThenSumSet(LAMBDA i : g.scale[i], path \cap DOMAIN g.scale)

\* The body with sites on some of its statements; a case is never a site.
Sited(sites) ==
    [i \in DOMAIN body |->
        IF i \in sites THEN [body[i] EXCEPT !.scale = Weights[i]] ELSE body[i]]

MaybeSites == SUBSET {i \in DOMAIN body : body[i].kind = "instr" /\ body[i].label = "none"}

\* Neither component of a weight is ever exceeded on a path to the next
\* header, and each is reached on some path: a region is neither entered with
\* too small a countdown nor left to the slow clone for nothing.
WeightIsTight ==
    Complete =>
    \A sites \in MaybeSites :
        LET jumps == RemoveLoops(Sited(sites))
            nodes == Statements(jumps)
            g == Flow(jumps)
            weight == weigh(nodes, g)
        IN  \A n \in nodes :
            LET totals == {[threshold |-> Total(g, {n} \cup path),
                            count |-> Cardinality(({n} \cup path) \cap sites)] :
                           path \in PathsFrom(nodes, g, n)}
            IN  /\ weight[n].threshold = Max({t.threshold : t \in totals})
                /\ weight[n].count = Max({t.count : t \in totals})

\* When patch redirects the gotos to a case, it meets no predecessor but
\* gotos and the switch: prepatch has made a goto of everything else.
CasesAreRedirected ==
    Complete =>
    LET jumps == RemoveLoops(prepatch(body))
        flow == build(jumps)
    IN  \A i \in Statements(jumps) : IsCase(jumps, i) =>
            \A j \in Statements(jumps) \ Gotos(jumps) :
                i \in flow[j] => j = SwitchOf(jumps, i)

HasSplit == \E i \in DOMAIN body : body[i].kind \in {"if", "switch"}

Weighed(p, g) == LET weight == weigh(Statements(p), g) IN [n \in Statements(p) |-> weight[n]]

Heaviest(weight) == Max({weight[n].threshold : n \in DOMAIN weight})

\* The assertions of patch and of the second weighing.
Agree(g, weight) ==
    LET Subweight(s) == IF s \in g.headers THEN 0 ELSE weight[s].threshold
    IN  \A n \in DOMAIN weight : \A s, t \in g.succ[n] : Subweight(s) = Subweight(t)

\* Does the patched body, weighed again, satisfy them?  (One operator for each
\* thing computed on the way, so that each is computed once.)
StaysBalanced(p, g, weight) == Agree(g, Weighed(p, g)) /\ Heaviest(Weighed(p, g)) = Heaviest(weight)

IsBalancedBy(weight, p) == StaysBalanced(p, Flow(p), weight)

CanBeBalanced(p, weight) == IsBalancedBy(weight, patch(p, weight))

CanBePatched(p) == JumpsLost(p) \/ CanBeBalanced(p, Weighed(p, Flow(p)))

\* With the counterweights in place all successors of a statement weigh the
\* same, and no region weighs more than without them: the assertions of patch
\* and of the second weighing.  (For bodies that patch does not give up on.)
BalancedPathsAgree ==
    Complete /\ HasSplit /\ ~SplitsLost(addDefaultCases(body)) =>
    \A sites \in MaybeSites : CanBePatched(RemoveLoops(prepatch(Sited(sites))))
=============================================================================
