------------------------------ MODULE Balance ------------------------------
(***************************************************************************)
(* --balance-paths (balance.ml): dummy sites, the counterweights, make     *)
(* every path of a region weigh the same, so that the fast path can pay    *)
(* for the region as a whole.  prepatch makes room for them before the     *)
(* loops are removed, patch puts them in once the statements are weighed.  *)
(***************************************************************************)
EXTENDS ControlFlow, WeighPaths, SequencesExt

End == Item("end", 0, "none")
EmptyStmt == Item("instr", 0, "none")
Dummy == [EmptyStmt EXCEPT !.scale = 1]

\* Item i replaced by before[i] \o <<item[i]>> \o after[i].  Gotos to i go to
\* offset goal[i] of the replacement; a destination -k is its own offset k.
Splice(before, item, after, goal) ==
    LET piece == [i \in DOMAIN item |-> before[i] \o <<item[i]>> \o after[i]]
        start == [i \in DOMAIN item |-> MapThenSumSet(LAMBDA j : Len(piece[j]), 1..(i - 1))]
        Moved(i, x) ==
            [x EXCEPT !.dest = IF x.dest > 0 THEN start[x.dest] + goal[x.dest]
                               ELSE IF x.dest < 0 THEN start[i] - x.dest ELSE 0]
    IN  FlattenSeq([i \in DOMAIN item |->
            [k \in DOMAIN piece[i] |-> Moved(i, piece[i][k])]])

Nothing(p) == [i \in DOMAIN p |-> <<>>]
InPlace(p) == [i \in DOMAIN p |-> 1]

\* Mutated form: a switch without a default stays as it is.
addDefaultCases_None(p) == p

addDefaultCases(p) ==
    Splice(Nothing(p), p,
           [i \in DOMAIN p |->
               IF p[i].kind = "switch" /\ ~HasDefault(p, i)
               THEN <<Item("instr", 0, "default"), Item("break", 0, "none")>>
               ELSE <<>>],
           InPlace(p))

IsCase(p, i) == IsStatement(p, i) /\ p[i].label # "none"
SwitchOf(p, i) == Enclosing(p, i, {"switch"})

\* Mutated form: only the statement just before a case falls through to it.
Fallthroughs_Adjacent(p) ==
    LET succs == build(p) IN
    {i \in Statements(p) : /\ IsCase(p, i) /\ i - 1 \in DOMAIN succs /\ i \in succs[i - 1]
                           /\ p[i - 1].kind # "goto" /\ i - 1 # SwitchOf(p, i)}

\* The cases that something else than a goto or their switch leads to.
Fallthroughs(p) ==
    LET succs == build(p) IN
    {i \in Statements(p) : /\ IsCase(p, i)
                           /\ \E j \in Statements(p) :
                                 i \in succs[j] /\ p[j].kind # "goto" /\ j # SwitchOf(p, i)}

\* Where a block opened in front of item i is closed: behind i, or behind its end.
Closes(p, i, wrapped) ==
    IF p[i].kind \in Closing
    THEN \E j \in wrapped : p[j].kind \in Compound /\ EndOf(p, j) = i
    ELSE i \in wrapped /\ p[i].kind \notin Compound

\* Room at the head of both branches, and a goto in place of every fallthrough.
prepatchSplits(p) ==
    LET elaborated == Fallthroughs(p) IN
    Splice([i \in DOMAIN p |->
               IF i \in elaborated
               THEN <<Item("block", 0, "none"), Item("goto", -3, "none")>> ELSE <<>>],
           p,
           [i \in DOMAIN p |->
               IF p[i].kind \in {"if", "else"} THEN <<EmptyStmt>>
               ELSE IF Closes(p, i, elaborated) THEN <<End>> ELSE <<>>],
           InPlace(p))

\* The list of splits then names a block that was an if or a switch.
SplitsLost(p) == \E i \in Fallthroughs(p) : p[i].kind \in {"if", "switch"}

prepatch(p) == prepatchSplits(addDefaultCases(p))

\* The counterweights between a split and one of its successors.
Counterweights(weight, split, successor) ==
    [k \in 1..(weight[split].threshold - weight[successor].threshold) |-> Dummy]

\* patch redirects the gotos to a case behind its counterweights.
Redirected(p, i, before) == Len(before) + 1

\* Every case becomes a block of its counterweights and what it was.
patch(p, weight) ==
    LET cases == {i \in DOMAIN p : IsCase(p, i)}
        before == [i \in DOMAIN p |->
            IF i \in cases
            THEN <<Item("block", 0, p[i].label)>> \o Counterweights(weight, SwitchOf(p, i), i)
            ELSE <<>>]
        BranchOf(i) == IF p[i].kind = "if" THEN i ELSE Enclosing(p, i, Compound)
    IN  Splice(before,
               [i \in DOMAIN p |-> [p[i] EXCEPT !.label = "none"]],
               [i \in DOMAIN p |->
                   IF p[i].kind \in {"if", "else"}
                   THEN Counterweights(weight, BranchOf(i), i + 1)
                   ELSE IF Closes(p, i, cases) THEN <<End>> ELSE <<>>],
               [i \in DOMAIN p |-> Redirected(p, i, before[i])])

\* A case that is a goto is a jump no longer once patch has wrapped it.
JumpsLost(p) == \E i \in Gotos(p) : IsCase(p, i)
=============================================================================
