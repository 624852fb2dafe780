---------------------------- MODULE ControlFlow ----------------------------
(***************************************************************************)
(* From structured statements to gotos (instrumentor): CfgUtils links      *)
(* statements, RemoveLoops turns loops, breaks and continues into gotos,   *)
(* ClassifyJumps tells backward gotos, the headers of regions, from        *)
(* forward ones.                                                           *)
(*                                                                         *)
(* A function body is the sequence of its statements in the order in which *)
(* NumberStatements visits them, with an "end" behind the last statement   *)
(* of a compound one and an "else" between the branches of an if.  An item *)
(* is a record: dest is the destination of a goto, label is "case" or      *)
(* "default" for a case of the enclosing switch, scale that of a site.  A  *)
(* "call" is one that WeightyCalls has put a jump behind; a call that      *)
(* never returns is a "return", for neither has a successor.               *)
(***************************************************************************)
EXTENDS Integers, Sequences, FiniteSetsExt

NoSite == -1

Item(kind, dest, label) ==
    [kind |-> kind, dest |-> dest, label |-> label, scale |-> NoSite]

Compound == {"if", "switch", "loop", "block"}

\* The goto that replaces the end of a loop closes the block, too.
Closing == {"end", "back"}

IsStatement(p, i) == i \in DOMAIN p /\ p[i].kind \notin {"else", "end"}
Statements(p) == {i \in DOMAIN p : IsStatement(p, i)}

\* The compound statement that an item is directly in (its end is, too), or 0.
Parent(p) ==
    LET parent[i \in DOMAIN p] ==
            IF i = 1 THEN 0
            ELSE IF p[i - 1].kind \in Compound THEN i - 1
            ELSE IF p[i - 1].kind \in Closing THEN parent[parent[i - 1]]
            ELSE parent[i - 1]
    IN  [i \in DOMAIN p |-> parent[i]]

\* The innermost statement of these kinds around i, or 0.
Enclosing(p, i, kinds) ==
    LET parent == Parent(p)
        climb[j \in 0..Len(p)] ==
            IF j = 0 \/ p[j].kind \in kinds THEN j ELSE climb[parent[j]]
    IN  climb[parent[i]]

EndOf(p, i) ==
    LET parent == Parent(p) IN CHOOSE j \in DOMAIN p : p[j].kind \in Closing /\ parent[j] = i

ElseOf(p, i) ==
    LET parent == Parent(p) IN CHOOSE j \in DOMAIN p : p[j].kind = "else" /\ parent[j] = i

Follower(p, i) == IF p[i].kind \in Compound THEN EndOf(p, i) + 1 ELSE i + 1

\* context.next: where control falls from statement i, or 0 at the end.
Fall(p) ==
    LET parent == Parent(p)
        next[i \in DOMAIN p] ==
            IF IsStatement(p, Follower(p, i)) THEN Follower(p, i)
            ELSE IF parent[i] = 0 THEN 0
            ELSE IF p[parent[i]].kind = "loop" THEN parent[i]
            ELSE next[parent[i]]
    IN  next

\* pickNext: the first of a list of statements, or where an empty one leads.
First(p, i, inherited) == IF IsStatement(p, i) THEN i ELSE inherited

Cases(p, i) == {j \in Statements(p) : p[j].label # "none" /\ Enclosing(p, j, {"switch"}) = i}
HasDefault(p, i) == \E j \in Cases(p, i) : p[j].label = "default"

\* The edges that build adds from statement i, and 0 for leaving the function.
Links(p, i) ==
    LET next == Fall(p) IN
    CASE p[i].kind \in {"instr", "call"} -> {next[i]}
      [] p[i].kind = "return"   -> {}
      [] p[i].kind \in {"goto", "back"} -> {p[i].dest}
      [] p[i].kind = "break"    -> {next[Enclosing(p, i, {"loop", "switch"})]}
      [] p[i].kind = "continue" -> {Enclosing(p, i, {"loop"})}
      [] p[i].kind = "if"       -> {First(p, i + 1, next[i]),
                                    First(p, ElseOf(p, i) + 1, next[i])}
      [] p[i].kind = "switch"   -> Cases(p, i) \cup
                                   (IF HasDefault(p, i) THEN {} ELSE {next[i]})
      [] p[i].kind = "loop"     -> {First(p, i + 1, i)}
      [] p[i].kind = "block"    -> {First(p, i + 1, next[i])}

build(p) == [i \in Statements(p) |-> Links(p, i) \ {0}]

\* Mutated form: a break goes on with the loop.
WithoutBreak_Again(p, i) ==
    [p[i] EXCEPT !.kind = "goto", !.dest = Enclosing(p, i, {"loop", "switch"})]

\* A break without a successor leaves the function.
WithoutBreak(p, i) ==
    LET target == build(p)[i] IN
    IF target = {} THEN [p[i] EXCEPT !.kind = "return"]
    ELSE [p[i] EXCEPT !.kind = "goto", !.dest = CHOOSE j \in target : TRUE]

RemoveLoops(p) ==
    [i \in DOMAIN p |->
        LET loop == Enclosing(p, i, Compound) IN
        CASE p[i].kind = "loop"     -> [p[i] EXCEPT !.kind = "block"]
          [] p[i].kind = "break"    -> WithoutBreak(p, i)
          [] p[i].kind = "continue" -> [p[i] EXCEPT !.kind = "goto",
                                                    !.dest = Enclosing(p, i, {"loop"})]
          [] p[i].kind = "end" /\ p[loop].kind = "loop" ->
                 [p[i] EXCEPT !.kind = "back", !.dest = loop]
          [] OTHER                  -> p[i]]

Gotos(p) == {i \in DOMAIN p : p[i].kind \in {"goto", "back"}}

\* Mutated form: only the gotos of former loops lead backwards.
Backward_Loops(p) == {i \in DOMAIN p : p[i].kind = "back"}

\* ClassifyJumps: the destination was seen before the goto itself is noted.
Backward(p) == {i \in Gotos(p) : p[i].dest < i}

Headers(p) == Backward(p) \cup {i \in DOMAIN p : p[i].kind = "call"}

\* What weigh is given: a body without loops and its sites.
Flow(p) ==
    [succ    |-> build(p),
     headers |-> Headers(p),
     scale   |-> [i \in {j \in Statements(p) : p[j].scale # NoSite} |-> p[i].scale]]
=============================================================================
