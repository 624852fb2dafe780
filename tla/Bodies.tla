------------------------------- MODULE Bodies -------------------------------
(***************************************************************************)
(* What the proofs say of the bodies of MCWeighPaths: what is true of a    *)
(* body at any time while it is written (BodyInv, PlainInv, LabelInv and   *)
(* RoomInv), and how the bodies that the passes of the instrumentor make   *)
(* of it are related to it.                                                *)
(***************************************************************************)
EXTENDS MCWeighPaths

-----------------------------------------------------------------------------
(* The tree of statements *)

\* f climbs from each of the numbers 0..n up to where it stops.
Climbs(f, n, stop, val, up) ==
    f = [j \in 0..n |-> IF stop[j] THEN val[j] ELSE f[up[j]]]

\* f is the recursive function in Parent.
Computes(f, p) ==
    f = [i \in DOMAIN p |->
            IF i = 1 THEN 0
            ELSE IF p[i - 1].kind \in Compound THEN i - 1
            ELSE IF p[i - 1].kind \in Closing THEN f[f[i - 1]]
            ELSE f[i - 1]]

\* f gives each item of p the compound statement that it is directly in, and
\* whatever closes one is in one.
Tree(f, p) ==
    /\ Len(p) \in Nat /\ DOMAIN p = 1..Len(p)
    /\ Computes(f, p)
    /\ \A i \in 1..Len(p) : f[i] \in 0..(i - 1)
    /\ \A i \in 1..Len(p) : f[i] # 0 => p[f[i]].kind \in Compound
    /\ \A i \in 1..Len(p) : p[i].kind \in Closing => f[i] # 0

\* The end of a compound statement: what closes it, directly in it.
Ends(f, p, k, j) == j \in 1..Len(p) /\ p[j].kind \in Closing /\ f[j] = k

\* Every statement is closed.
Closed(f, p) == \A k \in 1..Len(p) : p[k].kind \in Compound => \E j \in 1..Len(p) : Ends(f, p, k, j)

\* The last item of a statement.
LastOf(p, i) == IF p[i].kind \in Compound THEN EndOf(p, i) ELSE i

-----------------------------------------------------------------------------
(* What is written *)

Kinds == {"instr", "call", "return", "goto", "break", "continue",
          "if", "switch", "loop", "block", "else", "end"}

Items == [kind : Kinds, dest : Nat, label : {"none", "case", "default"}, scale : Int]

\* What is true of a body at any time while it is being written.
Written(f, p) ==
    /\ p \in Seq(Items)
    /\ Tree(f, p)
    /\ \A i \in 1..Len(p) : p[i].kind = "goto" => p[i].dest # i
    /\ \A i \in 1..Len(p) : p[i].kind = "break" => Enclosing(p, i, {"loop", "switch"}) # 0
    /\ \A i \in 1..Len(p) : p[i].kind = "continue" => Enclosing(p, i, {"loop"}) # 0
    /\ \A i \in 1..Len(p) : p[i].kind = "else" => f[i] # 0 /\ p[f[i]].kind = "if"
    /\ \A i \in 1..Len(p) : p[i].kind \in {"else", "end"} => p[i].label = "none"
    /\ \A i \in 1..Len(p) : p[i].kind = "end" /\ p[f[i]].kind = "if" =>
           \E k \in 1..Len(p) : p[k].kind = "else" /\ f[k] = f[i]

BodyInv == Written(Parent(body), body)

\* The statement that the next item of p is directly in.
NextParent(f, p) ==
    LET n == Len(p) IN
    IF n = 0 THEN 0
    ELSE IF p[n].kind \in Compound THEN n
    ELSE IF p[n].kind \in Closing THEN f[f[n]]
    ELSE f[n]

Extended(f, p) == [i \in 1..(Len(p) + 1) |-> IF i = Len(p) + 1 THEN NextParent(f, p) ELSE f[i]]

\* What the guards say of the item that is written.
Fits(x) ==
    /\ x \in Items /\ x.scale = NoSite
    /\ x.kind \notin Compound \cup {"else", "end"} => Room > 0
    /\ x.kind \in Compound => Room > (IF x.kind = "if" THEN 2 ELSE 1)
    /\ IF x.kind = "goto" THEN x.dest # At ELSE x.dest = 0
    /\ x.kind = "break" => Within({"loop", "switch"}) # 0
    /\ x.kind = "continue" => Within({"loop"}) # 0
    /\ x.kind \in Closing \cup {"else"} => Within(Compound) # 0
    /\ x.kind = "else" => body[Within(Compound)].kind = "if" /\ ~HasElse(Within(Compound))
    /\ x.kind = "end" /\ body[Within(Compound)].kind = "if" => HasElse(Within(Compound))
    /\ x.label # "none" => x.kind \notin {"call", "else", "end"} /\ Within({"switch"}) # 0

-----------------------------------------------------------------------------
(* Without its loops *)

\* A body that can be given to the compiler.
Finished(f, p) ==
    /\ Written(f, p)
    /\ Closed(f, p)
    /\ \A i \in 1..Len(p) : p[i].kind = "goto" => IsStatement(p, p[i].dest)

\* Where a break goes.
Target(p, i) == Fall(p)[Enclosing(p, i, {"loop", "switch"})]

\* Item x of the body without loops stands for item i of p.
Replaces(f, p, i, x) ==
    /\ x.label = p[i].label /\ x.scale = p[i].scale
    /\ p[i].kind = "loop" => x.kind = "block"
    /\ p[i].kind = "break" =>
           \/ Target(p, i) = 0 /\ x.kind = "return"
           \/ Target(p, i) # 0 /\ x.kind = "goto" /\ x.dest = Target(p, i)
    /\ p[i].kind = "continue" => x.kind = "goto" /\ x.dest = Enclosing(p, i, {"loop"})
    /\ p[i].kind = "end" /\ p[f[i]].kind = "loop" => x.kind = "back" /\ x.dest = f[i]
    /\ p[i].kind \notin {"loop", "break", "continue", "end"} => x = p[i]
    /\ p[i].kind = "end" /\ p[f[i]].kind # "loop" => x = p[i]

\* What a link of the body without loops stands for: the goto behind a former
\* loop for its destination, and 0 for leaving the function.
Stands(q, s) == IF s = 0 THEN 0 ELSE IF q[s].kind = "back" THEN q[s].dest ELSE s

-----------------------------------------------------------------------------
(* Sums and weights *)

\* F sums w over each subset of T.
IsSum(F, T, w) ==
    /\ F = [s \in SUBSET T |-> F[s]]
    /\ F[{}] = 0
    /\ \A s \in SUBSET T : F[s] \in Nat
    /\ \A s \in SUBSET T : \A x \in s : F[s] = w[x] + F[s \ {x}]

\* h sums v over each subset of S as the fold of the library does.
Folds(h, S, v) ==
    h = [s \in SUBSET S |-> IF s = {} THEN 0
                            ELSE v[CHOOSE x \in s : TRUE] + h[s \ {CHOOSE x \in s : TRUE}]]

\* S holds the sites of g on a path, whose scales are those in w.
Sites(g, w, path, S) ==
    /\ S = path \cap DOMAIN g.scale
    /\ \A i \in S : g.scale[i] = w[i]

\* What weigh relies on in a graph g of the statements in nodes.
Forward(nodes, g, n) ==
    /\ n \in Nat /\ nodes \in SUBSET (1..n)
    /\ \A i \in nodes : g.succ[i] \in SUBSET nodes
    /\ \A i \in nodes \ g.headers : \A s \in g.succ[i] : s > i
    /\ DOMAIN g.scale \subseteq nodes
    /\ \A i \in DOMAIN g.scale : g.scale[i] \in Nat

\* One step of weigh, when h holds the weights of the successors.
WeightOf(g, h, i) ==
    SumWeight(SelfWeight(g, i), MaxWeight({IF s \in g.headers THEN weightless ELSE h[s] : s \in g.succ[i]}))

\* V bounds u along the links of g, and tightly.
Bounds(V, u, nodes, g) ==
    /\ \A i \in nodes : u[i] \in Nat /\ V[i] \in Nat /\ V[i] >= u[i]
    /\ \A i \in nodes : \A s \in g.succ[i] \ g.headers : V[i] >= u[i] + V[s]
    /\ \A i \in nodes : V[i] # u[i] => \E s \in g.succ[i] \ g.headers : V[i] = u[i] + V[s]

\* M adds up u over sets of statements.
Adds(M, u, nodes) ==
    /\ M[{}] = 0
    /\ \A s \in SUBSET nodes : M[s] \in Nat
    /\ \A s \in SUBSET nodes : \A x \in nodes \ s : M[{x} \cup s] = u[x] + M[s]

-----------------------------------------------------------------------------
(* Sites *)

\* No site is written, and there is room for all that is missing.
RoomInv ==
    /\ \A i \in DOMAIN body : body[i].scale = NoSite
    /\ Room \in Nat

\* What Program's WeightAssumption takes for granted: the weight of a statement
\* covers its own site and whatever its successors still hold.
Covers(nodes, g, weight) ==
    \A n \in nodes :
        LET self == SelfWeight(g, n)
            Rest(s) == IF s \in g.headers THEN weightless ELSE weight[s]
        IN  /\ weight[n] \in [threshold : Nat, count : Nat]
            /\ weight[n].threshold >= self.threshold /\ weight[n].count >= self.count
            /\ \A s \in g.succ[n] : /\ weight[n].threshold >= self.threshold + Rest(s).threshold
                                    /\ weight[n].count >= self.count + Rest(s).count

-----------------------------------------------------------------------------
(* Pieces put one behind the other *)

\* s[i] is how many items stand before piece i of 1..n, where piece i is w[i] long.
Offsets(s, n, w) ==
    /\ n \in Nat
    /\ \A i \in 1..n : w[i] \in Nat
    /\ \A i \in 1..(n + 1) : s[i] \in Nat
    /\ s[1] = 0
    /\ \A i \in 1..n : s[i + 1] = s[i] + w[i]

\* Piece i is w[i] long.
Pieces(seqs, n, V, w) == seqs \in [1..n -> Seq(V)] /\ \A i \in 1..n : w[i] = Len(seqs[i])

\* An item moved along with its piece, jumps included.
Moved(s, goal, i, x) ==
    [x EXCEPT !.dest = IF x.dest > 0 THEN s[x.dest] + goal[x.dest]
                       ELSE IF x.dest < 0 THEN s[i] - x.dest ELSE 0]

\* q consists of the pieces before[i], item[i], after[i].
Spliced(q, s, n, before, item, after, goal) ==
    /\ Offsets(s, n, [i \in 1..n |-> Len(before[i]) + 1 + Len(after[i])])
    /\ q \in Seq({q[x] : x \in 1..Len(q)})
    /\ Len(q) = s[n + 1]
    /\ \A i \in 1..n :
          /\ \A k \in 1..Len(before[i]) : q[s[i] + k] = Moved(s, goal, i, before[i][k])
          /\ q[s[i] + Len(before[i]) + 1] = Moved(s, goal, i, item[i])
          /\ \A k \in 1..Len(after[i]) :
                 q[s[i] + Len(before[i]) + 1 + k] = Moved(s, goal, i, after[i][k])

\* The piece that x is in.
Piece(s, n, x) == CHOOSE i \in 1..n : s[i] < x /\ x <= s[i + 1]

-----------------------------------------------------------------------------
(* Bodies with room in them *)

\* A statement that nothing is in, and that is no part of another.
Simple(x) == x.kind \notin Compound \cup Closing \cup {"else"}

\* Where item i has gone, and where its piece begins.
Pos(s, hd, i) == IF i = 0 THEN 0 ELSE s[i] + hd[i] + 1
Lead(s, i) == s[i] + 1

\* Is a block closed behind item i?
BlockEnds(f, p, W, i) == IF p[i].kind \in Closing THEN f[i] \in W ELSE i \in W

\* q is p with hd[i] more items in front of item i, and tl[i] behind it.  The
\* statements in W have a block around them now.
Layout(f, p, q, W, s, hd, tl) ==
    /\ Tree(f, p) /\ Closed(f, p)
    /\ \A i \in W : i \in 1..Len(p) /\ p[i].kind \notin Closing \cup {"else"}
    /\ \A i \in 1..Len(p) : hd[i] \in Nat /\ tl[i] \in Nat
    /\ Offsets(s, Len(p), [i \in 1..Len(p) |-> hd[i] + 1 + tl[i]])
    /\ Len(q) = s[Len(p) + 1] /\ DOMAIN q = 1..Len(q)
    /\ \A i \in 1..Len(p) :
          /\ q[Pos(s, hd, i)].kind = p[i].kind
          /\ i \in W => /\ hd[i] >= 1 /\ q[Lead(s, i)].kind = "block"
                        /\ \A k \in 2..hd[i] : Simple(q[s[i] + k])
          /\ i \notin W => hd[i] = 0
          /\ p[i].kind \in Compound \cup {"else"} =>
                 \A k \in 1..tl[i] : Simple(q[Pos(s, hd, i) + k])
          /\ p[i].kind \notin Compound \cup {"else"} =>
                 IF BlockEnds(f, p, W, i) THEN tl[i] = 1 /\ q[Pos(s, hd, i) + 1].kind = "end"
                 ELSE tl[i] = 0

\* The tree of q.
NewParent(f, p, W, s, hd) ==
    [x \in 1..s[Len(p) + 1] |->
        LET i == Piece(s, Len(p), x)
            k == x - s[i]
        IN  IF k <= hd[i] + 1 THEN IF k = 1 THEN Pos(s, hd, f[i]) ELSE Lead(s, i)
            ELSE IF p[i].kind \in Compound THEN Pos(s, hd, i)
            ELSE IF p[i].kind = "else" THEN Pos(s, hd, f[i])
            ELSE IF p[i].kind \in Closing THEN Lead(s, f[i])
            ELSE Lead(s, i)]

\* Where control lands when it falls from i to t: back at a loop, or in front
\* of what is to come.
Land(s, hd, i, t) == IF t = 0 THEN 0 ELSE IF t < i THEN Pos(s, hd, t) ELSE Lead(s, t)

-----------------------------------------------------------------------------
(* Bodies rewritten *)

\* Only a goto has a destination, and an if has one else.
Plain(f, p) ==
    /\ \A i \in 1..Len(p) : p[i].kind # "goto" => p[i].dest = 0
    /\ \A i, k \in 1..Len(p) :
          p[i].kind = "else" /\ p[k].kind = "else" /\ f[i] = f[k] => i = k

PlainInv == Plain(Parent(body), body)

DefaultStmt == Item("instr", 0, "default")
BreakStmt == Item("break", 0, "none")
BlockStmt == Item("block", 0, "none")
SkipTo(dest) == Item("goto", dest, "none")

\* What prepatch puts around the items of p: see Splice.
Shaped(f, p, W, before, after) ==
    /\ before = [i \in 1..Len(p) |-> IF i \in W THEN <<BlockStmt, SkipTo(-3)>> ELSE <<>>]
    /\ after \in [1..Len(p) -> Seq({EmptyStmt, DefaultStmt, BreakStmt, End})]
    /\ \A i \in 1..Len(p) :
          IF p[i].kind \in Compound \cup {"else"}
          THEN \A k \in 1..Len(after[i]) :
                  \/ after[i][k] \in {EmptyStmt, DefaultStmt}
                  \/ after[i][k] = BreakStmt /\ p[i].kind = "switch"
          ELSE after[i] = IF BlockEnds(f, p, W, i) THEN <<End>> ELSE <<>>

\* Item by item, what becomes of p.
Rewritten(f, p, q, W, s, hd, tl, after) ==
    /\ Layout(f, p, q, W, s, hd, tl)
    /\ q \in Seq({q[x] : x \in 1..Len(q)})
    /\ \A i \in 1..Len(p) :
          /\ q[Pos(s, hd, i)] =
                [p[i] EXCEPT !.dest = IF p[i].kind = "goto" THEN Lead(s, p[i].dest) ELSE 0]
          /\ i \in W => /\ hd[i] = 2
                        /\ q[Lead(s, i)] = BlockStmt
                        /\ q[s[i] + 2] = SkipTo(Pos(s, hd, i))
          /\ tl[i] = Len(after[i])
          /\ \A k \in 1..tl[i] : q[Pos(s, hd, i) + k] = after[i][k]

\* What an item of the new body is.
Came(f, p, q, W, s, hd, tl, x, i) ==
    \/ /\ x = Pos(s, hd, i)
       /\ q[x] = [p[i] EXCEPT !.dest = IF p[i].kind = "goto" THEN Lead(s, p[i].dest) ELSE 0]
    \/ i \in W /\ x = Lead(s, i) /\ q[x] = BlockStmt
    \/ i \in W /\ x = s[i] + 2 /\ q[x] = SkipTo(Pos(s, hd, i))
    \/ /\ p[i].kind \in Compound \cup {"else"} /\ \E k \in 1..tl[i] : x = Pos(s, hd, i) + k
       /\ q[x] \in {EmptyStmt, DefaultStmt}
    \/ /\ p[i].kind = "switch" /\ \E k \in 1..tl[i] : x = Pos(s, hd, i) + k
       /\ q[x] = BreakStmt
    \/ /\ p[i].kind \notin Compound \cup {"else"} /\ BlockEnds(f, p, W, i)
       /\ tl[i] = 1 /\ x = Pos(s, hd, i) + 1 /\ q[x] = End

\* What prepatchSplits makes of p.
Prepatched(f, p, q, W, s, hd, tl) ==
    \E before, after :
        /\ Shaped(f, p, W, before, after) /\ Rewritten(f, p, q, W, s, hd, tl, after)
        /\ \A i \in 1..Len(p) :
              /\ p[i].kind \in {"if", "else"} => after[i] = <<EmptyStmt>>
              /\ p[i].kind \in {"switch", "loop", "block"} => after[i] = <<>>

-----------------------------------------------------------------------------
(* Counterweights *)

\* The kinds of items without loops.
JumpKinds == {"instr", "call", "return", "goto", "back", "if", "switch", "block", "else", "end"}

\* A body as patch is given it: see prepatch.
Prepared(f, p) ==
    /\ Tree(f, p) /\ Closed(f, p)
    /\ Forward(Statements(p), Flow(p), Len(p))
    /\ \A i \in 1..Len(p) :
          /\ p[i] \in [kind : JumpKinds, dest : 0..Len(p), label : {"none", "case", "default"}, scale : Int]
          /\ p[i].label # "none" => /\ p[i].kind \in {"instr", "return", "if", "switch", "block"}
                                    /\ SwitchOf(p, i) # 0
          /\ p[i].scale # NoSite => p[i].kind = "instr"
          /\ p[i].kind \in {"goto", "back"} => p[i].dest \in Statements(p)
          /\ p[i].kind \in {"if", "else"} =>
                 i + 1 \in 1..Len(p) /\ p[i + 1].kind = "instr" /\ p[i + 1].label = "none"
          /\ p[i].kind = "if" => /\ ElseOf(p, i) \in (i + 1)..Len(p)
                                 /\ p[ElseOf(p, i)].kind = "else" /\ f[ElseOf(p, i)] = i
          /\ p[i].kind = "else" => /\ f[i] # 0 /\ p[f[i]].kind = "if"
                                   /\ \A k \in 1..Len(p) : p[k].kind = "else" /\ f[k] = f[i] => k = i
          /\ p[i].kind = "switch" => HasDefault(p, i)
    /\ \A i, j \in Statements(p) :
          p[i].label # "none" /\ i \in Links(p, j) /\ p[j].kind \notin {"goto", "back"} => j = SwitchOf(p, i)

\* The split that a branch belongs to, and what is missing from the weight of
\* that branch, or of a case.
SplitOf(f, p, i) == IF p[i].kind = "if" THEN i ELSE f[i]
Ahead(p, weight, i) == weight[SwitchOf(p, i)].threshold - weight[i].threshold
Behind(f, p, weight, i) == weight[SplitOf(f, p, i)].threshold - weight[i + 1].threshold

\* No successor of a split outweighs it: the assertion of prependCounterweights.
Descends(f, p, weight) ==
    /\ \A i \in Statements(p) : weight[i].threshold \in Nat
    /\ \A i \in Statements(p) : p[i].label # "none" => Ahead(p, weight, i) \in Nat
    /\ \A i \in 1..Len(p) : p[i].kind \in {"if", "else"} => Behind(f, p, weight, i) \in Nat

Wrapped(p) == {i \in Statements(p) : p[i].label # "none"}

CaseBlock(label) == Item("block", 0, label)

\* What patch makes of p, item by item.
Patched(f, p, q, weight, s, hd, tl) ==
    /\ Layout(f, p, q, Wrapped(p), s, hd, tl)
    /\ \A i \in 1..Len(p) :
          /\ q[Pos(s, hd, i)].kind = p[i].kind /\ q[Pos(s, hd, i)].scale = p[i].scale
          /\ q[Pos(s, hd, i)].label = "none" /\ q[Pos(s, hd, i)].dest = Pos(s, hd, p[i].dest)
          /\ i \in Wrapped(p) => /\ hd[i] = 1 + Ahead(p, weight, i)
                                 /\ q[Lead(s, i)] = CaseBlock(p[i].label)
                                 /\ \A k \in 2..hd[i] : q[s[i] + k] = Dummy
          /\ p[i].kind \in {"if", "else"} => /\ tl[i] = Behind(f, p, weight, i)
                                             /\ \A k \in 1..tl[i] : q[Pos(s, hd, i) + k] = Dummy
          /\ p[i].kind \in {"switch", "block"} => tl[i] = 0
          /\ p[i].kind \notin Compound \cup {"else"} =>
                IF BlockEnds(f, p, Wrapped(p), i) THEN tl[i] = 1 /\ q[Pos(s, hd, i) + 1] = End
                ELSE tl[i] = 0

\* What patch puts in front of item i and behind it.
PatchHead(p, weight, i) ==
    IF i \in Wrapped(p) THEN <<CaseBlock(p[i].label)>> \o Counterweights(weight, SwitchOf(p, i), i)
    ELSE <<>>

PatchTail(f, p, weight, i) ==
    IF p[i].kind \in {"if", "else"} THEN Counterweights(weight, SplitOf(f, p, i), i + 1)
    ELSE IF p[i].kind \notin Compound /\ BlockEnds(f, p, Wrapped(p), i) THEN <<End>>
    ELSE <<>>

\* What the statements of the patched body should weigh: a split as much as
\* its heaviest branch, a counterweight one more than what follows it.
Expected(f, p, weight, s, hd, tl, E) ==
    /\ \A i \in Statements(p) : E[Pos(s, hd, i)] = weight[i].threshold
    /\ \A i \in Wrapped(p) :
          /\ E[Lead(s, i)] = weight[SwitchOf(p, i)].threshold
          /\ \A k \in 2..(hd[i] + 1) : E[s[i] + k] = weight[i].threshold + ((hd[i] + 1) - k)
    /\ \A i \in 1..Len(p) : p[i].kind \in {"if", "else"} =>
          \A k \in 1..(tl[i] + 1) : E[Pos(s, hd, i) + k] = weight[i + 1].threshold + ((tl[i] + 1) - k)

\* Statement x leads ahead, weighs what E says and has successors that weigh
\* the same; it is no heavier than what something else weighed before.
Even(nodes, g, E, u, x) ==
    /\ g.succ[x] \subseteq nodes
    /\ x \notin g.headers => \A t \in g.succ[x] : t > x
    /\ u[x] \in Nat /\ E[x] \in Nat /\ E[x] >= u[x]
    /\ \A t \in g.succ[x] \ g.headers : E[x] >= u[x] + E[t]
    /\ E[x] # u[x] => \E t \in g.succ[x] \ g.headers : E[x] = u[x] + E[t]
    /\ \A t, v \in g.succ[x] : (IF t \in g.headers THEN 0 ELSE E[t]) = (IF v \in g.headers THEN 0 ELSE E[v])

\* What a statement takes from the countdown itself.
Selves(q) == [x \in Statements(q) |-> SelfWeight(Flow(q), x).threshold]

\* The thresholds are those that weigh finds.
Weighs(weight, p) ==
    Bounds([i \in Statements(p) |-> weight[i].threshold], Selves(p), Statements(p), Flow(p))

-----------------------------------------------------------------------------
(* What is given to patch *)

\* Only statements of a switch, and no calls, are cases.
Labelled(p) == \A i \in 1..Len(p) : p[i].label # "none" => p[i].kind # "call" /\ SwitchOf(p, i) # 0

\* Only instructions are sites.
Scaled(p) == \A i \in 1..Len(p) : p[i].scale # NoSite => p[i].kind = "instr" /\ p[i].scale \in Nat

Defaulted(p) == \A i \in 1..Len(p) : p[i].kind = "switch" => HasDefault(p, i)

LabelInv == Labelled(body)

\* A default is only put behind a switch.
Behaved(p, after) ==
    \A i \in 1..Len(p) : \A k \in 1..Len(after[i]) : after[i][k] = DefaultStmt => p[i].kind = "switch"

\* Both branches of an if begin with an instruction of their own.
Roomy(p) ==
    \A x \in 1..Len(p) : p[x].kind \in {"if", "else"} =>
        x + 1 \in 1..Len(p) /\ p[x + 1].kind = "instr" /\ p[x + 1].label = "none"
=============================================================================
