--------------------------- MODULE RankingProofs ---------------------------
(***************************************************************************)
(* The safety properties of the corrective ranking, for any runs, any      *)
(* predicates, any number of rounds and whatever the statistics are.  The  *)
(* invariant says what the runs and the counts of every candidate are,     *)
(* given what the winners so far were true in; that the winners came from  *)
(* the candidates needs what the search for complex predicates returns.    *)
(***************************************************************************)
EXTENDS Ranking, FiniteSetTheorems, SequenceTheorems, WellFoundedInduction, TLAPS

Suite == [runs : SUBSET Run, failures : Nat, successes : Nat]

\* What was loaded: the counts are those of the runs.
LoadedInv ==
    /\ DOMAIN loaded \subseteq Predicate
    /\ \A p \in DOMAIN loaded :
          /\ loaded[p].tru = SuiteOf(loaded[p].tru.runs)
          /\ loaded[p].obs = SuiteOf(loaded[p].obs.runs)
          /\ loaded[p].tru.runs \subseteq loaded[p].obs.runs
          /\ loaded[p].obs.runs \subseteq Run \ HeldOut

\* Candidates are data as a predicate has it, and survive by their lower bound.
CandidatesInv ==
    /\ DOMAIN candidates \subseteq DOMAIN loaded
    /\ \A p \in DOMAIN candidates :
          /\ candidates[p] \in [tru : Suite, obs : Suite]
          /\ Counts(candidates[p]) \in Evidence
          /\ LowerBound(Counts(candidates[p])) > 0
          /\ Exact => /\ candidates[p].tru = SuiteOf(candidates[p].tru.runs)
                      /\ candidates[p].obs = SuiteOf(candidates[p].obs.runs)
                      /\ candidates[p].tru.runs \subseteq candidates[p].obs.runs

FailuresInv ==
    /\ allFailures \in Suite /\ allFailures.runs \subseteq Failing
    /\ allFailures.failures \in 0..Cardinality(Failing) /\ allFailures.successes = 0
    /\ Exact => allFailures = SuiteOf(allFailures.runs)

Winner == [preds : SUBSET DOMAIN loaded, kind : {"S", "C", "D"}, tru : Suite]

MiscInv ==
    /\ mode \in Modes /\ phase \in {"ranking", "zooming", "done"}
    /\ winners \in Seq(Winner)
    /\ zoomed \subseteq DOMAIN loaded

\* What dilution has left of the given runs, when the others are gone.  An
\* exact dilution leaves the rest, an approximate one no larger counts.
Left(suite, given, gone) ==
    /\ suite \in Suite
    /\ Exact => suite = SuiteOf(given \ gone)
    /\ ~Exact => /\ suite.runs = given
                 /\ suite.failures <= Cardinality((given \ gone) \cap Failing)
                 /\ suite.successes <= Cardinality((given \ gone) \cap Passing)

RankingInv ==
    phase = "ranking" =>
        /\ Left(allFailures, Failing, Explained)
        /\ \A p \in DOMAIN candidates :
              /\ Left(candidates[p].tru, loaded[p].tru.runs, Explained)
              /\ Left(candidates[p].obs, loaded[p].obs.runs, Explained)

\* A static count of successes, once computed, is not below the number of
\* passing runs that are loaded.
SuccessesInv ==
    HeldOut \cap Failing = {} =>
        \A k \in {"C", "D"} :
            \/ succ[k] = Unset
            \/ succ[k] \in Int /\ succ[k] >= Cardinality(Passing \ HeldOut)

IInv ==
    /\ LoadedInv /\ CandidatesInv /\ FailuresInv /\ MiscInv /\ RankingInv
    /\ SuccessesInv /\ ExplainsAll

-----------------------------------------------------------------------------
(* Counting runs *)

LEMMA RunsAreFinite ==
    /\ IsFiniteSet(Run)
    /\ \A S \in SUBSET Run : IsFiniteSet(S) /\ Cardinality(S) \in Nat
    /\ \A S : /\ IsFiniteSet(S \cap Failing) /\ IsFiniteSet(S \cap Passing)
              /\ Cardinality(S \cap Failing) \in 0..Cardinality(Failing)
              /\ Cardinality(S \cap Passing) \in 0..Cardinality(Passing)
    /\ Cardinality(Failing) \in Nat /\ Cardinality(Passing) \in Nat
<1>1. IsFiniteSet(Run)
  BY RunAssumption, FS_Union DEF Run
<1>2. ASSUME NEW S \in SUBSET Run PROVE IsFiniteSet(S) /\ Cardinality(S) \in Nat
  BY <1>1, FS_Subset, FS_CardinalityType
<1>3. Cardinality(Failing) \in Nat /\ Cardinality(Passing) \in Nat
  BY RunAssumption, FS_CardinalityType
<1>4. ASSUME NEW S
      PROVE  /\ IsFiniteSet(S \cap Failing) /\ IsFiniteSet(S \cap Passing)
             /\ Cardinality(S \cap Failing) \in 0..Cardinality(Failing)
             /\ Cardinality(S \cap Passing) \in 0..Cardinality(Passing)
  <2>1. /\ IsFiniteSet(S \cap Failing) /\ Cardinality(S \cap Failing) <= Cardinality(Failing)
        /\ IsFiniteSet(S \cap Passing) /\ Cardinality(S \cap Passing) <= Cardinality(Passing)
    BY RunAssumption, FS_Intersection
  <2>2. Cardinality(S \cap Failing) \in Nat /\ Cardinality(S \cap Passing) \in Nat
    BY <2>1, FS_CardinalityType
  <2> QED BY <1>3, <2>1, <2>2
<1> QED BY <1>1, <1>2, <1>3, <1>4

LEMMA SmallerSetCountsLess ==
    ASSUME NEW S, NEW T, S \subseteq T, IsFiniteSet(T)
    PROVE  /\ IsFiniteSet(S) /\ Cardinality(S) \in Nat /\ Cardinality(T) \in Nat
           /\ Cardinality(S) <= Cardinality(T)
BY FS_Subset, FS_CardinalityType

LEMMA MaxOfTwo ==
    ASSUME NEW a \in Int, NEW b \in Int
    PROVE  /\ Max({a, b}) = IF a >= b THEN a ELSE b
           /\ Min({a, b}) = IF a <= b THEN a ELSE b
BY DEF Max, Min

LEMMA SuiteOfType ==
    ASSUME NEW runs \in SUBSET Run
    PROVE  SuiteOf(runs) \in Suite
BY RunsAreFinite DEF SuiteOf, Suite

\* Removing runs from a run set removes as many from its counts.
LEMMA EraseIsExact ==
    ASSUME NEW S \in SUBSET Run, NEW runs
    PROVE  Erase(SuiteOf(S), runs) = SuiteOf(S \ runs)
<1>1. /\ Cardinality((S \ runs) \cap Failing)
            = Cardinality(S \cap Failing) - Cardinality(S \cap runs \cap Failing)
      /\ Cardinality((S \ runs) \cap Passing)
            = Cardinality(S \cap Passing) - Cardinality(S \cap runs \cap Passing)
  <2>1. /\ (S \ runs) \cap Failing = (S \cap Failing) \ runs
        /\ (S \cap Failing) \cap runs = S \cap runs \cap Failing
        /\ (S \ runs) \cap Passing = (S \cap Passing) \ runs
        /\ (S \cap Passing) \cap runs = S \cap runs \cap Passing
    OBVIOUS
  <2>2. Cardinality((S \cap Failing) \ runs)
            = Cardinality(S \cap Failing) - Cardinality((S \cap Failing) \cap runs)
    BY RunsAreFinite, FS_Difference
  <2>3. Cardinality((S \cap Passing) \ runs)
            = Cardinality(S \cap Passing) - Cardinality((S \cap Passing) \cap runs)
    BY RunsAreFinite, FS_Difference
  <2> QED BY <2>1, <2>2, <2>3
<1> QED BY <1>1 DEF Erase, SuiteOf

\* Discounting takes away at most what is left unexplained: what an earlier
\* winner explained too is counted twice, and the count stops at zero.
LEMMA DiscountIsBelow ==
    ASSUME NEW suite \in Suite, NEW gone, NEW runs,
           suite.failures <= Cardinality((suite.runs \ gone) \cap Failing),
           suite.successes <= Cardinality((suite.runs \ gone) \cap Passing)
    PROVE  /\ Discount(suite, runs) \in Suite
           /\ Discount(suite, runs).runs = suite.runs
           /\ Discount(suite, runs).failures
                 <= Cardinality((suite.runs \ (gone \cup runs)) \cap Failing)
           /\ Discount(suite, runs).successes
                 <= Cardinality((suite.runs \ (gone \cup runs)) \cap Passing)
<1> DEFINE less(count, outcome) ==
               Max({0, count - Cardinality(suite.runs \cap runs \cap outcome)})
<1>1. ASSUME NEW count \in Nat, NEW O \in {Failing, Passing},
             count <= Cardinality((suite.runs \ gone) \cap O)
      PROVE  /\ less(count, O) \in Nat
             /\ less(count, O) <= Cardinality((suite.runs \ (gone \cup runs)) \cap O)
  <2> DEFINE A == (suite.runs \ gone) \cap O
             D == suite.runs \cap runs \cap O
  <2>1. IsFiniteSet(A) /\ IsFiniteSet(D) /\ IsFiniteSet(O)
    BY RunsAreFinite, RunAssumption
  <2>2. Cardinality(A \ runs) = Cardinality(A) - Cardinality(A \cap runs)
    BY <2>1, FS_Difference
  <2>3. A \cap runs \subseteq D /\ A \ runs = (suite.runs \ (gone \cup runs)) \cap O
    OBVIOUS
  <2>4. /\ Cardinality(A \cap runs) <= Cardinality(D)
        /\ Cardinality(A \cap runs) \in Nat /\ Cardinality(D) \in Nat
    BY <2>1, <2>3, SmallerSetCountsLess
  <2>5. Cardinality(A) \in Nat /\ Cardinality(A \ runs) \in Nat
    BY <2>1, FS_CardinalityType, FS_Difference
  <2>6. 0 \in Int /\ count - Cardinality(D) \in Int
    BY <2>4
  <2>7. Max({0, count - Cardinality(D)})
            = IF 0 >= count - Cardinality(D) THEN 0 ELSE count - Cardinality(D)
    <3> DEFINE x == count - Cardinality(D)
    <3>1. x \in Int
      BY <2>6
    <3> HIDE DEF x
    <3>2. Max({0, x}) = IF 0 >= x THEN 0 ELSE x
      BY <3>1, MaxOfTwo
    <3> QED BY <3>2 DEF x
  <2>8. count <= Cardinality(A) /\ less(count, O) = Max({0, count - Cardinality(D)})
    BY <1>1
  <2>9. Cardinality((suite.runs \ (gone \cup runs)) \cap O)
            = Cardinality(A) - Cardinality(A \cap runs)
    BY <2>2, <2>3
  <2>10. /\ Max({0, count - Cardinality(D)}) \in Nat
         /\ Max({0, count - Cardinality(D)}) <= Cardinality(A) - Cardinality(A \cap runs)
    <3> HIDE DEF A, D, less
    <3>1. 0 <= Cardinality(A) - Cardinality(A \cap runs)
      BY <2>2, <2>5
    <3>2. count <= Cardinality(A)
      BY <2>8
    <3> QED BY <2>4, <2>5, <2>7, <3>1, <3>2
  <2> QED BY <2>8, <2>9, <2>10
<1>2. suite.failures \in Nat /\ suite.successes \in Nat /\ suite.runs \in SUBSET Run
      /\ suite = [runs |-> suite.runs, failures |-> suite.failures,
                  successes |-> suite.successes]
  BY DEF Suite
<1>3. Discount(suite, runs) = [runs |-> suite.runs,
                               failures |-> less(suite.failures, Failing),
                               successes |-> less(suite.successes, Passing)]
  <2>1. Discount(suite, runs) = [suite EXCEPT !.failures = less(@, Failing),
                                              !.successes = less(@, Passing)]
    BY DEF Discount
  <2> HIDE DEF less
  <2> QED BY <1>2, <2>1
<1>4. /\ less(suite.failures, Failing) \in Nat /\ less(suite.successes, Passing) \in Nat
      /\ less(suite.failures, Failing)
            <= Cardinality((suite.runs \ (gone \cup runs)) \cap Failing)
      /\ less(suite.successes, Passing)
            <= Cardinality((suite.runs \ (gone \cup runs)) \cap Passing)
  BY <1>1, <1>2
<1> HIDE DEF less
<1> QED BY <1>2, <1>3, <1>4 DEF Suite

-----------------------------------------------------------------------------
(* What the search for complex predicates returns *)

LEMMA LeastNumber ==
    ASSUME NEW T \in SUBSET Nat, T # {}
    PROVE  \E x \in T : \A y \in T : x <= y
<1> DEFINE R == OpToRel(<, Nat)
<1>1. IsWellFoundedOn(R, Nat)
  BY NatLessThanWellFounded
<1>2. \A y, z \in Nat : y < z => <<y, z>> \in R
  BY DEF OpToRel
<1> HIDE DEF R
<1>3. PICK x \in T : \A y \in T : <<y, x>> \notin R
  BY <1>1, WFMin
<1>4. ASSUME NEW y \in T PROVE x <= y
  <2>1. x \in Nat /\ y \in Nat /\ <<y, x>> \notin R
    BY <1>3
  <2>2. ~(y < x)
    BY <1>2, <2>1
  <2> QED BY <2>1, <2>2
<1> QED BY <1>4

\* A sequence of sequences over S flattens to one.  (No induction theorem can
\* be used on a recursive function here: the least counterexample will do, for
\* the function's existence as for what it yields.)
LEMMA FlattenSeqType ==
    ASSUME NEW S, NEW seqs \in Seq(Seq(S))
    PROVE  FlattenSeq(seqs) \in Seq(S)
<1> DEFINE n == Len(seqs)
<1>1. n \in Nat /\ \A i \in 1..n : seqs[i] \in Seq(S)
  BY LenProperties, ElementOfSeq
<1>2. CASE n = 0
  <2>1. seqs = <<>> /\ FlattenSeq(seqs) = seqs
    BY <1>2, EmptySeq DEF FlattenSeq
  <2> QED BY <2>1, EmptySeq
<1>3. CASE n # 0
  <2> DEFINE Flat(f, m) == f = [i \in 1..m |-> IF i = 1 THEN seqs[i] ELSE f[i - 1] \o seqs[i]]
             T == {m \in 1..n : ~\E f : Flat(f, m)}
  <2>1. T = {}
    <3> SUFFICES ASSUME T # {} PROVE FALSE
      OBVIOUS
    <3>1. PICK m \in T : \A y \in T : m <= y
      <4> HIDE DEF Flat
      <4>1. T \in SUBSET Nat
        BY <1>1
      <4> HIDE DEF T
      <4> QED BY <4>1, LeastNumber
    <3>2. m \in 1..n /\ ~\E f : Flat(f, m)
      OBVIOUS
    <3>3. CASE m = 1
      <4> DEFINE f == [i \in 1..m |-> seqs[1]]
      <4>1. Flat(f, m)
        BY <3>3
      <4> QED BY <3>2, <4>1
    <3>4. CASE m # 1
      <4>1. m - 1 \in 1..n /\ m - 1 \notin T
        <5>1. m - 1 \in 1..n /\ ~(m <= m - 1)
          BY <1>1, <3>2, <3>4
        <5> HIDE DEF T
        <5> QED BY <3>1, <5>1
      <4>2. PICK g : Flat(g, m - 1)
        BY <4>1
      <4> DEFINE f == [i \in 1..m |-> IF i = m THEN g[m - 1] \o seqs[m] ELSE g[i]]
      <4>3. ASSUME NEW i \in 1..m
            PROVE  f[i] = IF i = 1 THEN seqs[i] ELSE f[i - 1] \o seqs[i]
        <5>1. CASE i = m
          <6>1. i # 1 /\ i - 1 \in 1..m /\ i - 1 # m /\ i - 1 = m - 1
            <7> HIDE DEF T, f, Flat
            <7> QED BY <1>1, <3>2, <3>4, <5>1
          <6>2. f[i - 1] = g[i - 1] /\ f[i] = g[m - 1] \o seqs[m]
            BY <5>1, <6>1
          <6> HIDE DEF f
          <6> QED BY <5>1, <6>1, <6>2
        <5>2. CASE i # m
          <6>1. i \in 1 .. m - 1 /\ f[i] = g[i]
            BY <1>1, <3>2, <5>2
          <6>2. g[i] = IF i = 1 THEN seqs[i] ELSE g[i - 1] \o seqs[i]
            BY <4>2, <6>1
          <6>3. i # 1 => i - 1 \in 1..m /\ i - 1 # m /\ f[i - 1] = g[i - 1]
            BY <1>1, <3>2, <6>1
          <6> QED BY <6>1, <6>2, <6>3
        <5> QED BY <5>1, <5>2
      <4>4. f = [i \in 1..m |-> f[i]]
        OBVIOUS
      <4> HIDE DEF f
      <4>5. Flat(f, m)
        BY <4>3, <4>4
      <4> QED BY <3>2, <4>5
    <3> QED BY <3>3, <3>4
  <2>2. \E f : Flat(f, n)
    <3>1. n \in 1..n
      BY <1>1, <1>3
    <3> QED BY <2>1, <3>1
  <2> DEFINE flatten == CHOOSE f : Flat(f, n)
  <2>3. Flat(flatten, n)
    <3> HIDE DEF Flat
    <3> QED BY <2>2
  <2>4. FlattenSeq(seqs) = flatten[n]
    BY <1>3 DEF FlattenSeq
  <2> HIDE DEF flatten
  <2> DEFINE U == {i \in 1..n : flatten[i] \notin Seq(S)}
  <2>5. U = {}
    <3> SUFFICES ASSUME U # {} PROVE FALSE
      OBVIOUS
    <3>1. PICK i \in U : \A y \in U : i <= y
      <4>1. U \in SUBSET Nat
        BY <1>1
      <4> HIDE DEF U
      <4> QED BY <4>1, LeastNumber
    <3>2. i \in 1..n /\ flatten[i] \notin Seq(S)
      OBVIOUS
    <3>3. flatten[i] = IF i = 1 THEN seqs[i] ELSE flatten[i - 1] \o seqs[i]
      BY <2>3, <3>2
    <3>4. i # 1
      BY <1>1, <3>2, <3>3
    <3>5. i - 1 \in 1..n /\ i - 1 \notin U
      BY <1>1, <3>1, <3>2, <3>4
    <3>6. flatten[i - 1] \in Seq(S)
      BY <3>5
    <3> QED BY <1>1, <3>2, <3>3, <3>4, <3>6, ConcatProperties
  <2>6. n \in 1..n
    BY <1>1, <1>3
  <2> QED BY <2>4, <2>5, <2>6
<1> QED BY <1>2, <1>3

\* combine builds complex predicates of members of the list only.
LEMMA ConsideredType ==
    ASSUME NEW P, NEW list \in Seq(P)
    PROVE  Considered(list) \in Seq({"C", "D"} \X P \X P)
<1> DEFINE C == {"C", "D"} \X P \X P
           row(i) == [j \in 1..(i - 1) |->
                         << <<"C", list[i], list[j]>>, <<"D", list[i], list[j]>> >>]
           earlier(i) == FlattenSeq(row(i))
           n == Len(list)
<1>1. n \in Nat /\ \A i \in 1..n : list[i] \in P
  BY LenProperties, ElementOfSeq
<1>2. ASSUME NEW i \in 1..n PROVE earlier(i) \in Seq(C)
  <2>1. ASSUME NEW j \in 1..(i - 1)
        PROVE  << <<"C", list[i], list[j]>>, <<"D", list[i], list[j]>> >> \in Seq(C)
    <3>1. list[i] \in P /\ list[j] \in P
      BY <1>1
    <3>2. <<"C", list[i], list[j]>> \in C /\ <<"D", list[i], list[j]>> \in C
      BY <3>1
    <3> HIDE DEF C
    <3> QED BY <3>2
  <2>2. i - 1 \in Nat
    BY <1>1
  <2> HIDE DEF C
  <2>3. row(i) \in Seq(Seq(C))
    BY <2>1, <2>2
  <2> HIDE DEF row
  <2> QED BY <2>3, FlattenSeqType
<1> HIDE DEF C, earlier
<1>3. [i \in 1..n |-> earlier(i)] \in Seq(Seq(C))
  BY <1>1, <1>2
<1>4. FlattenSeq([i \in 1..n |-> earlier(i)]) \in Seq(C)
  BY <1>3, FlattenSeqType
<1> QED BY <1>4 DEF Considered, C, earlier

\* combine keeps at most one complex predicate, and it is one of those that it
\* considered.
Pairs == {"C", "D"} \X (DOMAIN candidates) \X (DOMAIN candidates)

Keeps(s) ==
    /\ DOMAIN s = {"result", "minMax", "estimated"}
    /\ s.result = << >> \/ \E c \in Pairs : s.result = <<Complex(c)>>

LEMMA ConsiderKeeps ==
    ASSUME NEW s, Keeps(s), NEW c \in Pairs, NEW t \in Consider(s, c)
    PROVE  Keeps(t)
<1> DEFINE full     == s.result # << >>
           seen     == [s EXCEPT !.estimated = IF full THEN @ \cup {c[1]} ELSE @]
           keep(x)  == [seen EXCEPT !.result = <<x>>, !.minMax = IF full THEN x.score ELSE @]
<1>1. Keeps(seen) /\ seen.result = s.result
  BY DEF Keeps
<1>2. ASSUME NEW x PROVE DOMAIN keep(x) = DOMAIN s /\ keep(x).result = <<x>>
  BY DEF Keeps
<1>3. Keeps(keep(Complex(c)))
  BY <1>2 DEF Keeps
<1>4. full => Keeps(keep(s.result[1]))
  <2> SUFFICES ASSUME full PROVE Keeps(keep(s.result[1]))
    OBVIOUS
  <2>1. PICK d \in Pairs : s.result = <<Complex(d)>>
    BY DEF Keeps
  <2>2. s.result[1] = Complex(d)
    BY <2>1
  <2>3. Keeps(keep(Complex(d)))
    BY <1>2 DEF Keeps
  <2> HIDE DEF keep
  <2> QED BY <2>2, <2>3
<1> HIDE DEF keep, seen
<1>5. t = seen \/ t = keep(Complex(c)) \/ (full /\ t = keep(s.result[1]))
  BY DEF Consider, keep, seen
<1> QED BY <1>1, <1>3, <1>4, <1>5

\* The search goes through the pairs in order: what it may have kept after i of
\* them comes from what it may have kept before.
LEMMA CombineFolds ==
    ASSUME NEW list \in Seq(DOMAIN candidates), mode.complex
    PROVE  LET pairs == Considered(list)
               n     == Len(pairs)
               first == [result |-> << >>, minMax |-> Effective(list[1]), estimated |-> {}]
           IN  /\ n \in Nat /\ \A i \in 1..n : pairs[i] \in Pairs
               /\ \E after :
                     /\ Combine(list) = after[n]
                     /\ \A i \in 0..n :
                           after[i] = IF i = 0 THEN {first}
                                      ELSE UNION {Consider(s, pairs[i]) : s \in after[i - 1]}
<1> DEFINE pairs == Considered(list)
           n == Len(pairs)
           first == [result |-> << >>, minMax |-> Effective(list[1]), estimated |-> {}]
<1>1. n \in Nat /\ \A i \in 1..n : pairs[i] \in Pairs
  <2>1. pairs \in Seq(Pairs)
    BY ConsideredType DEF Pairs
  <2> HIDE DEF pairs
  <2> QED BY <2>1, LenProperties, ElementOfSeq
<1> HIDE DEF pairs
<1> DEFINE After(f, m) ==
               f = [i \in 0..m |-> IF i = 0 THEN {first}
                                   ELSE UNION {Consider(s, pairs[i]) : s \in f[i - 1]}]
           T == {m \in 0..n : ~\E f : After(f, m)}
<1>2. T = {}
  <2> SUFFICES ASSUME T # {} PROVE FALSE
    OBVIOUS
  <2>1. PICK m \in T : \A y \in T : m <= y
    <3> HIDE DEF After
    <3>1. T \in SUBSET Nat
      BY <1>1
    <3> HIDE DEF T
    <3> QED BY <3>1, LeastNumber
  <2>2. m \in 0..n /\ ~\E f : After(f, m)
    OBVIOUS
  <2>3. CASE m = 0
    <3> DEFINE f == [i \in 0..m |-> {first}]
    <3>1. After(f, m)
      BY <2>3
    <3> QED BY <2>2, <3>1
  <2>4. CASE m # 0
    <3>1. m - 1 \in 0..n /\ m - 1 \notin T
      <4>1. m - 1 \in 0..n /\ ~(m <= m - 1)
        BY <1>1, <2>2, <2>4
      <4> HIDE DEF T
      <4> QED BY <2>1, <4>1
    <3>2. PICK g : After(g, m - 1)
      BY <3>1
    <3> DEFINE last == UNION {Consider(s, pairs[m]) : s \in g[m - 1]}
               f == [i \in 0..m |-> IF i = m THEN last ELSE g[i]]
    <3>3. ASSUME NEW i \in 0..m
          PROVE  f[i] = IF i = 0 THEN {first}
                        ELSE UNION {Consider(s, pairs[i]) : s \in f[i - 1]}
      <4>1. CASE i = m
        <5>1. i # 0 /\ i - 1 \in 0..m /\ i - 1 # m /\ i - 1 = m - 1
          <6> HIDE DEF T, f, After
          <6> QED BY <1>1, <2>2, <2>4, <4>1
        <5>2. f[i - 1] = g[i - 1] /\ f[i] = last
          <6> HIDE DEF last
          <6> QED BY <4>1, <5>1
        <5> HIDE DEF f
        <5> QED BY <4>1, <5>1, <5>2
      <4>2. CASE i # m
        <5>1. i \in 0 .. m - 1 /\ f[i] = g[i]
          <6>1. i \in 0 .. m - 1
            <7> HIDE DEF T, f, After
            <7> QED BY <1>1, <2>2, <4>2
          <6> HIDE DEF last
          <6> QED BY <4>2, <6>1
        <5>2. g[i] = IF i = 0 THEN {first}
                     ELSE UNION {Consider(s, pairs[i]) : s \in g[i - 1]}
          BY <3>2, <5>1
        <5>3. i # 0 => f[i - 1] = g[i - 1]
          <6>1. i # 0 => i - 1 \in 0..m /\ i - 1 # m
            <7> HIDE DEF T, f, After
            <7> QED BY <1>1, <2>2, <5>1
          <6> HIDE DEF last
          <6> QED BY <6>1
        <5> HIDE DEF f
        <5> QED BY <5>1, <5>2, <5>3
      <4> QED BY <4>1, <4>2
    <3>4. f = [i \in 0..m |-> f[i]]
      OBVIOUS
    <3> HIDE DEF f
    <3>5. After(f, m)
      BY <3>3, <3>4
    <3> QED BY <2>2, <3>5
  <2> QED BY <2>3, <2>4
<1>3. \E f : After(f, n)
  <2>1. n \in 0..n
    BY <1>1
  <2> QED BY <1>2, <2>1
<1> DEFINE after == CHOOSE f : After(f, n)
<1>4. After(after, n)
  <2> HIDE DEF After
  <2> QED BY <1>3
<1>5. Combine(list) = after[n]
  BY DEF Combine, pairs
<1> HIDE DEF after
<1>6. \A i \in 0..n : after[i] = IF i = 0 THEN {first}
                                ELSE UNION {Consider(s, pairs[i]) : s \in after[i - 1]}
  BY <1>4
<1> HIDE DEF first, n
<1> QED BY <1>1, <1>5, <1>6 DEF pairs, first, n

LEMMA CombineKeeps ==
    ASSUME NEW list \in Seq(DOMAIN candidates), NEW found \in Combine(list)
    PROVE  Keeps(found)
<1>1. CASE ~mode.complex
  BY <1>1 DEF Combine, Keeps
<1>2. CASE mode.complex
  <2> DEFINE pairs == Considered(list)
             n == Len(pairs)
             first == [result |-> << >>, minMax |-> Effective(list[1]), estimated |-> {}]
  <2>1. n \in Nat /\ \A i \in 1..n : pairs[i] \in Pairs
    BY <1>2, CombineFolds
  <2>2. PICK after :
          /\ Combine(list) = after[n]
          /\ \A i \in 0..n :
                after[i] = IF i = 0 THEN {first}
                           ELSE UNION {Consider(s, pairs[i]) : s \in after[i - 1]}
    BY <1>2, CombineFolds
  <2> HIDE DEF pairs
  <2> DEFINE U == {i \in 0..n : ~\A s \in after[i] : Keeps(s)}
  <2>3. U = {}
    <3> SUFFICES ASSUME U # {} PROVE FALSE
      OBVIOUS
    <3>1. PICK i \in U : \A y \in U : i <= y
      <4>1. U \in SUBSET Nat
        BY <2>1
      <4> HIDE DEF U
      <4> QED BY <4>1, LeastNumber
    <3>2. i \in 0..n
      OBVIOUS
    <3>3. PICK t \in after[i] : ~Keeps(t)
      OBVIOUS
    <3>4. after[i] = IF i = 0 THEN {first}
                     ELSE UNION {Consider(s, pairs[i]) : s \in after[i - 1]}
      BY <2>2, <3>2
    <3>5. CASE i = 0
      <4>1. t = first
        BY <3>3, <3>4, <3>5
      <4> QED BY <3>3, <4>1 DEF Keeps
    <3>6. CASE i # 0
      <4>1. i - 1 \in 0..n /\ ~(i <= i - 1) /\ i \in 1..n
        BY <2>1, <3>2, <3>6
      <4>2. i - 1 \notin U
        <5> HIDE DEF U
        <5> QED BY <3>1, <4>1
      <4>3. PICK s \in after[i - 1] : t \in Consider(s, pairs[i])
        BY <3>3, <3>4, <3>6
      <4>4. Keeps(s)
        BY <4>1, <4>2
      <4> QED BY <2>1, <3>3, <4>1, <4>3, <4>4, ConsiderKeeps
    <3> QED BY <3>5, <3>6
  <2>4. n \in 0..n
    BY <2>1
  <2> QED BY <2>2, <2>3, <2>4
<1> QED BY <1>1, <1>2

-----------------------------------------------------------------------------
(* Dilution *)

LEMMA LeftIsDiluted ==
    ASSUME NEW given \in SUBSET Run, NEW gone, NEW runs, NEW suite,
           Left(suite, given, gone)
    PROVE  Left(Dilute(suite, runs), given, gone \cup runs)
<1>1. CASE Exact
  <2>1. suite = SuiteOf(given \ gone) /\ given \ gone \in SUBSET Run
    BY <1>1 DEF Left
  <2>2. Dilute(suite, runs) = SuiteOf((given \ gone) \ runs)
    BY <1>1, <2>1, EraseIsExact DEF Dilute, Exact
  <2>3. (given \ gone) \ runs = given \ (gone \cup runs)
        /\ (given \ gone) \ runs \in SUBSET Run
    OBVIOUS
  <2> QED BY <1>1, <2>2, <2>3, SuiteOfType DEF Left
<1>2. CASE ~Exact
  <2>1. Dilute(suite, runs) = Discount(suite, runs)
    BY <1>2 DEF Dilute, Exact
  <2>2. /\ suite \in Suite /\ suite.runs = given
        /\ suite.failures <= Cardinality((suite.runs \ gone) \cap Failing)
        /\ suite.successes <= Cardinality((suite.runs \ gone) \cap Passing)
    BY <1>2 DEF Left
  <2> DEFINE new == Discount(suite, runs)
  <2>3. /\ new \in Suite /\ new.runs = given
        /\ new.failures <= Cardinality((given \ (gone \cup runs)) \cap Failing)
        /\ new.successes <= Cardinality((given \ (gone \cup runs)) \cap Passing)
    BY <2>2, DiscountIsBelow
  <2> HIDE DEF new
  <2> QED BY <1>2, <2>1, <2>3 DEF Left, new
<1> QED BY <1>1, <1>2

LEMMA LeftIsInRange ==
    ASSUME NEW given \in SUBSET Run, NEW gone, NEW suite, Left(suite, given, gone)
    PROVE  /\ suite.failures \in 0..Cardinality(Failing)
           /\ suite.successes \in 0..Cardinality(Passing)
           /\ suite.failures <= Cardinality((given \ gone) \cap Failing)
           /\ suite.successes <= Cardinality((given \ gone) \cap Passing)
           /\ suite.runs \subseteq given
           /\ Exact => suite = SuiteOf(suite.runs) /\ suite.runs = given \ gone
<1>1. /\ Cardinality((given \ gone) \cap Failing) \in 0..Cardinality(Failing)
      /\ Cardinality((given \ gone) \cap Passing) \in 0..Cardinality(Passing)
      /\ Cardinality(Failing) \in Nat /\ Cardinality(Passing) \in Nat
  BY RunsAreFinite
<1>2. suite.failures \in Nat /\ suite.successes \in Nat
  BY DEF Left, Suite
<1>3. /\ suite.failures <= Cardinality((given \ gone) \cap Failing)
      /\ suite.successes <= Cardinality((given \ gone) \cap Passing)
  BY <1>1 DEF Left, SuiteOf
<1>4. Exact => suite = SuiteOf(suite.runs) /\ suite.runs = given \ gone
  BY DEF Left, SuiteOf
<1>5. suite.runs \subseteq given
  BY <1>4 DEF Left
<1> QED BY <1>1, <1>2, <1>3, <1>4, <1>5

\* One more winner explains its runs too.
LEMMA ExplainedGrows ==
    ASSUME winners \in Seq(Winner), NEW w \in Winner, winners' = Append(winners, w)
    PROVE  /\ Explained' = Explained \cup w.tru.runs
           /\ winners' \in Seq(Winner)
           /\ Last(winners') = w
<1>1. /\ winners' \in Seq(Winner) /\ Len(winners') = Len(winners) + 1
      /\ \A i \in 1..Len(winners) : winners'[i] = winners[i]
      /\ winners'[Len(winners) + 1] = w /\ Len(winners) \in Nat
  BY AppendProperties, LenProperties
<1>2. DOMAIN winners = 1..Len(winners) /\ DOMAIN winners' = 1 .. Len(winners) + 1
  BY <1>1, LenProperties
<1>3. ASSUME NEW r PROVE r \in Explained' <=> r \in Explained \/ r \in w.tru.runs
  <2>1. r \in Explained' <=> \E i \in 1 .. Len(winners) + 1 : r \in winners'[i].tru.runs
    BY <1>2 DEF Explained
  <2>2. r \in Explained <=> \E i \in 1..Len(winners) : r \in winners[i].tru.runs
    BY <1>2 DEF Explained
  <2> QED BY <1>1, <2>1, <2>2
<1> QED BY <1>1, <1>3 DEF Last

-----------------------------------------------------------------------------
(* What wins *)

LEMMA ListType ==
    ASSUME LoadedInv, CandidatesInv, NEW list \in Sorted, list # << >>
    PROVE  /\ list \in Seq(DOMAIN candidates)
           /\ list[1] \in DOMAIN candidates
<1>1. IsFiniteSet(DOMAIN candidates)
  BY PredicateAssumption, FS_Subset DEF LoadedInv, CandidatesInv
<1>2. Cardinality(DOMAIN candidates) \in Nat
  BY <1>1, FS_CardinalityType
<1>3. list \in [1..Cardinality(DOMAIN candidates) -> DOMAIN candidates]
  BY DEF Sorted, SetToSeqs
<1>4. list \in Seq(DOMAIN candidates)
  BY <1>2, <1>3
<1>5. 1 \in 1..Len(list)
  BY <1>4, EmptySeq
<1> QED BY <1>4, <1>5, ElementOfSeq

LEMMA ComplexIsWinner ==
    ASSUME CandidatesInv, NEW c \in Pairs
    PROVE  LET best == Complex(c)
           IN  [preds |-> best.preds, kind |-> best.kind, tru |-> best.tru] \in Winner
<1>1. /\ c[1] \in {"C", "D"} /\ c[2] \in DOMAIN candidates /\ c[3] \in DOMAIN candidates
      /\ {c[2], c[3]} \subseteq DOMAIN loaded
  BY DEF Pairs, CandidatesInv
<1>2. candidates[c[2]] \in [tru : Suite, obs : Suite]
      /\ candidates[c[3]] \in [tru : Suite, obs : Suite]
  BY <1>1 DEF CandidatesInv
<1>3. Build(c[1], candidates[c[2]], candidates[c[3]]).tru \in Suite
  <2>1. \A p, q \in [tru : Suite, obs : Suite] :
           /\ p.tru.runs \cap q.tru.runs \in SUBSET Run
           /\ (p.tru.runs \cap p.obs.runs) \cup (q.tru.runs \cap q.obs.runs) \in SUBSET Run
    BY DEF Suite
  <2>2. \A p, q \in [tru : Suite, obs : Suite] :
           Conjunction(p, q).tru \in Suite /\ Disjunction(p, q).tru \in Suite
    BY <2>1, SuiteOfType DEF Conjunction, Disjunction
  <2> QED BY <1>2, <2>2 DEF Build
<1> QED BY <1>1, <1>3 DEF Complex, Winner

\* What either way to win has in common.
Wins(winner, remaining) ==
    /\ phase = "ranking"
    /\ winner \in Winner /\ remaining \in SUBSET DOMAIN candidates
    /\ Explain(winner, remaining)
    /\ \E found : Combined(found)
    /\ UNCHANGED <<mode, loaded, zoomed>>

LEMMA SimpleWinsWins ==
    ASSUME LoadedInv, CandidatesInv, SimpleWins
    PROVE  \E winner, remaining : Wins(winner, remaining)
<1>1. PICK list \in Sorted : list # << >> /\ \E found \in Combine(list) :
         /\ Explain([preds |-> {list[1]}, kind |-> "S", tru |-> candidates[list[1]].tru],
                    Others(list[1]))
         /\ Combined(found)
  BY DEF SimpleWins
<1> DEFINE winner == [preds |-> {list[1]}, kind |-> "S", tru |-> candidates[list[1]].tru]
<1>2. list[1] \in DOMAIN candidates
  BY <1>1, ListType
<1>3. winner \in Winner
  BY <1>2 DEF Winner, CandidatesInv
<1> HIDE DEF winner
<1>4. Wins(winner, Others(list[1]))
  BY <1>1, <1>3 DEF SimpleWins, Wins, Others, winner
<1> QED BY <1>4

LEMMA ComplexWinsWins ==
    ASSUME LoadedInv, CandidatesInv, ComplexWins
    PROVE  \E winner, remaining : Wins(winner, remaining)
<1>0. PICK list \in Sorted : list # << >> /\ \E found \in Combine(list) :
         /\ found.result # << >>
         /\ Explain([preds |-> found.result[1].preds, kind |-> found.result[1].kind,
                     tru |-> found.result[1].tru], DOMAIN candidates)
         /\ Combined(found)
  BY DEF ComplexWins
<1>1. PICK found \in Combine(list) :
         /\ found.result # << >>
         /\ Explain([preds |-> found.result[1].preds, kind |-> found.result[1].kind,
                     tru |-> found.result[1].tru], DOMAIN candidates)
         /\ Combined(found)
  BY <1>0
<1>2. PICK c \in Pairs : found.result = <<Complex(c)>>
  BY <1>0, <1>1, ListType, CombineKeeps DEF Keeps
<1>3. found.result[1] = Complex(c)
  BY <1>2
<1> DEFINE winner == [preds |-> Complex(c).preds, kind |-> Complex(c).kind,
                      tru |-> Complex(c).tru]
<1>4. winner \in Winner
  BY ComplexIsWinner
<1>5. Explain(winner, DOMAIN candidates)
  BY <1>1, <1>3
<1> HIDE DEF winner
<1>6. Wins(winner, DOMAIN candidates)
  BY <1>1, <1>4, <1>5 DEF ComplexWins, Wins
<1> QED BY <1>6

-----------------------------------------------------------------------------
(* The invariant *)

\* Nothing is missing of a suite that was just loaded.
LEMMA LeftAtFirst ==
    ASSUME NEW runs \in SUBSET Run
    PROVE  Left(SuiteOf(runs), runs, {})
<1>1. runs \ {} = runs
  OBVIOUS
<1>2. /\ SuiteOf(runs).failures = Cardinality(runs \cap Failing)
      /\ SuiteOf(runs).successes = Cardinality(runs \cap Passing)
      /\ SuiteOf(runs).runs = runs
  BY DEF SuiteOf
<1>3. Cardinality(runs \cap Failing) \in Nat /\ Cardinality(runs \cap Passing) \in Nat
  BY RunsAreFinite
<1> QED BY <1>1, <1>2, <1>3, SuiteOfType DEF Left

\* The counts of a predicate with such suites are evidence.
LEMMA LeftIsEvidence ==
    ASSUME NEW data, NEW tru \in SUBSET Run, NEW obs \in SUBSET Run, NEW gone,
           Left(data.tru, tru, gone), Left(data.obs, obs, gone)
    PROVE  Counts(data) \in Evidence
BY LeftIsInRange DEF Counts, Evidence

LEMMA AllFailures ==
    /\ SuiteOf(Failing) \in Suite /\ SuiteOf(Failing).runs = Failing
    /\ SuiteOf(Failing).failures = Cardinality(Failing) /\ SuiteOf(Failing).successes = 0
<1>1. Failing \cap Failing = Failing /\ Failing \cap Passing = {} /\ Failing \in SUBSET Run
  BY RunAssumption DEF Run
<1> QED BY <1>1, SuiteOfType, FS_EmptySet DEF SuiteOf

LEMMA InitIInv == Init => IInv
<1> SUFFICES ASSUME Init PROVE IInv
  OBVIOUS
<1>1. PICK preds \in SUBSET Predicate : \E data \in [preds -> Data] : Start(data)
  BY DEF Init
<1>2. PICK data \in [preds -> Data] : Start(data)
  BY <1>1
<1>3. /\ phase = "ranking" /\ loaded = data /\ candidates = data
      /\ allFailures = SuiteOf(Failing)
      /\ succ = [k \in {"C", "D"} |-> Unset] /\ winners = << >> /\ zoomed = {}
      /\ DOMAIN data = preds
  BY <1>2 DEF Start
<1>4. ASSUME NEW p \in preds
      PROVE  /\ data[p] \in [tru : Suite, obs : Suite]
             /\ data[p].tru = SuiteOf(data[p].tru.runs)
             /\ data[p].obs = SuiteOf(data[p].obs.runs)
             /\ data[p].tru.runs \subseteq data[p].obs.runs
             /\ data[p].obs.runs \subseteq Run \ HeldOut
             /\ data[p].tru.runs \in SUBSET Run /\ data[p].obs.runs \in SUBSET Run
             /\ LowerBound(Counts(data[p])) > 0
  <2>1. data[p] \in Data
    BY <1>2
  <2>2. PICK t \in SUBSET (Run \ HeldOut), o \in SUBSET (Run \ HeldOut) :
           data[p] = [tru |-> SuiteOf(t), obs |-> SuiteOf(o)]
    BY <2>1 DEF Data
  <2>3. /\ data[p].tru = SuiteOf(t) /\ data[p].obs = SuiteOf(o)
        /\ SuiteOf(t).runs = t /\ SuiteOf(o).runs = o
        /\ data[p].tru.runs \subseteq data[p].obs.runs /\ LowerBound(Counts(data[p])) > 0
    BY <2>1, <2>2 DEF Data, SuiteOf
  <2>4. SuiteOf(t) \in Suite /\ SuiteOf(o) \in Suite
    BY SuiteOfType
  <2>5. data[p] \in [tru : Suite, obs : Suite]
    <3> HIDE DEF Suite
    <3> QED BY <2>2, <2>4
  <2> QED BY <2>3, <2>5
<1>5. ASSUME NEW p \in preds
      PROVE  /\ Left(data[p].tru, data[p].tru.runs, {})
             /\ Left(data[p].obs, data[p].obs.runs, {})
             /\ Counts(data[p]) \in Evidence
  <2>1. Left(data[p].tru, data[p].tru.runs, {}) /\ Left(data[p].obs, data[p].obs.runs, {})
    BY <1>4, LeftAtFirst
  <2> QED BY <1>4, <2>1, LeftIsEvidence
<1>6. LoadedInv
  BY <1>3, <1>4 DEF LoadedInv
<1>7. CandidatesInv
  BY <1>3, <1>4, <1>5 DEF CandidatesInv
<1>8. FailuresInv
  BY <1>3, AllFailures, RunsAreFinite DEF FailuresInv
<1>9. MiscInv
  BY <1>3 DEF MiscInv, Init
<1>10. RankingInv
  <2>1. Explained = {}
    BY <1>3 DEF Explained
  <2>2. Left(allFailures, Failing, {})
    BY <1>3, LeftAtFirst DEF Run
  <2> QED BY <1>3, <1>5, <2>1, <2>2 DEF RankingInv
<1>11. SuccessesInv /\ ExplainsAll
  BY <1>3 DEF SuccessesInv, ExplainsAll
<1> QED BY <1>6, <1>7, <1>8, <1>9, <1>10, <1>11 DEF IInv

\* What is left of the failures, and of a candidate, when a winner is explained.
LEMMA DilutedByWinner ==
    ASSUME IInv, phase = "ranking", NEW winner \in Winner
    PROVE  /\ LET left == Dilute(allFailures, winner.tru.runs \cap Failing)
              IN  /\ Left(left, Failing, Explained \cup winner.tru.runs)
                  /\ left.runs \subseteq Failing /\ left.failures \in 0..Cardinality(Failing)
                  /\ left.successes = 0
                  /\ Exact => /\ left = SuiteOf(left.runs)
                              /\ left.runs = Failing \ (Explained \cup winner.tru.runs)
           /\ \A p \in DOMAIN candidates :
                 LET new == DilutePredicate(candidates[p], winner.tru.runs)
                 IN  /\ Left(new.tru, loaded[p].tru.runs, Explained \cup winner.tru.runs)
                     /\ Left(new.obs, loaded[p].obs.runs, Explained \cup winner.tru.runs)
                     /\ new \in [tru : Suite, obs : Suite]
                     /\ Counts(new) \in Evidence
                     /\ Exact => /\ new.tru = SuiteOf(new.tru.runs)
                                 /\ new.obs = SuiteOf(new.obs.runs)
                                 /\ new.tru.runs \subseteq new.obs.runs
<1> DEFINE w == winner.tru.runs
           gone == Explained \cup w
           left == Dilute(allFailures, w \cap Failing)
<1>1. Failing \in SUBSET Run /\ Failing \cap Passing = {}
  BY RunAssumption DEF Run
<1>2. Left(left, Failing, gone)
  <2>1. Left(left, Failing, Explained \cup (w \cap Failing))
    BY <1>1, LeftIsDiluted DEF IInv, RankingInv
  <2>2. Failing \ (Explained \cup (w \cap Failing)) = Failing \ gone
    OBVIOUS
  <2> HIDE DEF left
  <2> QED BY <2>1, <2>2 DEF Left
<1>3. left.successes = 0
  <2>1. left.successes <= Cardinality((Failing \ gone) \cap Passing)
        /\ left.successes \in 0..Cardinality(Passing)
    <3> HIDE DEF gone, left
    <3> QED BY <1>1, <1>2, LeftIsInRange
  <2>2. (Failing \ gone) \cap Passing = {}
    BY <1>1
  <2> HIDE DEF gone, left
  <2> QED BY <2>1, <2>2, FS_EmptySet, RunsAreFinite
<1>4. /\ left.runs \subseteq Failing /\ left.failures \in 0..Cardinality(Failing)
      /\ Exact => left = SuiteOf(left.runs) /\ left.runs = Failing \ gone
  <2> HIDE DEF gone, left
  <2> QED BY <1>1, <1>2, LeftIsInRange
<1>5. ASSUME NEW p \in DOMAIN candidates
      PROVE  LET new == DilutePredicate(candidates[p], w)
             IN  /\ Left(new.tru, loaded[p].tru.runs, gone)
                 /\ Left(new.obs, loaded[p].obs.runs, gone)
                 /\ new \in [tru : Suite, obs : Suite]
                 /\ Counts(new) \in Evidence
                 /\ Exact => /\ new.tru = SuiteOf(new.tru.runs)
                             /\ new.obs = SuiteOf(new.obs.runs)
                             /\ new.tru.runs \subseteq new.obs.runs
  <2> DEFINE new == DilutePredicate(candidates[p], w)
             T == loaded[p].tru.runs
             O == loaded[p].obs.runs
  <2>1. T \in SUBSET Run /\ O \in SUBSET Run /\ T \subseteq O
    BY DEF IInv, LoadedInv, CandidatesInv
  <2>2. Left(candidates[p].tru, T, Explained) /\ Left(candidates[p].obs, O, Explained)
    BY DEF IInv, RankingInv
  <2>3. /\ new.tru = Dilute(candidates[p].tru, w) /\ new.obs = Dilute(candidates[p].obs, w)
        /\ new = [tru |-> new.tru, obs |-> new.obs]
    BY DEF DilutePredicate
  <2> HIDE DEF new, T, O
  <2>4. Left(new.tru, T, gone) /\ Left(new.obs, O, gone)
    BY <2>1, <2>2, <2>3, LeftIsDiluted
  <2> HIDE DEF gone
  <2>5. Counts(new) \in Evidence
    BY <2>1, <2>4, LeftIsEvidence
  <2>6. new \in [tru : Suite, obs : Suite]
    BY <2>3, <2>4 DEF Left
  <2>7. Exact => /\ new.tru = SuiteOf(new.tru.runs) /\ new.tru.runs = T \ gone
                 /\ new.obs = SuiteOf(new.obs.runs) /\ new.obs.runs = O \ gone
    BY <2>1, <2>4, LeftIsInRange
  <2> QED BY <2>1, <2>4, <2>5, <2>6, <2>7 DEF new, T, O
<1> QED BY <1>2, <1>3, <1>4, <1>5

\* NumRuns::count() less the failures left is at least the passing runs loaded.
LEMMA EnoughSuccesses ==
    ASSUME IInv, HeldOut \cap Failing = {}
    PROVE  SuccessesNow \in Int /\ SuccessesNow >= Cardinality(Passing \ HeldOut)
<1>1. /\ Run \ HeldOut = Failing \cup (Passing \ HeldOut)
      /\ Failing \cap (Passing \ HeldOut) = {}
  BY RunAssumption DEF Run
<1>2. /\ IsFiniteSet(Failing) /\ IsFiniteSet(Passing \ HeldOut)
      /\ Cardinality(Failing) \in Nat /\ Cardinality(Passing \ HeldOut) \in Nat
  BY RunAssumption, FS_Difference, FS_CardinalityType
<1>3. Cardinality(Run \ HeldOut) = Cardinality(Failing) + Cardinality(Passing \ HeldOut)
  BY <1>1, <1>2, FS_Union, FS_EmptySet
<1>4. allFailures.failures \in 0..Cardinality(Failing)
  BY DEF IInv, FailuresInv
<1> QED BY <1>2, <1>3, <1>4 DEF SuccessesNow

\* The static counts are computed from failures that are still unexplained.
LEMMA SuccessesStep ==
    ASSUME IInv, NEW found, Combined(found)
    PROVE  SuccessesInv'
<1> SUFFICES ASSUME HeldOut \cap Failing = {}, NEW k \in {"C", "D"}
             PROVE  \/ succ'[k] = Unset
                    \/ succ'[k] \in Int /\ succ'[k] >= Cardinality(Passing \ HeldOut)
  BY DEF SuccessesInv
<1>1. /\ SuccessesNow \in Int /\ SuccessesNow >= Cardinality(Passing \ HeldOut)
  BY EnoughSuccesses
<1>2. \/ Successes(k) = Unset
      \/ Successes(k) \in Int /\ Successes(k) >= Cardinality(Passing \ HeldOut)
  BY <1>1 DEF Successes, IInv, SuccessesInv
<1>3. succ'[k] = Successes(k) \/ succ'[k] = succ[k]
  BY DEF Combined
<1> QED BY <1>2, <1>3 DEF IInv, SuccessesInv

LEMMA WinStep ==
    ASSUME IInv, NEW winner, NEW remaining, Wins(winner, remaining)
    PROVE  IInv'
<1> DEFINE left == Dilute(allFailures, winner.tru.runs \cap Failing)
           gone == Explained \cup winner.tru.runs
<1>1. /\ phase = "ranking" /\ winner \in Winner /\ remaining \subseteq DOMAIN candidates
      /\ UNCHANGED <<mode, loaded, zoomed>>
      /\ winners' = Append(winners, winner)
      /\ IF NoneLeft(left)
         THEN EndView /\ UNCHANGED candidates
         ELSE /\ allFailures' = left
              /\ candidates' = Rescored(remaining, winner.tru.runs)
              /\ UNCHANGED phase
  BY DEF Wins, Explain
<1>2. Explained' = gone /\ winners' \in Seq(Winner)
  BY <1>1, ExplainedGrows DEF IInv, MiscInv
<1>3. /\ Left(left, Failing, gone)
      /\ left.runs \subseteq Failing /\ left.failures \in 0..Cardinality(Failing)
      /\ left.successes = 0
      /\ Exact => left = SuiteOf(left.runs) /\ left.runs = Failing \ gone
  BY <1>1, DilutedByWinner
<1>4. Exact' <=> Exact
  BY <1>1 DEF Exact
<1>5. LoadedInv'
  BY <1>1 DEF IInv, LoadedInv
<1>6. SuccessesInv'
  BY SuccessesStep DEF Wins
<1> HIDE DEF left, gone
<1>7. CASE NoneLeft(left)
  <2>1. phase' = "zooming" /\ allFailures' = SuiteOf(Failing) /\ candidates' = candidates
    BY <1>1, <1>7 DEF EndView
  <2>2. CandidatesInv'
    BY <1>1, <1>4, <2>1 DEF IInv, CandidatesInv
  <2>3. FailuresInv'
    BY <2>1, AllFailures, RunsAreFinite DEF FailuresInv
  <2>4. MiscInv' /\ RankingInv'
    BY <1>1, <1>2, <2>1 DEF IInv, MiscInv, RankingInv, Winner
  <2>5. ExplainsAll'
    <3> SUFFICES ASSUME Exact PROVE Failing \subseteq gone
      BY <1>2, <1>4 DEF ExplainsAll
    <3>1. left = SuiteOf(left.runs) /\ left.runs = Failing \ gone /\ left.failures = 0
      BY <1>3, <1>7, RunsAreFinite DEF NoneLeft
    <3>2. (Failing \ gone) \cap Failing = Failing \ gone
      OBVIOUS
    <3>3. Cardinality(Failing \ gone) = 0 /\ IsFiniteSet(Failing \ gone)
      BY <3>1, <3>2, RunsAreFinite DEF SuiteOf
    <3> QED BY <3>3, FS_EmptySet
  <2> QED BY <1>5, <1>6, <2>2, <2>3, <2>4, <2>5 DEF IInv
<1>8. CASE ~NoneLeft(left)
  <2>1. /\ allFailures' = left /\ phase' = "ranking"
        /\ candidates' = Rescored(remaining, winner.tru.runs)
    BY <1>1, <1>8
  <2> DEFINE new(p) == DilutePredicate(candidates[p], winner.tru.runs)
  <2>2. /\ DOMAIN candidates' \subseteq remaining
        /\ \A p \in DOMAIN candidates' :
              candidates'[p] = new(p) /\ LowerBound(Counts(candidates'[p])) > 0
    BY <2>1 DEF Rescored, Survivors
  <2>3. ASSUME NEW p \in DOMAIN candidates'
        PROVE  /\ Left(candidates'[p].tru, loaded[p].tru.runs, gone)
               /\ Left(candidates'[p].obs, loaded[p].obs.runs, gone)
               /\ candidates'[p] \in [tru : Suite, obs : Suite]
               /\ Counts(candidates'[p]) \in Evidence
               /\ Exact => /\ candidates'[p].tru = SuiteOf(candidates'[p].tru.runs)
                           /\ candidates'[p].obs = SuiteOf(candidates'[p].obs.runs)
                           /\ candidates'[p].tru.runs \subseteq candidates'[p].obs.runs
               /\ p \in DOMAIN loaded
    <3>1. p \in DOMAIN candidates /\ candidates'[p] = new(p)
      BY <1>1, <2>2
    <3>2. p \in DOMAIN loaded
      BY <3>1 DEF IInv, CandidatesInv
    <3> HIDE DEF new
    <3> QED BY <1>1, <3>1, <3>2, DilutedByWinner DEF new, gone
  <2> HIDE DEF new
  <2>4. CandidatesInv'
    <3>1. DOMAIN candidates' \subseteq DOMAIN loaded
      BY <2>3
    <3> QED BY <1>1, <1>4, <2>2, <2>3, <3>1 DEF CandidatesInv, Counts
  <2>5. FailuresInv'
    BY <1>3, <1>4, <2>1 DEF FailuresInv, Left
  <2>6. MiscInv' /\ ExplainsAll'
    BY <1>1, <1>2, <2>1 DEF IInv, MiscInv, ExplainsAll, Winner
  <2>7. RankingInv'
    BY <1>1, <1>2, <1>3, <1>4, <2>1, <2>3 DEF RankingInv, Left
  <2> QED BY <1>5, <1>6, <2>4, <2>5, <2>6, <2>7 DEF IInv
<1> QED BY <1>7, <1>8

LEMMA NextIInv == IInv /\ [Next]_vars => IInv'
<1> SUFFICES ASSUME IInv, [Next]_vars PROVE IInv'
  OBVIOUS
<1>1. CASE SimpleWins
  <2>1. \E winner, remaining : Wins(winner, remaining)
    BY <1>1, SimpleWinsWins DEF IInv
  <2> QED BY <2>1, WinStep
<1>2. CASE ComplexWins
  <2>1. \E winner, remaining : Wins(winner, remaining)
    BY <1>2, ComplexWinsWins DEF IInv
  <2> QED BY <2>1, WinStep
<1>3. CASE Exhausted
  <2>1. /\ phase = "ranking" /\ phase' = "zooming" /\ allFailures' = SuiteOf(Failing)
        /\ UNCHANGED <<mode, loaded, candidates, succ, winners, zoomed>>
        /\ DOMAIN candidates = {} \/ NoneLeft(allFailures)
    BY <1>3 DEF Exhausted, EndView
  <2>2. LoadedInv' /\ SuccessesInv'
    BY <2>1 DEF IInv, LoadedInv, SuccessesInv
  <2>3. CandidatesInv'
    BY <2>1 DEF IInv, CandidatesInv, Exact, Counts
  <2>4. FailuresInv'
    BY <2>1, AllFailures, RunsAreFinite DEF FailuresInv
  <2>5. MiscInv' /\ RankingInv'
    BY <2>1 DEF IInv, MiscInv, RankingInv, Winner
  <2>6. ExplainsAll'
    <3> SUFFICES ASSUME Exact, NoneLeft(allFailures) PROVE Failing \subseteq Explained
      BY <2>1 DEF ExplainsAll, Exact, Explained
    <3>1. /\ allFailures = SuiteOf(Failing \ Explained) /\ allFailures.failures = 0
      BY <2>1, RunsAreFinite DEF NoneLeft, IInv, RankingInv, Left, FailuresInv
    <3>2. (Failing \ Explained) \cap Failing = Failing \ Explained
      OBVIOUS
    <3>3. Cardinality(Failing \ Explained) = 0 /\ IsFiniteSet(Failing \ Explained)
      BY <3>1, <3>2, RunsAreFinite DEF SuiteOf
    <3> QED BY <3>3, FS_EmptySet
  <2> QED BY <2>2, <2>3, <2>4, <2>5, <2>6 DEF IInv
<1>4. CASE Zoom \/ EndZooms
  <2>1. /\ phase = "zooming" /\ phase' \in {"zooming", "done"}
        /\ UNCHANGED <<mode, loaded, candidates, allFailures, succ, winners>>
        /\ zoomed' \subseteq DOMAIN loaded
    BY <1>4 DEF Zoom, EndZooms, IInv, MiscInv, Wanted
  <2>2. LoadedInv' /\ SuccessesInv' /\ RankingInv'
    BY <2>1 DEF IInv, LoadedInv, SuccessesInv, RankingInv
  <2>3. CandidatesInv'
    BY <2>1 DEF IInv, CandidatesInv, Exact, Counts
  <2>4. FailuresInv' /\ MiscInv'
    BY <2>1 DEF IInv, FailuresInv, MiscInv, Exact, Winner
  <2>5. ExplainsAll'
    BY <2>1 DEF IInv, ExplainsAll, Exact, Explained
  <2> QED BY <2>2, <2>3, <2>4, <2>5 DEF IInv
<1>5. CASE UNCHANGED vars
  <2>1. UNCHANGED <<mode, phase, loaded, candidates, allFailures, succ, winners, zoomed>>
    BY <1>5 DEF vars
  <2>2. LoadedInv' /\ SuccessesInv'
    BY <2>1 DEF IInv, LoadedInv, SuccessesInv
  <2>3. CandidatesInv'
    BY <2>1 DEF IInv, CandidatesInv, Exact, Counts
  <2>4. FailuresInv' /\ MiscInv'
    BY <2>1 DEF IInv, FailuresInv, MiscInv, Exact, Winner
  <2>5. ExplainsAll' /\ RankingInv'
    <3>1. Explained' = Explained /\ (Exact' <=> Exact)
      BY <2>1 DEF Explained, Exact
    <3>2. ExplainsAll'
      BY <2>1, <3>1 DEF IInv, ExplainsAll
    <3>3. RankingInv'
      BY <2>1, <3>1 DEF IInv, RankingInv, Left
    <3> QED BY <3>2, <3>3
  <2> QED BY <2>2, <2>3, <2>4, <2>5 DEF IInv
<1> QED BY <1>1, <1>2, <1>3, <1>4, <1>5 DEF Next, Finished

\* However the winners overlap, exact dilution leaves every surviving
\* predicate, and the failures to be explained, with exactly the runs that no
\* winner explains, and with counts that are the sizes of its run sets
\* (exact-complete: Predicate::dilute, RunSuite, allFailures).
THEOREM Dilution == Spec => []DilutionIsExact
<1>1. IInv => DilutionIsExact
  <2> SUFFICES ASSUME IInv PROVE DilutionIsExact
    OBVIOUS
  <2>1. TypeOK
    <3>1. \A i \in DOMAIN winners : winners[i].preds \subseteq DOMAIN loaded
      <4>1. \A i \in 1..Len(winners) : winners[i] \in Winner
        BY ElementOfSeq DEF IInv, MiscInv
      <4>2. DOMAIN winners = 1..Len(winners)
        BY LenProperties DEF IInv, MiscInv
      <4> QED BY <4>1, <4>2 DEF Winner
    <3> QED BY <3>1 DEF IInv, MiscInv, CandidatesInv, FailuresInv, TypeOK
  <2>2. CountsAreExact
    BY DEF IInv, CandidatesInv, FailuresInv, CountsAreExact
  <2>3. NothingForgotten
    <3> SUFFICES ASSUME Exact, phase = "ranking"
                 PROVE  /\ allFailures.runs = Failing \ Explained
                        /\ \A p \in DOMAIN candidates :
                              /\ candidates[p].tru.runs = loaded[p].tru.runs \ Explained
                              /\ candidates[p].obs.runs = loaded[p].obs.runs \ Explained
      BY DEF NothingForgotten
    <3>1. \A runs : SuiteOf(runs).runs = runs
      BY DEF SuiteOf
    <3>2. /\ allFailures = SuiteOf(Failing \ Explained)
          /\ \A p \in DOMAIN candidates :
                /\ candidates[p].tru = SuiteOf(loaded[p].tru.runs \ Explained)
                /\ candidates[p].obs = SuiteOf(loaded[p].obs.runs \ Explained)
      BY DEF IInv, RankingInv, Left
    <3> QED BY <3>1, <3>2
  <2> QED BY <2>1, <2>2, <2>3 DEF DilutionIsExact
<1> QED BY InitIInv, NextIInv, <1>1, PTL DEF Spec

\* The approximation errs on one side: a run that two winners explain is
\* subtracted twice, so that a count may be too low, but none is ever above
\* that of the runs left unexplained (approximate-complete).
THEOREM Approximation == Spec => []NeverOverestimated
<1>1. IInv => NeverOverestimated
  <2> SUFFICES ASSUME IInv, phase = "ranking", NEW p \in DOMAIN candidates
               PROVE  LET tru == SuiteOf(loaded[p].tru.runs \ Explained)
                          obs == SuiteOf(loaded[p].obs.runs \ Explained)
                      IN  /\ candidates[p].tru.failures <= tru.failures
                          /\ candidates[p].tru.successes <= tru.successes
                          /\ candidates[p].obs.failures <= obs.failures
                          /\ candidates[p].obs.successes <= obs.successes
    BY DEF NeverOverestimated
  <2>1. loaded[p].tru.runs \in SUBSET Run /\ loaded[p].obs.runs \in SUBSET Run
    BY DEF IInv, LoadedInv, CandidatesInv
  <2>2. /\ Left(candidates[p].tru, loaded[p].tru.runs, Explained)
        /\ Left(candidates[p].obs, loaded[p].obs.runs, Explained)
    BY DEF IInv, RankingInv
  <2> QED BY <2>1, <2>2, LeftIsInRange DEF SuiteOf
<1> QED BY InitIInv, NextIInv, <1>1, PTL DEF Spec

\* The ranking ends with candidates left only when no failure is.
THEOREM Explanation == Spec => []ExplainsAll
<1>1. IInv => ExplainsAll
  BY DEF IInv
<1> QED BY InitIInv, NextIInv, <1>1, PTL DEF Spec

-----------------------------------------------------------------------------
(* Every winner explains something *)

LEMMA SimpleExplains ==
    ASSUME IInv, phase = "ranking", NEW p \in DOMAIN candidates
    PROVE  (candidates[p].tru.runs \cap Failing) \ Explained # {}
<1> DEFINE tru == candidates[p].tru
           given == loaded[p].tru.runs
<1>1. given \in SUBSET Run /\ Left(tru, given, Explained)
  BY DEF IInv, LoadedInv, CandidatesInv, RankingInv
<1>2. tru.failures > 0
  BY BoundAssumption DEF IInv, CandidatesInv, Counts
<1>3. given \ Explained \subseteq tru.runs
  <2>1. CASE Exact
    BY <1>1, <2>1 DEF Left, SuiteOf
  <2>2. CASE ~Exact
    BY <1>1, <2>2 DEF Left
  <2> QED BY <2>1, <2>2
<1>4. (given \ Explained) \cap Failing # {}
  <2>1. /\ tru.failures <= Cardinality((given \ Explained) \cap Failing)
        /\ tru.failures \in 0..Cardinality(Failing)
    BY <1>1, LeftIsInRange
  <2>2. Cardinality((given \ Explained) \cap Failing) # 0
    BY <1>2, <2>1, RunsAreFinite
  <2> QED BY <2>2, FS_EmptySet
<1> QED BY <1>3, <1>4

\* A complex predicate that beats the best simple one was true in a failure,
\* and its members' runs are unexplained ones if the dilution is exact.
LEMMA ComplexExplains ==
    ASSUME IInv, phase = "ranking", Exact, NEW c \in Pairs, NEW p \in DOMAIN candidates,
           Complex(c).score > Effective(p)
    PROVE  (Complex(c).tru.runs \cap Failing) \ Explained # {}
<1> DEFINE a == candidates[c[2]]
           b == candidates[c[3]]
           built == Build(c[1], a, b)
<1>1. c[2] \in DOMAIN candidates /\ c[3] \in DOMAIN candidates
  BY DEF Pairs
<1>2. Effective(p) \in Nat
  BY ScoreAssumption DEF Effective, IInv, CandidatesInv, FailuresInv
<1>3. /\ Complex(c).tru = built.tru
      /\ Complex(c).score = ComplexScore(Counts(built))
  BY DEF Complex
<1>4. built.tru.failures # 0
  <2> SUFFICES ASSUME built.tru.failures = 0 PROVE FALSE
    OBVIOUS
  <2> HIDE DEF built
  <2>1. Counts(built).tf = 0
    BY DEF Counts
  <2>2. ComplexScore(Counts(built)) = 0
    BY <2>1 DEF ComplexScore
  <2> QED BY <1>2, <1>3, <2>2
<1>5. /\ built.tru = SuiteOf(built.tru.runs)
      /\ built.tru.runs \subseteq a.tru.runs \cup b.tru.runs
  BY DEF Build, Conjunction, Disjunction, SuiteOf
<1>6. a.tru.runs \cap Explained = {} /\ b.tru.runs \cap Explained = {}
  <2>1. /\ a.tru.runs = loaded[c[2]].tru.runs \ Explained
        /\ b.tru.runs = loaded[c[3]].tru.runs \ Explained
    <3>1. /\ a.tru = SuiteOf(loaded[c[2]].tru.runs \ Explained)
          /\ b.tru = SuiteOf(loaded[c[3]].tru.runs \ Explained)
      BY <1>1 DEF IInv, RankingInv, Left
    <3>2. \A runs : SuiteOf(runs).runs = runs
      BY DEF SuiteOf
    <3> QED BY <3>1, <3>2
  <2> QED BY <2>1
<1> HIDE DEF built, a, b
<1>7. built.tru.runs \cap Failing # {}
  <2>1. Cardinality(built.tru.runs \cap Failing) # 0
    BY <1>4, <1>5 DEF SuiteOf
  <2> QED BY <2>1, FS_EmptySet
<1> QED BY <1>3, <1>5, <1>6, <1>7

LEMMA WinnersExplain ==
    ASSUME \A m \in Modes : m.dilution = "exact" \/ ~m.complex,
           IInv, [Next]_vars, winners' # winners
    PROVE  (Last(winners').tru.runs \cap Failing) \ Explained # {}
<1>1. CASE SimpleWins
  <2>1. PICK list \in Sorted : list # << >> /\ \E found \in Combine(list) :
           /\ Explain([preds |-> {list[1]}, kind |-> "S", tru |-> candidates[list[1]].tru],
                      Others(list[1]))
    BY <1>1 DEF SimpleWins
  <2> DEFINE w == [preds |-> {list[1]}, kind |-> "S", tru |-> candidates[list[1]].tru]
  <2>2. list[1] \in DOMAIN candidates /\ phase = "ranking"
    BY <1>1, <2>1, ListType DEF IInv, SimpleWins
  <2>3. winners' = Append(winners, w) /\ w \in Winner
    BY <2>1, <2>2 DEF Explain, Winner, IInv, CandidatesInv
  <2>4. Last(winners') = w
    BY <2>3, ExplainedGrows DEF IInv, MiscInv
  <2> QED BY <2>2, <2>4, SimpleExplains
<1>2. CASE ComplexWins
  <2>1. PICK list \in Sorted : list # << >> /\ \E found \in Combine(list) :
           /\ found.result # << >> /\ found.result[1].score > Effective(list[1])
           /\ Explain([preds |-> found.result[1].preds, kind |-> found.result[1].kind,
                       tru |-> found.result[1].tru], DOMAIN candidates)
    BY <1>2 DEF ComplexWins
  <2>2. PICK found \in Combine(list) :
           /\ found.result # << >> /\ found.result[1].score > Effective(list[1])
           /\ Explain([preds |-> found.result[1].preds, kind |-> found.result[1].kind,
                       tru |-> found.result[1].tru], DOMAIN candidates)
    BY <2>1
  <2>3. PICK c \in Pairs : found.result = <<Complex(c)>>
    BY <2>1, <2>2, ListType, CombineKeeps DEF Keeps, IInv
  <2>4. found.result[1] = Complex(c)
    BY <2>3
  <2> DEFINE w == [preds |-> Complex(c).preds, kind |-> Complex(c).kind,
                   tru |-> Complex(c).tru]
  <2>5. list[1] \in DOMAIN candidates /\ phase = "ranking"
    BY <1>2, <2>1, ListType DEF IInv, ComplexWins
  <2>6. Exact
    <3>1. mode.complex
      BY <2>2 DEF Combine
    <3> QED BY <3>1 DEF IInv, MiscInv, Exact
  <2>7. winners' = Append(winners, w)
    BY <2>2, <2>4 DEF Explain
  <2>8. w \in Winner
    BY ComplexIsWinner DEF IInv
  <2>9. w.tru = Complex(c).tru
    OBVIOUS
  <2> HIDE DEF w
  <2>10. Last(winners') = w
    BY <2>7, <2>8, ExplainedGrows DEF IInv, MiscInv
  <2> QED BY <2>2, <2>4, <2>5, <2>6, <2>9, <2>10, ComplexExplains
<1> QED BY <1>1, <1>2 DEF Next, Exhausted, Zoom, EndZooms, Finished, vars

\* Every winner explains a failure that none before it did, in exact-complete
\* and in approximate-complete without --complex-preds.  (Approximate dilution
\* leaves the bits alone from which complex predicates are built, so that with
\* both a conjunction may win for what is already explained.)
THEOREM Progress ==
    ASSUME \A m \in Modes : m.dilution = "exact" \/ ~m.complex
    PROVE  Spec => EachWinnerExplains
<1>1. IInv /\ [Next]_vars =>
         [winners' # winners => (Last(winners').tru.runs \cap Failing) \ Explained # {}]_vars
  BY WinnersExplain
<1> QED BY InitIInv, NextIInv, <1>1, PTL DEF Spec, EachWinnerExplains

RankingIsShort == Len(winners) <= Cardinality(Failing)

\* Hence the ranking is no longer than there are failing runs.  (main.cc buildView)
THEOREM Termination ==
    ASSUME \A m \in Modes : m.dilution = "exact" \/ ~m.complex
    PROVE  Spec => []RankingIsShort
<1> DEFINE Short == Len(winners) <= Cardinality(Explained \cap Failing)
<1>1. Init => Short
  <2> SUFFICES ASSUME Init PROVE Short
    OBVIOUS
  <2>1. winners = << >> /\ Len(winners) = 0
    BY DEF Init, Start
  <2>2. Cardinality(Explained \cap Failing) \in Nat
    BY RunAssumption, FS_Intersection, FS_CardinalityType
  <2> QED BY <2>1, <2>2
<1>2. IInv /\ Short /\ [Next]_vars => Short'
  <2> SUFFICES ASSUME IInv, Short, [Next]_vars PROVE Short'
    OBVIOUS
  <2>1. CASE winners' = winners
    BY <2>1 DEF Explained
  <2>2. CASE winners' # winners
    <3>1. SimpleWins \/ ComplexWins
      BY <2>2 DEF Next, Exhausted, Zoom, EndZooms, Finished, vars
    <3>2. PICK w, remaining : Wins(w, remaining)
      BY <3>1, SimpleWinsWins, ComplexWinsWins DEF IInv
    <3>3. w \in Winner /\ winners' = Append(winners, w)
      BY <3>2 DEF Wins, Explain
    <3>4. /\ Explained' = Explained \cup w.tru.runs /\ Last(winners') = w
          /\ Len(winners') = Len(winners) + 1 /\ Len(winners) \in Nat
      BY <3>3, ExplainedGrows, AppendProperties, LenProperties DEF IInv, MiscInv
    <3>5. PICK r \in w.tru.runs \cap Failing : r \notin Explained
      BY <2>2, <3>4, WinnersExplain
    <3>6. /\ Explained \cap Failing \subseteq Explained' \cap Failing
          /\ r \in Explained' \cap Failing /\ r \notin Explained \cap Failing
      BY <3>4, <3>5
    <3>7. Cardinality(Explained \cap Failing) < Cardinality(Explained' \cap Failing)
      <4>1. IsFiniteSet(Explained' \cap Failing)
        BY RunAssumption, FS_Intersection
      <4>2. /\ Cardinality(Explained \cap Failing) <= Cardinality(Explained' \cap Failing)
            /\ Cardinality(Explained \cap Failing) # Cardinality(Explained' \cap Failing)
        BY <3>6, <4>1, FS_Subset
      <4>3. /\ Cardinality(Explained \cap Failing) \in Nat
            /\ Cardinality(Explained' \cap Failing) \in Nat
        BY <3>6, <4>1, SmallerSetCountsLess
      <4> QED BY <4>2, <4>3
    <3>8. /\ Cardinality(Explained \cap Failing) \in Nat
          /\ Cardinality(Explained' \cap Failing) \in Nat
      BY <3>6, RunAssumption, FS_Intersection, FS_CardinalityType
    <3> QED BY <3>4, <3>7, <3>8
  <2> QED BY <2>1, <2>2
<1>3. IInv /\ Short => RankingIsShort
  <2>1. Cardinality(Explained \cap Failing) \in 0..Cardinality(Failing)
        /\ Cardinality(Failing) \in Nat
    BY RunsAreFinite
  <2>2. IInv => Len(winners) \in Nat
    BY LenProperties DEF IInv, MiscInv
  <2> QED BY <2>1, <2>2 DEF RankingIsShort
<1> QED BY InitIInv, NextIInv, <1>1, <1>2, <1>3, PTL DEF Spec

-----------------------------------------------------------------------------
(* The estimates *)

\* Runs of one outcome: p and q are true in A and B, and observed in C and D.
LEMMA Overlaps ==
    ASSUME NEW A, NEW B, NEW C, NEW D, A \subseteq C, B \subseteq D,
           IsFiniteSet(C), IsFiniteSet(D)
    PROVE  LET a == Cardinality(A) b == Cardinality(B)
               c == Cardinality(C) d == Cardinality(D)
               u == Cardinality(C \cup D)
               both   == Cardinality(A \cap B)
               either == Cardinality(A \cup B)
               seenC  == Cardinality((C \ A) \cup (D \ B) \cup (C \cap D))
               seenD  == Cardinality((A \cup B) \cup ((C \ A) \cap (D \ B)))
           IN  /\ {a, b, c, d, u, both, either, seenC, seenD} \subseteq Nat
               /\ a <= c /\ b <= d
               /\ both <= a /\ both <= b /\ either = a + b - both
               /\ a <= either /\ b <= either /\ either <= u
               /\ seenC <= u
               /\ c - a <= seenC /\ d - b <= seenC /\ c + d - u <= seenC
               /\ seenD <= a + b + (c - a) /\ seenD <= a + b + (d - b) /\ seenD <= u
               /\ a <= seenD /\ b <= seenD /\ c + d - u <= seenD
<1> DEFINE FC == C \ A
           FD == D \ B
           X == FC \cup FD \cup (C \cap D)
           Y == (A \cup B) \cup (FC \cap FD)
           U == C \cup D
<1>1. IsFiniteSet(U)
  BY FS_Union
<1>2. \A S \in SUBSET U : IsFiniteSet(S) /\ Cardinality(S) \in Nat
  BY <1>1, FS_Subset, FS_CardinalityType
<1>3. \A S \in SUBSET U : \A T \in SUBSET S : Cardinality(T) <= Cardinality(S)
  BY <1>2, FS_Subset
<1>4. ASSUME NEW S \in SUBSET U, NEW T \in SUBSET U
      PROVE  Cardinality(S \cup T) = Cardinality(S) + Cardinality(T) - Cardinality(S \cap T)
  <2> HIDE DEF U
  <2> QED BY <1>2, FS_Union
<1>5. A \in SUBSET U /\ B \in SUBSET U /\ C \in SUBSET U /\ D \in SUBSET U
  OBVIOUS
<1>6. /\ A \cap B \in SUBSET U /\ A \cup B \in SUBSET U /\ C \cap D \in SUBSET U
      /\ FC \in SUBSET U /\ FD \in SUBSET U /\ FC \cup FD \in SUBSET U
      /\ FC \cap FD \in SUBSET U /\ X \in SUBSET U /\ Y \in SUBSET U /\ U \in SUBSET U
  OBVIOUS
<1>7. /\ FC \subseteq X /\ FD \subseteq X /\ C \cap D \subseteq X
      /\ X = (FC \cup FD) \cup (A \cap B)
      /\ A \subseteq Y /\ B \subseteq Y /\ C \cap D \subseteq Y
      /\ A \cup B \subseteq U
      /\ FC \cap FD \subseteq FC /\ FC \cap FD \subseteq FD
      /\ A \cap B \subseteq A /\ A \cap B \subseteq B
      /\ A \subseteq A \cup B /\ B \subseteq A \cup B
  OBVIOUS
<1>8. /\ Cardinality(FC) = Cardinality(C) - Cardinality(A)
      /\ Cardinality(FD) = Cardinality(D) - Cardinality(B)
  <2>1. C \cap A = A /\ D \cap B = B
    OBVIOUS
  <2>2. /\ Cardinality(C \ A) = Cardinality(C) - Cardinality(C \cap A)
        /\ Cardinality(D \ B) = Cardinality(D) - Cardinality(D \cap B)
    BY FS_Difference
  <2> QED BY <2>1, <2>2
<1>9. X \subseteq U
  OBVIOUS
<1>10. Cardinality(Y) <= Cardinality(A) + Cardinality(B) + Cardinality(FC \cap FD)
  <2>1. Cardinality(Y) = Cardinality(A \cup B) + Cardinality(FC \cap FD)
                         - Cardinality((A \cup B) \cap (FC \cap FD))
    BY <1>4, <1>6
  <2>2. Cardinality(A \cup B) = Cardinality(A) + Cardinality(B) - Cardinality(A \cap B)
    BY <1>4, <1>5
  <2>3. (A \cup B) \cap (FC \cap FD) \in SUBSET U
    OBVIOUS
  <2> HIDE DEF FC, FD, Y, U
  <2> QED BY <1>2, <1>5, <1>6, <2>1, <2>2, <2>3
<1>11. /\ Cardinality(A \cup B) = Cardinality(A) + Cardinality(B) - Cardinality(A \cap B)
       /\ Cardinality(U) = Cardinality(C) + Cardinality(D) - Cardinality(C \cap D)
  BY <1>4, <1>5
<1>12. /\ Cardinality(FC) <= Cardinality(X) /\ Cardinality(FD) <= Cardinality(X)
       /\ Cardinality(C \cap D) <= Cardinality(X) /\ Cardinality(C \cap D) <= Cardinality(Y)
       /\ Cardinality(A) <= Cardinality(Y) /\ Cardinality(B) <= Cardinality(Y)
       /\ Cardinality(X) <= Cardinality(U)
       /\ Cardinality(Y) <= Cardinality(U) /\ Cardinality(A \cup B) <= Cardinality(U)
       /\ Cardinality(FC \cap FD) <= Cardinality(FC)
       /\ Cardinality(FC \cap FD) <= Cardinality(FD)
       /\ Cardinality(A \cap B) <= Cardinality(A) /\ Cardinality(A \cap B) <= Cardinality(B)
       /\ Cardinality(A) <= Cardinality(A \cup B) /\ Cardinality(B) <= Cardinality(A \cup B)
       /\ Cardinality(A) <= Cardinality(C) /\ Cardinality(B) <= Cardinality(D)
  <2> HIDE DEF FC, FD, X, Y, U
  <2> QED BY <1>3, <1>5, <1>6, <1>7, <1>9
<1>13. /\ Cardinality(A) \in Nat /\ Cardinality(B) \in Nat /\ Cardinality(C) \in Nat
       /\ Cardinality(D) \in Nat /\ Cardinality(U) \in Nat /\ Cardinality(A \cap B) \in Nat
       /\ Cardinality(A \cup B) \in Nat /\ Cardinality(X) \in Nat /\ Cardinality(Y) \in Nat
       /\ Cardinality(FC \cap FD) \in Nat /\ Cardinality(C \cap D) \in Nat
  <2> HIDE DEF FC, FD, X, Y, U
  <2> QED BY <1>2, <1>5, <1>6
<1> HIDE DEF FC, FD, X, Y, U
<1>14. /\ Cardinality(C) + Cardinality(D) - Cardinality(U) <= Cardinality(X)
       /\ Cardinality(C) + Cardinality(D) - Cardinality(U) <= Cardinality(Y)
       /\ Cardinality(Y) <= Cardinality(A) + Cardinality(B) + (Cardinality(C) - Cardinality(A))
       /\ Cardinality(Y) <= Cardinality(A) + Cardinality(B) + (Cardinality(D) - Cardinality(B))
        /\ Cardinality(C) - Cardinality(A) <= Cardinality(X)
       /\ Cardinality(D) - Cardinality(B) <= Cardinality(X)
  BY <1>8, <1>10, <1>11, <1>12, <1>13
<1> QED BY <1>11, <1>12, <1>13, <1>14 DEF FC, FD, X, Y, U

\* The bounds, as arithmetic: s and n are the passing and the failing runs at
\* hand, the rest as in Overlaps.
LEMMA EstimateArithmetic ==
    ASSUME NEW p \in [tf : Nat, ts : Nat, of : Nat, os : Nat],
           NEW q \in [tf : Nat, ts : Nat, of : Nat, os : Nat],
           p.tf <= p.of, p.ts <= p.os, q.tf <= q.of, q.ts <= q.os,
           NEW s \in Int, allFailures.failures \in Nat
    PROVE  LET n == allFailures.failures
               con == EstimateConjunction(p, q, s)
               dis == EstimateDisjunction(p, q, s)
           IN  /\ con.tf = IF p.tf <= q.tf THEN p.tf ELSE q.tf
               /\ con.os \in Int /\ con.os >= s
               /\ con.ts = 0 \/ con.ts = p.ts + q.ts - s
               /\ \/ con.of = p.of - p.tf \/ con.of = q.of - q.tf
                  \/ con.of = p.of + q.of - n
               /\ dis.tf = n \/ dis.tf = p.tf + q.tf
               /\ \/ dis.os = s
                  \/ dis.os = p.ts + q.ts + (p.os - p.ts)
                  \/ dis.os = p.ts + q.ts + (q.os - q.ts)
               /\ dis.ts = p.ts \/ dis.ts = q.ts
               /\ \/ dis.of = p.tf \/ dis.of = q.tf
                  \/ dis.of = p.of + q.of - n
<1> DEFINE n == allFailures.failures
           pf == p.of - p.tf
           ps == p.os - p.ts
           qf == q.of - q.tf
           qs == q.os - q.ts
<1>1. /\ p.tf \in Int /\ p.ts \in Int /\ p.of \in Int /\ p.os \in Int
      /\ q.tf \in Int /\ q.ts \in Int /\ q.of \in Int /\ q.os \in Int
      /\ pf \in Int /\ ps \in Int /\ qf \in Int /\ qs \in Int /\ n \in Int
  OBVIOUS
<1>2. \A a, b \in Int : /\ Max({a, b}) = IF a >= b THEN a ELSE b
                        /\ Min({a, b}) = IF a <= b THEN a ELSE b
  BY MaxOfTwo
<1>3. LET con == EstimateConjunction(p, q, s)
      IN  /\ con.tf = Min({p.tf, q.tf})
          /\ con.os = Max({s, ps + qs + Min({p.ts, q.ts})})
          /\ con.ts = Max({0, p.ts + q.ts - s})
          /\ con.of = Max({pf, qf}) + Max({0, p.tf + q.tf + Min({pf, qf}) - n})
  BY DEF EstimateConjunction
<1>4. LET dis == EstimateDisjunction(p, q, s)
      IN  /\ dis.tf = Min({n, p.tf + q.tf})
          /\ dis.os = Min({s, p.ts + q.ts + Min({ps, qs})})
          /\ dis.ts = Max({p.ts, q.ts})
          /\ dis.of = Max({p.tf, q.tf}) + Max({0, pf + qf + Min({p.tf, q.tf}) - n})
  BY DEF EstimateDisjunction
<1>5. Min({p.tf, q.tf}) = IF p.tf <= q.tf THEN p.tf ELSE q.tf
  BY <1>1, <1>2
<1>6. /\ Max({p.ts, q.ts}) \in {p.ts, q.ts} /\ Max({p.tf, q.tf}) \in {p.tf, q.tf}
      /\ Min({p.ts, q.ts}) \in {p.ts, q.ts} /\ Min({p.tf, q.tf}) \in {p.tf, q.tf}
      /\ Min({ps, qs}) \in {ps, qs}
  <2>1. \A a, b \in Int : Max({a, b}) \in {a, b} /\ Min({a, b}) \in {a, b}
    BY <1>2
  <2> HIDE DEF ps, qs
  <2> QED BY <1>1, <2>1
<1>7. /\ Max({pf, qf}) \in {pf, qf} /\ Min({pf, qf}) \in {pf, qf}
      /\ Max({pf, qf}) + Min({pf, qf}) = pf + qf
  <2> HIDE DEF pf, qf
  <2>1. /\ Max({pf, qf}) = IF pf >= qf THEN pf ELSE qf
        /\ Min({pf, qf}) = IF pf <= qf THEN pf ELSE qf
    BY <1>1, <1>2
  <2> QED BY <1>1, <2>1
<1>8. Max({p.tf, q.tf}) + Min({p.tf, q.tf}) = p.tf + q.tf
  <2>1. /\ Max({p.tf, q.tf}) = IF p.tf >= q.tf THEN p.tf ELSE q.tf
        /\ Min({p.tf, q.tf}) = IF p.tf <= q.tf THEN p.tf ELSE q.tf
    BY <1>1, <1>2
  <2> QED BY <1>1, <2>1
<1>9. LET con == EstimateConjunction(p, q, s)
      IN  /\ con.os \in Int /\ con.os >= s
          /\ con.ts = 0 \/ con.ts = p.ts + q.ts - s
          /\ con.of = pf \/ con.of = qf \/ con.of = p.of + q.of - n
  <2> DEFINE x == ps + qs + Min({p.ts, q.ts})
             y == p.ts + q.ts - s
             z == p.tf + q.tf + Min({pf, qf}) - n
             m == Max({pf, qf})
  <2>1. x \in Int /\ y \in Int /\ z \in Int /\ 0 \in Int
    <3> HIDE DEF ps, qs, pf, qf, n
    <3> QED BY <1>1, <1>6, <1>7
  <2>2. /\ Max({s, x}) = IF s >= x THEN s ELSE x
        /\ Max({0, y}) = IF 0 >= y THEN 0 ELSE y
        /\ Max({0, z}) = IF 0 >= z THEN 0 ELSE z
    <3> HIDE DEF x, y, z
    <3> QED BY <1>2, <2>1
  <2>3. m + z = p.of + q.of - n /\ m \in Int
    <3>1. m + z = (pf + qf) + p.tf + q.tf - n
      <4> HIDE DEF pf, qf, n
      <4> QED BY <1>1, <1>7
    <3> HIDE DEF m, z, n
    <3> QED BY <1>1, <1>7, <3>1 DEF m
  <2>4. m = pf \/ m = qf
    BY <1>7
  <2>5. LET con == EstimateConjunction(p, q, s)
        IN  con.os = Max({s, x}) /\ con.ts = Max({0, y}) /\ con.of = m + Max({0, z})
    BY <1>3
  <2> HIDE DEF x, z, m, pf, qf, n
  <2>6. Max({s, x}) \in Int /\ Max({s, x}) >= s
    BY <2>1, <2>2
  <2>7. Max({0, y}) = 0 \/ Max({0, y}) = p.ts + q.ts - s
    BY <2>2
  <2>8. m + Max({0, z}) = m \/ m + Max({0, z}) = p.of + q.of - n
    BY <2>1, <2>2, <2>3
  <2> HIDE DEF y
  <2> QED BY <2>4, <2>5, <2>6, <2>7, <2>8
<1>10. LET dis == EstimateDisjunction(p, q, s)
       IN  /\ dis.tf = n \/ dis.tf = p.tf + q.tf
           /\ \/ dis.os = s \/ dis.os = p.ts + q.ts + ps
              \/ dis.os = p.ts + q.ts + qs
           /\ dis.ts = p.ts \/ dis.ts = q.ts
           /\ dis.of = p.tf \/ dis.of = q.tf \/ dis.of = p.of + q.of - n
  <2> DEFINE x == p.ts + q.ts + Min({ps, qs})
             y == p.tf + q.tf
             z == pf + qf + Min({p.tf, q.tf}) - n
             m == Max({p.tf, q.tf})
  <2>1. x \in Int /\ y \in Int /\ z \in Int /\ 0 \in Int
    <3> HIDE DEF ps, qs, pf, qf, n
    <3> QED BY <1>1, <1>6, <1>7
  <2>2. /\ Min({s, x}) = IF s <= x THEN s ELSE x
        /\ Min({n, y}) = IF n <= y THEN n ELSE y
        /\ Max({0, z}) = IF 0 >= z THEN 0 ELSE z
    <3> HIDE DEF x, y, z, n
    <3> QED BY <1>1, <1>2, <2>1
  <2>3. m + z = p.of + q.of - n /\ m \in Int
    <3>1. m + z = (p.tf + q.tf) + pf + qf - n
      <4> HIDE DEF pf, qf, n
      <4> QED BY <1>1, <1>6, <1>8
    <3>2. m \in Int
      BY <1>1, <1>6
    <3> HIDE DEF m, z, n
    <3> QED BY <1>1, <3>1, <3>2
  <2>4. m = p.tf \/ m = q.tf
    BY <1>6
  <2>5. LET dis == EstimateDisjunction(p, q, s)
        IN  /\ dis.tf = Min({n, y}) /\ dis.os = Min({s, x}) /\ dis.ts = Max({p.ts, q.ts})
            /\ dis.of = m + Max({0, z})
    BY <1>4
  <2>6. x = p.ts + q.ts + ps \/ x = p.ts + q.ts + qs
    <3> HIDE DEF ps, qs
    <3> QED BY <1>1, <1>6
  <2> HIDE DEF x, z, m, pf, qf, n, ps, qs
  <2>7. Min({n, y}) = n \/ Min({n, y}) = p.tf + q.tf
    BY <2>2
  <2>8. m + Max({0, z}) = m \/ m + Max({0, z}) = p.of + q.of - n
    BY <2>1, <2>2, <2>3
  <2>9. Min({s, x}) = s \/ Min({s, x}) = x
    BY <2>2
  <2>10. Max({p.ts, q.ts}) = p.ts \/ Max({p.ts, q.ts}) = q.ts
    BY <1>6
  <2> HIDE DEF y
  <2> QED BY <2>4, <2>5, <2>6, <2>7, <2>8, <2>9, <2>10
<1> QED BY <1>3, <1>5, <1>9, <1>10

\* Run sets as the estimates see them: how often each occurs in a set of runs.
LEMMA CountsOf ==
    ASSUME NEW data, data.tru = SuiteOf(data.tru.runs), data.obs = SuiteOf(data.obs.runs)
    PROVE  /\ Counts(data).tf = Cardinality(data.tru.runs \cap Failing)
           /\ Counts(data).ts = Cardinality(data.tru.runs \cap Passing)
           /\ Counts(data).of = Cardinality(data.obs.runs \cap Failing)
           /\ Counts(data).os = Cardinality(data.obs.runs \cap Passing)
<1>1. \A runs : /\ SuiteOf(runs).failures = Cardinality(runs \cap Failing)
                /\ SuiteOf(runs).successes = Cardinality(runs \cap Passing)
  BY DEF SuiteOf
<1>2. /\ data.tru.failures = Cardinality(data.tru.runs \cap Failing)
      /\ data.tru.successes = Cardinality(data.tru.runs \cap Passing)
      /\ data.obs.failures = Cardinality(data.obs.runs \cap Failing)
      /\ data.obs.successes = Cardinality(data.obs.runs \cap Passing)
  BY <1>1
<1> QED BY <1>2 DEF Counts

\* However the run sets of two candidates overlap and however far dilution has
\* gone, the estimate of what they make together is on the safe side.
LEMMA EstimateBounds ==
    ASSUME IInv, HeldOut \cap Failing = {}, Exact, phase = "ranking",
           NEW x \in DOMAIN candidates, NEW y \in DOMAIN candidates,
           NEW kind \in {"C", "D"}
    PROVE  LET real == Counts(Build(kind, candidates[x], candidates[y]))
               estimate == Estimate(kind, candidates[x], candidates[y])
           IN  /\ estimate.tf >= real.tf /\ estimate.os >= real.os
               /\ estimate.ts <= real.ts /\ estimate.of <= real.of
<1> DEFINE p == candidates[x]
           q == candidates[y]
           pc == Counts(p)
           qc == Counts(q)
           s == Successes(kind)
           n == allFailures.failures
           Seen(d, O) == d.obs.runs \cap O
           True(d, O) == d.tru.runs \cap O
<1>1. \A z \in DOMAIN candidates :
         /\ candidates[z].tru = SuiteOf(candidates[z].tru.runs)
         /\ candidates[z].obs = SuiteOf(candidates[z].obs.runs)
         /\ candidates[z].tru.runs \subseteq candidates[z].obs.runs
         /\ candidates[z].obs.runs \subseteq (Run \ HeldOut) \ Explained
  <2> SUFFICES ASSUME NEW z \in DOMAIN candidates
               PROVE  /\ candidates[z].tru = SuiteOf(candidates[z].tru.runs)
                      /\ candidates[z].obs = SuiteOf(candidates[z].obs.runs)
                      /\ candidates[z].tru.runs \subseteq candidates[z].obs.runs
                      /\ candidates[z].obs.runs \subseteq (Run \ HeldOut) \ Explained
    OBVIOUS
  <2>1. z \in DOMAIN loaded /\ loaded[z].obs.runs \subseteq Run \ HeldOut
    BY DEF IInv, CandidatesInv, LoadedInv
  <2>2. candidates[z].obs = SuiteOf(loaded[z].obs.runs \ Explained)
    BY DEF IInv, RankingInv, Left
  <2>3. candidates[z].obs.runs = loaded[z].obs.runs \ Explained
    BY <2>2 DEF SuiteOf
  <2> QED BY <2>1, <2>3 DEF IInv, CandidatesInv
<1>2. /\ s \in Int /\ s >= Cardinality(Passing \ HeldOut)
  <2>1. /\ SuccessesNow \in Int /\ SuccessesNow >= Cardinality(Passing \ HeldOut)
    BY EnoughSuccesses
  <2> QED BY <2>1 DEF Successes, IInv, SuccessesInv
<1>3. n = Cardinality(Failing \ Explained) /\ n \in Nat
  <2>1. allFailures = SuiteOf(Failing \ Explained)
    BY DEF IInv, RankingInv, Left
  <2>2. (Failing \ Explained) \cap Failing = Failing \ Explained
    OBVIOUS
  <2> QED BY <2>1, <2>2, RunsAreFinite DEF SuiteOf, IInv, FailuresInv
<1>4. ASSUME NEW O \in {Failing, Passing}
      PROVE  /\ IsFiniteSet(Seen(p, O)) /\ IsFiniteSet(Seen(q, O))
             /\ True(p, O) \subseteq Seen(p, O) /\ True(q, O) \subseteq Seen(q, O)
  BY <1>1, RunsAreFinite
<1>5. /\ Cardinality(Seen(p, Failing) \cup Seen(q, Failing)) <= n
      /\ Cardinality(Seen(p, Passing) \cup Seen(q, Passing)) <= s
  <2>1. /\ Seen(p, Failing) \cup Seen(q, Failing) \subseteq Failing \ Explained
        /\ Seen(p, Passing) \cup Seen(q, Passing) \subseteq Passing \ HeldOut
    BY <1>1
  <2>2. /\ IsFiniteSet(Failing \ Explained) /\ IsFiniteSet(Passing \ HeldOut)
        /\ Cardinality(Passing \ HeldOut) \in Nat
    BY RunAssumption, FS_Difference, FS_CardinalityType
  <2>3. /\ Cardinality(Seen(p, Failing) \cup Seen(q, Failing))
              <= Cardinality(Failing \ Explained)
        /\ Cardinality(Seen(p, Passing) \cup Seen(q, Passing))
              <= Cardinality(Passing \ HeldOut)
        /\ Cardinality(Seen(p, Passing) \cup Seen(q, Passing)) \in Nat
    BY <2>1, <2>2, FS_Subset, FS_CardinalityType
  <2> QED BY <1>2, <1>3, <2>2, <2>3
<1>6. ASSUME NEW O \in {Failing, Passing}
      PROVE  LET a == Cardinality(True(p, O))
                 b == Cardinality(True(q, O))
                 c == Cardinality(Seen(p, O))
                 d == Cardinality(Seen(q, O))
                 u == Cardinality(Seen(p, O) \cup Seen(q, O))
                 Of(kd) == Build(kd, p, q)
                 tc == Cardinality(True(Of("C"), O))
                 oc == Cardinality(Seen(Of("C"), O))
                 td == Cardinality(True(Of("D"), O))
                 od == Cardinality(Seen(Of("D"), O))
             IN  /\ {a, b, c, d, u, tc, oc, td, od} \subseteq Nat
                 /\ a <= c /\ b <= d
                 /\ tc <= a /\ tc <= b /\ tc >= a + b - u
                 /\ oc <= u /\ oc >= c - a /\ oc >= d - b /\ oc >= c + d - u
                 /\ td <= u /\ td <= a + b /\ td >= a /\ td >= b
                 /\ od <= u /\ od <= a + b + (c - a) /\ od <= a + b + (d - b)
                 /\ od >= a /\ od >= b /\ od >= c + d - u
  <2> DEFINE A == True(p, O)
             B == True(q, O)
             C == Seen(p, O)
             D == Seen(q, O)
  <2>1. /\ True(Build("C", p, q), O) = A \cap B
        /\ Seen(Build("C", p, q), O) = (C \ A) \cup (D \ B) \cup (C \cap D)
        /\ True(Build("D", p, q), O) = A \cup B
        /\ Seen(Build("D", p, q), O) = (A \cup B) \cup ((C \ A) \cap (D \ B))
    <3>1. /\ Build("C", p, q) = Conjunction(p, q)
          /\ Build("D", p, q) = Disjunction(p, q)
      BY DEF Build
    <3>2. /\ p.tru.runs \subseteq p.obs.runs /\ q.tru.runs \subseteq q.obs.runs
      BY <1>1
    <3> HIDE DEF p, q
    <3>3. /\ Conjunction(p, q).tru.runs = p.tru.runs \cap q.tru.runs
          /\ Conjunction(p, q).obs.runs
                = (p.obs.runs \ p.tru.runs) \cup (q.obs.runs \ q.tru.runs)
                  \cup (p.obs.runs \cap q.obs.runs)
      BY DEF Conjunction, SuiteOf, False
    <3>4. /\ Disjunction(p, q).tru.runs = p.tru.runs \cup q.tru.runs
          /\ Disjunction(p, q).obs.runs
                = (p.tru.runs \cup q.tru.runs)
                  \cup ((p.obs.runs \ p.tru.runs) \cap (q.obs.runs \ q.tru.runs))
      BY <3>2 DEF Disjunction, SuiteOf, False
    <3> QED BY <3>1, <3>2, <3>3, <3>4
  <2>2. IsFiniteSet(C) /\ IsFiniteSet(D) /\ A \subseteq C /\ B \subseteq D
    BY <1>4
  <2> HIDE DEF A, B, C, D
  <2>3. LET a == Cardinality(A)
            b == Cardinality(B)
            c == Cardinality(C)
            d == Cardinality(D)
            u == Cardinality(C \cup D)
            both == Cardinality(A \cap B)
            either == Cardinality(A \cup B)
            seenC == Cardinality((C \ A) \cup (D \ B) \cup (C \cap D))
            seenD == Cardinality((A \cup B) \cup ((C \ A) \cap (D \ B)))
        IN  /\ {a, b, c, d, u, both, either, seenC, seenD} \subseteq Nat
            /\ a <= c /\ b <= d
            /\ both <= a /\ both <= b /\ either = a + b - both
            /\ a <= either /\ b <= either /\ either <= u
            /\ seenC <= u
            /\ c - a <= seenC /\ d - b <= seenC /\ c + d - u <= seenC
            /\ seenD <= a + b + (c - a) /\ seenD <= a + b + (d - b) /\ seenD <= u
            /\ a <= seenD /\ b <= seenD /\ c + d - u <= seenD
    BY <2>2, Overlaps
  <2> DEFINE a == Cardinality(A)
             b == Cardinality(B)
             c == Cardinality(C)
             d == Cardinality(D)
             u == Cardinality(C \cup D)
             tc == Cardinality(A \cap B)
             td == Cardinality(A \cup B)
             oc == Cardinality((C \ A) \cup (D \ B) \cup (C \cap D))
             od == Cardinality((A \cup B) \cup ((C \ A) \cap (D \ B)))
  <2>4. /\ {a, b, c, d, u, tc, td, oc, od} \subseteq Nat
        /\ a <= c /\ b <= d
        /\ tc <= a /\ tc <= b /\ td = a + b - tc /\ td <= u
        /\ a <= td /\ b <= td
        /\ oc <= u /\ c - a <= oc /\ d - b <= oc /\ c + d - u <= oc
        /\ od <= u /\ od <= a + b + (c - a) /\ od <= a + b + (d - b)
        /\ a <= od /\ b <= od /\ c + d - u <= od
    BY <2>3
  <2> HIDE DEF a, b, c, d, u, tc, td, oc, od
  <2>5. tc >= a + b - u /\ td <= a + b
    BY <2>4
  <2>6. /\ a <= c /\ b <= d
        /\ tc <= a /\ tc <= b /\ tc >= a + b - u
        /\ oc <= u /\ oc >= c - a /\ oc >= d - b /\ oc >= c + d - u
        /\ td <= u /\ td <= a + b /\ td >= a /\ td >= b
        /\ od <= u /\ od <= a + b + (c - a) /\ od <= a + b + (d - b)
        /\ od >= a /\ od >= b /\ od >= c + d - u
        /\ {a, b, c, d, u, tc, oc, td, od} \subseteq Nat
    BY <2>4, <2>5
  <2>7. /\ tc = Cardinality(True(Build("C", p, q), O))
        /\ oc = Cardinality(Seen(Build("C", p, q), O))
        /\ td = Cardinality(True(Build("D", p, q), O))
        /\ od = Cardinality(Seen(Build("D", p, q), O))
    <3> HIDE DEF True, Seen
    <3> QED BY <2>1 DEF tc, td, oc, od
  <2>8. /\ a = Cardinality(True(p, O)) /\ b = Cardinality(True(q, O))
        /\ c = Cardinality(Seen(p, O)) /\ d = Cardinality(Seen(q, O))
        /\ u = Cardinality(Seen(p, O) \cup Seen(q, O))
    BY DEF a, b, c, d, u, A, B, C, D
  <2> HIDE DEF True, Seen, p, q
  <2> QED BY <2>6, <2>7, <2>8
<1>7. /\ pc.tf = Cardinality(True(p, Failing)) /\ pc.of = Cardinality(Seen(p, Failing))
      /\ pc.ts = Cardinality(True(p, Passing)) /\ pc.os = Cardinality(Seen(p, Passing))
      /\ qc.tf = Cardinality(True(q, Failing)) /\ qc.of = Cardinality(Seen(q, Failing))
      /\ qc.ts = Cardinality(True(q, Passing)) /\ qc.os = Cardinality(Seen(q, Passing))
  BY <1>1, CountsOf
<1>8. ASSUME NEW kd \in {"C", "D"}
      PROVE  LET real == Counts(Build(kd, p, q))
             IN  /\ real.tf = Cardinality(True(Build(kd, p, q), Failing))
                 /\ real.of = Cardinality(Seen(Build(kd, p, q), Failing))
                 /\ real.ts = Cardinality(True(Build(kd, p, q), Passing))
                 /\ real.os = Cardinality(Seen(Build(kd, p, q), Passing))
  BY CountsOf DEF Build, Conjunction, Disjunction, SuiteOf, Counts
<1>9. /\ pc \in [tf : Nat, ts : Nat, of : Nat, os : Nat]
      /\ qc \in [tf : Nat, ts : Nat, of : Nat, os : Nat]
      /\ pc.tf <= pc.of /\ pc.ts <= pc.os /\ qc.tf <= qc.of /\ qc.ts <= qc.os
  <2>1. /\ Cardinality(True(p, Failing)) \in Nat /\ Cardinality(Seen(p, Failing)) \in Nat
        /\ Cardinality(True(q, Failing)) \in Nat /\ Cardinality(Seen(q, Failing)) \in Nat
        /\ Cardinality(True(p, Passing)) \in Nat /\ Cardinality(Seen(p, Passing)) \in Nat
        /\ Cardinality(True(q, Passing)) \in Nat /\ Cardinality(Seen(q, Passing)) \in Nat
        /\ Cardinality(True(p, Failing)) <= Cardinality(Seen(p, Failing))
        /\ Cardinality(True(q, Failing)) <= Cardinality(Seen(q, Failing))
        /\ Cardinality(True(p, Passing)) <= Cardinality(Seen(p, Passing))
        /\ Cardinality(True(q, Passing)) <= Cardinality(Seen(q, Passing))
    BY <1>6
  <2>2. /\ pc = [tf |-> pc.tf, ts |-> pc.ts, of |-> pc.of, os |-> pc.os]
        /\ qc = [tf |-> qc.tf, ts |-> qc.ts, of |-> qc.of, os |-> qc.os]
    BY DEF Counts
  <2> HIDE DEF pc, qc, True, Seen
  <2> QED BY <1>7, <2>1, <2>2
<1>10. ASSUME NEW kd \in {"C", "D"}
       PROVE  LET real == Counts(Build(kd, p, q))
              IN  real.tf \in Nat /\ real.ts \in Nat /\ real.of \in Nat /\ real.os \in Nat
  BY <1>6, <1>8
<1>11. CASE kind = "C"
  <2> DEFINE real == Counts(Build("C", p, q))
             con == EstimateConjunction(pc, qc, s)
  <2>1. /\ real.tf <= pc.tf /\ real.tf <= qc.tf
        /\ real.of >= pc.of - pc.tf /\ real.of >= qc.of - qc.tf
        /\ real.of >= pc.of + qc.of - Cardinality(Seen(p, Failing) \cup Seen(q, Failing))
        /\ Cardinality(Seen(p, Failing) \cup Seen(q, Failing)) \in Nat
    BY <1>6, <1>7, <1>8
  <2>2. /\ real.os <= Cardinality(Seen(p, Passing) \cup Seen(q, Passing))
        /\ real.ts >= pc.ts + qc.ts - Cardinality(Seen(p, Passing) \cup Seen(q, Passing))
        /\ Cardinality(Seen(p, Passing) \cup Seen(q, Passing)) \in Nat
    BY <1>6, <1>7, <1>8
  <2>3. /\ con.tf = IF pc.tf <= qc.tf THEN pc.tf ELSE qc.tf
        /\ con.os \in Int /\ con.os >= s
        /\ con.ts = 0 \/ con.ts = pc.ts + qc.ts - s
        /\ \/ con.of = pc.of - pc.tf \/ con.of = qc.of - qc.tf
           \/ con.of = pc.of + qc.of - n
    <3> HIDE DEF pc, qc, s
    <3>1. s \in Int /\ allFailures.failures \in Nat
      BY <1>2, <1>3
    <3> QED BY <1>9, <3>1, EstimateArithmetic, Zenon
  <2>4. Estimate(kind, p, q) = con /\ Build(kind, p, q) = Build("C", p, q)
    BY <1>11 DEF Estimate
  <2>5. real.tf \in Nat /\ real.ts \in Nat /\ real.of \in Nat /\ real.os \in Nat
    BY <1>10
  <2> HIDE DEF real, con, pc, qc, s, n, Seen, True
  <2>6. con.tf >= real.tf /\ con.os >= real.os /\ con.ts <= real.ts /\ con.of <= real.of
    BY <1>2, <1>3, <1>5, <1>9, <2>1, <2>2, <2>3, <2>5
  <2> QED BY <2>4, <2>6 DEF real, p, q
<1>12. CASE kind = "D"
  <2> DEFINE real == Counts(Build("D", p, q))
             dis == EstimateDisjunction(pc, qc, s)
  <2>1. /\ real.tf <= Cardinality(Seen(p, Failing) \cup Seen(q, Failing))
        /\ real.tf <= pc.tf + qc.tf /\ real.of >= pc.tf /\ real.of >= qc.tf
        /\ real.of >= pc.of + qc.of - Cardinality(Seen(p, Failing) \cup Seen(q, Failing))
        /\ Cardinality(Seen(p, Failing) \cup Seen(q, Failing)) \in Nat
    BY <1>6, <1>7, <1>8
  <2>2. /\ real.os <= Cardinality(Seen(p, Passing) \cup Seen(q, Passing))
        /\ real.os <= pc.ts + qc.ts + (pc.os - pc.ts)
        /\ real.os <= pc.ts + qc.ts + (qc.os - qc.ts)
        /\ real.ts >= pc.ts /\ real.ts >= qc.ts
        /\ Cardinality(Seen(p, Passing) \cup Seen(q, Passing)) \in Nat
    BY <1>6, <1>7, <1>8
  <2>3. /\ dis.tf = n \/ dis.tf = pc.tf + qc.tf
        /\ \/ dis.os = s \/ dis.os = pc.ts + qc.ts + (pc.os - pc.ts)
           \/ dis.os = pc.ts + qc.ts + (qc.os - qc.ts)
        /\ dis.ts = pc.ts \/ dis.ts = qc.ts
        /\ dis.of = pc.tf \/ dis.of = qc.tf \/ dis.of = pc.of + qc.of - n
    <3> HIDE DEF pc, qc, s
    <3>1. s \in Int /\ allFailures.failures \in Nat
      BY <1>2, <1>3
    <3> QED BY <1>9, <3>1, EstimateArithmetic, Zenon
  <2>4. Estimate(kind, p, q) = dis /\ Build(kind, p, q) = Build("D", p, q)
    BY <1>12 DEF Estimate
  <2>5. real.tf \in Nat /\ real.ts \in Nat /\ real.of \in Nat /\ real.os \in Nat
    BY <1>10
  <2> HIDE DEF real, dis, pc, qc, s, n, Seen, True
  <2>6. dis.tf >= real.tf /\ dis.os >= real.os /\ dis.ts <= real.ts /\ dis.of <= real.of
    BY <1>2, <1>3, <1>5, <1>9, <2>1, <2>2, <2>3, <2>5
  <2> QED BY <2>4, <2>6 DEF real, p, q
<1> QED BY <1>11, <1>12

\* The estimates of a complex predicate bound its counts, however the run sets
\* of its members overlap and however far dilution has gone, as long as no
\* failing run is held out: the static count of successes is that of all runs
\* at hand less all failures.
THEOREM Estimates ==
    ASSUME HeldOut \cap Failing = {}
    PROVE  Spec => []EstimatesBound
<1>1. IInv => EstimatesBound
  BY EstimateBounds DEF EstimatesBound
<1> QED BY <1>1, InitIInv, NextIInv, PTL DEF Spec

-----------------------------------------------------------------------------
(* The search *)

Quadruple == [tf : Nat, ts : Nat, of : Nat, os : Nat]
AtLeastAsGood(e, r) ==
    e.tf >= r.tf /\ e.os >= r.os /\ e.ts <= r.ts /\ e.of <= r.of

\* Complex::score and the score that combine estimates, when n failures are left.
ScoreOf(e, n) == IF e.tf = 0 \/ StrictBound(e) < 0 THEN 0 ELSE Score(e, n)
EstimatedScoreOf(e, n) ==
    IF e.tf + e.ts = 0 \/ e.of + e.os = 0 THEN 0 ELSE ScoreOf(e, n)

\* What the pruning in combine presumes: evidence that is as good in each of the
\* four counts does not score less.
MonotoneStatistics ==
    \A e \in Quadruple, r \in Evidence, n \in 0..Cardinality(Failing) :
        AtLeastAsGood(e, r) /\ r.tf <= r.of /\ r.ts <= r.os =>
            /\ EstimatedScoreOf(e, n) \in Nat
            /\ EstimatedScoreOf(e, n) >= ScoreOf(r, n)

\* No estimate is negative.
LEMMA EstimateType ==
    ASSUME NEW p \in Quadruple, NEW q \in Quadruple,
           p.tf <= p.of, p.ts <= p.os, q.tf <= q.of, q.ts <= q.os,
           NEW s \in Nat, allFailures.failures \in Nat
    PROVE  EstimateConjunction(p, q, s) \in Quadruple
           /\ EstimateDisjunction(p, q, s) \in Quadruple
<1> DEFINE n == allFailures.failures
           pf == p.of - p.tf
           ps == p.os - p.ts
           qf == q.of - q.tf
           qs == q.os - q.ts
<1>1. /\ p.tf \in Nat /\ p.ts \in Nat /\ p.of \in Nat /\ p.os \in Nat
      /\ q.tf \in Nat /\ q.ts \in Nat /\ q.of \in Nat /\ q.os \in Nat
  BY DEF Quadruple
<1>2. pf \in Nat /\ ps \in Nat /\ qf \in Nat /\ qs \in Nat /\ n \in Nat
  BY <1>1
<1>3. \A a, b \in Nat : Max({a, b}) \in Nat /\ Min({a, b}) \in Nat
  BY MaxOfTwo
<1>4. \A b \in Int : Max({0, b}) \in Nat
  BY MaxOfTwo
<1>5. /\ EstimateConjunction(p, q, s) =
            [tf |-> Min({p.tf, q.tf}), os |-> Max({s, ps + qs + Min({p.ts, q.ts})}),
             ts |-> Max({0, p.ts + q.ts - s}),
             of |-> Max({pf, qf}) + Max({0, p.tf + q.tf + Min({pf, qf}) - n})]
      /\ EstimateDisjunction(p, q, s) =
            [tf |-> Min({n, p.tf + q.tf}),
             os |-> Min({s, p.ts + q.ts + Min({ps, qs})}),
             ts |-> Max({p.ts, q.ts}),
             of |-> Max({p.tf, q.tf}) + Max({0, pf + qf + Min({p.tf, q.tf}) - n})]
  BY DEF EstimateConjunction, EstimateDisjunction
<1> HIDE DEF n, pf, ps, qf, qs
<1>6. /\ Min({p.tf, q.tf}) \in Nat /\ Min({p.ts, q.ts}) \in Nat /\ Min({pf, qf}) \in Nat
      /\ Min({ps, qs}) \in Nat /\ Max({pf, qf}) \in Nat /\ Max({p.ts, q.ts}) \in Nat
      /\ Max({p.tf, q.tf}) \in Nat
  BY <1>1, <1>2, <1>3
<1> DEFINE a1 == ps + qs + Min({p.ts, q.ts})
           a2 == p.ts + q.ts - s
           a3 == p.tf + q.tf + Min({pf, qf}) - n
           b1 == p.tf + q.tf
           b2 == p.ts + q.ts + Min({ps, qs})
           b3 == pf + qf + Min({p.tf, q.tf}) - n
<1>7. a1 \in Nat /\ a2 \in Int /\ a3 \in Int /\ b1 \in Nat /\ b2 \in Nat /\ b3 \in Int
  BY <1>1, <1>2, <1>6
<1> HIDE DEF a1, a2, a3, b1, b2, b3
<1>8. /\ Max({s, a1}) \in Nat /\ Max({0, a2}) \in Nat /\ Max({0, a3}) \in Nat
      /\ Min({n, b1}) \in Nat /\ Min({s, b2}) \in Nat /\ Max({0, b3}) \in Nat
  BY <1>2, <1>3, <1>4, <1>7
<1>9. /\ Max({pf, qf}) + Max({0, a3}) \in Nat /\ Max({p.tf, q.tf}) + Max({0, b3}) \in Nat
  BY <1>6, <1>8
<1>10. EstimateConjunction(p, q, s) \in Quadruple
  BY <1>5, <1>6, <1>8, <1>9 DEF Quadruple, a1, a2, a3
<1>11. EstimateDisjunction(p, q, s) \in Quadruple
  BY <1>5, <1>6, <1>8, <1>9 DEF Quadruple, b1, b2, b3
<1> QED BY <1>10, <1>11

\* The score of a pair is not above the one that combine estimates for it.
LEMMA EstimatedScoreBounds ==
    ASSUME IInv, HeldOut \cap Failing = {}, MonotoneStatistics,
           Exact, phase = "ranking", NEW c \in Pairs
    PROVE  LET estimate == EstimatedScore(Estimate(c[1], candidates[c[2]], candidates[c[3]]))
           IN  /\ Complex(c).score \in Nat /\ estimate \in Nat
               /\ Complex(c).score <= estimate
<1> DEFINE x == c[2]
           y == c[3]
           kind == c[1]
           p == candidates[x]
           q == candidates[y]
           built == Build(kind, p, q)
           real == Counts(built)
           e == Estimate(kind, p, q)
           n == allFailures.failures
<1>1. kind \in {"C", "D"} /\ x \in DOMAIN candidates /\ y \in DOMAIN candidates
  BY DEF Pairs
<1>2. n \in 0..Cardinality(Failing) /\ n \in Nat
  BY RunsAreFinite DEF IInv, FailuresInv
<1>3. \A z \in DOMAIN candidates :
         /\ candidates[z].tru = SuiteOf(candidates[z].tru.runs)
         /\ candidates[z].obs = SuiteOf(candidates[z].obs.runs)
         /\ candidates[z].tru.runs \subseteq candidates[z].obs.runs
         /\ Counts(candidates[z]) \in Evidence
  BY DEF IInv, CandidatesInv
<1>4. ASSUME NEW data, data.tru = SuiteOf(data.tru.runs), data.obs = SuiteOf(data.obs.runs),
             data.tru.runs \subseteq data.obs.runs
      PROVE  /\ Counts(data) \in Evidence /\ Counts(data) \in Quadruple
             /\ Counts(data).tf <= Counts(data).of /\ Counts(data).ts <= Counts(data).os
  <2> DEFINE T == data.tru.runs
             O == data.obs.runs
  <2>1. /\ Counts(data).tf = Cardinality(T \cap Failing)
        /\ Counts(data).ts = Cardinality(T \cap Passing)
        /\ Counts(data).of = Cardinality(O \cap Failing)
        /\ Counts(data).os = Cardinality(O \cap Passing)
    BY <1>4, CountsOf
  <2>2. T \cap Failing \subseteq O \cap Failing /\ T \cap Passing \subseteq O \cap Passing
    BY <1>4
  <2> HIDE DEF T, O
  <2>3. /\ Cardinality(T \cap Failing) <= Cardinality(O \cap Failing)
        /\ Cardinality(T \cap Passing) <= Cardinality(O \cap Passing)
    BY <2>2, RunsAreFinite, SmallerSetCountsLess
  <2>4. /\ Cardinality(T \cap Failing) \in 0..Cardinality(Failing)
        /\ Cardinality(T \cap Passing) \in 0..Cardinality(Passing)
        /\ Cardinality(O \cap Failing) \in 0..Cardinality(Failing)
        /\ Cardinality(O \cap Passing) \in 0..Cardinality(Passing)
        /\ Cardinality(Failing) \in Nat /\ Cardinality(Passing) \in Nat
    BY RunsAreFinite
  <2>5. Counts(data) = [tf |-> Counts(data).tf, ts |-> Counts(data).ts,
                        of |-> Counts(data).of, os |-> Counts(data).os]
    BY DEF Counts
  <2> QED BY <2>1, <2>3, <2>4, <2>5 DEF Evidence, Quadruple
<1>5. built.tru = SuiteOf(built.tru.runs) /\ built.obs = SuiteOf(built.obs.runs)
      /\ built.tru.runs \subseteq built.obs.runs
  <2>1. p.tru.runs \subseteq p.obs.runs /\ q.tru.runs \subseteq q.obs.runs
    BY <1>1, <1>3
  <2>2. \A runs : SuiteOf(runs).runs = runs
    BY DEF SuiteOf
  <2> HIDE DEF p, q
  <2>3. CASE kind = "C"
    BY <2>1, <2>2, <2>3 DEF Build, Conjunction
  <2>4. CASE kind = "D"
    BY <2>1, <2>2, <2>4 DEF Build, Disjunction
  <2> QED BY <1>1, <2>3, <2>4
<1>6. real \in Evidence /\ real.tf <= real.of /\ real.ts <= real.os
  <2> HIDE DEF built
  <2> QED BY <1>4, <1>5
<1>7. e \in Quadruple
  <2> DEFINE s == Successes(kind)
             pc == Counts(p)
             qc == Counts(q)
  <2>1. s \in Nat
    <3>1. /\ SuccessesNow \in Int /\ SuccessesNow >= Cardinality(Passing \ HeldOut)
      BY EnoughSuccesses
    <3>2. s \in Int /\ s >= Cardinality(Passing \ HeldOut)
      BY <1>1, <3>1 DEF Successes, IInv, SuccessesInv
    <3>3. Cardinality(Passing \ HeldOut) \in Nat
      BY RunAssumption, FS_Difference, FS_CardinalityType
    <3> HIDE DEF s
    <3> QED BY <3>2, <3>3
  <2>2. /\ pc \in Quadruple /\ pc.tf <= pc.of /\ pc.ts <= pc.os
        /\ qc \in Quadruple /\ qc.tf <= qc.of /\ qc.ts <= qc.os
    <3> HIDE DEF p, q
    <3> QED BY <1>1, <1>3, <1>4 DEF p, q
  <2>3. e = IF kind = "C" THEN EstimateConjunction(pc, qc, s) ELSE EstimateDisjunction(pc, qc, s)
    BY DEF Estimate
  <2> HIDE DEF s, pc, qc, e
  <2>4. EstimateConjunction(pc, qc, s) \in Quadruple /\ EstimateDisjunction(pc, qc, s) \in Quadruple
    BY <1>2, <2>1, <2>2, EstimateType
  <2> QED BY <2>3, <2>4
<1>8. AtLeastAsGood(e, real)
  BY <1>1, EstimateBounds DEF AtLeastAsGood
<1>9. Complex(c).score = ComplexScore(real) /\ ComplexScore(real) = ScoreOf(real, n)
      /\ EstimatedScore(e) = EstimatedScoreOf(e, n)
  BY DEF Complex, ComplexScore, ScoreOf, EstimatedScore, EstimatedScoreOf
<1> HIDE DEF e, real, n
<1>10. ScoreOf(real, n) \in Nat
  BY <1>2, <1>6, ScoreAssumption DEF ScoreOf
<1>11. EstimatedScoreOf(e, n) \in Nat /\ EstimatedScoreOf(e, n) >= ScoreOf(real, n)
  BY <1>2, <1>6, <1>7, <1>8 DEF MonotoneStatistics
<1>12. Complex(c).score \in Nat /\ EstimatedScore(e) \in Nat /\ Complex(c).score <= EstimatedScore(e)
  BY <1>9, <1>10, <1>11
<1> QED BY <1>12 DEF e

\* After some pairs D, combine has kept a complex predicate as good as any of them
\* that beats the simple one, and prunes by no more than what it has.
Best(s, simple, D) ==
    /\ s.minMax \in Nat
    /\ s.result # << >> => s.result[1].score \in Nat
    /\ s.minMax <= simple \/ (s.result # << >> /\ s.minMax <= s.result[1].score)
    /\ \A c \in D :
          /\ Complex(c).score \in Nat
          /\ IsInteresting(Complex(c)) /\ Complex(c).score > simple =>
                s.result # << >> /\ Complex(c).score <= s.result[1].score

LEMMA ConsiderBest ==
    ASSUME NEW s, Keeps(s), NEW simple \in Nat, NEW D, Best(s, simple, D),
           NEW c \in Pairs, NEW t \in Consider(s, c),
           LET estimate == EstimatedScore(Estimate(c[1], candidates[c[2]], candidates[c[3]]))
           IN  /\ Complex(c).score \in Nat /\ estimate \in Nat
               /\ Complex(c).score <= estimate
    PROVE  Best(t, simple, D \cup {c})
<1> DEFINE full     == s.result # << >>
           estimate == EstimatedScore(Estimate(c[1], candidates[c[2]], candidates[c[3]]))
           seen     == [s EXCEPT !.estimated = IF full THEN @ \cup {c[1]} ELSE @]
           new      == Complex(c)
           keep(x)  == [seen EXCEPT !.result = <<x>>, !.minMax = IF full THEN x.score ELSE @]
<1>1. DOMAIN s = {"result", "minMax", "estimated"}
  BY DEF Keeps
<1>2. seen.result = s.result /\ seen.minMax = s.minMax
  BY <1>1
<1>3. ASSUME NEW x
      PROVE  /\ keep(x).result = <<x>> /\ keep(x).result # << >> /\ keep(x).result[1] = x
             /\ keep(x).minMax = IF full THEN x.score ELSE s.minMax
  <2>1. DOMAIN seen = {"result", "minMax", "estimated"}
    BY <1>1
  <2>2. keep(x).result = <<x>>
    BY <2>1
  <2>3. keep(x).minMax = IF full THEN x.score ELSE seen.minMax
    BY <2>1
  <2> HIDE DEF keep, seen
  <2> QED BY <1>2, <2>2, <2>3
<1>4. t = IF (full /\ estimate < s.minMax) \/ ~IsInteresting(new) THEN seen ELSE t
  BY DEF Consider
<1>5. ~((full /\ estimate < s.minMax) \/ ~IsInteresting(new)) =>
        \/ (~full \/ new.score > s.result[1].score) /\ t = keep(new)
        \/ full /\ new.score < s.result[1].score /\ t = keep(s.result[1])
        \/ /\ full /\ ~(new.score > s.result[1].score) /\ ~(new.score < s.result[1].score)
           /\ t = keep(new) \/ t = keep(s.result[1])
  BY DEF Consider
<1> HIDE DEF seen, keep, full
<1>6. new.score \in Nat /\ estimate \in Nat /\ new.score <= estimate
  OBVIOUS
<1> HIDE DEF new, estimate
<1>7. /\ s.minMax \in Nat /\ (full => s.result[1].score \in Nat)
      /\ s.minMax <= simple \/ (full /\ s.minMax <= s.result[1].score)
      /\ \A d \in D :
            /\ Complex(d).score \in Nat
            /\ IsInteresting(Complex(d)) /\ Complex(d).score > simple =>
                  full /\ Complex(d).score <= s.result[1].score
  BY DEF Best, full
<1>8. CASE ~IsInteresting(new)
  <2>1. t = seen
    BY <1>4, <1>8
  <2>2. \A d \in D \cup {c} : IsInteresting(Complex(d)) => d \in D
    BY <1>8 DEF new
  <2> QED BY <1>2, <1>7, <2>1, <2>2 DEF Best, full
<1>9. CASE full /\ estimate < s.minMax
  <2>1. t = seen
    BY <1>4, <1>9
  <2>2. new.score > simple => new.score <= s.result[1].score
    BY <1>6, <1>7, <1>9
  <2> QED BY <1>2, <1>7, <1>9, <2>1, <2>2 DEF Best, full, new
<1>10. CASE IsInteresting(new) /\ ~(full /\ estimate < s.minMax)
  <2>1. CASE (~full \/ new.score > s.result[1].score) /\ t = keep(new)
    <3>1. t.result # << >> /\ t.result[1] = new /\ t.minMax = IF full THEN new.score ELSE s.minMax
      BY <1>3, <2>1
    <3>2. \A d \in D : IsInteresting(Complex(d)) /\ Complex(d).score > simple =>
             full /\ Complex(d).score <= new.score
      <4> SUFFICES ASSUME NEW d \in D, IsInteresting(Complex(d)), Complex(d).score > simple
                   PROVE  full /\ Complex(d).score <= new.score
        OBVIOUS
      <4>1. /\ full /\ Complex(d).score <= s.result[1].score
            /\ Complex(d).score \in Nat
        BY <1>7
      <4>2. new.score > s.result[1].score
        BY <2>1, <4>1
      <4> QED BY <1>6, <1>7, <4>1, <4>2
    <3> QED BY <1>6, <1>7, <3>1, <3>2 DEF Best, new
  <2>2. CASE full /\ new.score <= s.result[1].score /\ t = keep(s.result[1])
    <3>1. t.result # << >> /\ t.result[1] = s.result[1] /\ t.minMax = s.result[1].score
      BY <1>3, <2>2
    <3> QED BY <1>6, <1>7, <2>2, <3>1 DEF Best, new
  <2>3. CASE full /\ new.score = s.result[1].score /\ t = keep(new)
    <3>1. t.result # << >> /\ t.result[1] = new /\ t.minMax = new.score
      BY <1>3, <2>3
    <3> QED BY <1>6, <1>7, <2>3, <3>1 DEF Best, new
  <2>4. full /\ ~(new.score > s.result[1].score) /\ ~(new.score < s.result[1].score) =>
          new.score = s.result[1].score /\ new.score <= s.result[1].score
    BY <1>6, <1>7
  <2>5. full /\ new.score < s.result[1].score => new.score <= s.result[1].score
    BY <1>6, <1>7
  <2> QED BY <1>5, <1>10, <2>1, <2>2, <2>3, <2>4, <2>5
<1> QED BY <1>8, <1>9, <1>10

\* combine returns the best complex predicate that beats the best simple one, in
\* every round of an exact ranking and however its estimates prune the search:
\* provided that the statistics are monotone, which they are without the error
\* terms of their confidence intervals.  (main.cc combine)
THEOREM Search ==
    ASSUME HeldOut \cap Failing = {}, MonotoneStatistics
    PROVE  Spec => []CombineFindsBest
<1>1. IInv => CombineFindsBest
  <2> SUFFICES ASSUME IInv, Exact, mode.complex, phase = "ranking",
                      NEW list \in Sorted, list # << >>,
                      NEW found \in Combine(list)
               PROVE  \A c \in ToSet(Considered(list)) :
                        IsInteresting(Complex(c)) /\ Complex(c).score > Effective(list[1]) =>
                           found.result # << >> /\ Complex(c).score <= found.result[1].score
    BY DEF CombineFindsBest
  <2> DEFINE pairs == Considered(list)
             n == Len(pairs)
             simple == Effective(list[1])
             first == [result |-> << >>, minMax |-> simple, estimated |-> {}]
             Seen(i) == {pairs[j] : j \in 1..i}
  <2>1. list \in Seq(DOMAIN candidates) /\ list[1] \in DOMAIN candidates
    BY ListType DEF IInv
  <2>2. simple \in Nat
    <3>1. Counts(candidates[list[1]]) \in Evidence /\ allFailures.failures \in 0..Cardinality(Failing)
      BY <2>1 DEF IInv, CandidatesInv, FailuresInv
    <3> QED BY <3>1, ScoreAssumption DEF Effective
  <2>3. n \in Nat /\ \A i \in 1..n : pairs[i] \in Pairs
    BY <2>1, CombineFolds
  <2>4. PICK after :
          /\ Combine(list) = after[n]
          /\ \A i \in 0..n :
                after[i] = IF i = 0 THEN {first}
                           ELSE UNION {Consider(s, pairs[i]) : s \in after[i - 1]}
    BY <2>1, CombineFolds
  <2>5. ToSet(pairs) = Seen(n)
    <3>1. pairs \in Seq({"C", "D"} \X (DOMAIN candidates) \X (DOMAIN candidates))
      BY <2>1, ConsideredType
    <3> HIDE DEF pairs
    <3>2. DOMAIN pairs = 1..n
      BY <3>1, LenProperties
    <3> QED BY <3>2 DEF ToSet
  <2> HIDE DEF pairs, simple
  <2> DEFINE U == {i \in 0..n : ~\A s \in after[i] : Keeps(s) /\ Best(s, simple, Seen(i))}
  <2>6. U = {}
    <3> SUFFICES ASSUME U # {} PROVE FALSE
      OBVIOUS
    <3>1. PICK i \in U : \A y \in U : i <= y
      <4>1. U \in SUBSET Nat
        BY <2>3
      <4> HIDE DEF U
      <4> QED BY <4>1, LeastNumber
    <3>2. i \in 0..n
      OBVIOUS
    <3>3. PICK t \in after[i] : ~(Keeps(t) /\ Best(t, simple, Seen(i)))
      OBVIOUS
    <3>4. after[i] = IF i = 0 THEN {first}
                     ELSE UNION {Consider(s, pairs[i]) : s \in after[i - 1]}
      BY <2>4, <3>2
    <3>5. CASE i = 0
      <4>1. t = first
        BY <3>3, <3>4, <3>5
      <4>2. Seen(i) = {}
        BY <3>5
      <4> HIDE DEF Seen
      <4>3. t.minMax = simple /\ t.result = << >> /\ Keeps(t)
        BY <4>1 DEF Keeps
      <4>4. Best(t, simple, Seen(i))
        BY <2>2, <4>2, <4>3 DEF Best
      <4> QED BY <3>3, <4>3, <4>4
    <3>6. CASE i # 0
      <4>1. i - 1 \in 0..n /\ ~(i <= i - 1) /\ i \in 1..n
        BY <2>3, <3>2, <3>6
      <4>2. i - 1 \notin U
        <5> HIDE DEF U
        <5> QED BY <3>1, <4>1
      <4>3. PICK s \in after[i - 1] : t \in Consider(s, pairs[i])
        BY <3>3, <3>4, <3>6
      <4>4. Keeps(s) /\ Best(s, simple, Seen(i - 1))
        BY <4>1, <4>2
      <4>5. Seen(i) = Seen(i - 1) \cup {pairs[i]}
        <5>1. 1..i = 1..(i - 1) \cup {i}
          BY <4>1
        <5> QED BY <5>1
      <4> DEFINE c == pairs[i]
      <4>6. c \in Pairs /\ t \in Consider(s, c)
        BY <2>3, <4>1, <4>3
      <4> HIDE DEF c, Seen
      <4>7. LET estimate == EstimatedScore(Estimate(c[1], candidates[c[2]], candidates[c[3]]))
            IN  /\ Complex(c).score \in Nat /\ estimate \in Nat
                /\ Complex(c).score <= estimate
        BY <4>6, EstimatedScoreBounds
      <4>8. Keeps(t)
        BY <4>4, <4>6, ConsiderKeeps
      <4>9. Best(t, simple, Seen(i - 1) \cup {c})
        BY <2>2, <4>4, <4>6, <4>7, ConsiderBest
      <4> QED BY <3>3, <4>5, <4>8, <4>9 DEF c
    <3> QED BY <3>5, <3>6
  <2>7. Best(found, simple, Seen(n))
    <3>1. n \in 0..n
      BY <2>3
    <3> QED BY <2>4, <2>6, <3>1
  <2> QED BY <2>5, <2>7 DEF Best, simple, pairs
<1> QED BY <1>1, InitIInv, NextIInv, PTL DEF Spec
=============================================================================
