------------------------------ MODULE Ranking ------------------------------
(***************************************************************************)
(* The corrective ranking of cbiexp: from predicates that were observed    *)
(* and true in some of the runs of a program, pick the best predictor of   *)
(* failure, discount the runs it explains from all others, and repeat.     *)
(* Optionally a conjunction or disjunction of two predicates may win.      *)
(* corrective-ranking/exact-complete and .../approximate-complete are one  *)
(* program with two ways to discount; both are here.                       *)
(*                                                                         *)
(* The statistics are floating point in the code.  Here they are operators *)
(* of the four counts they are computed from, of which only the            *)
(* assumptions below are used.                                             *)
(***************************************************************************)
EXTENDS Integers, FiniteSetsExt, SequencesExt

CONSTANTS
    Failing, Passing, \* the runs of f.runs and of s.runs
    HeldOut,          \* ... those before --begin-runs, of which no data is loaded
    Predicate,        \* the lines of preds.txt
    Modes,            \* set of [dilution : {"exact", "approximate"}, complex : BOOLEAN,
                      \*         zoom : {"none", "winners", "all"}]
    LowerBound(_),    \* Predicate::lowerBound: only its sign matters
    StrictBound(_),   \* Complex::lowerBound, at 99% confidence
    Score(_, _),      \* Predicate::score, of the counts and allFailures.count
    Unset             \* a static variable that is not initialised yet

Run == Failing \cup Passing

\* tru.failures, tru.successes, obs.failures, obs.successes
Evidence == [tf : 0..Cardinality(Failing), ts : 0..Cardinality(Passing),
             of : 0..Cardinality(Failing), os : 0..Cardinality(Passing)]

ASSUME RunAssumption ==
    /\ IsFiniteSet(Failing) /\ IsFiniteSet(Passing)
    /\ Failing \cap Passing = {}
    /\ HeldOut \subseteq Run

ASSUME PredicateAssumption == IsFiniteSet(Predicate)

\* badness - context - error is positive only if badness is.
ASSUME BoundAssumption ==
    \A e \in Evidence : LowerBound(e) \in Int /\ (LowerBound(e) > 0 => e.tf > 0)

ASSUME ScoreAssumption ==
    \A e \in Evidence, n \in 0..Cardinality(Failing) : Score(e, n) \in Nat

VARIABLES
    mode,        \* how this process was built and called
    phase,       \* "ranking", "zooming", "done"
    loaded,      \* Predicate -> what obs.txt and tru.txt say of it
    candidates,  \* the list: surviving predicates -> their diluted data
    allFailures, \* the global
    succ,        \* the static variables of the two estimate() functions
    winners,     \* what was printed: a sequence of [preds, kind, tru]
    zoomed       \* predicates with a zoom view

vars == <<mode, phase, loaded, candidates, allFailures, succ, winners, zoomed>>

-----------------------------------------------------------------------------
(* Run sets: a bit vector, and a count of its own *)

\* RunSuite: a run set of failures and one of successes.  A run has but one
\* outcome, so that one set stands for the two vectors.
SuiteOf(runs) == [runs |-> runs, failures |-> Cardinality(runs \cap Failing),
                                 successes |-> Cardinality(runs \cap Passing)]

\* exact-complete: the winner's runs are removed.
Erase(suite, runs) ==
    [runs      |-> suite.runs \ runs,
     failures  |-> suite.failures - Cardinality(suite.runs \cap runs \cap Failing),
     successes |-> suite.successes - Cardinality(suite.runs \cap runs \cap Passing)]

\* Mutated form: earlier discounts are undone.
Discount_Once(suite, runs) ==
    [suite EXCEPT !.failures = Cardinality((suite.runs \ runs) \cap Failing),
                  !.successes = Cardinality((suite.runs \ runs) \cap Passing)]

\* approximate-complete: only the counts go down, and not below zero.
Discount(suite, runs) ==
    LET less(count, outcome) == Max({0, count - Cardinality(suite.runs \cap runs \cap outcome)})
    IN  [suite EXCEPT !.failures = less(@, Failing), !.successes = less(@, Passing)]

Dilute(suite, runs) ==
    IF mode.dilution = "exact" THEN Erase(suite, runs) ELSE Discount(suite, runs)

\* Mutated form: the observations are not diluted.
DilutePredicate_TruOnly(data, runs) == [data EXCEPT !.tru = Dilute(@, runs)]

\* Predicate::dilute: both by what the winner was true in.
DilutePredicate(data, runs) ==
    [tru |-> Dilute(data.tru, runs), obs |-> Dilute(data.obs, runs)]

Counts(data) == [tf |-> data.tru.failures, ts |-> data.tru.successes,
                 of |-> data.obs.failures, os |-> data.obs.successes]

Initial(p) == Score(Counts(loaded[p]), Cardinality(Failing))
Effective(p) == Score(Counts(candidates[p]), allFailures.failures)

-----------------------------------------------------------------------------
(* Complex predicates *)

False(data) == data.obs.runs \ data.tru.runs

Conjunction(p, q) ==
    [tru |-> SuiteOf(p.tru.runs \cap q.tru.runs),
     obs |-> SuiteOf(False(p) \cup False(q) \cup (p.obs.runs \cap q.obs.runs))]

Disjunction(p, q) ==
    LET tru == (p.tru.runs \cap p.obs.runs) \cup (q.tru.runs \cap q.obs.runs)
    IN  [tru |-> SuiteOf(tru), obs |-> SuiteOf(tru \cup (False(p) \cap False(q)))]

Build(kind, p, q) == IF kind = "C" THEN Conjunction(p, q) ELSE Disjunction(p, q)

\* NumRuns::count() - fail, as whichever call comes first computes it.
SuccessesNow == Cardinality(Run \ HeldOut) - allFailures.failures
Successes(kind) == IF succ[kind] = Unset THEN SuccessesNow ELSE succ[kind]

\* Mutated form: what both have is taken for what either has.
EstimateConjunction_Swapped(p, q, s) ==
    LET pbar == [f |-> p.of - p.tf, s |-> p.os - p.ts]
        qbar == [f |-> q.of - q.tf, s |-> q.os - q.ts]
    IN  [tf |-> Min({p.tf, q.tf}), os |-> Max({s, pbar.s + qbar.s + Min({p.ts, q.ts})}),
         ts |-> Max({p.ts, q.ts}),
         of |-> Max({pbar.f, qbar.f})
                + Max({0, p.tf + q.tf + Min({pbar.f, qbar.f}) - allFailures.failures})]

\* Conjunction::estimate, from the counts alone.
EstimateConjunction(p, q, s) ==
    LET pbar == [f |-> p.of - p.tf, s |-> p.os - p.ts]
        qbar == [f |-> q.of - q.tf, s |-> q.os - q.ts]
    IN  [tf |-> Min({p.tf, q.tf}), os |-> Max({s, pbar.s + qbar.s + Min({p.ts, q.ts})}),
         ts |-> Max({0, p.ts + q.ts - s}),
         of |-> Max({pbar.f, qbar.f})
                + Max({0, p.tf + q.tf + Min({pbar.f, qbar.f}) - allFailures.failures})]

\* Mutated form: a disjunction fails where one of its members fails most.
EstimateDisjunction_Max(p, q, s) ==
    LET pbar == [f |-> p.of - p.tf, s |-> p.os - p.ts]
        qbar == [f |-> q.of - q.tf, s |-> q.os - q.ts]
    IN  [tf |-> Max({p.tf, q.tf}),
         os |-> Min({s, p.ts + q.ts + Min({pbar.s, qbar.s})}),
         ts |-> Max({p.ts, q.ts}),
         of |-> Max({p.tf, q.tf})
                + Max({0, pbar.f + qbar.f + Min({p.tf, q.tf}) - allFailures.failures})]

\* Disjunction::estimate.
EstimateDisjunction(p, q, s) ==
    LET pbar == [f |-> p.of - p.tf, s |-> p.os - p.ts]
        qbar == [f |-> q.of - q.tf, s |-> q.os - q.ts]
    IN  [tf |-> Min({allFailures.failures, p.tf + q.tf}),
         os |-> Min({s, p.ts + q.ts + Min({pbar.s, qbar.s})}),
         ts |-> Max({p.ts, q.ts}),
         of |-> Max({p.tf, q.tf})
                + Max({0, pbar.f + qbar.f + Min({p.tf, q.tf}) - allFailures.failures})]

Estimate(kind, p, q) ==
    IF kind = "C" THEN EstimateConjunction(Counts(p), Counts(q), Successes(kind))
                  ELSE EstimateDisjunction(Counts(p), Counts(q), Successes(kind))

\* Complex::score.
ComplexScore(e) ==
    IF e.tf = 0 \/ StrictBound(e) < 0 THEN 0 ELSE Score(e, allFailures.failures)

EstimatedScore(e) == IF e.tf + e.ts = 0 \/ e.of + e.os = 0 THEN 0 ELSE ComplexScore(e)

\* The pairs in the order of combine's loops, a conjunction and a disjunction each.
Considered(list) ==
    LET earlier(i) == FlattenSeq([j \in 1..(i - 1) |->
                          << <<"C", list[i], list[j]>>, <<"D", list[i], list[j]>> >>])
    IN  FlattenSeq([i \in 1..Len(list) |-> earlier(i)])

Complex(c) ==
    LET built == Build(c[1], candidates[c[2]], candidates[c[3]])
    IN  [kind |-> c[1], preds |-> {c[2], c[3]}, tru |-> built.tru,
         score |-> ComplexScore(Counts(built))]

IsInteresting(complex) == \A p \in complex.preds : complex.score > Initial(p)

\* One step of combine with limit = 1.  Of two with the same score the loser
\* is chosen by Complex::delta, which nothing ever sets.
Consider(s, c) ==
    LET full     == s.result # << >>
        estimate == EstimatedScore(Estimate(c[1], candidates[c[2]], candidates[c[3]]))
        seen     == [s EXCEPT !.estimated = IF full THEN @ \cup {c[1]} ELSE @]
        new      == Complex(c)
        keep(x)  == [seen EXCEPT !.result = <<x>>, !.minMax = IF full THEN x.score ELSE @]
    IN  IF (full /\ estimate < s.minMax) \/ ~IsInteresting(new) THEN {seen}
        ELSE IF ~full \/ new.score > s.result[1].score THEN {keep(new)}
        ELSE IF new.score < s.result[1].score THEN {keep(s.result[1])}
        ELSE {keep(new), keep(s.result[1])}

\* What combine may return; nothing without --complex-preds (limit = 0).
Combine(list) ==
    IF ~mode.complex THEN {[result |-> << >>, minMax |-> 0, estimated |-> {}]}
    ELSE LET pairs == Considered(list)
             after[i \in 0..Len(pairs)] ==
                 IF i = 0
                 THEN {[result |-> << >>, minMax |-> Effective(list[1]), estimated |-> {}]}
                 ELSE UNION {Consider(s, pairs[i]) : s \in after[i - 1]}
         IN  after[Len(pairs)]

\* sort() and reverse(): the best first.  Ties depend on the past; any order.
Sorted ==
    {list \in SetToSeqs(DOMAIN candidates) :
        \A i \in 1..(Len(list) - 1) : Effective(list[i]) >= Effective(list[i + 1])}

-----------------------------------------------------------------------------
(* buildView *)

\* AllFailuresSnapshot's destructor, at the end of buildView.
EndView ==
    /\ phase' = "zooming"
    /\ allFailures' = SuiteOf(Failing)

\* Candidates::rescore, after all that is left was diluted.
Survivors(data) == [p \in {p \in DOMAIN data : LowerBound(Counts(data[p])) > 0} |-> data[p]]

\* Mutated form: predicates whose lower bound is gone are kept.
Rescored_All(preds, runs) == [p \in preds |-> DilutePredicate(candidates[p], runs)]

Rescored(preds, runs) == Survivors([p \in preds |-> DilutePredicate(candidates[p], runs)])

\* Mutated form: one failure is left unexplained.
NoneLeft_One(left) == left.failures <= 1

NoneLeft(left) == left.failures <= 0

\* Discount what the winner explains, from allFailures first: when none is left
\* the loop ends there.
Explain(winner, remaining) ==
    LET left == Dilute(allFailures, winner.tru.runs \cap Failing) IN
    /\ winners' = Append(winners, winner)
    /\ IF NoneLeft(left)
       THEN EndView /\ UNCHANGED candidates
       ELSE /\ allFailures' = left
            /\ candidates' = Rescored(remaining, winner.tru.runs)
            /\ UNCHANGED phase

Combined(found) ==
    succ' = [k \in {"C", "D"} |-> IF k \in found.estimated THEN Successes(k) ELSE succ[k]]

\* candidates.erase(winner).
Others(winner) == DOMAIN candidates \ {winner}

\* The best predicate wins: it leaves the list.
SimpleWins ==
    /\ phase = "ranking"
    /\ \E list \in Sorted : list # << >> /\ \E found \in Combine(list) :
          /\ found.result # << >> => found.result[1].score <= Effective(list[1])
          /\ Explain([preds |-> {list[1]}, kind |-> "S", tru |-> candidates[list[1]].tru],
                     Others(list[1]))
          /\ Combined(found)
    /\ UNCHANGED <<mode, loaded, zoomed>>

\* A complex predicate with a better score wins: its members stay.
ComplexWins ==
    /\ phase = "ranking"
    /\ \E list \in Sorted : list # << >> /\ \E found \in Combine(list) :
          /\ found.result # << >> /\ found.result[1].score > Effective(list[1])
          /\ LET best == found.result[1] IN
             Explain([preds |-> best.preds, kind |-> best.kind, tru |-> best.tru],
                     DOMAIN candidates)
          /\ Combined(found)
    /\ UNCHANGED <<mode, loaded, zoomed>>

\* The list is empty, or there are no failures to begin with.
Exhausted ==
    /\ phase = "ranking"
    /\ DOMAIN candidates = {} \/ NoneLeft(allFailures)
    /\ EndView
    /\ UNCHANGED <<mode, loaded, candidates, succ, winners, zoomed>>

\* --zoom: of simple winners (foci), or of all that was loaded.
Wanted == {p \in DOMAIN loaded :
              \/ mode.zoom = "all"
              \/ mode.zoom = "winners" /\ \E i \in DOMAIN winners :
                                          winners[i].kind = "S" /\ winners[i].preds = {p}}

\* buildZoom: on the data as loaded, with a snapshot of its own.
Zoom ==
    /\ phase = "zooming"
    /\ \E p \in Wanted \ zoomed : zoomed' = zoomed \cup {p}
    /\ UNCHANGED <<mode, phase, loaded, candidates, allFailures, succ, winners>>

EndZooms ==
    /\ phase = "zooming"
    /\ Wanted \subseteq zoomed
    /\ phase' = "done"
    /\ UNCHANGED <<mode, loaded, candidates, allFailures, succ, winners, zoomed>>

-----------------------------------------------------------------------------

\* What obs.txt and tru.txt can say of a predicate that prefilter retained.
Data == {data \in {[tru |-> SuiteOf(t), obs |-> SuiteOf(o)] :
                       t \in SUBSET (Run \ HeldOut), o \in SUBSET (Run \ HeldOut)} :
            data.tru.runs \subseteq data.obs.runs /\ LowerBound(Counts(data)) > 0}

Start(data) ==
    /\ phase = "ranking"
    /\ loaded = data /\ candidates = data
    /\ allFailures = SuiteOf(Failing)
    /\ succ = [k \in {"C", "D"} |-> Unset]
    /\ winners = << >> /\ zoomed = {}

Init ==
    /\ mode \in Modes
    /\ \E preds \in SUBSET Predicate : \E data \in [preds -> Data] : Start(data)

\* The process ends; it may not stop earlier.
Finished == phase = "done" /\ UNCHANGED vars

Next ==
    \/ SimpleWins \/ ComplexWins \/ Exhausted
    \/ Zoom \/ EndZooms
    \/ Finished

Spec == Init /\ [][Next]_vars
-----------------------------------------------------------------------------
(* Properties *)

Explained == UNION {winners[i].tru.runs : i \in DOMAIN winners}
Exact == mode.dilution = "exact"

\* Types, and that no count gets out of its range.
TypeOK ==
    /\ mode \in Modes /\ phase \in {"ranking", "zooming", "done"}
    /\ DOMAIN candidates \subseteq DOMAIN loaded
    /\ \A p \in DOMAIN candidates : Counts(candidates[p]) \in Evidence
    /\ allFailures.runs \subseteq Failing
    /\ allFailures.failures \in 0..Cardinality(Failing) /\ allFailures.successes = 0
    /\ \A i \in DOMAIN winners : winners[i].preds \subseteq DOMAIN loaded
    /\ zoomed \subseteq DOMAIN loaded

\* The assertions of failRate and of Disjunction::initialize never fail: after
\* any number of dilutions a count is the size of its run set, and a predicate
\* was observed wherever it was true.
CountsAreExact ==
    Exact =>
        /\ allFailures = SuiteOf(allFailures.runs)
        /\ \A p \in DOMAIN candidates :
              /\ candidates[p].tru = SuiteOf(candidates[p].tru.runs)
              /\ candidates[p].obs = SuiteOf(candidates[p].obs.runs)
              /\ candidates[p].tru.runs \subseteq candidates[p].obs.runs

\* Diluting step by step, by whatever won, leaves of each predicate just the
\* runs that no winner explains; so do the failures still to be explained.
NothingForgotten ==
    Exact =>
        /\ phase = "ranking" => allFailures.runs = Failing \ Explained
        /\ phase = "ranking" => \A p \in DOMAIN candidates :
              /\ candidates[p].tru.runs = loaded[p].tru.runs \ Explained
              /\ candidates[p].obs.runs = loaded[p].obs.runs \ Explained

\* However the winners overlap, bits and counts stay those of the unexplained
\* runs.
DilutionIsExact == TypeOK /\ CountsAreExact /\ NothingForgotten

\* The approximation errs on one side: no count exceeds that of the runs that
\* are left unexplained.
NeverOverestimated ==
    \A p \in DOMAIN candidates :
        LET tru == SuiteOf(loaded[p].tru.runs \ Explained)
            obs == SuiteOf(loaded[p].obs.runs \ Explained)
        IN  phase = "ranking" =>
                /\ candidates[p].tru.failures <= tru.failures
                /\ candidates[p].tru.successes <= tru.successes
                /\ candidates[p].obs.failures <= obs.failures
                /\ candidates[p].obs.successes <= obs.successes

\* Every winner explains a failure that no winner before it does; so none is
\* printed twice ("pluck out predicates one by one", main.cc:80).
EachWinnerExplains ==
    [][winners' # winners => (Last(winners').tru.runs \cap Failing) \ Explained # {}]_vars

\* The ranking gives up predicates that could still win only when every
\* failure is explained.
ExplainsAll ==
    Exact /\ phase # "ranking" /\ DOMAIN candidates # {} => Failing \subseteq Explained

\* "counts to maximize", "counts to minimize": whatever the run sets, and
\* however diluted, the estimate of a complex predicate bounds its counts.
EstimatesBound ==
    Exact /\ phase = "ranking" =>
        \A p, q \in DOMAIN candidates, kind \in {"C", "D"} :
            LET real     == Counts(Build(kind, candidates[p], candidates[q]))
                estimate == Estimate(kind, candidates[p], candidates[q])
            IN  p # q => /\ estimate.tf >= real.tf /\ estimate.os >= real.os
                         /\ estimate.ts <= real.ts /\ estimate.of <= real.of

\* Pruning loses nothing: when a complex predicate beats the best simple one,
\* combine returns the best of them.
CombineFindsBest ==
    Exact /\ mode.complex /\ phase = "ranking" =>
        \A list \in Sorted : list # << >> =>
            LET complexes == {Complex(c) : c \in ToSet(Considered(list))}
                better    == {c \in complexes : IsInteresting(c) /\ c.score > Effective(list[1])}
            IN  better # {} => \A found \in Combine(list) :
                    found.result # << >> /\ \A c \in better : c.score <= found.result[1].score
=============================================================================
