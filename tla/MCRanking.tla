----------------------------- MODULE MCRanking -----------------------------
EXTENDS Ranking, TLC

Ratio(n, d) == IF d = 0 THEN 0 ELSE (10000 * n) \div d

\* increase, at a confidence of 0.
MCLowerBound(e) ==
    IF e.tf + e.ts = 0 THEN 0
    ELSE Ratio(e.tf * (e.of + e.os) - e.of * (e.tf + e.ts), (e.tf + e.ts) * (e.of + e.os))

\* log(tf) / log(all), of up to four failures.
Recall(tf, all) ==
    IF tf <= 1 \/ all <= 1 THEN 0
    ELSE IF tf >= all THEN 10000
    ELSE IF all = 3 THEN 6309 ELSE IF tf = 2 THEN 5000 ELSE 7925

MCScore(e, all) ==
    LET lb == MCLowerBound(e) r == Recall(e.tf, all)
    IN  IF lb <= 0 \/ r = 0 THEN 0 ELSE (2 * lb * r) \div (lb + r)

\* exact-complete --complex-preds --zoom all, approximate-complete --zoom winners.
MCModes == {[dilution |-> "exact", complex |-> TRUE, zoom |-> "all"],
            [dilution |-> "approximate", complex |-> FALSE, zoom |-> "winners"]}

\* Runs of one outcome and predicates are interchangeable.
Symmetry == Permutations(Failing) \cup Permutations(Passing) \cup Permutations(Predicate)
=============================================================================
