SPECIFICATION Spec
CONSTANTS
    Failing = {f1, f2, f3}
    Passing = {s1, s2}
    HeldOut = {}
    Predicate = {p1, p2, p3}
    Modes <- MCModes
    LowerBound <- MCLowerBound
    StrictBound <- MCLowerBound
    Score <- MCScore
    Unset = Unset
    f1 = f1
    f2 = f2
    f3 = f3
    s2 = s2
    s1 = s1
    p1 = p1
    p2 = p2
    p3 = p3
SYMMETRY Symmetry
INVARIANTS
    DilutionIsExact NeverOverestimated ExplainsAll EstimatesBound CombineFindsBest
PROPERTIES
    EachWinnerExplains
