---------------------------- MODULE MCTransformed ----------------------------
(***************************************************************************)
(* A program with one of everything: a branch whose sides weigh different, *)
(* a loop with a branch in it, a region with one site and one with none, a *)
(* call that is weightless, a weighty one through a pointer, recursion     *)
(* through a function that has no site of its own.                         *)
(***************************************************************************)
EXTENDS Transformed, WeighPaths

MCFunc  == {"main", "work", "wrap", "helper"}
MCRoots == {"main"}

MCSucc ==
    [m0 |-> {"m1"},  m1 |-> {"m2", "m4"}, m2 |-> {"m3"}, m3 |-> {"m4"},
     m4 |-> {"m5"},  m5 |-> {"m6"},       m6 |-> {"m7"}, m7 |-> {},
     w0 |-> {"w1"},  w1 |-> {"w2", "w6"}, w2 |-> {"w3"}, w3 |-> {"w4", "w5"},
     w4 |-> {"w5"},  w5 |-> {"w1"},       w6 |-> {"w7", "w8"},
     w7 |-> {"w8"},  w8 |-> {},
     p0 |-> {"p1"},  p1 |-> {"p2"},       p2 |-> {},
     h0 |-> {"h1"},  h1 |-> {"h2"},       h2 |-> {}]
MCNode == DOMAIN MCSucc

MCOwner == [n \in MCNode |->
    CASE n \in {"m0", "m1", "m2", "m3", "m4", "m5", "m6", "m7"} -> "main"
      [] n \in {"p0", "p1", "p2"} -> "wrap"
      [] n \in {"h0", "h1", "h2"} -> "helper"
      [] OTHER -> "work"]
MCEntry == [main |-> "m0", work |-> "w0", wrap |-> "p0", helper |-> "h0"]

MCScale     == [n \in {"m2", "m3", "m6", "w2", "w4"} |-> 1]
MCScaleBig  == [MCScale EXCEPT !["m3"] = 2, !["w2"] = 3]
MCCallee    == [m4 |-> {"helper"}, m5 |-> {"work", "wrap"}, w7 |-> {"wrap"},
                p1 |-> {"work"}]
MCBackJumps == {"w5"}
MCWeighty   == {"main", "work", "wrap"}

w(threshold, count) == [threshold |-> threshold, count |-> count]
MCWeight ==
    [m0 |-> w(2,2), m1 |-> w(2,2), m2 |-> w(2,2), m3 |-> w(1,1),
     m4 |-> w(0,0), m5 |-> w(1,1), m6 |-> w(1,1), m7 |-> w(0,0),
     w0 |-> w(2,2), w1 |-> w(2,2), w2 |-> w(2,2), w3 |-> w(1,1),
     w4 |-> w(1,1), w5 |-> w(2,2), w6 |-> w(0,0), w7 |-> w(0,0),
     w8 |-> w(0,0),
     p0 |-> w(0,0), p1 |-> w(0,0), p2 |-> w(0,0),
     h0 |-> w(0,0), h1 |-> w(0,0), h2 |-> w(0,0)]

MCWeightBig == [MCWeight EXCEPT
    !.m0 = w(3,2), !.m1 = w(3,2), !.m2 = w(3,2), !.m3 = w(2,1),
    !.w0 = w(4,2), !.w1 = w(4,2), !.w2 = w(4,2), !.w5 = w(4,2)]

\* The tables above are what weighPaths.ml computes for this program.
ASSUME MCWeightIsWeighed ==
    \A t \in {<<MCScale, MCWeight>>, <<MCScaleBig, MCWeightBig>>} :
        t[2] = weigh(MCNode, [succ |-> MCSucc, scale |-> t[1], headers |-> Headers])
=============================================================================
