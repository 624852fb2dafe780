----------------------------- MODULE MCBalanced -----------------------------
(***************************************************************************)
(* do { s1; s2 } while (...), which is balanced as it stands: no branch of *)
(* it has a site, so balance.ml adds no counterweight.                     *)
(***************************************************************************)
EXTENDS Transformed, WeighPaths

MCFunc  == {"main"}
MCRoots == {"main"}
MCSucc ==
    [m0 |-> {"s1"}, s1 |-> {"s2"}, s2 |-> {"if"}, if |-> {"back", "ret"},
     back |-> {"s1"}, ret |-> {}]
MCNode      == DOMAIN MCSucc
MCOwner     == [n \in MCNode |-> "main"]
MCEntry     == [main |-> "m0"]
MCScale     == [n \in {"s1", "s2"} |-> 1]
MCCallee    == << >>
MCBackJumps == {"back"}
MCWeighty   == {"main"}
MCWeight ==
    weigh(MCNode, [succ |-> MCSucc, scale |-> MCScale, headers |-> Headers])
=============================================================================
