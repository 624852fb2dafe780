--------------------------- MODULE MCCountdowns ---------------------------
EXTENDS Countdowns

\* Everything but a bad setting with every other choice: it is refused at once.
MCEnvironments == {e \in Environment : e.setting = "bad" => ~e.seeded /\ e.report}

\* No variable is set, and the report is wanted.
MCUnset == {e \in Environment : e.setting = "unset" /\ ~e.seeded /\ e.report}
=============================================================================
