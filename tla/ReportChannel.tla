--------------------------- MODULE ReportChannel ---------------------------
(***************************************************************************)
(* What the report pipe promises the launcher: everything that was written *)
(* to it, in order, and an end of file not before the last writer is gone. *)
(***************************************************************************)
EXTENDS Naturals, Sequences

CONSTANTS Tokens        \* what can be written

VARIABLES
    sent,       \* everything written so far
    received,   \* how much of it the launcher has read
    open,       \* may anything more be written?
    reader      \* the launcher: "reading", "finished" or "dead"

vars == <<sent, received, open, reader>>

Init == sent = <<>> /\ received = 0 /\ open = TRUE /\ reader = "reading"

Send ==
    /\ open
    /\ \E t \in Tokens : sent' = Append(sent, t)
    /\ UNCHANGED <<received, open, reader>>

Receive ==
    /\ reader = "reading" /\ received < Len(sent)
    /\ received' = received + 1
    /\ UNCHANGED <<sent, open, reader>>

Close == open /\ open' = FALSE /\ UNCHANGED <<sent, received, reader>>

Finish ==
    /\ reader = "reading" /\ ~open /\ received = Len(sent)
    /\ reader' = "finished"
    /\ UNCHANGED <<sent, received, open>>

\* The launcher's death may take the last descriptor with it.
Die ==
    /\ reader # "dead" /\ reader' = "dead"
    /\ open' \in {open, FALSE}
    /\ UNCHANGED <<sent, received>>

Next == Send \/ Receive \/ Close \/ Finish \/ Die

Spec == Init /\ [][Next]_vars
=============================================================================
