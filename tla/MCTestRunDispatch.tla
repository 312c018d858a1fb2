------------------------- MODULE MCTestRunDispatch -------------------------
(***************************************************************************)
(* Instances of TestRunDispatch for TLC.                                   *)
(***************************************************************************)
EXTENDS TestRunDispatch

\* Ids that put the cancellation before the request it follows.
CancelledFirst ==
    [e \in Event |-> CASE e.kind = "cancelled" -> 1
                      [] e.kind = "report"    -> 2
                      [] e.kind = "requested" -> 3
                      [] e.kind = "triage"    -> 4]

=============================================================================
