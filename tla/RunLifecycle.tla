---------------------------- MODULE RunLifecycle ----------------------------
(***************************************************************************)
(* What a pipeline run promises to whoever started it, with no queue, no   *)
(* signal, no task and no retry: the status of the run document moves      *)
(* along the lifecycle of docs/pipeline-execution.md, nodes are accepted   *)
(* only after the nodes they depend on, only while the run is running (or  *)
(* after its document was deleted under it), and a run is "completed" only *)
(* once every node of the plan was accepted.                               *)
(*                                                                         *)
(* PipelineRunner implements this specification; see the instance there.   *)
(***************************************************************************)
CONSTANTS
    Plan,        \* the nodes of the execution layers
    Input,       \* the INPUT node
    Parents,     \* [node -> the nodes with an edge into it]
    Inheritable  \* nodes a derived run may take over from its parent run

VARIABLES
    status,      \* status of the run document, "deleted" once it is gone
    accepted     \* nodes whose output the run has accepted

lifecycleVars == <<status, accepted>>

Terminal == {"completed", "failed", "cancelled"}

Init ==
    /\ status = "pending"
    /\ accepted = {}

\* The background task picks the run up and seeds the INPUT node.
Start ==
    /\ accepted = {}
    /\ accepted' = {Input}
    /\ \/ status = "pending" /\ status' = "running"
       \/ status = "deleted" /\ UNCHANGED status

\* A derived run takes the outputs of some nodes over from its parent run.
Inherit(S) ==
    /\ S \subseteq Inheritable
    /\ status \in {"running", "deleted"}
    /\ accepted # {}
    /\ accepted' = accepted \cup S
    /\ UNCHANGED status

\* A set of independent nodes is executed: everything they depend on comes
\* from an earlier step.
Execute(S) ==
    /\ status \in {"running", "deleted"}
    /\ accepted # {}
    /\ S \cap accepted = {}
    /\ \A n \in S : Parents[n] \cap Plan \subseteq accepted
    /\ accepted' = accepted \cup S
    /\ UNCHANGED status

Pause ==
    /\ status = "running"
    /\ status' = "paused"
    /\ UNCHANGED accepted

Resume ==
    /\ status = "paused"
    /\ status' = "running"
    /\ UNCHANGED accepted

Cancel ==
    /\ status \in {"running", "paused"}
    /\ status' = "cancelled"
    /\ UNCHANGED accepted

Complete ==
    /\ status = "running"
    /\ Plan \subseteq accepted
    /\ status' = "completed"
    /\ UNCHANGED accepted

\* A node that fails for good fails the run, after the nodes of its layer
\* that are listed before it were accepted.
Fail ==
    /\ status \in {"pending", "running", "paused"}
    /\ status' = "failed"
    /\ UNCHANGED accepted

Delete ==
    /\ status # "deleted"
    /\ status' = "deleted"
    /\ UNCHANGED accepted

Next ==
    \/ Start \/ Pause \/ Resume \/ Cancel \/ Complete \/ Fail \/ Delete
    \/ \E S \in SUBSET Plan : Inherit(S) \/ Execute(S)

Spec == Init /\ [][Next]_lifecycleVars

=============================================================================
