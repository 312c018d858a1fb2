----------------------- MODULE PipelineRunner_proofs -----------------------
(***************************************************************************)
(* Proofs about PipelineRunner, for every template, every retry count and  *)
(* any number of calls, crashes and database exceptions.                   *)
(***************************************************************************)
EXTENDS PipelineRunner, TLAPS

USE DEF Terminal, Statuses, Control, Settled, Locations

\* Where the loop works on a layer, that layer exists.
InLayer == {"pausing", "enter_wait", "waiting", "resuming", "dispatch",
            "gather", "save_failed", "mark_failed"}

LayerExists == pc \in InLayer => layer <= Len(Layers)

TypeInv == TypeOK /\ LayerExists

-----------------------------------------------------------------------------
(* The types of the tables, where an action changes one entry.             *)

\* The layers are a sequence, so the loop's bound is a number.
LEMMA LenLayers == Len(Layers) \in Nat
  BY PlanAssumption

\* The nodes of a layer are node ids.
LEMMA LayerNodesInNode ==
  ASSUME NEW i \in DOMAIN Layers
  PROVE  LayerNodes(i) \subseteq Node
  BY PlanAssumption DEF LayerNodes

\* The plan holds node ids only.
LEMMA PlanInNode == Plan \subseteq Node
  BY LayerNodesInNode DEF Plan

\* Moving one node task to a phase keeps the table of tasks well typed.
LEMMA PhaseType ==
  ASSUME NEW n \in Node, TypeOK, NEW p \in Phases, Phase(n, p)
  PROVE  task' \in [Node -> Phases]
  BY DEF Phase, TypeOK

\* The phases by name, so that the steps below leave Phases folded.
LEMMA PhaseNames ==
  {"idle", "starting", "working", "saving", "uploading", "marking", "backoff",
   "ok", "failed"} \subseteq Phases
  BY DEF Phases

\* A failed attempt leads to a backoff or to a final failure, nothing else.
LEMMA AttemptFailsType ==
  ASSUME NEW n \in Node, TypeOK, AttemptFails(n)
  PROVE  task' \in [Node -> Phases]
  BY PhaseNames, PhaseType DEF AttemptFails

\* Writing one node's status keeps the stored table well typed.
LEMMA SetNodeType ==
  ASSUME NEW n \in Node, TypeOK, NEW s \in {"running", "completed", "skipped"},
         SetNode(n, s)
  PROVE  node_statuses' \in [Node -> {"none", "running", "completed", "skipped"}]
  BY DEF SetNode, TypeOK

\* Inserting a result document keeps the result tables well typed.
LEMMA InsertResultType ==
  ASSUME NEW n, TypeOK, NEW kind \in {"completed", "failed", "inherited"},
         InsertResult(n, kind)
  PROVE  /\ latest' \in [Node -> {"none", "completed", "failed", "inherited"}]
         /\ results' \in [Node -> Nat]
  <1>1. latest' \in [Node -> {"none", "completed", "failed", "inherited"}]
    BY DEF InsertResult, TypeOK
  <1>2. CASE kind = "completed"
    <2>1. results' = [results EXCEPT ![n] = @ + 1]
      BY <1>2 DEF InsertResult
    <2>2. CASE n \in Node
      BY <1>1, <2>1, <2>2 DEF TypeOK
    <2>3. CASE n \notin Node
      BY <1>1, <2>1, <2>3 DEF TypeOK
    <2> QED
      BY <2>2, <2>3
  <1>3. CASE kind # "completed"
    BY <1>1, <1>3 DEF InsertResult, TypeOK
  <1> QED
    BY <1>2, <1>3

-----------------------------------------------------------------------------
\* A run that was just stored is well typed.
LEMMA TypeInit == Init => TypeInv
  <1> SUFFICES ASSUME Init PROVE TypeInv
    OBVIOUS
  <1>1. LayerExists
    BY DEF Init, LayerExists, InLayer
  <1>2. layer \in 1..(Len(Layers) + 1)
    BY LenLayers DEF Init
  <1>3. task \in [Node -> Phases]
    BY PhaseNames DEF Init
  <1>4. results \in [Node -> Nat] /\ attempt \in [Node -> Nat]
    BY DEF Init
  <1>5. inflight \in [Control -> Nat]
    BY DEF Init
  <1>6. /\ latest \in [Node -> {"none", "completed", "failed", "inherited"}]
        /\ node_statuses \in [Node -> {"none", "running", "completed", "skipped"}]
    BY DEF Init
  <1>7. parent_results \in SUBSET Node
    BY PlanInNode DEF Init, Inheritable
  <1>8. TypeOK
    BY <1>2, <1>3, <1>4, <1>5, <1>6, <1>7 DEF Init, TypeOK
  <1> QED
    BY <1>1, <1>8 DEF TypeInv

\* Every step keeps the types, and the loop stays within the layers.
LEMMA TypeNext == TypeInv /\ [Next]_vars => TypeInv'
  <1> SUFFICES ASSUME TypeInv, [Next]_vars PROVE TypeInv'
    OBVIOUS
  <1> USE LenLayers DEF TypeInv, TypeOK, LayerExists, InLayer
  <1> USE DEF docVars, taskVars, runnerVars, signalVars, apiVars, boundVars
  <1>1. CASE Begin
    BY <1>1 DEF Begin
  <1>2. CASE RejectTemplate
    BY <1>2 DEF RejectTemplate, SetStatus, Emit, Raises
  <1>3. CASE StartRun
    <2>1. Inheritable \subseteq Node
      BY PlanInNode DEF Inheritable
    <2>2. Input \in Node
      BY PlanAssumption
    <2> QED
      BY <1>3, <2>1, <2>2 DEF StartRun, SetStatus, Emit, Raises
  <1>4. CASE InheritDone
    BY <1>4 DEF InheritDone
  <1>5. CASE SkipInputLayer
    BY <1>5 DEF SkipInputLayer
  <1>6. CASE Checkpoint
    BY <1>6 DEF Checkpoint, Emit
  <1>7. CASE WritePaused
    BY <1>7 DEF WritePaused, SetStatus, Raises
  <1>8. CASE EnterWait
    BY <1>8 DEF EnterWait
  <1>9. CASE WakeUp
    BY <1>9 DEF WakeUp, Emit
  <1>10. CASE PauseTimeout
    BY <1>10 DEF PauseTimeout
  <1>11. CASE WriteResumed
    BY <1>11 DEF WriteResumed, SetStatus, Raises
  <1>12. CASE Gather
    <2>0. task' \in [Node -> Phases]
      BY <1>12, PhaseNames DEF Gather
    <2>1. attempt' \in [Node -> Nat]
      BY <1>12 DEF Gather
    <2>2. layer <= Len(Layers)
      BY <1>12 DEF Gather
    <2> QED
      BY <1>12, <2>0, <2>1, <2>2 DEF Gather
  <1>13. CASE CollectLayer
    <2>1. layer \in DOMAIN Layers
      BY <1>13, PlanAssumption DEF CollectLayer
    <2>2. ASSUME FirstFailed # 0
          PROVE  \A k \in 1..(FirstFailed - 1) : Layers[layer][k] \in Node
      <3>1. FirstFailed \in DOMAIN Layers[layer]
        BY <2>2 DEF FirstFailed
      <3>2. Layers[layer] \in Seq(Node)
        BY <2>1, PlanAssumption
      <3> QED
        BY <3>1, <3>2
    <2>3. node_outputs' \in SUBSET Node
      BY <1>13, <2>1, <2>2, LayerNodesInNode DEF CollectLayer
    <2> QED
      BY <1>13, <2>1, <2>3 DEF CollectLayer
  <1>14. CASE SaveFailedResult
    <2>1. /\ latest' \in [Node -> {"none", "completed", "failed", "inherited"}]
          /\ results' \in [Node -> Nat]
      BY <1>14, InsertResultType DEF SaveFailedResult
    <2> QED
      BY <1>14, <2>1 DEF SaveFailedResult, Raises
  <1>15. CASE MarkFailed
    BY <1>15 DEF MarkFailed, SetStatus, Emit, Raises
  <1>16. CASE CompleteRun
    BY <1>16 DEF CompleteRun, SetStatus, Emit, Raises
  <1>17. CASE HandleCancel
    BY <1>17 DEF HandleCancel, SetStatus, Emit, Raises
  <1>18. CASE BackgroundExcept
    BY <1>18 DEF BackgroundExcept, SetStatus, Emit
  <1>19. ASSUME NEW n \in Node, InheritNode(n) PROVE TypeInv'
    <2>1. /\ latest' \in [Node -> {"none", "completed", "failed", "inherited"}]
          /\ results' \in [Node -> Nat]
      BY <1>19, InsertResultType DEF InheritNode
    <2> QED
      BY <1>19, <2>1 DEF InheritNode, Raises
  <1>20. ASSUME NEW n \in Node, SkipInherited(n) PROVE TypeInv'
    <2>1. node_statuses' \in [Node -> {"none", "running", "completed", "skipped"}]
      BY <1>20, SetNodeType DEF SkipInherited
    <2> QED
      BY <1>20, <2>1 DEF SkipInherited, SetCompleted, Raises
  <1>21. ASSUME NEW n \in Node, StartNode(n) PROVE TypeInv'
    <2>1. node_statuses' \in [Node -> {"none", "running", "completed", "skipped"}]
      BY <1>21, SetNodeType DEF StartNode
    <2>2. task' \in [Node -> Phases]
      BY <1>21, PhaseNames, PhaseType, AttemptFailsType DEF StartNode, NodeFault
    <2> QED
      BY <1>21, <2>1, <2>2 DEF StartNode, NodeFault
  <1>22. ASSUME NEW n \in Node, Work(n) PROVE TypeInv'
    <2>1. task' \in [Node -> Phases]
      BY <1>22, PhaseNames, PhaseType, AttemptFailsType DEF Work
    <2> QED
      BY <1>22, <2>1 DEF Work
  <1>23. ASSUME NEW n \in Node, SaveResult(n) PROVE TypeInv'
    <2>1. /\ latest' \in [Node -> {"none", "completed", "failed", "inherited"}]
          /\ results' \in [Node -> Nat]
      BY <1>23, InsertResultType DEF SaveResult
    <2>2. task' \in [Node -> Phases]
      BY <1>23, PhaseNames, PhaseType, AttemptFailsType
       DEF SaveResult, NodeFault
    <2> QED
      BY <1>23, <2>1, <2>2 DEF SaveResult, NodeFault
  <1>24. ASSUME NEW n \in Node, UploadFiles(n) PROVE TypeInv'
    <2>1. task' \in [Node -> Phases]
      BY <1>24, PhaseNames, PhaseType, AttemptFailsType DEF UploadFiles
    <2> QED
      BY <1>24, <2>1 DEF UploadFiles
  <1>25. ASSUME NEW n \in Node, MarkCompleted(n) PROVE TypeInv'
    <2>1. node_statuses' \in [Node -> {"none", "running", "completed", "skipped"}]
      BY <1>25, SetNodeType DEF MarkCompleted
    <2>2. task' \in [Node -> Phases]
      BY <1>25, PhaseNames, PhaseType, AttemptFailsType
       DEF MarkCompleted, NodeFault
    <2> QED
      BY <1>25, <2>1, <2>2 DEF MarkCompleted, SetCompleted, NodeFault
  <1>26. ASSUME NEW n \in Node, RetryNode(n) PROVE TypeInv'
    <2>1. task' \in [Node -> Phases]
      BY <1>26, PhaseNames, PhaseType DEF RetryNode
    <2>2. attempt' \in [Node -> Nat]
      BY <1>26 DEF RetryNode
    <2> QED
      BY <1>26, <2>1, <2>2 DEF RetryNode
  <1>27. ASSUME NEW op \in Control, CheckControl(op) PROVE TypeInv'
    BY <1>27 DEF CheckControl
  <1>28. ASSUME NEW op \in Control, SendControl(op) PROVE TypeInv'
    BY <1>28 DEF SendControl, SetSignal
  <1>29. CASE DeleteStep
    <2>1. CASE DeleteResults
      <3>1. /\ latest' \in [Node -> {"none", "completed", "failed", "inherited"}]
            /\ results' \in [Node -> Nat]
        BY <2>1 DEF DeleteResults
      <3> QED
        BY <2>1, <3>1 DEF DeleteResults
    <2>2. CASE CheckDelete
      BY <2>2 DEF CheckDelete
    <2>3. CASE SignalDelete
      BY <2>3 DEF SignalDelete, SetSignal
    <2>4. CASE DeleteDocument
      BY <2>4 DEF DeleteDocument
    <2> QED
      BY <1>29, <2>1, <2>2, <2>3, <2>4 DEF DeleteStep
  <1>30. CASE Crash
    <2>1. task' \in [Node -> Phases]
      BY <1>30, PhaseNames DEF Crash
    <2>2. inflight' \in [Control -> Nat]
      BY <1>30 DEF Crash
    <2>3. deleting' \in {"no", "yes"}
      BY <1>30 DEF Crash
    <2>4. up' \in BOOLEAN
      BY <1>30 DEF Crash
    <2>5. cancel_acked' \in BOOLEAN
      BY <1>30 DEF Crash
    <2>6. crashes' \in Nat
      BY <1>30 DEF Crash
    <2>7. pc' = "dead" /\ signal' = "none" /\ resume_event' = "none"
      BY <1>30 DEF Crash
    <2>8. UNCHANGED <<docVars, attempt, layer, node_outputs, inherited_nodes,
                      todo, parent_results, calls, last_event, faults>>
      BY <1>30 DEF Crash
    <2> QED
      BY <2>1, <2>2, <2>3, <2>4, <2>5, <2>6, <2>7, <2>8
  <1>31. CASE Restart
    BY <1>31 DEF Restart
  <1>32. CASE UNCHANGED vars
    BY <1>32 DEF vars
  <1> QED
    BY <1>1, <1>2, <1>3, <1>4, <1>5, <1>6, <1>7, <1>8, <1>9, <1>10, <1>11,
       <1>12, <1>13, <1>14, <1>15, <1>16, <1>17, <1>18, <1>19, <1>20, <1>21,
       <1>22, <1>23, <1>24, <1>25, <1>26, <1>27, <1>28, <1>29, <1>30, <1>31,
       <1>32 DEF Next, RunnerStep, NodeStep

\* Every variable keeps its type, and the loop never leaves the plan.
THEOREM TypeCorrect == Spec => []TypeOK
  <1>1. TypeInv => TypeOK
    BY DEF TypeInv
  <1> QED
    BY TypeInit, TypeNext, <1>1, PTL DEF Spec

-----------------------------------------------------------------------------
(* What the steps of the others leave alone.                               *)

\* A node task works only while the runner waits in gather, and changes only
\* its own entries.
LEMMA NodeFrame ==
  ASSUME TypeOK, NEW n \in Node, NodeStep(n)
  PROVE  /\ pc = "gather"
         /\ task[n] \notin Settled
         /\ \A m \in Node \ {n} : task'[m] = task[m]
         /\ faults' \in {faults, faults + 1}
         /\ faults' = faults \/ faults < MaxFaults
         /\ UNCHANGED <<status, runnerVars, signalVars, apiVars, last_event,
                        up, crashes>>
  <1> USE DEF TypeOK, docVars, taskVars, boundVars, Phase, NodeFault, AttemptFails
  <1>1. CASE StartNode(n)
    BY <1>1 DEF StartNode
  <1>2. CASE Work(n)
    BY <1>2 DEF Work
  <1>3. CASE SaveResult(n)
    BY <1>3 DEF SaveResult
  <1>4. CASE UploadFiles(n)
    BY <1>4 DEF UploadFiles
  <1>5. CASE MarkCompleted(n)
    BY <1>5 DEF MarkCompleted
  <1>6. CASE RetryNode(n)
    BY <1>6 DEF RetryNode
  <1> QED
    BY <1>1, <1>2, <1>3, <1>4, <1>5, <1>6 DEF NodeStep

ApiStep ==
    \/ \E op \in Control : CheckControl(op) \/ SendControl(op)
    \/ DeleteStep

\* The API reaches the runner only through the signal, and the document only
\* by deleting it.
LEMMA ApiFrame ==
  ASSUME ApiStep
  PROVE  /\ up
         /\ status' \in {status, "deleted"}
         /\ UNCHANGED <<completed_nodes, node_statuses, taskVars, runnerVars,
                        last_event, boundVars>>
  <1> USE DEF docVars
  <1>1. ASSUME NEW op \in Control, CheckControl(op) \/ SendControl(op)
        PROVE  /\ up
               /\ UNCHANGED <<docVars, taskVars, runnerVars, last_event, boundVars>>
    BY <1>1 DEF CheckControl, SendControl
  <1>2. CASE DeleteStep
    BY <1>2
     DEF DeleteStep, CheckDelete, SignalDelete, DeleteResults, DeleteDocument
  <1> QED
    BY <1>1, <1>2 DEF ApiStep

-----------------------------------------------------------------------------
(* Where the background task is tells what the document says. A database   *)
(* exception loosens the tie, and only at the end of the task.             *)

Before  == {"queued", "reject", "begin"}
AtWork  == {"inherit", "layer", "pausing", "dispatch", "gather", "save_failed",
            "mark_failed"}
OnHold  == {"enter_wait", "waiting", "resuming"}

StatusFollows ==
    /\ pc \in Before => status \in {"pending", "deleted"}
    /\ pc \in AtWork => status \in {"running", "deleted"}
    /\ pc \in OnHold => status \in {"paused", "deleted"}
    /\ pc = "cancelling" => status \in {"running", "paused", "deleted"}
    /\ pc = "except" /\ faults = 0 => status \in {"pending", "failed", "deleted"}
    /\ pc = "done" /\ faults = 0 => status \in Terminal \cup {"deleted"}
    /\ ClientsKnowTheEnd

\* Node tasks are at work only under gather.
TasksUnderGather ==
    pc # "gather" => \A n \in Node : task[n] \in Settled

DeadWhenDown == ~up => pc = "dead"

FaultsCounted == faults <= MaxFaults

ControlInv ==
    StatusFollows /\ TasksUnderGather /\ DeadWhenDown /\ FaultsCounted

\* A queued run has no task, no reply and no end to agree about.
LEMMA ControlInit == Init => ControlInv
  BY ParameterAssumption
     DEF Init, ControlInv, StatusFollows, TasksUnderGather, DeadWhenDown,
         FaultsCounted, ClientsKnowTheEnd, Before, AtWork, OnHold

\* Every step keeps the status, the task's place and the last event in step.
LEMMA ControlNext == TypeInv /\ ControlInv /\ [Next]_vars => ControlInv'
  <1> SUFFICES ASSUME TypeInv, ControlInv, [Next]_vars PROVE ControlInv'
    OBVIOUS
  <1> USE ParameterAssumption
  <1> USE DEF ControlInv, StatusFollows, TasksUnderGather, DeadWhenDown,
              FaultsCounted, ClientsKnowTheEnd, Before, AtWork, OnHold
  <1> USE DEF docVars, taskVars, runnerVars, signalVars, apiVars, boundVars
  <1> USE DEF TypeInv, TypeOK
  <1>1. CASE Begin
    BY <1>1 DEF Begin
  <1>2. CASE RejectTemplate
    BY <1>2 DEF RejectTemplate, SetStatus, Emit, Raises
  <1>3. CASE StartRun
    BY <1>3 DEF StartRun, SetStatus, Emit, Raises
  <1>4. CASE InheritDone
    BY <1>4 DEF InheritDone
  <1>5. CASE SkipInputLayer
    BY <1>5 DEF SkipInputLayer
  <1>6. CASE Checkpoint
    BY <1>6 DEF Checkpoint, Emit
  <1>7. CASE WritePaused
    BY <1>7 DEF WritePaused, SetStatus, Raises
  <1>8. CASE EnterWait
    BY <1>8 DEF EnterWait
  <1>9. CASE WakeUp
    BY <1>9 DEF WakeUp, Emit
  <1>10. CASE PauseTimeout
    BY <1>10 DEF PauseTimeout
  <1>11. CASE WriteResumed
    BY <1>11 DEF WriteResumed, SetStatus, Raises
  <1>12. CASE Gather
    BY <1>12 DEF Gather
  <1>13. CASE CollectLayer
    BY <1>13 DEF CollectLayer, Running
  <1>14. CASE SaveFailedResult
    BY <1>14 DEF SaveFailedResult, Raises
  <1>15. CASE MarkFailed
    BY <1>15 DEF MarkFailed, SetStatus, Emit, Raises
  <1>16. CASE CompleteRun
    BY <1>16 DEF CompleteRun, SetStatus, Emit, Raises
  <1>17. CASE HandleCancel
    BY <1>17 DEF HandleCancel, SetStatus, Emit, Raises
  <1>18. CASE BackgroundExcept
    BY <1>18 DEF BackgroundExcept, SetStatus, Emit
  <1>19. ASSUME NEW n \in Node, InheritNode(n) PROVE ControlInv'
    BY <1>19 DEF InheritNode, Raises
  <1>20. ASSUME NEW n \in Node, SkipInherited(n) PROVE ControlInv'
    BY <1>20 DEF SkipInherited, Raises
  <1>21. ASSUME NEW n \in Node, NodeStep(n) PROVE ControlInv'
    <2>1. /\ pc = "gather"
          /\ faults' \in {faults, faults + 1}
          /\ faults' = faults \/ faults < MaxFaults
          /\ UNCHANGED <<pc, status, last_event, up>>
      BY <1>21, NodeFrame
    <2> QED
      BY <2>1
  <1>22. CASE ApiStep
    BY <1>22, ApiFrame
  <1>23. CASE Crash
    BY <1>23 DEF Crash
  <1>24. CASE Restart
    BY <1>24 DEF Restart
  <1>25. CASE UNCHANGED vars
    BY <1>25 DEF vars
  <1> QED
    BY <1>1, <1>2, <1>3, <1>4, <1>5, <1>6, <1>7, <1>8, <1>9, <1>10, <1>11,
       <1>12, <1>13, <1>14, <1>15, <1>16, <1>17, <1>18, <1>19, <1>20, <1>21,
       <1>22, <1>23, <1>24, <1>25 DEF Next, RunnerStep, ApiStep

\* The two invariants that know nothing of the plan.
LEMMA ControlCorrect == Spec => [](TypeInv /\ ControlInv)
  BY TypeInit, TypeNext, ControlInit, ControlNext, PTL DEF Spec

\* No node task is at work in a run that is paused or has ended.
THEOREM Quiet == Spec => []QuietWhenNotRunning
  <1>1. TypeInv /\ ControlInv => QuietWhenNotRunning
    BY DEF TypeInv, TypeOK, ControlInv, StatusFollows, TasksUnderGather,
           AtWork, QuietWhenNotRunning, Running
  <1> QED
    BY ControlCorrect, <1>1, PTL

\* A paused run has its task waiting for the resume.
THEOREM PausedIsWaiting == Spec => []PausedHasWaiter
  <1>1. TypeInv /\ ControlInv => PausedHasWaiter
    BY DEF TypeInv, TypeOK, ControlInv, StatusFollows, Before, AtWork, OnHold,
           PausedHasWaiter
  <1> QED
    BY ControlCorrect, <1>1, PTL

\* The last event the clients got tells the status that was stored.
THEOREM EndIsTold == Spec => []ClientsKnowTheEnd
  <1>1. ControlInv => ClientsKnowTheEnd
    BY DEF ControlInv, StatusFollows
  <1> QED
    BY ControlCorrect, <1>1, PTL

-----------------------------------------------------------------------------
(* The layers behind the runner were accepted in full. This is what makes  *)
(* the inputs of a node complete, and a completed run complete.            *)

Looping == {"inherit", "layer"} \cup InLayer

\* Until the run is started its runner has accepted nothing.
FreshBefore ==
    pc \in Before => layer = 1 /\ node_outputs = {} /\ inherited_nodes = {}

InputSeeded == pc \in Looping => Input \in node_outputs

InheritFirst == pc = "inherit" => layer = 1 /\ todo \subseteq Inheritable

LayersBehind == \A i \in 1..(layer - 1) : LayerNodes(i) \subseteq node_outputs

TasksOfLayer ==
    pc = "gather" =>
        \A n \in Node : task[n] \notin Settled => n \in LayerNodes(layer)

PlanInv ==
    /\ FreshBefore
    /\ InputSeeded
    /\ InheritFirst
    /\ inherited_nodes \subseteq node_outputs
    /\ LayersBehind
    /\ TasksOfLayer
    /\ CompletedMeansAll

\* A runner that has left the last layer behind has the whole plan.
LEMMA AllLayersBehind ==
  ASSUME TypeInv, LayersBehind, layer > Len(Layers)
  PROVE  Plan \subseteq node_outputs
  <1>1. ASSUME NEW i \in DOMAIN Layers PROVE LayerNodes(i) \subseteq node_outputs
    <2>1. i \in 1..(layer - 1)
      BY LenLayers, PlanAssumption DEF TypeInv, TypeOK
    <2> QED
      BY <2>1 DEF LayersBehind
  <1> QED
    BY <1>1 DEF Plan

\* Nothing is accepted in a queued run.
LEMMA PlanInit == Init => PlanInv
  BY DEF Init, PlanInv, FreshBefore, InputSeeded, InheritFirst, LayersBehind,
       TasksOfLayer, CompletedMeansAll, Looping, InLayer

\* Steps that add to node_outputs and leave the loop where it is.
LEMMA PlanGrows ==
  ASSUME PlanInv, node_outputs \subseteq node_outputs',
         UNCHANGED layer,
         inherited_nodes' \subseteq node_outputs',
         pc' \notin Before \cup {"gather"},
         pc' \in Looping => pc \in Looping,
         pc' = "inherit" => pc = "inherit" /\ todo' \subseteq todo,
         status' = "completed" => status = "completed"
  PROVE  PlanInv'
  BY DEF PlanInv, FreshBefore, InputSeeded, InheritFirst, LayersBehind,
       TasksOfLayer, CompletedMeansAll, Looping, InLayer, LayerNodes, Plan

\* Every step keeps the layers behind the runner accepted in full.
LEMMA PlanNext == TypeInv /\ ControlInv /\ PlanInv /\ [Next]_vars => PlanInv'
  <1> SUFFICES ASSUME TypeInv, ControlInv, PlanInv, [Next]_vars PROVE PlanInv'
    OBVIOUS
  <1> USE DEF docVars, taskVars, runnerVars, signalVars, apiVars, boundVars
  <1>a. /\ FreshBefore /\ InputSeeded /\ InheritFirst
        /\ inherited_nodes \subseteq node_outputs /\ LayersBehind
        /\ TasksOfLayer /\ CompletedMeansAll
    BY DEF PlanInv
  <1>b. layer \in 1..(Len(Layers) + 1) /\ Len(Layers) \in Nat
    BY LenLayers DEF TypeInv, TypeOK
  <1>c. pc \in AtWork => status # "completed"
    BY DEF ControlInv, StatusFollows
  <1>1. CASE Begin
    BY <1>1, <1>a
     DEF Begin, PlanInv, FreshBefore, InputSeeded, InheritFirst, LayersBehind,
         TasksOfLayer, CompletedMeansAll, Looping, InLayer, LayerNodes, Plan,
         Before
  <1>2. CASE RejectTemplate
    BY <1>2, PlanGrows, <1>a
     DEF RejectTemplate, SetStatus, Emit, Raises, Before, Looping, InLayer
  <1>3. CASE StartRun
    <2>1. layer = 1 /\ layer' = 1 /\ inherited_nodes' = {}
      BY <1>3, <1>a DEF StartRun, FreshBefore, Before
    <2>2. status \in {"pending", "deleted"}
      BY <1>3 DEF ControlInv, StatusFollows, Before, StartRun
    <2>3. pc' \in {"inherit", "layer"} => Input \in node_outputs'
      BY <1>3 DEF StartRun, Raises
    <2>4. status' # "completed" /\ pc' \in {"inherit", "layer", "except"}
      BY <1>3, <2>2 DEF StartRun, Raises, SetStatus
    <2>5. todo' = Inheritable \/ pc' # "inherit"
      BY <1>3 DEF StartRun, Raises
    <2> QED
      BY <2>1, <2>3, <2>4, <2>5
       DEF PlanInv, FreshBefore, InputSeeded, InheritFirst, LayersBehind,
           TasksOfLayer, CompletedMeansAll, Looping, InLayer, Before
  <1>4. CASE InheritDone
    BY <1>4, PlanGrows, <1>a DEF InheritDone, Before, Looping, InLayer
  <1>5. CASE SkipInputLayer
    <2>1. ASSUME NEW i \in 1..layer PROVE LayerNodes(i) \subseteq node_outputs
      <3>1. CASE i = layer
        BY <1>5, <3>1, <1>a DEF SkipInputLayer, InputSeeded, Looping
      <3>2. CASE i # layer
        BY <3>2, <1>a, <1>b DEF LayersBehind
      <3> QED
        BY <3>1, <3>2
    <2>2. LayersBehind'
      BY <1>5, <2>1, <1>b DEF SkipInputLayer, LayersBehind, LayerNodes
    <2> QED
      BY <1>5, <1>a, <2>2
       DEF SkipInputLayer, PlanInv, FreshBefore, InputSeeded, InheritFirst,
           TasksOfLayer, CompletedMeansAll, Looping, InLayer, Before
  <1>6. CASE Checkpoint
    BY <1>6, PlanGrows, <1>a DEF Checkpoint, Before, Looping, InLayer
  <1>7. CASE WritePaused
    BY <1>7, PlanGrows, <1>a
     DEF WritePaused, SetStatus, Raises, Before, Looping, InLayer
  <1>8. CASE EnterWait
    BY <1>8, PlanGrows, <1>a DEF EnterWait, Before, Looping, InLayer
  <1>9. CASE WakeUp
    BY <1>9, PlanGrows, <1>a DEF WakeUp, Before, Looping, InLayer
  <1>10. CASE PauseTimeout
    BY <1>10, PlanGrows, <1>a DEF PauseTimeout, Before, Looping, InLayer
  <1>11. CASE WriteResumed
    BY <1>11, PlanGrows, <1>a
     DEF WriteResumed, SetStatus, Raises, Before, Looping, InLayer
  <1>12. CASE Gather
    <2>1. layer \in DOMAIN Layers
      BY <1>12, <1>b, PlanAssumption DEF Gather, TypeInv, LayerExists, InLayer
    <2>2. CASE LayerNodes(layer) \ inherited_nodes = {}
      <3>1. LayersBehind'
        BY <1>12, <2>2, <1>a, <1>b DEF Gather, LayersBehind, LayerNodes
      <3> QED
        BY <1>12, <2>2, <1>a, <3>1
         DEF Gather, PlanInv, FreshBefore, InputSeeded, InheritFirst,
             TasksOfLayer, CompletedMeansAll, Looping, InLayer, Before
    <2>3. CASE LayerNodes(layer) \ inherited_nodes # {}
      <3>1. TasksOfLayer'
        BY <1>12, <2>3
         DEF Gather, TasksOfLayer, ControlInv, TasksUnderGather, LayerNodes
      <3> QED
        BY <1>12, <2>3, <1>a, <3>1
         DEF Gather, PlanInv, FreshBefore, InputSeeded, InheritFirst,
             LayersBehind, CompletedMeansAll, Looping, InLayer, Before,
             LayerNodes
    <2> QED
      BY <2>2, <2>3
  <1>13. CASE CollectLayer
    <2>1. CASE FirstFailed = 0
      <3>1. LayersBehind'
        BY <1>13, <2>1, <1>a, <1>b DEF CollectLayer, LayersBehind, LayerNodes
      <3> QED
        BY <1>13, <2>1, <1>a, <3>1, <1>c
         DEF CollectLayer, PlanInv, FreshBefore, InputSeeded, InheritFirst,
             TasksOfLayer, CompletedMeansAll, Looping, InLayer, Before, AtWork
    <2>2. CASE FirstFailed # 0
      BY <1>13, <2>2, PlanGrows, <1>a DEF CollectLayer, Before, Looping, InLayer
    <2> QED
      BY <2>1, <2>2
  <1>14. CASE SaveFailedResult
    BY <1>14, PlanGrows, <1>a
     DEF SaveFailedResult, Raises, Before, Looping, InLayer
  <1>15. CASE MarkFailed
    BY <1>15, PlanGrows, <1>a
     DEF MarkFailed, SetStatus, Raises, Before, Looping, InLayer
  <1>16. CASE CompleteRun
    <2>1. Plan \subseteq node_outputs
      BY <1>16, <1>a, AllLayersBehind DEF CompleteRun
    <2> QED
      BY <1>16, <1>a, <2>1
       DEF CompleteRun, Raises, PlanInv, FreshBefore, InputSeeded,
           InheritFirst, LayersBehind, TasksOfLayer, CompletedMeansAll,
           Looping, InLayer, Before, LayerNodes, Plan
  <1>17. CASE HandleCancel
    BY <1>17, PlanGrows, <1>a
     DEF HandleCancel, SetStatus, Raises, Before, Looping, InLayer
  <1>18. CASE BackgroundExcept
    BY <1>18, PlanGrows, <1>a
     DEF BackgroundExcept, SetStatus, Before, Looping, InLayer
  <1>19. ASSUME NEW n \in Node, InheritNode(n) PROVE PlanInv'
    BY <1>19, PlanGrows, <1>a DEF InheritNode, Raises, Before, Looping, InLayer
  <1>20. ASSUME NEW n \in Node, SkipInherited(n) PROVE PlanInv'
    BY <1>20, PlanGrows, <1>a
     DEF SkipInherited, Raises, Before, Looping, InLayer
  <1>21. ASSUME NEW n \in Node, NodeStep(n) PROVE PlanInv'
    <2>1. TasksOfLayer'
      BY <1>21, <1>a, NodeFrame DEF TasksOfLayer, TypeInv, LayerNodes
    <2> QED
      BY <1>21, <1>a, <2>1, NodeFrame
       DEF TypeInv, PlanInv, FreshBefore, InputSeeded, InheritFirst,
           LayersBehind, CompletedMeansAll, LayerNodes, Plan
  <1>22. CASE ApiStep
    BY <1>22, <1>a, ApiFrame
     DEF PlanInv, FreshBefore, InputSeeded, InheritFirst, LayersBehind,
         TasksOfLayer, CompletedMeansAll, LayerNodes, Plan
  <1>23. CASE Crash
    BY <1>23, PlanGrows, <1>a DEF Crash, Before, Looping, InLayer
  <1>24. CASE Restart
    BY <1>24, <1>a
     DEF Restart, PlanInv, FreshBefore, InputSeeded, InheritFirst,
         LayersBehind, TasksOfLayer, CompletedMeansAll, LayerNodes, Plan
  <1>25. CASE UNCHANGED vars
    BY <1>25, <1>a
     DEF vars, PlanInv, FreshBefore, InputSeeded, InheritFirst, LayersBehind,
         TasksOfLayer, CompletedMeansAll, LayerNodes, Plan
  <1> QED
    BY <1>1, <1>2, <1>3, <1>4, <1>5, <1>6, <1>7, <1>8, <1>9, <1>10, <1>11,
       <1>12, <1>13, <1>14, <1>15, <1>16, <1>17, <1>18, <1>19, <1>20, <1>21,
       <1>22, <1>23, <1>24, <1>25 DEF Next, RunnerStep, ApiStep

IInv == TypeInv /\ ControlInv /\ PlanInv

\* The inductive invariant: types, the tie between the task's place and the
\* stored status, and the layers the loop of run() has left behind.
THEOREM Invariance == Spec => []IInv
  BY TypeInit, TypeNext, ControlInit, ControlNext, PlanInit, PlanNext, PTL
     DEF Spec, IInv

\* A node is executed only after every enabled node it has an edge from was
\* accepted: _gather_inputs found all its inputs.
THEOREM InputsAreComplete == Spec => []InputsComplete
  <1>1. IInv => InputsComplete
    <2> SUFFICES ASSUME IInv, NEW n \in Running
                 PROVE  Parents[n] \cap Plan \subseteq node_outputs
      BY DEF InputsComplete
    <2>1. pc = "gather" /\ n \in LayerNodes(layer)
      BY DEF IInv, ControlInv, TasksUnderGather, PlanInv, TasksOfLayer, Running
    <2>2. layer \in DOMAIN Layers
      BY <2>1, LenLayers, PlanAssumption
         DEF IInv, TypeInv, TypeOK, LayerExists, InLayer
    <2>3. Parents[n] \cap Plan \subseteq UNION {LayerNodes(j) : j \in 1..(layer - 1)}
      BY <2>1, <2>2, PlanAssumption
    <2> QED
      BY <2>3 DEF IInv, PlanInv, LayersBehind
  <1> QED
    BY Invariance, <1>1, PTL

\* A run is called completed only when every node of its plan was accepted.
THEOREM CompletedIsComplete == Spec => []CompletedMeansAll
  <1>1. IInv => CompletedMeansAll
    BY DEF IInv, PlanInv
  <1> QED
    BY Invariance, <1>1, PTL

-----------------------------------------------------------------------------
(* The run keeps the promises of RunLifecycle when no database call raises: *)
(* an exception after a write that took effect can turn "completed" into    *)
(* "failed", which no lifecycle allows.                                     *)

\* A queued run is a pending run of the lifecycle that accepted nothing.
LEMMA LifecycleInit == Init => Lifecycle!Init
  BY DEF Init, Lifecycle!Init

\* The nodes of a layer that gather accepts are independent, and what they
\* depend on was accepted before.
LEMMA CollectIsExecute ==
  ASSUME IInv, CollectLayer
  PROVE  \E S \in SUBSET Plan : Lifecycle!Execute(S)
  <1> DEFINE S == node_outputs' \ node_outputs
  <1>1. layer \in DOMAIN Layers
    BY LenLayers, PlanAssumption
       DEF CollectLayer, IInv, TypeInv, TypeOK, LayerExists, InLayer
  <1>2. Layers[layer] \in Seq(Node)
    BY <1>1, PlanAssumption
  <1>3. node_outputs' = node_outputs \cup S /\ S \subseteq LayerNodes(layer)
    <2>1. CASE FirstFailed = 0
      BY <2>1 DEF CollectLayer
    <2>2. CASE FirstFailed # 0
      <3>1. FirstFailed \in DOMAIN Layers[layer]
        BY <2>2 DEF FirstFailed
      <3>2. 1..(FirstFailed - 1) \subseteq DOMAIN Layers[layer]
        BY <1>2, <3>1
      <3> QED
        BY <2>2, <3>2 DEF CollectLayer, LayerNodes
    <2> QED
      BY <2>1, <2>2
  <1>4. S \subseteq Plan
    BY <1>1, <1>3 DEF Plan
  <1>5. ASSUME NEW n \in S PROVE Parents[n] \cap Plan \subseteq node_outputs
    <2>1. Parents[n] \cap Plan \subseteq UNION {LayerNodes(j) : j \in 1..(layer - 1)}
      BY <1>1, <1>3, PlanAssumption
    <2> QED
      BY <2>1 DEF IInv, PlanInv, LayersBehind
  <1>6. status \in {"running", "deleted"} /\ status' = status
    BY DEF CollectLayer, IInv, ControlInv, StatusFollows, AtWork, docVars
  <1>7. node_outputs # {}
    BY DEF CollectLayer, IInv, PlanInv, InputSeeded, Looping, InLayer
  <1>8. Lifecycle!Execute(S)
    BY <1>3, <1>5, <1>6, <1>7 DEF Lifecycle!Execute
  <1> QED
    BY <1>4, <1>8

\* Every step of the runner is a step of the lifecycle or none at all.
LEMMA LifecycleNext ==
  ASSUME MaxFaults = 0, IInv, [Next]_vars
  PROVE  [Lifecycle!Next]_Lifecycle!lifecycleVars
  <1> USE DEF docVars, taskVars, runnerVars, signalVars, apiVars, boundVars
  <1> DEFINE Kept == UNCHANGED <<status, node_outputs>>
             Step == Kept \/ Lifecycle!Next
  <1> SUFFICES Step
    BY DEF Lifecycle!lifecycleVars
  <1>a. faults = 0 /\ ~(faults < MaxFaults)
    BY DEF IInv, TypeInv, TypeOK, ControlInv, FaultsCounted
  <1>b. StatusFollows /\ DeadWhenDown /\ FreshBefore /\ InputSeeded /\ InheritFirst
    BY DEF IInv, ControlInv, PlanInv
  <1>c. status \in Statuses
    BY DEF IInv, TypeInv, TypeOK
  <1>1. CASE Begin \/ InheritDone \/ SkipInputLayer \/ Checkpoint \/ EnterWait
             \/ WakeUp \/ PauseTimeout \/ Gather \/ SaveFailedResult
    BY <1>1 DEF Begin, InheritDone, SkipInputLayer, Checkpoint, EnterWait,
                WakeUp, PauseTimeout, Gather, SaveFailedResult
  <1>2. CASE RejectTemplate \/ MarkFailed \/ BackgroundExcept
    <2>1. Kept \/ Lifecycle!Fail
      BY <1>2, <1>a, <1>b
       DEF RejectTemplate, MarkFailed, BackgroundExcept, SetStatus, Raises,
           StatusFollows, Before, AtWork, Lifecycle!Fail
    <2> QED
      BY <2>1 DEF Lifecycle!Next
  <1>3. CASE StartRun
    <2>1. Lifecycle!Start
      BY <1>3, <1>a, <1>b
       DEF StartRun, SetStatus, Raises, StatusFollows, Before, FreshBefore,
           Lifecycle!Start
    <2> QED
      BY <2>1 DEF Lifecycle!Next
  <1>4. CASE WritePaused
    <2>1. Kept \/ Lifecycle!Pause
      BY <1>4, <1>a, <1>b
       DEF WritePaused, SetStatus, Raises, StatusFollows, AtWork,
           Lifecycle!Pause
    <2> QED
      BY <2>1 DEF Lifecycle!Next
  <1>5. CASE WriteResumed
    <2>1. Kept \/ Lifecycle!Resume
      BY <1>5, <1>a, <1>b
       DEF WriteResumed, SetStatus, Raises, StatusFollows, OnHold,
           Lifecycle!Resume
    <2> QED
      BY <2>1 DEF Lifecycle!Next
  <1>6. CASE HandleCancel
    <2>1. Kept \/ Lifecycle!Cancel
      BY <1>6, <1>a, <1>b
       DEF HandleCancel, SetStatus, Raises, StatusFollows, Lifecycle!Cancel
    <2> QED
      BY <2>1 DEF Lifecycle!Next
  <1>7. CASE CompleteRun
    <2>1. Plan \subseteq node_outputs
      BY <1>7, AllLayersBehind DEF CompleteRun, IInv, PlanInv
    <2>2. Kept \/ Lifecycle!Complete
      BY <1>7, <2>1, <1>a, <1>b
       DEF CompleteRun, SetStatus, Raises, StatusFollows, AtWork,
           Lifecycle!Complete
    <2> QED
      BY <2>2 DEF Lifecycle!Next
  <1>8. CASE CollectLayer
    BY <1>8, CollectIsExecute DEF Lifecycle!Next
  <1>9. ASSUME NEW n \in Node, InheritNode(n) PROVE Step
    <2>1. CASE n \in parent_results
      <3>1. {n} \subseteq Inheritable /\ {n} \in SUBSET Plan
        BY <1>9, <1>b DEF InheritNode, InheritFirst, Inheritable
      <3>2. Kept \/ Lifecycle!Inherit({n})
        BY <1>9, <2>1, <3>1, <1>b
         DEF InheritNode, StatusFollows, AtWork, InputSeeded, Looping,
             Lifecycle!Inherit
      <3> QED
        BY <3>1, <3>2 DEF Lifecycle!Next
    <2>2. CASE n \notin parent_results
      BY <1>9, <2>2 DEF InheritNode
    <2> QED
      BY <2>1, <2>2
  <1>10. ASSUME NEW n \in Node, SkipInherited(n) PROVE Step
    BY <1>10 DEF SkipInherited
  <1>11. ASSUME NEW n \in Node, NodeStep(n) PROVE Step
    BY <1>11, NodeFrame DEF IInv, TypeInv
  <1>12. CASE ApiStep
    <2>1. Kept \/ Lifecycle!Delete
      BY <1>12, ApiFrame DEF Lifecycle!Delete
    <2> QED
      BY <2>1 DEF Lifecycle!Next
  <1>13. CASE Crash
    BY <1>13 DEF Crash
  <1>14. CASE Restart
    <2>1. Kept \/ Lifecycle!Fail
      BY <1>14 DEF Restart, Lifecycle!Fail
    <2> QED
      BY <2>1 DEF Lifecycle!Next
  <1>15. CASE UNCHANGED vars
    BY <1>15 DEF vars
  <1> QED
    BY <1>1, <1>2, <1>3, <1>4, <1>5, <1>6, <1>7, <1>8, <1>9, <1>10, <1>11,
       <1>12, <1>13, <1>14, <1>15 DEF Next, RunnerStep, ApiStep

\* PipelineRunner implements RunLifecycle.
THEOREM Refinement ==
  ASSUME MaxFaults = 0
  PROVE  Spec => ImplementsLifecycle
  <1>1. IInv /\ [Next]_vars => [Lifecycle!Next]_Lifecycle!lifecycleVars
    BY LifecycleNext
  <1> QED
    BY LifecycleInit, <1>1, Invariance, PTL
     DEF Spec, ImplementsLifecycle, Lifecycle!Spec

\* A status that is terminal stays, until the run is deleted.
THEOREM TerminalStays ==
  ASSUME MaxFaults = 0
  PROVE  Spec => TerminalStable
  <1>1. [Lifecycle!Next]_Lifecycle!lifecycleVars =>
          (status \in Terminal => status' \in {status, "deleted"})
    BY DEF Lifecycle!Next, Lifecycle!lifecycleVars, Lifecycle!Start,
           Lifecycle!Pause, Lifecycle!Resume, Lifecycle!Cancel,
           Lifecycle!Complete, Lifecycle!Fail, Lifecycle!Delete,
           Lifecycle!Inherit, Lifecycle!Execute
  <1>2. IInv /\ [Next]_vars =>
          [(status \in Terminal) => status' \in {status, "deleted"}]_vars
    BY LifecycleNext, <1>1
  <1> QED
    BY <1>2, Invariance, PTL DEF Spec, TerminalStable

=============================================================================
