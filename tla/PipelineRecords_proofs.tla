----------------------- MODULE PipelineRecords_proofs -----------------------
(***************************************************************************)
(* Proofs about what PipelineRunner leaves in the database: how many       *)
(* result documents a node has, which is the newest, what a derived run    *)
(* took over, and the list of completed nodes.                             *)
(*                                                                         *)
(* The documents of a node are written by its task, the list by every task *)
(* of a layer, and both are read by other runs.  The invariant ties them   *)
(* to the phase of the task, and the phase to the place of the loop.       *)
(***************************************************************************)
EXTENDS PipelineRunner_proofs, WellFoundedInduction

USE DEF Terminal, Statuses, Control, Settled, Locations

\* A task that has started belongs to a layer the loop has come to; once the loop has
\* left gather for good the tasks stay as they are.
After == {"gather", "save_failed", "mark_failed", "except", "done"}
Reached ==
    pc # "dead" => \A n \in Node : task[n] # "idle" =>
        \E j \in DOMAIN Layers :
            /\ n \in LayerNodes(j) /\ j <= layer
            /\ (j < layer \/ pc \in After)

\* An attempt adds one result document at most, and adds it at its end.
Stored == {"uploading", "marking", "backoff", "ok", "failed"}
Tried(n) ==
    /\ attempt[n] <= Retry[n]
    /\ task[n] = "backoff" => attempt[n] < Retry[n]
    /\ results[n] <= Retry[n] + 1
    /\ pc # "dead" =>
        /\ results[n] <= attempt[n] + 1
        /\ task[n] \notin Stored => results[n] <= attempt[n]
        /\ task[n] = "idle" => results[n] = 0

\* Without an upload or an exception nothing goes wrong after the document is there.
StoredOnce(n) == faults = 0 =>
    /\ task[n] # "uploading"
    /\ results[n] <= 1
    /\ pc # "dead" /\ task[n] \notin {"marking", "ok"} => results[n] = 0

Tries == /\ \A n \in Node : Tried(n)
         /\ \A n \in Node \ Uploads : StoredOnce(n)

\* What is inherited is in the part of the plan that may be, and is not executed.
Inherited == inherited_nodes \subseteq Inheritable /\ InheritedNotExecuted

\* gather left out none of the layer, and its failure is not forgotten.
AllStarted == pc = "gather" => \A n \in LayerNodes(layer) \ inherited_nodes : task[n] # "idle"
FailureFound == pc = "save_failed" => \E k \in DOMAIN Layers[layer] : task[Layers[layer][k]] = "failed"

\* The runner's cache holds outputs of tasks that ended well, and inherited ones.
Accepted ==
    pc # "dead" => \A n \in node_outputs \ {Input} : n \in inherited_nodes \/ task[n] = "ok"

\* A task past its save has an output as its newest document.
Documents ==
    pc # "dead" /\ deleting = "no" =>
        /\ \A n \in Node : task[n] \in {"uploading", "marking", "ok"} => latest[n] = "completed"
        /\ ~CopyFailed => \A n \in inherited_nodes : latest[n] = "inherited"

\* The only node of the last layer writes the list when all the others are in the cache.
LastNode == Layers[Len(Layers)][1]
Listed ==
    LastAlone /\ status # "deleted" =>
        /\ pc = "dispatch" => todo \subseteq inherited_nodes
        /\ pc = "gather" /\ layer = Len(Layers) =>
              /\ LastNode \notin inherited_nodes
              /\ task[LastNode] = "ok" => completed_nodes = node_outputs \cup {LastNode}
        /\ pc = "dispatch" /\ layer = Len(Layers) /\ LastNode \in inherited_nodes \ todo =>
              completed_nodes = node_outputs
        /\ pc = "layer" /\ layer > Len(Layers) => completed_nodes = node_outputs
        /\ status = "completed" => completed_nodes = node_outputs

RInv == /\ IInv /\ Reached /\ Tries /\ Inherited /\ AllStarted /\ FailureFound
        /\ Accepted /\ Documents /\ Listed

LEMMA RecordsInit == Init => RInv
  <1> SUFFICES ASSUME Init PROVE RInv
    OBVIOUS
  <1>1. IInv
    BY TypeInit, ControlInit, PlanInit DEF IInv
  <1>2. Tries
    BY ParameterAssumption DEF Init, Tries, Tried, StoredOnce, Stored
  <1>3. Listed
    <2>1. Layers # <<>> => ~(1 > Len(Layers))
      BY PlanAssumption
    <2> QED
      BY <2>1 DEF Init, Listed, LastAlone
  <1> QED
    BY <1>1, <1>2, <1>3
    DEF Init, RInv, Reached, Inherited, InheritedNotExecuted, AllStarted, FailureFound,
        Accepted, Documents

-----------------------------------------------------------------------------
(* Facts about the plan.                                                   *)

LEMMA Least ==
  ASSUME NEW K, K \subseteq Nat, K # {}
  PROVE  \E k \in K : \A l \in K : k <= l
  <1>1. PICK k \in K : \A l \in K : ~(<<l, k>> \in OpToRel(<, Nat))
    BY WFMin, NatLessThanWellFounded, Zenon
  <1>2. ASSUME NEW l \in K PROVE k <= l
    <2>1. l \in Nat /\ k \in Nat
      OBVIOUS
    <2>2. ~(<<l, k>> \in OpToRel(<, Nat))
      BY <1>1, Zenon
    <2>3. ~(l < k)
      BY <2>1, <2>2, Zenon DEF OpToRel
    <2> QED
      BY <2>1, <2>3
  <1> QED
    BY <1>2

\* The failure that ends the run is the first one of its layer.
LEMMA FirstOfFailed ==
  ASSUME layer \in DOMAIN Layers
  PROVE  LET Failed(k) == task[Layers[layer][k]] = "failed" IN
         /\ FirstFailed = 0 => \A k \in DOMAIN Layers[layer] : ~Failed(k)
         /\ (\E k \in DOMAIN Layers[layer] : Failed(k)) => FirstFailed # 0
         /\ FirstFailed # 0 =>
              /\ FirstFailed \in DOMAIN Layers[layer] /\ Failed(FirstFailed)
              /\ \A k \in 1..(FirstFailed - 1) : k \in DOMAIN Layers[layer] /\ ~Failed(k)
  <1> DEFINE K == {k \in DOMAIN Layers[layer] : task[Layers[layer][k]] = "failed"}
  <1>1. Layers[layer] \in Seq(Node)
    BY PlanAssumption
  <1>2. /\ DOMAIN Layers[layer] = 1..Len(Layers[layer]) /\ Len(Layers[layer]) \in Nat
        /\ K \subseteq DOMAIN Layers[layer] /\ K \subseteq Nat
    BY <1>1
  <1>3. FirstFailed = IF K = {} THEN 0 ELSE CHOOSE k \in K : \A l \in K : k <= l
    BY Zenon DEF FirstFailed
  <1> HIDE DEF K
  <1>4. CASE K = {}
    <2>1. FirstFailed = 0
      BY <1>3, <1>4
    <2> QED
      BY <1>4, <2>1 DEF K
  <1>5. CASE K # {}
    <2>1. \E k \in K : \A l \in K : k <= l
      BY <1>2, <1>5, Least
    <2>2. FirstFailed \in K /\ \A l \in K : FirstFailed <= l
      BY <1>3, <1>5, <2>1
    <2>3. \A k \in 1..(FirstFailed - 1) : k \in DOMAIN Layers[layer] /\ k \notin K
      BY <1>2, <2>2
    <2> QED
      BY <1>2, <2>2, <2>3 DEF K
  <1> QED
    BY <1>4, <1>5

\* The loop is on a layer that there is.
LEMMA OnLayer ==
  ASSUME TypeInv, pc \in InLayer
  PROVE  layer \in DOMAIN Layers /\ LayerNodes(layer) \subseteq Node
  BY LenLayers, LayerNodesInNode, PlanAssumption DEF TypeInv, TypeOK, LayerExists

\* Going by layers lets nothing downstream of the rerun node through: what is downstream
\* is in a later layer, and what may be inherited is not.
LEMMA InheritableIsSound ==
  ASSUME Derived, RerunFrom \in Plan
  PROVE  Inheritable \cap Downstream = {}
  <1>1. PICK r \in DOMAIN Layers : RerunFrom \in LayerNodes(r)
    BY DEF Plan
  <1>2. DOMAIN Layers = 1..Len(Layers) /\ Len(Layers) \in Nat
    BY PlanAssumption
  <1> DEFINE Later(n) == \E i \in DOMAIN Layers : n \in LayerNodes(i) /\ i > r
             S == {n \in Plan : n = RerunFrom \/ Later(n)}
  <1>3. RerunFrom \in S /\ S \in SUBSET Plan
    OBVIOUS
  <1>4. ASSUME NEW m \in Plan, Parents[m] \cap S # {} PROVE m \in S
    <2>1. PICK i \in DOMAIN Layers : m \in LayerNodes(i)
      BY DEF Plan
    <2>2. PICK p \in Parents[m] : p \in S
      BY <1>4
    <2>3. PICK j \in 1..(i - 1) : p \in LayerNodes(j)
      <3>1. Parents[m] \cap Plan \subseteq UNION {LayerNodes(q) : q \in 1..(i - 1)}
        BY <2>1, PlanAssumption
      <3> QED
        BY <1>3, <2>2, <3>1
    <2>4. j \in DOMAIN Layers /\ j < i
      BY <1>2
    <2>5. j >= r
      <3>1. CASE p = RerunFrom
        <4>1. j = r
          BY <1>1, <2>3, <2>4, <3>1, PlanAssumption
        <4> QED
          BY <1>2, <4>1
      <3>2. CASE Later(p)
        <4>1. PICK q \in DOMAIN Layers : p \in LayerNodes(q) /\ q > r
          BY <3>2
        <4>2. j = q
          BY <2>3, <2>4, <4>1, PlanAssumption
        <4> QED
          BY <1>2, <4>1, <4>2
      <3> QED
        BY <2>2, <3>1, <3>2
    <2>6. i > r
      BY <1>2, <2>4, <2>5
    <2> QED
      BY <2>1, <2>6
  <1>5. Downstream \subseteq S
    <2> HIDE DEF S
    <2> QED
      BY <1>3, <1>4 DEF Downstream
  <1>6. ASSUME NEW n \in Inheritable, n \in S PROVE FALSE
    <2>1. n # RerunFrom
      BY <1>6 DEF Inheritable
    <2>2. PICK i \in DOMAIN Layers : n \in LayerNodes(i) /\ i > r
      BY <1>6, <2>1
    <2>3. i <= r
      BY <1>1, <1>6, <2>2 DEF Inheritable
    <2> QED
      BY <1>2, <2>2, <2>3
  <1> QED
    BY <1>5, <1>6

-----------------------------------------------------------------------------
(* Which actions touch what.                                               *)

LEMMA Moves ==
  ASSUME TypeInv, [Next]_vars
  PROVE  /\ faults' \in {faults, faults + 1}
         /\ pc' # "dead" => pc # "dead"
         /\ layer' = layer \/ (layer' = layer + 1 /\ pc' = "layer")
         /\ pc \in After /\ pc' \notin After \cup {"dead"} => layer' = layer + 1
         /\ pc' = "gather" => (pc = "gather" /\ layer' = layer) \/ Gather
         /\ pc' = "save_failed" => (pc = "save_failed" /\ layer' = layer) \/ CollectLayer
         /\ pc' # "dead" /\ deleting' = "no" => deleting = "no"
         /\ pc' # "dead" /\ CopyFailed => CopyFailed'
         /\ UNCHANGED taskVars \/ Gather \/ Crash \/ \E n \in Node : NodeStep(n)
         /\ UNCHANGED results \/ DeleteResults \/ \E n \in Node : SaveResult(n)
         /\ \/ UNCHANGED latest \/ DeleteResults \/ SaveFailedResult
            \/ \E n \in Node : SaveResult(n) \/ InheritNode(n)
         /\ UNCHANGED inherited_nodes \/ \E n \in Node : InheritNode(n)
         /\ \/ UNCHANGED node_outputs \/ StartRun \/ CollectLayer
            \/ \E n \in Node : InheritNode(n)
         /\ UNCHANGED completed_nodes \/ \E n \in Node : SkipInherited(n) \/ MarkCompleted(n)

  <1> DEFINE Moved ==
        /\ faults' \in {faults, faults + 1}
        /\ pc' # "dead" => pc # "dead"
        /\ layer' = layer \/ (layer' = layer + 1 /\ pc' = "layer")
        /\ pc \in After /\ pc' \notin After \cup {"dead"} => layer' = layer + 1
        /\ pc' = "gather" => (pc = "gather" /\ layer' = layer) \/ Gather
        /\ pc' = "save_failed" => (pc = "save_failed" /\ layer' = layer) \/ CollectLayer
        /\ pc' # "dead" /\ deleting' = "no" => deleting = "no"
        /\ pc' # "dead" /\ CopyFailed => CopyFailed'
        /\ UNCHANGED taskVars \/ Gather \/ Crash \/ \E n \in Node : NodeStep(n)
        /\ UNCHANGED results \/ DeleteResults \/ \E n \in Node : SaveResult(n)
        /\ \/ UNCHANGED latest \/ DeleteResults \/ SaveFailedResult
           \/ \E n \in Node : SaveResult(n) \/ InheritNode(n)
        /\ UNCHANGED inherited_nodes \/ \E n \in Node : InheritNode(n)
        /\ \/ UNCHANGED node_outputs \/ StartRun \/ CollectLayer
           \/ \E n \in Node : InheritNode(n)
        /\ UNCHANGED completed_nodes \/ \E n \in Node : SkipInherited(n) \/ MarkCompleted(n)

  <1> USE DEF TypeInv, TypeOK, After, Raises, NodeFault, InsertResult, CopyFailed, SetStatus
  <1> USE DEF docVars, taskVars, runnerVars, signalVars, apiVars, boundVars
  <1>1. ASSUME Begin PROVE Moved
    BY <1>1 DEF Begin
  <1>2. ASSUME RejectTemplate PROVE Moved
    BY <1>2 DEF RejectTemplate
  <1>3. ASSUME StartRun PROVE Moved
    BY <1>3 DEF StartRun
  <1>4. ASSUME InheritDone PROVE Moved
    BY <1>4 DEF InheritDone
  <1>5. ASSUME SkipInputLayer PROVE Moved
    BY <1>5 DEF SkipInputLayer
  <1>6. ASSUME Checkpoint PROVE Moved
    BY <1>6 DEF Checkpoint
  <1>7. ASSUME WritePaused PROVE Moved
    BY <1>7 DEF WritePaused
  <1>8. ASSUME EnterWait PROVE Moved
    BY <1>8 DEF EnterWait
  <1>9. ASSUME WakeUp PROVE Moved
    BY <1>9 DEF WakeUp
  <1>10. ASSUME PauseTimeout PROVE Moved
    BY <1>10 DEF PauseTimeout
  <1>11. ASSUME WriteResumed PROVE Moved
    BY <1>11 DEF WriteResumed
  <1>12. ASSUME Gather PROVE Moved
    BY <1>12 DEF Gather
  <1>13. ASSUME CollectLayer PROVE Moved
    BY <1>13 DEF CollectLayer
  <1>14. ASSUME SaveFailedResult PROVE Moved
    BY <1>14 DEF SaveFailedResult
  <1>15. ASSUME MarkFailed PROVE Moved
    BY <1>15 DEF MarkFailed
  <1>16. ASSUME CompleteRun PROVE Moved
    BY <1>16 DEF CompleteRun
  <1>17. ASSUME HandleCancel PROVE Moved
    BY <1>17 DEF HandleCancel
  <1>18. ASSUME BackgroundExcept PROVE Moved
    BY <1>18 DEF BackgroundExcept
  <1>19. ASSUME CheckDelete PROVE Moved
    BY <1>19 DEF CheckDelete
  <1>20. ASSUME SignalDelete PROVE Moved
    BY <1>20 DEF SignalDelete
  <1>21. ASSUME DeleteResults PROVE Moved
    BY <1>21 DEF DeleteResults
  <1>22. ASSUME DeleteDocument PROVE Moved
    BY <1>22 DEF DeleteDocument
  <1>23. ASSUME Crash PROVE Moved
    BY <1>23 DEF Crash
  <1>24. ASSUME Restart PROVE Moved
    BY <1>24 DEF Restart
  <1>25. ASSUME NEW n \in Node, InheritNode(n) PROVE Moved
    BY <1>25 DEF InheritNode
  <1>26. ASSUME NEW n \in Node, SkipInherited(n) PROVE Moved
    BY <1>26 DEF SkipInherited
  <1>27. ASSUME NEW n \in Node, StartNode(n) PROVE Moved
    BY <1>27 DEF StartNode, NodeStep
  <1>28. ASSUME NEW n \in Node, Work(n) PROVE Moved
    BY <1>28 DEF Work, NodeStep
  <1>29. ASSUME NEW n \in Node, SaveResult(n) PROVE Moved
    BY <1>29 DEF SaveResult, NodeStep
  <1>30. ASSUME NEW n \in Node, UploadFiles(n) PROVE Moved
    BY <1>30 DEF UploadFiles, NodeStep
  <1>31. ASSUME NEW n \in Node, MarkCompleted(n) PROVE Moved
    BY <1>31 DEF MarkCompleted, NodeStep
  <1>32. ASSUME NEW n \in Node, RetryNode(n) PROVE Moved
    BY <1>32 DEF RetryNode, NodeStep
  <1>33. ASSUME NEW op \in Control, CheckControl(op) \/ SendControl(op) PROVE Moved
    BY <1>33 DEF CheckControl, SendControl
  <1>34. ASSUME UNCHANGED vars PROVE Moved
    BY <1>34 DEF vars
  <1> HIDE DEF Moved
  <1>35. Moved
    BY <1>1, <1>2, <1>3, <1>4, <1>5, <1>6, <1>7, <1>8, <1>9, <1>10, <1>11,
       <1>12, <1>13, <1>14, <1>15, <1>16, <1>17, <1>18, <1>19, <1>20, <1>21,
       <1>22, <1>23, <1>24, <1>25, <1>26, <1>27, <1>28, <1>29, <1>30, <1>31,
       <1>32, <1>33, <1>34, Zenon
    DEF Next, RunnerStep, NodeStep, DeleteStep
  <1> QED
    BY <1>35 DEF Moved

\* A node's step leaves the entries of the others alone, and its own task not idle.
LEMMA NodeEntries ==
  ASSUME TypeInv, NEW n \in Node, NodeStep(n)
  PROVE  /\ pc' = pc /\ UNCHANGED <<layer, inherited_nodes, node_outputs, status, deleting>>
         /\ task[n] \notin Settled /\ task'[n] # "idle"
         /\ \A m \in Node \ {n} : /\ task'[m] = task[m] /\ attempt'[m] = attempt[m]
                                  /\ results'[m] = results[m] /\ latest'[m] = latest[m]
  <1> DEFINE Alone == \A m \in Node \ {n} : /\ attempt'[m] = attempt[m]
                                           /\ results'[m] = results[m] /\ latest'[m] = latest[m]
  <1> USE DEF TypeInv, TypeOK, docVars, Phase, NodeFault, AttemptFails, InsertResult
  <1>1. ASSUME StartNode(n) PROVE Alone /\ task'[n] # "idle"
    BY <1>1 DEF StartNode
  <1>2. ASSUME Work(n) PROVE Alone /\ task'[n] # "idle"
    BY <1>2 DEF Work
  <1>3. ASSUME SaveResult(n) PROVE Alone /\ task'[n] # "idle"
    BY <1>3 DEF SaveResult
  <1>4. ASSUME UploadFiles(n) PROVE Alone /\ task'[n] # "idle"
    BY <1>4 DEF UploadFiles
  <1>5. ASSUME MarkCompleted(n) PROVE Alone /\ task'[n] # "idle"
    BY <1>5 DEF MarkCompleted
  <1>6. ASSUME RetryNode(n) PROVE Alone /\ task'[n] # "idle"
    BY <1>6 DEF RetryNode
  <1>7. Alone /\ task'[n] # "idle"
    BY <1>1, <1>2, <1>3, <1>4, <1>5, <1>6, Zenon DEF NodeStep
  <1> QED
    BY <1>7, NodeFrame DEF runnerVars, apiVars

-----------------------------------------------------------------------------
(* The tasks, and how many documents they leave.                           *)

\* Before gather nothing of the layer has started, and nothing after it has.
LEMMA NotYet ==
  ASSUME TypeInv, Reached, pc \notin After \cup {"dead"}, NEW i \in DOMAIN Layers, i >= layer,
         NEW n \in LayerNodes(i)
  PROVE  task[n] = "idle"
  <1>1. n \in Node
    BY LayerNodesInNode
  <1>2. ASSUME NEW j \in DOMAIN Layers, n \in LayerNodes(j), j < layer PROVE FALSE
    <2>1. i = j
      BY <1>2, PlanAssumption
    <2> QED
      BY <1>2, <2>1, LenLayers, PlanAssumption DEF TypeInv, TypeOK
  <1> QED
    BY <1>1, <1>2 DEF Reached

LEMMA ReachedStep ==
  ASSUME IInv, Reached, [Next]_vars
  PROVE  Reached'
  <1> SUFFICES ASSUME pc' # "dead", NEW n \in Node, task'[n] # "idle"
               PROVE  \E j \in DOMAIN Layers :
                         /\ n \in LayerNodes(j) /\ j <= layer'
                         /\ (j < layer' \/ pc' \in After)
    BY DEF Reached, LayerNodes
  <1>1. TypeInv /\ Len(Layers) \in Nat /\ layer \in 1..(Len(Layers) + 1)
        /\ DOMAIN Layers = 1..Len(Layers)
    BY LenLayers, PlanAssumption DEF IInv, TypeInv, TypeOK
  <1>2. ASSUME task[n] # "idle"
        PROVE  \E j \in DOMAIN Layers :
                  /\ n \in LayerNodes(j) /\ j <= layer'
                  /\ (j < layer' \/ pc' \in After)
    <2>1. PICK j \in DOMAIN Layers : n \in LayerNodes(j) /\ j <= layer /\ (j < layer \/ pc \in After)
      BY <1>1, <1>2, Moves DEF Reached
    <2> QED
      BY <1>1, <2>1, Moves
  <1>3. CASE Gather /\ task[n] = "idle"
    <2>1. n \in LayerNodes(layer) /\ layer' = layer /\ pc' = "gather"
      BY <1>3 DEF Gather, IInv, TypeInv, TypeOK, taskVars
    <2>2. layer \in DOMAIN Layers
      BY <1>1, <1>3, OnLayer DEF Gather, InLayer
    <2> QED
      BY <1>1, <2>1, <2>2 DEF After
  <1>4. ASSUME NEW m \in Node, NodeStep(m) PROVE task[n] # "idle"
    BY <1>1, <1>4, NodeEntries
  <1>5. ~Crash
    BY DEF Crash
  <1> QED
    BY <1>1, <1>2, <1>3, <1>4, <1>5, Moves DEF taskVars

\* One attempt ends before the next begins, and they are counted.
LEMMA TriesStep ==
  ASSUME IInv, Reached, Tries, [Next]_vars
  PROVE  Tries'
  <1>1. TypeInv /\ TypeOK /\ Retry \in [Node -> Nat] /\ faults \in Nat
    BY ParameterAssumption DEF IInv, TypeInv, TypeOK
  <1>0. faults' \in {faults, faults + 1} /\ (pc' # "dead" => pc # "dead")
    BY <1>1, Moves
  <1> DEFINE Fine(n) == Tried(n)' /\ (n \notin Uploads => StoredOnce(n)')
             Same(n) == task'[n] = task[n] /\ attempt'[n] = attempt[n] /\ results'[n] = results[n]
  <1>2. ASSUME NEW n \in Node PROVE Tried(n) /\ (n \notin Uploads => StoredOnce(n))
    BY DEF Tries
  <1>3. ASSUME NEW n \in Node, Same(n) PROVE Fine(n)
    BY <1>0, <1>1, <1>2, <1>3 DEF Tried, StoredOnce, TypeOK
  <1>4. ASSUME NEW n \in Node, Gather PROVE Fine(n)
    <2>1. CASE n \in LayerNodes(layer) \ inherited_nodes
      <3>1. layer \in DOMAIN Layers
        BY <1>1, <1>4, OnLayer DEF Gather, InLayer
      <3>2. task[n] = "idle" /\ pc = "dispatch"
        <4>1. pc = "dispatch" /\ layer >= layer
          BY <1>1, <1>4, LenLayers DEF Gather, TypeOK
        <4> QED
          BY <1>1, <2>1, <3>1, <4>1, NotYet DEF After
      <3>3. results[n] = 0
        BY <1>2, <3>2 DEF Tried
      <3>4. task'[n] = "starting" /\ attempt'[n] = 0 /\ results' = results
        BY <1>4, <2>1 DEF Gather, docVars
      <3> QED
        BY <1>1, <3>3, <3>4 DEF Tried, StoredOnce, Stored
    <2>2. CASE n \notin LayerNodes(layer) \ inherited_nodes
      BY <1>1, <1>3, <1>4, <2>2 DEF Gather, TypeOK, taskVars, docVars
    <2> QED
      BY <2>1, <2>2
  <1>5. ASSUME NEW n \in Node, Crash PROVE Fine(n)
    BY <1>1, <1>2, <1>5 DEF Crash, docVars, Tried, StoredOnce, TypeOK
  <1>6. ASSUME NEW n \in Node, DeleteResults PROVE Fine(n)
    BY <1>1, <1>2, <1>6 DEF DeleteResults, taskVars, runnerVars, boundVars, Tried, StoredOnce, TypeOK,
       Stored
  <1>7. ASSUME NEW n \in Node, NodeStep(n) PROVE Fine(n)
    <2>1. results[n] \in Nat /\ attempt[n] \in Nat /\ Retry[n] \in Nat
      BY <1>1 DEF TypeOK
    <2>2. pc = "gather" /\ pc' = pc
      BY <1>1, <1>7, NodeFrame, NodeEntries
    <2> USE <1>1, <1>2, <2>1, <2>2 DEF Tried, StoredOnce, Stored, Phase, AttemptFails, NodeFault,
             TypeOK, docVars, boundVars
    <2>3. ASSUME StartNode(n) PROVE Fine(n)
      <3>1. /\ task[n] = "starting" /\ task'[n] \in {"working", "backoff", "failed"}
            /\ task'[n] = "backoff" => attempt[n] < Retry[n]
        BY <2>3 DEF StartNode
      <3>2. attempt' = attempt /\ results' = results /\ faults' \in {faults, faults + 1}
        BY <2>3 DEF StartNode
      <3>3. results[n] <= attempt[n]
        BY <3>1
      <3>4. Tried(n)'
        BY <3>1, <3>2, <3>3
      <3>5. ASSUME n \notin Uploads, faults' = 0 PROVE results'[n] = 0
        <4>1. faults = 0
          BY <3>2, <3>5
        <4>2. results[n] = 0
          BY <3>1, <3>5, <4>1
        <4> QED
          BY <3>2, <4>2
      <3>6. n \notin Uploads => StoredOnce(n)'
        BY <3>1, <3>5
      <3> QED
        BY <3>4, <3>6
    <2>4. ASSUME Work(n) PROVE Fine(n)
      BY <2>4 DEF Work
    <2>5. ASSUME SaveResult(n) PROVE Fine(n)
      <3>0. task[n] = "saving" /\ attempt' = attempt
        BY <2>5 DEF SaveResult
      <3>1. results[n] <= attempt[n]
        BY <3>0
      <3>2. results'[n] \in {results[n], results[n] + 1}
        BY <2>5 DEF SaveResult, InsertResult
      <3>3. /\ task'[n] \in {"uploading", "marking", "backoff", "failed"}
            /\ task'[n] = "backoff" => attempt[n] < Retry[n]
        BY <2>5 DEF SaveResult
      <3>4. n \notin Uploads /\ faults' = 0 => faults = 0 /\ task'[n] = "marking"
        BY <2>5 DEF SaveResult
      <3> QED
        BY <3>0, <3>1, <3>2, <3>3, <3>4
    <2>6. ASSUME UploadFiles(n) PROVE Fine(n)
      BY <2>6 DEF UploadFiles
    <2>7. ASSUME MarkCompleted(n) PROVE Fine(n)
      BY <2>7 DEF MarkCompleted
    <2>8. ASSUME RetryNode(n) PROVE Fine(n)
      <3>1. task[n] = "backoff" /\ attempt'[n] = attempt[n] + 1 /\ task'[n] = "starting"
        BY <2>8 DEF RetryNode
      <3>2. results' = results /\ faults' = faults
        BY <2>8 DEF RetryNode
      <3>3. Tried(n)'
        BY <3>1, <3>2
      <3>4. n \notin Uploads => StoredOnce(n)'
        BY <3>1, <3>2
      <3> QED
        BY <3>3, <3>4
    <2> HIDE DEF Fine
    <2> QED
      BY <1>7, <2>3, <2>4, <2>5, <2>6, <2>7, <2>8, Zenon DEF NodeStep
  <1>8. ASSUME NEW n \in Node PROVE Fine(n)
    <2>1. ASSUME NEW m \in Node, NodeStep(m), m # n PROVE Same(n)
      BY <1>1, <2>1, NodeEntries
    <2>2. ASSUME NEW m \in Node, SaveResult(m) PROVE NodeStep(m)
      BY <2>2 DEF NodeStep
    <2>3. CASE UNCHANGED taskVars /\ UNCHANGED results
      BY <1>3, <2>3 DEF taskVars
    <2> HIDE DEF Fine, Same
    <2> QED
      BY <1>1, <1>3, <1>4, <1>5, <1>6, <1>7, <2>1, <2>2, <2>3, Moves
  <1> QED
    BY <1>8 DEF Tries

LEMMA InheritedStep ==
  ASSUME IInv, Reached, Tries, Inherited, [Next]_vars
  PROVE  Inherited'
  <1>1. TypeInv /\ TypeOK /\ PlanInv
    BY DEF IInv, TypeInv
  <1>2. ASSUME NEW n \in Node, InheritNode(n) PROVE n \in Inheritable /\ task[n] = "idle" /\ results[n] = 0
    <2>1. n \in Inheritable /\ layer = 1 /\ pc = "inherit"
      BY <1>1, <1>2 DEF InheritNode, PlanInv, InheritFirst
    <2>2. PICK i \in DOMAIN Layers : n \in LayerNodes(i)
      BY <2>1 DEF Inheritable, Plan
    <2>3. i >= layer
      BY <2>1, PlanAssumption
    <2>4. task[n] = "idle"
      BY <1>1, <2>1, <2>2, <2>3, NotYet DEF After
    <2> QED
      BY <2>1, <2>4 DEF Tries, Tried
  <1>3. ASSUME NEW n \in inherited_nodes' PROVE n \in Node /\ n \in Inheritable /\ task[n] = "idle" /\ results[n] = 0
    <2>1. ASSUME n \in inherited_nodes PROVE n \in Node /\ n \in Inheritable /\ task[n] = "idle" /\ results[n] = 0
      BY <1>1, <2>1 DEF Inherited, InheritedNotExecuted, TypeOK
    <2>2. ASSUME NEW m \in Node, InheritNode(m), n \notin inherited_nodes PROVE n = m
      BY <2>2 DEF InheritNode
    <2> QED
      BY <1>1, <1>2, <2>1, <2>2, Moves
  <1>4. ASSUME NEW n \in inherited_nodes' PROVE task'[n] = "idle"
    <2>1. CASE Gather
      BY <1>1, <1>3, <1>4, <2>1 DEF Gather, taskVars, TypeOK
    <2>2. CASE Crash
      BY <1>3, <1>4, <2>2 DEF Crash
    <2>3. ASSUME NEW m \in Node, NodeStep(m) PROVE task'[n] = "idle"
      BY <1>1, <1>3, <1>4, <2>3, NodeEntries
    <2> QED
      BY <1>1, <1>3, <1>4, <2>1, <2>2, <2>3, Moves DEF taskVars
  <1>5. ASSUME NEW n \in inherited_nodes' PROVE results'[n] = 0
    <2>1. CASE DeleteResults
      BY <1>3, <1>5, <2>1 DEF DeleteResults
    <2>2. ASSUME NEW m \in Node, SaveResult(m) PROVE results'[n] = 0
      BY <1>1, <1>3, <1>5, <2>2, NodeEntries DEF NodeStep
    <2> QED
      BY <1>1, <1>3, <1>5, <2>1, <2>2, Moves
  <1> QED
    BY <1>3, <1>4, <1>5 DEF Inherited, InheritedNotExecuted, Inheritable, Plan, LayerNodes

-----------------------------------------------------------------------------
(* The layer under gather, and what the runner takes from it.              *)

LEMMA AllStartedStep ==
  ASSUME IInv, AllStarted, [Next]_vars
  PROVE  AllStarted'
  <1> SUFFICES ASSUME pc' = "gather", NEW n \in LayerNodes(layer)', n \notin inherited_nodes'
               PROVE  task'[n] # "idle"
    BY DEF AllStarted
  <1>1. TypeInv /\ TypeOK
    BY DEF IInv, TypeInv
  <1>2. CASE Gather
    <2>1. layer' = layer /\ inherited_nodes' = inherited_nodes
      BY <1>1, <1>2 DEF Gather
    <2>2. n \in LayerNodes(layer) \ inherited_nodes
      BY <2>1 DEF LayerNodes
    <2>3. n \in Node
      BY <1>1, <1>2, <2>2, OnLayer DEF Gather, InLayer
    <2> QED
      BY <1>2, <2>2, <2>3 DEF Gather
  <1>3. CASE pc = "gather" /\ layer' = layer
    <2>1. inherited_nodes' = inherited_nodes
      BY <1>1, <1>3, Moves DEF InheritNode
    <2>2. n \in LayerNodes(layer) \ inherited_nodes
      BY <1>3, <2>1 DEF LayerNodes
    <2>3. n \in Node /\ task[n] # "idle"
      BY <1>1, <1>3, <2>2, OnLayer DEF AllStarted, InLayer
    <2>4. ASSUME NEW m \in Node, NodeStep(m) PROVE task'[n] # "idle"
      BY <1>1, <2>3, <2>4, NodeEntries
    <2>5. ~Gather /\ ~Crash
      BY <1>3 DEF Gather, Crash
    <2> QED
      BY <1>1, <2>3, <2>4, <2>5, Moves DEF taskVars
  <1> QED
    BY <1>1, <1>2, <1>3, Moves

LEMMA FailureFoundStep ==
  ASSUME IInv, FailureFound, [Next]_vars
  PROVE  FailureFound'
  <1> SUFFICES ASSUME pc' = "save_failed" PROVE FailureFound'
    BY DEF FailureFound
  <1>1. TypeInv
    BY DEF IInv
  <1>2. ~Gather /\ ~Crash /\ \A m \in Node : ~NodeStep(m)
    <2>1. ASSUME NEW m \in Node, NodeStep(m) PROVE FALSE
      BY <1>1, <2>1, NodeEntries, NodeFrame DEF TypeInv
    <2> QED
      BY <2>1 DEF Gather, Crash
  <1>3. task' = task
    BY <1>1, <1>2, Moves DEF taskVars
  <1>4. CASE pc = "save_failed" /\ layer' = layer
    BY <1>3, <1>4 DEF FailureFound
  <1>5. CASE CollectLayer
    <2>1. layer \in DOMAIN Layers
      BY <1>1, <1>5, OnLayer DEF CollectLayer, InLayer
    <2>2. layer' = layer /\ FirstFailed # 0
      BY <1>5 DEF CollectLayer
    <2>3. \E k \in DOMAIN Layers[layer] : task[Layers[layer][k]] = "failed"
      BY <2>1, <2>2, FirstOfFailed
    <2> QED
      BY <1>3, <2>2, <2>3 DEF FailureFound
  <1> QED
    BY <1>1, <1>4, <1>5, Moves

\* gather returned: a node of the layer was inherited, or ended well, or failed.
LEMMA CollectedWell ==
  ASSUME TypeInv, AllStarted, CollectLayer, NEW k \in DOMAIN Layers[layer],
         task[Layers[layer][k]] # "failed"
  PROVE  Layers[layer][k] \in inherited_nodes \/ task[Layers[layer][k]] = "ok"
  <1>1. pc = "gather" /\ Running = {}
    BY DEF CollectLayer
  <1>2. Layers[layer][k] \in Node /\ Layers[layer][k] \in LayerNodes(layer)
    BY <1>1, OnLayer DEF InLayer, LayerNodes
  <1> QED
    BY <1>1, <1>2 DEF Running, AllStarted

LEMMA AcceptedStep ==
  ASSUME IInv, Reached, AllStarted, Inherited, Accepted, [Next]_vars
  PROVE  Accepted'
  <1> SUFFICES ASSUME pc' # "dead", NEW n \in node_outputs', n # Input
               PROVE  n \in inherited_nodes' \/ task'[n] = "ok"
    BY DEF Accepted
  <1>1. TypeInv /\ TypeOK /\ pc # "dead"
    BY Moves DEF IInv, TypeInv
  <1>2. inherited_nodes \subseteq inherited_nodes'
    BY <1>1, Moves DEF InheritNode
  <1>3. ASSUME n \in inherited_nodes \/ task[n] = "ok"
        PROVE  n \in inherited_nodes' \/ task'[n] = "ok"
    <2>1. CASE n \in inherited_nodes
      BY <1>2, <2>1
    <2>2. CASE task[n] = "ok" /\ n \in Node
      <3>1. CASE Gather
        <4>1. ASSUME n \in LayerNodes(layer) PROVE FALSE
          <5>1. pc = "dispatch" /\ layer \in DOMAIN Layers /\ layer >= layer
            BY <1>1, <3>1, OnLayer, LenLayers DEF Gather, InLayer, TypeOK
          <5> QED
            BY <1>1, <2>2, <4>1, <5>1, NotYet DEF After
        <4> QED
          BY <1>1, <2>2, <3>1, <4>1 DEF Gather, taskVars
      <3>2. ASSUME NEW m \in Node, NodeStep(m) PROVE task'[n] = task[n]
        BY <1>1, <2>2, <3>2, NodeEntries
      <3>3. ~Crash
        BY DEF Crash
      <3> QED
        BY <1>1, <2>2, <3>1, <3>2, <3>3, Moves DEF taskVars
    <2>3. n \in Node
      BY TypeNext DEF IInv, TypeInv, TypeOK
    <2> QED
      BY <1>3, <2>1, <2>2, <2>3
  <1>4. CASE n \in node_outputs
    BY <1>1, <1>3, <1>4 DEF Accepted
  <1>5. CASE n \notin node_outputs /\ StartRun
    BY <1>5 DEF StartRun
  <1>6. ASSUME NEW m \in Node, InheritNode(m), n \notin node_outputs PROVE n \in inherited_nodes'
    BY <1>6 DEF InheritNode
  <1>7. CASE n \notin node_outputs /\ CollectLayer
    <2>1. layer \in DOMAIN Layers
      BY <1>1, <1>7, OnLayer DEF CollectLayer, InLayer
    <2>2. PICK k \in DOMAIN Layers[layer] : n = Layers[layer][k] /\ task[n] # "failed"
      <3>1. CASE FirstFailed = 0
        BY <1>7, <2>1, <3>1, FirstOfFailed DEF CollectLayer, LayerNodes
      <3>2. CASE FirstFailed # 0
        BY <1>7, <2>1, <3>2, FirstOfFailed DEF CollectLayer
      <3> QED
        BY <3>1, <3>2
    <2> QED
      BY <1>1, <1>3, <1>7, <2>2, CollectedWell
  <1> QED
    BY <1>1, <1>4, <1>5, <1>6, <1>7, Moves

\* The document that says "failed" is that of a failed task.
LEMMA FailedIsFailed ==
  ASSUME TypeInv, FailureFound, SaveFailedResult
  PROVE  /\ task[Layers[layer][FirstFailed]] = "failed"
         /\ \A n \in Node : task[n] # "failed" => latest'[n] = latest[n]
  <1>1. layer \in DOMAIN Layers /\ pc = "save_failed"
    BY OnLayer DEF SaveFailedResult, InLayer
  <1>2. task[Layers[layer][FirstFailed]] = "failed"
    BY <1>1, FirstOfFailed DEF FailureFound
  <1>3. latest' = latest \/ latest' = [latest EXCEPT ![Layers[layer][FirstFailed]] = "failed"]
    BY DEF SaveFailedResult, InsertResult
  <1> QED
    BY <1>2, <1>3 DEF TypeInv, TypeOK

LEMMA DocumentsStep ==
  ASSUME IInv, Reached, Tries, Inherited, FailureFound, Documents, [Next]_vars
  PROVE  Documents'
  <1> SUFFICES ASSUME pc' # "dead", deleting' = "no" PROVE Documents'
    BY DEF Documents
  <1>1. TypeInv /\ TypeOK /\ pc # "dead" /\ deleting = "no"
        /\ faults \in Nat /\ faults' \in {faults, faults + 1}
    BY Moves DEF IInv, TypeInv, TypeOK
  <1>2. ~DeleteResults /\ ~Crash
    BY <1>1 DEF DeleteResults, Crash
  <1> DEFINE Past == {"uploading", "marking", "ok"}
  <1>3. ASSUME NEW n \in Node, task'[n] \in Past PROVE latest'[n] = "completed"
    <2>1. ASSUME task[n] \in Past, \A m \in Node : ~NodeStep(m) PROVE latest'[n] = "completed"
      <3>1. latest[n] = "completed"
        BY <1>1, <2>1 DEF Documents
      <3>2. ASSUME NEW m \in Node, InheritNode(m) PROVE latest'[n] = latest[n]
        <4>1. pc = "inherit" /\ layer = 1 /\ m \in Inheritable
          BY <3>2 DEF InheritNode, IInv, PlanInv, InheritFirst
        <4>2. m # n
          <5>1. PICK i \in DOMAIN Layers : m \in LayerNodes(i)
            BY <4>1 DEF Inheritable, Plan
          <5>2. i >= layer
            BY <4>1, <5>1, PlanAssumption
          <5>3. task[m] = "idle"
            BY <1>1, <4>1, <5>1, <5>2, NotYet DEF After
          <5> QED
            BY <2>1, <5>3
        <4> QED
          BY <1>1, <3>2, <4>2 DEF InheritNode, InsertResult, TypeOK
      <3>3. CASE SaveFailedResult
        BY <1>1, <2>1, <3>1, <3>3, FailedIsFailed
      <3>4. ASSUME NEW m \in Node, SaveResult(m) PROVE FALSE
        BY <2>1, <3>4 DEF NodeStep
      <3> QED
        BY <1>1, <1>2, <3>1, <3>2, <3>3, <3>4, Moves
    <2>2. CASE Gather
      <3>1. task[n] \in Past
        BY <1>1, <1>3, <2>2 DEF Gather, taskVars, TypeOK
      <3> QED
        BY <1>1, <2>2, <3>1 DEF Gather, docVars, Documents
    <2>3. ASSUME NEW m \in Node, NodeStep(m), m # n PROVE latest'[n] = "completed"
      BY <1>1, <1>3, <2>3, NodeEntries DEF Documents
    <2>4. CASE NodeStep(n)
      <3> USE <1>1, <1>3 DEF TypeOK, Phase, AttemptFails, NodeFault, docVars
      <3>1. task[n] \in Past => latest[n] = "completed"
        BY DEF Documents
      <3>2. CASE SaveResult(n)
        BY <3>2 DEF SaveResult, InsertResult
      <3>3. CASE UploadFiles(n) \/ MarkCompleted(n)
        BY <3>1, <3>3 DEF UploadFiles, MarkCompleted
      <3>4. CASE StartNode(n) \/ Work(n) \/ RetryNode(n)
        BY <3>4 DEF StartNode, Work, RetryNode
      <3> QED
        BY <2>4, <3>2, <3>3, <3>4, Zenon DEF NodeStep
    <2>5. CASE UNCHANGED taskVars /\ \A m \in Node : ~NodeStep(m)
      BY <1>3, <2>1, <2>5 DEF taskVars
    <2> QED
      BY <1>1, <1>2, <2>2, <2>3, <2>4, <2>5, Moves
  <1>4. ASSUME ~CopyFailed', NEW n \in inherited_nodes' PROVE latest'[n] = "inherited"
    <2>1. ~CopyFailed
      BY <1>1, <1>4, Moves
    <2>2. ASSUME NEW m \in Node, InheritNode(m), n \notin inherited_nodes
          PROVE  latest'[n] = "inherited"
      <3>1. n = m /\ status # "completed" /\ status' = status
        BY <1>4, <2>2 DEF InheritNode, IInv, ControlInv, StatusFollows, AtWork, Looping
      <3>2. ~Raises
        <4>1. ~(faults' = faults + 1 /\ pc' = "except")
          BY <1>1, <1>4, <3>1 DEF CopyFailed
        <4> QED
          BY <4>1 DEF Raises
      <3>3. InsertResult(n, "inherited")
        BY <1>4, <2>2, <3>1, <3>2 DEF InheritNode
      <3> QED
        BY <1>1, <2>2, <3>1, <3>3 DEF InsertResult, TypeOK
    <2>3. ASSUME n \in inherited_nodes PROVE latest'[n] = "inherited"
      <3>1. latest[n] = "inherited" /\ task[n] = "idle" /\ n \in Node
        BY <1>1, <2>1, <2>3 DEF Documents, Inherited, InheritedNotExecuted, TypeOK
      <3>2. ASSUME NEW m \in Node, InheritNode(m) PROVE latest'[n] = "inherited"
        BY <1>1, <3>1, <3>2 DEF InheritNode, InsertResult, TypeOK
      <3>3. ASSUME NEW m \in Node, SaveResult(m) PROVE latest'[n] = "inherited"
        BY <1>1, <3>1, <3>3, NodeEntries DEF NodeStep
      <3>4. CASE SaveFailedResult
        BY <1>1, <3>1, <3>4, FailedIsFailed
      <3> QED
        BY <1>1, <1>2, <3>1, <3>2, <3>3, <3>4, Moves
    <2> QED
      BY <1>1, <1>4, <2>2, <2>3, Moves
  <1> QED
    BY <1>3, <1>4 DEF Documents

-----------------------------------------------------------------------------
(* The list of completed nodes.                                            *)

\* The last layer is its only node, and not INPUT.
LEMMA LastLayer ==
  ASSUME LastAlone
  PROVE  /\ Len(Layers) \in DOMAIN Layers /\ Len(Layers) >= 1
         /\ LastNode \in Node /\ LayerNodes(Len(Layers)) = {LastNode}
         /\ LayerNodes(Len(Layers)) # {Input}
  <1>1. Len(Layers) \in DOMAIN Layers /\ Len(Layers) >= 1
    BY PlanAssumption DEF LastAlone
  <1>2. Layers[Len(Layers)] \in Seq(Node)
    BY <1>1, PlanAssumption
  <1>3. DOMAIN Layers[Len(Layers)] = {1}
    BY <1>2 DEF LastAlone
  <1>4. LastNode \in Node /\ LayerNodes(Len(Layers)) = {LastNode}
    BY <1>2, <1>3 DEF LayerNodes, LastNode
  <1>5. Input # LastNode
    BY <1>1, <1>4, PlanAssumption DEF LastAlone
  <1> QED
    BY <1>1, <1>4, <1>5

LEMMA ListedStep ==
  ASSUME IInv, AllStarted, Listed, [Next]_vars
  PROVE  Listed'
  <1> SUFFICES ASSUME LastAlone, status' # "deleted" PROVE Listed'
    BY DEF Listed
  <1>1. TypeInv /\ TypeOK /\ PlanInv /\ ControlInv /\ StatusFollows
        /\ inherited_nodes \subseteq node_outputs
    BY DEF IInv, TypeInv, PlanInv, ControlInv
  <1>2. /\ Len(Layers) \in DOMAIN Layers /\ Len(Layers) \in Nat /\ Len(Layers) >= 1
        /\ LastNode \in Node /\ LayerNodes(Len(Layers)) = {LastNode}
        /\ LayerNodes(Len(Layers)) # {Input}
        /\ layer \in 1..(Len(Layers) + 1)
    BY <1>1, LastLayer, LenLayers DEF TypeOK
  <1> USE <1>1, <1>2 DEF Listed, LastAlone
  <1> USE DEF docVars, taskVars, runnerVars, signalVars, apiVars, boundVars
  <1> USE DEF TypeOK, SetStatus, Raises, StatusFollows, Before, AtWork, OnHold
  <1>3. CASE Begin
    BY <1>3 DEF Begin
  <1>4. CASE RejectTemplate
    BY <1>4 DEF RejectTemplate
  <1>5. CASE StartRun
    <2>1. layer' = 1 /\ pc' \in {"inherit", "layer", "except"}
      BY <1>5 DEF StartRun, PlanInv, FreshBefore
    <2>2. status' # "completed"
      BY <1>5 DEF StartRun
    <2> QED
      BY <2>1, <2>2
  <1>6. CASE InheritDone
    <2>1. layer' = 1 /\ pc' = "layer"
      BY <1>6 DEF InheritDone, PlanInv, InheritFirst
    <2>2. status' # "completed"
      BY <1>6 DEF InheritDone
    <2> QED
      BY <2>1, <2>2
  <1>7. CASE SkipInputLayer
    <2>1. layer # Len(Layers) /\ layer \in Nat /\ layer <= Len(Layers) /\ layer' = layer + 1
      <3>1. layer' = layer + 1 /\ layer <= Len(Layers) /\ LayerNodes(layer) = {Input}
        BY <1>7 DEF SkipInputLayer
      <3>2. ASSUME layer = Len(Layers) PROVE FALSE
        <4>1. LayerNodes(layer) = LayerNodes(Len(Layers))
          BY <3>2
        <4> QED
          BY <1>2, <3>1, <4>1
      <3> QED
        BY <3>1, <3>2
    <2>2. ~(layer' > Len(Layers)) /\ pc' = "layer"
      BY <1>7, <2>1 DEF SkipInputLayer
    <2>3. status' # "completed"
      BY <1>7 DEF SkipInputLayer
    <2> QED
      BY <2>2, <2>3
  <1>8. CASE Checkpoint
    BY <1>8 DEF Checkpoint
  <1>9. CASE WritePaused
    BY <1>9 DEF WritePaused
  <1>10. CASE EnterWait
    BY <1>10 DEF EnterWait
  <1>11. CASE WakeUp
    BY <1>11 DEF WakeUp
  <1>12. CASE PauseTimeout
    BY <1>12 DEF PauseTimeout
  <1>13. CASE WriteResumed
    BY <1>13 DEF WriteResumed
  <1>14. CASE SaveFailedResult
    BY <1>14 DEF SaveFailedResult
  <1>15. CASE MarkFailed
    BY <1>15 DEF MarkFailed
  <1>16. CASE CompleteRun
    BY <1>16 DEF CompleteRun
  <1>17. CASE HandleCancel
    BY <1>17 DEF HandleCancel
  <1>18. CASE BackgroundExcept
    BY <1>18 DEF BackgroundExcept
  <1>19. CASE CheckDelete
    BY <1>19 DEF CheckDelete
  <1>20. CASE SignalDelete
    BY <1>20 DEF SignalDelete
  <1>21. CASE DeleteResults
    BY <1>21 DEF DeleteResults
  <1>22. CASE DeleteDocument
    BY <1>22 DEF DeleteDocument
  <1>23. CASE Crash
    BY <1>23 DEF Crash
  <1>24. CASE Restart
    BY <1>24 DEF Restart
  <1>25. ASSUME NEW n \in Node, InheritNode(n) PROVE Listed'
    BY <1>25 DEF InheritNode
  <1>26. ASSUME NEW n \in Node, SkipInherited(n) PROVE Listed'
    <2>1. /\ pc = "dispatch" /\ n \in todo /\ todo' = todo \ {n} /\ status' = status
          /\ pc' \in {"dispatch", "except"}
          /\ UNCHANGED <<node_outputs, inherited_nodes>>
      BY <1>26 DEF SkipInherited, Raises
    <2>2. status # "deleted" /\ status # "completed"
      BY <2>1
    <2>3. todo \subseteq inherited_nodes
      BY <2>1, <2>2
    <2>4. node_outputs \cup {n} = node_outputs
      BY <2>1, <2>3
    <2>5. pc' = "dispatch" => completed_nodes' = node_outputs \cup {n}
      BY <1>26, <2>1, <2>2 DEF SkipInherited, SetCompleted, Raises
    <2> QED
      BY <2>1, <2>2, <2>3, <2>4, <2>5
  <1>27. CASE Gather
    <2>1. \A n \in LayerNodes(layer) \ inherited_nodes : task'[n] # "ok"
      <3>1. LayerNodes(layer) \subseteq Node
        BY <1>27, OnLayer DEF Gather, InLayer
      <3> QED
        BY <1>27, <3>1 DEF Gather
    <2>2. layer = Len(Layers) => LayerNodes(layer) = {LastNode}
      OBVIOUS
    <2>3. /\ status' = status /\ status # "completed" /\ status # "deleted" /\ todo' = todo
          /\ UNCHANGED <<completed_nodes, node_outputs, inherited_nodes>>
      BY <1>27 DEF Gather
    <2>4. CASE LayerNodes(layer) \ inherited_nodes = {}
      <3>1. pc' = "layer" /\ layer' = layer + 1 /\ pc = "dispatch" /\ todo = {}
        BY <1>27, <2>4 DEF Gather
      <3>2. layer = Len(Layers) => LastNode \in inherited_nodes \ todo
        BY <2>2, <2>4, <3>1
      <3>3. layer = Len(Layers) => completed_nodes = node_outputs
        BY <2>3, <3>1, <3>2
      <3>4. layer # Len(Layers) => ~(layer' > Len(Layers))
        <4>1. layer \in Nat /\ layer <= Len(Layers)
          BY <1>27, OnLayer DEF Gather, InLayer
        <4> QED
          BY <3>1, <4>1
      <3> QED
        BY <2>3, <3>1, <3>3, <3>4
    <2>5. CASE LayerNodes(layer) \ inherited_nodes # {}
      <3>1. pc' = "gather" /\ layer' = layer
        BY <1>27, <2>5 DEF Gather
      <3>2. layer = Len(Layers) => task'[LastNode] # "ok" /\ LastNode \notin inherited_nodes
        BY <2>1, <2>2, <2>5
      <3> QED
        BY <2>3, <3>1, <3>2
    <2> QED
      BY <2>4, <2>5
  <1>28. CASE CollectLayer
    <2>1. CASE layer = Len(Layers) /\ FirstFailed = 0
      <3>1. layer \in DOMAIN Layers /\ 1 \in DOMAIN Layers[layer] /\ Layers[layer][1] = LastNode
        <4>1. Layers[layer] \in Seq(Node) /\ Len(Layers[layer]) = 1
          BY <2>1, PlanAssumption
        <4> QED
          BY <2>1, <4>1 DEF LastNode
      <3>2. task[LastNode] # "failed"
        BY <2>1, <3>1, FirstOfFailed
      <3>3. LastNode \in inherited_nodes \/ task[LastNode] = "ok"
        BY <1>28, <3>1, <3>2, CollectedWell
      <3>4. /\ pc = "gather" /\ pc' = "layer" /\ status' = status
            /\ status # "deleted" /\ status # "completed"
            /\ completed_nodes' = completed_nodes
            /\ node_outputs' = node_outputs \cup {LastNode}
        BY <1>28, <2>1 DEF CollectLayer
      <3>5. task[LastNode] = "ok"
        BY <2>1, <3>3, <3>4
      <3> QED
        BY <2>1, <3>4, <3>5
    <2>2. CASE ~(layer = Len(Layers) /\ FirstFailed = 0)
      <3>1. /\ pc = "gather" /\ status' = status /\ pc' \in {"save_failed", "layer"}
            /\ status # "deleted" /\ status # "completed"
        BY <1>28 DEF CollectLayer
      <3>2. layer \in Nat /\ layer <= Len(Layers)
        BY <1>28, <3>1, OnLayer DEF InLayer
      <3>3. pc' = "layer" => layer' = layer + 1 /\ layer # Len(Layers)
        BY <1>28, <2>2 DEF CollectLayer
      <3>4. pc' = "layer" => ~(layer' > Len(Layers))
        BY <3>2, <3>3
      <3> QED
        BY <3>1, <3>4
    <2> QED
      BY <2>1, <2>2
  <1>29. ASSUME NEW n \in Node, StartNode(n) PROVE Listed'
    BY <1>29 DEF StartNode, Phase, NodeFault, AttemptFails, SetCompleted
  <1>30. ASSUME NEW n \in Node, Work(n) PROVE Listed'
    BY <1>30 DEF Work, Phase, NodeFault, AttemptFails, SetCompleted
  <1>31. ASSUME NEW n \in Node, SaveResult(n) PROVE Listed'
    BY <1>31 DEF SaveResult, Phase, NodeFault, AttemptFails, SetCompleted
  <1>32. ASSUME NEW n \in Node, UploadFiles(n) PROVE Listed'
    BY <1>32 DEF UploadFiles, Phase, NodeFault, AttemptFails, SetCompleted
  <1>33. ASSUME NEW n \in Node, MarkCompleted(n) PROVE Listed'
    <2>1. /\ pc = "gather" /\ pc' = pc /\ layer' = layer /\ status' = status
          /\ UNCHANGED <<node_outputs, inherited_nodes>> /\ task[n] = "marking"
      BY <1>33 DEF MarkCompleted
    <2>2. ASSUME layer = Len(Layers), task'[LastNode] = "ok"
          PROVE  completed_nodes' = node_outputs \cup {LastNode}
      <3>1. n = LastNode
        <4>1. n \in LayerNodes(layer)
          BY <2>1 DEF PlanInv, TasksOfLayer
        <4> QED
          BY <2>2, <4>1
      <3>2. completed_nodes' = node_outputs \cup {n}
        BY <1>33, <2>1, <2>2, <3>1 DEF MarkCompleted, SetCompleted, NodeFault, AttemptFails, Phase
      <3> QED
        BY <3>1, <3>2
    <2> QED
      BY <2>1, <2>2
  <1>34. ASSUME NEW n \in Node, RetryNode(n) PROVE Listed'
    BY <1>34 DEF RetryNode, Phase, NodeFault, AttemptFails, SetCompleted
  <1>35. ASSUME NEW op \in Control, CheckControl(op) \/ SendControl(op) PROVE Listed'
    BY <1>35 DEF CheckControl, SendControl
  <1>36. CASE UNCHANGED vars
    BY <1>36 DEF vars
  <1> QED
    BY <1>3, <1>4, <1>5, <1>6, <1>7, <1>8, <1>9, <1>10, <1>11, <1>12, <1>13,
       <1>14, <1>15, <1>16, <1>17, <1>18, <1>19, <1>20, <1>21, <1>22, <1>23,
       <1>24, <1>25, <1>26, <1>27, <1>28, <1>29, <1>30, <1>31, <1>32, <1>33,
       <1>34, <1>35, <1>36, Zenon
    DEF Next, RunnerStep, NodeStep, DeleteStep

-----------------------------------------------------------------------------
(* The theorems.                                                           *)

\* The parts keep each other.
LEMMA RecordsNext == RInv /\ [Next]_vars => RInv'
  <1> SUFFICES ASSUME RInv, [Next]_vars PROVE RInv'
    OBVIOUS
  <1>1. IInv'
    BY TypeNext, ControlNext, PlanNext DEF RInv, IInv
  <1>2. Reached' /\ Tries' /\ AllStarted' /\ FailureFound'
    BY ReachedStep, TriesStep, AllStartedStep, FailureFoundStep DEF RInv
  <1>3. Inherited' /\ Accepted' /\ Documents' /\ Listed'
    BY InheritedStep, AcceptedStep, DocumentsStep, ListedStep DEF RInv
  <1> QED
    BY <1>1, <1>2, <1>3 DEF RInv

LEMMA RecordsInvariant == Spec => []RInv
  BY RecordsInit, RecordsNext, PTL DEF Spec

\* _execute_node_with_retry leaves at most retry_count + 1 result documents of a node, and
\* a single one when neither an upload nor a database call failed.
THEOREM ResultsAreBounded == Spec => []ResultBound
  <1>1. RInv => ResultBound
    <2> SUFFICES ASSUME RInv, NEW n \in Node
                 PROVE  results[n] <= IF n \in Uploads \/ faults > 0 THEN Retry[n] + 1 ELSE 1
      BY DEF ResultBound
    <2>1. Tried(n) /\ (n \notin Uploads => StoredOnce(n)) /\ faults \in Nat
      BY DEF RInv, Tries, IInv, TypeInv, TypeOK
    <2> QED
      BY <2>1 DEF Tried, StoredOnce
  <1> QED
    BY RecordsInvariant, <1>1, PTL

\* The newest document of every node the runner accepted is an output, whatever attempts
\* failed before: get_node_result gives a derived run what this run worked with. Only a
\* derived run that failed on storing a copy, and never completes, may lack that copy.
THEOREM AcceptedIsStored == Spec => []AcceptedHasResult
  <1>1. RInv => AcceptedHasResult
    <2> SUFFICES ASSUME RInv, deleting = "no", pc # "dead",
                        NEW n \in node_outputs \ {Input},
                        ~(CopyFailed /\ n \in inherited_nodes)
                 PROVE  latest[n] \in {"completed", "inherited"}
      BY DEF AcceptedHasResult
    <2>1. n \in Node /\ (n \in inherited_nodes \/ task[n] = "ok")
      BY DEF RInv, IInv, TypeInv, TypeOK, Accepted
    <2> QED
      BY <2>1 DEF RInv, Documents
  <1> QED
    BY RecordsInvariant, <1>1, PTL

\* A derived run takes nothing over that is computed from rerun_from_node, in a plan of
\* any shape, and executes nothing that it took over.
THEOREM InheritanceIsSound == Spec => []InheritedSoundly
  <1>1. RInv => InheritedSoundly
    <2> SUFFICES ASSUME RInv PROVE InheritedNotDownstream
      BY DEF InheritedSoundly, RInv, Inherited
    <2>1. inherited_nodes \subseteq Inheritable
      BY DEF RInv, Inherited
    <2>2. CASE Derived
      BY <2>1, <2>2, InheritableIsSound DEF InheritedNotDownstream
    <2>3. CASE ~Derived
      BY <2>1, <2>3 DEF InheritedNotDownstream, Inheritable
    <2> QED
      BY <2>2, <2>3
  <1> QED
    BY RecordsInvariant, <1>1, PTL

\* The nodes of a layer overwrite each other's list, and still a run that ends with a
\* layer of one node completes with the list of everything that it accepted.
THEOREM LastListIsWhole == Spec => []CompletedNodesListed
  <1>1. RInv => CompletedNodesListed
    BY DEF RInv, Listed, CompletedNodesListed
  <1> QED
    BY RecordsInvariant, <1>1, PTL
=============================================================================
