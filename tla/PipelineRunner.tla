--------------------------- MODULE PipelineRunner ---------------------------
(***************************************************************************)
(* One pipeline run of the backend, from the moment its document is stored *)
(* as "pending" and its background task is scheduled, to its end.          *)
(*                                                                         *)
(*   - the background task (_background.py) and the layer loop of          *)
(*     DAGPipelineRunner.run, one action per stretch between two awaits    *)
(*     that can let somebody else in;                                      *)
(*   - one task per node of the current layer (asyncio.gather over         *)
(*     _execute_node_with_retry), interleaved at their own awaits;         *)
(*   - the SignalManager entry of the run: its signal and resume event;    *)
(*   - the pause, resume, cancel and delete handlers, each split where it  *)
(*     awaits: the status it checked may be stale when it acts;            *)
(*   - the run and result documents in MongoDB (crud.py);                  *)
(*   - a crash of the server process and the recovery at the next start.   *)
(***************************************************************************)
EXTENDS Naturals, Sequences, FiniteSets

CONSTANTS
    Node,           \* node ids of the template
    Input,          \* its INPUT node
    Output,         \* its OUTPUT node
    Layers,         \* DAGResolver.get_execution_layers(): Seq(Seq(Node))
    Parents,        \* [Node -> SUBSET Node], DAGResolver.get_node_parents
    Retry,          \* [Node -> Nat], retry_count of each node
    Uploads,        \* nodes whose output files go to MinIO (playwright agents)
    Derived,        \* TRUE for a run derived from a parent run
    RerunFrom,      \* its rerun_from_node (any node id, maybe not in Layers)
    Ops,            \* API operations users may call
    MaxCalls,       \* bound: pause/resume/cancel calls that pass their check
    MaxCrashes,     \* bound: crashes of the server process
    MaxFaults       \* bound: exceptions raised by database calls

LayerNodes(i) == {Layers[i][k] : k \in DOMAIN Layers[i]}
Plan == UNION {LayerNodes(i) : i \in DOMAIN Layers}

\* What DAGResolver establishes for a template that validates: the layers are
\* disjoint, a node comes after the enabled nodes it depends on, and INPUT
\* shares a layer with no other node (ValidTemplateIsPlan in DagResolver_proofs).
ASSUME PlanAssumption ==
    /\ Input \in Node
    /\ Output \in Node
    /\ Input # Output
    /\ Layers \in Seq(Seq(Node))
    /\ \A i \in DOMAIN Layers : Input \in LayerNodes(i) => Layers[i] = <<Input>>
    /\ Parents \in [Node -> SUBSET Node]
    /\ \A i \in DOMAIN Layers : \A n \in LayerNodes(i) :
          Parents[n] \cap Plan \subseteq UNION {LayerNodes(j) : j \in 1..(i-1)}
    /\ \A i, j \in DOMAIN Layers :
          i # j => LayerNodes(i) \cap LayerNodes(j) = {}
    /\ \A i \in DOMAIN Layers : \A k, l \in DOMAIN Layers[i] :
          k # l => Layers[i][k] # Layers[i][l]

ASSUME ParameterAssumption ==
    /\ Retry \in [Node -> Nat]
    /\ Uploads \subseteq Node
    /\ Derived \in BOOLEAN
    /\ Ops \subseteq {"pause", "resume", "cancel", "delete"}
    /\ MaxCalls \in Nat
    /\ MaxCrashes \in Nat
    /\ MaxFaults \in Nat

VARIABLES
    status,          \* PipelineRunDocument.status, "deleted" when it is gone
    completed_nodes, \* PipelineRunDocument.completed_nodes, as a set
    node_statuses,   \* PipelineRunDocument.node_statuses
    results,         \* [Node -> number of "completed" result documents]
    latest,          \* [Node -> kind of the newest result document]
    pc,              \* where the background task is
    layer,           \* layer_idx of the loop (1-based)
    node_outputs,    \* DOMAIN of DAGPipelineRunner._node_outputs
    inherited_nodes, \* DAGPipelineRunner._inherited_nodes
    todo,            \* nodes a loop of the runner has still to visit
    parent_results,  \* those of Inheritable with an output in the parent run
    task,            \* [Node -> phase of its task]
    attempt,         \* [Node -> attempt number of its task]
    signal,          \* SignalManager._signals[run_id]
    resume_event,    \* SignalManager._resume_events[run_id]
    inflight,        \* [op -> handlers that passed their check, not yet acted]
    calls,           \* control calls so far
    cancel_acked,    \* a cancel call was answered "cancel_requested"
    deleting,        \* where the delete handler is
    last_event,      \* last run.* event sent to the clients
    up,              \* the server process is running
    crashes,
    faults

docVars    == <<status, completed_nodes, node_statuses, results, latest>>
taskVars   == <<task, attempt>>
runnerVars == <<pc, layer, node_outputs, inherited_nodes, todo, parent_results>>
signalVars == <<signal, resume_event>>
apiVars    == <<inflight, calls, cancel_acked, deleting>>
boundVars  == <<up, crashes, faults>>
vars == <<docVars, taskVars, runnerVars, signalVars, apiVars, last_event,
          boundVars>>

-----------------------------------------------------------------------------
Terminal  == {"completed", "failed", "cancelled"}
Statuses  == Terminal \cup {"pending", "running", "paused", "deleted"}
Control   == {"pause", "resume", "cancel"}
Phases    == {"idle", "starting", "working", "saving", "uploading", "marking",
              "backoff", "ok", "failed"}
Settled   == {"idle", "ok", "failed"}
Locations == {"queued", "reject", "begin", "inherit", "layer", "pausing",
              "enter_wait", "waiting", "resuming", "dispatch", "gather",
              "save_failed", "mark_failed", "cancelling",
              "except", "done", "dead"}

TypeOK ==
    /\ status \in Statuses
    /\ completed_nodes \in SUBSET Node
    /\ node_statuses \in [Node -> {"none", "running", "completed", "skipped"}]
    /\ results \in [Node -> Nat]
    /\ latest \in [Node -> {"none", "completed", "failed", "inherited"}]
    /\ pc \in Locations
    /\ layer \in 1..(Len(Layers) + 1)
    /\ node_outputs \in SUBSET Node
    /\ inherited_nodes \in SUBSET Node
    /\ todo \in SUBSET Node
    /\ parent_results \in SUBSET Node
    /\ task \in [Node -> Phases]
    /\ attempt \in [Node -> Nat]
    /\ signal \in {"none", "pause", "resume", "cancel"}
    /\ resume_event \in {"none", "unset", "set"}
    /\ inflight \in [Control -> Nat]
    /\ calls \in Nat
    /\ cancel_acked \in BOOLEAN
    /\ deleting \in {"no", "signal", "results", "doc", "yes"}
    /\ last_event \in {"none", "started", "paused", "resumed"} \cup Terminal
    /\ up \in BOOLEAN
    /\ crashes \in Nat
    /\ faults \in Nat

\* Mutant: everything but the rerun node itself.
Inheritable_AllOthers == IF ~Derived THEN {} ELSE Plan \ {Input, RerunFrom}

\* Nodes before rerun_from_node in the layers, and its siblings; every node
\* of the plan when rerun_from_node is in no layer.
Inheritable ==
    IF ~Derived THEN {}
    ELSE {n \in Plan \ {Input, RerunFrom} :
            \A i, j \in DOMAIN Layers :
               n \in LayerNodes(i) /\ RerunFrom \in LayerNodes(j) => i <= j}

Init ==
    /\ status = "pending"
    /\ completed_nodes = {}
    /\ node_statuses = [n \in Node |-> "none"]
    /\ results = [n \in Node |-> 0]
    /\ latest = [n \in Node |-> "none"]
    /\ pc = "queued"
    /\ layer = 1
    /\ node_outputs = {}
    /\ inherited_nodes = {}
    /\ todo = {}
    /\ parent_results \in SUBSET Inheritable
    /\ task = [n \in Node |-> "idle"]
    /\ attempt = [n \in Node |-> 0]
    /\ signal = "none"
    /\ resume_event = "none"
    /\ inflight = [op \in Control |-> 0]
    /\ calls = 0
    /\ cancel_acked = FALSE
    /\ deleting = "no"
    /\ last_event = "none"
    /\ up = TRUE
    /\ crashes = 0
    /\ faults = 0

-----------------------------------------------------------------------------
(* crud.update_pipeline_run: nothing happens when the document is gone.    *)

SetStatus(s) == status' = IF status = "deleted" THEN status ELSE s

Emit(event) == last_event' = event

SetNode(n, s) ==
    node_statuses' = IF status = "deleted" THEN node_statuses
                     ELSE [node_statuses EXCEPT ![n] = s]

\* Mutant: the list lacks the node itself.
SetCompleted_CacheOnly(n) ==
    completed_nodes' = IF status = "deleted" THEN completed_nodes
                       ELSE node_outputs

\* completed_nodes = [*self._get_current_completed(), n]: the list is built
\* from the runner's own cache, and replaces the stored one.
SetCompleted(n) ==
    completed_nodes' = IF status = "deleted" THEN completed_nodes
                       ELSE node_outputs \cup {n}

\* crud.save_node_result always inserts, also for a run that is gone.
InsertResult(n, kind) ==
    /\ latest' = [latest EXCEPT ![n] = kind]
    /\ results' = IF kind = "completed"
                  THEN [results EXCEPT ![n] = @ + 1] ELSE results

-----------------------------------------------------------------------------
(* The background task and the layer loop of DAGPipelineRunner.run.        *)

\* A database call of the task raises, before or after it took effect
\* (update_pipeline_run reads, updates and reads again): the exception
\* reaches the handler of _run_dag_pipeline_background.
Raises ==
    /\ faults < MaxFaults
    /\ faults' = faults + 1
    /\ pc' = "except"

\* get_pipeline_template: the template may have been deleted, or edited into
\* an invalid one, since the run was created.
Begin ==
    /\ pc = "queued"
    /\ pc' \in {"begin", "reject", "except"}
    /\ UNCHANGED <<docVars, taskVars, layer, node_outputs, inherited_nodes,
                   todo, parent_results, signalVars, apiVars, last_event,
                   boundVars>>

\* DAGValidationError: the run fails here and again in the except clause.
RejectTemplate ==
    /\ pc = "reject"
    /\ \/ /\ SetStatus("failed")
          /\ Emit("failed")
          /\ pc' = "except"
          /\ UNCHANGED faults
       \/ /\ Raises
          /\ status' = status \/ SetStatus("failed")
          /\ UNCHANGED last_event
    /\ UNCHANGED <<completed_nodes, node_statuses, results, latest, taskVars,
                   layer, node_outputs, inherited_nodes, todo, parent_results,
                   signalVars, apiVars, up, crashes>>

StartRun ==
    /\ pc = "begin"
    /\ \/ /\ SetStatus("running")
          /\ Emit("started")
          /\ node_outputs' = {Input}
          /\ todo' = Inheritable
          /\ pc' = IF Derived THEN "inherit" ELSE "layer"
          /\ UNCHANGED faults
       \/ /\ Raises
          /\ status' = status \/ SetStatus("running")
          /\ UNCHANGED <<last_event, node_outputs, todo>>
    /\ UNCHANGED <<completed_nodes, node_statuses, results, latest, taskVars,
                   layer, inherited_nodes, parent_results, signalVars,
                   apiVars, up, crashes>>

\* Mutant: when storing the copy raises, the loop goes on without it.
InheritNode_Swallows(n) ==
    /\ pc = "inherit"
    /\ n \in todo
    /\ todo' = todo \ {n}
    /\ node_outputs' = node_outputs \cup ({n} \cap parent_results)
    /\ inherited_nodes' = inherited_nodes \cup ({n} \cap parent_results)
    /\ \/ n \notin parent_results /\ UNCHANGED <<results, latest, faults>>
       \/ n \in parent_results /\ InsertResult(n, "inherited") /\ UNCHANGED faults
       \/ /\ n \in parent_results /\ faults < MaxFaults
          /\ faults' = faults + 1
          /\ UNCHANGED <<results, latest>>
    /\ UNCHANGED <<status, completed_nodes, node_statuses, pc, taskVars, layer,
                   parent_results, signalVars, apiVars, last_event, up, crashes>>

\* One iteration of _load_inherited_nodes (over a set, in no fixed order): the
\* parent's result is read, cached and copied. A node without an output in the
\* parent run is left to be executed. The reading may raise, and so may the
\* copying, when the output is in the cache already.
InheritNode(n) ==
    /\ pc = "inherit"
    /\ n \in todo
    /\ todo' = todo \ {n}
    /\ \/ /\ Raises
          /\ UNCHANGED <<node_outputs, inherited_nodes, results, latest>>
       \/ /\ n \notin parent_results
          /\ UNCHANGED <<node_outputs, inherited_nodes, results, latest, pc,
                         faults>>
       \/ /\ n \in parent_results
          /\ node_outputs' = node_outputs \cup {n}
          /\ inherited_nodes' = inherited_nodes \cup {n}
          /\ \/ InsertResult(n, "inherited") /\ UNCHANGED <<pc, faults>>
             \/ /\ Raises
                /\ UNCHANGED <<results, latest>> \/ InsertResult(n, "inherited")
    /\ UNCHANGED <<status, completed_nodes, node_statuses, taskVars, layer,
                   parent_results, signalVars, apiVars, last_event, up, crashes>>

InheritDone ==
    /\ pc = "inherit"
    /\ todo = {}
    /\ pc' = "layer"
    /\ UNCHANGED <<docVars, taskVars, layer, node_outputs, inherited_nodes,
                   todo, parent_results, signalVars, apiVars, last_event,
                   boundVars>>

\* A layer that holds only INPUT is skipped, without a look at the signal.
SkipInputLayer ==
    /\ pc = "layer"
    /\ layer <= Len(Layers)
    /\ LayerNodes(layer) = {Input}
    /\ layer' = layer + 1
    /\ UNCHANGED <<docVars, taskVars, pc, node_outputs, inherited_nodes, todo,
                   parent_results, signalVars, apiVars, last_event, boundVars>>

\* The checkpoint before a layer. "run.paused" is sent before the document
\* says so.
Checkpoint ==
    /\ pc = "layer"
    /\ layer <= Len(Layers)
    /\ LayerNodes(layer) # {Input}
    /\ \/ /\ signal = "cancel"
          /\ pc' = "cancelling"
          /\ UNCHANGED <<last_event, todo>>
       \/ /\ signal = "pause"
          /\ Emit("paused")
          /\ pc' = "pausing"
          /\ UNCHANGED todo
       \/ /\ signal \in {"none", "resume"}
          /\ pc' = "dispatch"
          /\ todo' = LayerNodes(layer) \cap inherited_nodes
          /\ UNCHANGED last_event
    /\ UNCHANGED <<docVars, taskVars, layer, node_outputs, inherited_nodes,
                   parent_results, signalVars, apiVars, boundVars>>

WritePaused ==
    /\ pc = "pausing"
    /\ \/ SetStatus("paused") /\ pc' = "enter_wait" /\ UNCHANGED faults
       \/ Raises /\ (status' = status \/ SetStatus("paused"))
    /\ UNCHANGED <<completed_nodes, node_statuses, results, latest, taskVars,
                   layer, node_outputs, inherited_nodes, todo, parent_results,
                   signalVars, apiVars, last_event, up, crashes>>

\* SignalManager.wait_for_resume up to its first wait: a fresh event replaces
\* whatever was registered, and a signal that is already there is honoured.
EnterWait ==
    /\ pc = "enter_wait"
    /\ resume_event' = IF signal = "resume" THEN "set" ELSE "unset"
    /\ pc' = IF signal = "cancel" THEN "cancelling" ELSE "waiting"
    /\ UNCHANGED <<docVars, taskVars, layer, node_outputs, inherited_nodes,
                   todo, parent_results, signal, apiVars, last_event,
                   boundVars>>

\* The event was set: wait_for_resume returns the signal of the moment it
\* wakes up in, and anything but "cancel" resumes the run.
WakeUp ==
    /\ pc = "waiting"
    /\ resume_event = "set"
    /\ IF signal = "cancel"
       THEN pc' = "cancelling" /\ UNCHANGED last_event
       ELSE pc' = "resuming" /\ Emit("resumed")
    /\ UNCHANGED <<docVars, taskVars, layer, node_outputs, inherited_nodes,
                   todo, parent_results, signalVars, apiVars, boundVars>>

\* Mutant: the task returns on timeout without storing "cancelled".
PauseTimeout_JustReturns ==
    /\ pc = "waiting"
    /\ pc' = "done"
    /\ UNCHANGED <<docVars, taskVars, layer, node_outputs, inherited_nodes,
                   todo, parent_results, signalVars, apiVars, last_event,
                   boundVars>>

\* PAUSE_TIMEOUT_SECONDS elapse. An event set in the same turn of the loop
\* may still lose to the timer.
PauseTimeout ==
    /\ pc = "waiting"
    /\ pc' = "cancelling"
    /\ UNCHANGED <<docVars, taskVars, layer, node_outputs, inherited_nodes,
                   todo, parent_results, signalVars, apiVars, last_event,
                   boundVars>>

\* After a pause the layer starts without a second look at the signal.
WriteResumed ==
    /\ pc = "resuming"
    /\ \/ /\ SetStatus("running")
          /\ pc' = "dispatch"
          /\ todo' = LayerNodes(layer) \cap inherited_nodes
          /\ UNCHANGED faults
       \/ /\ Raises
          /\ status' = status \/ SetStatus("running")
          /\ UNCHANGED todo
    /\ UNCHANGED <<completed_nodes, node_statuses, results, latest, taskVars,
                   layer, node_outputs, inherited_nodes, parent_results,
                   signalVars, apiVars, last_event, up, crashes>>

-----------------------------------------------------------------------------
(* A layer: inherited nodes are marked, the others run concurrently.       *)

SkipInherited(n) ==
    /\ pc = "dispatch"
    /\ n \in todo
    /\ todo' = todo \ {n}
    /\ \/ SetCompleted(n) /\ SetNode(n, "skipped") /\ UNCHANGED <<pc, faults>>
       \/ /\ Raises
          /\ \/ UNCHANGED <<completed_nodes, node_statuses>>
             \/ SetCompleted(n) /\ SetNode(n, "skipped")
    /\ UNCHANGED <<status, results, latest, taskVars, layer, node_outputs,
                   inherited_nodes, parent_results, signalVars, apiVars,
                   last_event, up, crashes>>

\* asyncio.gather starts one task per remaining node; a layer without any is
\* left at once.
Gather ==
    /\ pc = "dispatch"
    /\ todo = {}
    /\ LET fresh == LayerNodes(layer) \ inherited_nodes IN
       IF fresh = {}
       THEN /\ pc' = "layer"
            /\ layer' = layer + 1
            /\ UNCHANGED taskVars
       ELSE /\ pc' = "gather"
            /\ task' = [n \in Node |->
                          IF n \in fresh THEN "starting" ELSE task[n]]
            /\ attempt' = [n \in Node |->
                             IF n \in fresh THEN 0 ELSE attempt[n]]
            /\ UNCHANGED layer
    /\ UNCHANGED <<docVars, node_outputs, inherited_nodes, todo,
                   parent_results, signalVars, apiVars, last_event, boundVars>>

Running == {n \in Node : task[n] \notin Settled}

\* Position in the layer of the first node that failed, 0 when none did.
FirstFailed ==
    LET failed == {k \in DOMAIN Layers[layer] :
                     task[Layers[layer][k]] = "failed"}
    IN IF failed = {} THEN 0
       ELSE CHOOSE k \in failed : \A l \in failed : k <= l

\* Mutant: gather without return_exceptions raises at the first failure.
CollectLayer_FailFast ==
    /\ pc = "gather"
    /\ Running = {} \/ FirstFailed # 0
    /\ IF FirstFailed = 0
       THEN /\ node_outputs' = node_outputs \cup LayerNodes(layer)
            /\ pc' = "layer"
            /\ layer' = layer + 1
       ELSE /\ node_outputs' = node_outputs
            /\ pc' = "save_failed"
            /\ UNCHANGED layer
    /\ UNCHANGED <<docVars, taskVars, inherited_nodes, todo, parent_results,
                   signalVars, apiVars, last_event, boundVars>>

\* Mutant: a failed node is dropped and the run goes on.
CollectLayer_KeepGoing ==
    /\ pc = "gather"
    /\ Running = {}
    /\ node_outputs' = node_outputs \cup
          {n \in LayerNodes(layer) : task[n] # "failed"}
    /\ pc' = "layer"
    /\ layer' = layer + 1
    /\ UNCHANGED <<docVars, taskVars, inherited_nodes, todo, parent_results,
                   signalVars, apiVars, last_event, boundVars>>

\* Mutant: only the last output of the layer reaches the cache.
CollectLayer_LastOnly ==
    /\ pc = "gather"
    /\ Running = {}
    /\ FirstFailed = 0
    /\ node_outputs' = node_outputs \cup {Layers[layer][Len(Layers[layer])]}
    /\ pc' = "layer"
    /\ layer' = layer + 1
    /\ UNCHANGED <<docVars, taskVars, inherited_nodes, todo, parent_results,
                   signalVars, apiVars, last_event, boundVars>>

\* gather returned every outcome (return_exceptions=True): outputs are
\* accepted in layer order up to the first failure.
CollectLayer ==
    /\ pc = "gather"
    /\ Running = {}
    /\ IF FirstFailed = 0
       THEN /\ node_outputs' = node_outputs \cup LayerNodes(layer)
            /\ pc' = "layer"
            /\ layer' = layer + 1
       ELSE /\ node_outputs' = node_outputs \cup
                  {Layers[layer][k] : k \in 1..(FirstFailed - 1)}
            /\ pc' = "save_failed"
            /\ UNCHANGED layer
    /\ UNCHANGED <<docVars, taskVars, inherited_nodes, todo, parent_results,
                   signalVars, apiVars, last_event, boundVars>>

SaveFailedResult ==
    /\ pc = "save_failed"
    /\ LET Save == InsertResult(Layers[layer][FirstFailed], "failed") IN
       \/ Save /\ pc' = "mark_failed" /\ UNCHANGED faults
       \/ Raises /\ (Save \/ UNCHANGED <<results, latest>>)
    /\ UNCHANGED <<status, completed_nodes, node_statuses, taskVars, layer,
                   node_outputs, inherited_nodes, todo, parent_results,
                   signalVars, apiVars, last_event, up, crashes>>

\* The run fails; the node's own entry of node_statuses is left alone.
MarkFailed ==
    /\ pc = "mark_failed"
    /\ pc' = "except"
    /\ \/ SetStatus("failed") /\ Emit("failed") /\ UNCHANGED faults
       \/ /\ Raises
          /\ status' = status \/ SetStatus("failed")
          /\ UNCHANGED last_event
    /\ UNCHANGED <<completed_nodes, node_statuses, results, latest, taskVars,
                   layer, node_outputs, inherited_nodes, todo, parent_results,
                   signalVars, apiVars, up, crashes>>

\* Mutant: the loop ends one layer early.
CompleteRun_OneLayerEarly ==
    /\ pc = "layer"
    /\ layer >= Len(Layers)
    /\ SetStatus("completed")
    /\ Emit("completed")
    /\ pc' = "done"
    /\ UNCHANGED <<completed_nodes, node_statuses, results, latest, taskVars,
                   layer, node_outputs, inherited_nodes, todo, parent_results,
                   signalVars, apiVars, boundVars>>

\* After the last layer no signal is read any more.
CompleteRun ==
    /\ pc = "layer"
    /\ layer > Len(Layers)
    /\ \/ /\ SetStatus("completed")
          /\ Emit("completed")
          /\ pc' = "done"
          /\ UNCHANGED faults
       \/ /\ Raises
          /\ status' = status \/ SetStatus("completed")
          /\ UNCHANGED last_event
    /\ UNCHANGED <<completed_nodes, node_statuses, results, latest, taskVars,
                   layer, node_outputs, inherited_nodes, todo, parent_results,
                   signalVars, apiVars, up, crashes>>

\* Mutant: the status is stored and nobody is told.
HandleCancel_NoEvent ==
    /\ pc = "cancelling"
    /\ SetStatus("cancelled")
    /\ pc' = "done"
    /\ UNCHANGED <<completed_nodes, node_statuses, results, latest, taskVars,
                   layer, node_outputs, inherited_nodes, todo, parent_results,
                   signalVars, apiVars, last_event, boundVars>>

HandleCancel ==
    /\ pc = "cancelling"
    /\ \/ /\ SetStatus("cancelled")
          /\ Emit("cancelled")
          /\ pc' = "done"
          /\ UNCHANGED faults
       \/ /\ Raises
          /\ status' = status \/ SetStatus("cancelled")
          /\ UNCHANGED last_event
    /\ UNCHANGED <<completed_nodes, node_statuses, results, latest, taskVars,
                   layer, node_outputs, inherited_nodes, todo, parent_results,
                   signalVars, apiVars, up, crashes>>

\* The except clause of the background task. When this write raises too the
\* task ends with the document as it is.
BackgroundExcept ==
    /\ pc = "except"
    /\ pc' = "done"
    /\ \/ SetStatus("failed") /\ Emit("failed") /\ UNCHANGED faults
       \/ /\ faults < MaxFaults
          /\ faults' = faults + 1
          /\ status' = status \/ SetStatus("failed")
          /\ UNCHANGED last_event
    /\ UNCHANGED <<completed_nodes, node_statuses, results, latest, taskVars,
                   layer, node_outputs, inherited_nodes, todo, parent_results,
                   signalVars, apiVars, up, crashes>>

-----------------------------------------------------------------------------
(* _execute_node_with_retry for one node of the layer.                     *)

Phase(n, p) == task' = [task EXCEPT ![n] = p]

\* Mutant: one attempt too many.
AttemptFails_OneMore(n) ==
    Phase(n, IF attempt[n] <= Retry[n] THEN "backoff" ELSE "failed")

\* An attempt raised: back off and try again while attempts are left.
AttemptFails(n) == Phase(n, IF attempt[n] < Retry[n] THEN "backoff" ELSE "failed")

NodeFault(n) ==
    /\ faults < MaxFaults
    /\ faults' = faults + 1
    /\ AttemptFails(n)

StartNode(n) ==
    /\ pc = "gather"
    /\ task[n] = "starting"
    /\ \/ SetNode(n, "running") /\ Phase(n, "working") /\ UNCHANGED faults
       \/ NodeFault(n) /\ (UNCHANGED node_statuses \/ SetNode(n, "running"))
    /\ UNCHANGED <<status, completed_nodes, results, latest, attempt,
                   runnerVars, signalVars, apiVars, last_event, up, crashes>>

\* The node's own work: OUTPUT only merges its inputs; an agent or a builtin
\* may also raise or time out, or raise a structured error, which is final.
Work(n) ==
    /\ pc = "gather"
    /\ task[n] = "working"
    /\ \/ Phase(n, "saving")
       \/ n # Output /\ AttemptFails(n)
       \/ n # Output /\ Phase(n, "failed")
    /\ UNCHANGED <<docVars, attempt, runnerVars, signalVars, apiVars,
                   last_event, boundVars>>

SaveResult(n) ==
    /\ pc = "gather"
    /\ task[n] = "saving"
    /\ \/ /\ InsertResult(n, "completed")
          /\ Phase(n, IF n \in Uploads THEN "uploading" ELSE "marking")
          /\ UNCHANGED faults
       \/ /\ NodeFault(n)
          /\ UNCHANGED <<results, latest>> \/ InsertResult(n, "completed")
    /\ UNCHANGED <<status, completed_nodes, node_statuses, attempt, runnerVars,
                   signalVars, apiVars, last_event, up, crashes>>

\* _save_file_artifacts: an upload that fails sends the node into another
\* attempt although its result document is already there.
UploadFiles(n) ==
    /\ pc = "gather"
    /\ task[n] = "uploading"
    /\ Phase(n, "marking") \/ AttemptFails(n)
    /\ UNCHANGED <<docVars, attempt, runnerVars, signalVars, apiVars,
                   last_event, boundVars>>

MarkCompleted(n) ==
    /\ pc = "gather"
    /\ task[n] = "marking"
    /\ \/ /\ SetCompleted(n)
          /\ SetNode(n, "completed")
          /\ Phase(n, "ok")
          /\ UNCHANGED faults
       \/ /\ NodeFault(n)
          /\ \/ UNCHANGED <<completed_nodes, node_statuses>>
             \/ SetCompleted(n) /\ SetNode(n, "completed")
    /\ UNCHANGED <<status, results, latest, attempt, runnerVars, signalVars,
                   apiVars, last_event, up, crashes>>

\* asyncio.sleep(2**attempt) is over.
RetryNode(n) ==
    /\ pc = "gather"
    /\ task[n] = "backoff"
    /\ Phase(n, "starting")
    /\ attempt' = [attempt EXCEPT ![n] = @ + 1]
    /\ UNCHANGED <<docVars, runnerVars, signalVars, apiVars, last_event,
                   boundVars>>

-----------------------------------------------------------------------------
(* SignalManager.set_signal and the control endpoints of control.py.       *)

SetSignal(op) ==
    /\ signal' = op
    /\ resume_event' = IF op \in {"resume", "cancel"} /\ resume_event # "none"
                       THEN "set" ELSE resume_event

\* The status a handler insists on before it sends its signal.
Accepts(op) ==
    \/ op = "pause"  /\ status = "running"
    \/ op = "resume" /\ status = "paused"
    \/ op = "cancel" /\ status \notin Terminal \cup {"deleted"}

\* The handler read the document and found its status acceptable.
CheckControl(op) ==
    /\ up
    /\ op \in Ops
    /\ calls < MaxCalls
    /\ Accepts(op)
    /\ calls' = calls + 1
    /\ inflight' = [inflight EXCEPT ![op] = @ + 1]
    /\ UNCHANGED <<docVars, taskVars, runnerVars, signalVars, cancel_acked,
                   deleting, last_event, boundVars>>

\* Mutant: a handler sends its signal without having checked the status.
SendControl_Unchecked(op) ==
    /\ up
    /\ calls < MaxCalls
    /\ inflight' = [inflight EXCEPT ![op] = @ - 1]
    /\ SetSignal(op)
    /\ cancel_acked' = (cancel_acked \/ op = "cancel")
    /\ UNCHANGED <<docVars, taskVars, runnerVars, calls, deleting, last_event,
                   boundVars>>

\* It sets the signal, whatever the status is by now, and answers.
SendControl(op) ==
    /\ up
    /\ inflight[op] > 0
    /\ inflight' = [inflight EXCEPT ![op] = @ - 1]
    /\ SetSignal(op)
    /\ cancel_acked' = (cancel_acked \/ op = "cancel")
    /\ UNCHANGED <<docVars, taskVars, runnerVars, calls, deleting, last_event,
                   boundVars>>

\* delete_pipeline_run (runs.py): a run that executes or is paused is sent a
\* cancel signal first; a pending one is not.
CheckDelete ==
    /\ up
    /\ "delete" \in Ops
    /\ deleting = "no"
    /\ deleting' = IF status \in {"running", "paused"} THEN "signal"
                   ELSE "results"
    /\ UNCHANGED <<docVars, taskVars, runnerVars, signalVars, inflight, calls,
                   cancel_acked, last_event, boundVars>>

SignalDelete ==
    /\ up
    /\ deleting = "signal"
    /\ deleting' = "results"
    /\ SetSignal("cancel")
    /\ UNCHANGED <<docVars, taskVars, runnerVars, inflight, calls,
                   cancel_acked, last_event, boundVars>>

DeleteResults ==
    /\ up
    /\ deleting = "results"
    /\ deleting' = "doc"
    /\ results' = [n \in Node |-> 0]
    /\ latest' = [n \in Node |-> "none"]
    /\ UNCHANGED <<status, completed_nodes, node_statuses, taskVars,
                   runnerVars, signalVars, inflight, calls, cancel_acked,
                   last_event, boundVars>>

DeleteDocument ==
    /\ up
    /\ deleting = "doc"
    /\ deleting' = "yes"
    /\ status' = "deleted"
    /\ UNCHANGED <<completed_nodes, node_statuses, results, latest, taskVars,
                   runnerVars, signalVars, inflight, calls, cancel_acked,
                   last_event, boundVars>>

-----------------------------------------------------------------------------
(* The server process.                                                     *)

\* Everything in memory is gone: the task of the run, its node tasks, the
\* signals and the handlers under way. The cache of the dead runner is left
\* in node_outputs, where nobody reads it any more.
Crash ==
    /\ up
    /\ crashes < MaxCrashes
    /\ crashes' = crashes + 1
    /\ up' = FALSE
    /\ pc' = "dead"
    /\ task' = [n \in Node |-> "idle"]
    /\ signal' = "none"
    /\ resume_event' = "none"
    /\ inflight' = [op \in Control |-> 0]
    /\ deleting' = IF deleting = "yes" THEN "yes" ELSE "no"
    /\ UNCHANGED <<docVars, attempt, layer, node_outputs, inherited_nodes,
                   todo, parent_results, calls, cancel_acked, last_event,
                   faults>>

\* Mutant: runs that had not begun yet are not recovered.
Restart_OnlyRunning ==
    /\ ~up
    /\ up' = TRUE
    /\ status' = IF status = "running" THEN "failed" ELSE status
    /\ UNCHANGED <<completed_nodes, node_statuses, results, latest, taskVars,
                   runnerVars, signalVars, apiVars, last_event, crashes,
                   faults>>

\* The lifespan hook calls recover_orphaned_runs: running and pending runs
\* are failed, a paused one is left as it is.
Restart ==
    /\ ~up
    /\ up' = TRUE
    /\ status' = IF status \in {"running", "pending"} THEN "failed" ELSE status
    /\ UNCHANGED <<completed_nodes, node_statuses, results, latest, taskVars,
                   runnerVars, signalVars, apiVars, last_event, crashes,
                   faults>>

-----------------------------------------------------------------------------
RunnerStep ==
    \/ Begin \/ RejectTemplate \/ StartRun \/ InheritDone
    \/ SkipInputLayer \/ Checkpoint \/ WritePaused \/ EnterWait
    \/ WakeUp \/ PauseTimeout \/ WriteResumed
    \/ Gather \/ CollectLayer \/ SaveFailedResult \/ MarkFailed
    \/ CompleteRun \/ HandleCancel \/ BackgroundExcept
    \/ \E n \in Node : InheritNode(n) \/ SkipInherited(n)

NodeStep(n) ==
    \/ StartNode(n) \/ Work(n) \/ SaveResult(n) \/ UploadFiles(n)
    \/ MarkCompleted(n) \/ RetryNode(n)

DeleteStep == CheckDelete \/ SignalDelete \/ DeleteResults \/ DeleteDocument

Next ==
    \/ RunnerStep
    \/ \E n \in Node : NodeStep(n)
    \/ \E op \in Control : CheckControl(op) \/ SendControl(op)
    \/ DeleteStep
    \/ Crash \/ Restart

Spec == Init /\ [][Next]_vars

\* The event loop runs every task that is ready, node work and backoff end
\* (both are under a timer), and a server that went down is started again.
\* Users are under no obligation to call anything.
Fairness ==
    /\ WF_vars(RunnerStep)
    /\ \A n \in Node : WF_vars(NodeStep(n))
    /\ WF_vars(Restart)

FairSpec == Spec /\ Fairness

-----------------------------------------------------------------------------
(* Properties.                                                             *)

\* gather waits for every node task before anything else happens to the run:
\* a run that is paused or has ended never has a node task still at work.
QuietWhenNotRunning ==
    status \in Terminal \cup {"paused"} => Running = {}

\* The layer barrier: a node works only when every enabled node it has an
\* edge from was accepted, so _gather_inputs found all its inputs.
InputsComplete ==
    \A n \in Running : Parents[n] \cap Plan \subseteq node_outputs

\* A derived run on which storing the copy of an inherited output raised: it
\* is out of its loop and will not be called completed.
CopyFailed == faults > 0 /\ pc \in {"except", "done"} /\ status # "completed"

\* What get_node_result will hand to a derived run agrees with what the run
\* accepted: the newest document of an accepted node is an output, also after
\* failed attempts that left documents of their own. Only the copy of an
\* inherited output may be missing, and only once the run has failed: no run
\* goes on, let alone completes, without it. (The documents may be deleted
\* under the run.)
AcceptedHasResult ==
    deleting = "no" /\ pc # "dead" =>
        \A n \in node_outputs \ {Input} :
            \/ latest[n] \in {"completed", "inherited"}
            \/ CopyFailed /\ n \in inherited_nodes

\* "completed" is said only of a run that accepted every node of its plan.
CompletedMeansAll ==
    status = "completed" => Plan \subseteq node_outputs

\* Sibling tasks overwrite each other's completed_nodes, each with a list that
\* lacks the other; when the last layer is a single node the list of a
\* completed run is whole again. (INPUT alone writes no list: a template with
\* nothing else enabled completes with an empty one.)
LastAlone ==
    /\ Layers # <<>>
    /\ Len(Layers[Len(Layers)]) = 1
    /\ Layers[Len(Layers)] # <<Input>>

CompletedNodesListed ==
    status = "completed" /\ LastAlone => completed_nodes = node_outputs

\* A retry never runs a node more often than its retry_count allows, and a
\* second result document of a node comes only from an attempt that failed
\* after its result was stored (an upload or a database call).
ResultBound ==
    \A n \in Node :
        results[n] <= IF n \in Uploads \/ faults > 0 THEN Retry[n] + 1 ELSE 1

\* A paused run of a living task has that task waiting for its resume, or on
\* its way out of the wait: no "paused" without somebody to end it.
PausedHasWaiter ==
    status = "paused" /\ pc # "dead" =>
        pc \in {"enter_wait", "waiting", "resuming", "cancelling"}
        \/ faults > 0

\* When the task is over, the last event the clients got tells the status
\* that was stored.
ClientsKnowTheEnd ==
    pc = "done" /\ status # "deleted" /\ faults = 0 => last_event = status

\* A status that is terminal stays, until the run is deleted.
TerminalStable ==
    [][(status \in Terminal) => status' \in {status, "deleted"}]_vars

\* A run that was paused when the server went down has neither a task nor a
\* timer any more, and the recovery passes it over.
Stranded == status = "paused" /\ pc = "dead"

\* Every run ends, whatever is signalled and however nodes fail, and a crash
\* ends it through the recovery at the next start, unless it was paused at the
\* crash. A database exception may leave a run without an end, when the except
\* clause meets another one.
EventuallyEnds ==
    <>(status \in Terminal \cup {"deleted"} \/ Stranded \/ faults > 0)

\* src/backend/README.md:234 calls PAUSE_TIMEOUT_SECONDS the "Maximum time
\* (seconds) a run may stay paused before auto-cancellation": a paused run is
\* resumed or ends.
PauseIsBounded == status = "paused" ~> status # "paused"

\* The nodes data flows to from rerun_from_node: every set that holds it and
\* is closed under enabled children holds them.
Downstream ==
    {n \in Plan : \A S \in SUBSET Plan :
        /\ RerunFrom \in S
        /\ \A m \in Plan : Parents[m] \cap S # {} => m \in S
        => n \in S}

\* A derived run never serves rerun_from_node, or anything computed from it,
\* out of the parent run: _load_inherited_nodes goes by layers, not by edges,
\* and that must not let a node downstream of the rerun node through.
InheritedNotDownstream ==
    RerunFrom \in Plan => inherited_nodes \cap Downstream = {}

\* ... and a node inherited is never executed as well.
InheritedNotExecuted ==
    \A n \in inherited_nodes : task[n] = "idle" /\ results[n] = 0

\* What a derived run takes over is right to take over, and is all it has of it.
InheritedSoundly == InheritedNotDownstream /\ InheritedNotExecuted

\* The run keeps the promises of RunLifecycle.
Lifecycle == INSTANCE RunLifecycle WITH accepted <- node_outputs

ImplementsLifecycle == Lifecycle!Spec

\* The runner is at a checkpoint, where it reads the signal.
AtCheckpoint ==
    pc = "layer" /\ layer <= Len(Layers) /\ LayerNodes(layer) # {Input}

\* control.py:145 answers a cancel call with "Cancellation signal sent. The
\* pipeline will stop at the next checkpoint.": a run that comes to a
\* checkpoint after that answer is never called completed.
CancelStopsRun ==
    [](cancel_acked /\ AtCheckpoint => [](status # "completed"))

=============================================================================
