---------------------------- MODULE CodexBridge ----------------------------
(***************************************************************************)
(* The file bridge between the application and the Codex CLI               *)
(* (auto-at-ui/apps/control-plane).  A producer - one call of              *)
(* CodexModelBatch per job - and one consumer - BridgeService - live in    *)
(* different containers and share nothing but a directory: every fact one  *)
(* of them tells the other is a file of the job's directory.  The job also *)
(* has a row in the database, which only the producer's side writes.       *)
(*                                                                         *)
(* A step is what is atomic for the other side: one file created,          *)
(* replaced or unlinked, one rename, one transaction.  A file is written   *)
(* beside its name and moved over it, so between the step that reaches a   *)
(* writing pc and the step that leaves it a temporary file may be in the   *)
(* directory.                                                              *)
(***************************************************************************)
EXTENDS Naturals, FiniteSets

CONSTANTS
    Jobs,        \* the jobs, one per call of the producer
    MaxPending,  \* FileSpool.max_pending, the bound on job directories
    MaxCrashes,  \* bound: how often the consumer's process may die
    Faults       \* what may fail: "producer" and "consumer" crash, "removal" lets
                 \* the consumer die while it removes a job, "lease" lets another
                 \* worker claim the session

ASSUME JobsAssumption == IsFiniteSet(Jobs)
\* a job is none of the other holders of the producer lock, and not "no job"
ASSUME NamesAssumption == Jobs \cap {"free", "consumer", "none"} = {}
ASSUME PendingAssumption == MaxPending \in 1..10
ASSUME CrashesAssumption == MaxCrashes \in Nat
ASSUME FaultsAssumption == Faults \subseteq {"producer", "consumer", "removal", "lease"}

VARIABLES
    \* what the world does to a job
    late,        \* the deadline of the job has passed
    fenced,      \* another owner has claimed the session of the job
    \* the database
    status,      \* status of the row, "none" before it is registered
    \* the spool
    dir,         \* "none", ".staging-..." or the job's own directory
    files,       \* the files in the directory
    stage,       \* the last stage in events.jsonl
    plock,       \* holder of .producer.lock: a job, "consumer" or "free"
    heartbeat,   \* .heartbeat.json is fresh and says the bridge is ready
    \* the producer's call
    pc,
    \* the consumer
    cpc,         \* where _run_locked is
    cur,         \* the job in hand
    todo,        \* the jobs of the list still to be visited
    asof,        \* the jobs whose deadline had passed when reconcile began
    doomed,      \* the files of the directory listing still to be unlinked
    result,      \* the result of the process
    crashes,
    \* history
    launches     \* how often the CLI was started for the job

world == <<late, fenced>>
spool == <<dir, files, stage, plock, heartbeat>>
consumer == <<cpc, cur, todo, asof, doomed, result, crashes, launches>>
vars == <<world, status, spool, pc, consumer>>

Terminal == {"completed", "failed", "cancelled", "expired"}
Statuses == {"none", "queued", "claimed", "running"} \cup Terminal
\* "claim" is the complete receipt, "emptyClaim" the file between its exclusive
\* creation and its contents; "output" and "failure" are the two kinds of
\* response.json; "authorization" is there while its receipt has not expired;
\* "inputs" stands for dom.json, response.schema.json and screenshot.png.
Files == {"request", "inputs", "authorization", "emptyClaim", "claim", "output",
          "failure", "cancel", "ack", "raw"}
ProducerPcs == {"start", "publish", "staging", "poll", "authorize", "read",
                "finish", "ack", "cancelFile", "cancelDb", "giveUp", "await",
                "returned", "raised", "crashed"}
ConsumerPcs == {"down", "idle", "reconcile", "removing", "list", "loop", "claim",
                "emptyClaim", "claimed", "running", "launch", "process", "stopped",
                "complete", "write", "purge"}
NoJob == "none"

----------------------------------------------------------------------------
(* What the files say *)

HasClaim(j) == files[j] \cap {"claim", "emptyClaim"} # {}
HasResponse(j) == files[j] \cap {"output", "failure"} # {}

\* FileSpool.stop_reason
StopReason(j) ==
    CASE late[j] -> "bridge_deadline_exceeded"
      [] ~late[j] /\ "cancel" \in files[j] -> "bridge_cancelled"
      [] ~late[j] /\ files[j] \cap {"cancel", "authorization"} = {} ->
            "bridge_policy_revoked"
      [] OTHER -> "none"

\* check() of the producer passes only before the deadline and while the bridge
\* is ready; the policy, which it reads anew every time, may refuse at any time
Check(j) == ~late[j] /\ heartbeat

\* FileSpool.jobs: the directories that are not hidden
Listed == {j \in Jobs : dir[j] = "job"}

\* _write is under way on the other side: its temporary file may be listed and
\* gone before it is looked at
ProducerWrites(j) == pc[j] \in {"authorize", "ack", "cancelFile"}
ConsumerWrites(j) == cur = j /\ cpc \in {"claimed", "running", "write"}

\* FileSpool.load: it needs request.json, and every entry it listed
LoadFails(j, othersWrite) == dir[j] # "job" \/ "request" \notin files[j] \/ othersWrite
LoadWorks(j) == dir[j] = "job" /\ "request" \in files[j]

Put(j, f) == files' = [files EXCEPT ![j] = @ \cup {f}]
Goto(j, label) == pc' = [pc EXCEPT ![j] = label]

----------------------------------------------------------------------------
(* The producer: CodexModelBatch.__call__ with the job gateway *)

\* register: the row is committed before a file exists
Register(j) ==
    /\ pc[j] = "start"
    /\ Check(j) /\ ~fenced[j]
    /\ status' = [status EXCEPT ![j] = "queued"]
    /\ Goto(j, "publish")
    /\ UNCHANGED <<world, spool, consumer>>

\* the first check() or the fence of register raises: nothing was stored
Refuse(j) ==
    /\ pc[j] = "start"
    /\ Goto(j, "raised")
    /\ UNCHANGED <<world, status, spool, consumer>>

\* Mutant: the queue is counted before the lock is taken.
Publish_Unlocked(j) ==
    /\ pc[j] = "publish"
    /\ Check(j) /\ Cardinality(Listed) < MaxPending
    /\ plock' = j
    /\ dir' = [dir EXCEPT ![j] = "staging"]
    /\ Goto(j, "staging")
    /\ UNCHANGED <<world, status, files, stage, heartbeat, consumer>>

\* publish up to the staging directory: the producer lock is tried once, never
\* waited for, and the queue is counted under it
Publish(j) ==
    /\ pc[j] = "publish"
    /\ Check(j) /\ plock = "free" /\ Cardinality(Listed) < MaxPending
    /\ plock' = j
    /\ dir' = [dir EXCEPT ![j] = "staging"]
    /\ Goto(j, "staging")
    /\ UNCHANGED <<world, status, files, stage, heartbeat, consumer>>

\* bridge_queue_full, a lock somebody holds, or check(): nothing was published
PublishFails(j) ==
    /\ pc[j] = "publish"
    /\ Goto(j, "giveUp")
    /\ UNCHANGED <<world, status, spool, consumer>>

\* an input that cannot be written, or that is not the one requested, is found under
\* the lock: the staging directory goes, the lock after it
StagingFails(j) ==
    /\ pc[j] = "staging"
    /\ dir' = [dir EXCEPT ![j] = "none"]
    /\ plock' = "free"
    /\ Goto(j, "giveUp")
    /\ UNCHANGED <<world, status, files, stage, heartbeat, consumer>>

\* the staging directory is renamed to the job's: the job is there at once
Rename(j) ==
    /\ pc[j] = "staging"
    /\ dir' = [dir EXCEPT ![j] = "job"]
    /\ files' = [files EXCEPT ![j] = {"request", "inputs"}]
    /\ plock' = "free"
    /\ Goto(j, "poll")
    /\ UNCHANGED <<world, status, stage, heartbeat, consumer>>

\* gateway.poll: the receipts move the row on, one after the other
Polled(j) ==
    LET afterClaim == IF status[j] = "queued" /\ stage[j] \in {"claimed", "running"}
                      THEN "claimed" ELSE status[j]
    IN  IF afterClaim = "claimed" /\ stage[j] = "running" THEN "running" ELSE afterClaim

\* check(), stages() and poll() of one round
Poll(j) ==
    /\ pc[j] = "poll"
    /\ Check(j) /\ ~fenced[j] /\ status[j] \notin Terminal
    /\ "emptyClaim" \notin files[j]
    /\ status' = [status EXCEPT ![j] = IF HasClaim(j) THEN Polled(j) ELSE @]
    \* an authorization is renewed when 2 of its 8 seconds are over
    /\ \/ Goto(j, "authorize")
       \/ "authorization" \in files[j] /\ Goto(j, "read")
    /\ UNCHANGED <<world, spool, consumer>>

\* The round raises - policy, deadline, readiness, fence, a terminal row, a claim
\* receipt that is still empty - or the task is cancelled, or timed out, while it
\* sleeps between two rounds.
PollFails(j) ==
    /\ pc[j] = "poll"
    /\ Goto(j, "cancelFile")
    /\ UNCHANGED <<world, status, spool, consumer>>

\* FileSpool.authorize: loads the request again, then replaces the receipt
Authorize(j) ==
    /\ pc[j] = "authorize"
    /\ ~late[j] /\ LoadWorks(j)
    /\ Put(j, "authorization")
    /\ Goto(j, "read")
    /\ UNCHANGED <<world, status, dir, stage, plock, heartbeat, consumer>>

AuthorizeFails(j) ==
    /\ pc[j] = "authorize"
    /\ late[j] \/ LoadFails(j, ConsumerWrites(j))
    /\ Goto(j, "cancelFile")
    /\ UNCHANGED <<world, status, spool, consumer>>

\* Mutant: the answer is acknowledged before it is recorded.
ReadResult_AckFirst(j) ==
    /\ pc[j] = "read"
    /\ \/ ~HasResponse(j) /\ Goto(j, "poll")
       \/ HasResponse(j) /\ Check(j) /\ Goto(j, "ack")
       \/ HasResponse(j) /\ Goto(j, "cancelFile")
    /\ UNCHANGED <<world, status, spool, consumer>>

\* result(): nothing yet, an answer that passes validation and check(), or an
\* answer that comes too late
ReadResult(j) ==
    /\ pc[j] = "read"
    /\ \/ ~HasResponse(j) /\ Goto(j, "poll")
       \/ HasResponse(j) /\ Check(j) /\ Goto(j, "finish")
       \/ HasResponse(j) /\ Goto(j, "cancelFile")
    /\ UNCHANGED <<world, status, spool, consumer>>

\* gateway.finish: the only way to "completed", behind the fence
Finish(j) ==
    /\ pc[j] = "finish"
    /\ ~fenced[j] /\ ~late[j] /\ status[j] \notin Terminal
    /\ "output" \in files[j] => status[j] = "running"
    /\ status' = [status EXCEPT ![j] = IF "output" \in files[j] THEN "completed"
                                                               ELSE "failed"]
    /\ Goto(j, "ack")
    /\ UNCHANGED <<world, spool, consumer>>

\* "bridge result has no verified running receipt" is among the reasons
FinishFails(j) ==
    /\ pc[j] = "finish"
    /\ \/ fenced[j] \/ late[j] \/ status[j] \in Terminal
       \/ "output" \in files[j] /\ status[j] # "running"
    /\ Goto(j, "cancelFile")
    /\ UNCHANGED <<world, status, spool, consumer>>

\* acknowledge reads the result once more, then writes ack.json
Acknowledge(j) ==
    /\ pc[j] = "ack"
    /\ dir[j] = "job" /\ HasResponse(j) /\ ~late[j]
    /\ Put(j, "ack")
    /\ Goto(j, "returned")
    /\ UNCHANGED <<world, status, dir, stage, plock, heartbeat, consumer>>

AcknowledgeFails(j) ==
    /\ pc[j] = "ack"
    /\ dir[j] # "job" \/ ~HasResponse(j) \/ late[j]
    /\ Goto(j, "cancelFile")
    /\ UNCHANGED <<world, status, spool, consumer>>

\* _cancel: cancel.json first ...
CancelFile(j) ==
    /\ pc[j] = "cancelFile"
    /\ dir[j] = "job"
    /\ Put(j, "cancel")
    /\ Goto(j, "cancelDb")
    /\ UNCHANGED <<world, status, dir, stage, plock, heartbeat, consumer>>

\* ... unless the directory, or the temporary file, is removed under its hands
CancelFileFails(j) ==
    /\ pc[j] = "cancelFile"
    /\ dir[j] # "job" \/ (cpc = "removing" /\ cur = j)
    /\ Goto(j, "giveUp")
    /\ UNCHANGED <<world, status, spool, consumer>>

\* Mutant: only a job that was published is cancelled in the database.
CancelDb_Published(j) ==
    /\ pc[j] \in {"cancelDb", "giveUp"}
    /\ status' = [status EXCEPT ![j] = IF @ \in Terminal \/ pc[j] = "giveUp"
                                      THEN @ ELSE "cancelled"]
    /\ Goto(j, IF pc[j] = "cancelDb" THEN "await" ELSE "raised")
    /\ UNCHANGED <<world, spool, consumer>>

\* gateway.cancel: no fence, and nothing to do for a terminal row
CancelDb(j) ==
    /\ pc[j] \in {"cancelDb", "giveUp"}
    /\ status' = [status EXCEPT ![j] = IF @ \in Terminal THEN @ ELSE "cancelled"]
    /\ Goto(j, IF pc[j] = "cancelDb" THEN "await" ELSE "raised")
    /\ UNCHANGED <<world, spool, consumer>>

\* cancellation_acknowledged, or the five seconds are over and the row is told
\* that the clean-up is pending
Await(j) ==
    /\ pc[j] = "await"
    /\ Goto(j, "raised")
    /\ UNCHANGED <<world, status, spool, consumer>>

ProducerCrash(j) ==
    /\ "producer" \in Faults
    /\ pc[j] \notin {"start", "returned", "raised", "crashed"}
    /\ Goto(j, "crashed")
    /\ plock' = IF plock = j THEN "free" ELSE plock
    /\ UNCHANGED <<world, status, dir, files, stage, heartbeat, consumer>>

Step(j) ==
    \/ Register(j) \/ Refuse(j) \/ Publish(j) \/ PublishFails(j) \/ StagingFails(j)
    \/ Rename(j)
    \/ Poll(j) \/ PollFails(j) \/ Authorize(j) \/ AuthorizeFails(j)
    \/ ReadResult(j) \/ Finish(j) \/ FinishFails(j)
    \/ Acknowledge(j) \/ AcknowledgeFails(j)
    \/ CancelFile(j) \/ CancelFileFails(j) \/ CancelDb(j) \/ Await(j)

----------------------------------------------------------------------------
(* The consumer: BridgeService.serve, which repeats _run_locked *)

\* An exception in _run_locked leaves serve: the service ends, orderly, with an
\* offline heartbeat.  Locks are released with the process.
ConsumerGone ==
    /\ cpc' = "down" /\ cur' = NoJob /\ todo' = {} /\ asof' = {}
    /\ doomed' = {} /\ result' = "none"
    /\ plock' = IF plock = "consumer" THEN "free" ELSE plock

Raises ==
    /\ ConsumerGone
    /\ heartbeat' = FALSE
    /\ UNCHANGED <<world, status, dir, files, stage, pc, crashes, launches>>

\* the consumer moves on within a pass
At(label) == cpc' = label

\* reconcile takes the producer lock, without waiting for it either
BeginReconcile ==
    /\ cpc = "idle" /\ plock = "free"
    /\ plock' = "consumer"
    /\ todo' = Listed
    /\ asof' = {j \in Jobs : late[j]}
    /\ At("reconcile")
    /\ UNCHANGED <<world, status, dir, files, stage, heartbeat, pc, cur, doomed, result,
                   crashes, launches>>

LockBusy == cpc = "idle" /\ plock # "free" /\ Raises

\* Mutant: an answered job is removed, cancelled or not.
Cancelled_Answered(j) == HasResponse(j)

Cancelled(j) == "cancel" \in files[j] /\ HasResponse(j)

\* expired, cancelled and answered, or acknowledged
Removable(j) ==
    \/ j \in asof \/ Cancelled(j)
    \/ "ack" \in files[j] /\ HasResponse(j) /\ ~late[j]

\* _remove lists the directory ...
BeginRemove(j) ==
    /\ cpc = "reconcile" /\ j \in todo
    /\ LoadWorks(j) /\ Removable(j)
    /\ cur' = j
    /\ doomed' = files[j]
    /\ todo' = todo \ {j}
    /\ At("removing")
    /\ UNCHANGED <<world, status, spool, pc, asof, result, crashes, launches>>

\* ... unlinks what it listed, in whatever order the directory has ...
Unlink(f) ==
    /\ cpc = "removing" /\ f \in doomed
    /\ files' = [files EXCEPT ![cur] = @ \ {f}]
    /\ doomed' = doomed \ {f}
    /\ UNCHANGED <<world, status, dir, stage, plock, heartbeat, pc, cpc, cur, todo,
                   asof, result, crashes, launches>>

\* ... and removes the directory
Rmdir ==
    /\ cpc = "removing" /\ doomed = {} /\ files[cur] = {}
    /\ dir' = [dir EXCEPT ![cur] = "none"]
    /\ cur' = NoJob
    /\ At("reconcile")
    /\ UNCHANGED <<world, status, files, stage, plock, heartbeat, pc, todo, asof, doomed,
                   result, crashes, launches>>

\* a file that appeared after the listing keeps the directory; a temporary file
\* that was listed may be gone
RemoveRaises ==
    /\ cpc = "removing"
    /\ (doomed = {} /\ files[cur] # {}) \/ ProducerWrites(cur)
    /\ Raises

Keep(j) ==
    /\ cpc = "reconcile" /\ j \in todo
    /\ LoadWorks(j) /\ ~Removable(j) /\ "ack" \notin files[j]
    /\ todo' = todo \ {j}
    /\ UNCHANGED <<world, status, spool, pc, cpc, cur, asof, doomed, result, crashes,
                   launches>>

\* a job that cannot be loaded, an acknowledgement without a valid result
ReconcileRaises(j) ==
    /\ cpc = "reconcile" /\ j \in todo
    /\ \/ LoadFails(j, ProducerWrites(j))
       \/ ~Removable(j) /\ "ack" \in files[j]
    /\ Raises

\* the staging directories of dead producers go last
EndReconcile ==
    /\ cpc = "reconcile" /\ todo = {}
    /\ dir' = [j \in Jobs |-> IF dir[j] = "staging" THEN "none" ELSE dir[j]]
    /\ plock' = "free"
    /\ asof' = {}
    /\ At("list")
    /\ UNCHANGED <<world, status, files, stage, heartbeat, pc, cur, todo, doomed, result,
                   crashes, launches>>

ListJobs ==
    /\ cpc = "list"
    /\ todo' = Listed
    /\ At("loop")
    /\ UNCHANGED <<world, status, spool, pc, cur, asof, doomed, result, crashes, launches>>

\* answered already, or published and not yet authorized: left for another pass
Skip(j) ==
    /\ cpc = "loop" /\ j \in todo /\ LoadWorks(j)
    /\ HasResponse(j) \/ (~HasClaim(j) /\ StopReason(j) = "bridge_policy_revoked")
    /\ todo' = todo \ {j}
    /\ UNCHANGED <<world, status, spool, pc, cpc, cur, asof, doomed, result, crashes,
                   launches>>

\* Mutant: a claim without an answer is left for another pass.
FailWithoutRun_StopsOnly(j) ==
    /\ cpc = "loop" /\ j \in todo /\ LoadWorks(j) /\ ~HasResponse(j)
    /\ ~HasClaim(j)
    /\ StopReason(j) \in {"bridge_deadline_exceeded", "bridge_cancelled"}
    /\ cur' = j
    /\ result' = "failure"
    /\ At("stopped")
    /\ UNCHANGED <<world, status, spool, pc, todo, asof, doomed, crashes, launches>>

\* a claim without an answer is a run that was interrupted: it is never repeated;
\* a job that must stop is answered without a run
FailWithoutRun(j) ==
    /\ cpc = "loop" /\ j \in todo /\ LoadWorks(j) /\ ~HasResponse(j)
    /\ HasClaim(j) \/ StopReason(j) \in {"bridge_deadline_exceeded", "bridge_cancelled"}
    /\ cur' = j
    /\ result' = "failure"
    /\ At("stopped")
    /\ UNCHANGED <<world, status, spool, pc, todo, asof, doomed, crashes, launches>>

Ready(j) == ~HasResponse(j) /\ ~HasClaim(j) /\ StopReason(j) = "none"

\* the inputs are read and verified
Take(j) ==
    /\ cpc = "loop" /\ j \in todo /\ LoadWorks(j)
    /\ Ready(j) /\ "inputs" \in files[j]
    /\ cur' = j
    /\ At("claim")
    /\ UNCHANGED <<world, status, spool, pc, todo, asof, doomed, result, crashes, launches>>

VisitRaises(j) ==
    /\ cpc = "loop" /\ j \in todo
    /\ LoadFails(j, ProducerWrites(j)) \/ (Ready(j) /\ "inputs" \notin files[j])
    /\ Raises

\* claim checks again, then creates the file exclusively ...
Claim ==
    /\ cpc = "claim" /\ StopReason(cur) = "none" /\ ~HasClaim(cur)
    /\ Put(cur, "emptyClaim")
    /\ At("emptyClaim")
    /\ UNCHANGED <<world, status, dir, stage, plock, heartbeat, pc, cur, todo, asof,
                   doomed, result, crashes, launches>>

\* ... and nobody catches its refusal
ClaimRaises ==
    /\ cpc = "claim" /\ (StopReason(cur) # "none" \/ HasClaim(cur))
    /\ Raises

\* the receipt is written into the file that is already visible
WriteClaim ==
    /\ cpc = "emptyClaim"
    /\ files' = [files EXCEPT ![cur] = (@ \ {"emptyClaim"}) \cup {"claim"}]
    /\ At("claimed")
    /\ UNCHANGED <<world, status, dir, stage, plock, heartbeat, pc, cur, todo, asof,
                   doomed, result, crashes, launches>>

\* record_stage "claimed", then "running"
RecordStage ==
    /\ cpc \in {"claimed", "running"}
    /\ stage' = [stage EXCEPT ![cur] = cpc]
    /\ At(IF cpc = "claimed" THEN "running" ELSE "launch")
    /\ UNCHANGED <<world, status, dir, files, plock, heartbeat, pc, cur, todo, asof,
                   doomed, result, crashes, launches>>

\* CodexProcess.run up to the creation of the process
Launch ==
    /\ cpc = "launch" /\ StopReason(cur) = "none" /\ "raw" \notin files[cur]
    /\ launches' = [launches EXCEPT ![cur] = @ + 1]
    /\ At("process")
    /\ UNCHANGED <<world, status, spool, pc, cur, todo, asof, doomed, result, crashes>>

\* a stop reason, a raw output that is there, a prompt that is too long, or a process
\* that cannot be created
NoLaunch ==
    /\ cpc = "launch"
    /\ result' = "failure"
    /\ At("stopped")
    /\ UNCHANGED <<world, status, spool, pc, cur, todo, asof, doomed, crashes, launches>>

\* the process ends, is killed for a stop reason, or fails; an output counts only
\* when nothing asks to stop at the end.  The raw output is always removed.
ProcessEnds ==
    /\ cpc = "process"
    /\ result' \in {"output", "failure"}
    /\ result' = "output" => StopReason(cur) = "none"
    /\ At("stopped")
    /\ UNCHANGED <<world, status, spool, pc, cur, todo, asof, doomed, crashes, launches>>

\* stop_reason is read after the run, and once more by complete: either turns an
\* output into a failure
CheckStop ==
    /\ cpc \in {"stopped", "complete"}
    /\ result' = IF StopReason(cur) = "none" THEN result ELSE "failure"
    /\ At(IF cpc = "stopped" THEN "complete" ELSE "write")
    /\ UNCHANGED <<world, status, spool, pc, cur, todo, asof, doomed, crashes, launches>>

\* the response is there; an output ends the visit
WriteResponse ==
    /\ cpc = "write"
    /\ Put(cur, result)
    /\ IF result = "failure"
       THEN At("purge") /\ UNCHANGED <<cur, todo>>
       ELSE At("loop") /\ cur' = NoJob /\ todo' = todo \ {cur}
    /\ result' = "none"
    /\ UNCHANGED <<world, status, dir, stage, plock, heartbeat, pc, asof, doomed, crashes,
                   launches>>

\* purge_inputs after a failure
Purge ==
    /\ cpc = "purge"
    /\ files' = [files EXCEPT ![cur] = @ \ {"inputs", "raw"}]
    /\ At("loop") /\ cur' = NoJob /\ todo' = todo \ {cur}
    /\ UNCHANGED <<world, status, dir, stage, plock, heartbeat, pc, asof, doomed, result,
                   crashes, launches>>

EndPass ==
    /\ cpc = "loop" /\ todo = {}
    /\ At("idle")
    /\ UNCHANGED <<world, status, spool, pc, cur, todo, asof, doomed, result, crashes,
                   launches>>

\* The consumer dies: killed, or stopped while it awaits the process.  A CLI that
\* was running may have left its raw output.
ConsumerCrash ==
    /\ "consumer" \in Faults /\ cpc # "down" /\ crashes < MaxCrashes
    /\ cpc = "removing" => "removal" \in Faults
    /\ \/ cpc = "process" /\ Put(cur, "raw")
       \/ UNCHANGED files
    /\ ConsumerGone
    /\ heartbeat' \in {heartbeat, FALSE}
    /\ crashes' = crashes + 1
    /\ UNCHANGED <<world, status, dir, stage, pc, launches>>

\* the operator starts the service again
Restart ==
    /\ cpc = "down"
    /\ At("idle")
    /\ heartbeat' = TRUE
    /\ UNCHANGED <<world, status, dir, files, stage, plock, pc, cur, todo, asof, doomed,
                   result, crashes, launches>>

Serve ==
    \/ BeginReconcile \/ LockBusy \/ Rmdir \/ RemoveRaises \/ EndReconcile
    \/ \E j \in Jobs : BeginRemove(j) \/ Keep(j) \/ ReconcileRaises(j)
    \/ \E f \in Files : Unlink(f)
    \/ ListJobs \/ EndPass
    \/ \E j \in Jobs : Skip(j) \/ FailWithoutRun(j) \/ Take(j) \/ VisitRaises(j)
    \/ Claim \/ ClaimRaises \/ WriteClaim \/ RecordStage \/ Launch \/ NoLaunch
    \/ ProcessEnds \/ CheckStop \/ WriteResponse \/ Purge

----------------------------------------------------------------------------
(* The world *)

DeadlinePasses(j) ==
    /\ ~late[j]
    /\ late' = [late EXCEPT ![j] = TRUE]
    /\ UNCHANGED <<fenced, status, spool, pc, consumer>>

\* the receipt of authorize is older than its 8 seconds
AuthorizationExpires(j) ==
    /\ "authorization" \in files[j]
    /\ files' = [files EXCEPT ![j] = @ \ {"authorization"}]
    /\ doomed' = IF cur = j THEN doomed \ {"authorization"} ELSE doomed
    /\ UNCHANGED <<world, status, dir, stage, plock, heartbeat, pc, cpc, cur, todo, asof,
                   result, crashes, launches>>

HeartbeatExpires ==
    /\ heartbeat /\ cpc = "down"
    /\ heartbeat' = FALSE
    /\ UNCHANGED <<world, status, dir, files, stage, plock, pc, consumer>>

\* another worker claims the session: its fencing token goes up
LoseLease(j) ==
    /\ "lease" \in Faults \/ pc[j] = "crashed"
    /\ ~fenced[j]
    /\ fenced' = [fenced EXCEPT ![j] = TRUE]
    /\ UNCHANGED <<late, status, spool, pc, consumer>>

\* Mutant: the new owner interrupts every job of the session.
InterruptPending_Every(j) ==
    /\ fenced[j] /\ status[j] \notin {"none", "cancelled"}
    /\ status' = [status EXCEPT ![j] = "cancelled"]
    /\ UNCHANGED <<world, spool, pc, consumer>>

\* running() of the new owner: interrupt_pending
InterruptPending(j) ==
    /\ fenced[j] /\ status[j] \notin Terminal \cup {"none"}
    /\ status' = [status EXCEPT ![j] = "cancelled"]
    /\ UNCHANGED <<world, spool, pc, consumer>>

----------------------------------------------------------------------------

Init ==
    /\ late = [j \in Jobs |-> FALSE]
    /\ fenced = [j \in Jobs |-> FALSE]
    /\ status = [j \in Jobs |-> "none"]
    /\ dir = [j \in Jobs |-> "none"]
    /\ files = [j \in Jobs |-> {}]
    /\ stage = [j \in Jobs |-> "none"]
    /\ plock = "free"
    /\ heartbeat = TRUE
    /\ pc = [j \in Jobs |-> "start"]
    /\ cpc = "idle" /\ cur = NoJob /\ todo = {} /\ asof = {} /\ doomed = {}
    /\ result = "none" /\ crashes = 0
    /\ launches = [j \in Jobs |-> 0]

World ==
    \/ \E j \in Jobs : \/ DeadlinePasses(j) \/ AuthorizationExpires(j)
                      \/ LoseLease(j) \/ InterruptPending(j) \/ ProducerCrash(j)
    \/ HeartbeatExpires

Next ==
    \/ \E j \in Jobs : Step(j)
    \/ Serve
    \/ ConsumerCrash \/ Restart
    \/ World

Spec == Init /\ [][Next]_vars

----------------------------------------------------------------------------
(* Properties *)

\* Every variable has a value of its type: the pcs are those of the code's
\* steps, and the files of a job are files FILES of spool.py knows.
TypeOK ==
    /\ late \in [Jobs -> BOOLEAN]
    /\ fenced \in [Jobs -> BOOLEAN]
    /\ status \in [Jobs -> Statuses]
    /\ dir \in [Jobs -> {"none", "staging", "job"}]
    /\ files \in [Jobs -> SUBSET Files]
    /\ stage \in [Jobs -> {"none", "claimed", "running"}]
    /\ plock \in Jobs \cup {"free", "consumer"}
    /\ heartbeat \in BOOLEAN
    /\ pc \in [Jobs -> ProducerPcs]
    /\ cpc \in ConsumerPcs
    /\ cur \in Jobs \cup {NoJob}
    /\ todo \in SUBSET Jobs /\ asof \in SUBSET Jobs
    /\ doomed \in SUBSET Files
    /\ result \in {"none", "output", "failure"}
    /\ crashes \in 0..MaxCrashes
    /\ launches \in [Jobs -> Nat]

\* However often the consumer dies and is started again, the CLI is started at
\* most once for a job: a claim that was found is answered, never run.
LaunchedOnce == \A j \in Jobs : launches[j] <= 1

\* The count of publish and the rename that follows it are apart, and several
\* producers publish: the queue keeps its bound all the same.
QueueBound == Cardinality(Listed) <= MaxPending

\* The application was given a result only if the row says so, and the row is not
\* changed afterwards by whoever recovers the session.
DeliveredIsRecorded ==
    \A j \in Jobs : pc[j] = "returned" \/ "ack" \in files[j]
                        => status[j] \in {"completed", "failed"}

\* A row that says "completed" is a proposal the application got, or is about to
\* get: only the deadline, between finish and acknowledge, or the death of the
\* producer can take it away.
CompletedIsDelivered ==
    \A j \in Jobs : status[j] = "completed"
                        => late[j] \/ pc[j] \in {"ack", "returned", "crashed"}

\* What the application was told and what the row says agree, in both directions.
RowAndCallerAgree == DeliveredIsRecorded /\ CompletedIsDelivered

\* The bridge is a one-shot call: what was started, and what became of the row.
Outcome ==
    [j \in Jobs |-> CASE status[j] = "completed" -> "accepted"
                      [] status[j] \in Terminal \ {"completed"} -> "dropped"
                      [] OTHER -> "open"]
Call == INSTANCE OneShotCall WITH Calls <- Jobs, attempts <- launches, outcome <- Outcome
\* Every step of the bridge is a step of the one-shot call or leaves it alone.
IsOneShotCall == Call!Spec

----------------------------------------------------------------------------
(* Fairness: the two loops are polled for ever, the operator starts a        *)
(* service that ended, and the outbox event of a dead producer is delivered  *)
(* again to a worker that claims the session.  The two sides have timers of  *)
(* their own, so that a directory is not read during a write every time:     *)
(* hence the strong fairness.  A deadline need not pass.                     *)

Fairness ==
    /\ \A j \in Jobs :
          /\ WF_vars(Step(j))
          /\ WF_vars(pc[j] = "crashed" /\ LoseLease(j))
          /\ WF_vars(InterruptPending(j))
          /\ SF_vars(BeginRemove(j) \/ Keep(j))
          /\ SF_vars(Skip(j) \/ FailWithoutRun(j) \/ Take(j))
    /\ WF_vars(Serve)
    /\ WF_vars(Restart)

FairSpec == Spec /\ Fairness

\* Every registered job gets a final status once its deadline has passed, whatever
\* dies.
Settled ==
    \A j \in Jobs : <>late[j] => (status[j] = "queued" ~> status[j] \in Terminal)

\* A directory that is listed and has lost its request: every pass of the consumer
\* ends there.
Stuck == \E j \in Jobs : dir[j] = "job" /\ "request" \notin files[j]

\* A claim is answered, also the claim of a consumer that died, and nobody has to
\* wait for the deadline - unless the consumer is stuck.
ClaimAnswered ==
    \A j \in Jobs : HasClaim(j) ~> HasResponse(j) \/ late[j] \/ dir[j] = "none" \/ Stuck

=============================================================================
