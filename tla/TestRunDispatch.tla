--------------------------- MODULE TestRunDispatch ---------------------------
(***************************************************************************)
(* Test runs of auto-at-ui, from the request to the recorded verdict:      *)
(*                                                                         *)
(*   - the create, cancel and result endpoints, each a transaction that    *)
(*     reads the run and updates it under a version check;                 *)
(*   - the outbox and its publisher (temporal_worker.publish_forever):     *)
(*     one transaction per batch, whose external effects stay when the     *)
(*     marks of the batch are rolled back;                                 *)
(*   - one Temporal workflow per run, which retries one activity;          *)
(*   - the activity (dispatch_test_run) on a pool of threads: check the    *)
(*     run, have the Playwright worker execute it, record the result;      *)
(*   - the Playwright worker with its map of active executions and its     *)
(*     set of cancelled runs, both in memory.                              *)
(*                                                                         *)
(* Temporal itself is external: a workflow id starts again once its last   *)
(* execution is closed (the default reuse policy, which start_run leaves   *)
(* alone), and cancelling a closed workflow has no effect.                 *)
(***************************************************************************)
EXTENDS Naturals, Sequences, FiniteSets

CONSTANTS
    Run,            \* test runs
    Thread,         \* threads of the activity executor
    Id,             \* outbox_events.id: random, and the order of the table
    Limit,          \* events per batch (100 in the code)
    MaxAttempts,    \* retry_maximum_attempts of the workflow's activity
    MaxExecutions,  \* bound: executions the Playwright worker accepts
    Requests,       \* requests users may make, besides creating runs
    MaxFailures     \* bound: exceptions of databases, services and browsers,
                    \* crashes of the process of publisher and threads, and
                    \* restarts of the Playwright worker, together

Kind  == {"requested", "cancelled", "triage", "report"}
Event == [kind : Kind, run : Run]
Ev(k, r) == [kind |-> k, run |-> r]

ASSUME DispatchAssumption ==
    /\ IsFiniteSet(Run)
    /\ Id \in [Event -> Nat]
    /\ \A e, f \in Event : Id[e] = Id[f] => e = f
    /\ Limit \in Nat \ {0}
    /\ MaxAttempts \in Nat \ {0}
    /\ MaxExecutions \in Nat
    /\ Requests \subseteq {"cancel", "result"}
    /\ MaxFailures \in Nat

VARIABLES
    status,        \* test_runs.status
    version,       \* test_runs.version
    result,        \* test_runs.result: which execution it is of (0: none of
                   \* the worker's), and its verdict
    pending,       \* outbox_events with published_at NULL
    published,     \* the other ones
    proposals,     \* [Run -> number of triage proposals]
    cancelling,    \* cancel requests that read the run and not yet updated it
    posting,       \* the same of result requests
    step,          \* where the publisher is
    batch,         \* events it has still to handle
    handled,       \* events it marked in its open transaction
    drafts,        \* runs it added a proposal for in its open transaction
    workflow,      \* [Run -> state of the workflow "auto-at-run-<id>"]
    attempt,       \* [Run -> state of the activity in the open workflow]
    tries,         \* [Run -> attempts of that activity so far]
    thread,        \* [Thread -> the activity it executes]
    executions,    \* executions in the Playwright worker, in order of arrival
    active,        \* activeExecutions: [Run -> execution to abort, or 0]
    cancelledRuns, \* cancelledRuns of the Playwright worker
    failures,      \* failures so far
    restarted      \* the Playwright worker was restarted

dbVars        == <<status, version, result>>
outboxVars    == <<pending, published, proposals>>
apiVars       == <<cancelling, posting>>
publisherVars == <<step, batch, handled, drafts>>
workflowVars  == <<workflow, attempt, tries>>
runnerVars    == <<executions, active, cancelledRuns>>
boundVars     == <<failures, restarted>>
vars == <<dbVars, outboxVars, apiVars, publisherVars, workflowVars, thread,
          runnerVars, boundVars>>

-----------------------------------------------------------------------------
\* "skipped" and "errored" are handled like "passed" and "failed".
Verdicts == {"passed", "failed"}
Terminal == Verdicts \cup {"cancelled"}

NoResult == [by |-> 0, verdict |-> "none"]
Idle     == [phase |-> "idle"]
Activity == [phase : {"checking", "posting", "waiting", "recording", "saving",
                      "saved"},
             run : Run, live : BOOLEAN, execution : 0..MaxExecutions,
             verdict : Verdicts \cup {"none"}]
Busy(t)  == thread[t] # Idle
Own(t)   == [by |-> thread[t].execution, verdict |-> thread[t].verdict]

\* Every variable keeps its type; in particular no workflow makes more attempts
\* than its retry policy allows.
TypeOK ==
    /\ status \in [Run -> Terminal \cup {"absent", "queued"}]
    /\ version \in [Run -> {1, 2}]
    /\ result \in [Run -> [by : 0..MaxExecutions,
                           verdict : Verdicts \cup {"none"}]]
    /\ pending \subseteq Event /\ published \subseteq Event
    /\ proposals \in [Run -> Nat]
    /\ cancelling \subseteq Run /\ posting \subseteq Run
    /\ step \in {"idle", "handling", "notifying"}
    /\ batch \subseteq Event
    /\ handled \subseteq Event /\ drafts \subseteq Run
    /\ workflow \in [Run -> {"none", "open", "cancelling", "closed"}]
    /\ attempt \in [Run -> {"none", "due", "started"}]
    /\ tries \in [Run -> 0..MaxAttempts]
    /\ thread \in [Thread -> Activity \cup {Idle}]
    /\ executions \in Seq([run : Run, state : {"running", "aborting", "raised"}
                                              \cup Verdicts])
    /\ active \in [Run -> 0..MaxExecutions]
    /\ cancelledRuns \subseteq Run
    /\ failures \in 0..MaxFailures
    /\ restarted \in BOOLEAN

Init ==
    /\ status = [r \in Run |-> "absent"]
    /\ version = [r \in Run |-> 1]
    /\ result = [r \in Run |-> NoResult]
    /\ pending = {} /\ published = {}
    /\ proposals = [r \in Run |-> 0]
    /\ cancelling = {} /\ posting = {}
    /\ step = "idle" /\ batch = {} /\ handled = {} /\ drafts = {}
    /\ workflow = [r \in Run |-> "none"]
    /\ attempt = [r \in Run |-> "none"]
    /\ tries = [r \in Run |-> 0]
    /\ thread = [t \in Thread |-> Idle]
    /\ executions = <<>>
    /\ active = [r \in Run |-> 0]
    /\ cancelledRuns = {}
    /\ failures = 0 /\ restarted = FALSE

Failure == failures < MaxFailures /\ failures' = failures + 1

-----------------------------------------------------------------------------
(* Runs and their outbox events: what one transaction writes.              *)

\* Append to the outbox, unless the idempotency key is there already.
Request(kinds, r) ==
    pending' = pending \cup {e \in {Ev(k, r) : k \in kinds} : e \notin published}

\* The triage and report events a result asks for.
TriageOf(v)   == IF v = "failed" THEN {"triage"} ELSE {}
FollowUps(v)  == TriageOf(v) \cup {"report"}

\* save_result: the version read with the run must still be there. Every
\* update of a run is its last, so a run that was read unfinished had version 1.
VersionMatches(r) == version[r] = 1
Update(r, s, res) ==
    /\ status' = [status EXCEPT ![r] = s]
    /\ version' = [version EXCEPT ![r] = @ + 1]
    /\ result' = [result EXCEPT ![r] = res]

\* CreateRun: the run and its requested event. The unique idempotency key makes
\* one of two concurrent requests with the same key fail and roll back.
CreateRun(r) ==
    /\ status[r] = "absent"
    /\ status' = [status EXCEPT ![r] = "queued"]
    /\ Request({"requested"}, r)
    /\ UNCHANGED <<version, result, published, proposals, apiVars, publisherVars,
                   workflowVars, thread, runnerVars, boundVars>>

\* CancelRun up to its update: a terminal run is refused.
ReadForCancel(r) ==
    /\ "cancel" \in Requests
    /\ status[r] = "queued"
    /\ r \notin cancelling
    /\ cancelling' = cancelling \cup {r}
    /\ UNCHANGED <<dbVars, outboxVars, posting, publisherVars, workflowVars,
                   thread, runnerVars, boundVars>>

\* Mutant: the event does not share the transaction of the update.
WriteCancel_EventAnyway(r) ==
    /\ r \in cancelling
    /\ cancelling' = cancelling \ {r}
    /\ IF VersionMatches(r) THEN Update(r, "cancelled", NoResult) ELSE UNCHANGED dbVars
    /\ Request({"cancelled"}, r)
    /\ UNCHANGED <<published, proposals, posting, publisherVars, workflowVars,
                   thread, runnerVars, boundVars>>

\* Its update with the version it read, and the event of the same transaction;
\* a run that was updated in between makes the request fail.
WriteCancel(r) ==
    /\ r \in cancelling
    /\ cancelling' = cancelling \ {r}
    /\ IF VersionMatches(r)
         THEN Update(r, "cancelled", NoResult) /\ Request({"cancelled"}, r)
         ELSE UNCHANGED <<dbVars, pending>>
    /\ UNCHANGED <<published, proposals, posting, publisherVars, workflowVars,
                   thread, runnerVars, boundVars>>

\* POST /result up to its update, of an unfinished run. (A finished run answers
\* 409, or, to its own result, 200, and stays as it is either way.)
ReadForResult(r) ==
    /\ "result" \in Requests
    /\ status[r] = "queued"
    /\ r \notin posting
    /\ posting' = posting \cup {r}
    /\ UNCHANGED <<dbVars, outboxVars, cancelling, publisherVars, workflowVars,
                   thread, runnerVars, boundVars>>

\* Its update and the triage request of the same transaction. What is posted is
\* the result of an execution that ended, or one the worker knows nothing of.
WriteResult(r) ==
    /\ r \in posting
    /\ posting' = posting \ {r}
    /\ IF VersionMatches(r)
         THEN \E v \in Verdicts :
                \E i \in {0} \cup {j \in DOMAIN executions :
                                     executions[j] = [run |-> r, state |-> v]} :
                   /\ Update(r, v, [by |-> i, verdict |-> v])
                   /\ Request(TriageOf(v), r)
         ELSE UNCHANGED <<dbVars, pending>>
    /\ UNCHANGED <<published, proposals, cancelling, publisherVars, workflowVars,
                   thread, runnerVars, boundVars>>

-----------------------------------------------------------------------------
(* The publisher.                                                          *)

\* list_unpublished: the first events by id.
Unpublished ==
    {e \in pending : Cardinality({f \in pending : Id[f] < Id[e]}) < Limit}

\* Mutant: the order of the ids.
Rank_ById(kind) == 0

\* event_order: requests, then cancellations, then the others.
Rank(kind) == CASE kind = "requested" -> 0
                [] kind = "cancelled" -> 1
                [] OTHER -> 2

TakeBatch ==
    /\ step = "idle"
    /\ pending # {}
    /\ step' = "handling"
    /\ batch' = Unpublished
    /\ UNCHANGED <<dbVars, outboxVars, apiVars, handled, drafts, workflowVars,
                   thread, runnerVars, boundVars>>

\* PublishOutbox handles the batch by rank and, within a rank, by id.
IsNext(e) ==
    /\ e \in batch
    /\ \A f \in batch : \/ Rank(e.kind) < Rank(f.kind)
                        \/ Rank(e.kind) = Rank(f.kind) /\ Id[e] <= Id[f]

\* The event is done: it is marked as published, or would be.
Mark(e) == batch' = batch \ {e} /\ handled' = handled \cup {e}

\* Mutant: proposals are stored in a session of their own.
Rollback_KeepsProposals ==
    /\ step' = "idle" /\ batch' = {} /\ handled' = {} /\ drafts' = {}
    /\ proposals' = [r \in Run |-> proposals[r] + IF r \in drafts THEN 1 ELSE 0]
    /\ UNCHANGED <<pending, published>>

\* transactional_session on an exception: no mark and no proposal of the batch
\* stays; what Temporal and the worker were told does.
Rollback ==
    /\ step' = "idle" /\ batch' = {} /\ handled' = {} /\ drafts' = {}
    /\ UNCHANGED <<pending, published, proposals>>

Open(r) == workflow[r] \in {"open", "cancelling"}

\* start_run: WorkflowAlreadyStartedError, a success, while the workflow is
\* open; a closed one is no obstacle.
HandleRequested(e) ==
    /\ step = "handling" /\ IsNext(e) /\ e.kind = "requested"
    /\ LET r == e.run
       IN  IF Open(r)
             THEN UNCHANGED workflowVars
             ELSE /\ workflow' = [workflow EXCEPT ![r] = "open"]
                  /\ attempt' = [attempt EXCEPT ![r] = "due"]
                  /\ tries' = [tries EXCEPT ![r] = 0]
    /\ Mark(e)
    /\ UNCHANGED <<dbVars, outboxVars, apiVars, step, drafts, thread, runnerVars,
                   boundVars>>

\* cancel_run: first the workflow is asked to stop. One that never started is
\* unknown to Temporal, which raises.
CancelWorkflow(e) ==
    /\ step = "handling" /\ IsNext(e) /\ e.kind = "cancelled"
    /\ LET r == e.run
       IN  IF workflow[r] = "none"
             THEN Rollback /\ UNCHANGED workflow
             ELSE /\ workflow' = [workflow EXCEPT ![r] =
                                    IF @ = "open" THEN "cancelling" ELSE @]
                  /\ step' = "notifying"
                  /\ UNCHANGED <<outboxVars, batch, handled, drafts>>
    /\ UNCHANGED <<dbVars, apiVars, attempt, tries, thread, runnerVars, boundVars>>

\* Then the Playwright worker, which notes the run and aborts the execution that
\* activeExecutions knows of.
NotifyWorker(e) ==
    /\ step = "notifying" /\ IsNext(e)
    /\ LET r == e.run
       IN  /\ cancelledRuns' = cancelledRuns \cup {r}
           /\ executions' =
                IF active[r] = 0 THEN executions
                ELSE [executions EXCEPT ![active[r]].state = "aborting"]
    /\ step' = "handling"
    /\ Mark(e)
    /\ UNCHANGED <<dbVars, outboxVars, apiVars, drafts, workflowVars, thread,
                   active, boundVars>>

\* Mutant: without a proposal the event is not marked.
HandleTriage_WaitsForModel(e) ==
    /\ step = "handling" /\ IsNext(e) /\ e.kind = "triage"
    /\ \/ drafts' = drafts \cup {e.run} /\ Mark(e)
       \/ batch' = batch \ {e} /\ UNCHANGED <<drafts, handled>>
    /\ UNCHANGED <<dbVars, outboxVars, apiVars, step, workflowVars, thread,
                   runnerVars, boundVars>>

\* TriageEventProcessor: a proposal, or none when the model is unavailable.
HandleTriage(e) ==
    /\ step = "handling" /\ IsNext(e) /\ e.kind = "triage"
    /\ \/ drafts' = drafts \cup {e.run}
       \/ UNCHANGED drafts
    /\ Mark(e)
    /\ UNCHANGED <<dbVars, outboxVars, apiVars, step, workflowVars, thread,
                   runnerVars, boundVars>>

\* ReportingEventProcessor: a completed or an unavailable report, of which there
\* is one per run; the published event stands for it.
HandleReport(e) ==
    /\ step = "handling" /\ IsNext(e) /\ e.kind = "report"
    /\ Mark(e)
    /\ UNCHANGED <<dbVars, outboxVars, apiVars, step, drafts, workflowVars, thread,
                   runnerVars, boundVars>>

Commit ==
    /\ step = "handling"
    /\ batch = {}
    /\ published' = published \cup handled
    /\ pending' = pending \ handled
    /\ proposals' = [r \in Run |-> IF r \in drafts THEN proposals[r] + 1
                                                   ELSE proposals[r]]
    /\ step' = "idle" /\ handled' = {} /\ drafts' = {}
    /\ UNCHANGED <<dbVars, apiVars, batch, workflowVars, thread, runnerVars,
                   boundVars>>

\* Any handler, or the commit, raises. An event whose call took effect before
\* it raised is the same batch raising at the next event.
PublisherFault ==
    /\ step # "idle"
    /\ Failure
    /\ Rollback
    /\ UNCHANGED <<dbVars, apiVars, workflowVars, thread, runnerVars,
                   restarted>>

-----------------------------------------------------------------------------
(* The workflow. The predicates below are parts of actions.                *)

NoAttempt(r) == attempt' = [attempt EXCEPT ![r] = "none"]

Close(r) == workflow' = [workflow EXCEPT ![r] = "closed"] /\ NoAttempt(r)

\* Mutant: the maximum counts retries, not attempts.
RetryOrClose_OneMore(r) ==
    \/ /\ tries[r] <= MaxAttempts
       /\ attempt' = [attempt EXCEPT ![r] = "due"]
       /\ UNCHANGED workflow
    \/ Close(r)

\* A retryable end of an attempt: another one, unless the maximum or the
\* schedule_to_close deadline is reached.
RetryOrClose(r) ==
    \/ /\ tries[r] < MaxAttempts
       /\ attempt' = [attempt EXCEPT ![r] = "due"]
       /\ UNCHANGED workflow
    \/ Close(r)

\* The thread of the attempt, if it still has one, goes on unobserved.
Abandon(r) ==
    thread' = [t \in Thread |-> IF Busy(t) /\ thread[t].run = r
                                  THEN [thread[t] EXCEPT !.live = FALSE]
                                  ELSE thread[t]]

\* execute_activity raises in a cancelled workflow, whatever the activity does.
CloseCancelled(r) ==
    /\ workflow[r] = "cancelling"
    /\ Close(r)
    /\ Abandon(r)
    /\ UNCHANGED <<dbVars, outboxVars, apiVars, publisherVars, tries, runnerVars,
                   boundVars>>

\* Mutant: no start_to_close_timeout.
AttemptTimeout_OnlyDue(r) ==
    /\ Open(r)
    /\ attempt[r] = "due" /\ Close(r)
    /\ Abandon(r)
    /\ UNCHANGED <<dbVars, outboxVars, apiVars, publisherVars, tries, runnerVars,
                   boundVars>>

\* start_to_close_timeout, or schedule_to_close_timeout at any attempt.
AttemptTimeout(r) ==
    /\ Open(r)
    /\ \/ attempt[r] = "started" /\ RetryOrClose(r)
       \/ attempt[r] = "due" /\ Close(r)
    /\ Abandon(r)
    /\ UNCHANGED <<dbVars, outboxVars, apiVars, publisherVars, tries, runnerVars,
                   boundVars>>

StartAttempt(t, r) ==
    /\ ~Busy(t)
    /\ Open(r)
    /\ attempt[r] = "due"
    /\ attempt' = [attempt EXCEPT ![r] = "started"]
    /\ tries' = [tries EXCEPT ![r] = @ + 1]
    /\ thread' = [thread EXCEPT ![t] = [phase |-> "checking", run |-> r,
                      live |-> TRUE, execution |-> 0, verdict |-> "none"]]
    /\ UNCHANGED <<dbVars, outboxVars, apiVars, publisherVars, workflow, runnerVars,
                   boundVars>>

-----------------------------------------------------------------------------
(* The activity, one step of its thread at a time.                         *)

Goto(t, phase) == thread' = [thread EXCEPT ![t].phase = phase]

\* The activity returns or raises. Temporal takes notice only of the attempt it
\* waits for; "ValueError" is the error it does not retry.
EndAttempt(t, outcome) ==
    LET r == thread[t].run
    IN  /\ thread' = [thread EXCEPT ![t] = Idle]
        /\ IF ~thread[t].live THEN UNCHANGED <<workflow, attempt>>
           ELSE IF outcome = "retry" THEN RetryOrClose(r)
           ELSE Close(r)

\* DispatchRun: a finished run is not executed (ValueError).
CheckRun(t) ==
    /\ thread[t].phase = "checking"
    /\ IF status[thread[t].run] \in Terminal
         THEN EndAttempt(t, "final")
         ELSE Goto(t, "posting") /\ UNCHANGED <<workflow, attempt>>
    /\ UNCHANGED <<dbVars, outboxVars, apiVars, publisherVars, tries, runnerVars,
                   boundVars>>

\* Mutant: the worker does not look at the cancelled runs.
PostRequest_Unchecked(t) ==
    /\ thread[t].phase = "posting"
    /\ LET r == thread[t].run
           i == Len(executions) + 1
       IN  /\ i <= MaxExecutions
           /\ executions' = Append(executions, [run |-> r, state |-> "running"])
           /\ active' = [active EXCEPT ![r] = i]
           /\ thread' = [thread EXCEPT ![t].phase = "waiting",
                                       ![t].execution = i]
    /\ UNCHANGED <<dbVars, outboxVars, apiVars, publisherVars, workflowVars,
                   cancelledRuns, boundVars>>

\* POST /execute: 422, which the transport reports as an unavailable runner, for
\* a run the worker knows to be cancelled; otherwise an execution begins and
\* takes the run's place in activeExecutions.
PostRequest(t) ==
    /\ thread[t].phase = "posting"
    /\ LET r == thread[t].run
           i == Len(executions) + 1
       IN  \/ /\ r \in cancelledRuns
              /\ EndAttempt(t, "retry")
              /\ UNCHANGED runnerVars
           \/ /\ r \notin cancelledRuns
              /\ i <= MaxExecutions
              /\ executions' = Append(executions, [run |-> r, state |-> "running"])
              /\ active' = [active EXCEPT ![r] = i]
              /\ thread' = [thread EXCEPT ![t].phase = "waiting",
                                          ![t].execution = i]
              /\ UNCHANGED <<cancelledRuns, workflow, attempt>>
    /\ UNCHANGED <<dbVars, outboxVars, apiVars, publisherVars, tries, boundVars>>

\* Mutant: any finished execution of the run will do.
ReceiveResponse_Latest(t) ==
    /\ thread[t].phase = "waiting"
    /\ \E i \in DOMAIN executions :
          /\ executions[i].run = thread[t].run
          /\ executions[i].state \in Verdicts
          /\ thread' = [thread EXCEPT ![t].phase = "recording",
                                      ![t].verdict = executions[i].state]
    /\ UNCHANGED <<dbVars, outboxVars, apiVars, publisherVars, workflowVars,
                   runnerVars, boundVars>>

\* The answer: a result, or 422 from an execution that raised.
ReceiveResponse(t) ==
    /\ thread[t].phase = "waiting"
    /\ LET answer == executions[thread[t].execution].state
       IN  \/ /\ answer = "raised"
              /\ EndAttempt(t, "retry")
           \/ /\ answer \in Verdicts
              /\ thread' = [thread EXCEPT ![t].phase = "recording",
                                          ![t].verdict = answer]
              /\ UNCHANGED <<workflow, attempt>>
    /\ UNCHANGED <<dbVars, outboxVars, apiVars, publisherVars, tries, runnerVars,
                   boundVars>>

\* The transport's timeout (90 s): the execution goes on without a listener.
HttpTimeout(t) ==
    /\ thread[t].phase = "waiting"
    /\ EndAttempt(t, "retry")
    /\ UNCHANGED <<dbVars, outboxVars, apiVars, publisherVars, tries, runnerVars,
                   boundVars>>

\* RecordDeterministicResult reads the run again. A finished run refuses another
\* result (ValueError); to its own result the follow-ups are all there is to add.
ReadForRecord(t) ==
    /\ thread[t].phase = "recording"
    /\ LET r == thread[t].run
       IN  \/ /\ status[r] \notin Terminal
              /\ Goto(t, "saving")
              /\ UNCHANGED <<pending, workflow, attempt>>
           \/ /\ result[r] = Own(t)
              /\ Request(FollowUps(thread[t].verdict), r)
              /\ Goto(t, "saved")
              /\ UNCHANGED <<workflow, attempt>>
           \/ /\ status[r] \in Terminal
              /\ result[r] # Own(t)
              /\ EndAttempt(t, "final")
              /\ UNCHANGED pending
    /\ UNCHANGED <<dbVars, published, proposals, apiVars, publisherVars, tries,
                   runnerVars, boundVars>>

\* Mutant: the update has no version in its WHERE clause.
SaveResult_AnyVersion(t) ==
    /\ thread[t].phase = "saving"
    /\ LET r == thread[t].run
       IN  /\ status' = [status EXCEPT ![r] = thread[t].verdict]
           /\ result' = [result EXCEPT ![r] = Own(t)]
           /\ version' = [version EXCEPT ![r] = 2]
           /\ Request(FollowUps(thread[t].verdict), r)
           /\ Goto(t, "saved")
    /\ UNCHANGED <<published, proposals, apiVars, publisherVars, workflowVars,
                   runnerVars, boundVars>>

\* save_result, the follow-ups and the commit; ConcurrentRunUpdateError, which
\* is retried, when the run was updated since it was read.
SaveResult(t) ==
    /\ thread[t].phase = "saving"
    /\ LET r == thread[t].run
       IN  \/ /\ VersionMatches(r)
              /\ Update(r, thread[t].verdict, Own(t))
              /\ Request(FollowUps(thread[t].verdict), r)
              /\ Goto(t, "saved")
              /\ UNCHANGED <<workflow, attempt>>
           \/ /\ ~VersionMatches(r)
              /\ EndAttempt(t, "retry")
              /\ UNCHANGED <<dbVars, pending>>
    /\ UNCHANGED <<published, proposals, apiVars, publisherVars, tries, runnerVars,
                   boundVars>>

CompleteActivity(t) ==
    /\ thread[t].phase = "saved"
    /\ EndAttempt(t, "final")
    /\ UNCHANGED <<dbVars, outboxVars, apiVars, publisherVars, tries, runnerVars,
                   boundVars>>

\* A database or HTTP call of the activity raises: nothing of its transaction is
\* kept, or, after the commit, all of it.
ActivityFault(t) ==
    /\ Busy(t)
    /\ Failure
    /\ EndAttempt(t, "retry")
    /\ UNCHANGED <<dbVars, outboxVars, apiVars, publisherVars, tries, runnerVars,
                   restarted>>

-----------------------------------------------------------------------------
(* The Playwright worker, and the processes.                               *)

\* An execution ends with a verdict, also one that was aborted while it collects
\* its evidence. It raises when it is aborted, or when the browser fails to
\* start. In every case the run leaves activeExecutions, whoever is in there.
EndExecution(i) ==
    /\ \/ /\ executions[i].state \in {"running", "aborting"}
          /\ \E v \in Verdicts : executions' = [executions EXCEPT ![i].state = v]
          /\ UNCHANGED failures
       \/ /\ \/ executions[i].state = "aborting" /\ UNCHANGED failures
             \/ executions[i].state = "running" /\ Failure
          /\ executions' = [executions EXCEPT ![i].state = "raised"]
    /\ active' = [active EXCEPT ![executions[i].run] = 0]
    /\ UNCHANGED <<dbVars, outboxVars, apiVars, publisherVars, workflowVars, thread,
                   cancelledRuns, restarted>>

\* A restart of the Playwright worker: its executions break off, and both its
\* map and its set are empty.
RestartRunner ==
    /\ Failure
    /\ restarted' = TRUE
    /\ executions' = [i \in DOMAIN executions |->
                        IF executions[i].state \in {"running", "aborting"}
                          THEN [executions[i] EXCEPT !.state = "raised"]
                          ELSE executions[i]]
    /\ active' = [r \in Run |-> 0]
    /\ cancelledRuns' = {}
    /\ UNCHANGED <<dbVars, outboxVars, apiVars, publisherVars, workflowVars, thread>>

\* A crash of the process of publisher and threads: their open transactions are
\* rolled back. Temporal finds out when the attempt times out.
CrashWorker ==
    /\ Failure
    /\ thread' = [t \in Thread |-> Idle]
    /\ Rollback
    /\ UNCHANGED <<dbVars, apiVars, workflowVars, runnerVars, restarted>>

-----------------------------------------------------------------------------
Publisher ==
    \/ TakeBatch \/ Commit
    \/ \E e \in batch : \/ HandleRequested(e)
                       \/ CancelWorkflow(e) \/ NotifyWorker(e)
                       \/ HandleTriage(e) \/ HandleReport(e)

ThreadStep(t) ==
    \/ CheckRun(t) \/ PostRequest(t) \/ ReceiveResponse(t) \/ HttpTimeout(t)
    \/ ReadForRecord(t) \/ SaveResult(t) \/ CompleteActivity(t)

Workflow(r) ==
    \/ CloseCancelled(r) \/ AttemptTimeout(r)
    \/ \E t \in Thread : StartAttempt(t, r)

Next ==
    \/ \E r \in Run : \/ CreateRun(r)
                      \/ ReadForCancel(r) \/ WriteCancel(r)
                      \/ ReadForResult(r) \/ WriteResult(r)
                      \/ Workflow(r)
    \/ Publisher \/ PublisherFault
    \/ \E t \in Thread : ThreadStep(t) \/ ActivityFault(t)
    \/ \E i \in DOMAIN executions : EndExecution(i)
    \/ RestartRunner \/ CrashWorker

Spec == Init /\ [][Next]_vars

\* The publisher polls for ever, the threads run, and Temporal's timers fire.
\* Users, executions and failures owe nothing.
FairSpec ==
    /\ Spec
    /\ WF_vars(Publisher)
    /\ \A t \in Thread : WF_vars(ThreadStep(t))
    /\ \A r \in Run : WF_vars(Workflow(r))

-----------------------------------------------------------------------------
(* Properties.                                                             *)

\* "The worker remains the sole terminal verdict authority": a verdict recorded
\* by an activity is the one that this execution, of this run, ended with,
\* however many attempts, late answers and lingering threads there were.
VerdictObserved ==
    \A r \in Run : status[r] \in Verdicts =>
        /\ result[r].verdict = status[r]
        /\ result[r].by # 0 =>
              executions[result[r].by] = [run |-> r, state |-> status[r]]

\* A run that is cancelled or has its verdict keeps it, against cancel requests,
\* result requests and activities that all read it while it was unfinished.
TerminalStable ==
    [][\A r \in Run : status[r] \in Terminal =>
          status'[r] = status[r] /\ result'[r] = result[r]]_vars

\* The outbox holds what happened to the run, no more and no less: its request,
\* its cancellation if it was cancelled, triage exactly of a failed run, and a
\* report only of a run with a verdict.
OutboxTellsRun ==
    LET Asked(k, r) == Ev(k, r) \in pending \cup published
    IN  \A r \in Run :
          /\ Asked("requested", r) <=> status[r] # "absent"
          /\ Asked("cancelled", r) <=> status[r] = "cancelled"
          /\ Asked("triage", r) <=> status[r] = "failed"
          /\ Asked("report", r) => status[r] \in Verdicts

\* However often a batch is rolled back and its events are handled again, a run
\* gets one triage proposal at most, and only a failed one gets any.
OneProposal ==
    \A r \in Run : /\ proposals[r] <= 1
                   /\ proposals[r] = 1 => status[r] = "failed"

\* Once its request counts as delivered, the run has had a workflow.
RequestStarted ==
    \A r \in Run : Ev("requested", r) \in published => workflow[r] # "none"

\* Once its cancellation counts as delivered, the workflow of the run is closed
\* or about to close, and no redelivered request has opened another one.
CancelledStays ==
    \A r \in Run : Ev("cancelled", r) \in published =>
        workflow[r] \in {"cancelling", "closed"}

\* At-least-once delivery read backwards: an event that counts as delivered has had
\* its effect, whatever was rolled back and handled again around it.
PublishedIsDone == RequestStarted /\ CancelledStays

\* Nothing is executed for a run whose cancellation counts as delivered, not by
\* an activity that checked the run before it was cancelled either; as long as
\* the Playwright worker, whose set is in memory, is not restarted.
NoExecutionAfterCancel ==
    [][\A r \in Run :
          /\ Ev("cancelled", r) \in published
          /\ ~restarted
          => \A i \in DOMAIN executions' \ DOMAIN executions :
                executions'[i].run # r]_vars

\* At-least-once delivery: every event of the outbox is published in the end.
Delivered == \A e \in Event : e \in pending ~> e \in published

\* A workflow that was started ends, also when its activity was lost in a crash.
WorkflowEnds == \A r \in Run : workflow[r] = "open" ~> workflow[r] = "closed"

=============================================================================
