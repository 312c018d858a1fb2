----------------------- MODULE TestRunDispatch_proofs -----------------------
(***************************************************************************)
(* Proofs about TestRunDispatch, for any runs, threads, attempts and       *)
(* requests, and any number of executions and failures.                    *)
(***************************************************************************)
EXTENDS TestRunDispatch, SequenceTheorems, FiniteSetTheorems, TLAPS

-----------------------------------------------------------------------------
(* Types.                                                                  *)

\* An attempt that is due is one the retry policy still grants.
AttemptInv == \A r \in Run : attempt[r] = "due" => tries[r] < MaxAttempts

\* A thread that has had its answer keeps the verdict.
AnswerInv ==
    \A t \in Thread : thread[t].phase \in {"recording", "saving", "saved"} =>
                        thread[t].verdict \in Verdicts

\* There are no more executions than the bound admits.
BoundInv == DOMAIN executions \subseteq 1..MaxExecutions

TypeInv == TypeOK /\ AttemptInv /\ AnswerInv /\ BoundInv

\* The bounds are numbers.
LEMMA Numbers ==
  /\ MaxExecutions \in Nat /\ 0 \in 0..MaxExecutions
  /\ MaxAttempts \in Nat \ {0} /\ 0 \in 0..MaxAttempts /\ 0 < MaxAttempts
  BY DispatchAssumption

\* A thread at work holds a whole activity, and of one of the runs.
LEMMA BusyType ==
  ASSUME TypeOK, NEW t \in Thread, Busy(t)
  PROVE  thread[t] \in Activity /\ thread[t].run \in Run
  BY DEF TypeOK, Busy, Activity

\* A thread in one of the phases of the activity is at work.
LEMMA PhaseBusy ==
  ASSUME NEW t \in Thread, thread[t].phase # "idle"
  PROVE  Busy(t)
  BY DEF Busy, Idle

\* A thread that goes to another phase still holds an activity.
LEMMA GotoType ==
  ASSUME TypeInv, NEW t \in Thread, Busy(t),
         NEW p \in {"posting", "saving", "saved"}, Goto(t, p),
         p = "posting" \/ thread[t].verdict \in Verdicts
  PROVE  thread' \in [Thread -> Activity \cup {Idle}] /\ AnswerInv'
  <1>1. /\ [thread[t] EXCEPT !.phase = p] \in Activity
        /\ [thread[t] EXCEPT !.phase = p].phase = p
        /\ [thread[t] EXCEPT !.phase = p].verdict = thread[t].verdict
    BY BusyType DEF Activity, TypeInv
  <1>2. thread' = [thread EXCEPT ![t] = [thread[t] EXCEPT !.phase = p]]
    BY DEF Goto
  <1>3. /\ thread' \in [Thread -> Activity \cup {Idle}]
        /\ \A u \in Thread : u # t => thread'[u] = thread[u]
        /\ thread'[t] = [thread[t] EXCEPT !.phase = p]
    BY <1>1, <1>2 DEF TypeOK, TypeInv
  <1> QED
    BY <1>1, <1>3 DEF AnswerInv, TypeInv

\* However an attempt ends, thread and workflow stay well typed, and another
\* attempt is due only if the policy grants it.
LEMMA RetryOrCloseType ==
  ASSUME TypeInv, NEW r \in Run, RetryOrClose(r), tries' = tries
  PROVE  /\ workflow' \in [Run -> {"none", "open", "cancelling", "closed"}]
         /\ attempt' \in [Run -> {"none", "due", "started"}]
         /\ AttemptInv'
  BY DEF TypeInv, TypeOK, AttemptInv, RetryOrClose, Close, NoAttempt

\* However a thread's work ends, the tables stay well typed.
LEMMA EndAttemptType ==
  ASSUME TypeInv, NEW t \in Thread, Busy(t), NEW outcome,
         EndAttempt(t, outcome), tries' = tries
  PROVE  /\ workflow' \in [Run -> {"none", "open", "cancelling", "closed"}]
         /\ attempt' \in [Run -> {"none", "due", "started"}]
         /\ thread' \in [Thread -> Activity \cup {Idle}]
         /\ AttemptInv' /\ AnswerInv'
  <1>1. thread' \in [Thread -> Activity \cup {Idle}] /\ AnswerInv'
    BY DEF TypeInv, TypeOK, EndAttempt, AnswerInv, Idle
  <1>2. thread[t].run \in Run
    BY BusyType DEF TypeInv
  <1>3. CASE UNCHANGED <<workflow, attempt>>
    BY <1>1, <1>3 DEF TypeInv, TypeOK, AttemptInv, AnswerInv
  <1>4. CASE RetryOrClose(thread[t].run)
    BY <1>1, <1>2, <1>4, RetryOrCloseType
  <1>5. CASE Close(thread[t].run)
    BY <1>1, <1>2, <1>5, RetryOrCloseType DEF RetryOrClose
  <1> QED
    BY <1>3, <1>4, <1>5 DEF EndAttempt

\* Temporal's abandoned threads keep their activities.
LEMMA AbandonType ==
  ASSUME TypeInv, NEW r \in Run, Abandon(r)
  PROVE  thread' \in [Thread -> Activity \cup {Idle}] /\ AnswerInv'
  <1> USE DEF TypeInv
  <1>1. ASSUME NEW t \in Thread, Busy(t)
        PROVE  /\ [thread[t] EXCEPT !.live = FALSE] \in Activity
               /\ [thread[t] EXCEPT !.live = FALSE].phase = thread[t].phase
               /\ [thread[t] EXCEPT !.live = FALSE].verdict = thread[t].verdict
    BY <1>1, BusyType DEF Activity
  <1>2. \A t \in Thread : thread[t] \in Activity \cup {Idle}
    BY DEF TypeOK
  <1>3. thread' \in [Thread -> Activity \cup {Idle}]
    BY <1>1, <1>2 DEF Abandon
  <1>4. \A t \in Thread : /\ thread'[t].phase = thread[t].phase
                           /\ thread'[t].verdict = thread[t].verdict
    BY <1>1 DEF Abandon
  <1> QED
    BY <1>3, <1>4 DEF AnswerInv

\* The requests of a transaction are events.
LEMMA RequestType ==
  ASSUME TypeOK, NEW r \in Run, NEW kinds \in SUBSET Kind, Request(kinds, r)
  PROVE  pending' \subseteq Event
  BY DEF TypeOK, Request, Ev, Event

\* One update of a run leaves the table well typed, if it is the run's first.
LEMMA UpdateType ==
  ASSUME TypeOK, NEW r \in Run, NEW s \in Terminal,
         NEW res \in [by : 0..MaxExecutions, verdict : Verdicts \cup {"none"}],
         VersionMatches(r), Update(r, s, res)
  PROVE  /\ status' \in [Run -> Terminal \cup {"absent", "queued"}]
         /\ version' \in [Run -> {1, 2}]
         /\ result' \in [Run -> [by : 0..MaxExecutions,
                                 verdict : Verdicts \cup {"none"}]]
  BY DEF TypeOK, VersionMatches, Update

\* Before the first request everything is well typed.
LEMMA TypeInit == Init => TypeInv
  <1> SUFFICES ASSUME Init PROVE TypeInv
    OBVIOUS
  <1>1. NoResult \in [by : 0..MaxExecutions, verdict : Verdicts \cup {"none"}]
    BY DispatchAssumption DEF NoResult
  <1>2. executions \in Seq([run : Run, state : {"running", "aborting", "raised"}
                                               \cup Verdicts])
    BY DEF Init
  <1>3. /\ tries \in [Run -> 0..MaxAttempts]
        /\ active \in [Run -> 0..MaxExecutions]
        /\ failures \in 0..MaxFailures
    BY DispatchAssumption DEF Init
  <1>4. attempt \in [Run -> {"none", "due", "started"}] /\ AttemptInv /\ AnswerInv
    BY DEF Init, AttemptInv, AnswerInv, Idle
  <1>6. BoundInv
    BY DEF Init, BoundInv
  <1>5. proposals \in [Run -> Nat]
    BY DEF Init
  <1> QED
    BY <1>1, <1>2, <1>3, <1>4, <1>5, <1>6 DEF Init, TypeInv, TypeOK

-----------------------------------------------------------------------------
(* The executions of the Playwright worker.                                *)

Execution == [run : Run, state : {"running", "aborting", "raised"} \cup Verdicts]

\* A sequence of executions, by its two halves.
LEMMA ExecutionsDomain ==
  ASSUME TypeOK
  PROVE  /\ executions \in Seq(Execution)
         /\ Len(executions) \in Nat
         /\ DOMAIN executions = 1..Len(executions)
         /\ \A i \in DOMAIN executions : executions[i] \in Execution
  <1>1. executions \in Seq(Execution)
    BY DEF TypeOK, Execution
  <1> QED
    BY <1>1, LenProperties

\* Any table of executions over the old places is one the type admits.
LEMMA SamePlaces ==
  ASSUME TypeOK, NEW f, f \in [DOMAIN executions -> Execution]
  PROVE  f \in Seq(Execution)
  <1>1. f \in [1..Len(executions) -> Execution]
    BY ExecutionsDomain
  <1> QED
    BY <1>1, ExecutionsDomain, SeqDef

\* A step in which an execution gets another state.
LEMMA ChangeState ==
  ASSUME TypeOK, NEW i, NEW s \in {"running", "aborting", "raised"} \cup Verdicts,
         executions' = [executions EXCEPT ![i].state = s]
  PROVE  /\ executions' \in Seq(Execution)
         /\ DOMAIN executions' = DOMAIN executions
         /\ \A j \in DOMAIN executions :
              /\ executions'[j].run = executions[j].run
              /\ j # i => executions'[j] = executions[j]
              /\ j = i => executions'[j].state = s
  <1>1. \A j \in DOMAIN executions :
           executions[j] \in Execution
           /\ [executions[j] EXCEPT !.state = s] \in Execution
    BY ExecutionsDomain DEF Execution
  <1>2. executions' = [executions EXCEPT ![i] = [executions[i] EXCEPT !.state = s]]
    OBVIOUS
  <1>3. executions \in [DOMAIN executions -> Execution]
    BY ExecutionsDomain, LenProperties
  <1>4. executions' \in [DOMAIN executions -> Execution]
    BY <1>1, <1>2, <1>3
  <1>5. \A j \in DOMAIN executions :
           j = i => executions'[j] = [executions[j] EXCEPT !.state = s]
    BY <1>2, <1>3
  <1>6. \A j \in DOMAIN executions : j # i => executions'[j] = executions[j]
    BY <1>2, <1>3
  <1>7. \A j \in DOMAIN executions :
          /\ executions'[j].run = executions[j].run
          /\ j = i => executions'[j].state = s
    BY <1>1, <1>5, <1>6 DEF Execution
  <1> QED
    BY <1>4, <1>6, <1>7, SamePlaces

\* A step in which an execution begins.
LEMMA BeginExecution ==
  ASSUME TypeOK, NEW r \in Run,
         executions' = Append(executions, [run |-> r, state |-> "running"])
  PROVE  /\ executions' \in Seq(Execution)
         /\ DOMAIN executions' = DOMAIN executions \cup {Len(executions) + 1}
         /\ \A j \in DOMAIN executions : executions'[j] = executions[j]
         /\ executions'[Len(executions) + 1] = [run |-> r, state |-> "running"]
         /\ Len(executions) + 1 \notin DOMAIN executions
  <1>1. [run |-> r, state |-> "running"] \in Execution
    BY DEF Execution
  <1>2. /\ executions' \in Seq(Execution)
        /\ Len(executions') = Len(executions) + 1
        /\ \A j \in 1..Len(executions) : executions'[j] = executions[j]
        /\ executions'[Len(executions) + 1] = [run |-> r, state |-> "running"]
    BY <1>1, ExecutionsDomain, AppendProperties
  <1>3. DOMAIN executions' = 1..(Len(executions) + 1)
    BY <1>2, LenProperties
  <1> QED
    BY <1>2, <1>3, ExecutionsDomain

\* A restart of the worker, as a change of the executions.
LEMMA RestartExecutions ==
  ASSUME TypeOK, RestartRunner
  PROVE  /\ executions' \in Seq(Execution)
         /\ DOMAIN executions' = DOMAIN executions
         /\ \A j \in DOMAIN executions :
              /\ executions'[j].run = executions[j].run
              /\ executions[j].state \in Verdicts => executions'[j] = executions[j]
  <1>1. \A j \in DOMAIN executions :
           executions[j] \in Execution
           /\ [executions[j] EXCEPT !.state = "raised"] \in Execution
    BY ExecutionsDomain DEF Execution
  <1>2. executions' = [i \in DOMAIN executions |->
                         IF executions[i].state \in {"running", "aborting"}
                           THEN [executions[i] EXCEPT !.state = "raised"]
                           ELSE executions[i]]
    BY DEF RestartRunner
  <1>3. executions' \in [DOMAIN executions -> Execution]
    BY <1>1, <1>2
  <1>4. \A j \in DOMAIN executions : executions'[j].run = executions[j].run
    BY <1>1, <1>2 DEF Execution
  <1>5. \A j \in DOMAIN executions :
           executions[j].state \in Verdicts => executions'[j] = executions[j]
    BY <1>2 DEF Verdicts
  <1> QED
    BY <1>3, <1>4, <1>5, SamePlaces

-----------------------------------------------------------------------------
\* Every step keeps the types and the retry policy.
LEMMA TypeNext == TypeInv /\ [Next]_vars => TypeInv'
  <1> SUFFICES ASSUME TypeInv, [Next]_vars PROVE TypeInv'
    OBVIOUS
  <1> USE DEF TypeInv, dbVars, outboxVars, apiVars, publisherVars, workflowVars,
              runnerVars, boundVars
  <1>1. ASSUME NEW r \in Run, CreateRun(r) PROVE TypeInv'
    <2>1. pending' \subseteq Event
      BY <1>1, RequestType DEF CreateRun, Kind
    <2> QED
      BY <1>1, <2>1 DEF CreateRun, TypeOK, AttemptInv, AnswerInv, BoundInv
  <1>2. ASSUME NEW r \in Run, ReadForCancel(r) PROVE TypeInv'
    BY <1>2 DEF ReadForCancel, TypeOK, AttemptInv, AnswerInv, BoundInv
  <1>3. ASSUME NEW r \in Run, WriteCancel(r) PROVE TypeInv'
    <2>1. NoResult \in [by : 0..MaxExecutions, verdict : Verdicts \cup {"none"}]
      BY DispatchAssumption DEF NoResult
    <2>2. CASE VersionMatches(r)
      <3>1. pending' \subseteq Event
        BY <1>3, <2>2, RequestType DEF WriteCancel, Kind
      <3> QED
        BY <1>3, <2>1, <2>2, <3>1, UpdateType
        DEF WriteCancel, TypeOK, AttemptInv, AnswerInv, BoundInv, Terminal
    <2>3. CASE ~VersionMatches(r)
      BY <1>3, <2>3 DEF WriteCancel, TypeOK, AttemptInv, AnswerInv, BoundInv
    <2> QED
      BY <2>2, <2>3
  <1>4. ASSUME NEW r \in Run, ReadForResult(r) PROVE TypeInv'
    BY <1>4 DEF ReadForResult, TypeOK, AttemptInv, AnswerInv, BoundInv
  <1>5. ASSUME NEW r \in Run, WriteResult(r) PROVE TypeInv'
    <2>1. CASE VersionMatches(r)
      <3>1. PICK v \in Verdicts, i \in {0} \cup DOMAIN executions :
              Update(r, v, [by |-> i, verdict |-> v]) /\ Request(TriageOf(v), r)
        BY <1>5, <2>1 DEF WriteResult
      <3>2. pending' \subseteq Event
        BY <3>1, RequestType DEF Kind, TriageOf
      <3>3. i \in 0..MaxExecutions
        BY DispatchAssumption DEF BoundInv
      <3> QED
        BY <1>5, <2>1, <3>1, <3>2, <3>3, UpdateType
        DEF WriteResult, TypeOK, AttemptInv, AnswerInv, BoundInv, Terminal
    <2>2. CASE ~VersionMatches(r)
      BY <1>5, <2>2 DEF WriteResult, TypeOK, AttemptInv, AnswerInv, BoundInv
    <2> QED
      BY <2>1, <2>2
  <1>6. ASSUME NEW r \in Run, CloseCancelled(r) PROVE TypeInv'
    BY <1>6, AbandonType
    DEF CloseCancelled, Close, NoAttempt, TypeOK, AttemptInv, AnswerInv, BoundInv
  <1>7. ASSUME NEW r \in Run, AttemptTimeout(r) PROVE TypeInv'
    <2>1. RetryOrClose(r)
      BY <1>7 DEF AttemptTimeout, RetryOrClose
    <2> QED
      BY <1>7, <2>1, AbandonType, RetryOrCloseType
      DEF AttemptTimeout, TypeOK, BoundInv
  <1>8. ASSUME NEW r \in Run, NEW t \in Thread, StartAttempt(t, r) PROVE TypeInv'
    <2>1. [phase |-> "checking", run |-> r, live |-> TRUE, execution |-> 0,
           verdict |-> "none"] \in Activity
      BY DispatchAssumption DEF Activity
    <2>2. tries[r] + 1 \in 0..MaxAttempts
      BY <1>8, DispatchAssumption
      DEF StartAttempt, TypeOK, AttemptInv, AnswerInv, BoundInv
    <2> QED
      BY <1>8, <2>1, <2>2
      DEF StartAttempt, TypeOK, AttemptInv, AnswerInv, BoundInv
  <1>9. CASE TakeBatch
    BY <1>9 DEF TakeBatch, Unpublished, TypeOK, AttemptInv, AnswerInv, BoundInv
  <1>10. CASE Commit
    BY <1>10 DEF Commit, TypeOK, AttemptInv, AnswerInv, BoundInv
  <1>11. ASSUME NEW e \in batch, HandleRequested(e) PROVE TypeInv'
    <2>1. e.run \in Run
      BY DEF TypeOK, Event
    <2>2. /\ workflow' \in [Run -> {"none", "open", "cancelling", "closed"}]
          /\ attempt' \in [Run -> {"none", "due", "started"}]
          /\ tries' \in [Run -> 0..MaxAttempts]
          /\ AttemptInv'
      <3>1. CASE Open(e.run)
        BY <1>11, <3>1 DEF HandleRequested, TypeOK, AttemptInv
      <3>2. CASE ~Open(e.run)
        <4>1. /\ workflow' = [workflow EXCEPT ![e.run] = "open"]
              /\ attempt' = [attempt EXCEPT ![e.run] = "due"]
              /\ tries' = [tries EXCEPT ![e.run] = 0]
          BY <1>11, <3>2 DEF HandleRequested
        <4> QED
          BY <2>1, <4>1, Numbers DEF TypeOK, AttemptInv
      <3> QED
        BY <3>1, <3>2
    <2>3. batch' \subseteq Event /\ handled' \subseteq Event
      BY <1>11 DEF HandleRequested, Mark, TypeOK
    <2> QED
      BY <1>11, <2>2, <2>3 DEF HandleRequested, TypeOK, AnswerInv, BoundInv
  <1>12. ASSUME NEW e \in batch, CancelWorkflow(e) PROVE TypeInv'
    <2>1. workflow' \in [Run -> {"none", "open", "cancelling", "closed"}]
      <3>1. CASE workflow[e.run] = "none"
        BY <1>12, <3>1 DEF CancelWorkflow, TypeOK
      <3>2. CASE workflow[e.run] # "none"
        <4>1. workflow' = [workflow EXCEPT ![e.run] =
                             IF @ = "open" THEN "cancelling" ELSE @]
          BY <1>12, <3>2 DEF CancelWorkflow
        <4>2. e.run \in Run
          BY DEF TypeOK, Event
        <4> QED
          BY <4>1, <4>2 DEF TypeOK
      <3> QED
        BY <3>1, <3>2
    <2> QED
      BY <1>12, <2>1
      DEF CancelWorkflow, Rollback, TypeOK, AttemptInv, AnswerInv, BoundInv
  <1>13. ASSUME NEW e \in batch, NotifyWorker(e) PROVE TypeInv'
    <2>1. e.run \in Run
      BY DEF TypeOK, Event
    <2>2. executions' \in Seq(Execution)
      BY <1>13, ChangeState, ExecutionsDomain DEF NotifyWorker
    <2>3. batch' \subseteq Event /\ handled' \subseteq Event
      BY <1>13 DEF NotifyWorker, Mark, TypeOK, BoundInv
    <2>4. cancelledRuns' \subseteq Run
      BY <1>13, <2>1 DEF NotifyWorker, TypeOK, BoundInv
    <2>5. BoundInv'
      BY <1>13, ChangeState DEF NotifyWorker, BoundInv
    <2> QED
      BY <1>13, <2>2, <2>3, <2>4, <2>5
      DEF NotifyWorker, TypeOK, AttemptInv, AnswerInv, Execution
  <1>14. ASSUME NEW e \in batch, HandleTriage(e) PROVE TypeInv'
    <2>1. e.run \in Run
      BY DEF TypeOK, Event
    <2> QED
      BY <1>14, <2>1
      DEF HandleTriage, Mark, TypeOK, AttemptInv, AnswerInv, BoundInv
  <1>15. ASSUME NEW e \in batch, HandleReport(e) PROVE TypeInv'
    BY <1>15 DEF HandleReport, Mark, TypeOK, AttemptInv, AnswerInv, BoundInv
  <1>16. CASE PublisherFault
    BY <1>16, DispatchAssumption
    DEF PublisherFault, Failure, Rollback, TypeOK, AttemptInv, AnswerInv,
        BoundInv
  <1>17. ASSUME NEW t \in Thread, CheckRun(t) PROVE TypeInv'
    <2>1. Busy(t)
      BY <1>17, PhaseBusy DEF CheckRun
    <2>2. /\ workflow' \in [Run -> {"none", "open", "cancelling", "closed"}]
          /\ attempt' \in [Run -> {"none", "due", "started"}]
          /\ thread' \in [Thread -> Activity \cup {Idle}]
          /\ AttemptInv' /\ AnswerInv'
      <3>1. CASE EndAttempt(t, "final")
        BY <1>17, <2>1, <3>1, EndAttemptType DEF CheckRun
      <3>2. CASE Goto(t, "posting") /\ UNCHANGED <<workflow, attempt>>
        BY <1>17, <2>1, <3>2, GotoType
        DEF CheckRun, TypeOK, AttemptInv, AnswerInv, BoundInv
      <3> QED
        BY <1>17, <3>1, <3>2 DEF CheckRun
    <2> QED
      BY <1>17, <2>2 DEF CheckRun, TypeOK, BoundInv
  <1>18. ASSUME NEW t \in Thread, PostRequest(t) PROVE TypeInv'
    <2>1. Busy(t)
      BY <1>18, PhaseBusy DEF PostRequest
    <2>2. thread[t].run \in Run /\ thread[t] \in Activity
      BY <2>1, BusyType
    <2>3. CASE EndAttempt(t, "retry") /\ UNCHANGED runnerVars
      BY <1>18, <2>1, <2>3, EndAttemptType DEF PostRequest, TypeOK, BoundInv
    <2>4. CASE ~(EndAttempt(t, "retry") /\ UNCHANGED runnerVars)
      <3> DEFINE i == Len(executions) + 1
      <3>1. /\ i <= MaxExecutions
            /\ executions' = Append(executions, [run |-> thread[t].run,
                                                 state |-> "running"])
            /\ active' = [active EXCEPT ![thread[t].run] = i]
            /\ thread' = [thread EXCEPT ![t].phase = "waiting", ![t].execution = i]
            /\ UNCHANGED <<cancelledRuns, workflow, attempt>>
        BY <1>18, <2>4 DEF PostRequest
      <3>2. i \in 0..MaxExecutions
        BY <3>1, ExecutionsDomain, DispatchAssumption
      <3>3. executions' \in Seq(Execution)
        BY <2>2, <3>1, BeginExecution
      <3>4. [[thread[t] EXCEPT !.phase = "waiting"] EXCEPT !.execution = i]
              \in Activity
        BY <2>2, <3>2 DEF Activity
      <3>5. thread' \in [Thread -> Activity \cup {Idle}]
        <4> HIDE DEF i
        <4> QED
          BY <3>1, <3>4 DEF TypeOK, BoundInv
      <3>6. AnswerInv'
        BY <2>2, <3>1 DEF AnswerInv, Activity, TypeOK
      <3>7. BoundInv'
        BY <2>2, <3>1, <3>2, BeginExecution DEF BoundInv
      <3> HIDE DEF i
      <3>8. active' \in [Run -> 0..MaxExecutions]
        BY <3>1, <3>2 DEF TypeOK
      <3> QED
        BY <1>18, <3>1, <3>3, <3>5, <3>6, <3>7, <3>8
        DEF PostRequest, TypeOK, AttemptInv, Execution
    <2> QED
      BY <2>3, <2>4
  <1>19. ASSUME NEW t \in Thread, ReceiveResponse(t) PROVE TypeInv'
    <2>1. Busy(t)
      BY <1>19, PhaseBusy DEF ReceiveResponse
    <2>2. thread[t].run \in Run /\ thread[t] \in Activity
      BY <2>1, BusyType
    <2>3. CASE EndAttempt(t, "retry")
      BY <1>19, <2>1, <2>3, EndAttemptType DEF ReceiveResponse, TypeOK, BoundInv
    <2>4. CASE ~EndAttempt(t, "retry")
      <3> DEFINE v == executions[thread[t].execution].state
      <3>1. /\ v \in Verdicts
            /\ thread' = [thread EXCEPT ![t].phase = "recording", ![t].verdict = v]
            /\ UNCHANGED <<workflow, attempt>>
        BY <1>19, <2>4 DEF ReceiveResponse
      <3> HIDE DEF v
      <3>2. [[thread[t] EXCEPT !.phase = "recording"] EXCEPT !.verdict = v]
              \in Activity
        BY <2>2, <3>1 DEF Activity
      <3>3. thread' \in [Thread -> Activity \cup {Idle}]
        BY <3>1, <3>2 DEF TypeOK, BoundInv
      <3>4. AnswerInv'
        BY <3>1, <3>2 DEF AnswerInv, TypeOK
      <3> QED
        BY <1>19, <3>1, <3>3, <3>4
        DEF ReceiveResponse, TypeOK, AttemptInv, BoundInv
    <2> QED
      BY <2>3, <2>4
  <1>20. ASSUME NEW t \in Thread, HttpTimeout(t) PROVE TypeInv'
    BY <1>20, PhaseBusy, EndAttemptType DEF HttpTimeout, TypeOK, BoundInv
  <1>21. ASSUME NEW t \in Thread, ReadForRecord(t) PROVE TypeInv'
    <2>1. Busy(t)
      BY <1>21, PhaseBusy DEF ReadForRecord
    <2>2. thread[t].run \in Run
      BY <2>1, BusyType
    <2>3. pending' \subseteq Event
      <3>1. FollowUps(thread[t].verdict) \subseteq Kind
        BY DEF FollowUps, TriageOf, Kind
      <3> QED
        BY <1>21, <2>2, <3>1, RequestType DEF ReadForRecord, TypeOK, BoundInv
    <2>4. /\ workflow' \in [Run -> {"none", "open", "cancelling", "closed"}]
          /\ attempt' \in [Run -> {"none", "due", "started"}]
          /\ thread' \in [Thread -> Activity \cup {Idle}]
          /\ AttemptInv' /\ AnswerInv'
      <3>1. CASE EndAttempt(t, "final")
        BY <1>21, <2>1, <3>1, EndAttemptType DEF ReadForRecord
      <3>2. CASE Goto(t, "saving") /\ UNCHANGED <<workflow, attempt>>
        BY <1>21, <2>1, <3>2, GotoType
        DEF ReadForRecord, TypeOK, AttemptInv, AnswerInv, BoundInv
      <3>3. CASE Goto(t, "saved") /\ UNCHANGED <<workflow, attempt>>
        BY <1>21, <2>1, <3>3, GotoType
        DEF ReadForRecord, TypeOK, AttemptInv, AnswerInv, BoundInv
      <3> QED
        BY <1>21, <3>1, <3>2, <3>3 DEF ReadForRecord
    <2> QED
      BY <1>21, <2>3, <2>4 DEF ReadForRecord, TypeOK, BoundInv
  <1>22. ASSUME NEW t \in Thread, SaveResult(t) PROVE TypeInv'
    <2>1. Busy(t) /\ thread[t].verdict \in Verdicts
      BY <1>22, PhaseBusy DEF SaveResult, AnswerInv
    <2>2. thread[t].run \in Run /\ thread[t] \in Activity
      BY <2>1, BusyType
    <2>3. CASE VersionMatches(thread[t].run)
      <3>1. /\ Update(thread[t].run, thread[t].verdict, Own(t))
            /\ Request(FollowUps(thread[t].verdict), thread[t].run)
            /\ Goto(t, "saved") /\ UNCHANGED <<workflow, attempt>>
        BY <1>22, <2>3 DEF SaveResult
      <3>2. pending' \subseteq Event
        <4>1. FollowUps(thread[t].verdict) \subseteq Kind
          BY DEF FollowUps, TriageOf, Kind
        <4> QED
          BY <2>2, <3>1, <4>1, RequestType
      <3>3. Own(t) \in [by : 0..MaxExecutions, verdict : Verdicts \cup {"none"}]
        BY <2>2 DEF Own, Activity
      <3>4. /\ status' \in [Run -> Terminal \cup {"absent", "queued"}]
            /\ version' \in [Run -> {1, 2}]
            /\ result' \in [Run -> [by : 0..MaxExecutions,
                                    verdict : Verdicts \cup {"none"}]]
        BY <2>1, <2>2, <2>3, <3>1, <3>3, UpdateType DEF Terminal
      <3>5. thread' \in [Thread -> Activity \cup {Idle}] /\ AnswerInv'
        BY <2>1, <3>1, GotoType
      <3> QED
        BY <1>22, <3>1, <3>2, <3>4, <3>5
        DEF SaveResult, TypeOK, AttemptInv, BoundInv
    <2>4. CASE ~VersionMatches(thread[t].run)
      <3>1. EndAttempt(t, "retry")
        BY <1>22, <2>4 DEF SaveResult
      <3> QED
        BY <1>22, <2>1, <2>4, <3>1, EndAttemptType
        DEF SaveResult, TypeOK, BoundInv
    <2> QED
      BY <2>3, <2>4
  <1>23. ASSUME NEW t \in Thread, CompleteActivity(t) PROVE TypeInv'
    BY <1>23, PhaseBusy, EndAttemptType DEF CompleteActivity, TypeOK, BoundInv
  <1>24. ASSUME NEW t \in Thread, ActivityFault(t) PROVE TypeInv'
    <2>1. failures' \in 0..MaxFailures
      BY <1>24, DispatchAssumption DEF ActivityFault, Failure, TypeOK
    <2> QED
      BY <1>24, <2>1, EndAttemptType DEF ActivityFault, TypeOK, BoundInv
  <1>25. ASSUME NEW i \in DOMAIN executions, EndExecution(i) PROVE TypeInv'
    <2>1. executions' \in Seq(Execution)
      BY <1>25, ChangeState DEF EndExecution
    <2>2. failures' \in 0..MaxFailures
      <3>1. UNCHANGED failures \/ Failure
        BY <1>25, Zenon DEF EndExecution
      <3>2. failures \in 0..MaxFailures /\ MaxFailures \in Nat
        BY DispatchAssumption DEF TypeOK
      <3> HIDE DEF TypeInv
      <3> QED
        BY <3>1, <3>2 DEF Failure
    <2>3. active' \in [Run -> 0..MaxExecutions]
      <3>1. active' = [active EXCEPT ![executions[i].run] = 0]
        BY <1>25 DEF EndExecution
      <3> QED
        BY <3>1, Numbers DEF TypeOK
    <2>4. BoundInv'
      BY <1>25, ChangeState DEF EndExecution, BoundInv
    <2> QED
      BY <1>25, <2>1, <2>2, <2>3, <2>4
      DEF EndExecution, TypeOK, AttemptInv, AnswerInv, Execution
  <1>26. CASE RestartRunner
    <2>1. executions' \in Seq(Execution)
      BY <1>26, RestartExecutions
    <2>2. failures' \in 0..MaxFailures
      BY <1>26, DispatchAssumption DEF RestartRunner, Failure, TypeOK
    <2>3. active' \in [Run -> 0..MaxExecutions]
      BY <1>26, DispatchAssumption DEF RestartRunner
    <2>4. BoundInv'
      BY <1>26, RestartExecutions DEF BoundInv
    <2> QED
      BY <1>26, <2>1, <2>2, <2>3, <2>4
      DEF RestartRunner, TypeOK, AttemptInv, AnswerInv, Execution
  <1>27. CASE CrashWorker
    <2>1. failures' \in 0..MaxFailures
      BY <1>27, DispatchAssumption DEF CrashWorker, Failure, TypeOK
    <2>2. thread' \in [Thread -> Activity \cup {Idle}] /\ AnswerInv'
      BY <1>27 DEF CrashWorker, AnswerInv, Idle
    <2> QED
      BY <1>27, <2>1, <2>2
      DEF CrashWorker, Rollback, TypeOK, AttemptInv, BoundInv
  <1>28. CASE UNCHANGED vars
    BY <1>28 DEF vars, TypeOK, AttemptInv, AnswerInv, BoundInv
  <1> QED
    BY <1>1, <1>2, <1>3, <1>4, <1>5, <1>6, <1>7, <1>8, <1>9, <1>10, <1>11, <1>12,
       <1>13, <1>14, <1>15, <1>16, <1>17, <1>18, <1>19, <1>20, <1>21, <1>22, <1>23,
       <1>24, <1>25, <1>26, <1>27, <1>28
    DEF Next, Workflow, Publisher, ThreadStep

\* In every state the types are as declared.
THEOREM TypeCorrect == Spec => []TypeOK
  <1>1. TypeInv => TypeOK
    BY DEF TypeInv
  <1> QED
    BY TypeInit, TypeNext, <1>1, PTL DEF Spec

-----------------------------------------------------------------------------
(* The outbox and the publisher's open transaction.                        *)

\* What is published is not pending; the batch and the marks of the open
\* transaction are of pending events, each handled once; a proposal has been
\* drafted, or stored, only with the mark of its triage event.
OutboxInv ==
    /\ pending \cap published = {}
    /\ batch \subseteq pending /\ handled \subseteq pending /\ batch \cap handled = {}
    /\ step = "idle" => batch = {} /\ handled = {} /\ drafts = {}
    /\ step = "notifying" => \A e \in batch : IsNext(e) => e.kind = "cancelled"
    /\ \A r \in drafts : Ev("triage", r) \in handled
    /\ \A r \in Run : /\ proposals[r] <= 1
                      /\ proposals[r] = 1 => Ev("triage", r) \in published

\* Only one event comes next.
LEMMA NextIsUnique ==
  ASSUME TypeOK, NEW e \in batch, NEW f \in batch, IsNext(e), IsNext(f)
  PROVE  e = f
  <1>1. e \in Event /\ f \in Event
    BY DEF TypeOK
  <1>2. Rank(e.kind) \in Nat /\ Rank(f.kind) \in Nat
    BY <1>1 DEF Rank, Event, Kind
  <1>3. Id[e] \in Nat /\ Id[f] \in Nat
    BY <1>1, DispatchAssumption
  <1>4. Id[e] = Id[f]
    BY <1>2, <1>3 DEF IsNext
  <1> QED
    BY <1>1, <1>4, DispatchAssumption

\* A transaction that only asks for events disturbs nothing of it.
LEMMA OutboxFrame ==
  ASSUME OutboxInv, pending \subseteq pending', pending' \cap published = {},
         UNCHANGED <<published, proposals, publisherVars>>
  PROVE  OutboxInv'
  BY DEF OutboxInv, publisherVars, IsNext

\* A request adds events that are not published yet, and takes none away.
LEMMA RequestFrame ==
  ASSUME OutboxInv, NEW r, NEW kinds, Request(kinds, r)
  PROVE  pending \subseteq pending' /\ pending' \cap published = {}
  BY DEF OutboxInv, Request

\* A rollback leaves nothing of the transaction.
LEMMA RollbackFrame ==
  ASSUME OutboxInv, Rollback
  PROVE  OutboxInv'
  BY DEF OutboxInv, Rollback

\* The publisher starts with nothing in hand.
LEMMA OutboxInit == Init => OutboxInv
  BY DEF Init, OutboxInv

\* No step, redelivery and rollback included, marks an event twice or drafts
\* a proposal without its mark.
LEMMA OutboxNext == TypeInv /\ OutboxInv /\ [Next]_vars => OutboxInv'
  <1> SUFFICES ASSUME TypeInv, OutboxInv, [Next]_vars PROVE OutboxInv'
    OBVIOUS
  <1> USE DEF outboxVars
  <1>1. CASE UNCHANGED <<outboxVars, publisherVars>>
    BY <1>1, OutboxFrame DEF OutboxInv
  <1>2. ASSUME NEW r \in Run,
               CreateRun(r) \/ WriteCancel(r) \/ WriteResult(r)
        PROVE  OutboxInv'
    <2>1. UNCHANGED <<published, proposals, publisherVars>>
      BY <1>2 DEF CreateRun, WriteCancel, WriteResult
    <2>2. UNCHANGED pending \/ \E kinds : Request(kinds, r)
      BY <1>2 DEF CreateRun, WriteCancel, WriteResult
    <2> QED
      BY <2>1, <2>2, RequestFrame, OutboxFrame DEF OutboxInv
  <1>3. ASSUME NEW t \in Thread, ReadForRecord(t) \/ SaveResult(t)
        PROVE  OutboxInv'
    <2>1. UNCHANGED <<published, proposals, publisherVars>>
      BY <1>3 DEF ReadForRecord, SaveResult
    <2>2. UNCHANGED pending \/ \E r, kinds : Request(kinds, r)
      BY <1>3 DEF ReadForRecord, SaveResult
    <2> QED
      BY <2>1, <2>2, RequestFrame, OutboxFrame DEF OutboxInv
  <1>4. CASE TakeBatch
    <2>1. batch' \subseteq pending
      BY <1>4 DEF TakeBatch, Unpublished
    <2> QED
      BY <1>4, <2>1 DEF TakeBatch, OutboxInv
  <1>5. CASE Commit
    <2>1. ASSUME NEW r \in Run
          PROVE  /\ proposals'[r] <= 1
                 /\ proposals'[r] = 1 => Ev("triage", r) \in published'
      <3>1. CASE r \in drafts
        <4>1. Ev("triage", r) \in handled /\ Ev("triage", r) \notin published
          BY <3>1 DEF OutboxInv
        <4>2. proposals[r] = 0
          BY <4>1 DEF OutboxInv, TypeInv, TypeOK
        <4> QED
          BY <1>5, <3>1, <4>1, <4>2 DEF Commit
      <3>2. CASE r \notin drafts
        BY <1>5, <3>2 DEF Commit, OutboxInv
      <3> QED
        BY <3>1, <3>2
    <2> QED
      BY <1>5, <2>1 DEF Commit, OutboxInv
  <1>6. ASSUME NEW e \in batch,
               HandleRequested(e) \/ NotifyWorker(e) \/ HandleTriage(e)
                 \/ HandleReport(e)
        PROVE  OutboxInv'
    <2>1. /\ Mark(e) /\ step' = "handling"
          /\ UNCHANGED <<pending, published, proposals>>
      BY <1>6 DEF HandleRequested, NotifyWorker, HandleTriage, HandleReport
    <2>2. \A r \in drafts' : Ev("triage", r) \in handled'
      <3>1. e.kind = "triage" => e = Ev("triage", e.run)
        BY DEF TypeInv, TypeOK, Event, Ev
      <3>2. drafts' = drafts \/ (e.kind = "triage" /\ drafts' = drafts \cup {e.run})
        BY <1>6 DEF HandleRequested, NotifyWorker, HandleTriage, HandleReport
      <3> QED
        BY <2>1, <3>1, <3>2 DEF OutboxInv, Mark
    <2> QED
      BY <2>1, <2>2 DEF OutboxInv, Mark
  <1>7. ASSUME NEW e \in batch, CancelWorkflow(e) PROVE OutboxInv'
    <2>1. CASE workflow[e.run] = "none"
      BY <1>7, <2>1, RollbackFrame DEF CancelWorkflow
    <2>2. CASE workflow[e.run] # "none"
      <3>1. /\ step' = "notifying" /\ IsNext(e) /\ e.kind = "cancelled"
            /\ UNCHANGED <<pending, published, proposals, batch, handled, drafts>>
        BY <1>7, <2>2 DEF CancelWorkflow
      <3>2. \A f \in batch : IsNext(f) => f.kind = "cancelled"
        BY <3>1, NextIsUnique DEF TypeInv
      <3> QED
        BY <3>1, <3>2 DEF OutboxInv, IsNext
    <2> QED
      BY <2>1, <2>2
  <1>8. CASE PublisherFault \/ CrashWorker
    BY <1>8, RollbackFrame DEF PublisherFault, CrashWorker
  <1>9. CASE UNCHANGED vars
    BY <1>1, <1>9 DEF vars
  <1> QED
    BY <1>1, <1>2, <1>3, <1>4, <1>5, <1>6, <1>7, <1>8, <1>9
    DEF Next, Workflow, Publisher, ThreadStep, ReadForCancel, ReadForResult,
        CloseCancelled, AttemptTimeout, StartAttempt, CheckRun, PostRequest,
        ReceiveResponse, HttpTimeout, CompleteActivity, ActivityFault,
        EndExecution, RestartRunner

-----------------------------------------------------------------------------
(* What steps leave alone, whichever they are.                             *)

\* Threads that go on with what they had: their run, execution and verdict stay,
\* and none reaches a later phase without having been in it or before it.
Waited   == {"waiting", "recording", "saving", "saved"}
Answered == {"recording", "saving", "saved"}

ThreadFrame ==
    \A t \in Thread : Busy(t)' =>
        /\ Busy(t)
        /\ thread'[t].run = thread[t].run
        /\ thread'[t].execution = thread[t].execution
        /\ thread'[t].verdict = thread[t].verdict
        /\ thread'[t].phase \in Waited => thread[t].phase \in Waited
        /\ thread'[t].phase \in Answered => thread[t].phase \in Answered

\* A thread that ends leaves the others as they are.
LEMMA EndAttemptFrame ==
  ASSUME TypeOK, NEW t \in Thread, NEW outcome, EndAttempt(t, outcome)
  PROVE  ThreadFrame
  BY DEF EndAttempt, ThreadFrame, TypeOK, Busy

\* A thread that goes on keeps its run, its execution and its verdict.
LEMMA GotoFrame ==
  ASSUME TypeOK, NEW t \in Thread, Busy(t), NEW p, Goto(t, p),
         p = "posting" \/ (p \in Answered /\ thread[t].phase \in Answered)
  PROVE  ThreadFrame
  <1>1. thread' = [thread EXCEPT ![t] = [thread[t] EXCEPT !.phase = p]]
    BY DEF Goto
  <1>2. thread[t] \in Activity
    BY BusyType
  <1>3. \A u \in Thread : u # t => thread'[u] = thread[u]
    BY <1>1 DEF TypeOK
  <1>4. /\ thread'[t].phase = p
        /\ thread'[t].run = thread[t].run
        /\ thread'[t].execution = thread[t].execution
        /\ thread'[t].verdict = thread[t].verdict
    BY <1>1, <1>2 DEF TypeOK, Activity
  <1>5. "posting" \notin Waited /\ "posting" \notin Answered /\ Answered \subseteq Waited
    BY DEF Waited, Answered
  <1> QED
    BY <1>3, <1>4, <1>5 DEF ThreadFrame, Busy

\* An abandoned thread keeps what it has; it is only not waited for any more.
LEMMA AbandonFrame ==
  ASSUME TypeOK, NEW r \in Run, Abandon(r)
  PROVE  ThreadFrame
  <1>1. ASSUME NEW t \in Thread, Busy(t)
        PROVE  /\ [thread[t] EXCEPT !.live = FALSE].phase = thread[t].phase
               /\ [thread[t] EXCEPT !.live = FALSE].run = thread[t].run
               /\ [thread[t] EXCEPT !.live = FALSE].execution = thread[t].execution
               /\ [thread[t] EXCEPT !.live = FALSE].verdict = thread[t].verdict
    BY <1>1, BusyType DEF Activity
  <1>2. ASSUME NEW t \in Thread
        PROVE  thread'[t] = thread[t]
               \/ (Busy(t) /\ thread'[t] = [thread[t] EXCEPT !.live = FALSE])
    BY DEF Abandon
  <1> QED
    BY <1>1, <1>2 DEF ThreadFrame, Busy

\* A thread gets a run, an execution or an answer in one of three actions only.
LEMMA ThreadsMove ==
  ASSUME TypeInv, [Next]_vars
  PROVE  \/ ThreadFrame
         \/ \E t \in Thread : \/ \E r \in Run : StartAttempt(t, r)
                              \/ PostRequest(t) /\ ~EndAttempt(t, "retry")
                              \/ ReceiveResponse(t) /\ ~EndAttempt(t, "retry")
  <1> USE DEF TypeInv
  <1>1. CASE UNCHANGED thread
    BY <1>1 DEF ThreadFrame, Busy
  <1>2. ASSUME NEW r \in Run, CloseCancelled(r) \/ AttemptTimeout(r)
        PROVE  ThreadFrame
    BY <1>2, AbandonFrame DEF CloseCancelled, AttemptTimeout
  <1>3. ASSUME NEW t \in Thread, CheckRun(t)
        PROVE  ThreadFrame
    BY <1>3, PhaseBusy, EndAttemptFrame, GotoFrame DEF CheckRun
  <1>4. ASSUME NEW t \in Thread,
               HttpTimeout(t) \/ CompleteActivity(t) \/ ActivityFault(t)
        PROVE  ThreadFrame
    BY <1>4, EndAttemptFrame DEF HttpTimeout, CompleteActivity, ActivityFault
  <1>5. ASSUME NEW t \in Thread, ReadForRecord(t) \/ SaveResult(t)
        PROVE  ThreadFrame
    <2>1. Busy(t) /\ thread[t].phase \in Answered
      BY <1>5, PhaseBusy DEF ReadForRecord, SaveResult, Answered
    <2>2. \/ \E outcome : EndAttempt(t, outcome)
          \/ \E p \in Answered : Goto(t, p)
      BY <1>5 DEF ReadForRecord, SaveResult, Answered
    <2> QED
      BY <2>1, <2>2, EndAttemptFrame, GotoFrame
  <1>6. CASE CrashWorker
    BY <1>6 DEF CrashWorker, ThreadFrame, Busy
  <1>7. ASSUME NEW t \in Thread, PostRequest(t) \/ ReceiveResponse(t),
               EndAttempt(t, "retry")
        PROVE  ThreadFrame
    BY <1>7, EndAttemptFrame
  <1>8. CASE UNCHANGED vars
    BY <1>1, <1>8 DEF vars
  <1> QED
    BY <1>1, <1>2, <1>3, <1>4, <1>5, <1>6, <1>7, <1>8
    DEF Next, Workflow, Publisher, ThreadStep, CreateRun, ReadForCancel,
        WriteCancel, ReadForResult, WriteResult, TakeBatch, Commit,
        HandleRequested, CancelWorkflow, NotifyWorker, HandleTriage, HandleReport,
        PublisherFault, EndExecution, RestartRunner

\* Runs are written by four actions only; in any other step the table and the
\* events asked for so far stay, except that an activity may ask again.
LEMMA RunsMove ==
  ASSUME TypeInv, OutboxInv, [Next]_vars
  PROVE  \/ UNCHANGED dbVars /\ pending' \cup published' = pending \cup published
         \/ \E r \in Run : CreateRun(r) \/ WriteCancel(r) \/ WriteResult(r)
         \/ \E t \in Thread : ReadForRecord(t) \/ SaveResult(t)
  <1> USE DEF outboxVars
  <1>1. CASE UNCHANGED <<dbVars, pending, published>>
    BY <1>1
  <1>2. CASE Commit
    BY <1>2 DEF Commit, OutboxInv
  <1>3. CASE UNCHANGED vars
    BY <1>1, <1>3 DEF vars
  <1> QED
    BY <1>1, <1>2, <1>3
    DEF Next, Workflow, Publisher, ThreadStep, ReadForCancel, ReadForResult,
        CloseCancelled, AttemptTimeout, StartAttempt, TakeBatch, HandleRequested,
        CancelWorkflow, NotifyWorker, HandleTriage, HandleReport, PublisherFault,
        Rollback, CheckRun, PostRequest, ReceiveResponse, HttpTimeout,
        CompleteActivity, ActivityFault, EndExecution, RestartRunner, CrashWorker

-----------------------------------------------------------------------------
(* Workflows and their threads.                                            *)

\* Whatever a thread executes, its run has had a workflow.
WorkflowInv == \A t \in Thread : Busy(t) => workflow[thread[t].run] # "none"

\* A workflow is opened by its run's request, and stays once it is stopped.
WorkflowFrame ==
    \A r \in Run :
        \/ \E e \in batch : e = Ev("requested", r) /\ HandleRequested(e)
        \/ /\ workflow'[r] = "none" <=> workflow[r] = "none"
           /\ workflow[r] \in {"cancelling", "closed"} =>
                workflow'[r] \in {"cancelling", "closed"}

\* Closing or retrying does not undo the start of a workflow, nor its stop.
LEMMA CloseFrame ==
  ASSUME TypeInv, NEW q \in Run, workflow[q] # "none",
         Close(q) \/ RetryOrClose(q)
  PROVE  WorkflowFrame
  <1>1. workflow' = workflow \/ workflow' = [workflow EXCEPT ![q] = "closed"]
    BY DEF Close, RetryOrClose
  <1> QED
    BY <1>1 DEF WorkflowFrame, TypeInv, TypeOK

\* The end of an attempt does not either.
LEMMA EndAttemptWorkflow ==
  ASSUME TypeInv, WorkflowInv, NEW t \in Thread, Busy(t), NEW outcome,
         EndAttempt(t, outcome)
  PROVE  WorkflowFrame
  <1>1. CASE UNCHANGED workflow
    BY <1>1 DEF WorkflowFrame
  <1>2. thread[t].run \in Run /\ workflow[thread[t].run] # "none"
    BY BusyType DEF TypeInv, WorkflowInv
  <1> QED
    BY <1>1, <1>2, CloseFrame DEF EndAttempt

\* Of all steps only a handled request opens a workflow.
LEMMA WorkflowsMove ==
  ASSUME TypeInv, WorkflowInv, [Next]_vars
  PROVE  WorkflowFrame
  <1>1. CASE UNCHANGED workflow
    BY <1>1 DEF WorkflowFrame
  <1>2. ASSUME NEW r \in Run, CloseCancelled(r) \/ AttemptTimeout(r)
        PROVE  WorkflowFrame
    BY <1>2, CloseFrame DEF CloseCancelled, AttemptTimeout, Open
  <1>3. ASSUME NEW e \in batch, HandleRequested(e) PROVE WorkflowFrame
    <2>1. e = Ev("requested", e.run) /\ e.run \in Run
      BY <1>3 DEF HandleRequested, TypeInv, TypeOK, Event, Ev
    <2>2. \A r \in Run : r # e.run => workflow'[r] = workflow[r]
      BY <1>3 DEF HandleRequested, TypeInv, TypeOK, workflowVars
    <2> QED
      BY <1>3, <2>1, <2>2 DEF WorkflowFrame
  <1>4. ASSUME NEW e \in batch, CancelWorkflow(e) PROVE WorkflowFrame
    <2>1. e.run \in Run
      BY DEF TypeInv, TypeOK, Event
    <2>2. CASE workflow[e.run] = "none"
      BY <1>1, <1>4, <2>2 DEF CancelWorkflow
    <2>3. CASE workflow[e.run] # "none"
      <3>1. workflow' = [workflow EXCEPT ![e.run] =
                           IF @ = "open" THEN "cancelling" ELSE @]
        BY <1>4, <2>3 DEF CancelWorkflow
      <3> QED
        BY <2>1, <2>3, <3>1 DEF WorkflowFrame, TypeInv, TypeOK
    <2> QED
      BY <2>2, <2>3
  <1>5. ASSUME NEW t \in Thread, ThreadStep(t) \/ ActivityFault(t)
        PROVE  WorkflowFrame
    <2>1. Busy(t)
      BY <1>5, PhaseBusy
      DEF ThreadStep, CheckRun, PostRequest, ReceiveResponse, HttpTimeout,
          ReadForRecord, SaveResult, CompleteActivity, ActivityFault
    <2>2. UNCHANGED workflow \/ \E outcome : EndAttempt(t, outcome)
      BY <1>5
      DEF ThreadStep, CheckRun, PostRequest, ReceiveResponse, HttpTimeout,
          ReadForRecord, SaveResult, CompleteActivity, ActivityFault, workflowVars
    <2> QED
      BY <1>1, <2>1, <2>2, EndAttemptWorkflow
  <1>6. CASE UNCHANGED vars
    BY <1>1, <1>6 DEF vars, workflowVars
  <1> QED
    BY <1>1, <1>2, <1>3, <1>4, <1>5, <1>6
    DEF Next, Workflow, Publisher, CreateRun, ReadForCancel, WriteCancel,
        ReadForResult, WriteResult, StartAttempt, TakeBatch, Commit, NotifyWorker,
        HandleTriage, HandleReport, PublisherFault, EndExecution, RestartRunner,
        CrashWorker, workflowVars

\* No step takes a workflow back to where it never was.
LEMMA WorkflowStays ==
  ASSUME TypeInv, WorkflowInv, [Next]_vars, NEW r \in Run, workflow[r] # "none"
  PROVE  workflow'[r] # "none"
  <1>1. ASSUME NEW e \in batch, e = Ev("requested", r), HandleRequested(e)
        PROVE  workflow'[r] # "none"
    <2>1. e.run = r
      BY <1>1 DEF Ev
    <2> QED
      BY <1>1, <2>1 DEF HandleRequested, TypeInv, TypeOK, workflowVars
  <1> QED
    BY <1>1, WorkflowsMove DEF WorkflowFrame

\* No thread is at work in the beginning.
LEMMA WorkflowInit == Init => WorkflowInv
  BY DEF Init, WorkflowInv, Busy

\* A thread takes runs only from open workflows.
LEMMA WorkflowNext == TypeInv /\ WorkflowInv /\ [Next]_vars => WorkflowInv'
  <1> SUFFICES ASSUME TypeInv, WorkflowInv, [Next]_vars,
                      NEW t \in Thread, Busy(t)'
               PROVE  workflow'[thread'[t].run] # "none"
    BY DEF WorkflowInv
  <1>1. CASE Busy(t) /\ thread'[t].run = thread[t].run
    BY <1>1, BusyType, WorkflowStays DEF WorkflowInv, TypeInv
  <1>2. CASE ThreadFrame
    BY <1>1, <1>2 DEF ThreadFrame
  <1>3. ASSUME NEW u \in Thread, NEW r \in Run, StartAttempt(u, r)
        PROVE  workflow'[thread'[t].run] # "none"
    <2>1. CASE t = u
      BY <1>3, <2>1 DEF StartAttempt, Open, TypeInv, TypeOK
    <2>2. CASE t # u
      BY <1>1, <1>3, <2>2 DEF StartAttempt, TypeInv, TypeOK, Busy
    <2> QED
      BY <2>1, <2>2
  <1>4. ASSUME NEW u \in Thread, PostRequest(u) \/ ReceiveResponse(u),
               ~EndAttempt(u, "retry")
        PROVE  Busy(t) /\ thread'[t].run = thread[t].run
    <2>1. Busy(u) /\ thread[u] \in Activity
      BY <1>4, PhaseBusy, BusyType DEF PostRequest, ReceiveResponse, TypeInv
    <2>2. \A s \in Thread : s # u => thread'[s] = thread[s]
      BY <1>4 DEF PostRequest, ReceiveResponse, TypeInv, TypeOK
    <2>3. thread'[u].run = thread[u].run
      BY <1>4, <2>1 DEF PostRequest, ReceiveResponse, TypeInv, TypeOK, Activity
    <2> QED
      BY <2>1, <2>2, <2>3 DEF Busy
  <1> QED
    BY <1>1, <1>2, <1>3, <1>4, ThreadsMove

-----------------------------------------------------------------------------
(* Executions and those who know of them.                                  *)

\* The worker's map points to executions of the run that still go on.
ActiveInv ==
    \A r \in Run : active[r] # 0 =>
        /\ active[r] \in DOMAIN executions
        /\ executions[active[r]].run = r
        /\ executions[active[r]].state \in {"running", "aborting"}

\* A thread waits for an execution of its run, and has the verdict of that one.
WaitInv ==
    \A t \in Thread : thread[t].phase \in Waited =>
        /\ thread[t].execution \in DOMAIN executions
        /\ executions[thread[t].execution].run = thread[t].run
        /\ thread[t].phase \in Answered =>
              executions[thread[t].execution].state = thread[t].verdict

\* Executions stay what they are of, and those that ended as they ended.
ExecutionFrame ==
    \A i \in DOMAIN executions :
        /\ i \in DOMAIN executions'
        /\ executions'[i].run = executions[i].run
        /\ executions[i].state \in Verdicts => executions'[i] = executions[i]

\* No step changes what an execution is of, or how it ended.
LEMMA ExecutionsMove ==
  ASSUME TypeInv, ActiveInv, [Next]_vars
  PROVE  ExecutionFrame
  <1> USE DEF TypeInv
  <1>1. CASE UNCHANGED executions
    BY <1>1 DEF ExecutionFrame
  <1>2. ASSUME NEW e \in batch, NotifyWorker(e) PROVE ExecutionFrame
    <2>1. e.run \in Run
      BY DEF TypeOK, Event
    <2>2. CASE active[e.run] = 0
      BY <1>1, <1>2, <2>2 DEF NotifyWorker
    <2>3. CASE active[e.run] # 0
      <3>1. executions' = [executions EXCEPT ![active[e.run]].state = "aborting"]
        BY <1>2, <2>3 DEF NotifyWorker
      <3>2. executions[active[e.run]].state \notin Verdicts
        BY <2>1, <2>3 DEF ActiveInv, Verdicts
      <3> QED
        BY <3>1, <3>2, ChangeState DEF ExecutionFrame
    <2> QED
      BY <2>2, <2>3
  <1>3. ASSUME NEW t \in Thread, PostRequest(t) PROVE ExecutionFrame
    <2>1. thread[t].run \in Run
      BY <1>3, PhaseBusy, BusyType DEF PostRequest
    <2> QED
      BY <1>1, <1>3, <2>1, BeginExecution
      DEF PostRequest, ExecutionFrame, runnerVars
  <1>4. ASSUME NEW i \in DOMAIN executions, EndExecution(i) PROVE ExecutionFrame
    <2>1. executions[i].state \notin Verdicts
      BY <1>4 DEF EndExecution, Verdicts
    <2>2. \E s \in {"raised"} \cup Verdicts :
             executions' = [executions EXCEPT ![i].state = s]
      BY <1>4 DEF EndExecution
    <2> QED
      BY <2>1, <2>2, ChangeState DEF ExecutionFrame
  <1>5. CASE RestartRunner
    BY <1>5, RestartExecutions DEF ExecutionFrame
  <1>6. CASE UNCHANGED vars
    BY <1>1, <1>6 DEF vars, runnerVars
  <1> QED
    BY <1>1, <1>2, <1>3, <1>4, <1>5, <1>6
    DEF Next, Workflow, Publisher, ThreadStep, CreateRun, ReadForCancel,
        WriteCancel, ReadForResult, WriteResult, CloseCancelled, AttemptTimeout,
        StartAttempt, TakeBatch, Commit, HandleRequested, CancelWorkflow,
        HandleTriage, HandleReport, PublisherFault, CheckRun, ReceiveResponse,
        HttpTimeout, ReadForRecord, SaveResult, CompleteActivity, ActivityFault,
        CrashWorker, runnerVars

\* The Playwright worker starts empty, and nobody waits for it.
LEMMA ActiveInit == Init => ActiveInv /\ WaitInv
  BY DEF Init, ActiveInv, WaitInv, Idle, Waited

\* An execution that ends, or is replaced, leaves the worker's map.
LEMMA ActiveNext == TypeInv /\ ActiveInv /\ [Next]_vars => ActiveInv'
  <1> SUFFICES ASSUME TypeInv, ActiveInv, [Next]_vars PROVE ActiveInv'
    OBVIOUS
  <1> USE DEF TypeInv, runnerVars
  <1>1. CASE UNCHANGED <<executions, active>>
    BY <1>1 DEF ActiveInv
  <1>2. ASSUME NEW e \in batch, NotifyWorker(e) PROVE ActiveInv'
    <2>1. CASE active[e.run] = 0
      BY <1>1, <1>2, <2>1 DEF NotifyWorker
    <2>2. CASE active[e.run] # 0
      <3>1. executions' = [executions EXCEPT ![active[e.run]].state = "aborting"]
        BY <1>2, <2>2 DEF NotifyWorker
      <3>2. UNCHANGED active
        BY <1>2 DEF NotifyWorker
      <3> QED
        BY <3>1, <3>2, ChangeState DEF ActiveInv
    <2> QED
      BY <2>1, <2>2
  <1>3. ASSUME NEW t \in Thread, PostRequest(t), ~UNCHANGED <<executions, active>>
        PROVE  ActiveInv'
    <2> DEFINE i == Len(executions) + 1
    <2>1. thread[t].run \in Run
      BY <1>3, PhaseBusy, BusyType DEF PostRequest
    <2>2. /\ executions' = Append(executions, [run |-> thread[t].run,
                                               state |-> "running"])
          /\ active' = [active EXCEPT ![thread[t].run] = i]
      BY <1>3 DEF PostRequest
    <2>3. /\ i \in DOMAIN executions'
          /\ executions'[i] = [run |-> thread[t].run, state |-> "running"]
          /\ \A j \in DOMAIN executions : j \in DOMAIN executions'
                                          /\ executions'[j] = executions[j]
      BY <2>1, <2>2, BeginExecution
    <2>4. /\ executions'[i].run = thread[t].run
          /\ executions'[i].state = "running"
      BY <2>3
    <2> HIDE DEF i
    <2>5. \A r \in Run : active'[r] = IF r = thread[t].run THEN i ELSE active[r]
      BY <2>1, <2>2 DEF TypeOK
    <2> QED
      BY <2>3, <2>4, <2>5 DEF ActiveInv
  <1>4. ASSUME NEW i \in DOMAIN executions, EndExecution(i) PROVE ActiveInv'
    <2>1. \E s \in {"raised"} \cup Verdicts :
             executions' = [executions EXCEPT ![i].state = s]
      BY <1>4 DEF EndExecution
    <2>2. executions[i].run \in Run
      BY ExecutionsDomain DEF Execution
    <2>3. \A r \in Run : active'[r] = IF r = executions[i].run THEN 0 ELSE active[r]
      BY <1>4, <2>2 DEF EndExecution, TypeOK
    <2> QED
      BY <2>1, <2>3, ChangeState DEF ActiveInv
  <1>5. CASE RestartRunner
    BY <1>5 DEF RestartRunner, ActiveInv
  <1>6. CASE UNCHANGED vars
    BY <1>1, <1>6 DEF vars
  <1> QED
    BY <1>1, <1>2, <1>3, <1>4, <1>5, <1>6
    DEF Next, Workflow, Publisher, ThreadStep, CreateRun, ReadForCancel,
        WriteCancel, ReadForResult, WriteResult, CloseCancelled, AttemptTimeout,
        StartAttempt, TakeBatch, Commit, HandleRequested, CancelWorkflow,
        HandleTriage, HandleReport, PublisherFault, CheckRun, ReceiveResponse,
        HttpTimeout, ReadForRecord, SaveResult, CompleteActivity, ActivityFault,
        CrashWorker

\* A thread never gets hold of an execution, or an answer, of another run.
LEMMA WaitNext == TypeInv /\ ActiveInv /\ WaitInv /\ [Next]_vars => WaitInv'
  <1> SUFFICES ASSUME TypeInv, ActiveInv, WaitInv, [Next]_vars PROVE WaitInv'
    OBVIOUS
  <1> USE DEF TypeInv
  <1>1. ExecutionFrame
    BY ExecutionsMove
  <1> DEFINE Waits(t) ==
        thread'[t].phase \in Waited =>
          /\ thread'[t].execution \in DOMAIN executions'
          /\ executions'[thread'[t].execution].run = thread'[t].run
          /\ thread'[t].phase \in Answered =>
               executions'[thread'[t].execution].state = thread'[t].verdict
  <1>2. ASSUME NEW t \in Thread, thread'[t] = thread[t] PROVE Waits(t)
    <2>1. thread[t].phase \in Answered => thread[t].verdict \in Verdicts
      BY DEF AnswerInv, Answered
    <2> QED
      BY <1>1, <1>2, <2>1 DEF WaitInv, ExecutionFrame
  <1>3. ASSUME ThreadFrame, NEW t \in Thread PROVE Waits(t)
    <2>1. CASE ~Busy(t)'
      BY <2>1 DEF Busy, Idle, Waited
    <2>2. CASE Busy(t)'
      <3>1. thread[t].phase \in Answered => thread[t].verdict \in Verdicts
        BY DEF AnswerInv, Answered
      <3> QED
        BY <1>1, <1>3, <2>2, <3>1 DEF WaitInv, ExecutionFrame, ThreadFrame
    <2> QED
      BY <2>1, <2>2
  <1>4. ASSUME NEW u \in Thread, NEW r \in Run, StartAttempt(u, r), NEW t \in Thread
        PROVE  Waits(t)
    <2>1. CASE t = u
      BY <1>4, <2>1 DEF StartAttempt, TypeOK, Waited
    <2>2. CASE t # u
      BY <1>2, <1>4, <2>2 DEF StartAttempt, TypeOK
    <2> QED
      BY <2>1, <2>2
  <1>5. ASSUME NEW u \in Thread, PostRequest(u), ~EndAttempt(u, "retry"),
               NEW t \in Thread
        PROVE  Waits(t)
    <2> DEFINE i == Len(executions) + 1
    <2>1. thread[u] \in Activity /\ thread[u].run \in Run
      BY <1>5, PhaseBusy, BusyType DEF PostRequest
    <2>2. /\ executions' = Append(executions, [run |-> thread[u].run,
                                               state |-> "running"])
          /\ thread' = [thread EXCEPT ![u].phase = "waiting", ![u].execution = i]
      BY <1>5 DEF PostRequest
    <2>3. i \in DOMAIN executions' /\ executions'[i].run = thread[u].run
      BY <2>1, <2>2, BeginExecution
    <2> HIDE DEF i
    <2>4. CASE t = u
      <3>1. /\ thread'[t].phase = "waiting"
            /\ thread'[t].execution = i
            /\ thread'[t].run = thread[t].run
        BY <2>1, <2>2, <2>4 DEF TypeOK, Activity
      <3> QED
        BY <2>3, <2>4, <3>1 DEF Answered
    <2>5. CASE t # u
      BY <1>2, <2>2, <2>5 DEF TypeOK
    <2> QED
      BY <2>4, <2>5
  <1>6. ASSUME NEW u \in Thread, ReceiveResponse(u), ~EndAttempt(u, "retry"),
               NEW t \in Thread
        PROVE  Waits(t)
    <2> DEFINE v == executions[thread[u].execution].state
    <2>1. /\ thread[u] \in Activity
          /\ thread[u].phase = "waiting" /\ thread[u].phase \in Waited
      BY <1>6, PhaseBusy, BusyType DEF ReceiveResponse, Waited
    <2>2. /\ thread' = [thread EXCEPT ![u].phase = "recording", ![u].verdict = v]
          /\ executions' = executions
      BY <1>6 DEF ReceiveResponse, runnerVars
    <2>3. /\ thread[u].execution \in DOMAIN executions
          /\ executions[thread[u].execution].run = thread[u].run
      BY <2>1 DEF WaitInv
    <2>4. CASE t = u
      <3>1. /\ thread'[t].execution = thread[u].execution
            /\ thread'[t].run = thread[u].run
            /\ thread'[t].verdict = v
        <4> HIDE DEF v
        <4> QED
          BY <2>1, <2>2, <2>4 DEF TypeOK, Activity
      <3> QED
        BY <2>2, <2>3, <3>1
    <2>5. CASE t # u
      BY <1>2, <2>2, <2>5 DEF TypeOK
    <2> QED
      BY <2>4, <2>5
  <1>7. ASSUME NEW t \in Thread PROVE Waits(t)
    BY <1>3, <1>4, <1>5, <1>6, ThreadsMove
  <1> QED
    BY <1>7 DEF WaitInv

-----------------------------------------------------------------------------
(* Runs, their verdicts and their events.                                  *)

\* The version tells whether the run is finished; nobody works on, or asks
\* anything of, a run that was not created.
VersionInv ==
    \A r \in Run :
        /\ status[r] \in Terminal <=> version[r] = 2
        /\ r \in cancelling \cup posting \/ workflow[r] # "none" =>
              status[r] # "absent"

\* A verdict is there exactly when the status says so, and is the one that the
\* execution it is recorded for ended with.
ResultInv ==
    \A r \in Run :
        /\ result[r].verdict # "none" => status[r] = result[r].verdict
        /\ status[r] \in Verdicts => result[r].verdict = status[r]
        /\ result[r].by # 0 =>
              /\ result[r].by \in DOMAIN executions
              /\ executions[result[r].by] = [run |-> r, state |-> status[r]]

RunInv == VersionInv /\ ResultInv /\ OutboxTellsRun

\* All that the steps of the runs rely on.
Context == TypeInv /\ OutboxInv /\ WorkflowInv /\ ActiveInv /\ WaitInv

\* There are no runs and no events in the beginning.
LEMMA RunInit == Init => RunInv
  BY DEF Init, RunInv, VersionInv, ResultInv, OutboxTellsRun, NoResult, Terminal,
         Verdicts

\* No request, workflow or execution appears for a run that is not there.
LEMMA RequestsMove ==
  ASSUME Context, RunInv, [Next]_vars, NEW r \in Run,
         r \in cancelling' \cup posting' \/ workflow'[r] # "none"
  PROVE  status[r] # "absent"
  <1> USE DEF Context
  <1>1. CASE r \in cancelling' \cup posting'
    <2>1. CASE r \in cancelling \cup posting
      BY <2>1 DEF RunInv, VersionInv
    <2>2. CASE r \notin cancelling \cup posting
      <3>1. ReadForCancel(r) \/ ReadForResult(r)
        BY <1>1, <2>2
        DEF Next, Workflow, Publisher, ThreadStep, CreateRun, ReadForCancel,
            WriteCancel, ReadForResult, WriteResult, CloseCancelled, AttemptTimeout,
            StartAttempt, TakeBatch, Commit, HandleRequested, CancelWorkflow,
            NotifyWorker, HandleTriage, HandleReport, PublisherFault, CheckRun,
            PostRequest, ReceiveResponse, HttpTimeout, ReadForRecord, SaveResult,
            CompleteActivity, ActivityFault, EndExecution, RestartRunner,
            CrashWorker, vars, apiVars
      <3> QED
        BY <3>1 DEF ReadForCancel, ReadForResult
    <2> QED
      BY <2>1, <2>2
  <1>2. CASE workflow'[r] # "none"
    <2>1. CASE workflow[r] # "none"
      BY <2>1 DEF RunInv, VersionInv
    <2>2. CASE Ev("requested", r) \in batch
      BY <2>2 DEF OutboxInv, RunInv, OutboxTellsRun
    <2> QED
      BY <1>2, <2>1, <2>2, WorkflowsMove DEF WorkflowFrame
  <1> QED
    BY <1>1, <1>2

\* A transaction asks for exactly the kinds it names, of the run it names.
LEMMA RequestAsks ==
  ASSUME NEW r, NEW kinds, Request(kinds, r), UNCHANGED published, NEW k, NEW q
  PROVE  Ev(k, q) \in pending' \cup published' <=>
           Ev(k, q) \in pending \cup published \/ (q = r /\ k \in kinds)
  <1>1. \A x : Ev(k, q) = Ev(x, r) <=> k = x /\ q = r
    BY DEF Ev
  <1> QED
    BY <1>1 DEF Request

\* A run that gets its last status, and the events that tell of it.
LEMMA UpdateKeeps ==
  ASSUME Context, RunInv, [Next]_vars,
         NEW r \in Run, NEW s \in Terminal, NEW res, NEW kinds,
         Update(r, s, res), VersionMatches(r), status[r] # "absent",
         Request(kinds, r), UNCHANGED published,
         \/ s = "cancelled" /\ res = NoResult /\ kinds = {"cancelled"}
         \/ /\ s \in Verdicts /\ res.verdict = s
            /\ kinds = TriageOf(s) \/ kinds = FollowUps(s)
            /\ res.by # 0 => /\ res.by \in DOMAIN executions
                             /\ executions[res.by] = [run |-> r, state |-> s]
  PROVE  RunInv'
  <1> USE DEF Context, TypeInv
  <1>1. /\ \A q \in Run : status'[q] = IF q = r THEN s ELSE status[q]
        /\ \A q \in Run : version'[q] = IF q = r THEN 2 ELSE version[q]
        /\ \A q \in Run : result'[q] = IF q = r THEN res ELSE result[q]
    BY DEF Update, VersionMatches, TypeOK
  <1>2. VersionInv'
    <2>1. s # "absent"
      BY DEF Terminal, Verdicts
    <2> QED
      BY <1>1, <2>1, RequestsMove DEF RunInv, VersionInv
  <1>3. ResultInv'
    <2>1. ExecutionFrame
      BY ExecutionsMove
    <2>2. ASSUME NEW q \in Run, q # r
          PROVE  result[q].by # 0 =>
                   /\ result[q].by \in DOMAIN executions'
                   /\ executions'[result[q].by] = [run |-> q, state |-> status[q]]
      <3> SUFFICES ASSUME result[q].by # 0
                   PROVE  /\ result[q].by \in DOMAIN executions'
                          /\ executions'[result[q].by] =
                               [run |-> q, state |-> status[q]]
        OBVIOUS
      <3>1. /\ result[q].by \in DOMAIN executions
            /\ executions[result[q].by] = [run |-> q, state |-> status[q]]
        BY DEF RunInv, ResultInv
      <3>2. executions[result[q].by] \in Execution
        BY <3>1, ExecutionsDomain
      <3>3. status[q] \in Verdicts
        <4>1. executions[result[q].by].state = status[q]
          BY <3>1
        <4>2. status[q] \in {"running", "aborting", "raised"} \cup Verdicts
          BY <3>2, <4>1 DEF Execution
        <4> QED
          BY <4>2 DEF TypeOK, Terminal, Verdicts
      <3>4. executions[result[q].by].state \in Verdicts
        BY <3>1, <3>3
      <3> QED
        BY <2>1, <3>1, <3>4 DEF ExecutionFrame
    <2>3. res.by # 0 => /\ res.by \in DOMAIN executions'
                        /\ executions'[res.by] = [run |-> r, state |-> s]
      <3>1. CASE s = "cancelled" /\ res = NoResult
        BY <3>1 DEF NoResult
      <3>2. CASE /\ s \in Verdicts
                 /\ res.by # 0 => /\ res.by \in DOMAIN executions
                                  /\ executions[res.by] = [run |-> r, state |-> s]
        BY <2>1, <3>2 DEF ExecutionFrame
      <3> QED
        BY <3>1, <3>2
    <2>4. /\ res.verdict # "none" => s = res.verdict
          /\ s \in Verdicts => res.verdict = s
      BY DEF NoResult, Verdicts
    <2> QED
      BY <1>1, <2>2, <2>3, <2>4 DEF RunInv, ResultInv
  <1>4. OutboxTellsRun'
    <2> DEFINE Asked(k, q) == Ev(k, q) \in pending \cup published
    <2>1. \A k, q : Asked(k, q)' <=> Asked(k, q) \/ (q = r /\ k \in kinds)
      BY RequestAsks
    <2>2. status[r] = "queued"
      BY DEF VersionMatches, RunInv, VersionInv, TypeOK
    <2>3. \A q \in Run : /\ Asked("requested", q) <=> status[q] # "absent"
                         /\ Asked("cancelled", q) <=> status[q] = "cancelled"
                         /\ Asked("triage", q) <=> status[q] = "failed"
                         /\ Asked("report", q) => status[q] \in Verdicts
      BY DEF RunInv, OutboxTellsRun
    <2>4. /\ "requested" \notin kinds
          /\ "cancelled" \in kinds <=> s = "cancelled"
          /\ "triage" \in kinds <=> s = "failed"
          /\ "report" \in kinds => s \in Verdicts
          /\ s # "absent"
      BY DEF TriageOf, FollowUps, Verdicts, Terminal
    <2> HIDE DEF Asked
    <2>5. \A q \in Run : /\ Asked("requested", q)' <=> status'[q] # "absent"
                         /\ Asked("cancelled", q)' <=> status'[q] = "cancelled"
                         /\ Asked("triage", q)' <=> status'[q] = "failed"
                         /\ Asked("report", q)' => status'[q] \in Verdicts
      BY <1>1, <2>1, <2>2, <2>3, <2>4 DEF Verdicts
    <2> QED
      BY <2>5 DEF OutboxTellsRun, Asked
  <1> QED
    BY <1>2, <1>3, <1>4 DEF RunInv

\* A step that leaves the runs alone, and may ask again for what a verdict asks.
LEMMA RunsStay ==
  ASSUME Context, RunInv, [Next]_vars, UNCHANGED dbVars,
         \/ pending' \cup published' = pending \cup published
         \/ \E r \in Run : /\ status[r] \in Verdicts
                           /\ Request(FollowUps(status[r]), r)
                           /\ UNCHANGED published
  PROVE  RunInv'
  <1> USE DEF Context, TypeInv, dbVars
  <1>1. VersionInv'
    BY RequestsMove DEF RunInv, VersionInv
  <1>2. ResultInv'
    <2>1. ExecutionFrame
      BY ExecutionsMove
    <2> SUFFICES ASSUME NEW q \in Run, result[q].by # 0
                 PROVE  /\ result[q].by \in DOMAIN executions'
                        /\ executions'[result[q].by] =
                             [run |-> q, state |-> status[q]]
      BY DEF RunInv, ResultInv
    <2>2. /\ result[q].by \in DOMAIN executions
          /\ executions[result[q].by] = [run |-> q, state |-> status[q]]
      BY DEF RunInv, ResultInv
    <2>3. executions[result[q].by] \in Execution
      BY <2>2, ExecutionsDomain
    <2>4. status[q] \in Verdicts
      <3>1. executions[result[q].by].state = status[q]
        BY <2>2
      <3>2. status[q] \in {"running", "aborting", "raised"} \cup Verdicts
        BY <2>3, <3>1 DEF Execution
      <3> QED
        BY <3>2 DEF TypeOK, Terminal, Verdicts
    <2>5. executions[result[q].by].state \in Verdicts
      BY <2>2, <2>4
    <2> QED
      BY <2>1, <2>2, <2>5 DEF ExecutionFrame
  <1>3. OutboxTellsRun'
    <2>1. CASE pending' \cup published' = pending \cup published
      BY <2>1 DEF RunInv, OutboxTellsRun
    <2>2. ASSUME NEW r \in Run, status[r] \in Verdicts,
                 Request(FollowUps(status[r]), r), UNCHANGED published
          PROVE  OutboxTellsRun'
      <3> DEFINE Asked(k, q) == Ev(k, q) \in pending \cup published
      <3>1. \A k, q : Asked(k, q)' <=>
                        Asked(k, q) \/ (q = r /\ k \in FollowUps(status[r]))
        BY <2>2, RequestAsks
      <3>2. /\ "requested" \notin FollowUps(status[r])
            /\ "cancelled" \notin FollowUps(status[r])
            /\ "triage" \in FollowUps(status[r]) => status[r] = "failed"
        BY DEF TriageOf, FollowUps
      <3> QED
        BY <2>2, <3>1, <3>2 DEF RunInv, OutboxTellsRun
    <2> QED
      BY <2>1, <2>2
  <1> QED
    BY <1>1, <1>2, <1>3 DEF RunInv

\* Every step keeps version, verdict and outbox of each run in agreement.
LEMMA RunNext == Context /\ RunInv /\ [Next]_vars => RunInv'
  <1> SUFFICES ASSUME Context, RunInv, [Next]_vars PROVE RunInv'
    OBVIOUS
  <1> USE DEF Context, TypeInv
  <1>1. CASE UNCHANGED dbVars /\ pending' \cup published' = pending \cup published
    BY <1>1, RunsStay
  <1>2. ASSUME NEW r \in Run, CreateRun(r) PROVE RunInv'
    <2>1. /\ status[r] = "absent" /\ UNCHANGED <<version, result, published>>
          /\ \A q \in Run : status'[q] = IF q = r THEN "queued" ELSE status[q]
      BY <1>2 DEF CreateRun, TypeOK
    <2>2. VersionInv'
      BY <2>1, RequestsMove DEF RunInv, VersionInv, Terminal, Verdicts
    <2>3. ResultInv'
      <3>1. UNCHANGED executions
        BY <1>2 DEF CreateRun, runnerVars
      <3>2. result[r].by = 0 /\ result[r].verdict = "none"
        <4>1. result[r].verdict \in Verdicts \cup {"none"}
          BY DEF TypeOK
        <4>2. result[r].by # 0 => executions[result[r].by] \in Execution
          BY ExecutionsDomain DEF RunInv, ResultInv
        <4>3. [run |-> r, state |-> "absent"] \notin Execution
          BY DEF Execution, Verdicts
        <4> QED
          BY <2>1, <4>1, <4>2, <4>3 DEF RunInv, ResultInv, Verdicts
      <3> QED
        BY <2>1, <3>1, <3>2 DEF RunInv, ResultInv, Verdicts
    <2>4. OutboxTellsRun'
      <3> DEFINE Asked(k, q) == Ev(k, q) \in pending \cup published
      <3>1. \A k, q : Asked(k, q)' <=> Asked(k, q) \/ (q = r /\ k \in {"requested"})
        BY <1>2, <2>1, RequestAsks DEF CreateRun
      <3> QED
        BY <2>1, <3>1 DEF RunInv, OutboxTellsRun, Verdicts
    <2> QED
      BY <2>2, <2>3, <2>4 DEF RunInv
  <1>3. ASSUME NEW r \in Run, WriteCancel(r) PROVE RunInv'
    <2>1. CASE VersionMatches(r)
      <3>1. status[r] # "absent"
        BY <1>3 DEF WriteCancel, RunInv, VersionInv
      <3> QED
        BY <1>3, <2>1, <3>1, UpdateKeeps DEF WriteCancel, Terminal
    <2>2. CASE ~VersionMatches(r)
      BY <1>1, <1>3, <2>2 DEF WriteCancel
    <2> QED
      BY <2>1, <2>2
  <1>4. ASSUME NEW r \in Run, WriteResult(r) PROVE RunInv'
    <2>1. CASE VersionMatches(r)
      <3>1. status[r] # "absent"
        BY <1>4 DEF WriteResult, RunInv, VersionInv
      <3>2. PICK v \in Verdicts :
              \E i \in {0} \cup {j \in DOMAIN executions :
                                   executions[j] = [run |-> r, state |-> v]} :
                 /\ Update(r, v, [by |-> i, verdict |-> v])
                 /\ Request(TriageOf(v), r)
        BY <1>4, <2>1 DEF WriteResult
      <3>3. PICK i \in {0} \cup {j \in DOMAIN executions :
                                   executions[j] = [run |-> r, state |-> v]} :
                 /\ Update(r, v, [by |-> i, verdict |-> v])
                 /\ Request(TriageOf(v), r)
        BY <3>2
      <3> DEFINE res == [by |-> i, verdict |-> v]
      <3>4. res.by = i /\ res.verdict = v
        OBVIOUS
      <3>5. UNCHANGED published
        BY <1>4 DEF WriteResult
      <3> HIDE DEF res
      <3> QED
        BY <2>1, <3>1, <3>3, <3>4, <3>5, UpdateKeeps DEF Terminal, res
    <2>2. CASE ~VersionMatches(r)
      BY <1>1, <1>4, <2>2 DEF WriteResult
    <2> QED
      BY <2>1, <2>2
  <1>5. ASSUME NEW t \in Thread, ReadForRecord(t) PROVE RunInv'
    <2>1. thread[t].run \in Run /\ thread[t].verdict \in Verdicts
      BY <1>5, PhaseBusy, BusyType DEF ReadForRecord, AnswerInv
    <2>2. UNCHANGED <<dbVars, published>>
      BY <1>5 DEF ReadForRecord
    <2>3. CASE UNCHANGED pending
      BY <1>1, <2>2, <2>3
    <2>4. CASE /\ result[thread[t].run] = Own(t)
               /\ Request(FollowUps(thread[t].verdict), thread[t].run)
      <3>1. result[thread[t].run].verdict = thread[t].verdict
        BY <2>4 DEF Own
      <3>2. status[thread[t].run] = thread[t].verdict
        BY <2>1, <3>1 DEF RunInv, ResultInv, Verdicts
      <3> QED
        BY <2>1, <2>2, <2>4, <3>2, RunsStay
    <2> QED
      BY <1>5, <2>3, <2>4 DEF ReadForRecord
  <1>6. ASSUME NEW t \in Thread, SaveResult(t) PROVE RunInv'
    <2>1. /\ thread[t].run \in Run /\ thread[t].verdict \in Verdicts
          /\ Busy(t) /\ thread[t].phase \in Answered /\ thread[t].phase \in Waited
      BY <1>6, PhaseBusy, BusyType
      DEF SaveResult, AnswerInv, Answered, Waited
    <2>2. CASE VersionMatches(thread[t].run)
      <3>1. status[thread[t].run] # "absent"
        BY <2>1 DEF WorkflowInv, RunInv, VersionInv
      <3>2. /\ thread[t].execution \in DOMAIN executions
            /\ executions[thread[t].execution].run = thread[t].run
            /\ executions[thread[t].execution].state = thread[t].verdict
        BY <2>1 DEF WaitInv
      <3>3. executions[thread[t].execution] =
              [run |-> thread[t].run, state |-> thread[t].verdict]
        BY <3>2, ExecutionsDomain DEF Execution
      <3>4. Own(t).by = thread[t].execution /\ Own(t).verdict = thread[t].verdict
        BY DEF Own
      <3>5. /\ Update(thread[t].run, thread[t].verdict, Own(t))
            /\ Request(FollowUps(thread[t].verdict), thread[t].run)
            /\ UNCHANGED published
        BY <1>6, <2>2 DEF SaveResult
      <3> QED
        BY <2>1, <2>2, <3>1, <3>2, <3>3, <3>4, <3>5, UpdateKeeps DEF Terminal
    <2>3. CASE ~VersionMatches(thread[t].run)
      BY <1>1, <1>6, <2>3 DEF SaveResult
    <2> QED
      BY <2>2, <2>3
  <1> QED
    BY <1>1, <1>2, <1>3, <1>4, <1>5, <1>6, RunsMove

-----------------------------------------------------------------------------
(* Verdicts and outbox: the theorems.                                      *)

\* The inductive invariant.
IInv == Context /\ RunInv

\* The invariant holds in every reachable state.
LEMMA Inductive == Spec => []IInv
  <1> USE DEF IInv, Context
  <1>1. Init => IInv
    BY TypeInit, OutboxInit, WorkflowInit, ActiveInit, RunInit
  <1>2. IInv /\ [Next]_vars => IInv'
    BY TypeNext, OutboxNext, WorkflowNext, ActiveNext, WaitNext, RunNext
  <1> QED
    BY <1>1, <1>2, PTL DEF Spec

\* The verdict of a run is the one its execution ended with, whatever timeouts,
\* late answers and second executions there were.
THEOREM VerdictIsObserved == Spec => []VerdictObserved
  <1>1. IInv => VerdictObserved
    BY DEF IInv, RunInv, ResultInv, VerdictObserved
  <1> QED
    BY Inductive, <1>1, PTL

\* The outbox and the run never contradict each other.
THEOREM OutboxAgrees == Spec => []OutboxTellsRun
  <1>1. IInv => OutboxTellsRun
    BY DEF IInv, RunInv
  <1> QED
    BY Inductive, <1>1, PTL

\* A failed run gets one triage proposal at most, and no other run any, however
\* often its event is handled.
THEOREM ProposedOnce == Spec => []OneProposal
  <1>1. IInv => OneProposal
    BY DEF IInv, Context, OutboxInv, RunInv, OutboxTellsRun, OneProposal
  <1> QED
    BY Inductive, <1>1, PTL

\* A finished run keeps its status and its result, against every request and
\* every activity that read it before.
THEOREM TerminalStays == Spec => TerminalStable
  <1> DEFINE Stays == \A r \in Run : status[r] \in Terminal =>
                         status'[r] = status[r] /\ result'[r] = result[r]
  <1>1. ASSUME IInv, [Next]_vars PROVE Stays
    <2>0. TypeInv /\ TypeOK /\ OutboxInv /\ VersionInv
      BY <1>1 DEF IInv, Context, TypeInv, RunInv
    <2>1. CASE UNCHANGED dbVars
      BY <2>1 DEF dbVars
    <2>2. ASSUME NEW q \in Run, NEW s, NEW res, VersionMatches(q), Update(q, s, res)
          PROVE  Stays
      <3>1. \A r \in Run : status[r] \in Terminal => r # q
        BY <2>0, <2>2 DEF VersionMatches, VersionInv
      <3>2. \A r \in Run : r # q => status'[r] = status[r] /\ result'[r] = result[r]
        BY <2>0, <2>2 DEF Update, TypeOK
      <3> QED
        BY <3>1, <3>2
    <2>3. ASSUME NEW q \in Run, CreateRun(q) PROVE Stays
      <3>1. "absent" \notin Terminal
        BY DEF Terminal, Verdicts
      <3> QED
        BY <2>0, <2>3, <3>1 DEF CreateRun, TypeOK
    <2>4. ASSUME NEW q \in Run, WriteCancel(q) \/ WriteResult(q) PROVE Stays
      BY <2>1, <2>2, <2>4 DEF WriteCancel, WriteResult
    <2>5. ASSUME NEW t \in Thread, ReadForRecord(t) PROVE Stays
      BY <2>1, <2>5 DEF ReadForRecord
    <2>6. ASSUME NEW t \in Thread, SaveResult(t) PROVE Stays
      <3>1. thread[t].run \in Run
        BY <2>0, <2>6, PhaseBusy, BusyType DEF SaveResult
      <3> QED
        BY <2>1, <2>2, <2>6, <3>1 DEF SaveResult
    <2> QED
      BY <1>1, <2>0, <2>1, <2>3, <2>4, <2>5, <2>6, RunsMove
  <1>2. Stays => [Stays]_vars
    OBVIOUS
  <1> QED
    BY Inductive, <1>1, PTL DEF Spec, TerminalStable

-----------------------------------------------------------------------------
(* Redelivery: what has been told before an event counts as delivered.     *)

\* An event gets its mark in one of four actions, as the next of the batch.
LEMMA MarksMove ==
  ASSUME [Next]_vars, NEW x, x \in handled' \cup published',
         x \notin handled \cup published
  PROVE  /\ x \in batch /\ IsNext(x)
         /\ HandleRequested(x) \/ NotifyWorker(x) \/ HandleTriage(x)
              \/ HandleReport(x)
  <1> USE DEF outboxVars, publisherVars
  <1>1. ASSUME NEW e \in batch,
               HandleRequested(e) \/ NotifyWorker(e) \/ HandleTriage(e)
                 \/ HandleReport(e)
        PROVE  x = e /\ IsNext(e)
    BY <1>1 DEF HandleRequested, NotifyWorker, HandleTriage, HandleReport, Mark
  <1>2. CASE UNCHANGED vars
    BY <1>2 DEF vars
  <1> QED
    BY <1>1, <1>2
    DEF Next, Workflow, Publisher, ThreadStep, CreateRun, ReadForCancel,
        WriteCancel, ReadForResult, WriteResult, CloseCancelled, AttemptTimeout,
        StartAttempt, TakeBatch, Commit, CancelWorkflow, PublisherFault, Rollback,
        CheckRun, PostRequest, ReceiveResponse, HttpTimeout, ReadForRecord,
        SaveResult, CompleteActivity, ActivityFault, EndExecution, RestartRunner,
        CrashWorker

\* A marked request has had its workflow; a marked cancellation is known to the
\* Playwright worker, until that is restarted.
ToldInv ==
    \A r \in Run :
        /\ Ev("requested", r) \in handled \cup published => workflow[r] # "none"
        /\ Ev("cancelled", r) \in handled \cup published /\ ~restarted =>
              r \in cancelledRuns

\* Nothing has been marked in the beginning.
LEMMA ToldInit == Init => ToldInv
  BY DEF Init, ToldInv

\* No event is marked before the outside was told.
LEMMA ToldNext == IInv /\ ToldInv /\ [Next]_vars => ToldInv'
  <1> SUFFICES ASSUME IInv, ToldInv, [Next]_vars, NEW r \in Run
               PROVE  /\ Ev("requested", r) \in handled' \cup published' =>
                           workflow'[r] # "none"
                      /\ Ev("cancelled", r) \in handled' \cup published'
                           /\ ~restarted' => r \in cancelledRuns'
    BY DEF ToldInv
  <1> USE DEF IInv, Context
  <1>1. Ev("requested", r) \in handled' \cup published' => workflow'[r] # "none"
    <2> DEFINE e == Ev("requested", r)
    <2> SUFFICES ASSUME e \in handled' \cup published' PROVE workflow'[r] # "none"
      OBVIOUS
    <2>1. e.kind = "requested" /\ e.run = r
      BY DEF Ev
    <2>2. CASE e \in handled \cup published
      BY <2>2, WorkflowStays DEF ToldInv
    <2>3. CASE e \notin handled \cup published
      <3> HIDE DEF e
      <3>1. HandleRequested(e)
        <4>1. \/ HandleRequested(e) \/ HandleTriage(e) \/ HandleReport(e)
              \/ (e \in batch /\ IsNext(e) /\ NotifyWorker(e))
          BY <2>3, MarksMove
        <4>2. ~(e \in batch /\ IsNext(e) /\ NotifyWorker(e))
          BY <2>1 DEF NotifyWorker, OutboxInv
        <4> QED
          BY <2>1, <4>1, <4>2 DEF HandleTriage, HandleReport
      <3> QED
        BY <2>1, <3>1 DEF HandleRequested, Open, TypeInv, TypeOK, workflowVars
    <2> QED
      BY <2>2, <2>3
  <1>2. Ev("cancelled", r) \in handled' \cup published' /\ ~restarted'
          => r \in cancelledRuns'
    <2> DEFINE e == Ev("cancelled", r)
    <2> SUFFICES ASSUME e \in handled' \cup published', ~restarted'
                 PROVE  r \in cancelledRuns'
      OBVIOUS
    <2>1. e.kind = "cancelled" /\ e.run = r
      BY DEF Ev
    <2>2. CASE e \in handled \cup published
      <3>1. ~RestartRunner
        BY DEF RestartRunner
      <3>2. cancelledRuns \subseteq cancelledRuns' /\ UNCHANGED restarted
        BY <3>1
        DEF Next, Workflow, Publisher, ThreadStep, CreateRun, ReadForCancel,
            WriteCancel, ReadForResult, WriteResult, CloseCancelled, AttemptTimeout,
            StartAttempt, TakeBatch, Commit, HandleRequested, CancelWorkflow,
            NotifyWorker, HandleTriage, HandleReport, PublisherFault, CheckRun,
            PostRequest, ReceiveResponse, HttpTimeout, ReadForRecord, SaveResult,
            CompleteActivity, ActivityFault, EndExecution, CrashWorker, vars,
            runnerVars, boundVars
      <3> QED
        BY <2>2, <3>2 DEF ToldInv
    <2>3. CASE e \notin handled \cup published
      <3> HIDE DEF e
      <3>1. NotifyWorker(e)
        BY <2>1, <2>3, MarksMove DEF HandleRequested, HandleTriage, HandleReport
      <3> QED
        BY <2>1, <3>1 DEF NotifyWorker
    <2> QED
      BY <2>2, <2>3
  <1> QED
    BY <1>1, <1>2

\* A request that counts as delivered has started a workflow, also when its
\* batch was rolled back before and after.
THEOREM RequestIsStarted == Spec => []RequestStarted
  <1>1. ToldInv => RequestStarted
    BY DEF ToldInv, RequestStarted
  <1> QED
    BY Inductive, ToldInit, ToldNext, <1>1, PTL DEF Spec

\* Once a cancellation counts as delivered no execution of its run begins, as
\* long as the Playwright worker keeps its memory.
THEOREM CancelledIsQuiet == Spec => NoExecutionAfterCancel
  <1> DEFINE Quiet == \A r \in Run :
                        /\ Ev("cancelled", r) \in published
                        /\ ~restarted
                        => \A i \in DOMAIN executions' \ DOMAIN executions :
                              executions'[i].run # r
  <1>1. ASSUME IInv, ToldInv, [Next]_vars PROVE Quiet
    <2>0. TypeOK
      BY <1>1 DEF IInv, Context, TypeInv
    <2>1. CASE DOMAIN executions' = DOMAIN executions
      BY <2>1
    <2>2. ASSUME NEW t \in Thread, PostRequest(t) PROVE Quiet
      <3>1. CASE UNCHANGED executions
        BY <2>1, <3>1
      <3>2. CASE ~UNCHANGED executions
        <4>1. /\ thread[t].run \notin cancelledRuns
              /\ executions' = Append(executions, [run |-> thread[t].run,
                                                   state |-> "running"])
          BY <2>2, <3>2 DEF PostRequest, runnerVars
        <4>2. thread[t].run \in Run
          BY <2>0, <2>2, PhaseBusy, BusyType DEF PostRequest
        <4>3. \A i \in DOMAIN executions' \ DOMAIN executions :
                 executions'[i].run = thread[t].run
          BY <2>0, <4>1, <4>2, BeginExecution
        <4>4. \A r \in Run : Ev("cancelled", r) \in published /\ ~restarted =>
                 r # thread[t].run
          BY <1>1, <4>1 DEF ToldInv
        <4> QED
          BY <4>3, <4>4
      <3> QED
        BY <3>1, <3>2
    <2>3. ASSUME NEW e \in batch, NotifyWorker(e) PROVE Quiet
      <3>1. DOMAIN executions' = DOMAIN executions
        BY <2>0, <2>3, ChangeState DEF NotifyWorker
      <3> QED
        BY <2>1, <3>1
    <2>4. ASSUME NEW i \in DOMAIN executions, EndExecution(i) PROVE Quiet
      <3>1. DOMAIN executions' = DOMAIN executions
        BY <2>0, <2>4, ChangeState DEF EndExecution
      <3> QED
        BY <2>1, <3>1
    <2>5. CASE RestartRunner
      <3>1. DOMAIN executions' = DOMAIN executions
        BY <2>0, <2>5, RestartExecutions
      <3> QED
        BY <2>1, <3>1
    <2>6. CASE UNCHANGED vars
      BY <2>1, <2>6 DEF vars, runnerVars
    <2> HIDE DEF Quiet
    <2> QED
      BY <1>1, <2>1, <2>2, <2>3, <2>4, <2>5, <2>6
      DEF Next, Workflow, Publisher, ThreadStep, CreateRun, ReadForCancel,
          WriteCancel, ReadForResult, WriteResult, CloseCancelled, AttemptTimeout,
          StartAttempt, TakeBatch, Commit, HandleRequested, CancelWorkflow,
          HandleTriage, HandleReport, PublisherFault, CheckRun, ReceiveResponse,
          HttpTimeout, ReadForRecord, SaveResult, CompleteActivity, ActivityFault,
          CrashWorker, runnerVars
  <1> QED
    BY Inductive, ToldInit, ToldNext, <1>1, PTL DEF Spec, NoExecutionAfterCancel

-----------------------------------------------------------------------------
(* Cancellation, when a batch holds whatever is pending.                   *)

EventsFit == IsFiniteSet(Event) /\ Cardinality(Event) <= Limit

\* The publisher then takes everything that is pending.
LEMMA BatchIsAll ==
  ASSUME EventsFit, TypeOK
  PROVE  Unpublished = pending
  <1> SUFFICES ASSUME NEW e \in pending
               PROVE  Cardinality({f \in pending : Id[f] < Id[e]}) < Limit
    BY DEF Unpublished
  <1> DEFINE before == {f \in pending : Id[f] < Id[e]}
  <1>1. e \in Event /\ before \subseteq Event
    BY DEF TypeOK
  <1>2. e \notin before
    BY <1>1, DispatchAssumption
  <1> HIDE DEF before
  <1>3. /\ IsFiniteSet(Event \ {e})
        /\ Cardinality(Event \ {e}) = Cardinality(Event) - 1
    BY <1>1, FS_RemoveElement DEF EventsFit
  <1>4. before \subseteq Event \ {e}
    BY <1>1, <1>2
  <1>5. IsFiniteSet(before) /\ Cardinality(before) <= Cardinality(Event \ {e})
    BY <1>3, <1>4, FS_Subset
  <1>6. /\ Cardinality(Event) \in Nat /\ Cardinality(before) \in Nat
        /\ Limit \in Nat
    BY <1>5, FS_CardinalityType, DispatchAssumption DEF EventsFit
  <1>7. Cardinality(before) < Limit
    BY <1>3, <1>5, <1>6 DEF EventsFit
  <1> QED
    BY <1>7 DEF before

\* A cancellation is handled after its request, and once it has been handled the
\* workflow is stopped or about to stop.
Stopped(r) == workflow[r] \in {"cancelling", "closed"}

CancelInv ==
    /\ \A r \in Run :
         /\ Ev("cancelled", r) \in handled \cup published => Stopped(r)
         /\ Ev("cancelled", r) \in published => Ev("requested", r) \in published
         /\ Ev("cancelled", r) \in handled =>
               Ev("requested", r) \in handled \cup published
         /\ Ev("cancelled", r) \in batch =>
               Ev("requested", r) \in batch \cup handled \cup published
    /\ step = "notifying" => \A e \in batch : IsNext(e) => Stopped(e.run)

\* Nothing has been cancelled in the beginning.
LEMMA CancelInit == Init => CancelInv
  BY DEF Init, CancelInv

\* What is handled is not in the batch any more, so its request cannot start the
\* workflow again.
LEMMA StoppedStays ==
  ASSUME IInv, CancelInv, [Next]_vars, NEW r \in Run, Stopped(r),
         \/ Ev("requested", r) \notin batch
         \/ step = "notifying"
  PROVE  Stopped(r)'
  <1>1. \A e \in batch : e = Ev("requested", r) => ~HandleRequested(e)
    BY DEF HandleRequested
  <1> QED
    BY <1>1, WorkflowsMove DEF WorkflowFrame, Stopped, IInv, Context

\* No step handles a cancellation before its request, or a request after it.
LEMMA CancelNext == EventsFit /\ IInv /\ CancelInv /\ [Next]_vars => CancelInv'
  <1> SUFFICES ASSUME EventsFit, IInv, CancelInv, [Next]_vars PROVE CancelInv'
    OBVIOUS
  <1>0. TypeInv /\ TypeOK /\ OutboxInv /\ WorkflowInv /\ OutboxTellsRun
    BY DEF IInv, Context, TypeInv, RunInv
  <1>1. ASSUME NEW r \in Run, Ev("cancelled", r) \in handled \cup published
        PROVE  Stopped(r)'
    <2>1. Ev("requested", r) \in handled \cup published
      BY <1>1 DEF CancelInv
    <2>2. Ev("requested", r) \notin batch
      BY <1>0, <2>1 DEF OutboxInv
    <2> QED
      BY <1>1, <2>2, StoppedStays DEF CancelInv
  <1>2. CASE UNCHANGED <<published, publisherVars>>
    <2>1. step = "notifying" => \A e \in batch : IsNext(e) => Stopped(e.run)'
      <3> SUFFICES ASSUME step = "notifying", NEW e \in batch, IsNext(e)
                   PROVE  Stopped(e.run)'
        OBVIOUS
      <3>1. e.run \in Run
        BY <1>0 DEF TypeOK, Event
      <3>2. Stopped(e.run)
        BY DEF CancelInv
      <3> QED
        BY <3>1, <3>2, StoppedStays
    <2> QED
      BY <1>1, <1>2, <2>1 DEF CancelInv, publisherVars, IsNext
  <1>3. CASE TakeBatch
    <2>1. /\ batch' = pending /\ step' = "handling"
          /\ UNCHANGED <<pending, published, handled, workflow>>
      BY <1>0, <1>3, BatchIsAll DEF TakeBatch, outboxVars, workflowVars
    <2>2. \A r \in Run : Ev("cancelled", r) \in pending =>
                            Ev("requested", r) \in pending \cup published
      BY <1>0 DEF OutboxTellsRun
    <2> QED
      BY <2>1, <2>2 DEF CancelInv, Stopped
  <1>4. CASE Rollback
    <2>1. step' = "idle" /\ batch' = {} /\ handled' = {} /\ UNCHANGED published
      BY <1>4 DEF Rollback
    <2> QED
      BY <1>1, <2>1 DEF CancelInv
  <1>5. CASE Commit
    <2>1. /\ step' = "idle" /\ batch' = {} /\ handled' = {}
          /\ published' = published \cup handled
      BY <1>0, <1>5 DEF Commit
    <2> QED
      BY <1>1, <2>1 DEF CancelInv
  <1>6. ASSUME NEW e \in batch, IsNext(e), Mark(e), step' = "handling",
               UNCHANGED published, e.kind = "cancelled" => Stopped(e.run)
        PROVE  CancelInv'
    <2>1. batch' = batch \ {e} /\ handled' = handled \cup {e}
      BY <1>6 DEF Mark
    <2>2. e.run \in Run /\ e = Ev(e.kind, e.run)
      BY <1>0 DEF TypeOK, Event, Ev
    <2>3. e.kind = "cancelled" =>
             /\ Ev("requested", e.run) \notin batch
             /\ Ev("requested", e.run) \in handled \cup published
      <3> SUFFICES ASSUME e.kind = "cancelled"
                   PROVE  /\ Ev("requested", e.run) \notin batch
                          /\ Ev("requested", e.run) \in handled \cup published
        OBVIOUS
      <3>1. Rank("requested") = 0 /\ Rank("cancelled") = 1
        BY DEF Rank
      <3>2. Ev("requested", e.run).kind = "requested"
        BY DEF Ev
      <3>3. Ev("requested", e.run) \notin batch
        BY <1>6, <3>1, <3>2 DEF IsNext
      <3> QED
        BY <2>2, <3>3 DEF CancelInv
    <2>4. ASSUME NEW r \in Run, Ev("cancelled", r) \in handled' \cup published
          PROVE  /\ Stopped(r)'
                 /\ Ev("cancelled", r) \in handled' =>
                       Ev("requested", r) \in handled' \cup published
      <3>1. CASE Ev("cancelled", r) = e
        <4>1. e.kind = "cancelled" /\ e.run = r
          BY <3>1 DEF Ev
        <4> QED
          BY <1>6, <2>1, <2>3, <4>1, StoppedStays
      <3>2. CASE Ev("cancelled", r) # e
        BY <1>1, <2>1, <2>4, <3>2 DEF CancelInv
      <3> QED
        BY <3>1, <3>2
    <2> QED
      BY <1>6, <2>1, <2>4 DEF CancelInv
  <1>7. ASSUME NEW e \in batch,
               HandleRequested(e) \/ HandleTriage(e) \/ HandleReport(e)
        PROVE  CancelInv'
    BY <1>6, <1>7
    DEF HandleRequested, HandleTriage, HandleReport, outboxVars
  <1>8. ASSUME NEW e \in batch, NotifyWorker(e) PROVE CancelInv'
    BY <1>6, <1>8 DEF NotifyWorker, outboxVars, CancelInv
  <1>9. ASSUME NEW e \in batch, CancelWorkflow(e) PROVE CancelInv'
    <2>1. CASE workflow[e.run] = "none"
      BY <1>4, <1>9, <2>1 DEF CancelWorkflow
    <2>2. CASE workflow[e.run] # "none"
      <3>1. /\ step' = "notifying" /\ IsNext(e)
            /\ workflow' = [workflow EXCEPT ![e.run] =
                              IF @ = "open" THEN "cancelling" ELSE @]
            /\ UNCHANGED <<published, batch, handled>>
        BY <1>9, <2>2 DEF CancelWorkflow, outboxVars
      <3>2. e.run \in Run
        BY <1>0 DEF TypeOK, Event
      <3>3. Stopped(e.run)'
        BY <1>0, <2>2, <3>1, <3>2 DEF Stopped, TypeOK
      <3>4. \A f \in batch : IsNext(f) => f = e
        BY <1>0, <3>1, NextIsUnique
      <3> QED
        BY <1>1, <3>1, <3>3, <3>4 DEF CancelInv, IsNext
    <2> QED
      BY <2>1, <2>2
  <1>10. CASE PublisherFault \/ CrashWorker
    BY <1>4, <1>10 DEF PublisherFault, CrashWorker
  <1>11. CASE UNCHANGED vars
    BY <1>2, <1>11 DEF vars, outboxVars
  <1> QED
    BY <1>2, <1>3, <1>5, <1>7, <1>8, <1>9, <1>10, <1>11
    DEF Next, Workflow, Publisher, ThreadStep, CreateRun, ReadForCancel,
        WriteCancel, ReadForResult, WriteResult, CloseCancelled, AttemptTimeout,
        StartAttempt, CheckRun, PostRequest, ReceiveResponse, HttpTimeout,
        ReadForRecord, SaveResult, CompleteActivity, ActivityFault, EndExecution,
        RestartRunner, outboxVars

\* Once a cancellation counts as delivered the workflow of its run is closed or
\* about to close, and no redelivered request opens it again. That batches hold
\* all pending events is necessary: otherwise a request left for a later batch,
\* and delivered before in one that was rolled back, starts the workflow again.
THEOREM CancelledIsStopped ==
  ASSUME EventsFit
  PROVE  Spec => []CancelledStays
  <1>1. Init => CancelInv
    BY CancelInit
  <1>2. IInv /\ CancelInv /\ [Next]_vars => CancelInv'
    BY CancelNext
  <1>3. CancelInv => CancelledStays
    BY DEF CancelInv, CancelledStays, Stopped
  <1> QED
    BY Inductive, <1>1, <1>2, <1>3, PTL DEF Spec

\* Events that count as delivered have had their effect: the request has its
\* workflow, and the cancellation has stopped it for good.
THEOREM DeliveredIsDone ==
  ASSUME EventsFit
  PROVE  Spec => []PublishedIsDone
  BY RequestIsStarted, CancelledIsStopped, PTL DEF PublishedIsDone

=============================================================================
