-------------------------- MODULE VisionOperations --------------------------
(***************************************************************************)
(* The operations of one visual exploration of auto-at-ui.                 *)
(*                                                                         *)
(* A browser primitive (a click, a navigation) cannot be taken back and    *)
(* must not be repeated, and the three who know of it can fail one by one: *)
(*                                                                         *)
(*   - the database holds the session, its lease, the operations and the   *)
(*     frames (application/vision_operations.py commits to it around each  *)
(*     primitive);                                                         *)
(*   - an explorer, the coroutine that has claimed the session, sends      *)
(*     requests to the browser worker and records the answers.  Explorer 1 *)
(*     explores; one that claims the session later only collects what is   *)
(*     left of the evidence and ends the session;                          *)
(*   - the browser worker (workers/playwright/src/vision-operations.ts)    *)
(*     keeps the browser, its own record of each operation and the staged  *)
(*     frames, all of it in memory, and has a deadline of its own.         *)
(*                                                                         *)
(* An explorer is named by its fencing token.                              *)
(***************************************************************************)
EXTENDS Integers, FiniteSets

CONSTANTS
    MaxOps,      \* how many operations are explored: bounds the instance
    MaxTroubles  \* crashes, lapses of a lease, restarts of the worker: a bound

ASSUME VisionAssumption == MaxOps \in Nat \ {0} /\ MaxTroubles \in Nat

VARIABLES
    \* database
    sess, reason, published, token, held, op, owner, frames,
    \* explorers
    pc, cur, result, why, answer,
    \* browser worker, and the requests on their way to it
    worker, expired, browser, job, pending, wop, wframes, acked, effects,
    mail,
    troubles

dbVars == <<sess, reason, published, token, held, op, owner, frames>>
traceVars == <<op, owner, frames>>
explorerVars == <<pc, cur, result, why, answer>>
workerVars == <<worker, expired, browser, job, pending, wop, wframes, acked,
                effects>>
vars == <<dbVars, explorerVars, workerVars, mail, troubles>>

Ops == 1..MaxOps
Explorers == 1..(MaxTroubles + 1)

\* Two statuses of a row have two origins: "abandoned" is a failure and "lost" an
\* unknown outcome that the control plane declared, "failed" and "unknown" are
\* what the worker answered.
RemoteFinal == {"completed", "failed", "rejected", "unknown"}
Final == RemoteFinal \cup {"abandoned", "lost"}
Open == {"prepared", "executing"}
\* The code also asks for "cancelled", which nothing stores.
SessionFinal == {"completed", "unavailable"}
Nothing == [status |-> "none", frames |-> {}]
Idle == [kind |-> "none", op |-> 0, stage |-> "none", verdict |-> "none"]

Init ==
    /\ sess = "queued" /\ reason = "none" /\ published = FALSE
    /\ token = 0 /\ held = FALSE
    /\ op = [o \in Ops |-> "none"] /\ owner = [o \in Ops |-> 0]
    /\ frames = [o \in Ops |-> {}]
    /\ pc = [t \in Explorers |-> "none"] /\ cur = [t \in Explorers |-> 0]
    /\ result = [t \in Explorers |-> Nothing] /\ why = [t \in Explorers |-> "none"]
    /\ answer = Nothing
    /\ worker = "none" /\ expired = FALSE /\ browser = FALSE
    /\ job = Idle /\ pending = 0
    /\ wop = [o \in Ops |-> "none"] /\ wframes = [o \in Ops |-> {}]
    /\ acked = [o \in Ops |-> FALSE] /\ effects = [o \in Ops |-> 0]
    /\ mail = {} /\ troubles = 0

-----------------------------------------------------------------------------
(***************************************************************************)
(* Helpers                                                                 *)
(***************************************************************************)

\* Every write locks the session row and compares owner, token and expiry.
Owns(t) == held /\ token = t

\* What the worker tells of an operation.
Remote(o) == [status |-> wop[o], frames |-> wframes[o]]

\* The worker knows the operation and the token it was opened with: the first.
Readable(o) == worker = "open" /\ wop[o] # "none"

GoTo(t, place) == pc' = [pc EXCEPT ![t] = place]

\* What an explorer holds in memory is gone with it.
Forget(t) ==
    /\ cur' = [cur EXCEPT ![t] = 0] /\ result' = [result EXCEPT ![t] = Nothing]
    /\ why' = [why EXCEPT ![t] = "none"] /\ answer' = IF t = 1 THEN Nothing ELSE answer

\* The worker's memory of the session is gone.
Emptied ==
    /\ worker' = "gone" /\ expired' = FALSE /\ browser' = FALSE
    /\ job' = Idle /\ pending' = 0
    /\ wop' = [o \in Ops |-> "none"] /\ wframes' = [o \in Ops |-> {}]
    /\ acked' = [o \in Ops |-> FALSE]
    /\ UNCHANGED effects

Save(o, status) == op' = [op EXCEPT ![o] = status]
EndWith(t, r) == GoTo(t, "ending") /\ why' = [why EXCEPT ![t] = r]

\* The locator and the frame of a role are fetched from the worker's staging.
Staged(new) == new = {} \/ worker = "open"

-----------------------------------------------------------------------------
(***************************************************************************)
(* A claim and the end of a session                                        *)
(***************************************************************************)

\* mutant: the lease is taken whatever the session's state.
Claim_AnyState(t) ==
    /\ t = token + 1 /\ ~published /\ ~held
    /\ token' = t /\ held' = TRUE /\ GoTo(t, "claimed")
    /\ UNCHANGED <<sess, reason, published, traceVars, cur, result, why, answer,
                   workerVars, mail, troubles>>

\* mutant: a session that runs already is not taken over.
Claim_QueuedOnly(t) ==
    /\ t = token + 1 /\ ~published /\ ~held /\ sess = "queued"
    /\ token' = t /\ held' = TRUE /\ GoTo(t, "claimed")
    /\ UNCHANGED <<sess, reason, published, traceVars, cur, result, why, answer,
                   workerVars, mail, troubles>>

\* The undelivered event meets a session that is not over and whose lease is free.
Claim(t) ==
    /\ t = token + 1 /\ ~published /\ ~held /\ sess \in {"queued", "running"}
    /\ token' = t /\ held' = TRUE /\ GoTo(t, "claimed")
    /\ UNCHANGED <<sess, reason, published, traceVars, cur, result, why, answer,
                   workerVars, mail, troubles>>

\* Tenant configuration may have disabled the agent: the session ends at once,
\* whoever claimed it.
Begin(t) ==
    /\ pc[t] = "claimed" /\ Owns(t)
    /\ sess' = "running"
    /\ \/ EndWith(t, "policy_disabled") /\ UNCHANGED cur
       \/ t = 1 /\ GoTo(t, "opening") /\ UNCHANGED <<cur, why>>
       \/ t > 1 /\ GoTo(t, "recover") /\ cur' = [cur EXCEPT ![t] = 1] /\ UNCHANGED why
    /\ UNCHANGED <<reason, published, token, held, traceVars, result, answer, workerVars,
                   mail, troubles>>

\* The worker launches a browser; the answer may get lost on its way back.
OpenWorker(t) ==
    /\ pc[t] = "opening" /\ worker = "none"
    /\ worker' = "open" /\ browser' = TRUE
    /\ \/ GoTo(t, "idle") /\ UNCHANGED why
       \/ EndWith(t, "stopped")
    /\ UNCHANGED <<dbVars, cur, result, answer, expired, job, pending, wop,
                   wframes, acked, effects, mail, troubles>>

OpenFails(t) ==
    /\ pc[t] = "opening" /\ EndWith(t, "stopped")
    /\ UNCHANGED <<dbVars, cur, result, answer, workerVars, mail, troubles>>

\* The queue of branches is empty, or something between two operations raised.
EndExploration(t) ==
    /\ pc[t] = "idle"
    /\ \/ EndWith(t, "stopped")
       \/ \E o \in Ops : op[o] = "completed" /\ EndWith(t, "none")
    /\ UNCHANGED <<dbVars, cur, result, answer, workerVars, mail, troubles>>

Finish(t) ==
    /\ pc[t] = "ending" /\ Owns(t)
    /\ sess' = IF why[t] = "none" THEN "completed" ELSE "unavailable"
    /\ reason' = why[t]
    /\ GoTo(t, "closing") /\ Forget(t)
    /\ UNCHANGED <<published, token, held, traceVars, workerVars, mail, troubles>>

\* Any write of an explorer that lost its lease raises, and so does the one that
\* would record the failure.
Writing == {"claimed", "idle", "preparing", "prepared", "authorizing", "executing",
            "executed", "recover", "reconcile", "ending"}
Fenced(t) ==
    /\ pc[t] \in Writing /\ ~Owns(t)
    /\ GoTo(t, "quitting") /\ Forget(t)
    /\ UNCHANGED <<dbVars, workerVars, mail, troubles>>

\* Finally the first explorer closes the browser; the worker refuses while it is
\* at work, and nobody asks again.
Shut == worker = "open" /\ job = Idle /\ Emptied
Close(t) ==
    /\ pc[t] \in {"closing", "quitting"}
    /\ GoTo(t, IF pc[t] = "closing" THEN "publishing" ELSE "gone")
    /\ \/ t = 1 /\ Shut
       \/ UNCHANGED workerVars
    /\ UNCHANGED <<dbVars, cur, result, why, answer, mail, troubles>>

Publish(t) ==
    /\ pc[t] = "publishing" /\ published' = TRUE /\ GoTo(t, "gone")
    /\ UNCHANGED <<sess, reason, token, held, traceVars, cur, result, why, answer,
                   workerVars, mail, troubles>>

\* The event of a session that is over is published without any work.
PublishProcessed ==
    /\ sess \in SessionFinal /\ ~published /\ published' = TRUE
    /\ UNCHANGED <<sess, reason, token, held, traceVars, explorerVars, workerVars, mail,
                   troubles>>

-----------------------------------------------------------------------------
(***************************************************************************)
(* One operation: ExecuteVisualOperation.execute                           *)
(***************************************************************************)

\* The intent is committed, then the worker is asked to prepare it.
StartOp(t) ==
    /\ pc[t] = "idle" /\ Owns(t) /\ cur[t] < MaxOps
    /\ \A o \in Ops : op[o] \notin Open \cup {"unknown", "lost"}
    /\ cur' = [cur EXCEPT ![t] = @ + 1]
    /\ Save(cur'[t], "prepared")
    /\ owner' = [owner EXCEPT ![cur'[t]] = t]
    /\ mail' = mail \cup {<<"prepare", cur'[t]>>} /\ answer' = Nothing
    /\ GoTo(t, "preparing")
    /\ UNCHANGED <<sess, reason, published, token, held, frames, result, why, workerVars,
                   troubles>>

Answered(t) ==
    /\ pc[t] \in {"preparing", "executing"} /\ answer # Nothing
    /\ result' = [result EXCEPT ![t] = answer] /\ answer' = Nothing
    /\ GoTo(t, IF pc[t] = "preparing" THEN "prepared" ELSE "executed")
    /\ UNCHANGED <<dbVars, cur, why, workerVars, mail, troubles>>

\* The call raises, whatever becomes of the request, and the same operation is read.
ReadInstead(t) ==
    /\ pc[t] \in {"preparing", "executing"} /\ Readable(cur[t])
    /\ result' = [result EXCEPT ![t] = Remote(cur[t])] /\ answer' = Nothing
    /\ GoTo(t, IF pc[t] = "preparing" THEN "prepared" ELSE "executed")
    /\ UNCHANGED <<dbVars, cur, why, workerVars, mail, troubles>>

\* The before frame, and a rejection if that is the answer, are committed.
CommitBefore(t) ==
    LET o == cur[t] IN
    /\ pc[t] = "prepared" /\ Owns(t) /\ Staged(result[t].frames)
    /\ Save(o, result[t].status)
    /\ frames' = [frames EXCEPT ![o] = @ \cup result[t].frames]
    /\ GoTo(t, IF result[t].status \in Final THEN "acking" ELSE "authorizing")
    /\ UNCHANGED <<sess, reason, published, token, held, owner, cur, result, why, answer,
                   workerVars, mail, troubles>>

\* mutant: the request is sent before the dispatch is recorded.
Authorize_SendFirst(t) ==
    /\ pc[t] = "authorizing" /\ Owns(t) /\ "before" \in result[t].frames
    /\ mail' = mail \cup {<<"execute", cur[t]>>} /\ answer' = Nothing
    /\ GoTo(t, "executing")
    /\ UNCHANGED <<sess, reason, published, token, held, op, owner, frames, cur, result, why,
                   workerVars, troubles>>

\* An operation without a before frame is not valid as an executing one; with it, the
\* dispatch is committed before the request is sent.
Authorize(t) ==
    /\ pc[t] = "authorizing" /\ Owns(t) /\ "before" \in result[t].frames
    /\ Save(cur[t], "executing")
    /\ mail' = mail \cup {<<"execute", cur[t]>>} /\ answer' = Nothing
    /\ GoTo(t, "executing")
    /\ UNCHANGED <<sess, reason, published, token, held, owner, frames, cur, result, why,
                   workerVars, troubles>>

CommitAfter(t) ==
    LET o == cur[t] IN
    /\ pc[t] = "executed" /\ Owns(t) /\ result[t].status \in RemoteFinal
    /\ Staged(result[t].frames \ {"before"})
    /\ Save(o, result[t].status)
    /\ frames' = [frames EXCEPT ![o] = @ \cup result[t].frames]
    /\ GoTo(t, "acking")
    /\ UNCHANGED <<sess, reason, published, token, held, owner, cur, result, why, answer,
                   workerVars, mail, troubles>>

\* The read raises as well, a frame cannot be fetched or is too large, the session's
\* time is over or its policy has changed.  _stop: what was never sent has failed,
\* what was sent is unknown.
Stop(t) ==
    /\ pc[t] \in {"preparing", "prepared", "authorizing", "executing", "executed"} /\ Owns(t)
    /\ Save(cur[t], IF op[cur[t]] = "executing" THEN "lost" ELSE "abandoned")
    /\ EndWith(t, "stopped")
    /\ UNCHANGED <<sess, reason, published, token, held, owner, frames, cur, result, answer,
                   workerVars, mail, troubles>>

\* The worker deletes what it staged when the caller names exactly those frames.
Acknowledge(o, r) ==
    /\ worker = "open" /\ job = Idle /\ wop[o] \in RemoteFinal /\ r.frames = wframes[o]
    /\ acked' = [acked EXCEPT ![o] = TRUE]
    /\ UNCHANGED <<worker, expired, browser, job, pending, wop, wframes, effects>>

Ack(t) ==
    /\ pc[t] = "acking" /\ Acknowledge(cur[t], result[t])
    /\ \/ op[cur[t]] # "unknown" /\ GoTo(t, "idle") /\ UNCHANGED why
       \/ EndWith(t, "stopped")
    /\ UNCHANGED <<dbVars, cur, result, answer, mail, troubles>>

AckFails(t) ==
    /\ pc[t] = "acking" /\ EndWith(t, "stopped")
    /\ UNCHANGED <<dbVars, cur, result, answer, workerVars, mail, troubles>>

-----------------------------------------------------------------------------
(***************************************************************************)
(* Recovery: every later claim                                             *)
(***************************************************************************)

\* To the next operation, or to the end of the session.
Following(t) ==
    IF cur[t] < MaxOps /\ op[cur[t] + 1] # "none"
    THEN GoTo(t, "recover") /\ cur' = [cur EXCEPT ![t] = @ + 1] /\ UNCHANGED why
    ELSE EndWith(t, "worker_state_unavailable") /\ UNCHANGED cur

NothingToRecover(t) ==
    /\ pc[t] = "recover" /\ op[1] = "none"
    /\ EndWith(t, "worker_state_unavailable")
    /\ UNCHANGED <<dbVars, cur, result, answer, workerVars, mail, troubles>>

\* Read under the token of the row's owner: only the first one is the worker's.  A
\* final answer makes this explorer the owner of the evidence.
RecoverRead(t) ==
    LET o == cur[t] IN
    /\ pc[t] = "recover" /\ op[1] # "none"
    /\ Readable(o) /\ owner[o] = 1
    /\ IF wop[o] \in RemoteFinal
       THEN Owns(t) /\ owner' = [owner EXCEPT ![o] = t]
       ELSE UNCHANGED owner
    /\ GoTo(t, "reconcile")
    /\ UNCHANGED <<sess, reason, published, token, held, op, frames, cur, result, why,
                   answer, workerVars, mail, troubles>>

\* mutant: an operation that cannot be read is left as it is.
RecoverFails_Skips(t) ==
    /\ pc[t] = "recover" /\ op[1] # "none"
    /\ UNCHANGED op
    /\ Following(t)
    /\ UNCHANGED <<sess, reason, published, token, held, owner, frames, result, answer,
                   workerVars, mail, troubles>>

\* The worker knows nothing of it, or not under that token.
RecoverFails(t) ==
    /\ pc[t] = "recover" /\ op[1] # "none"
    /\ IF op[cur[t]] \in Open THEN Owns(t) /\ Save(cur[t], "lost") ELSE UNCHANGED op
    /\ Following(t)
    /\ UNCHANGED <<sess, reason, published, token, held, owner, frames, result, answer,
                   workerVars, mail, troubles>>

\* mutant: a recorded end that differs from the worker's is acknowledged as well.
ReconcileSame_AnyFinal(t) ==
    LET o == cur[t] IN
    /\ pc[t] = "reconcile" /\ Readable(o)
    /\ op[o] \in Final
    /\ result' = [result EXCEPT ![t] = Remote(o)]
    /\ GoTo(t, "ackAgain")
    /\ UNCHANGED <<dbVars, cur, why, answer, workerVars, mail, troubles>>

\* The second read finds what was recorded: only the acknowledgement is missing.
ReconcileSame(t) ==
    LET o == cur[t] IN
    /\ pc[t] = "reconcile" /\ Readable(o)
    /\ op[o] = wop[o] /\ frames[o] = wframes[o] /\ op[o] \in RemoteFinal
    /\ result' = [result EXCEPT ![t] = Remote(o)]
    /\ GoTo(t, "ackAgain")
    /\ UNCHANGED <<dbVars, cur, why, answer, workerVars, mail, troubles>>

\* The second read finds the outcome of an operation that was dispatched.
ReconcileOutcome(t) ==
    LET o == cur[t] IN
    /\ pc[t] = "reconcile" /\ Owns(t) /\ Readable(o)
    /\ op[o] = "executing" /\ wop[o] \in RemoteFinal
    /\ owner[o] = t \/ (wop[o] = "unknown" /\ "after" \notin wframes[o])
    /\ Save(o, wop[o])
    /\ frames' = [frames EXCEPT ![o] = @ \cup wframes[o]]
    /\ result' = [result EXCEPT ![t] = Remote(o)]
    /\ GoTo(t, "ackCaptured")
    /\ UNCHANGED <<sess, reason, published, token, held, owner, cur, why, answer,
                   workerVars, mail, troubles>>

\* The record is final and differs, or cannot be read again: left as it is.
ReconcileDiffers(t) ==
    /\ pc[t] = "reconcile" /\ op[cur[t]] \in Final
    /\ Following(t)
    /\ UNCHANGED <<dbVars, result, answer, workerVars, mail, troubles>>

\* Not dispatched, no outcome, or an outcome that cannot be fetched: unknown.  The
\* caller then tries to stop the operation once more, which raises out of the loop.
ReconcileFails(t) ==
    /\ pc[t] = "reconcile" /\ Owns(t) /\ op[cur[t]] \in Open
    /\ Save(cur[t], "lost") /\ EndWith(t, "visual_exploration_unavailable")
    /\ UNCHANGED <<sess, reason, published, token, held, owner, frames, cur, result, answer,
                   workerVars, mail, troubles>>

AckAgain(t) ==
    /\ pc[t] \in {"ackAgain", "ackCaptured"} /\ Acknowledge(cur[t], result[t])
    /\ Following(t)
    /\ UNCHANGED <<dbVars, result, answer, mail, troubles>>

\* The caller still holds the operation it read before the outcome was committed, and
\* stops it: that raises as well.
AckAgainFails(t) ==
    /\ \/ pc[t] = "ackAgain" /\ Following(t)
       \/ pc[t] = "ackCaptured" /\ EndWith(t, "visual_exploration_unavailable")
          /\ UNCHANGED cur
    /\ UNCHANGED <<dbVars, result, answer, workerVars, mail, troubles>>

-----------------------------------------------------------------------------
(***************************************************************************)
(* Browser worker.  One request at a time; reads and the deadline come in  *)
(* between.  A request that comes at the wrong time is refused, which is   *)
(* like one that never arrives: it stays in mail.  policyFailure, which    *)
(* dialogs, downloads and doubtful outcomes set, makes it reject whatever  *)
(* comes; since a rejection is always possible, it is not kept.            *)
(***************************************************************************)

\* The end of a request: it is answered, if the explorer still waits for that.
EndJob(kind, o, status) ==
    /\ job' = Idle
    /\ answer' = IF pc[1] = kind /\ cur[1] = o
                 THEN [status |-> status, frames |-> wframes'[o]] ELSE answer

\* A late change of a status that is final already is ignored.
Finalized(o, status) == IF wop[o] \in Open THEN status ELSE wop[o]

TakePrepare(o) ==
    /\ <<"prepare", o>> \in mail /\ mail' = mail \ {<<"prepare", o>>}
    /\ worker = "open" /\ job = Idle /\ ~expired /\ pending = 0
    /\ wop' = [wop EXCEPT ![o] = "prepared"]
    /\ job' = [kind |-> "prepare", op |-> o, stage |-> "capture", verdict |-> "none"]
    /\ UNCHANGED <<dbVars, explorerVars, worker, expired, browser, pending, wframes,
                   acked, effects, troubles>>

\* The before frame is staged; then the locator is grounded and the state compared.
CaptureBefore ==
    /\ job.kind = "prepare" /\ job.stage = "capture" /\ ~expired
    /\ wframes' = [wframes EXCEPT ![job.op] = {"before"}]
    /\ job' = [job EXCEPT !.stage = "ground"]
    /\ UNCHANGED <<dbVars, explorerVars, worker, expired, browser, pending, wop,
                   acked, effects, mail, troubles>>

EndPrepare ==
    /\ job.kind = "prepare"
    /\ \/ /\ job.stage = "ground" /\ browser
          /\ pending' = job.op /\ UNCHANGED wop
       \/ /\ wop' = [wop EXCEPT ![job.op] = Finalized(job.op, "rejected")]
          /\ UNCHANGED pending
    /\ UNCHANGED wframes /\ EndJob("preparing", job.op, wop'[job.op])
    /\ UNCHANGED <<dbVars, pc, cur, result, why, worker, expired, browser, acked,
                   effects, mail, troubles>>

\* An operation that is not prepared any more is answered and not executed.
AnswerExecute(o) ==
    /\ <<"execute", o>> \in mail /\ mail' = mail \ {<<"execute", o>>}
    /\ worker = "open" /\ job = Idle /\ wop[o] \notin {"none", "prepared"}
    /\ UNCHANGED wframes /\ EndJob("executing", o, wop[o])
    /\ UNCHANGED <<dbVars, pc, cur, result, why, worker, expired, browser, pending,
                   wop, acked, effects, troubles>>

TakeExecute(o) ==
    /\ <<"execute", o>> \in mail /\ mail' = mail \ {<<"execute", o>>}
    /\ worker = "open" /\ job = Idle /\ ~expired /\ wop[o] = "prepared" /\ pending = o
    /\ job' = [kind |-> "execute", op |-> o, stage |-> "check", verdict |-> "rejected"]
    /\ UNCHANGED <<dbVars, explorerVars, worker, expired, browser, pending, wop,
                   wframes, acked, effects, troubles>>

\* mutant: the deadline is not looked at after the checks.
CheckTarget_NoDeadline ==
    /\ job.kind = "execute" /\ job.stage = "check"
    /\ \/ job' = [job EXCEPT !.stage = "end"] /\ UNCHANGED wop
       \/ /\ browser
          /\ wop' = [wop EXCEPT ![job.op] = "executing"]
          /\ job' = [job EXCEPT !.stage = "act", !.verdict = "unknown"]
    /\ UNCHANGED <<dbVars, explorerVars, worker, expired, browser, pending, wframes,
                   acked, effects, mail, troubles>>

\* The state and the locator are compared once more, in a browser that may be about
\* to close; the deadline is looked at after the status is set.
CheckTarget ==
    /\ job.kind = "execute" /\ job.stage = "check"
    /\ \/ job' = [job EXCEPT !.stage = "end"] /\ UNCHANGED wop
       \/ /\ browser
          /\ wop' = [wop EXCEPT ![job.op] = "executing"]
          /\ job' = IF expired THEN [job EXCEPT !.stage = "end", !.verdict = "unknown"]
                               ELSE [job EXCEPT !.stage = "act", !.verdict = "unknown"]
    /\ UNCHANGED <<dbVars, explorerVars, worker, expired, browser, pending, wframes,
                   acked, effects, mail, troubles>>

\* mutant: an exception before the primitive reads as its failure.
Act_Failed ==
    /\ job.kind = "execute" /\ job.stage = "act"
    /\ \/ /\ browser
          /\ effects' = [effects EXCEPT ![job.op] = @ + 1]
          /\ \E v \in {"completed", "failed", "unknown"} :
                job' = [job EXCEPT !.stage = "end", !.verdict = v]
       \/ job' = [job EXCEPT !.stage = "end", !.verdict = "failed"] /\ UNCHANGED effects
    /\ UNCHANGED <<dbVars, explorerVars, worker, expired, browser, pending, wop,
                   wframes, acked, mail, troubles>>

\* The primitive: done or not, its outcome is known only if the call returns.
Act ==
    /\ job.kind = "execute" /\ job.stage = "act"
    /\ \/ /\ browser
          /\ effects' = [effects EXCEPT ![job.op] = @ + 1]
          /\ \E v \in {"completed", "failed", "unknown"} :
                job' = [job EXCEPT !.stage = "end", !.verdict = v]
       \/ job' = [job EXCEPT !.stage = "end"] /\ UNCHANGED effects
    /\ UNCHANGED <<dbVars, explorerVars, worker, expired, browser, pending, wop,
                   wframes, acked, mail, troubles>>

\* The after frame, if there is still a browser to take it from; a restore that did
\* not reach its checkpoint has failed.
EndExecute ==
    /\ job.kind = "execute" /\ job.stage = "end"
    /\ \/ ~expired /\ wframes' = [wframes EXCEPT ![job.op] = @ \cup {"after"}]
       \/ UNCHANGED wframes
    /\ \E v \in {job.verdict} \cup (IF job.verdict = "completed" THEN {"failed"} ELSE {}) :
          wop' = [wop EXCEPT ![job.op] = Finalized(job.op, v)]
    /\ pending' = 0
    /\ EndJob("executing", job.op, wop'[job.op])
    /\ UNCHANGED <<dbVars, pc, cur, result, why, worker, expired, browser, acked, effects,
                   mail, troubles>>

\* The timer of the session: first the records, then, awaits later, the browser.
Expire ==
    /\ worker = "open" /\ ~expired /\ expired' = TRUE
    /\ wop' = [o \in Ops |-> CASE wop[o] = "executing" -> "unknown"
                               [] wop[o] = "prepared"  -> "rejected"
                               [] OTHER                -> wop[o]]
    /\ UNCHANGED <<dbVars, explorerVars, worker, browser, job, pending, wframes,
                   acked, effects, mail, troubles>>

CloseBrowser ==
    /\ worker = "open" /\ expired /\ browser /\ browser' = FALSE
    /\ UNCHANGED <<dbVars, explorerVars, worker, expired, job, pending, wop, wframes,
                   acked, effects, mail, troubles>>

-----------------------------------------------------------------------------
(***************************************************************************)
(* Troubles                                                                *)
(***************************************************************************)

Trouble == troubles < MaxTroubles /\ troubles' = troubles + 1

Alive(t) == pc[t] \notin {"none", "gone"}

Crash(t) ==
    /\ Trouble /\ Alive(t) /\ GoTo(t, "gone") /\ Forget(t)
    /\ UNCHANGED <<dbVars, workerVars, mail>>

\* The explorer is held up for longer than its lease, by a blocked event loop or a
\* slow database.
LeaseLapses ==
    /\ Trouble /\ held /\ Alive(token) /\ held' = FALSE
    /\ UNCHANGED <<sess, reason, published, token, traceVars, explorerVars, workerVars, mail>>

\* The lease of an explorer that is gone runs out.
LeaseExpires ==
    /\ held /\ ~Alive(token) /\ held' = FALSE
    /\ UNCHANGED <<sess, reason, published, token, traceVars, explorerVars, workerVars, mail,
                   troubles>>

\* The worker process comes back with nothing; requests on their way are lost.
RestartWorker ==
    /\ Trouble /\ worker = "open"
    /\ Emptied /\ mail' = {}
    /\ UNCHANGED <<dbVars, explorerVars>>

-----------------------------------------------------------------------------

Exploring(t) ==
    \/ OpenWorker(t) \/ OpenFails(t) \/ EndExploration(t)
    \/ StartOp(t) \/ Answered(t) \/ ReadInstead(t)
    \/ CommitBefore(t) \/ Authorize(t) \/ CommitAfter(t) \/ Stop(t) \/ Ack(t) \/ AckFails(t)

Recovering(t) ==
    \/ NothingToRecover(t) \/ RecoverRead(t) \/ RecoverFails(t)
    \/ ReconcileSame(t) \/ ReconcileOutcome(t) \/ ReconcileDiffers(t) \/ ReconcileFails(t)
    \/ AckAgain(t) \/ AckAgainFails(t)

ExplorerStep(t) ==
    \/ Begin(t) \/ Exploring(t) \/ Recovering(t)
    \/ Finish(t) \/ Fenced(t) \/ Close(t) \/ Publish(t)

WorkerStep ==
    \/ \E o \in Ops : TakePrepare(o) \/ AnswerExecute(o) \/ TakeExecute(o)
    \/ CaptureBefore \/ EndPrepare \/ CheckTarget \/ Act \/ EndExecute
    \/ Expire \/ CloseBrowser

Next ==
    \/ \E t \in Explorers : Claim(t) \/ ExplorerStep(t) \/ Crash(t)
    \/ PublishProcessed \/ LeaseLapses \/ LeaseExpires
    \/ WorkerStep \/ RestartWorker

Spec == Init /\ [][Next]_vars

\* The publisher polls for ever, an explorer goes on because each of its calls is
\* under a timeout, and a lease that nobody renews runs out.  The browser worker
\* owes nothing.
FairSpec ==
    /\ Spec
    /\ \A t \in Explorers : WF_vars(Claim(t)) /\ WF_vars(ExplorerStep(t))
    /\ WF_vars(PublishProcessed) /\ WF_vars(LeaseExpires)

-----------------------------------------------------------------------------
(***************************************************************************)
(* Properties                                                              *)
(***************************************************************************)

\* Types.
TypeOK ==
    /\ sess \in SessionFinal \cup {"queued", "running"} /\ published \in BOOLEAN
    /\ token \in 0..(MaxTroubles + 1) /\ held \in BOOLEAN
    /\ op \in [Ops -> Final \cup Open \cup {"none"}]
    /\ owner \in [Ops -> 0..(MaxTroubles + 1)]
    /\ frames \in [Ops -> SUBSET {"before", "after"}]
    /\ cur \in [Explorers -> 0..MaxOps]
    /\ worker \in {"none", "open", "gone"} /\ pending \in 0..MaxOps
    /\ wop \in [Ops -> RemoteFinal \cup Open \cup {"none"}]
    /\ wframes \in [Ops -> SUBSET {"before", "after"}]
    /\ acked \in [Ops -> BOOLEAN] /\ effects \in [Ops -> Nat]
    /\ troubles \in 0..MaxTroubles

\* docs/vision-agent-operations.md: "The control plane commits an operation intent
\* and its actual before image before dispatch": whatever happened in the browser,
\* the database knew of it, and has the picture from before it.
IntentFirst ==
    \A o \in Ops : effects[o] > 0 =>
        op[o] \notin {"none", "prepared"} /\ "before" \in frames[o]

\* What the trace calls rejected, or never dispatched, did not happen in the browser,
\* and does not happen later: not through a request that was on its way, nor
\* through one that was being served when the deadline rejected it.
SaidNotDone ==
    \A o \in Ops : op[o] \in {"abandoned", "rejected"} => effects[o] = 0

\* The worker deletes no picture that is not in the database.
AckedIsDurable ==
    \A o \in Ops : acked[o] => wframes[o] \subseteq frames[o]

\* A session that is over leaves no operation open, unless the agent was switched
\* off before somebody could take over.
EndedIsDecided ==
    sess \in SessionFinal /\ reason # "policy_disabled" =>
        \A o \in Ops : op[o] \notin Open

\* The trace of a session that is over does not change any more, however many
\* explorers are still on their way.
EndedIsQuiet ==
    [][(sess \in SessionFinal) => UNCHANGED <<sess, reason, traceVars>>]_vars

\* Each operation is a call of the kind OneShotCall describes, and so is each job of
\* the Codex bridge: one primitive at most, one verdict, and the verdict that it
\* happened only if it did.
Call == INSTANCE OneShotCall WITH
    Calls <- Ops,
    attempts <- effects,
    outcome <- [o \in Ops |-> CASE op[o] \in {"none"} \cup Open -> "open"
                                [] op[o] \in {"completed", "failed"} -> "accepted"
                                [] OTHER -> "dropped"]
IsOneShotCall == Call!Spec

\* However explorers, leases and workers fail, the session ends and its event is
\* published.
Ends == <>[](sess \in SessionFinal /\ published)

=============================================================================
