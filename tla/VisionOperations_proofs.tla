----------------------- MODULE VisionOperations_proofs -----------------------
(***************************************************************************)
(* Proofs about VisionOperations, for any number of operations and of      *)
(* troubles.                                                               *)
(*                                                                         *)
(* What the database says of an operation and what happened in the browser *)
(* are tied together by everything on its way between the two: a request   *)
(* in mail, the job of the worker, its records, an answer, the result that *)
(* an explorer holds.  The invariant says of each of them what it may      *)
(* still lead to.                                                          *)
(***************************************************************************)
EXTENDS VisionOperations, TLAPS

Pictures == {"before", "after"}
WorkerStatus == RemoteFinal \cup Open \cup {"none"}
Replies == [status : WorkerStatus, frames : SUBSET Pictures]
Jobs == [kind : {"none", "prepare", "execute"}, op : 0..MaxOps,
         stage : {"none", "capture", "ground", "check", "act", "end"},
         verdict : RemoteFinal \cup {"none"}]

\* Where explorer 1 alone can be, where it is at work on operation cur[1], and where
\* the others are.
Working == {"preparing", "prepared", "authorizing", "executing", "executed", "acking"}
First == {"opening", "idle"} \cup Working
Later == {"recover", "reconcile", "ackAgain", "ackCaptured"}
Over == {"closing", "publishing", "quitting", "gone"}
Places == {"none", "claimed", "ending"} \cup First \cup Later \cup Over

TraceTypes ==
    /\ sess \in SessionFinal \cup {"queued", "running"} /\ published \in BOOLEAN
    /\ token \in 0..(MaxTroubles + 1) /\ held \in BOOLEAN
    /\ op \in [Ops -> Final \cup Open \cup {"none"}]
    /\ owner \in [Ops -> 0..(MaxTroubles + 1)]
    /\ frames \in [Ops -> SUBSET Pictures]
    /\ troubles \in 0..MaxTroubles

ExplorerTypes ==
    /\ pc \in [Explorers -> Places] /\ cur \in [Explorers -> 0..MaxOps]
    /\ result \in [Explorers -> Replies] /\ answer \in Replies

WorkerTypes ==
    /\ worker \in {"none", "open", "gone"}
    /\ expired \in BOOLEAN /\ browser \in BOOLEAN
    /\ job \in Jobs /\ pending \in 0..MaxOps
    /\ wop \in [Ops -> WorkerStatus] /\ wframes \in [Ops -> SUBSET Pictures]
    /\ acked \in [Ops -> BOOLEAN] /\ effects \in [Ops -> Nat]
    /\ mail \in SUBSET ({"prepare", "execute"} \X Ops)

\* An explorer that is at work has an operation in hand, and so has the worker.
Who ==
    /\ \A t \in Explorers : pc[t] \in First => t = 1
    /\ \A t \in Explorers : pc[t] \in Later => t # 1
    /\ \A t \in Explorers : pc[t] \in Working \cup Later => cur[t] \in Ops
    /\ token = 0 => pc[1] = "none"
    /\ job.kind # "none" => worker = "open" /\ job.op \in Ops /\ wop[job.op] # "none"

TypeInv == TraceTypes /\ ExplorerTypes /\ WorkerTypes /\ Who

\* A session ends under the lease; its holder then writes nothing more.
Quiet == sess \in SessionFinal => token \in Explorers /\ pc[token] \in Over

-----------------------------------------------------------------------------
(* The invariant.  The worker's memory: what its records and its job stand *)
(* for.                                                                    *)

Record(o) ==
    /\ worker # "open" => wop[o] = "none"
    /\ wop[o] = "executing" =>
          job.kind = "execute" /\ job.op = o /\ job.stage \in {"act", "end"}
    /\ wop[o] \in {"prepared", "rejected"} => effects[o] = 0
    /\ wop[o] \in {"completed", "failed"} => effects[o] = 1
    /\ effects[o] <= 1

AtWork ==
    /\ job.kind = "prepare" => effects[job.op] = 0
    /\ job.kind = "execute" =>
        /\ job.verdict \in RemoteFinal /\ job.stage \in {"check", "act", "end"}
        /\ job.stage \in {"check", "act"} => effects[job.op] = 0
        /\ job.verdict = "rejected" => effects[job.op] = 0
        /\ job.verdict \in {"completed", "failed"} => effects[job.op] = 1
        /\ job.stage = "check" => job.verdict = "rejected"
        /\ job.stage = "act" =>
              wop[job.op] \in {"executing", "unknown"} /\ job.verdict = "unknown"

WorkerInv == AtWork /\ \A o \in Ops : Record(o)

InMail(kind, o) == <<kind, o>> \in mail
Executes(o) == job.kind = "execute" /\ job.op = o
Sent(o) == InMail("execute", o) \/ Executes(o) \/ effects[o] > 0

\* What was sent, is done or has been done was announced.
Announced == \A o \in Ops :
    Sent(o) => op[o] \notin {"none", "prepared", "abandoned"} /\ "before" \in frames[o]

\* An operation that is still to be prepared is unknown to the worker.
Requests == \A o \in Ops :
    /\ InMail("prepare", o) =>
          wop[o] = "none" /\ effects[o] = 0 /\ op[o] # "none" /\ ~InMail("execute", o)
    /\ op[o] = "none" => wop[o] = "none"

\* What the first explorer knows, as long as nobody else has claimed the session.
Mine(places) == token = 1 /\ pc[1] \in places
Explorer ==
    /\ pc[1] \in First \cup {"none", "claimed"} => \A o \in Ops : o > cur[1] => op[o] = "none"
    /\ Mine({"preparing", "prepared", "authorizing"}) => op[cur[1]] = "prepared"
    /\ Mine({"executing", "executed"}) => op[cur[1]] = "executing"
    /\ Mine({"prepared"}) => result[1].status \in RemoteFinal \cup {"prepared"}
    /\ Mine({"preparing"}) /\ answer # Nothing => answer.status \in RemoteFinal \cup {"prepared"}
    /\ pc[1] = "preparing" /\ answer # Nothing => ~InMail("prepare", cur[1])
    /\ pc[1] \in {"prepared", "authorizing"} => ~InMail("prepare", cur[1])
    /\ pc[1] = "authorizing" => result[1].frames \subseteq frames[cur[1]]

\* An operation that was rejected cannot happen any more, whatever is on its way.
Dead(o) ==
    /\ effects[o] = 0
    /\ InMail("execute", o) => worker = "gone" \/ wop[o] \notin {"none", "prepared"}
    /\ Executes(o) => job.stage # "act" /\ (job.stage = "check" => expired)

Rejected ==
    /\ \A o \in Ops : wop[o] = "rejected" \/ op[o] = "rejected" => Dead(o)
    /\ pc[1] = "executed" /\ result[1].status = "rejected" => Dead(cur[1])
    /\ pc[1] = "executing" /\ answer.status = "rejected" => Dead(cur[1])

\* Whoever says that an operation ended knows that it happened.
Done == {"completed", "failed"}
Happened ==
    /\ \A o \in Ops : op[o] \in Done => effects[o] = 1
    /\ pc[1] \in {"prepared", "executed"} /\ result[1].status \in Done => effects[cur[1]] = 1
    /\ pc[1] \in {"preparing", "executing"} /\ answer.status \in Done => effects[cur[1]] = 1

\* An explorer acknowledges what it has stored.
Evidence ==
    /\ \A t \in Explorers : pc[t] \in {"acking", "ackAgain", "ackCaptured"} =>
          result[t].frames \subseteq frames[cur[t]]
    /\ \A o \in Ops : acked[o] =>
          /\ wop[o] \in RemoteFinal /\ wframes[o] \subseteq frames[o]
          /\ job.kind # "none" => job.op # o

IInv == /\ TypeInv /\ WorkerInv /\ Announced /\ Requests /\ Explorer
        /\ Rejected /\ Happened /\ Evidence

LEMMA Bounds == MaxOps \in Nat \ {0} /\ MaxTroubles \in Nat
  BY VisionAssumption

USE Bounds DEF Ops, Explorers

-----------------------------------------------------------------------------
(* Which actions touch what.                                               *)

\* The trace is written by eight actions.
Writes(t) ==
    \/ StartOp(t) \/ CommitBefore(t) \/ Authorize(t) \/ CommitAfter(t) \/ Stop(t)
    \/ RecoverFails(t) \/ ReconcileOutcome(t) \/ ReconcileFails(t)

LEMMA TraceMoves ==
  ASSUME [Next]_vars
  PROVE  UNCHANGED <<op, frames>> \/ \E t \in Explorers : Writes(t)
  <1> USE DEF traceVars, dbVars
  <1>1. CASE UNCHANGED vars
    BY <1>1 DEF vars
  <1>2. ASSUME NEW t \in Explorers, Claim(t) \/ Crash(t) \/ Begin(t) \/ Finish(t) \/ Fenced(t)
                                     \/ Close(t) \/ Publish(t)
        PROVE  UNCHANGED <<op, frames>>
    BY <1>2 DEF Claim, Crash, Begin, Finish, Fenced, Close, Publish
  <1>3. ASSUME NEW t \in Explorers, Exploring(t)
        PROVE  UNCHANGED <<op, frames>> \/ Writes(t)
    BY <1>3 DEF Exploring, Writes, OpenWorker, OpenFails, EndExploration, Answered, ReadInstead,
                Ack, AckFails
  <1>4. ASSUME NEW t \in Explorers, Recovering(t)
        PROVE  UNCHANGED <<op, frames>> \/ Writes(t)
    BY <1>4 DEF Recovering, Writes, NothingToRecover, RecoverRead, ReconcileSame,
                ReconcileDiffers, AckAgain, AckAgainFails
  <1>5. CASE PublishProcessed \/ LeaseLapses \/ LeaseExpires \/ RestartWorker
    BY <1>5 DEF PublishProcessed, LeaseLapses, LeaseExpires, RestartWorker
  <1>6. CASE WorkerStep
    BY <1>6 DEF WorkerStep, TakePrepare, AnswerExecute, TakeExecute, CaptureBefore, EndPrepare,
                CheckTarget, Act, EndExecute, Expire, CloseBrowser
  <1> QED
    BY <1>1, <1>2, <1>3, <1>4, <1>5, <1>6, Zenon DEF Next, ExplorerStep

\* The worker's memory is its own, but for its beginning, its end and the
\* acknowledgements.
LEMMA WorkerMoves ==
  ASSUME [Next]_vars
  PROVE  \/ UNCHANGED workerVars \/ WorkerStep \/ Emptied
         \/ \E t \in Explorers : OpenWorker(t) \/ Ack(t) \/ AckAgain(t)
  <1>1. CASE UNCHANGED vars
    BY <1>1 DEF vars
  <1>2. ASSUME NEW t \in Explorers, Claim(t) \/ Crash(t) \/ Begin(t) \/ Finish(t) \/ Fenced(t)
                                     \/ Publish(t)
        PROVE  UNCHANGED workerVars
    BY <1>2, Zenon DEF Claim, Crash, Begin, Finish, Fenced, Publish
  <1>3. ASSUME NEW t \in Explorers, Close(t)
        PROVE  UNCHANGED workerVars \/ Emptied
    BY <1>3, Zenon DEF Close, Shut
  <1>4. ASSUME NEW t \in Explorers, Exploring(t)
        PROVE  UNCHANGED workerVars \/ OpenWorker(t) \/ Ack(t)
    BY <1>4, Zenon DEF Exploring, OpenFails, EndExploration, StartOp, Answered, ReadInstead,
                CommitBefore, Authorize, CommitAfter, Stop, AckFails
  <1>5. ASSUME NEW t \in Explorers, Recovering(t)
        PROVE  UNCHANGED workerVars \/ AckAgain(t)
    BY <1>5, Zenon DEF Recovering, NothingToRecover, RecoverRead, RecoverFails, ReconcileSame,
                ReconcileOutcome, ReconcileDiffers, ReconcileFails, AckAgainFails
  <1>6. CASE PublishProcessed \/ LeaseLapses \/ LeaseExpires \/ RestartWorker
    BY <1>6, Zenon DEF PublishProcessed, LeaseLapses, LeaseExpires, RestartWorker
  <1> QED
    BY <1>1, <1>2, <1>3, <1>4, <1>5, <1>6, Zenon DEF Next, ExplorerStep

\* Requests are sent by two actions and otherwise only disappear.
LEMMA MailMoves ==
  ASSUME [Next]_vars
  PROVE  mail' \subseteq mail \/ \E t \in Explorers : StartOp(t) \/ Authorize(t)
  <1>1. CASE UNCHANGED vars
    BY <1>1 DEF vars
  <1>2. ASSUME NEW t \in Explorers, Claim(t) \/ Crash(t) \/ Begin(t) \/ Finish(t) \/ Fenced(t)
                                     \/ Close(t) \/ Publish(t)
        PROVE  mail' = mail
    BY <1>2, Zenon DEF Claim, Crash, Begin, Finish, Fenced, Close, Publish
  <1>3. ASSUME NEW t \in Explorers, Exploring(t)
        PROVE  mail' = mail \/ StartOp(t) \/ Authorize(t)
    BY <1>3, Zenon DEF Exploring, OpenWorker, OpenFails, EndExploration, Answered, ReadInstead,
                CommitBefore, CommitAfter, Stop, Ack, AckFails
  <1>4. ASSUME NEW t \in Explorers, Recovering(t)
        PROVE  mail' = mail
    BY <1>4, Zenon DEF Recovering, NothingToRecover, RecoverRead, RecoverFails, ReconcileSame,
                ReconcileOutcome, ReconcileDiffers, ReconcileFails, AckAgain, AckAgainFails
  <1>5. CASE PublishProcessed \/ LeaseLapses \/ LeaseExpires \/ RestartWorker
    BY <1>5, Zenon DEF PublishProcessed, LeaseLapses, LeaseExpires, RestartWorker
  <1>6. CASE WorkerStep
    BY <1>6 DEF WorkerStep, TakePrepare, AnswerExecute, TakeExecute, CaptureBefore, EndPrepare,
                CheckTarget, Act, EndExecute, Expire, CloseBrowser
  <1> QED
    BY <1>1, <1>2, <1>3, <1>4, <1>5, <1>6, Zenon DEF Next, ExplorerStep

\* The session is written by three actions.
LEMMA SessionMoves ==
  ASSUME [Next]_vars
  PROVE  \/ UNCHANGED <<sess, token>>
         \/ \E t \in Explorers : Claim(t) \/ Begin(t) \/ Finish(t)
  <1> USE DEF dbVars
  <1>1. CASE UNCHANGED vars
    BY <1>1 DEF vars
  <1>2. ASSUME NEW t \in Explorers, Crash(t) \/ Fenced(t) \/ Close(t) \/ Publish(t)
        PROVE  UNCHANGED <<sess, token>>
    BY <1>2, Zenon DEF Crash, Fenced, Close, Publish
  <1>3. ASSUME NEW t \in Explorers, Exploring(t)
        PROVE  UNCHANGED <<sess, token>>
    BY <1>3, Zenon DEF Exploring, OpenWorker, OpenFails, EndExploration, StartOp, Answered,
                ReadInstead, CommitBefore, Authorize, CommitAfter, Stop, Ack, AckFails
  <1>4. ASSUME NEW t \in Explorers, Recovering(t)
        PROVE  UNCHANGED <<sess, token>>
    BY <1>4, Zenon DEF Recovering, NothingToRecover, RecoverRead, RecoverFails, ReconcileSame,
                ReconcileOutcome, ReconcileDiffers, ReconcileFails, AckAgain, AckAgainFails
  <1>5. CASE PublishProcessed \/ LeaseLapses \/ LeaseExpires \/ RestartWorker
    BY <1>5, Zenon DEF PublishProcessed, LeaseLapses, LeaseExpires, RestartWorker
  <1>6. CASE WorkerStep
    BY <1>6, Zenon DEF WorkerStep, TakePrepare, AnswerExecute, TakeExecute, CaptureBefore,
                EndPrepare, CheckTarget, Act, EndExecute, Expire, CloseBrowser
  <1> QED
    BY <1>1, <1>2, <1>3, <1>4, <1>5, <1>6, Zenon DEF Next, ExplorerStep

-----------------------------------------------------------------------------
(* Types.                                                                  *)

LEMMA InitType == Init => TypeInv
  <1> SUFFICES ASSUME Init PROVE TypeInv
    OBVIOUS
  <1> USE DEF Init, Pictures, WorkerStatus, RemoteFinal, Open, Final, SessionFinal, Nothing, Idle
  <1> {} \in SUBSET Pictures
    OBVIOUS
  <1>1. TraceTypes
    <2>1. frames \in [Ops -> SUBSET Pictures]
      OBVIOUS
    <2>2. op \in [Ops -> Final \cup Open \cup {"none"}] /\ owner \in [Ops -> 0..(MaxTroubles + 1)]
      OBVIOUS
    <2>3. token \in 0..(MaxTroubles + 1) /\ troubles \in 0..MaxTroubles
      OBVIOUS
    <2>4. sess \in SessionFinal \cup {"queued", "running"}
            /\ published \in BOOLEAN /\ held \in BOOLEAN
      OBVIOUS
    <2> HIDE DEF Init, Final, Open, SessionFinal, Pictures
    <2> QED
      BY <2>1, <2>2, <2>3, <2>4 DEF TraceTypes
  <1>2. ExplorerTypes
    BY DEF ExplorerTypes, Replies, Places
  <1>3. WorkerTypes
    <2>1. job \in Jobs
      BY DEF Jobs
    <2>2. wop \in [Ops -> WorkerStatus] /\ wframes \in [Ops -> SUBSET Pictures]
      OBVIOUS
    <2>3. acked \in [Ops -> BOOLEAN] /\ effects \in [Ops -> Nat]
      OBVIOUS
    <2>4. worker \in {"none", "open", "gone"} /\ expired \in BOOLEAN /\ browser \in BOOLEAN
      OBVIOUS
    <2>5. pending \in 0..MaxOps /\ mail \in SUBSET ({"prepare", "execute"} \X Ops)
      OBVIOUS
    <2> HIDE DEF Init, WorkerStatus, Pictures
    <2> QED
      BY <2>1, <2>2, <2>3, <2>4, <2>5 DEF WorkerTypes
  <1>4. Who
    BY DEF Who, First, Later, Working
  <1> QED
    BY <1>1, <1>2, <1>3, <1>4 DEF TypeInv

LEMMA WorkerTypesStep ==
  ASSUME TypeInv, [Next]_vars
  PROVE  WorkerTypes'
  <1> USE DEF TypeInv, WorkerTypes, Pictures, WorkerStatus, RemoteFinal, Open
  <1>1. mail' \in SUBSET ({"prepare", "execute"} \X Ops)
    <2>1. ASSUME NEW t \in Explorers, StartOp(t) PROVE cur'[t] \in Ops /\ cur'[t] = cur[t] + 1
      BY <2>1 DEF StartOp, ExplorerTypes
    <2>2. ASSUME NEW t \in Explorers, StartOp(t)
          PROVE  mail' \in SUBSET ({"prepare", "execute"} \X Ops)
      <3>1. <<"prepare", cur'[t]>> \in {"prepare", "execute"} \X Ops
        BY <2>1, <2>2
      <3>2. mail' = mail \cup {<<"prepare", cur'[t]>>}
        BY <2>2 DEF StartOp
      <3> QED
        BY <3>1, <3>2
    <2>3. ASSUME NEW t \in Explorers, Authorize(t)
          PROVE  mail' \in SUBSET ({"prepare", "execute"} \X Ops)
      BY <2>3 DEF Authorize, Who, Working
    <2> QED
      BY <2>2, <2>3, MailMoves
  <1>2. CASE UNCHANGED workerVars
    BY <1>1, <1>2 DEF workerVars
  <1>3. CASE Emptied
    <2>1. job' \in Jobs
      BY <1>3 DEF Emptied, Jobs, Idle
    <2>2. wop' \in [Ops -> WorkerStatus] /\ wframes' \in [Ops -> SUBSET Pictures]
            /\ acked' \in [Ops -> BOOLEAN] /\ effects' \in [Ops -> Nat]
      <3> {} \in SUBSET Pictures
        OBVIOUS
      <3> QED
        BY <1>3 DEF Emptied
    <2>3. worker' \in {"none", "open", "gone"} /\ expired' \in BOOLEAN /\ browser' \in BOOLEAN
            /\ pending' \in 0..MaxOps
      <3>1. worker' \in {"none", "open", "gone"}
        BY <1>3, Zenon DEF Emptied
      <3>2. expired' \in BOOLEAN /\ browser' \in BOOLEAN
        BY <1>3, Zenon DEF Emptied
      <3>3. pending' \in 0..MaxOps
        <4>1. pending' = 0
          BY <1>3, Zenon DEF Emptied
        <4> QED
          BY <4>1
      <3> QED
        BY <3>1, <3>2, <3>3
    <2> HIDE DEF TypeInv, WorkerStatus, Pictures
    <2> QED
      BY <1>1, <2>1, <2>2, <2>3
  <1>4. ASSUME NEW t \in Explorers, OpenWorker(t) PROVE WorkerTypes'
    BY <1>1, <1>4 DEF OpenWorker
  <1>5. ASSUME NEW t \in Explorers, Ack(t) \/ AckAgain(t) PROVE WorkerTypes'
    BY <1>1, <1>5 DEF Ack, AckAgain, Acknowledge
  <1>6. CASE WorkerStep
    <2> USE <1>1 DEF Who
    <2>1. ASSUME NEW o \in Ops, TakePrepare(o) PROVE WorkerTypes'
      BY <2>1 DEF TakePrepare, Jobs
    <2>2. ASSUME NEW o \in Ops, AnswerExecute(o) PROVE WorkerTypes'
      BY <2>2 DEF AnswerExecute, EndJob, Idle, Jobs
    <2>3. ASSUME NEW o \in Ops, TakeExecute(o) PROVE WorkerTypes'
      BY <2>3 DEF TakeExecute, Jobs
    <2>4. CASE CaptureBefore
      BY <2>4 DEF CaptureBefore, Jobs
    <2>5. CASE EndPrepare
      <3>1. job.op \in Ops /\ job' \in Jobs
        BY <2>5 DEF EndPrepare, EndJob, Idle, Jobs
      <3>2. wop' \in [Ops -> WorkerStatus]
        BY <2>5, <3>1 DEF EndPrepare, Finalized
      <3> QED
        BY <2>5, <3>1, <3>2 DEF EndPrepare
    <2>6. CASE CheckTarget
      <3>1. job.op \in Ops /\ wop' \in [Ops -> WorkerStatus]
        BY <2>6 DEF CheckTarget
      <3>2. \/ job' = [job EXCEPT !.stage = "end"]
            \/ job' = [job EXCEPT !.stage = "end", !.verdict = "unknown"]
            \/ job' = [job EXCEPT !.stage = "act", !.verdict = "unknown"]
        BY <2>6, Zenon DEF CheckTarget
      <3>3. job' \in Jobs
        BY <3>2 DEF Jobs
      <3> QED
        BY <2>6, <3>1, <3>3 DEF CheckTarget
    <2>7. CASE Act
      <3>1. job.op \in Ops /\ effects' \in [Ops -> Nat]
        BY <2>7 DEF Act
      <3>2. job' \in Jobs
        BY <2>7 DEF Act, Jobs
      <3> QED
        BY <2>7, <3>1, <3>2 DEF Act
    <2>8. CASE EndExecute
      <3>5. job.op \in Ops
        BY <2>8 DEF EndExecute
      <3>6. \/ wframes' = [wframes EXCEPT ![job.op] = wframes[job.op] \cup {"after"}]
            \/ wframes' = wframes
        BY <2>8, Zenon DEF EndExecute
      <3>7. wframes[job.op] \cup {"after"} \in SUBSET Pictures
        BY <3>5
      <3>8. wframes \in [Ops -> SUBSET Pictures]
        OBVIOUS
      <3>1. job.op \in Ops /\ wframes' \in [Ops -> SUBSET Pictures]
        <4> HIDE DEF TypeInv, WorkerTypes, Who, Pictures
        <4>1. CASE wframes' = [wframes EXCEPT ![job.op] = wframes[job.op] \cup {"after"}]
          BY <3>5, <3>7, <3>8, <4>1
        <4>2. CASE wframes' = wframes
          BY <3>5, <3>8, <4>2
        <4> QED
          BY <3>6, <4>1, <4>2
      <3>2. job.verdict \in RemoteFinal \cup {"none"}
        BY DEF Jobs
      <3>3. wop' \in [Ops -> WorkerStatus]
        BY <2>8, <3>1, <3>2 DEF EndExecute, Finalized
      <3>4. job' \in Jobs
        BY <2>8 DEF EndExecute, EndJob, Idle, Jobs
      <3> QED
        BY <2>8, <3>1, <3>3, <3>4 DEF EndExecute
    <2>9. CASE Expire
      BY <2>9 DEF Expire
    <2>10. CASE CloseBrowser
      BY <2>10 DEF CloseBrowser
    <2> HIDE DEF TypeInv, WorkerTypes
    <2> QED
      BY <1>6, <2>1, <2>2, <2>3, <2>4, <2>5, <2>6, <2>7, <2>8, <2>9, <2>10 DEF WorkerStep
  <1> HIDE DEF TypeInv, WorkerTypes
  <1> QED
    BY <1>2, <1>3, <1>4, <1>5, <1>6, WorkerMoves

LEMMA TraceTypesStep ==
  ASSUME TypeInv, [Next]_vars
  PROVE  TraceTypes'
  <1> USE DEF TypeInv, TraceTypes, Pictures, SessionFinal
  <1>1. CASE UNCHANGED <<dbVars, troubles>>
    BY <1>1 DEF dbVars
  <1>2. ASSUME NEW t \in Explorers, Claim(t) \/ Begin(t) \/ Finish(t) \/ Publish(t)
        PROVE  TraceTypes'
    <2>1. CASE Claim(t)
      BY <2>1 DEF Claim, traceVars
    <2>2. CASE Begin(t)
      BY <2>2 DEF Begin, traceVars
    <2>3. CASE Finish(t)
      BY <2>3 DEF Finish, traceVars
    <2>4. CASE Publish(t)
      BY <2>4 DEF Publish, traceVars
    <2> QED
      BY <1>2, <2>1, <2>2, <2>3, <2>4
  <1>3. ASSUME NEW t \in Explorers, Crash(t) PROVE TraceTypes'
    BY <1>3 DEF Crash, Trouble, dbVars, traceVars
  <1>4. CASE PublishProcessed \/ LeaseLapses \/ LeaseExpires \/ RestartWorker
    <2>1. CASE PublishProcessed
      BY <2>1 DEF PublishProcessed, traceVars
    <2>2. CASE LeaseLapses
      <3>1. troubles' \in 0..MaxTroubles
        BY <2>2 DEF LeaseLapses, Trouble
      <3> QED
        BY <2>2, <3>1 DEF LeaseLapses, traceVars
    <2>3. CASE LeaseExpires
      BY <2>3 DEF LeaseExpires, traceVars
    <2>4. CASE RestartWorker
      BY <2>4 DEF RestartWorker, Trouble, dbVars, traceVars
    <2> QED
      BY <1>4, <2>1, <2>2, <2>3, <2>4
  <1>5. ASSUME NEW t \in Explorers, Writes(t) \/ RecoverRead(t) PROVE TraceTypes'
    <2> USE DEF Who, Working, Later, Final, RemoteFinal, Open, Save
    <2>1. CASE StartOp(t)
      <3>1. cur'[t] \in Ops
        BY <2>1 DEF StartOp, ExplorerTypes
      <3> QED
        BY <2>1, <3>1 DEF StartOp
    <2>2. result[t].status \in WorkerStatus /\ result[t].frames \in SUBSET Pictures
      BY DEF ExplorerTypes, Replies
    <2>3. CASE CommitBefore(t)
      <3>1. cur[t] \in Ops
        BY <2>3 DEF CommitBefore
      <3> QED
        BY <2>2, <2>3, <3>1 DEF CommitBefore, WorkerStatus
    <2>4. CASE Authorize(t)
      BY <2>4 DEF Authorize
    <2>5. CASE CommitAfter(t)
      BY <2>2, <2>5 DEF CommitAfter
    <2>6. CASE Stop(t)
      BY <2>6 DEF Stop
    <2>7. CASE RecoverRead(t)
      BY <2>7 DEF RecoverRead
    <2>8. CASE RecoverFails(t)
      BY <2>8 DEF RecoverFails
    <2>9. CASE ReconcileOutcome(t)
      BY <2>9 DEF ReconcileOutcome, WorkerTypes
    <2>10. CASE ReconcileFails(t)
      BY <2>10 DEF ReconcileFails
    <2> HIDE DEF TypeInv, TraceTypes
    <2> QED
      BY <1>5, <2>1, <2>3, <2>4, <2>5, <2>6, <2>7, <2>8, <2>9, <2>10 DEF Writes
  <1> HIDE DEF TypeInv, TraceTypes
  <1>6. CASE UNCHANGED vars
    BY <1>1, <1>6 DEF vars
  <1>7. ASSUME NEW t \in Explorers, Exploring(t) PROVE TraceTypes'
    <2>1. Writes(t) \/ UNCHANGED <<dbVars, troubles>>
      BY <1>7, Zenon DEF Exploring, Writes, OpenWorker, OpenFails, EndExploration, Answered,
                         ReadInstead, Ack, AckFails
    <2> QED
      BY <1>1, <1>5, <2>1
  <1>8. ASSUME NEW t \in Explorers, Recovering(t) PROVE TraceTypes'
    <2>1. Writes(t) \/ RecoverRead(t) \/ UNCHANGED <<dbVars, troubles>>
      BY <1>8, Zenon DEF Recovering, Writes, NothingToRecover, ReconcileSame, ReconcileDiffers,
                         AckAgain, AckAgainFails
    <2> QED
      BY <1>1, <1>5, <2>1
  <1>9. ASSUME NEW t \in Explorers, Fenced(t) \/ Close(t) PROVE TraceTypes'
    BY <1>1, <1>9, Zenon DEF Fenced, Close
  <1>10. CASE WorkerStep
    <2>1. UNCHANGED <<dbVars, troubles>>
      BY <1>10, Zenon DEF WorkerStep, TakePrepare, AnswerExecute, TakeExecute, CaptureBefore,
                  EndPrepare, CheckTarget, Act, EndExecute, Expire, CloseBrowser
    <2> QED
      BY <1>1, <2>1
  <1> QED
    BY <1>2, <1>3, <1>4, <1>6, <1>7, <1>8, <1>9, <1>10, Zenon DEF Next, ExplorerStep

\* A step of an explorer moves nobody else, and leads to a place of its own.
Place(t) ==
    /\ pc[t] \in First => t = 1
    /\ pc[t] \in Later => t # 1
    /\ pc[t] \in Working \cup Later => cur[t] \in Ops
Others(t) == \A u \in Explorers \ {t} :
    pc'[u] = pc[u] /\ cur'[u] = cur[u] /\ result'[u] = result[u]

LEMMA ExplorerMoves ==
  ASSUME TypeInv, NEW t \in Explorers, Claim(t) \/ ExplorerStep(t) \/ Crash(t)
  PROVE  ExplorerTypes' /\ Others(t) /\ Place(t)'
  <1> DEFINE Moved == ExplorerTypes' /\ Others(t) /\ Place(t)'
  <1>1. ExplorerTypes /\ Place(t)
    BY DEF TypeInv, Who, Place
  <1>2. Nothing \in Replies
    BY DEF Nothing, Replies, WorkerStatus
  <1>3. \A o \in Ops : Remote(o) \in Replies
    BY DEF Remote, Replies, TypeInv, WorkerTypes
  <1> USE <1>1 DEF ExplorerTypes, Place, Others, GoTo, EndWith, Places, First, Later, Working, Over,
                   explorerVars
  <1>16. ASSUME UNCHANGED <<result, answer>>, pc[t] \in Later, Following(t) PROVE Moved
    <2>1. t # 1 /\ cur[t] \in Ops
      BY <1>16
    <2>2. CASE pc' = [pc EXCEPT ![t] = "recover"] /\ cur' = [cur EXCEPT ![t] = cur[t] + 1]
                 /\ cur[t] < MaxOps
      <3>1. cur[t] + 1 \in Ops
        BY <2>1, <2>2
      <3> QED
        BY <1>16, <2>1, <2>2, <3>1
    <2>3. CASE pc' = [pc EXCEPT ![t] = "ending"] /\ UNCHANGED cur
      BY <1>16, <2>1, <2>3
    <2> QED
      BY <1>16, <2>2, <2>3 DEF Following
  <1>4. ASSUME Claim(t) \/ Begin(t) PROVE Moved
    <2>1. CASE Claim(t)
      BY <2>1 DEF Claim
    <2>2. CASE Begin(t)
      <3>1. CASE EndWith(t, "policy_disabled") /\ UNCHANGED cur
        BY <2>2, <3>1 DEF Begin
      <3>2. CASE t = 1 /\ GoTo(t, "opening") /\ UNCHANGED cur
        BY <2>2, <3>2 DEF Begin
      <3>3. CASE t > 1 /\ GoTo(t, "recover") /\ cur' = [cur EXCEPT ![t] = 1]
        BY <2>2, <3>3 DEF Begin
      <3> QED
        BY <2>2, <3>1, <3>2, <3>3 DEF Begin
    <2> QED
      BY <1>4, <2>1, <2>2
  <1>5. ASSUME Crash(t) \/ Finish(t) \/ Fenced(t) PROVE Moved
    <2>1. CASE Crash(t)
      BY <1>2, <2>1 DEF Crash, Forget
    <2>2. CASE Finish(t)
      BY <1>2, <2>2 DEF Finish, Forget
    <2>3. CASE Fenced(t)
      BY <1>2, <2>3 DEF Fenced, Forget
    <2> QED
      BY <1>5, <2>1, <2>2, <2>3
  <1>6. ASSUME Close(t) \/ Publish(t) \/ OpenWorker(t) \/ OpenFails(t) \/ EndExploration(t)
        PROVE  Moved
    BY <1>6 DEF Close, Publish, OpenWorker, OpenFails, EndExploration
  <1>7. ASSUME StartOp(t) PROVE Moved
    BY <1>2, <1>7 DEF StartOp
  <1>8. ASSUME Answered(t) \/ ReadInstead(t) PROVE Moved
    BY <1>2, <1>3, <1>8 DEF Answered, ReadInstead
  <1>9. ASSUME CommitBefore(t) \/ CommitAfter(t) PROVE Moved
    BY <1>9 DEF CommitBefore, CommitAfter
  <1>10. ASSUME Authorize(t) \/ Stop(t) \/ Ack(t) \/ AckFails(t) PROVE Moved
    BY <1>2, <1>10 DEF Authorize, Stop, Ack, AckFails
  <1>11. ASSUME NothingToRecover(t) \/ RecoverRead(t) \/ ReconcileFails(t) PROVE Moved
    BY <1>11 DEF NothingToRecover, RecoverRead, ReconcileFails
  <1>12. ASSUME ReconcileSame(t) \/ ReconcileOutcome(t) PROVE Moved
    <2>1. CASE ReconcileSame(t)
      BY <1>3, <2>1 DEF ReconcileSame
    <2>2. CASE ReconcileOutcome(t)
      BY <1>3, <2>2 DEF ReconcileOutcome
    <2> QED
      BY <1>12, <2>1, <2>2
  <1>13. ASSUME RecoverFails(t) \/ ReconcileDiffers(t) PROVE Moved
    <2>1. CASE RecoverFails(t)
      BY <1>16, <2>1 DEF RecoverFails
    <2>2. CASE ReconcileDiffers(t)
      BY <1>16, <2>2 DEF ReconcileDiffers
    <2> QED
      BY <1>13, <2>1, <2>2
  <1>14. ASSUME AckAgain(t) \/ AckAgainFails(t) PROVE Moved
    <2>1. CASE AckAgain(t)
      BY <1>16, <2>1 DEF AckAgain
    <2>2. CASE AckAgainFails(t)
      <3>1. CASE pc[t] = "ackAgain" /\ Following(t)
        BY <1>16, <2>2, <3>1 DEF AckAgainFails
      <3>2. CASE EndWith(t, "visual_exploration_unavailable") /\ UNCHANGED cur
        BY <2>2, <3>2 DEF AckAgainFails
      <3> QED
        BY <2>2, <3>1, <3>2 DEF AckAgainFails
    <2> QED
      BY <1>14, <2>1, <2>2
  <1> HIDE DEF Moved
  <1>15. Moved
    BY <1>4, <1>5, <1>6, <1>7, <1>8, <1>9, <1>10, <1>11, <1>12, <1>13, <1>14, Zenon
    DEF ExplorerStep, Exploring, Recovering
  <1> QED
    BY <1>15 DEF Moved

\* Nobody else moves an explorer; an answer comes from the worker.
LEMMA WorkerAnswers ==
  ASSUME TypeInv, [Next]_vars,
         ~\E t \in Explorers : Claim(t) \/ ExplorerStep(t) \/ Crash(t)
  PROVE  /\ UNCHANGED <<pc, cur, result>>
         /\ \/ UNCHANGED answer
            \/ EndPrepare \/ EndExecute \/ \E o \in Ops : AnswerExecute(o)
  <1>1. CASE UNCHANGED vars
    BY <1>1, Zenon DEF vars, explorerVars
  <1>2. CASE PublishProcessed \/ LeaseLapses \/ LeaseExpires \/ RestartWorker
    BY <1>2, Zenon DEF PublishProcessed, LeaseLapses, LeaseExpires, RestartWorker, explorerVars
  <1>3. CASE WorkerStep
    BY <1>3, Zenon DEF WorkerStep, TakePrepare, AnswerExecute, TakeExecute, CaptureBefore,
                EndPrepare, CheckTarget, Act, EndExecute, Expire, CloseBrowser, explorerVars
  <1> QED
    BY <1>1, <1>2, <1>3, Zenon DEF Next

LEMMA TypeStep ==
  ASSUME TypeInv, [Next]_vars
  PROVE  TypeInv'
  <1>1. WorkerTypes' /\ TraceTypes'
    BY WorkerTypesStep, TraceTypesStep
  <1>2. ExplorerTypes' /\ \A u \in Explorers : Place(u)'
    <2>1. ASSUME NEW t \in Explorers, Claim(t) \/ ExplorerStep(t) \/ Crash(t)
          PROVE  ExplorerTypes' /\ \A u \in Explorers : Place(u)'
      <3>1. ExplorerTypes' /\ Others(t) /\ Place(t)'
        BY <2>1, ExplorerMoves
      <3> QED
        BY <3>1 DEF Others, Place, TypeInv, Who
    <2>2. ASSUME ~\E t \in Explorers : Claim(t) \/ ExplorerStep(t) \/ Crash(t)
          PROVE  ExplorerTypes' /\ \A u \in Explorers : Place(u)'
      <3>1. UNCHANGED <<pc, cur, result>>
        BY <2>2, WorkerAnswers
      <3>2. answer' \in Replies
        <4>1. ASSUME NEW o \in Ops, NEW kind, NEW s \in WorkerStatus, EndJob(kind, o, s)
              PROVE  answer' \in Replies
          BY <1>1, <4>1 DEF EndJob, Replies, WorkerTypes, TypeInv, ExplorerTypes
        <4>2. CASE EndPrepare
          BY <1>1, <4>1, <4>2 DEF EndPrepare, TypeInv, Who, WorkerTypes
        <4>3. CASE EndExecute
          BY <1>1, <4>1, <4>3 DEF EndExecute, TypeInv, Who, WorkerTypes
        <4>4. ASSUME NEW o \in Ops, AnswerExecute(o) PROVE answer' \in Replies
          BY <1>1, <4>1, <4>4 DEF AnswerExecute, TypeInv, WorkerTypes
        <4> QED
          BY <2>2, <4>2, <4>3, <4>4, WorkerAnswers DEF TypeInv, ExplorerTypes
      <3> QED
        BY <3>1, <3>2 DEF ExplorerTypes, Place, TypeInv, Who
    <2> QED
      BY <2>1, <2>2
  <1>3. token' = 0 => pc'[1] = "none"
    <2>1. token' = token \/ \E t \in Explorers : Claim(t)
      BY SessionMoves DEF Begin, Finish
    <2>2. ASSUME NEW t \in Explorers, Claim(t) PROVE token' # 0
      BY <2>2 DEF Claim
    <2>3. ASSUME token' = 0 PROVE pc'[1] = "none"
      <3>1. token = 0 /\ pc[1] = "none"
        BY <2>1, <2>2, <2>3 DEF TypeInv, Who
      <3>2. ASSUME NEW t \in Explorers, ExplorerStep(t) \/ Crash(t) PROVE pc'[1] = "none"
        <4>1. pc[t] # "none"
          BY <3>2, Zenon DEF ExplorerStep, Exploring, Recovering, Crash, Alive, Begin, Finish, Fenced, Close,
             Publish, OpenWorker, OpenFails, EndExploration, StartOp, Answered, ReadInstead,
             CommitBefore, Authorize, CommitAfter, Stop, Ack, AckFails, NothingToRecover,
             RecoverRead, RecoverFails, ReconcileSame, ReconcileOutcome, ReconcileDiffers,
             ReconcileFails, AckAgain, AckAgainFails, Writing
        <4> QED
          BY <3>1, <3>2, <4>1, ExplorerMoves DEF Others
      <3> QED
        BY <2>2, <2>3, <3>1, <3>2, WorkerAnswers
    <2> QED
      BY <2>3
  <1>4. job'.kind # "none" => worker' = "open" /\ job'.op \in Ops /\ wop'[job'.op] # "none"
    <2> DEFINE Known == job'.kind # "none" =>
                          worker' = "open" /\ job'.op \in Ops /\ wop'[job'.op] # "none"
    <2> SUFFICES Known
      BY DEF Known
    <2> USE DEF TypeInv, WorkerTypes, Who
    <2>1. CASE UNCHANGED workerVars
      BY <2>1 DEF workerVars
    <2>2. CASE Emptied
      BY <2>2 DEF Emptied, Idle
    <2>3. ASSUME NEW t \in Explorers, OpenWorker(t) \/ Ack(t) \/ AckAgain(t) PROVE Known
      BY <2>3 DEF OpenWorker, Ack, AckAgain, Acknowledge
    <2>4. ASSUME NEW o \in Ops, TakePrepare(o) \/ TakeExecute(o) PROVE Known
      BY <2>4 DEF TakePrepare, TakeExecute
    <2>5. ASSUME NEW o \in Ops, AnswerExecute(o) PROVE Known
      BY <2>5 DEF AnswerExecute, EndJob, Idle
    <2>6. CASE EndPrepare \/ EndExecute
      BY <2>6 DEF EndPrepare, EndExecute, EndJob, Idle
    <2>7. CASE CaptureBefore
      BY <2>7 DEF CaptureBefore, Jobs
    <2>8. CASE CheckTarget
      BY <2>8 DEF CheckTarget, Jobs
    <2>9. CASE Act
      BY <2>9 DEF Act, Jobs
    <2>10. CASE Expire
      BY <2>10 DEF Expire
    <2>11. CASE CloseBrowser
      BY <2>11 DEF CloseBrowser
    <2> HIDE DEF TypeInv, WorkerTypes, Known
    <2>12. CASE WorkerStep
      BY <2>4, <2>5, <2>6, <2>7, <2>8, <2>9, <2>10, <2>11, <2>12, Zenon DEF WorkerStep
    <2> QED
      BY <2>1, <2>2, <2>3, <2>12, WorkerMoves
  <1> QED
    BY <1>1, <1>2, <1>3, <1>4 DEF TypeInv, Who, Place

\* The types of the trace, of the explorers and of the worker.
THEOREM TypeCorrect == Spec => []TypeOK
  <1>1. TypeInv => TypeOK
    BY DEF TypeInv, TypeOK, TraceTypes, ExplorerTypes, WorkerTypes, WorkerStatus, Pictures
  <1>2. Spec => []TypeInv
    BY InitType, TypeStep, PTL DEF Spec
  <1> QED
    BY <1>1, <1>2, PTL

-----------------------------------------------------------------------------
(* A session that is over.                                                 *)

LEMMA QuietInit == Init => Quiet
  BY DEF Init, Quiet, SessionFinal

\* From where a session is left there is no way back.
LEMMA OverStays ==
  ASSUME TypeInv, [Next]_vars, NEW u \in Explorers, pc[u] \in Over, token = u
  PROVE  pc'[u] \in Over
  <1>1. ASSUME NEW t \in Explorers, Claim(t) PROVE pc'[u] \in Over
    BY <1>1, ExplorerMoves DEF Claim, Others
  <1>2. ASSUME NEW t \in Explorers, ExplorerStep(t) \/ Crash(t) PROVE pc'[u] \in Over
    <2>1. CASE t # u
      BY <1>2, <2>1, ExplorerMoves DEF Others
    <2>2. CASE t = u
      <3>1. Close(u) \/ Publish(u) \/ Crash(u)
        BY <1>2, <2>2 DEF Over, ExplorerStep, Exploring, Recovering, Begin, Finish, Fenced,
           OpenWorker, OpenFails, EndExploration, StartOp, Answered, ReadInstead,
           CommitBefore, Authorize, CommitAfter, Stop, Ack, AckFails, NothingToRecover,
           RecoverRead, RecoverFails, ReconcileSame, ReconcileOutcome, ReconcileDiffers,
           ReconcileFails, AckAgain, AckAgainFails, Writing
      <3> QED
        BY <3>1 DEF Close, Publish, Crash, GoTo, Over, TypeInv, ExplorerTypes
    <2> QED
      BY <2>1, <2>2
  <1> QED
    BY <1>1, <1>2, WorkerAnswers

LEMMA QuietStep ==
  ASSUME TypeInv, Quiet, [Next]_vars
  PROVE  Quiet'
  <1>1. CASE UNCHANGED <<sess, token>>
    BY <1>1, OverStays DEF Quiet
  <1>2. ASSUME NEW t \in Explorers, Claim(t) PROVE Quiet'
    BY <1>2 DEF Claim, Quiet, SessionFinal
  <1>3. ASSUME NEW t \in Explorers, Begin(t) PROVE Quiet'
    BY <1>3 DEF Begin, Quiet, SessionFinal
  <1>4. ASSUME NEW t \in Explorers, Finish(t) PROVE Quiet'
    BY <1>4 DEF Finish, Owns, Quiet, GoTo, Over, TypeInv, ExplorerTypes
  <1> QED
    BY <1>1, <1>2, <1>3, <1>4, SessionMoves

\* Nobody who could write holds the lease of a session that is over.
LEMMA QuietMeansQuiet ==
  ASSUME TypeInv, Quiet, [Next]_vars, sess \in SessionFinal
  PROVE  UNCHANGED <<sess, reason, traceVars>>
  <1>1. ASSUME NEW t \in Explorers PROVE ~Claim(t)
    BY DEF Claim, SessionFinal
  <1>2. ASSUME NEW t \in Explorers, Owns(t) PROVE pc[t] \in Over
    BY <1>2 DEF Owns, Quiet
  <1>3. ASSUME NEW t \in Explorers
        PROVE  /\ ~Begin(t) /\ ~Finish(t) /\ ~StartOp(t) /\ ~CommitBefore(t) /\ ~Authorize(t)
               /\ ~CommitAfter(t) /\ ~Stop(t) /\ ~ReconcileOutcome(t) /\ ~ReconcileFails(t)
    BY <1>2 DEF Begin, Finish, StartOp, CommitBefore, Authorize, CommitAfter, Stop,
                ReconcileOutcome, ReconcileFails, Over
  <1>4. ASSUME NEW t \in Explorers, RecoverRead(t) \/ RecoverFails(t)
        PROVE  UNCHANGED <<sess, reason, traceVars>>
    BY <1>2, <1>4 DEF RecoverRead, RecoverFails, Over, traceVars
  <1> USE DEF traceVars, dbVars
  <1>5. CASE UNCHANGED vars
    BY <1>5 DEF vars
  <1>6. ASSUME NEW t \in Explorers, Crash(t) \/ Fenced(t) \/ Close(t) \/ Publish(t)
        PROVE  UNCHANGED <<sess, reason, traceVars>>
    BY <1>6, Zenon DEF Crash, Fenced, Close, Publish
  <1>7. ASSUME NEW t \in Explorers, Exploring(t)
        PROVE  UNCHANGED <<sess, reason, traceVars>>
    BY <1>3, <1>7, Zenon DEF Exploring, OpenWorker, OpenFails, EndExploration, Answered,
                ReadInstead, Ack, AckFails
  <1>8. ASSUME NEW t \in Explorers, Recovering(t)
        PROVE  UNCHANGED <<sess, reason, traceVars>>
    BY <1>3, <1>4, <1>8, Zenon DEF Recovering, NothingToRecover, ReconcileSame,
                ReconcileDiffers, AckAgain, AckAgainFails
  <1>9. CASE PublishProcessed \/ LeaseLapses \/ LeaseExpires \/ RestartWorker
    BY <1>9, Zenon DEF PublishProcessed, LeaseLapses, LeaseExpires, RestartWorker
  <1>10. CASE WorkerStep
    BY <1>10, Zenon DEF WorkerStep, TakePrepare, AnswerExecute, TakeExecute, CaptureBefore,
                EndPrepare, CheckTarget, Act, EndExecute, Expire, CloseBrowser
  <1> QED
    BY <1>1, <1>3, <1>5, <1>6, <1>7, <1>8, <1>9, <1>10, Zenon DEF Next, ExplorerStep

\* The trace of a session that is over does not change, however many explorers that lost
\* their lease are still on their way (repositories.py checks the lease in every write).
THEOREM EndIsQuiet == Spec => EndedIsQuiet
  <1>1. Init => TypeInv /\ Quiet
    BY InitType, QuietInit
  <1>2. TypeInv /\ Quiet /\ [Next]_vars => (TypeInv /\ Quiet)'
    BY TypeStep, QuietStep
  <1>3. TypeInv /\ Quiet /\ [Next]_vars =>
          [(sess \in SessionFinal) => UNCHANGED <<sess, reason, traceVars>>]_vars
    BY QuietMeansQuiet
  <1> QED
    BY <1>1, <1>2, <1>3, PTL DEF Spec, EndedIsQuiet

-----------------------------------------------------------------------------
(* The invariant holds in the beginning.                                   *)

LEMMA IInvInit == Init => IInv
  <1> SUFFICES ASSUME Init PROVE IInv
    OBVIOUS
  <1>1. TypeInv
    BY InitType
  <1>2. WorkerInv
    BY DEF Init, WorkerInv, AtWork, Record, Idle
  <1>3. Announced /\ Requests
    BY DEF Init, Announced, Requests, Sent, InMail, Executes, Idle
  <1>4. Explorer
    BY DEF Init, Explorer, Mine, First, Working
  <1>5. Rejected
    BY DEF Init, Rejected
  <1>6. Happened
    BY DEF Init, Happened, Done
  <1>7. Evidence
    BY DEF Init, Evidence
  <1> QED
    BY <1>1, <1>2, <1>3, <1>4, <1>5, <1>6, <1>7 DEF IInv

-----------------------------------------------------------------------------
(* The worker's memory.                                                    *)

LEMMA WorkerInvStep ==
  ASSUME TypeInv, WorkerInv, Requests, [Next]_vars
  PROVE  WorkerInv'
  <1>0. WorkerTypes /\ WorkerTypes'
    BY TypeStep DEF TypeInv
  <1>00. job.kind # "none" => worker = "open" /\ job.op \in Ops /\ wop[job.op] # "none"
    BY DEF TypeInv, Who
  <1> USE <1>0, <1>00 DEF WorkerInv, AtWork, Record, WorkerTypes
  <1>1. CASE UNCHANGED workerVars
    BY <1>1 DEF workerVars
  <1>2. CASE Emptied
    BY <1>2 DEF Emptied, Idle
  <1>3. ASSUME NEW t \in Explorers, OpenWorker(t) \/ Ack(t) \/ AckAgain(t) PROVE WorkerInv'
    BY <1>3 DEF OpenWorker, Ack, AckAgain, Acknowledge
  <1>4. ASSUME NEW o \in Ops, TakePrepare(o) PROVE WorkerInv'
    <2>1. wop[o] = "none" /\ effects[o] = 0
      BY <1>4 DEF TakePrepare, Requests, InMail
    <2> QED
      BY <1>4, <2>1 DEF TakePrepare, Idle
  <1>5. ASSUME NEW o \in Ops, AnswerExecute(o) PROVE WorkerInv'
    BY <1>5 DEF AnswerExecute, EndJob, Idle
  <1>6. ASSUME NEW o \in Ops, TakeExecute(o) PROVE WorkerInv'
    BY <1>6 DEF TakeExecute, RemoteFinal, Idle
  <1>7. CASE CaptureBefore
    BY <1>7 DEF CaptureBefore, Jobs
  <1>8. CASE EndPrepare
    BY <1>8 DEF EndPrepare, EndJob, Idle, Finalized, Open
  <1>9. CASE CheckTarget
    <2>1. job.op \in Ops /\ effects[job.op] = 0 /\ UNCHANGED <<effects, worker>>
      BY <1>9 DEF CheckTarget
    <2>2. CASE UNCHANGED wop
      BY <1>9, <2>1, <2>2 DEF CheckTarget, RemoteFinal, Jobs
    <2>3. CASE wop' = [wop EXCEPT ![job.op] = "executing"]
      <3>1. job' = [job EXCEPT !.stage = "end", !.verdict = "unknown"]
              \/ job' = [job EXCEPT !.stage = "act", !.verdict = "unknown"]
              \/ job' = [job EXCEPT !.stage = "end"]
        BY <1>9 DEF CheckTarget
      <3>2. job'.kind = "execute" /\ job'.op = job.op /\ job'.stage \in {"act", "end"}
              /\ job'.verdict \in {"unknown", "rejected"}
              /\ (job'.stage = "act" => job'.verdict = "unknown")
        BY <1>9, <3>1 DEF CheckTarget, Jobs
      <3>3. \A o \in Ops : wop'[o] = IF o = job.op THEN "executing" ELSE wop[o]
        BY <2>1, <2>3
      <3>4. AtWork'
        BY <2>1, <3>2, <3>3 DEF RemoteFinal
      <3>5. ASSUME NEW o \in Ops PROVE Record(o)'
        BY <1>9, <2>1, <3>2, <3>3 DEF CheckTarget
      <3> QED
        BY <3>4, <3>5
    <2> QED
      BY <1>9, <2>2, <2>3 DEF CheckTarget
  <1>10. CASE Act
    <2>1. job.op \in Ops /\ effects[job.op] = 0 /\ UNCHANGED <<wop, worker>>
            /\ wop[job.op] \in {"executing", "unknown"} /\ job.verdict = "unknown"
            /\ job.kind = "execute"
      BY <1>10 DEF Act
    <2>2. \/ UNCHANGED effects /\ job' = [job EXCEPT !.stage = "end"]
          \/ /\ effects' = [effects EXCEPT ![job.op] = 1]
             /\ \E v \in {"completed", "failed", "unknown"} :
                  job' = [job EXCEPT !.stage = "end", !.verdict = v]
      BY <1>10, <2>1 DEF Act
    <2>3. job'.kind = "execute" /\ job'.op = job.op /\ job'.stage = "end"
            /\ job'.verdict \in {"completed", "failed", "unknown"}
            /\ (job'.verdict # "unknown" => effects'[job.op] = 1)
      BY <2>1, <2>2 DEF Jobs
    <2>4. \A o \in Ops : effects'[o] = effects[o] \/ (o = job.op /\ effects'[o] = 1)
      BY <2>1, <2>2
    <2>5. AtWork'
      BY <2>1, <2>3 DEF RemoteFinal
    <2>6. ASSUME NEW o \in Ops PROVE Record(o)'
      BY <2>1, <2>3, <2>4
    <2> QED
      BY <2>5, <2>6
  <1>11. CASE EndExecute
    <2>1. job.op \in Ops /\ job' = Idle /\ UNCHANGED <<effects, worker>>
      BY <1>11 DEF EndExecute, EndJob
    <2>2. PICK v \in {job.verdict} \cup (IF job.verdict = "completed" THEN {"failed"} ELSE {}) :
             wop' = [wop EXCEPT ![job.op] = Finalized(job.op, v)]
      BY <1>11 DEF EndExecute
    <2>3. /\ v \in RemoteFinal
          /\ v \in {"completed", "failed"} => effects[job.op] = 1
          /\ v = "rejected" => effects[job.op] = 0
      BY <1>11, <2>2 DEF EndExecute, RemoteFinal
    <2>4. ASSUME NEW o \in Ops PROVE Record(o)'
      BY <1>11, <2>1, <2>2, <2>3 DEF EndExecute, Finalized, Open, RemoteFinal
    <2> QED
      BY <2>1, <2>4 DEF Idle
  <1>12. CASE Expire
    <2>1. \A o \in Ops : wop'[o] = CASE wop[o] = "executing" -> "unknown"
                                      [] wop[o] = "prepared" -> "rejected"
                                      [] OTHER -> wop[o]
      BY <1>12 DEF Expire
    <2>2. UNCHANGED <<worker, job, effects>>
      BY <1>12 DEF Expire
    <2>3. AtWork'
      BY <2>1, <2>2
    <2>4. ASSUME NEW o \in Ops PROVE Record(o)'
      BY <1>12, <2>1, <2>2 DEF Expire
    <2> QED
      BY <2>3, <2>4
  <1>13. CASE CloseBrowser
    BY <1>13 DEF CloseBrowser
  <1> HIDE DEF WorkerInv
  <1>14. CASE WorkerStep
    BY <1>4, <1>5, <1>6, <1>7, <1>8, <1>9, <1>10, <1>11, <1>12, <1>13, <1>14, Zenon
    DEF WorkerStep
  <1> QED
    BY <1>1, <1>2, <1>3, <1>14, WorkerMoves

-----------------------------------------------------------------------------
(* The moves of the trace and of explorer 1, as far as the rest of the     *)
(* invariant tells them apart.                                             *)

\* Another explorer writes an outcome only of an open operation, and owns the session.
Recovers(t) ==
    /\ t # 1 /\ token = t /\ cur[t] \in Ops /\ op[cur[t]] \in Open
    /\ \/ op' = [op EXCEPT ![cur[t]] = "lost"] /\ UNCHANGED frames
       \/ ReconcileOutcome(t)

LEMMA WritesOf ==
  ASSUME TypeInv, [Next]_vars
  PROVE  \/ UNCHANGED <<op, frames>>
         \/ StartOp(1) \/ CommitBefore(1) \/ Authorize(1) \/ CommitAfter(1) \/ Stop(1)
         \/ \E t \in Explorers : Recovers(t)
  <1>1. ASSUME NEW t \in Explorers,
               StartOp(t) \/ CommitBefore(t) \/ Authorize(t) \/ CommitAfter(t) \/ Stop(t)
        PROVE  t = 1
    <2>1. pc[t] \in First
      BY <1>1 DEF StartOp, CommitBefore, Authorize, CommitAfter, Stop, First, Working
    <2> QED
      BY <2>1 DEF TypeInv, Who
  <1>2. ASSUME NEW t \in Explorers, RecoverFails(t) \/ ReconcileOutcome(t) \/ ReconcileFails(t)
        PROVE  t # 1 /\ cur[t] \in Ops
    <2>1. pc[t] \in Later
      BY <1>2 DEF RecoverFails, ReconcileOutcome, ReconcileFails, Later
    <2> QED
      BY <2>1 DEF TypeInv, Who
  <1>3. ASSUME NEW t \in Explorers, RecoverFails(t) PROVE UNCHANGED <<op, frames>> \/ Recovers(t)
    BY <1>2, <1>3 DEF RecoverFails, Recovers, Owns, Save
  <1>4. ASSUME NEW t \in Explorers, ReconcileOutcome(t) PROVE Recovers(t)
    BY <1>2, <1>4 DEF ReconcileOutcome, Recovers, Owns, Open
  <1>5. ASSUME NEW t \in Explorers, ReconcileFails(t) PROVE Recovers(t)
    BY <1>2, <1>5 DEF ReconcileFails, Recovers, Owns, Save
  <1> QED
    BY <1>1, <1>3, <1>4, <1>5, TraceMoves DEF Writes

\* Frames are only added; an operation changes only while it is open.
LEMMA TraceGrows ==
  ASSUME IInv, [Next]_vars, NEW o \in Ops
  PROVE  /\ frames[o] \subseteq frames'[o]
         /\ op[o] # "none" => op'[o] # "none"
         /\ op'[o] # op[o] => op[o] \in Open \cup {"none"}
         /\ op[o] = "executing" => op'[o] \notin {"none", "prepared", "abandoned"}
  <1>1. TraceTypes /\ 1 \in Explorers
    BY DEF IInv, TypeInv
  <1>2. op'[o] \in Final \cup Open \cup {"none"}
    BY TypeStep DEF IInv, TypeInv, TraceTypes
  <1> USE <1>1 DEF TraceTypes, Save, Owns
  <1>3. CASE UNCHANGED <<op, frames>>
    BY <1>3
  <1>4. CASE StartOp(1)
    <2>1. cur'[1] = cur[1] + 1 /\ op[cur[1] + 1] = "none" /\ cur[1] + 1 \in Ops
      BY <1>4 DEF StartOp, IInv, TypeInv, ExplorerTypes, Explorer, First
    <2> QED
      BY <1>4, <2>1 DEF StartOp
  <1>5. CASE CommitBefore(1)
    <2>1. op[cur[1]] = "prepared" /\ result[1].status # "none"
      BY <1>5 DEF CommitBefore, IInv, Explorer, Mine, RemoteFinal
    <2> QED
      BY <1>5, <2>1 DEF CommitBefore, Open
  <1>6. CASE Authorize(1)
    <2>1. op[cur[1]] = "prepared"
      BY <1>6 DEF Authorize, IInv, Explorer, Mine
    <2> QED
      BY <1>6, <2>1 DEF Authorize, Open
  <1>7. CASE CommitAfter(1)
    <2>1. op[cur[1]] = "executing" /\ result[1].status \in RemoteFinal
      BY <1>7 DEF CommitAfter, IInv, Explorer, Mine, RemoteFinal
    <2> QED
      BY <1>7, <2>1 DEF CommitAfter, Open, RemoteFinal
  <1>8. CASE Stop(1)
    <2>1. op[cur[1]] \in Open
      BY <1>8 DEF Stop, IInv, Explorer, Mine, Open
    <2> QED
      BY <1>8, <2>1 DEF Stop
  <1>9. ASSUME NEW t \in Explorers, Recovers(t)
        PROVE  /\ frames[o] \subseteq frames'[o]
               /\ op[o] # "none" => op'[o] # "none"
               /\ op'[o] # op[o] => op[o] \in Open \cup {"none"}
               /\ op[o] = "executing" => op'[o] \notin {"none", "prepared", "abandoned"}
    <2>1. CASE op' = [op EXCEPT ![cur[t]] = "lost"] /\ UNCHANGED frames
      BY <1>9, <2>1 DEF Recovers
    <2>2. CASE ReconcileOutcome(t)
      BY <1>9, <2>2 DEF Recovers, ReconcileOutcome, RemoteFinal
    <2> QED
      BY <1>9, <2>1, <2>2 DEF Recovers
  <1> QED
    BY <1>3, <1>4, <1>5, <1>6, <1>7, <1>8, <1>9, WritesOf DEF IInv

\* Explorer 1 stays as it is, or leaves, or does one of its own steps.
FirstStep ==
    \/ Claim(1) \/ Begin(1) \/ OpenWorker(1) \/ StartOp(1) \/ Answered(1) \/ ReadInstead(1)
    \/ CommitBefore(1) \/ Authorize(1) \/ CommitAfter(1) \/ Ack(1)
FirstSame == pc'[1] = pc[1] /\ cur'[1] = cur[1] /\ result'[1] = result[1] /\ answer' = answer

LEMMA FirstMoves ==
  ASSUME TypeInv, [Next]_vars
  PROVE  \/ FirstSame \/ FirstStep
         \/ pc'[1] \in Over \cup {"ending"}
         \/ EndPrepare \/ EndExecute \/ \E o \in Ops : AnswerExecute(o)
  <1> USE DEF TypeInv, ExplorerTypes
  <1>1. ASSUME NEW t \in Explorers, t # 1, Claim(t) \/ ExplorerStep(t) \/ Crash(t)
        PROVE  FirstSame
    <2>1. answer' = answer
      <3>1. pc[t] \notin First
        BY <1>1 DEF Who
      <3> QED
        BY <1>1, <3>1 DEF First, Working, ExplorerStep, Exploring, Recovering, explorerVars,
           Claim, Crash, Begin, Finish, Fenced, Forget, Close, Publish,
           OpenWorker, OpenFails, EndExploration, StartOp, Answered, ReadInstead,
           CommitBefore, Authorize, CommitAfter, Stop, Ack, AckFails, NothingToRecover,
           RecoverRead, RecoverFails, ReconcileSame, ReconcileOutcome, ReconcileDiffers,
           ReconcileFails, AckAgain, AckAgainFails
    <2> QED
      BY <1>1, <2>1, ExplorerMoves DEF Others, FirstSame
  <1>2. ASSUME Claim(1) \/ ExplorerStep(1) \/ Crash(1)
        PROVE  FirstStep \/ pc'[1] \in Over \cup {"ending"}
    <2>1. pc[1] \notin Later
      BY DEF Who
    <2>2. ~Recovering(1)
      BY <2>1 DEF Recovering, Later, NothingToRecover, RecoverRead, RecoverFails, ReconcileSame,
         ReconcileOutcome, ReconcileDiffers, ReconcileFails, AckAgain, AckAgainFails
    <2>3. CASE Crash(1) \/ Finish(1) \/ Fenced(1) \/ Close(1) \/ Publish(1) \/ OpenFails(1)
                 \/ EndExploration(1) \/ Stop(1) \/ AckFails(1)
      BY <2>3 DEF Crash, Finish, Fenced, Close, Publish, OpenFails, EndExploration, Stop,
         AckFails, GoTo, EndWith, Over
    <2> QED
      BY <1>2, <2>2, <2>3, Zenon DEF ExplorerStep, Exploring, FirstStep
  <1> QED
    BY <1>1, <1>2, WorkerAnswers DEF FirstSame

\* What can change in the worker, for one operation.
LEMMA WorkerChanges ==
  ASSUME IInv, [Next]_vars, NEW o \in Ops
  PROVE  /\ \/ effects'[o] = effects[o]
            \/ Executes(o) /\ job.stage = "act" /\ effects[o] = 0 /\ effects'[o] = 1
         /\ wop[o] = "none" /\ wop'[o] # "none" => TakePrepare(o)
         /\ Executes(o)' => Executes(o) \/ TakeExecute(o)
         /\ worker = "gone" => worker' = "gone"
         /\ wop[o] \notin {"none", "prepared"} =>
               wop'[o] \notin {"none", "prepared"} \/ worker' = "gone"
         /\ Executes(o) /\ Executes(o)' =>
               /\ job'.stage = "act" => job.stage = "act" \/ (job.stage = "check" /\ ~expired)
               /\ job'.stage = "check" => job.stage = "check" /\ (expired => expired')
  <1> DEFINE Effect == \/ effects'[o] = effects[o]
                       \/ Executes(o) /\ job.stage = "act" /\ effects[o] = 0 /\ effects'[o] = 1
             Known == wop[o] = "none" /\ wop'[o] # "none" => TakePrepare(o)
             Job == Executes(o)' => Executes(o) \/ TakeExecute(o)
             Gone == worker = "gone" => worker' = "gone"
             Told == wop[o] \notin {"none", "prepared"} =>
                       wop'[o] \notin {"none", "prepared"} \/ worker' = "gone"
             Stage == Executes(o) /\ Executes(o)' =>
                 /\ job'.stage = "act" => job.stage = "act" \/ (job.stage = "check" /\ ~expired)
                 /\ job'.stage = "check" => job.stage = "check" /\ (expired => expired')
             All == Effect /\ Known /\ Job /\ Gone /\ Told /\ Stage
  <1> SUFFICES All
    OBVIOUS
  <1>0. WorkerTypes /\ WorkerTypes' /\ AtWork
    BY TypeStep DEF IInv, TypeInv, WorkerInv
  <1>00. job.kind # "none" => worker = "open" /\ job.op \in Ops /\ wop[job.op] # "none"
    BY DEF IInv, TypeInv, Who
  <1> USE <1>0, <1>00 DEF WorkerTypes, Executes
  <1>1. CASE UNCHANGED workerVars
    BY <1>1 DEF workerVars
  <1>2. CASE Emptied
    BY <1>2 DEF Emptied, Idle
  <1>3. ASSUME NEW t \in Explorers, OpenWorker(t) \/ Ack(t) \/ AckAgain(t) PROVE All
    BY <1>3 DEF OpenWorker, Ack, AckAgain, Acknowledge
  <1>4. ASSUME NEW p \in Ops, TakePrepare(p) PROVE All
    <2>1. wop[p] = "none"
      BY <1>4 DEF TakePrepare, IInv, Requests, InMail
    <2> QED
      BY <1>4, <2>1 DEF TakePrepare, Idle
  <1>5. ASSUME NEW p \in Ops, AnswerExecute(p) PROVE All
    BY <1>5 DEF AnswerExecute, EndJob, Idle
  <1>6. ASSUME NEW p \in Ops, TakeExecute(p) PROVE All
    BY <1>6 DEF TakeExecute, Idle
  <1>7. CASE CaptureBefore
    BY <1>7 DEF CaptureBefore, Jobs
  <1>8. CASE EndPrepare
    BY <1>8 DEF EndPrepare, EndJob, Idle, Finalized, Open
  <1>9. CASE CheckTarget
    <2>1. \/ job' = [job EXCEPT !.stage = "end"]
          \/ expired /\ job' = [job EXCEPT !.stage = "end", !.verdict = "unknown"]
          \/ ~expired /\ job' = [job EXCEPT !.stage = "act", !.verdict = "unknown"]
      BY <1>9, Zenon DEF CheckTarget
    <2>2. Job /\ Stage
      BY <1>9, <2>1 DEF CheckTarget, Jobs
    <2>3. Effect /\ Known /\ Gone /\ Told
      BY <1>9 DEF CheckTarget
    <2> QED
      BY <2>2, <2>3
  <1>10. CASE Act
    <2>1. Effect
      BY <1>10 DEF Act, AtWork
    <2>2. Known /\ Job /\ Gone /\ Told /\ Stage
      BY <1>10 DEF Act, Jobs
    <2> QED
      BY <2>1, <2>2
  <1>11. CASE EndExecute
    <2>1. job.verdict \in RemoteFinal
      BY <1>11 DEF EndExecute, AtWork
    <2> QED
      BY <1>11, <2>1 DEF EndExecute, EndJob, Idle, Finalized, RemoteFinal
  <1>12. CASE Expire
    BY <1>12 DEF Expire
  <1>13. CASE CloseBrowser
    BY <1>13 DEF CloseBrowser
  <1> HIDE DEF All
  <1>14. CASE WorkerStep
    BY <1>4, <1>5, <1>6, <1>7, <1>8, <1>9, <1>10, <1>11, <1>12, <1>13, <1>14, Zenon
    DEF WorkerStep
  <1> QED
    BY <1>1, <1>2, <1>3, <1>14, WorkerMoves

\* Which requests may be new.
LEMMA MailChanges ==
  ASSUME IInv, [Next]_vars, NEW o \in Ops
  PROVE  /\ InMail("prepare", o)' => InMail("prepare", o) \/ (StartOp(1) /\ o = cur[1] + 1)
         /\ InMail("execute", o)' => InMail("execute", o) \/ (Authorize(1) /\ o = cur[1])
         /\ TakePrepare(o) => ~InMail("prepare", o)'
  <1>1. CASE mail' \subseteq mail
    BY <1>1 DEF InMail, TakePrepare
  <1>3. ASSUME NEW t \in Explorers, StartOp(t) \/ Authorize(t) PROVE t = 1
    BY <1>3 DEF StartOp, Authorize, First, Working, IInv, TypeInv, Who
  <1>4. TakePrepare(o) => ~InMail("prepare", o)'
    BY DEF TakePrepare, InMail
  <1>5. CASE StartOp(1)
    <2>1. mail' = mail \cup {<<"prepare", cur[1] + 1>>}
      BY <1>5 DEF StartOp, IInv, TypeInv, ExplorerTypes
    <2> QED
      BY <1>4, <1>5, <2>1 DEF InMail
  <1>6. CASE Authorize(1)
    BY <1>4, <1>6 DEF Authorize, InMail
  <1> QED
    BY <1>1, <1>3, <1>5, <1>6, MailMoves

-----------------------------------------------------------------------------
(* What is on its way.                                                     *)

LEMMA AnnouncedStep ==
  ASSUME IInv, [Next]_vars
  PROVE  Announced'
  <1> SUFFICES ASSUME NEW o \in Ops, Sent(o)'
               PROVE  op'[o] \notin {"none", "prepared", "abandoned"} /\ "before" \in frames'[o]
    BY DEF Announced
  <1>0. TraceTypes /\ WorkerTypes
    BY DEF IInv, TypeInv
  <1>1. CASE Sent(o)
    <2>1. op[o] \notin {"none", "prepared", "abandoned"} /\ "before" \in frames[o]
      BY <1>1 DEF IInv, Announced
    <2>2. op'[o] # op[o] => op[o] = "executing"
      BY <2>1, TraceGrows DEF Open
    <2> QED
      BY <2>1, <2>2, TraceGrows
  <1>2. CASE ~Sent(o)
    <2>1. effects'[o] = effects[o] /\ ~Executes(o)'
      BY <1>2, WorkerChanges DEF Sent, TakeExecute, InMail
    <2>2. Authorize(1) /\ o = cur[1]
      BY <1>2, <2>1, MailChanges DEF Sent
    <2>3. "before" \in frames[o]
      BY <2>2 DEF Authorize, IInv, Explorer
    <2> QED
      BY <1>0, <2>2, <2>3 DEF Authorize, Save, TraceTypes
  <1> QED
    BY <1>1, <1>2

LEMMA RequestsStep ==
  ASSUME IInv, [Next]_vars
  PROVE  Requests'
  <1> SUFFICES ASSUME NEW o \in Ops
               PROVE  /\ InMail("prepare", o)' => /\ wop'[o] = "none" /\ effects'[o] = 0
                                                  /\ op'[o] # "none" /\ ~InMail("execute", o)'
                      /\ op'[o] = "none" => wop'[o] = "none"
    BY DEF Requests
  <1>0. TraceTypes /\ WorkerTypes
    BY DEF IInv, TypeInv
  <1>1. ASSUME InMail("prepare", o), InMail("prepare", o)'
        PROVE  wop'[o] = "none" /\ effects'[o] = 0 /\ op'[o] # "none" /\ ~InMail("execute", o)'
    <2>1. wop[o] = "none" /\ effects[o] = 0 /\ op[o] # "none" /\ ~InMail("execute", o)
      BY <1>1 DEF IInv, Requests
    <2>2. wop'[o] = "none" /\ op'[o] # "none"
      BY <1>1, <2>1, WorkerChanges, TraceGrows, MailChanges
    <2>3. effects'[o] = 0
      <3>1. ~Executes(o)
        BY <2>1 DEF Executes, IInv, TypeInv, Who
      <3> QED
        BY <2>1, <3>1, WorkerChanges
    <2>4. ~(Authorize(1) /\ o = cur[1])
      BY <1>1 DEF Authorize, IInv, Explorer
    <2> QED
      BY <2>1, <2>2, <2>3, <2>4, MailChanges
  <1>2. ASSUME StartOp(1), o = cur[1] + 1
        PROVE  wop'[o] = "none" /\ effects'[o] = 0 /\ op'[o] # "none" /\ ~InMail("execute", o)'
    <2>1. op[o] = "none"
      BY <1>2 DEF StartOp, IInv, TypeInv, ExplorerTypes, Explorer, First
    <2>2. wop[o] = "none" /\ effects[o] = 0 /\ ~InMail("execute", o)
      BY <1>0, <2>1 DEF IInv, Requests, Announced, Sent, WorkerTypes
    <2>3. cur'[1] = o
      BY <1>2 DEF StartOp, IInv, TypeInv, ExplorerTypes
    <2>4. op'[o] = "prepared"
      BY <1>0, <1>2, <2>3 DEF StartOp, Save, TraceTypes
    <2>5. ~InMail("execute", o)'
      BY <1>2, <2>2 DEF StartOp, InMail
    <2> QED
      BY <1>2, <2>2, <2>4, <2>5 DEF StartOp, workerVars
  <1>3. ASSUME op'[o] = "none" PROVE wop'[o] = "none"
    <2>1. op[o] = "none" /\ wop[o] = "none"
      BY <1>3, TraceGrows DEF IInv, Requests
    <2>2. ~TakePrepare(o)
      BY <2>1 DEF TakePrepare, InMail, IInv, Requests
    <2> QED
      BY <2>1, <2>2, WorkerChanges
  <1> QED
    BY <1>1, <1>2, <1>3, MailChanges

-----------------------------------------------------------------------------
(* What explorer 1 knows.                                                  *)

\* Whoever takes the session over is another explorer.
LEMMA TokenMoves ==
  ASSUME TypeInv, [Next]_vars
  PROVE  \/ token' = token
         \/ \E t \in Explorers : Claim(t) /\ token' = t /\ (t = 1 => token = 0 /\ pc[1] = "none")
  <1>1. ASSUME NEW t \in Explorers, Claim(t)
        PROVE  token' = t /\ (t = 1 => token = 0 /\ pc[1] = "none")
    BY <1>1 DEF Claim, TypeInv, Who, TraceTypes
  <1>2. ASSUME NEW t \in Explorers, Begin(t) \/ Finish(t) PROVE token' = token
    BY <1>2 DEF Begin, Finish
  <1> QED
    BY <1>1, <1>2, SessionMoves

\* While explorer 1 stays where it is, the trace changes only by somebody who owns the
\* session in its place.
LEMMA SameTrace ==
  ASSUME IInv, [Next]_vars, FirstSame
  PROVE  /\ UNCHANGED <<op, frames>> \/ \E t \in Explorers : Recovers(t)
         /\ ~StartOp(1) /\ ~Authorize(1)
  <1>1. ~StartOp(1) /\ ~CommitBefore(1) /\ ~Authorize(1) /\ ~CommitAfter(1) /\ ~Stop(1)
    BY DEF FirstSame, StartOp, CommitBefore, Authorize, CommitAfter, Stop, GoTo, EndWith, Final,
       IInv, TypeInv, ExplorerTypes
  <1> QED
    BY <1>1, WritesOf DEF IInv

LEMMA ExplorerSame ==
  ASSUME IInv, [Next]_vars, FirstSame
  PROVE  Explorer'
  <1>0. TraceTypes /\ ExplorerTypes
    BY DEF IInv, TypeInv
  <1>1. ASSUME NEW P, Mine(P)', "none" \notin P
        PROVE  Mine(P) /\ UNCHANGED <<op, frames>>
    <2>1. Mine(P)
      BY <1>1, TokenMoves DEF Mine, FirstSame, IInv
    <2> QED
      BY <2>1, SameTrace DEF Mine, Recovers
  <1>2. ASSUME pc'[1] \in First \cup {"none", "claimed"}, NEW o \in Ops, o > cur'[1]
        PROVE  op'[o] = "none"
    <2>1. op[o] = "none"
      BY <1>2 DEF FirstSame, IInv, Explorer
    <2>2. ASSUME NEW t \in Explorers, Recovers(t) PROVE op'[o] = op[o]
      BY <1>0, <2>1, <2>2 DEF Recovers, Open, ReconcileOutcome, Save, TraceTypes
    <2> QED
      BY <2>1, <2>2, SameTrace
  <1>3. pc[1] \in Working => cur[1] \in Ops
    BY DEF IInv, TypeInv, Who
  <1>4. ASSUME pc'[1] \in {"preparing", "prepared", "authorizing"}, ~InMail("prepare", cur[1])
        PROVE  ~InMail("prepare", cur[1])'
    <2>1. cur[1] \in Ops /\ cur'[1] = cur[1]
      BY <1>3, <1>4 DEF FirstSame, Working
    <2> QED
      BY <1>4, <2>1, MailChanges, SameTrace DEF InMail
  <1>5. ASSUME pc'[1] = "authorizing" PROVE result'[1].frames \subseteq frames'[cur'[1]]
    <2>1. cur[1] \in Ops /\ cur'[1] = cur[1] /\ result'[1] = result[1] /\ pc[1] = "authorizing"
      BY <1>3, <1>5 DEF FirstSame, Working
    <2>2. result[1].frames \subseteq frames[cur[1]]
      BY <2>1 DEF IInv, Explorer
    <2> QED
      BY <2>1, <2>2, TraceGrows
  <1>6. Mine({"preparing", "prepared", "authorizing"})' => op'[cur'[1]] = "prepared"
    BY <1>1 DEF FirstSame, IInv, Explorer
  <1>7. Mine({"executing", "executed"})' => op'[cur'[1]] = "executing"
    BY <1>1 DEF FirstSame, IInv, Explorer
  <1>8. /\ Mine({"prepared"})' => result'[1].status \in RemoteFinal \cup {"prepared"}
        /\ Mine({"preparing"})' /\ answer' # Nothing =>
              answer'.status \in RemoteFinal \cup {"prepared"}
    BY <1>1 DEF FirstSame, IInv, Explorer
  <1>9. /\ pc'[1] = "preparing" /\ answer' # Nothing => ~InMail("prepare", cur[1])'
        /\ pc'[1] \in {"prepared", "authorizing"} => ~InMail("prepare", cur[1])'
    BY <1>4 DEF FirstSame, IInv, Explorer
  <1> QED
    BY <1>2, <1>5, <1>6, <1>7, <1>8, <1>9 DEF Explorer

\* Nothing but the answer changes for the explorer.
LEMMA ExplorerAnswered ==
  ASSUME IInv, [Next]_vars, EndPrepare \/ EndExecute \/ \E o \in Ops : AnswerExecute(o)
  PROVE  Explorer'
  <1>1. UNCHANGED <<token, op, frames, pc, cur, result>> /\ mail' \subseteq mail
    BY DEF EndPrepare, EndExecute, AnswerExecute, dbVars, traceVars
  <1>2. ASSUME pc[1] = "preparing", answer' # answer
        PROVE  answer'.status \in RemoteFinal \cup {"prepared"} /\ ~InMail("prepare", cur[1])
    <2>1. EndPrepare /\ job.op = cur[1]
      BY <1>2 DEF EndPrepare, EndExecute, AnswerExecute, EndJob
    <2>2. job.op \in Ops /\ wop[job.op] # "none" /\ WorkerTypes
      BY <2>1 DEF EndPrepare, IInv, TypeInv, Who
    <2>3. wop[job.op] # "executing"
      BY <2>1, <2>2 DEF EndPrepare, IInv, WorkerInv, Record
    <2>4. wop'[job.op] \in RemoteFinal \cup {"prepared"}
      BY <2>1, <2>2, <2>3 DEF EndPrepare, Finalized, WorkerTypes, WorkerStatus, Open, RemoteFinal
    <2>5. answer'.status = wop'[job.op]
      BY <1>2, <2>1 DEF EndPrepare, EndJob
    <2> QED
      BY <2>1, <2>2, <2>4, <2>5 DEF IInv, Requests
  <1>3. Explorer
    BY DEF IInv
  <1> QED
    BY <1>1, <1>2, <1>3 DEF Explorer, Mine, InMail

LEMMA ExplorerFirst ==
  ASSUME IInv, [Next]_vars, FirstStep
  PROVE  Explorer'
  <1>0. TraceTypes /\ ExplorerTypes /\ WorkerTypes /\ 1 \in Explorers
    BY DEF IInv, TypeInv
  <1>00. pc[1] \in Working => cur[1] \in Ops
    BY DEF IInv, TypeInv, Who
  <1>000. Explorer
    BY DEF IInv
  <1> USE <1>0, <1>00 DEF ExplorerTypes, GoTo, EndWith, First, Working
  <1>1. CASE Claim(1)
    <2>1. token = 0 /\ pc[1] = "none"
      BY <1>1, TokenMoves DEF Claim, TraceTypes, IInv, TypeInv, Who
    <2>2. pc'[1] = "claimed" /\ cur' = cur /\ op' = op
      BY <1>1 DEF Claim, traceVars
    <2> QED
      BY <1>000, <2>1, <2>2 DEF Explorer, Mine
  <1>2. CASE Begin(1)
    BY <1>000, <1>2 DEF Begin, Explorer, Mine, traceVars
  <1>3. CASE OpenWorker(1)
    BY <1>000, <1>3 DEF OpenWorker, Explorer, Mine, dbVars, traceVars
  <1>4. CASE StartOp(1)
    <2>1. cur'[1] = cur[1] + 1 /\ cur[1] + 1 \in Ops /\ pc'[1] = "preparing" /\ answer' = Nothing
      BY <1>4 DEF StartOp
    <2>2. op' = [op EXCEPT ![cur[1] + 1] = "prepared"]
      BY <1>4, <2>1 DEF StartOp, Save
    <2>3. \A o \in Ops : o > cur'[1] => op'[o] = "none"
      BY <1>000, <1>4, <2>1, <2>2 DEF StartOp, Explorer, TraceTypes
    <2>4. op'[cur'[1]] = "prepared"
      BY <2>1, <2>2 DEF TraceTypes
    <2> QED
      BY <2>1, <2>3, <2>4 DEF Explorer, Mine
  <1>5. CASE Answered(1)
    <2>1. CASE pc[1] = "preparing"
      BY <1>000, <1>5, <2>1 DEF Answered, Explorer, Mine, dbVars, traceVars, InMail
    <2>2. CASE pc[1] = "executing"
      BY <1>000, <1>5, <2>2 DEF Answered, Explorer, Mine, dbVars, traceVars
    <2> QED
      BY <1>5, <2>1, <2>2 DEF Answered
  <1>6. CASE ReadInstead(1)
    <2>0. cur[1] \in Ops /\ wop[cur[1]] # "none" /\ cur'[1] = cur[1]
            /\ UNCHANGED <<op, token, mail>>
      BY <1>6 DEF ReadInstead, Readable, dbVars, traceVars
    <2>1. CASE pc[1] = "preparing"
      <3>1. pc'[1] = "prepared" /\ result'[1].status = wop[cur[1]]
        BY <1>6, <2>1 DEF ReadInstead, Remote
      <3>2. ~InMail("prepare", cur[1])
        BY <2>0 DEF IInv, Requests
      <3>3. ASSUME token = 1 PROVE op[cur[1]] = "prepared" /\ wop[cur[1]] # "executing"
        <4>1. op[cur[1]] = "prepared"
          BY <1>000, <2>1, <3>3 DEF Explorer, Mine
        <4>2. ~Executes(cur[1])
          BY <2>0, <4>1 DEF IInv, Announced, Sent
        <4> QED
          BY <2>0, <4>1, <4>2 DEF IInv, WorkerInv, Record, Executes
      <3>4. token = 1 => wop[cur[1]] \in RemoteFinal \cup {"prepared"}
        BY <2>0, <3>3 DEF WorkerTypes, WorkerStatus, Open
      <3>5. \A o \in Ops : o > cur[1] => op[o] = "none"
        BY <1>000, <2>1 DEF Explorer
      <3> QED
        BY <2>0, <3>1, <3>2, <3>3, <3>4, <3>5 DEF Explorer, Mine, InMail
    <2>2. CASE pc[1] = "executing"
      <3>1. pc'[1] = "executed"
        BY <1>6, <2>2 DEF ReadInstead
      <3>2. /\ token = 1 => op[cur[1]] = "executing"
            /\ \A o \in Ops : o > cur[1] => op[o] = "none"
        BY <1>000, <2>2 DEF Explorer, Mine
      <3> QED
        BY <2>0, <3>1, <3>2 DEF Explorer, Mine
    <2> QED
      BY <1>6, <2>1, <2>2 DEF ReadInstead
  <1>7. CASE CommitBefore(1)
    <2>1. cur[1] \in Ops /\ cur'[1] = cur[1] /\ result'[1] = result[1] /\ mail' = mail
            /\ pc[1] = "prepared" /\ token = 1
            /\ pc'[1] = (IF result[1].status \in Final THEN "acking" ELSE "authorizing")
            /\ op' = [op EXCEPT ![cur[1]] = result[1].status]
            /\ frames' = [frames EXCEPT ![cur[1]] = @ \cup result[1].frames]
      BY <1>7 DEF CommitBefore, Owns, Save
    <2>2. result[1].status \in RemoteFinal \cup {"prepared"} /\ ~InMail("prepare", cur[1])
            /\ \A o \in Ops : o > cur[1] => op[o] = "none"
      BY <1>000, <2>1 DEF Explorer, Mine
    <2>3. \A o \in Ops : o > cur'[1] => op'[o] = "none"
      BY <2>1, <2>2 DEF TraceTypes
    <2>4. result'[1].frames \subseteq frames'[cur'[1]]
      BY <2>1 DEF TraceTypes
    <2>5. CASE result[1].status \in Final
      BY <2>1, <2>3, <2>5 DEF Explorer, Mine
    <2>6. CASE result[1].status \notin Final
      <3>1. pc'[1] = "authorizing" /\ op'[cur'[1]] = "prepared"
        BY <2>1, <2>2, <2>6 DEF Final, TraceTypes
      <3> QED
        BY <2>1, <2>2, <2>3, <2>4, <3>1 DEF Explorer, Mine, InMail
    <2> QED
      BY <2>5, <2>6
  <1>8. CASE Authorize(1)
    <2>1. cur[1] \in Ops /\ cur'[1] = cur[1] /\ pc[1] = "authorizing" /\ pc'[1] = "executing"
            /\ op' = [op EXCEPT ![cur[1]] = "executing"]
      BY <1>8 DEF Authorize, Save
    <2>2. \A o \in Ops : o > cur'[1] => op'[o] = "none"
      <3>1. \A o \in Ops : o > cur[1] => op[o] = "none"
        BY <1>000, <2>1 DEF Explorer
      <3> QED
        BY <2>1, <3>1 DEF TraceTypes
    <2>3. op'[cur'[1]] = "executing"
      BY <2>1 DEF TraceTypes
    <2> QED
      BY <2>1, <2>2, <2>3 DEF Explorer, Mine
  <1>9. CASE CommitAfter(1)
    <2>1. cur[1] \in Ops /\ cur'[1] = cur[1] /\ pc[1] = "executed" /\ pc'[1] = "acking"
            /\ op' = [op EXCEPT ![cur[1]] = result[1].status]
      BY <1>9 DEF CommitAfter, Save
    <2>2. \A o \in Ops : o > cur'[1] => op'[o] = "none"
      BY <1>000, <2>1 DEF Explorer, TraceTypes
    <2> QED
      BY <2>1, <2>2 DEF Explorer, Mine
  <1>10. CASE Ack(1)
    <2>1. cur'[1] = cur[1] /\ pc[1] = "acking" /\ pc'[1] \in {"idle", "ending"} /\ op' = op
      BY <1>10 DEF Ack, dbVars, traceVars
    <2> QED
      BY <1>000, <2>1 DEF Explorer, Mine
  <1> QED
    BY <1>1, <1>2, <1>3, <1>4, <1>5, <1>6, <1>7, <1>8, <1>9, <1>10 DEF FirstStep

LEMMA ExplorerInvStep ==
  ASSUME IInv, [Next]_vars
  PROVE  Explorer'
  <1>1. ASSUME pc'[1] \in Over \cup {"ending"} PROVE Explorer'
    BY <1>1 DEF Explorer, Mine, Over, First, Working
  <1> QED
    BY <1>1, ExplorerSame, ExplorerAnswered, ExplorerFirst, FirstMoves DEF IInv

-----------------------------------------------------------------------------
(* What was rejected stays undone.                                         *)

LEMMA DeadStays ==
  ASSUME IInv, [Next]_vars, NEW o \in Ops, Dead(o), ~(Authorize(1) /\ o = cur[1])
  PROVE  Dead(o)'
  <1>1. effects'[o] = 0
    BY WorkerChanges DEF Dead
  <1>2. ASSUME InMail("execute", o)'
        PROVE  worker' = "gone" \/ wop'[o] \notin {"none", "prepared"}
    <2>1. InMail("execute", o)
      BY <1>2, MailChanges
    <2> QED
      BY <2>1, WorkerChanges DEF Dead
  <1>3. ASSUME Executes(o)'
        PROVE  job'.stage # "act" /\ (job'.stage = "check" => expired')
    <2>1. ~TakeExecute(o)
      BY DEF TakeExecute, Dead, InMail
    <2>2. Executes(o)
      BY <1>3, <2>1, WorkerChanges
    <2> QED
      BY <1>3, <2>2, WorkerChanges DEF Dead
  <1> QED
    BY <1>1, <1>2, <1>3 DEF Dead

\* The worker rejects an operation only if it has not happened, and cannot any more.
LEMMA DeadBegins ==
  ASSUME IInv, [Next]_vars, NEW o \in Ops, wop[o] # "rejected", wop'[o] = "rejected"
  PROVE  Dead(o)'
  <1>0. WorkerTypes /\ AtWork /\ \A p \in Ops : Record(p)
    BY DEF IInv, TypeInv, WorkerInv
  <1>00. job.kind # "none" => job.op \in Ops
    BY DEF IInv, TypeInv, Who
  <1> USE <1>0, <1>00 DEF WorkerTypes
  <1>1. ASSUME WorkerStep PROVE Expire \/ (job.op = o /\ (EndPrepare \/ EndExecute))
    BY <1>1 DEF WorkerStep, TakePrepare, AnswerExecute, TakeExecute, CaptureBefore, EndPrepare,
       CheckTarget, Act, EndExecute, CloseBrowser
  <1>2. ASSUME ~WorkerStep PROVE FALSE
    <2>1. CASE UNCHANGED workerVars
      BY <2>1 DEF workerVars
    <2>2. CASE Emptied
      BY <2>2 DEF Emptied
    <2>3. ASSUME NEW t \in Explorers, OpenWorker(t) \/ Ack(t) \/ AckAgain(t) PROVE FALSE
      BY <2>3 DEF OpenWorker, Ack, AckAgain, Acknowledge
    <2> QED
      BY <1>2, <2>1, <2>2, <2>3, WorkerMoves
  <1>3. CASE Expire
    <2>1. wop[o] = "prepared" /\ effects[o] = 0
      BY <1>3 DEF Expire, Record
    <2>2. Executes(o) => job.stage # "act"
      BY <2>1 DEF Executes, AtWork
    <2>3. UNCHANGED <<job, effects>> /\ expired' = TRUE
      BY <1>3 DEF Expire
    <2> QED
      BY <2>1, <2>2, <2>3 DEF Dead, Executes
  <1>4. CASE job.op = o /\ EndPrepare
    BY <1>4 DEF EndPrepare, EndJob, Idle, Dead, Executes, AtWork
  <1>5. CASE job.op = o /\ EndExecute
    <2>1. job.kind = "execute" /\ job' = Idle /\ effects' = effects
      BY <1>5 DEF EndExecute, EndJob
    <2>2. job.verdict = "rejected"
      BY <1>5 DEF EndExecute, Finalized
    <2> QED
      BY <1>5, <2>1, <2>2 DEF Idle, Dead, Executes, AtWork
  <1> QED
    BY <1>1, <1>2, <1>3, <1>4, <1>5

\* Who writes a new status, and where it comes from.
LEMMA NewStatus ==
  ASSUME IInv, [Next]_vars, NEW o \in Ops, op'[o] # op[o],
         op'[o] \in {"rejected", "completed", "failed"}
  PROVE  \/ CommitBefore(1) /\ o = cur[1] /\ op[o] = "prepared" /\ op'[o] = result[1].status
         \/ CommitAfter(1) /\ o = cur[1] /\ op'[o] = result[1].status
         \/ op'[o] = wop[o]
  <1>0. TraceTypes /\ ExplorerTypes /\ 1 \in Explorers
    BY DEF IInv, TypeInv
  <1> USE <1>0 DEF TraceTypes, ExplorerTypes, Save
  <1>1. ~StartOp(1) /\ ~Authorize(1) /\ ~Stop(1)
    BY DEF StartOp, Authorize, Stop
  <1>2. CASE CommitBefore(1)
    BY <1>2 DEF CommitBefore, Owns, IInv, Explorer, Mine
  <1>3. CASE CommitAfter(1)
    BY <1>3 DEF CommitAfter
  <1>4. ASSUME NEW t \in Explorers, Recovers(t) PROVE op'[o] = wop[o]
    BY <1>4 DEF Recovers, ReconcileOutcome
  <1> QED
    BY <1>1, <1>2, <1>3, <1>4, WritesOf DEF IInv

\* An answer tells what the worker has in its record.
LEMMA AnswerIsRecord ==
  ASSUME TypeInv, EndPrepare \/ EndExecute \/ \E o \in Ops : AnswerExecute(o)
  PROVE  /\ UNCHANGED <<pc, cur, result>>
         /\ answer' = answer \/ \E o \in Ops : o = cur[1] /\ answer'.status = wop'[o]
  <1> DEFINE Told == answer' = answer \/ \E o \in Ops : o = cur[1] /\ answer'.status = wop'[o]
  <1>1. ASSUME NEW o \in Ops, NEW kind, EndJob(kind, o, wop'[o]) PROVE Told
    <2>1. CASE pc[1] = kind /\ cur[1] = o
      <3>1. answer'.status = wop'[o]
        BY <1>1, <2>1 DEF EndJob
      <3> QED
        BY <2>1, <3>1
    <2>2. CASE ~(pc[1] = kind /\ cur[1] = o)
      <3>1. answer' = answer
        BY <1>1, <2>2 DEF EndJob
      <3> QED
        BY <3>1
    <2> QED
      BY <2>1, <2>2
  <1>2. job.kind # "none" => job.op \in Ops
    BY DEF TypeInv, Who
  <1>3. ASSUME NEW o \in Ops, AnswerExecute(o) PROVE UNCHANGED <<pc, cur, result>> /\ Told
    <2>1. wop' = wop /\ EndJob("executing", o, wop[o]) /\ UNCHANGED <<pc, cur, result>>
      BY <1>3, Zenon DEF AnswerExecute
    <2>2. EndJob("executing", o, wop'[o])
      BY <2>1
    <2> QED
      BY <1>1, <2>1, <2>2
  <1>4. ASSUME EndPrepare PROVE UNCHANGED <<pc, cur, result>> /\ Told
    <2>1. /\ job.kind = "prepare" /\ EndJob("preparing", job.op, wop'[job.op])
          /\ UNCHANGED <<pc, cur, result>>
      BY <1>4, Zenon DEF EndPrepare
    <2> HIDE DEF Told
    <2> QED
      BY <1>1, <1>2, <2>1
  <1>5. ASSUME EndExecute PROVE UNCHANGED <<pc, cur, result>> /\ Told
    <2>1. /\ job.kind = "execute" /\ EndJob("executing", job.op, wop'[job.op])
          /\ UNCHANGED <<pc, cur, result>>
      BY <1>5, Zenon DEF EndExecute
    <2> HIDE DEF Told
    <2> QED
      BY <1>1, <1>2, <2>1
  <1> HIDE DEF Told
  <1>6. UNCHANGED <<pc, cur, result>> /\ Told
    BY <1>3, <1>4, <1>5
  <1> QED
    BY <1>6 DEF Told

LEMMA RejectedStep ==
  ASSUME IInv, [Next]_vars
  PROVE  Rejected'
  <1>0. Rejected /\ TypeInv
    BY DEF IInv
  <1>1. ASSUME NEW o \in Ops, wop[o] = "rejected" PROVE Dead(o)'
    <2>1. Dead(o)
      BY <1>0, <1>1 DEF Rejected
    <2>2. CASE Authorize(1)
      BY <1>1, <2>1, <2>2 DEF Authorize, Dead, Executes, workerVars
    <2> QED
      BY <2>1, <2>2, DeadStays
  <1>2. ASSUME NEW o \in Ops, wop'[o] = "rejected" PROVE Dead(o)'
    BY <1>1, <1>2, DeadBegins
  <1>3. ASSUME NEW o \in Ops, op[o] = "rejected" PROVE Dead(o)'
    <2>1. ~(Authorize(1) /\ o = cur[1])
      BY <1>3 DEF Authorize, Owns, IInv, Explorer, Mine
    <2> QED
      BY <1>0, <1>3, <2>1, DeadStays DEF Rejected
  <1>4. ASSUME NEW o \in Ops, op'[o] = "rejected" PROVE Dead(o)'
    <2>1. CASE op[o] = "rejected"
      BY <1>3, <2>1
    <2>2. CASE wop[o] = "rejected"
      BY <1>1, <2>2
    <2>3. CASE CommitBefore(1) /\ o = cur[1] /\ op[o] = "prepared"
      <3>1. ~Sent(o)
        BY <2>3 DEF IInv, Announced
      <3>2. Dead(o)
        BY <3>1 DEF Sent, Dead, IInv, TypeInv, WorkerTypes
      <3>3. ~Authorize(1)
        BY <2>3 DEF Authorize, CommitBefore
      <3> QED
        BY <3>2, <3>3, DeadStays
    <2>4. CASE CommitAfter(1) /\ o = cur[1] /\ result[1].status = "rejected"
      <3>1. Dead(o) /\ ~Authorize(1)
        BY <1>0, <2>4 DEF CommitAfter, Authorize, Rejected
      <3> QED
        BY <3>1, DeadStays
    <2> QED
      BY <1>4, <2>1, <2>2, <2>3, <2>4, NewStatus
  <1>5. ASSUME NEW c \in Ops, c = cur'[1], pc'[1] = "executed", result'[1].status = "rejected"
        PROVE  Dead(c)'
    <2>1. CASE c = cur[1] /\ pc[1] = "executed" /\ result[1].status = "rejected"
      BY <1>0, <2>1, DeadStays DEF Rejected, Authorize
    <2>2. CASE c = cur[1] /\ pc[1] = "executing" /\ answer.status = "rejected"
      BY <1>0, <2>2, DeadStays DEF Rejected, Authorize
    <2>3. CASE wop[c] = "rejected"
      BY <1>1, <2>3
    <2>4. FirstSame \/ UNCHANGED <<pc, cur, result>> \/ Answered(1) \/ ReadInstead(1)
      <3>1. ~(pc'[1] \in Over \cup {"ending"})
        BY <1>5 DEF Over
      <3>2. ASSUME FirstStep PROVE Answered(1) \/ ReadInstead(1)
        BY <1>0, <1>5, <3>2 DEF FirstStep, Claim, Begin, OpenWorker, StartOp, CommitBefore,
           Authorize, CommitAfter, Ack, GoTo, EndWith, TypeInv, ExplorerTypes
      <3>3. ASSUME EndPrepare \/ EndExecute \/ \E o \in Ops : AnswerExecute(o)
            PROVE  UNCHANGED <<pc, cur, result>>
        BY <3>3 DEF EndPrepare, EndExecute, AnswerExecute
      <3> QED
        BY <1>0, <3>1, <3>2, <3>3, FirstMoves
    <2>5. CASE FirstSame \/ UNCHANGED <<pc, cur, result>>
      BY <1>5, <2>1, <2>5 DEF FirstSame
    <2>6. CASE Answered(1)
      BY <1>0, <1>5, <2>2, <2>6 DEF Answered, GoTo, TypeInv, ExplorerTypes
    <2>7. CASE ReadInstead(1)
      BY <1>0, <1>5, <2>3, <2>7 DEF ReadInstead, Remote, GoTo, TypeInv, ExplorerTypes
    <2> QED
      BY <2>4, <2>5, <2>6, <2>7
  <1>6. ASSUME NEW c \in Ops, c = cur'[1], pc'[1] = "executing", answer'.status = "rejected"
        PROVE  Dead(c)'
    <2>1. CASE c = cur[1] /\ pc[1] = "executing" /\ answer.status = "rejected"
      BY <1>0, <2>1, DeadStays DEF Rejected, Authorize
    <2>2. ~(pc'[1] \in Over \cup {"ending"})
      BY <1>6 DEF Over
    <2>3. ~FirstStep
      BY <1>0, <1>6 DEF FirstStep, Claim, Begin, OpenWorker, StartOp, Answered, ReadInstead,
         CommitBefore, Authorize, CommitAfter, Ack, GoTo, EndWith, Nothing, TypeInv, ExplorerTypes
    <2>4. CASE FirstSame
      BY <1>6, <2>1, <2>4 DEF FirstSame
    <2>5. ASSUME EndPrepare \/ EndExecute \/ \E o \in Ops : AnswerExecute(o)
          PROVE  /\ UNCHANGED <<pc, cur, result>>
                 /\ answer' = answer \/ \E o \in Ops : o = cur[1] /\ answer'.status = wop'[o]
      BY <1>0, <2>5, AnswerIsRecord
    <2>6. CASE EndPrepare \/ EndExecute \/ \E o \in Ops : AnswerExecute(o)
      BY <1>2, <1>6, <2>1, <2>5, <2>6
    <2> QED
      BY <1>0, <2>2, <2>3, <2>4, <2>6, FirstMoves
  <1>7. pc'[1] \in {"executing", "executed"} => cur'[1] \in Ops
    BY TypeStep DEF IInv, TypeInv, Who, Working
  <1>8. \A o \in Ops : (wop[o] = "rejected" \/ op[o] = "rejected")' => Dead(o)'
    BY <1>2, <1>4
  <1>9. \A c \in Ops : /\ c = cur'[1]
                       /\ \/ pc'[1] = "executed" /\ result'[1].status = "rejected"
                          \/ pc'[1] = "executing" /\ answer'.status = "rejected"
                       => Dead(c)'
    BY <1>5, <1>6
  <1> QED
    BY <1>7, <1>8, <1>9 DEF Rejected, Dead, InMail, Executes

-----------------------------------------------------------------------------
(* What is called done has happened.                                       *)

LEMMA HappenedStep ==
  ASSUME IInv, [Next]_vars
  PROVE  Happened'
  <1>0. Happened /\ TypeInv
    BY DEF IInv
  <1>1. ASSUME NEW o \in Ops, effects[o] = 1 PROVE effects'[o] = 1
    BY <1>1, WorkerChanges
  <1>2. ASSUME NEW o \in Ops, wop[o] \in Done PROVE effects'[o] = 1
    BY <1>1, <1>2 DEF Done, IInv, WorkerInv, Record
  <1>3. ASSUME NEW o \in Ops, wop'[o] \in Done PROVE effects'[o] = 1
    BY <1>3, WorkerInvStep DEF Done, IInv, WorkerInv, Record
  <1>4. ASSUME NEW o \in Ops, op'[o] \in Done PROVE effects'[o] = 1
    <2>1. CASE op'[o] = op[o]
      BY <1>0, <1>1, <1>4, <2>1 DEF Happened
    <2>2. CASE (CommitBefore(1) \/ CommitAfter(1)) /\ o = cur[1] /\ op'[o] = result[1].status
      BY <1>0, <1>1, <1>4, <2>2 DEF Happened, CommitBefore, CommitAfter
    <2>3. CASE op'[o] = wop[o]
      BY <1>2, <1>4, <2>3
    <2> QED
      BY <1>4, <2>1, <2>2, <2>3, NewStatus DEF Done
  <1>5. ASSUME NEW c \in Ops, c = cur'[1], pc'[1] \in {"prepared", "executed"},
               result'[1].status \in Done
        PROVE  effects'[c] = 1
    <2>1. CASE c = cur[1] /\ pc[1] \in {"prepared", "executed"} /\ result[1].status \in Done
      BY <1>0, <1>1, <2>1 DEF Happened
    <2>2. CASE c = cur[1] /\ pc[1] \in {"preparing", "executing"} /\ answer.status \in Done
      BY <1>0, <1>1, <2>2 DEF Happened
    <2>3. CASE wop[c] \in Done
      BY <1>2, <2>3
    <2>4. FirstSame \/ UNCHANGED <<pc, cur, result>> \/ Answered(1) \/ ReadInstead(1)
      <3>1. ~(pc'[1] \in Over \cup {"ending"})
        BY <1>5 DEF Over
      <3>2. ASSUME FirstStep PROVE Answered(1) \/ ReadInstead(1)
        BY <1>0, <1>5, <3>2 DEF FirstStep, Claim, Begin, OpenWorker, StartOp, CommitBefore,
           Authorize, CommitAfter, Ack, GoTo, EndWith, TypeInv, ExplorerTypes
      <3>3. ASSUME EndPrepare \/ EndExecute \/ \E o \in Ops : AnswerExecute(o)
            PROVE  UNCHANGED <<pc, cur, result>>
        BY <3>3 DEF EndPrepare, EndExecute, AnswerExecute
      <3> QED
        BY <1>0, <3>1, <3>2, <3>3, FirstMoves
    <2>5. CASE FirstSame \/ UNCHANGED <<pc, cur, result>>
      BY <1>5, <2>1, <2>5 DEF FirstSame
    <2>6. CASE Answered(1)
      BY <1>0, <1>5, <2>2, <2>6 DEF Answered, GoTo, TypeInv, ExplorerTypes
    <2>7. CASE ReadInstead(1)
      BY <1>0, <1>5, <2>3, <2>7 DEF ReadInstead, Remote, GoTo, TypeInv, ExplorerTypes
    <2> QED
      BY <2>4, <2>5, <2>6, <2>7
  <1>6. ASSUME NEW c \in Ops, c = cur'[1], pc'[1] \in {"preparing", "executing"},
               answer'.status \in Done
        PROVE  effects'[c] = 1
    <2>1. CASE c = cur[1] /\ pc[1] \in {"preparing", "executing"} /\ answer.status \in Done
      BY <1>0, <1>1, <2>1 DEF Happened
    <2>2. ~(pc'[1] \in Over \cup {"ending"})
      BY <1>6 DEF Over
    <2>3. ~FirstStep
      BY <1>0, <1>6 DEF FirstStep, Claim, Begin, OpenWorker, StartOp, Answered, ReadInstead,
         CommitBefore, Authorize, CommitAfter, Ack, GoTo, EndWith, Nothing, Done, TypeInv,
         ExplorerTypes
    <2>4. CASE FirstSame
      BY <1>6, <2>1, <2>4 DEF FirstSame
    <2>5. ASSUME EndPrepare \/ EndExecute \/ \E o \in Ops : AnswerExecute(o)
          PROVE  /\ UNCHANGED <<pc, cur, result>>
                 /\ answer' = answer \/ \E o \in Ops : o = cur[1] /\ answer'.status = wop'[o]
      BY <1>0, <2>5, AnswerIsRecord
    <2>6. CASE EndPrepare \/ EndExecute \/ \E o \in Ops : AnswerExecute(o)
      BY <1>3, <1>6, <2>1, <2>5, <2>6
    <2> QED
      BY <1>0, <2>2, <2>3, <2>4, <2>6, FirstMoves
  <1>7. pc'[1] \in {"preparing", "prepared", "executing", "executed"} => cur'[1] \in Ops
    BY TypeStep DEF IInv, TypeInv, Who, Working
  <1> QED
    BY <1>4, <1>5, <1>6, <1>7 DEF Happened

-----------------------------------------------------------------------------
(* What is acknowledged has been stored.                                   *)

\* An explorer comes to an acknowledgement by four steps only.
Acking == {"acking", "ackAgain", "ackCaptured"}
LEMMA Storing ==
  ASSUME TypeInv, NEW t \in Explorers, Claim(t) \/ ExplorerStep(t) \/ Crash(t), pc'[t] \in Acking
  PROVE  CommitBefore(t) \/ CommitAfter(t) \/ ReconcileSame(t) \/ ReconcileOutcome(t)
  <1> USE DEF TypeInv, ExplorerTypes, GoTo, EndWith, Acking
  <1>1. ~Claim(t) /\ ~Crash(t) /\ ~Finish(t) /\ ~Fenced(t) /\ ~Close(t) /\ ~Publish(t)
    BY DEF Claim, Crash, Finish, Fenced, Close, Publish
  <1>2. ~Begin(t)
    BY DEF Begin
  <1>3. ~OpenWorker(t) /\ ~OpenFails(t) /\ ~EndExploration(t) /\ ~StartOp(t) /\ ~Answered(t)
          /\ ~ReadInstead(t)
    BY DEF OpenWorker, OpenFails, EndExploration, StartOp, Answered, ReadInstead
  <1>4. ~Authorize(t) /\ ~Stop(t) /\ ~Ack(t) /\ ~AckFails(t)
    BY DEF Authorize, Stop, Ack, AckFails
  <1>5. ~Following(t)
    BY DEF Following
  <1>6. ~NothingToRecover(t) /\ ~RecoverRead(t) /\ ~RecoverFails(t) /\ ~ReconcileDiffers(t)
          /\ ~ReconcileFails(t) /\ ~AckAgain(t) /\ ~AckAgainFails(t)
    BY <1>5 DEF NothingToRecover, RecoverRead, RecoverFails, ReconcileDiffers, ReconcileFails,
       AckAgain, AckAgainFails
  <1> QED
    BY <1>1, <1>2, <1>3, <1>4, <1>6, Zenon DEF ExplorerStep, Exploring, Recovering

LEMMA StoredStep ==
  ASSUME IInv, [Next]_vars, NEW t \in Explorers, pc'[t] \in Acking, NEW c \in Ops, c = cur'[t]
  PROVE  result'[t].frames \subseteq frames'[c]
  <1>0. TypeInv /\ TraceTypes /\ ExplorerTypes
    BY DEF IInv, TypeInv
  <1>1. CASE pc'[t] = pc[t] /\ cur'[t] = cur[t] /\ result'[t] = result[t]
    <2>1. result[t].frames \subseteq frames[c]
      BY <1>1 DEF IInv, Evidence, Acking
    <2> QED
      BY <1>1, <2>1, TraceGrows
  <1>2. ASSUME NEW u \in Explorers, u # t, Claim(u) \/ ExplorerStep(u) \/ Crash(u)
        PROVE  pc'[t] = pc[t] /\ cur'[t] = cur[t] /\ result'[t] = result[t]
    BY <1>0, <1>2, ExplorerMoves DEF Others
  <1>3. CASE CommitBefore(t) \/ CommitAfter(t)
    BY <1>0, <1>3 DEF CommitBefore, CommitAfter, TraceTypes
  <1>4. CASE ReconcileSame(t)
    <2>1. cur' = cur /\ frames' = frames /\ frames[c] = wframes[c]
      BY <1>4 DEF ReconcileSame, dbVars
    <2>2. result'[t] = Remote(c)
      BY <1>0, <1>4 DEF ReconcileSame, ExplorerTypes
    <2> QED
      BY <2>1, <2>2 DEF Remote
  <1>5. CASE ReconcileOutcome(t)
    <2>1. cur' = cur /\ frames' = [frames EXCEPT ![c] = @ \cup wframes[c]]
      BY <1>5 DEF ReconcileOutcome
    <2>2. result'[t] = Remote(c)
      BY <1>0, <1>5 DEF ReconcileOutcome, ExplorerTypes
    <2> QED
      BY <1>0, <2>1, <2>2 DEF Remote, TraceTypes
  <1>6. CASE Claim(t) \/ ExplorerStep(t) \/ Crash(t)
    BY <1>0, <1>3, <1>4, <1>5, <1>6, Storing
  <1>7. CASE ~\E u \in Explorers : Claim(u) \/ ExplorerStep(u) \/ Crash(u)
    BY <1>0, <1>1, <1>7, WorkerAnswers
  <1> QED
    BY <1>1, <1>2, <1>6, <1>7

LEMMA AckedStep ==
  ASSUME IInv, [Next]_vars, NEW o \in Ops, acked'[o]
  PROVE  /\ wop'[o] \in RemoteFinal /\ wframes'[o] \subseteq frames'[o]
         /\ job'.kind # "none" => job'.op # o
  <1> DEFINE Kept == /\ wop'[o] \in RemoteFinal /\ wframes'[o] \subseteq frames'[o]
                     /\ job'.kind # "none" => job'.op # o
             Was == /\ wop[o] \in RemoteFinal /\ wframes[o] \subseteq frames[o]
                    /\ job.kind # "none" => job.op # o
  <1>0. WorkerTypes /\ frames[o] \subseteq frames'[o]
    BY TraceGrows DEF IInv, TypeInv
  <1>00. job.kind # "none" => job.op \in Ops
    BY DEF IInv, TypeInv, Who
  <1>01. acked[o] => Was
    BY DEF IInv, Evidence
  <1> SUFFICES Kept
    OBVIOUS
  <1> USE <1>0, <1>00, <1>01 DEF WorkerTypes
  <1>1. CASE UNCHANGED workerVars
    BY <1>1 DEF workerVars
  <1>2. CASE Emptied
    BY <1>2 DEF Emptied
  <1>3. ASSUME NEW t \in Explorers, OpenWorker(t) PROVE Kept
    BY <1>3 DEF OpenWorker
  <1>4. ASSUME NEW t \in Explorers, pc[t] \in Acking, Acknowledge(cur[t], result[t])
        PROVE  Kept
    <2>1. UNCHANGED <<wop, wframes, job>> /\ job = Idle
      BY <1>4 DEF Acknowledge
    <2>2. CASE o = cur[t]
      <3>1. wop[o] \in RemoteFinal /\ wframes[o] = result[t].frames
        BY <1>4, <2>2 DEF Acknowledge
      <3>2. result[t].frames \subseteq frames[o]
        BY <1>4, <2>2 DEF Acking, IInv, Evidence
      <3> QED
        BY <2>1, <3>1, <3>2 DEF Idle
    <2>3. CASE o # cur[t]
      <3>1. acked[o]
        BY <1>4, <2>3 DEF Acknowledge
      <3> QED
        BY <2>1, <3>1
    <2> QED
      BY <2>2, <2>3
  <1>5. ASSUME NEW p \in Ops, TakePrepare(p) PROVE Kept
    <2>1. wop[p] = "none"
      BY <1>5 DEF TakePrepare, IInv, Requests, InMail
    <2> QED
      BY <1>5, <2>1 DEF TakePrepare, RemoteFinal
  <1>6. ASSUME NEW p \in Ops, AnswerExecute(p) PROVE Kept
    BY <1>6 DEF AnswerExecute, EndJob, Idle
  <1>7. ASSUME NEW p \in Ops, TakeExecute(p) PROVE Kept
    BY <1>7 DEF TakeExecute, RemoteFinal
  <1>8. CASE CaptureBefore
    BY <1>8 DEF CaptureBefore, Jobs
  <1>9. CASE EndPrepare
    BY <1>9 DEF EndPrepare, EndJob, Idle
  <1>10. CASE CheckTarget
    <2>1. job'.op = job.op
      BY <1>10 DEF CheckTarget, Jobs
    <2> QED
      BY <1>10, <2>1 DEF CheckTarget
  <1>11. CASE Act
    <2>1. job'.op = job.op
      BY <1>11 DEF Act, Jobs
    <2> QED
      BY <1>11, <2>1 DEF Act
  <1>12. CASE EndExecute
    BY <1>12 DEF EndExecute, EndJob, Idle
  <1>13. CASE Expire
    BY <1>13 DEF Expire, RemoteFinal
  <1>14. CASE CloseBrowser
    BY <1>14 DEF CloseBrowser
  <1> HIDE DEF Kept
  <1>15. CASE WorkerStep
    BY <1>5, <1>6, <1>7, <1>8, <1>9, <1>10, <1>11, <1>12, <1>13, <1>14, <1>15, Zenon
    DEF WorkerStep
  <1>16. ASSUME NEW t \in Explorers, Ack(t) \/ AckAgain(t) PROVE Kept
    BY <1>4, <1>16 DEF Ack, AckAgain, Acking
  <1> QED
    BY <1>1, <1>2, <1>3, <1>15, <1>16, WorkerMoves

LEMMA EvidenceStep ==
  ASSUME IInv, [Next]_vars
  PROVE  Evidence'
  <1>1. ASSUME NEW t \in Explorers, pc'[t] \in Acking
        PROVE  result'[t].frames \subseteq frames'[cur'[t]]
    <2>1. cur'[t] \in Ops
      BY <1>1, TypeStep DEF IInv, TypeInv, Who, Acking, Working, Later
    <2> QED
      BY <1>1, <2>1, StoredStep
  <1> QED
    BY <1>1, AckedStep DEF Evidence, Acking

-----------------------------------------------------------------------------
(* The invariant, and what follows from it.                                *)

LEMMA IInvStep == IInv /\ [Next]_vars => IInv'
  <1> SUFFICES ASSUME IInv, [Next]_vars PROVE IInv'
    OBVIOUS
  <1>1. TypeInv' /\ WorkerInv'
    BY TypeStep, WorkerInvStep DEF IInv
  <1>2. Announced' /\ Requests' /\ Explorer'
    BY AnnouncedStep, RequestsStep, ExplorerInvStep
  <1>3. Rejected' /\ Happened' /\ Evidence'
    BY RejectedStep, HappenedStep, EvidenceStep
  <1> QED
    BY <1>1, <1>2, <1>3, Zenon DEF IInv

LEMMA Invariance == Spec => []IInv
  BY IInvInit, IInvStep, PTL DEF Spec

\* Whatever happened in the browser, the database knew of it beforehand and has the
\* picture from before it: execute commits the intent, the picture and the dispatch
\* before it sends the request (vision_operations.py).
THEOREM IntentComesFirst == Spec => []IntentFirst
  <1>1. IInv => IntentFirst
    BY DEF IInv, Announced, Sent, IntentFirst
  <1> QED
    BY <1>1, Invariance, PTL

\* What the trace calls rejected, or says was never dispatched, has not happened in the
\* browser and cannot happen any more, whatever request is still on its way and
\* however the deadline of the worker falls (vision-operations.ts).
THEOREM UndoneIsUndone == Spec => []SaidNotDone
  <1>1. ASSUME IInv, NEW o \in Ops, op[o] \in {"abandoned", "rejected"} PROVE effects[o] = 0
    <2>1. effects[o] \in Nat
      BY <1>1 DEF IInv, TypeInv, WorkerTypes
    <2> QED
      BY <1>1, <2>1 DEF IInv, Announced, Sent, Rejected, Dead
  <1>2. IInv => SaidNotDone
    BY <1>1 DEF SaidNotDone
  <1> QED
    BY <1>2, Invariance, PTL

\* The worker deletes no picture that is not in the database: whoever acknowledges
\* names the frames that were committed (vision_operations.py, vision_recovery.py).
THEOREM NothingIsLost == Spec => []AckedIsDurable
  <1>1. IInv => AckedIsDurable
    BY DEF IInv, Evidence, AckedIsDurable
  <1> QED
    BY <1>1, Invariance, PTL

-----------------------------------------------------------------------------
(* Each operation is a call as OneShotCall wants it.                       *)

Verdict(o) == CASE op[o] \in {"none"} \cup Open -> "open"
                [] op[o] \in {"completed", "failed"} -> "accepted"
                [] OTHER -> "dropped"
Verdicts == [o \in Ops |-> Verdict(o)]

\* The browser moves while nobody writes.
LEMMA EffectIsSilent ==
  ASSUME IInv, [Next]_vars, effects' # effects
  PROVE  op' = op
  <1>1. ~UNCHANGED workerVars
    BY DEF workerVars
  <1>2. ASSUME NEW t \in Explorers PROVE ~OpenWorker(t) /\ ~Ack(t) /\ ~AckAgain(t)
    BY DEF OpenWorker, Ack, AckAgain, Acknowledge
  <1>3. WorkerStep
    BY <1>1, <1>2, WorkerMoves DEF Emptied
  <1> QED
    BY <1>3, Zenon DEF WorkerStep, TakePrepare, AnswerExecute, TakeExecute, CaptureBefore,
       EndPrepare, CheckTarget, Act, EndExecute, Expire, CloseBrowser, dbVars

\* One row at a time.
LEMMA OneRow ==
  ASSUME IInv, [Next]_vars, op' # op
  PROVE  \E c \in Ops : \A p \in Ops \ {c} : op'[p] = op[p]
  <1>0. TraceTypes /\ 1 \in Explorers
    BY DEF IInv, TypeInv
  <1> USE <1>0 DEF TraceTypes, Save
  <1>1. CASE StartOp(1)
    <2>1. cur'[1] \in Ops
      BY <1>1 DEF StartOp, IInv, TypeInv, ExplorerTypes
    <2> QED
      BY <1>1, <2>1 DEF StartOp
  <1>2. CASE CommitBefore(1) \/ Authorize(1) \/ CommitAfter(1) \/ Stop(1)
    <2>1. cur[1] \in Ops
      BY <1>2 DEF CommitBefore, Authorize, CommitAfter, Stop, IInv, TypeInv, Who, Working
    <2> QED
      BY <1>2, <2>1 DEF CommitBefore, Authorize, CommitAfter, Stop
  <1>3. ASSUME NEW t \in Explorers, Recovers(t)
        PROVE  \E c \in Ops : \A p \in Ops \ {c} : op'[p] = op[p]
    <2>1. \A p \in Ops \ {cur[t]} : op'[p] = op[p]
      BY <1>3 DEF Recovers, ReconcileOutcome
    <2> QED
      BY <1>3, <2>1 DEF Recovers
  <1> QED
    BY <1>1, <1>2, <1>3, WritesOf DEF IInv

LEMMA CallInit == Init => Call!Init
  BY DEF Init, Call!Init, Open

LEMMA CallStep ==
  ASSUME IInv, [Next]_vars
  PROVE  \/ UNCHANGED <<effects, Verdicts>>
         \/ \E o \in Ops :
              \/ /\ effects[o] = 0 /\ effects' = [effects EXCEPT ![o] = 1]
                 /\ UNCHANGED Verdicts
              \/ /\ Verdicts[o] = "open" /\ effects[o] = 1
                 /\ Verdicts' = [Verdicts EXCEPT ![o] = "accepted"] /\ UNCHANGED effects
              \/ /\ Verdicts[o] = "open"
                 /\ Verdicts' = [Verdicts EXCEPT ![o] = "dropped"] /\ UNCHANGED effects
  <1>0. WorkerTypes /\ WorkerTypes'
    BY TypeStep DEF IInv, TypeInv
  <1>1. op' = op => UNCHANGED Verdicts
    BY DEF Verdicts, Verdict
  <1>2. CASE effects' # effects
    <2>1. PICK o \in Ops : effects'[o] # effects[o]
      BY <1>0, <1>2 DEF WorkerTypes
    <2>2. Executes(o) /\ effects[o] = 0 /\ effects'[o] = 1
      BY <2>1, WorkerChanges
    <2>3. \A p \in Ops \ {o} : effects'[p] = effects[p]
      BY <2>2, WorkerChanges DEF Executes
    <2>4. effects' = [effects EXCEPT ![o] = 1]
      BY <1>0, <2>2, <2>3 DEF WorkerTypes
    <2> QED
      BY <1>1, <1>2, <2>2, <2>4, EffectIsSilent
  <1>3. CASE effects' = effects /\ op' # op
    <2>1. PICK c \in Ops : \A p \in Ops \ {c} : op'[p] = op[p]
      BY <1>3, OneRow
    <2>2. \A p \in Ops \ {c} : Verdict(p)' = Verdict(p)
      BY <2>1 DEF Verdict
    <2>3. CASE Verdict(c)' = Verdict(c)
      BY <1>3, <2>2, <2>3 DEF Verdicts
    <2>4. CASE Verdict(c)' # Verdict(c)
      <3>1. op'[c] # op[c]
        BY <2>4 DEF Verdict
      <3>2. Verdict(c) = "open"
        <4>1. op[c] \in Open \cup {"none"}
          BY <3>1, TraceGrows
        <4> QED
          BY <4>1 DEF Verdict, Open
      <3>3. Verdict(c)' \in {"accepted", "dropped"}
        BY <2>4, <3>2 DEF Verdict
      <3>4. Verdict(c)' = "accepted" => effects[c] = 1
        BY <1>3, HappenedStep DEF Verdict, Happened, Done, Open
      <3>5. Verdicts' = [Verdicts EXCEPT ![c] = Verdict(c)']
        BY <2>2 DEF Verdicts
      <3>6. Verdicts[c] = "open"
        BY <3>2 DEF Verdicts
      <3> QED
        BY <1>3, <3>3, <3>4, <3>5, <3>6
    <2> QED
      BY <2>3, <2>4
  <1> QED
    BY <1>1, <1>2, <1>3

\* An operation is tried in the browser once at most, and decided once, as happened only
\* if it has happened: what is asked of it when explorers, leases and workers fail.
THEOREM OperationIsOneShotCall == Spec => IsOneShotCall
  <1>1. IInv /\ [Next]_vars => [Call!Next]_<<effects, Verdicts>>
    BY CallStep DEF Call!Next, Call!Attempt, Call!Accept, Call!Drop, Verdicts, Verdict
  <1>2. IInv /\ [Next]_vars =>
          [Call!Next]_<<effects, [o \in Ops |->
             CASE op[o] \in {"none"} \cup Open -> "open"
               [] op[o] \in {"completed", "failed"} -> "accepted"
               [] OTHER -> "dropped"]>>
    BY <1>1 DEF Verdicts, Verdict
  <1> QED
    BY <1>2, CallInit, Invariance, PTL DEF Spec, IsOneShotCall, Call!Spec
=============================================================================
