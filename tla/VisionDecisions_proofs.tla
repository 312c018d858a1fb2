------------------------ MODULE VisionDecisions_proofs ------------------------
(***************************************************************************)
(* A session that is over has decided each of its operations: proofs about *)
(* VisionOperations that go beyond single operations.                      *)
(*                                                                         *)
(* Whoever ends a session must have dealt with every operation that was    *)
(* left open, by itself or by an explorer that lost the session to it.     *)
(* The invariant says which of them it still has in hand: explorer 1 the   *)
(* one at work, a later one those it has not come to yet.  That it comes   *)
(* to all of them rests on their order: nothing follows an open one.       *)
(***************************************************************************)
EXTENDS VisionOperations_proofs

USE Bounds DEF Ops, Explorers

Reasons == {"none", "policy_disabled", "stopped", "worker_state_unavailable",
            "visual_exploration_unavailable"}
WhyType == why \in [Explorers -> Reasons]

\* Operations are begun one by one, each after the end of the one before it.
Contiguous == \A o, p \in Ops : o < p /\ op[o] \in Open \cup {"none"} => op[p] = "none"

\* Explorer 1 has begun all the operations up to the one it has reached.
Begun ==
    /\ pc[1] \in {"none", "claimed"} => cur[1] = 0
    /\ pc[1] \in First => \A o \in Ops : o <= cur[1] => op[o] # "none"

\* What the owner of the session is still going to decide, at the place where it is.
Undecided(t, o) ==
    \/ pc[t] \in Working \ {"acking"} /\ o = cur[t]
    \/ pc[t] \in {"recover", "reconcile"} /\ o >= cur[t]
    \/ pc[t] = "ackAgain" /\ o > cur[t]

Entrusted(t) ==
    /\ token = t
    /\ pc[t] \in First \cup Later \cup {"ending"}
    /\ pc[t] = "ending" => why[t] # "policy_disabled"
    => \A o \in Ops : op[o] \in Open => Undecided(t, o)

Decisions ==
    /\ WhyType /\ Contiguous /\ Begun
    /\ \A t \in Explorers : Entrusted(t)
    /\ EndedIsDecided

DInv == IInv /\ Quiet /\ Decisions

LEMMA DecisionsInit == Init => Decisions
  <1> SUFFICES ASSUME Init PROVE Decisions
    OBVIOUS
  <1>1. 1 \in Explorers
    OBVIOUS
  <1> QED
    BY <1>1 DEF Init, Decisions, WhyType, Reasons, Contiguous, Begun, Entrusted, EndedIsDecided,
                First, Working, Open, SessionFinal

-----------------------------------------------------------------------------
(* What a step can change.                                                 *)

\* An operation is opened by explorer 1 alone, which owns the session and has no other
\* one open.
LEMMA Opening ==
  ASSUME IInv, [Next]_vars, NEW o \in Ops, op[o] \notin Open, op'[o] \in Open
  PROVE  StartOp(1) /\ o = cur[1] + 1 /\ cur'[1] = cur[1] + 1
  <1>1. TraceTypes /\ ExplorerTypes /\ 1 \in Explorers
    BY DEF IInv, TypeInv
  <1> USE <1>1 DEF TraceTypes, ExplorerTypes, Save
  <1>2. op[o] = "none"
    BY TraceGrows DEF Open
  <1>3. CASE StartOp(1)
    BY <1>2, <1>3 DEF StartOp
  <1>4. CASE CommitBefore(1) \/ Authorize(1) \/ CommitAfter(1) \/ Stop(1)
    <2>1. op[cur[1]] \in Open
      BY <1>4 DEF CommitBefore, Authorize, CommitAfter, Stop, IInv, Explorer, Mine, Open, Owns
    <2> QED
      BY <1>2, <1>4, <2>1 DEF CommitBefore, Authorize, CommitAfter, Stop, Open
  <1>5. ASSUME NEW t \in Explorers, Recovers(t) PROVE FALSE
    BY <1>2, <1>5 DEF Recovers, ReconcileOutcome, Open
  <1>6. ~UNCHANGED <<op, frames>>
    BY DEF Open
  <1> QED
    BY <1>3, <1>4, <1>5, <1>6, WritesOf DEF IInv

\* An explorer writes down its own reason.
LEMMA WhyMoves ==
  ASSUME TypeInv, WhyType, NEW t \in Explorers, Claim(t) \/ ExplorerStep(t) \/ Crash(t)
  PROVE  WhyType' /\ \A u \in Explorers \ {t} : why'[u] = why[u]
  <1> USE DEF WhyType, Reasons, EndWith, Following, Forget
  <1> DEFINE Moved == WhyType' /\ \A u \in Explorers \ {t} : why'[u] = why[u]
  <1>1. ASSUME Claim(t) \/ Crash(t) \/ Begin(t) \/ Finish(t) \/ Fenced(t) \/ Close(t) \/ Publish(t)
        PROVE  Moved
    BY <1>1 DEF Claim, Crash, Begin, Finish, Fenced, Close, Publish
  <1>2. ASSUME Exploring(t) PROVE Moved
    BY <1>2 DEF Exploring, OpenWorker, OpenFails, EndExploration, StartOp, Answered, ReadInstead,
                CommitBefore, Authorize, CommitAfter, Stop, Ack, AckFails
  <1>3. ASSUME Recovering(t) PROVE Moved
    BY <1>3 DEF Recovering, NothingToRecover, RecoverRead, RecoverFails, ReconcileSame,
                ReconcileOutcome, ReconcileDiffers, ReconcileFails, AckAgain, AckAgainFails
  <1> QED
    BY <1>1, <1>2, <1>3, Zenon DEF ExplorerStep

\* Nobody else does.
LEMMA WhyStays ==
  ASSUME [Next]_vars, ~\E t \in Explorers : Claim(t) \/ ExplorerStep(t) \/ Crash(t)
  PROVE  why' = why
  <1>1. CASE UNCHANGED vars
    BY <1>1, Zenon DEF vars, explorerVars
  <1>2. CASE PublishProcessed \/ LeaseLapses \/ LeaseExpires \/ RestartWorker
    BY <1>2, Zenon DEF PublishProcessed, LeaseLapses, LeaseExpires, RestartWorker, explorerVars
  <1>3. CASE WorkerStep
    BY <1>3, Zenon DEF WorkerStep, TakePrepare, AnswerExecute, TakeExecute, CaptureBefore,
                EndPrepare, CheckTarget, Act, EndExecute, Expire, CloseBrowser, explorerVars
  <1> QED
    BY <1>1, <1>2, <1>3, Zenon DEF Next

-----------------------------------------------------------------------------
(* The order of the operations.                                            *)

LEMMA ContiguousStep ==
  ASSUME IInv, Decisions, [Next]_vars
  PROVE  Contiguous'
  <1> SUFFICES ASSUME NEW o \in Ops, NEW p \in Ops, o < p, op'[o] \in Open \cup {"none"}
               PROVE  op'[p] = "none"
    BY DEF Contiguous
  <1>1. TraceTypes /\ ExplorerTypes /\ 1 \in Explorers /\ TraceTypes'
    BY TypeStep DEF IInv, TypeInv
  <1>2. CASE StartOp(1)
    <2>1. \A q \in Ops : q <= cur[1] => op[q] \notin Open \cup {"none"}
      BY <1>2 DEF StartOp, Decisions, Begun, First
    <2>2. \A q \in Ops : q > cur[1] => op[q] = "none"
      BY <1>2 DEF StartOp, IInv, Explorer, First
    <2>3. cur[1] \in Nat /\ cur[1] + 1 \in Ops /\ op' = [op EXCEPT ![cur[1] + 1] = "prepared"]
      BY <1>1, <1>2 DEF StartOp, Save, ExplorerTypes
    <2>4. ~(o <= cur[1])
      BY <1>1, <2>1, <2>3 DEF TraceTypes
    <2>5. p > cur[1] + 1
      BY <2>3, <2>4
    <2>6. op[p] = "none" /\ p # cur[1] + 1
      BY <2>2, <2>3, <2>5
    <2> QED
      BY <1>1, <2>3, <2>6 DEF TraceTypes
  <1>3. CASE ~StartOp(1)
    <2>1. op[o] \in Open \cup {"none"}
      BY TraceGrows
    <2>2. op[p] = "none"
      BY <2>1 DEF Decisions, Contiguous
    <2>3. op'[p] = op[p]
      <3>1. CASE UNCHANGED <<op, frames>>
        BY <3>1
      <3>2. CASE CommitBefore(1) \/ Authorize(1) \/ CommitAfter(1) \/ Stop(1)
        <4>1. op[cur[1]] \in Open
          BY <3>2 DEF CommitBefore, Authorize, CommitAfter, Stop, IInv, Explorer, Mine, Open, Owns
        <4> QED
          BY <1>1, <2>2, <3>2, <4>1
          DEF CommitBefore, Authorize, CommitAfter, Stop, Open, TraceTypes, Save
      <3>3. ASSUME NEW t \in Explorers, Recovers(t) PROVE op'[p] = op[p]
        BY <1>1, <2>2, <3>3 DEF Recovers, ReconcileOutcome, Open, TraceTypes, Save
      <3> QED
        BY <1>3, <3>1, <3>2, <3>3, WritesOf DEF IInv
    <2> QED
      BY <2>2, <2>3
  <1> QED
    BY <1>2, <1>3

LEMMA BegunStep ==
  ASSUME IInv, Decisions, [Next]_vars
  PROVE  Begun'
  <1>1. TypeInv /\ TraceTypes /\ ExplorerTypes /\ ExplorerTypes' /\ 1 \in Explorers
    BY TypeStep DEF IInv, TypeInv
  <1>2. \A o \in Ops : op[o] # "none" => op'[o] # "none"
    BY TraceGrows
  <1>3. CASE pc'[1] = pc[1] /\ cur'[1] = cur[1]
    BY <1>2, <1>3 DEF Decisions, Begun
  <1>4. CASE pc'[1] \in Over \cup {"ending"}
    BY <1>4 DEF Begun, Over, First, Working
  <1>5. CASE Claim(1) \/ Begin(1)
    <2>1. cur[1] = 0
      <3>1. CASE Claim(1)
        <4>1. token = 0 /\ pc[1] = "none"
          BY <1>1, <3>1 DEF Claim, TraceTypes, TypeInv, Who
        <4> QED
          BY <4>1 DEF Decisions, Begun
      <3>2. CASE Begin(1)
        BY <3>2 DEF Begin, Decisions, Begun
      <3> QED
        BY <1>5, <3>1, <3>2
    <2>2. cur'[1] = 0 \/ pc'[1] = "ending"
      BY <1>1, <1>5, <2>1 DEF Claim, Begin, ExplorerTypes, EndWith, GoTo
    <2> QED
      BY <2>2 DEF Begun, First, Working
  <1>6. CASE StartOp(1)
    <2>0. cur[1] \in Nat
      BY <1>1 DEF ExplorerTypes
    <2>1. cur'[1] = cur[1] + 1 /\ pc'[1] = "preparing"
      BY <1>1, <1>6 DEF StartOp, ExplorerTypes, GoTo
    <2>2. op'[cur'[1]] # "none"
      BY <1>1, <1>6, <2>0, <2>1 DEF StartOp, Save, TraceTypes, ExplorerTypes
    <2>3. \A o \in Ops : o <= cur[1] => op'[o] # "none"
      BY <1>2, <1>6 DEF StartOp, Decisions, Begun, First
    <2> QED
      BY <2>0, <2>1, <2>2, <2>3 DEF Begun
  <1>7. CASE OpenWorker(1) \/ Answered(1) \/ ReadInstead(1) \/ CommitBefore(1) \/ Authorize(1)
             \/ CommitAfter(1) \/ Ack(1)
    <2>1. pc[1] \in First /\ cur'[1] = cur[1] /\ pc'[1] \notin {"none", "claimed"}
      BY <1>1, <1>7 DEF OpenWorker, Answered, ReadInstead, CommitBefore, Authorize, CommitAfter, Ack,
                   First, Working, ExplorerTypes, GoTo, EndWith
    <2> QED
      BY <1>2, <2>1 DEF Decisions, Begun
  <1>8. CASE EndPrepare \/ EndExecute \/ \E o \in Ops : AnswerExecute(o)
    <2>1. pc'[1] = pc[1] /\ cur'[1] = cur[1]
      BY <1>8 DEF EndPrepare, EndExecute, AnswerExecute
    <2> QED
      BY <1>3, <2>1
  <1> QED
    BY <1>1, <1>3, <1>4, <1>5, <1>6, <1>7, <1>8, FirstMoves DEF FirstSame, FirstStep

-----------------------------------------------------------------------------
(* What is left to decide.                                                 *)

\* Somebody else's step leaves the owner where it was, with nothing new to decide.
LEMMA EntrustedStays ==
  ASSUME IInv, Decisions, [Next]_vars, NEW t \in Explorers, token' = token,
         ~(Claim(t) \/ ExplorerStep(t) \/ Crash(t))
  PROVE  Entrusted(t)'
  <1>1. TypeInv /\ WhyType /\ Entrusted(t)
    BY DEF IInv, Decisions
  <1>2. pc'[t] = pc[t] /\ cur'[t] = cur[t] /\ why'[t] = why[t]
    <2>1. ASSUME NEW u \in Explorers, Claim(u) \/ ExplorerStep(u) \/ Crash(u)
          PROVE  pc'[t] = pc[t] /\ cur'[t] = cur[t] /\ why'[t] = why[t]
      <3>1. u # t
        BY <2>1
      <3> QED
        BY <1>1, <2>1, <3>1, ExplorerMoves, WhyMoves DEF Others
    <2> QED
      BY <1>1, <2>1, WorkerAnswers, WhyStays
  <1>3. ASSUME token = t, NEW o \in Ops, op'[o] \in Open PROVE op[o] \in Open
    <2>1. ASSUME op[o] \notin Open PROVE FALSE
      <3>1. StartOp(1)
        BY <1>3, <2>1, Opening
      <3>2. t = 1
        BY <1>3, <3>1 DEF StartOp, Owns
      <3> QED
        BY <3>1, <3>2 DEF ExplorerStep, Exploring
    <2> QED
      BY <2>1
  <1> QED
    BY <1>1, <1>2, <1>3 DEF Entrusted, Undecided

\* Explorer 1 starts nothing before it has decided what it started.
LEMMA ExploringDecides ==
  ASSUME IInv, Decisions, [Next]_vars, NEW t \in Explorers, token = t, Exploring(t)
  PROVE  Entrusted(t)'
  <1>1. TraceTypes /\ ExplorerTypes /\ Who /\ Entrusted(t)
    BY DEF IInv, TypeInv, Decisions
  <1> DEFINE Left == \A o \in Ops : op[o] \in Open => o = cur[t] /\ pc[t] \in Working \ {"acking"}
  <1>2. pc[t] \in First => Left
    BY <1>1 DEF Entrusted, Undecided, First, Later, Working
  <1> USE <1>1 DEF TraceTypes, ExplorerTypes, Entrusted, Undecided, GoTo, EndWith, Save
  <1>3. CASE OpenWorker(t) \/ OpenFails(t) \/ EndExploration(t) \/ Ack(t) \/ AckFails(t)
    <2>1. pc[t] \in {"opening", "idle", "acking"} /\ op' = op
      BY <1>3 DEF OpenWorker, OpenFails, EndExploration, Ack, AckFails, dbVars, traceVars
    <2>2. \A o \in Ops : op'[o] \notin Open
      BY <1>2, <2>1 DEF First, Working
    <2> QED
      BY <2>2
  <1>4. CASE StartOp(t)
    <2>1. \A o \in Ops : op'[o] \in Open => o = cur'[t]
      BY <1>4 DEF StartOp
    <2> QED
      BY <1>4, <2>1 DEF StartOp, Working
  <1>5. CASE Answered(t) \/ ReadInstead(t)
    <2>1. /\ pc[t] \in First /\ op' = op /\ cur' = cur
          /\ pc'[t] \in Working \ {"acking"}
      BY <1>5 DEF Answered, ReadInstead, First, Working, dbVars, traceVars
    <2> QED
      BY <1>2, <2>1
  <1>6. CASE Authorize(t)
    <2>1. pc[t] \in First /\ cur' = cur /\ pc'[t] \in Working \ {"acking"}
      BY <1>6 DEF Authorize, First, Working
    <2>2. \A o \in Ops \ {cur[t]} : op'[o] = op[o]
      BY <1>6 DEF Authorize
    <2> QED
      BY <1>2, <2>1, <2>2
  <1>7. CASE CommitBefore(t) \/ CommitAfter(t) \/ Stop(t)
    <2>1. pc[t] \in Working /\ cur' = cur
      BY <1>7 DEF CommitBefore, CommitAfter, Stop, Working
    <2>2. \A o \in Ops \ {cur[t]} : op'[o] = op[o]
      BY <1>7 DEF CommitBefore, CommitAfter, Stop
    <2>3. \A o \in Ops \ {cur[t]} : op'[o] \notin Open
      BY <1>2, <2>1, <2>2 DEF First
    <2>4. cur[t] \in Ops
      BY <2>1 DEF Who
    <2>5. op'[cur[t]] \notin Open \/ pc'[t] = "authorizing"
      BY <1>7, <2>4 DEF CommitBefore, CommitAfter, Stop, RemoteFinal, Final, Open
    <2> QED
      BY <2>1, <2>3, <2>5 DEF Working
  <1> QED
    BY <1>3, <1>4, <1>5, <1>6, <1>7, Zenon DEF Exploring

\* Going on from an operation that is decided, an explorer skips none, because none
\* comes after one that was never begun.
LEMMA GoesOn ==
  ASSUME IInv, Decisions, NEW t \in Explorers, pc[t] \in Later, Following(t),
         \A o \in Ops : op'[o] \in Open => op[o] \in Open /\ o > cur[t]
  PROVE  Entrusted(t)'
  <1>1. ExplorerTypes /\ WhyType /\ Contiguous /\ cur[t] \in Ops
    BY DEF IInv, TypeInv, Who, Decisions
  <1> USE <1>1 DEF ExplorerTypes, WhyType, Entrusted, Undecided, GoTo, EndWith
  <1>2. CASE cur[t] < MaxOps /\ op[cur[t] + 1] # "none"
    <2>1. pc'[t] = "recover" /\ cur'[t] = cur[t] + 1
      BY <1>2 DEF Following
    <2> QED
      BY <2>1
  <1>3. CASE ~(cur[t] < MaxOps /\ op[cur[t] + 1] # "none")
    <2>1. ASSUME NEW o \in Ops, op'[o] \in Open PROVE FALSE
      <3>1. o > cur[t] /\ op[o] \in Open
        BY <2>1
      <3>2. cur[t] + 1 \in Ops /\ op[cur[t] + 1] = "none"
        BY <1>3, <3>1
      <3> QED
        BY <3>1, <3>2 DEF Contiguous, Open
    <2>2. pc'[t] = "ending"
      BY <1>3 DEF Following
    <2> QED
      BY <2>1, <2>2
  <1> QED
    BY <1>2, <1>3

\* A later explorer decides one after the other.
LEMMA RecoveringDecides ==
  ASSUME IInv, Decisions, [Next]_vars, NEW t \in Explorers, token = t, Recovering(t)
  PROVE  Entrusted(t)'
  <1>1. TraceTypes /\ ExplorerTypes /\ Who /\ Entrusted(t) /\ Contiguous
    BY DEF IInv, TypeInv, Decisions
  <1>2. pc[t] \in Later /\ cur[t] \in Ops
    <2>1. pc[t] \in Later
      BY DEF Recovering, Later, NothingToRecover, RecoverRead, RecoverFails, ReconcileSame,
         ReconcileOutcome, ReconcileDiffers, ReconcileFails, AckAgain, AckAgainFails
    <2> QED
      BY <1>1, <2>1 DEF Who
  <1>3. \A o \in Ops : op[o] \in Open =>
            \/ pc[t] \in {"recover", "reconcile"} /\ o >= cur[t]
            \/ pc[t] = "ackAgain" /\ o > cur[t]
    BY <1>1, <1>2 DEF Entrusted, Undecided, Later, Working
  <1> USE <1>1, <1>2 DEF TraceTypes, ExplorerTypes, GoTo, EndWith, Save
  <1>4. CASE NothingToRecover(t)
    <2>1. op' = op /\ pc'[t] = "ending" /\ op[1] = "none" /\ 1 \in Ops
      BY <1>4 DEF NothingToRecover, dbVars, traceVars
    <2>2. ASSUME NEW o \in Ops PROVE op[o] = "none"
      <3>1. o = 1 \/ 1 < o
        OBVIOUS
      <3> QED
        BY <2>1, <3>1 DEF Contiguous
    <2>3. \A o \in Ops : op'[o] \notin Open
      BY <2>1, <2>2 DEF Open
    <2> QED
      BY <2>3 DEF Entrusted
  <1>5. CASE RecoverRead(t)
    <2>1. op' = op /\ pc'[t] = "reconcile" /\ pc[t] = "recover" /\ cur' = cur
      BY <1>5 DEF RecoverRead
    <2> QED
      BY <1>3, <2>1 DEF Entrusted, Undecided
  <1>6. CASE RecoverFails(t)
    <2>1. ASSUME NEW o \in Ops, op'[o] \in Open PROVE op[o] \in Open /\ o > cur[t]
      <3>1. o # cur[t] /\ op'[o] = op[o]
        BY <1>6, <2>1 DEF RecoverFails, Open
      <3> QED
        BY <1>3, <2>1, <3>1
    <2> QED
      BY <1>6, <2>1, GoesOn DEF RecoverFails
  <1>7. CASE ReconcileSame(t)
    <2>1. /\ op' = op /\ pc'[t] = "ackAgain" /\ cur' = cur
          /\ op[cur[t]] \notin Open
      BY <1>7 DEF ReconcileSame, RemoteFinal, Open, dbVars, traceVars
    <2> QED
      BY <1>3, <2>1 DEF Entrusted, Undecided
  <1>8. CASE ReconcileOutcome(t) \/ ReconcileFails(t)
    <2>1. /\ op[cur[t]] \in Open /\ op'[cur[t]] \notin Open
          /\ \A o \in Ops \ {cur[t]} : op'[o] = op[o]
          /\ pc[t] = "reconcile"
      BY <1>8 DEF ReconcileOutcome, ReconcileFails, RemoteFinal, Open
    <2>2. ASSUME NEW o \in Ops, op'[o] \in Open PROVE FALSE
      <3>1. o # cur[t] /\ op[o] \in Open
        BY <2>1, <2>2
      <3>2. o > cur[t]
        BY <1>3, <3>1
      <3> QED
        BY <2>1, <3>1, <3>2 DEF Contiguous, Open
    <2> QED
      BY <2>2 DEF Entrusted
  <1>9. CASE ReconcileDiffers(t)
    <2>1. op' = op /\ op[cur[t]] \notin Open
      BY <1>9 DEF ReconcileDiffers, Final, RemoteFinal, Open, dbVars, traceVars
    <2>2. \A o \in Ops : op'[o] \in Open => op[o] \in Open /\ o > cur[t]
      BY <1>3, <2>1
    <2> QED
      BY <1>9, <2>2, GoesOn DEF ReconcileDiffers
  <1>10. CASE AckAgain(t) \/ AckAgainFails(t)
    <2>1. op' = op /\ pc[t] \in {"ackAgain", "ackCaptured"}
      BY <1>10 DEF AckAgain, AckAgainFails, dbVars, traceVars
    <2>2. \A o \in Ops : op'[o] \in Open => op[o] \in Open /\ o > cur[t]
      BY <1>3, <2>1
    <2>3. CASE Following(t)
      BY <2>2, <2>3, GoesOn
    <2>4. CASE pc[t] = "ackCaptured"
      BY <1>3, <2>1, <2>4 DEF Entrusted
    <2> QED
      BY <1>10, <2>3, <2>4 DEF AckAgain, AckAgainFails
  <1> QED
    BY <1>4, <1>5, <1>6, <1>7, <1>8, <1>9, <1>10, Zenon DEF Recovering

LEMMA EntrustedStep ==
  ASSUME IInv, Decisions, [Next]_vars, NEW t \in Explorers
  PROVE  Entrusted(t)'
  <1>1. TraceTypes /\ ExplorerTypes /\ TypeInv
    BY DEF IInv, TypeInv
  <1> USE <1>1 DEF TraceTypes, ExplorerTypes, GoTo
  <1>2. CASE Claim(t) \/ Crash(t) \/ Finish(t) \/ Fenced(t) \/ Close(t) \/ Publish(t)
    <2>1. pc'[t] \in {"claimed", "gone", "closing", "quitting", "publishing"}
      BY <1>2 DEF Claim, Crash, Finish, Fenced, Close, Publish
    <2> QED
      BY <2>1 DEF Entrusted, First, Working, Later
  <1>3. CASE token' # t
    BY <1>3 DEF Entrusted
  <1>4. ASSUME token' = t, ~Claim(t) PROVE token = t /\ token' = token
    BY <1>4, TokenMoves
  <1>5. CASE token = t /\ Begin(t)
    <2>1. CASE EndWith(t, "policy_disabled")
      BY <2>1 DEF EndWith, Entrusted, Decisions, WhyType
    <2>2. CASE t = 1 /\ op' = op
      <3>1. \A o \in Ops : op'[o] = "none"
        BY <1>5, <2>2 DEF Begin, Decisions, Begun, IInv, Explorer
      <3> QED
        BY <3>1 DEF Entrusted, Open
    <2>3. CASE GoTo(t, "recover") /\ cur' = [cur EXCEPT ![t] = 1]
      BY <2>3 DEF Entrusted, Undecided
    <2> QED
      BY <1>5, <2>1, <2>2, <2>3 DEF Begin, traceVars
  <1> QED
    BY <1>2, <1>3, <1>4, <1>5, ExploringDecides, RecoveringDecides, EntrustedStays
    DEF ExplorerStep

\* A session ends with nothing left to decide, and stays as it ended.
LEMMA EndedStep ==
  ASSUME IInv, Quiet, Decisions, [Next]_vars
  PROVE  EndedIsDecided'
  <1>1. TypeInv
    BY DEF IInv
  <1>2. CASE sess \in SessionFinal
    BY <1>1, <1>2, QuietMeansQuiet DEF Decisions, EndedIsDecided, traceVars
  <1>3. CASE sess \notin SessionFinal /\ sess' = sess
    BY <1>3 DEF EndedIsDecided
  <1>4. ASSUME NEW t \in Explorers, Begin(t) PROVE EndedIsDecided'
    BY <1>4 DEF Begin, EndedIsDecided, SessionFinal
  <1>5. ASSUME NEW t \in Explorers, Finish(t) PROVE EndedIsDecided'
    <2>1. Entrusted(t) /\ token = t /\ pc[t] = "ending" /\ op' = op /\ reason' = why[t]
      BY <1>5 DEF Finish, Owns, Decisions, traceVars
    <2>2. why[t] # "policy_disabled" => \A o \in Ops : op[o] \notin Open
      BY <2>1 DEF Entrusted, Undecided, Working
    <2> QED
      BY <2>1, <2>2 DEF EndedIsDecided
  <1> QED
    BY <1>2, <1>3, <1>4, <1>5, SessionMoves DEF Claim

LEMMA DecisionsStep ==
  ASSUME IInv, Quiet, Decisions, [Next]_vars
  PROVE  Decisions'
  <1>1. TypeInv
    BY DEF IInv
  <1>2. WhyType'
    BY <1>1, WhyMoves, WhyStays DEF Decisions, WhyType
  <1>3. Contiguous' /\ Begun' /\ EndedIsDecided'
    BY ContiguousStep, BegunStep, EndedStep
  <1>4. \A t \in Explorers : Entrusted(t)'
    BY EntrustedStep
  <1> QED
    BY <1>2, <1>3, <1>4 DEF Decisions

-----------------------------------------------------------------------------

\* A session that is over leaves no operation open, whichever of its explorers crashed
\* or lost its lease on the way, unless it was switched off before anybody could take
\* over: every path to the end of visual_exploration.py and vision_recovery.py stops
\* or reconciles first what it finds open.
THEOREM EndIsDecision == Spec => []EndedIsDecided
  <1>1. Init => DInv
    BY IInvInit, QuietInit, DecisionsInit DEF DInv
  <1>2. DInv /\ [Next]_vars => DInv'
    <2> SUFFICES ASSUME DInv, [Next]_vars PROVE DInv'
      OBVIOUS
    <2>1. IInv' /\ Decisions'
      BY IInvStep, DecisionsStep DEF DInv
    <2>2. Quiet'
      BY QuietStep DEF DInv, IInv
    <2> QED
      BY <2>1, <2>2 DEF DInv
  <1>3. DInv => EndedIsDecided
    BY DEF DInv, Decisions
  <1> QED
    BY <1>1, <1>2, <1>3, PTL DEF Spec

=============================================================================
