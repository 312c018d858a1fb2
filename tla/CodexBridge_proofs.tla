------------------------ MODULE CodexBridge_proofs ------------------------
(***************************************************************************)
(* Proofs about CodexBridge, for any number of jobs, any bound of the      *)
(* queue and any number of crashes.                                        *)
(*                                                                         *)
(* The two sides tell each other what they know with files only, so the    *)
(* invariant says of every file what the other side may be at while it is  *)
(* there.  It has three parts: the lock and the count of the queue, what   *)
(* the row and the caller know of each other, and what is left of a launch *)
(* for those who come later.                                               *)
(***************************************************************************)
EXTENDS CodexBridge, FiniteSetTheorems, TLAPS

\* The producer has not published the job yet; it writes nothing more into the
\* directory.
Early == {"start", "publish", "staging"}
Done == {"cancelDb", "await", "raised", "returned", "crashed"}

\* The consumer has a job in hand: it removes it or visits it.
Visiting == {"claim", "emptyClaim", "claimed", "running", "launch", "process",
             "stopped", "complete", "write", "purge"}
Answering == {"stopped", "complete", "write"}
Removing(j) == cpc = "removing" /\ cur = j

\* What the consumer holds while it visits a job.
InHand ==
    /\ cpc \in Visiting \cup {"removing"} => cur \in Jobs
    /\ cpc \in Answering => result # "none"
    /\ cpc \notin Answering => result = "none"

TypeInv == TypeOK /\ InHand

-----------------------------------------------------------------------------
(* The invariant *)

\* The producer that counted the queue holds the lock until it renames; the consumer
\* holds it while it reconciles.
Locks ==
    /\ \A j \in Jobs : pc[j] = "staging" => plock = j
    /\ cpc \in {"reconcile", "removing"} => plock = "consumer"

Counted ==
    /\ \A j \in Jobs : pc[j] = "staging" => Cardinality(Listed) < MaxPending
    /\ QueueBound

\* What became of the job and who knows of it.  Until the deadline, the consumer
\* removes a job only when its producer is done with it; so a producer that read
\* an answer finds it again when it acknowledges it.
Told(j) ==
    /\ pc[j] \in {"ack", "returned"} => status[j] \in {"completed", "failed"}
    /\ "ack" \in files[j] => pc[j] = "returned"
    /\ "cancel" \in files[j] => pc[j] \in Done \ {"returned"}
    /\ pc[j] \in Early => files[j] = {} /\ (cpc \in Visiting => cur # j)
    /\ j \in asof => late[j]
    /\ Removing(j) => late[j] \/ pc[j] \in Done
    /\ pc[j] \in {"poll", "authorize", "read", "finish", "ack"} /\ ~late[j] =>
          dir[j] = "job"
    /\ pc[j] \in {"finish", "ack"} /\ ~late[j] => HasResponse(j)
    /\ status[j] = "completed" => late[j] \/ pc[j] \in {"ack", "returned", "crashed"}

Agreed == \A j \in Jobs : Told(j)

\* What is left of a launch: its claim stands until nothing can start the job
\* again - its deadline has passed, its request is gone, or it is being removed as
\* a whole, with nobody who adds a file.
Spent(j) ==
    \/ HasClaim(j)
    \/ late[j]
    \/ ~LoadWorks(j)
    \/ Removing(j) /\ pc[j] \in Done

Started(j) ==
    /\ launches[j] \in {0, 1}
    /\ launches[j] = 1 => Spent(j)
    /\ pc[j] \in Early => launches[j] = 0 /\ dir[j] # "job"
    /\ pc[j] = "start" => status[j] = "none"
    /\ Removing(j) /\ ~late[j] => files[j] \subseteq doomed
    /\ cur = j /\ cpc \in {"claim", "emptyClaim", "claimed", "running", "launch"} =>
          launches[j] = 0
    /\ cur = j /\ cpc \in {"emptyClaim", "claimed", "running", "launch"} => HasClaim(j)
    /\ cur = j /\ cpc = "process" => launches[j] = 1
    /\ cur = j /\ result = "output" => launches[j] = 1
    /\ "output" \in files[j] => launches[j] = 1

Once == \A j \in Jobs : Started(j)

-----------------------------------------------------------------------------
(* Types *)

LEMMA Names == \A j \in Jobs : j # "free" /\ j # "consumer" /\ j # "none"
  BY NamesAssumption

LEMMA TypeInit == Init => TypeInv
  BY CrashesAssumption DEF Init, TypeInv, TypeOK, InHand, Visiting, Answering,
     Statuses, Files, ProducerPcs, ConsumerPcs, NoJob

LEMMA TypeStep ==
  ASSUME TypeInv, [Next]_vars
  PROVE  TypeInv'
  <1> USE Names DEF TypeInv, TypeOK, InHand, world, spool, consumer, Put, Goto,
      At, Raises, ConsumerGone, LoadWorks, LoadFails, NoJob, Visiting,
      Answering, Statuses, Terminal, Files, ProducerPcs, ConsumerPcs, Listed
  <1>1. ASSUME NEW j \in Jobs, Register(j) PROVE TypeInv'
    BY <1>1 DEF Register
  <1>2. ASSUME NEW j \in Jobs, Refuse(j) PROVE TypeInv'
    BY <1>2 DEF Refuse
  <1>3. ASSUME NEW j \in Jobs, Publish(j) PROVE TypeInv'
    BY <1>3 DEF Publish
  <1>4. ASSUME NEW j \in Jobs, PublishFails(j) PROVE TypeInv'
    BY <1>4 DEF PublishFails
  <1>5. ASSUME NEW j \in Jobs, Rename(j) PROVE TypeInv'
    BY <1>5 DEF Rename
  <1>6. ASSUME NEW j \in Jobs, Poll(j) PROVE TypeInv'
    BY <1>6 DEF Poll, Polled
  <1>7. ASSUME NEW j \in Jobs, PollFails(j) PROVE TypeInv'
    BY <1>7 DEF PollFails
  <1>8. ASSUME NEW j \in Jobs, Authorize(j) PROVE TypeInv'
    BY <1>8 DEF Authorize
  <1>9. ASSUME NEW j \in Jobs, AuthorizeFails(j) PROVE TypeInv'
    BY <1>9 DEF AuthorizeFails
  <1>10. ASSUME NEW j \in Jobs, ReadResult(j) PROVE TypeInv'
    BY <1>10 DEF ReadResult
  <1>11. ASSUME NEW j \in Jobs, Finish(j) PROVE TypeInv'
    BY <1>11 DEF Finish
  <1>12. ASSUME NEW j \in Jobs, FinishFails(j) PROVE TypeInv'
    BY <1>12 DEF FinishFails
  <1>13. ASSUME NEW j \in Jobs, Acknowledge(j) PROVE TypeInv'
    BY <1>13 DEF Acknowledge
  <1>14. ASSUME NEW j \in Jobs, AcknowledgeFails(j) PROVE TypeInv'
    BY <1>14 DEF AcknowledgeFails
  <1>15. ASSUME NEW j \in Jobs, CancelFile(j) PROVE TypeInv'
    BY <1>15 DEF CancelFile
  <1>16. ASSUME NEW j \in Jobs, CancelFileFails(j) PROVE TypeInv'
    BY <1>16 DEF CancelFileFails
  <1>17. ASSUME NEW j \in Jobs, CancelDb(j) PROVE TypeInv'
    BY <1>17 DEF CancelDb
  <1>18. ASSUME NEW j \in Jobs, Await(j) PROVE TypeInv'
    BY <1>18 DEF Await
  <1>19. ASSUME NEW j \in Jobs, BeginRemove(j) PROVE TypeInv'
    BY <1>19 DEF BeginRemove
  <1>20. ASSUME NEW j \in Jobs, Keep(j) PROVE TypeInv'
    BY <1>20 DEF Keep
  <1>21. ASSUME NEW j \in Jobs, ReconcileRaises(j) PROVE TypeInv'
    BY <1>21 DEF ReconcileRaises
  <1>22. ASSUME NEW j \in Jobs, Skip(j) PROVE TypeInv'
    BY <1>22 DEF Skip
  <1>23. ASSUME NEW j \in Jobs, FailWithoutRun(j) PROVE TypeInv'
    BY <1>23 DEF FailWithoutRun
  <1>24. ASSUME NEW j \in Jobs, Take(j) PROVE TypeInv'
    BY <1>24 DEF Take
  <1>25. ASSUME NEW j \in Jobs, VisitRaises(j) PROVE TypeInv'
    BY <1>25 DEF VisitRaises
  <1>26. ASSUME NEW j \in Jobs, DeadlinePasses(j) PROVE TypeInv'
    BY <1>26 DEF DeadlinePasses
  <1>27. ASSUME NEW j \in Jobs, AuthorizationExpires(j) PROVE TypeInv'
    BY <1>27 DEF AuthorizationExpires
  <1>28. ASSUME NEW j \in Jobs, LoseLease(j) PROVE TypeInv'
    BY <1>28 DEF LoseLease
  <1>29. ASSUME NEW j \in Jobs, InterruptPending(j) PROVE TypeInv'
    BY <1>29 DEF InterruptPending
  <1>30. ASSUME NEW j \in Jobs, ProducerCrash(j) PROVE TypeInv'
    BY <1>30 DEF ProducerCrash
  <1>31. CASE BeginReconcile
    BY <1>31 DEF BeginReconcile
  <1>32. CASE LockBusy
    BY <1>32 DEF LockBusy
  <1>33. CASE Rmdir
    BY <1>33 DEF Rmdir
  <1>34. CASE RemoveRaises
    BY <1>34 DEF RemoveRaises
  <1>35. CASE EndReconcile
    BY <1>35 DEF EndReconcile
  <1>36. CASE ListJobs
    BY <1>36 DEF ListJobs
  <1>37. CASE EndPass
    BY <1>37 DEF EndPass
  <1>38. CASE Claim
    BY <1>38 DEF Claim
  <1>39. CASE ClaimRaises
    BY <1>39 DEF ClaimRaises
  <1>40. CASE WriteClaim
    BY <1>40 DEF WriteClaim
  <1>41. CASE RecordStage
    BY <1>41 DEF RecordStage
  <1>42. CASE Launch
    BY <1>42 DEF Launch
  <1>43. CASE NoLaunch
    BY <1>43 DEF NoLaunch
  <1>44. CASE ProcessEnds
    BY <1>44 DEF ProcessEnds
  <1>45. CASE CheckStop
    BY <1>45 DEF CheckStop
  <1>46. CASE WriteResponse
    BY <1>46 DEF WriteResponse
  <1>47. CASE Purge
    BY <1>47 DEF Purge
  <1>48. CASE HeartbeatExpires
    BY <1>48 DEF HeartbeatExpires
  <1>49. CASE ConsumerCrash
    <2>1. files' \in [Jobs -> SUBSET Files] /\ crashes' \in 0..MaxCrashes
      BY <1>49, CrashesAssumption DEF ConsumerCrash
    <2> QED
      BY <1>49, <2>1 DEF ConsumerCrash
  <1>50. CASE Restart
    BY <1>50 DEF Restart
  <1>51. ASSUME NEW f \in Files, Unlink(f) PROVE TypeInv'
    BY <1>51 DEF Unlink
  <1>52. CASE UNCHANGED vars
    BY <1>52 DEF vars
  <1>53. ASSUME NEW j \in Jobs, StagingFails(j) PROVE TypeInv'
    BY <1>53 DEF StagingFails
  <1> QED
    BY <1>1, <1>2, <1>3, <1>4, <1>5, <1>6, <1>7, <1>8, <1>9, <1>10, <1>11,
       <1>12, <1>13, <1>14, <1>15, <1>16, <1>17, <1>18, <1>19, <1>20, <1>21,
       <1>22, <1>23, <1>24, <1>25, <1>26, <1>27, <1>28, <1>29, <1>30, <1>31,
       <1>32, <1>33, <1>34, <1>35, <1>36, <1>37, <1>38, <1>39, <1>40, <1>41,
       <1>42, <1>43, <1>44, <1>45, <1>46, <1>47, <1>48, <1>49, <1>50, <1>51,
       <1>52, <1>53
       DEF Next, Step, Serve, World

\* Every variable keeps to its type: the producer and the consumer are always at one of
\* the places of their code, and no file appears that spool.py does not know.
THEOREM TypeCorrect == Spec => []TypeOK
  <1>1. TypeInv => TypeOK
    BY DEF TypeInv
  <1> QED
    BY <1>1, TypeInit, TypeStep, PTL DEF Spec

-----------------------------------------------------------------------------
(* The queue *)

LEMMA LocksStep ==
  ASSUME TypeInv, Locks, [Next]_vars
  PROVE  Locks'
  <1> USE Names DEF TypeInv, TypeOK, InHand, world, spool, consumer, Put, Goto,
      At, Raises, ConsumerGone, LoadWorks, LoadFails, NoJob, Locks, Listed
  <1>1. ASSUME NEW j \in Jobs, Register(j) PROVE Locks'
    BY <1>1 DEF Register
  <1>2. ASSUME NEW j \in Jobs, Refuse(j) PROVE Locks'
    BY <1>2 DEF Refuse
  <1>3. ASSUME NEW j \in Jobs, Publish(j) PROVE Locks'
    BY <1>3 DEF Publish
  <1>4. ASSUME NEW j \in Jobs, PublishFails(j) PROVE Locks'
    BY <1>4 DEF PublishFails
  <1>5. ASSUME NEW j \in Jobs, Rename(j) PROVE Locks'
    BY <1>5 DEF Rename
  <1>6. ASSUME NEW j \in Jobs, Poll(j) PROVE Locks'
    BY <1>6 DEF Poll
  <1>7. ASSUME NEW j \in Jobs, PollFails(j) PROVE Locks'
    BY <1>7 DEF PollFails
  <1>8. ASSUME NEW j \in Jobs, Authorize(j) PROVE Locks'
    BY <1>8 DEF Authorize
  <1>9. ASSUME NEW j \in Jobs, AuthorizeFails(j) PROVE Locks'
    BY <1>9 DEF AuthorizeFails
  <1>10. ASSUME NEW j \in Jobs, ReadResult(j) PROVE Locks'
    BY <1>10 DEF ReadResult
  <1>11. ASSUME NEW j \in Jobs, Finish(j) PROVE Locks'
    BY <1>11 DEF Finish
  <1>12. ASSUME NEW j \in Jobs, FinishFails(j) PROVE Locks'
    BY <1>12 DEF FinishFails
  <1>13. ASSUME NEW j \in Jobs, Acknowledge(j) PROVE Locks'
    BY <1>13 DEF Acknowledge
  <1>14. ASSUME NEW j \in Jobs, AcknowledgeFails(j) PROVE Locks'
    BY <1>14 DEF AcknowledgeFails
  <1>15. ASSUME NEW j \in Jobs, CancelFile(j) PROVE Locks'
    BY <1>15 DEF CancelFile
  <1>16. ASSUME NEW j \in Jobs, CancelFileFails(j) PROVE Locks'
    BY <1>16 DEF CancelFileFails
  <1>17. ASSUME NEW j \in Jobs, CancelDb(j) PROVE Locks'
    BY <1>17 DEF CancelDb
  <1>18. ASSUME NEW j \in Jobs, Await(j) PROVE Locks'
    BY <1>18 DEF Await
  <1>19. ASSUME NEW j \in Jobs, BeginRemove(j) PROVE Locks'
    BY <1>19 DEF BeginRemove
  <1>20. ASSUME NEW j \in Jobs, Keep(j) PROVE Locks'
    BY <1>20 DEF Keep
  <1>21. ASSUME NEW j \in Jobs, ReconcileRaises(j) PROVE Locks'
    BY <1>21 DEF ReconcileRaises
  <1>22. ASSUME NEW j \in Jobs, Skip(j) PROVE Locks'
    BY <1>22 DEF Skip
  <1>23. ASSUME NEW j \in Jobs, FailWithoutRun(j) PROVE Locks'
    BY <1>23 DEF FailWithoutRun
  <1>24. ASSUME NEW j \in Jobs, Take(j) PROVE Locks'
    BY <1>24 DEF Take
  <1>25. ASSUME NEW j \in Jobs, VisitRaises(j) PROVE Locks'
    BY <1>25 DEF VisitRaises
  <1>26. ASSUME NEW j \in Jobs, DeadlinePasses(j) PROVE Locks'
    BY <1>26 DEF DeadlinePasses
  <1>27. ASSUME NEW j \in Jobs, AuthorizationExpires(j) PROVE Locks'
    BY <1>27 DEF AuthorizationExpires
  <1>28. ASSUME NEW j \in Jobs, LoseLease(j) PROVE Locks'
    BY <1>28 DEF LoseLease
  <1>29. ASSUME NEW j \in Jobs, InterruptPending(j) PROVE Locks'
    BY <1>29 DEF InterruptPending
  <1>30. ASSUME NEW j \in Jobs, ProducerCrash(j) PROVE Locks'
    BY <1>30 DEF ProducerCrash
  <1>31. CASE BeginReconcile
    BY <1>31 DEF BeginReconcile
  <1>32. CASE LockBusy
    BY <1>32 DEF LockBusy
  <1>33. CASE Rmdir
    BY <1>33 DEF Rmdir
  <1>34. CASE RemoveRaises
    BY <1>34 DEF RemoveRaises
  <1>35. CASE EndReconcile
    BY <1>35 DEF EndReconcile
  <1>36. CASE ListJobs
    BY <1>36 DEF ListJobs
  <1>37. CASE EndPass
    BY <1>37 DEF EndPass
  <1>38. CASE Claim
    BY <1>38 DEF Claim
  <1>39. CASE ClaimRaises
    BY <1>39 DEF ClaimRaises
  <1>40. CASE WriteClaim
    BY <1>40 DEF WriteClaim
  <1>41. CASE RecordStage
    BY <1>41 DEF RecordStage
  <1>42. CASE Launch
    BY <1>42 DEF Launch
  <1>43. CASE NoLaunch
    BY <1>43 DEF NoLaunch
  <1>44. CASE ProcessEnds
    BY <1>44 DEF ProcessEnds
  <1>45. CASE CheckStop
    BY <1>45 DEF CheckStop
  <1>46. CASE WriteResponse
    BY <1>46 DEF WriteResponse
  <1>47. CASE Purge
    BY <1>47 DEF Purge
  <1>48. CASE HeartbeatExpires
    BY <1>48 DEF HeartbeatExpires
  <1>49. CASE ConsumerCrash
    BY <1>49 DEF ConsumerCrash
  <1>50. CASE Restart
    BY <1>50 DEF Restart
  <1>51. ASSUME NEW f \in Files, Unlink(f) PROVE Locks'
    BY <1>51 DEF Unlink
  <1>52. CASE UNCHANGED vars
    BY <1>52 DEF vars
  <1>53. ASSUME NEW j \in Jobs, StagingFails(j) PROVE Locks'
    BY <1>53 DEF StagingFails
  <1> QED
    BY <1>1, <1>2, <1>3, <1>4, <1>5, <1>6, <1>7, <1>8, <1>9, <1>10, <1>11,
       <1>12, <1>13, <1>14, <1>15, <1>16, <1>17, <1>18, <1>19, <1>20, <1>21,
       <1>22, <1>23, <1>24, <1>25, <1>26, <1>27, <1>28, <1>29, <1>30, <1>31,
       <1>32, <1>33, <1>34, <1>35, <1>36, <1>37, <1>38, <1>39, <1>40, <1>41,
       <1>42, <1>43, <1>44, <1>45, <1>46, <1>47, <1>48, <1>49, <1>50, <1>51,
       <1>52, <1>53
       DEF Next, Step, Serve, World

\* Only a rename makes the queue longer, and a producer that is about to rename counted
\* it, now or earlier.
LEMMA QueueMoves ==
  ASSUME TypeInv, [Next]_vars
  PROVE  \/ /\ Listed' \subseteq Listed
            /\ \A k \in Jobs : pc'[k] = "staging" =>
                  pc[k] = "staging" \/ Cardinality(Listed) < MaxPending
         \/ \E j \in Jobs : Rename(j) /\ Listed' = Listed \cup {j}
  <1> DEFINE Longer(j) == Rename(j) /\ Listed' = Listed \cup {j}
             Shorter == /\ Listed' \subseteq Listed
                        /\ \A k \in Jobs : pc'[k] = "staging" =>
                              pc[k] = "staging" \/ Cardinality(Listed) < MaxPending
  <1> USE Names DEF TypeInv, TypeOK, InHand, world, spool, consumer, Put, Goto,
      At, Raises, ConsumerGone, LoadWorks, LoadFails, NoJob, Listed
  <1>1. ASSUME NEW j \in Jobs, Register(j) PROVE Shorter
    BY <1>1 DEF Register
  <1>2. ASSUME NEW j \in Jobs, Refuse(j) PROVE Shorter
    BY <1>2 DEF Refuse
  <1>3. ASSUME NEW j \in Jobs, Publish(j) PROVE Shorter
    BY <1>3 DEF Publish
  <1>4. ASSUME NEW j \in Jobs, PublishFails(j) PROVE Shorter
    BY <1>4 DEF PublishFails
  <1>5. ASSUME NEW j \in Jobs, Rename(j) PROVE Longer(j)
    BY <1>5 DEF Rename
  <1>6. ASSUME NEW j \in Jobs, Poll(j) PROVE Shorter
    BY <1>6 DEF Poll
  <1>7. ASSUME NEW j \in Jobs, PollFails(j) PROVE Shorter
    BY <1>7 DEF PollFails
  <1>8. ASSUME NEW j \in Jobs, Authorize(j) PROVE Shorter
    BY <1>8 DEF Authorize
  <1>9. ASSUME NEW j \in Jobs, AuthorizeFails(j) PROVE Shorter
    BY <1>9 DEF AuthorizeFails
  <1>10. ASSUME NEW j \in Jobs, ReadResult(j) PROVE Shorter
    BY <1>10 DEF ReadResult
  <1>11. ASSUME NEW j \in Jobs, Finish(j) PROVE Shorter
    BY <1>11 DEF Finish
  <1>12. ASSUME NEW j \in Jobs, FinishFails(j) PROVE Shorter
    BY <1>12 DEF FinishFails
  <1>13. ASSUME NEW j \in Jobs, Acknowledge(j) PROVE Shorter
    BY <1>13 DEF Acknowledge
  <1>14. ASSUME NEW j \in Jobs, AcknowledgeFails(j) PROVE Shorter
    BY <1>14 DEF AcknowledgeFails
  <1>15. ASSUME NEW j \in Jobs, CancelFile(j) PROVE Shorter
    BY <1>15 DEF CancelFile
  <1>16. ASSUME NEW j \in Jobs, CancelFileFails(j) PROVE Shorter
    BY <1>16 DEF CancelFileFails
  <1>17. ASSUME NEW j \in Jobs, CancelDb(j) PROVE Shorter
    BY <1>17 DEF CancelDb
  <1>18. ASSUME NEW j \in Jobs, Await(j) PROVE Shorter
    BY <1>18 DEF Await
  <1>19. ASSUME NEW j \in Jobs, BeginRemove(j) PROVE Shorter
    BY <1>19 DEF BeginRemove
  <1>20. ASSUME NEW j \in Jobs, Keep(j) PROVE Shorter
    BY <1>20 DEF Keep
  <1>21. ASSUME NEW j \in Jobs, ReconcileRaises(j) PROVE Shorter
    BY <1>21 DEF ReconcileRaises
  <1>22. ASSUME NEW j \in Jobs, Skip(j) PROVE Shorter
    BY <1>22 DEF Skip
  <1>23. ASSUME NEW j \in Jobs, FailWithoutRun(j) PROVE Shorter
    BY <1>23 DEF FailWithoutRun
  <1>24. ASSUME NEW j \in Jobs, Take(j) PROVE Shorter
    BY <1>24 DEF Take
  <1>25. ASSUME NEW j \in Jobs, VisitRaises(j) PROVE Shorter
    BY <1>25 DEF VisitRaises
  <1>26. ASSUME NEW j \in Jobs, DeadlinePasses(j) PROVE Shorter
    BY <1>26 DEF DeadlinePasses
  <1>27. ASSUME NEW j \in Jobs, AuthorizationExpires(j) PROVE Shorter
    BY <1>27 DEF AuthorizationExpires
  <1>28. ASSUME NEW j \in Jobs, LoseLease(j) PROVE Shorter
    BY <1>28 DEF LoseLease
  <1>29. ASSUME NEW j \in Jobs, InterruptPending(j) PROVE Shorter
    BY <1>29 DEF InterruptPending
  <1>30. ASSUME NEW j \in Jobs, ProducerCrash(j) PROVE Shorter
    BY <1>30 DEF ProducerCrash
  <1>31. CASE BeginReconcile
    BY <1>31 DEF BeginReconcile
  <1>32. CASE LockBusy
    BY <1>32 DEF LockBusy
  <1>33. CASE Rmdir
    BY <1>33 DEF Rmdir
  <1>34. CASE RemoveRaises
    BY <1>34 DEF RemoveRaises
  <1>35. CASE EndReconcile
    BY <1>35 DEF EndReconcile
  <1>36. CASE ListJobs
    BY <1>36 DEF ListJobs
  <1>37. CASE EndPass
    BY <1>37 DEF EndPass
  <1>38. CASE Claim
    BY <1>38 DEF Claim
  <1>39. CASE ClaimRaises
    BY <1>39 DEF ClaimRaises
  <1>40. CASE WriteClaim
    BY <1>40 DEF WriteClaim
  <1>41. CASE RecordStage
    BY <1>41 DEF RecordStage
  <1>42. CASE Launch
    BY <1>42 DEF Launch
  <1>43. CASE NoLaunch
    BY <1>43 DEF NoLaunch
  <1>44. CASE ProcessEnds
    BY <1>44 DEF ProcessEnds
  <1>45. CASE CheckStop
    BY <1>45 DEF CheckStop
  <1>46. CASE WriteResponse
    BY <1>46 DEF WriteResponse
  <1>47. CASE Purge
    BY <1>47 DEF Purge
  <1>48. CASE HeartbeatExpires
    BY <1>48 DEF HeartbeatExpires
  <1>49. CASE ConsumerCrash
    BY <1>49 DEF ConsumerCrash
  <1>50. CASE Restart
    BY <1>50 DEF Restart
  <1>51. ASSUME NEW f \in Files, Unlink(f) PROVE Shorter
    BY <1>51 DEF Unlink
  <1>52. CASE UNCHANGED vars
    BY <1>52 DEF vars
  <1>53. ASSUME NEW j \in Jobs, StagingFails(j) PROVE Shorter
    BY <1>53 DEF StagingFails
  <1> QED
    BY <1>1, <1>2, <1>3, <1>4, <1>5, <1>6, <1>7, <1>8, <1>9, <1>10, <1>11,
       <1>12, <1>13, <1>14, <1>15, <1>16, <1>17, <1>18, <1>19, <1>20, <1>21,
       <1>22, <1>23, <1>24, <1>25, <1>26, <1>27, <1>28, <1>29, <1>30, <1>31,
       <1>32, <1>33, <1>34, <1>35, <1>36, <1>37, <1>38, <1>39, <1>40, <1>41,
       <1>42, <1>43, <1>44, <1>45, <1>46, <1>47, <1>48, <1>49, <1>50, <1>51,
       <1>52, <1>53
       DEF Next, Step, Serve, World

\* Between the count of a producer and its rename nobody else renames, because nobody
\* else has the lock.
LEMMA CountedStep ==
  ASSUME TypeInv, Locks, Counted, [Next]_vars
  PROVE  Counted'
  <1> DEFINE n == Cardinality(Listed)
             m == Cardinality(Listed')
  <1>0. IsFiniteSet(Listed) /\ n \in Nat /\ MaxPending \in Nat
    BY JobsAssumption, PendingAssumption, FS_Subset, FS_CardinalityType DEF Listed
  <1>1. ASSUME NEW j \in Jobs, Rename(j), Listed' = Listed \cup {j} PROVE Counted'
    <2>1. m \in Nat /\ m <= n + 1
      <3>1. Cardinality(Listed \cup {j}) \in {n, n + 1}
        BY <1>0, FS_AddElement
      <3> QED
        BY <1>0, <1>1, <3>1
    <2>2. n < MaxPending /\ \A k \in Jobs \ {j} : pc[k] # "staging"
      BY <1>1 DEF Rename, Locks, Counted
    <2>3. \A k \in Jobs : pc'[k] # "staging"
      BY <1>1, <2>2 DEF Rename, Goto, TypeInv, TypeOK
    <2>4. m <= MaxPending
      BY <1>0, <2>1, <2>2
    <2> QED
      BY <2>3, <2>4 DEF Counted, QueueBound
  <1>2. CASE /\ Listed' \subseteq Listed
             /\ \A k \in Jobs : pc'[k] = "staging" =>
                   pc[k] = "staging" \/ Cardinality(Listed) < MaxPending
    <2>1. m \in Nat /\ m <= n
      BY <1>0, <1>2, FS_Subset, FS_CardinalityType
    <2>2. n <= MaxPending /\ \A k \in Jobs : pc'[k] = "staging" => n < MaxPending
      BY <1>2 DEF Counted, QueueBound
    <2>3. m <= MaxPending /\ \A k \in Jobs : pc'[k] = "staging" => m < MaxPending
      BY <1>0, <2>1, <2>2
    <2> QED
      BY <2>3 DEF Counted, QueueBound
  <1> QED
    BY <1>1, <1>2, QueueMoves

LEMMA QueueInit == Init => Locks /\ Counted
  <1> SUFFICES ASSUME Init PROVE Locks /\ Counted
    OBVIOUS
  <1>1. Listed = {}
    BY DEF Init, Listed
  <1>2. Cardinality(Listed) = 0
    BY <1>1, FS_EmptySet
  <1> QED
    BY <1>2, PendingAssumption DEF Init, Locks, Counted, QueueBound

\* However many producers publish at a time: the count under the lock and the rename
\* under the same lock keep the queue within max_pending.
THEOREM QueueIsBounded == Spec => []QueueBound
  <1>1. Counted => QueueBound
    BY DEF Counted
  <1> QED
    BY <1>1, TypeInit, TypeStep, QueueInit, LocksStep, CountedStep, PTL DEF Spec

-----------------------------------------------------------------------------
(* The row and the caller *)

LEMMA AgreedInit == Init => Agreed
  BY DEF Init, Agreed, Told, Removing, Early, Visiting

LEMMA AgreedStep ==
  ASSUME TypeInv, Agreed, [Next]_vars
  PROVE  Agreed'
  <1> SUFFICES ASSUME NEW k \in Jobs PROVE Told(k)'
    BY DEF Agreed
  <1> USE Names DEF TypeInv, TypeOK, InHand, world, spool, consumer, Put, Goto,
      At, Raises, ConsumerGone, LoadWorks, LoadFails, NoJob, Agreed, Told,
      Removing, Removable, Cancelled, Done, Early, Visiting, HasResponse,
      Terminal, Statuses
  <1>1. ASSUME NEW j \in Jobs, Register(j) PROVE Told(k)'
    BY <1>1 DEF Register
  <1>2. ASSUME NEW j \in Jobs, Refuse(j) PROVE Told(k)'
    BY <1>2 DEF Refuse
  <1>3. ASSUME NEW j \in Jobs, Publish(j) PROVE Told(k)'
    BY <1>3 DEF Publish
  <1>4. ASSUME NEW j \in Jobs, PublishFails(j) PROVE Told(k)'
    BY <1>4 DEF PublishFails
  <1>5. ASSUME NEW j \in Jobs, Rename(j) PROVE Told(k)'
    BY <1>5 DEF Rename
  <1>6. ASSUME NEW j \in Jobs, Poll(j) PROVE Told(k)'
    BY <1>6 DEF Poll, Polled
  <1>7. ASSUME NEW j \in Jobs, PollFails(j) PROVE Told(k)'
    BY <1>7 DEF PollFails
  <1>8. ASSUME NEW j \in Jobs, Authorize(j) PROVE Told(k)'
    BY <1>8 DEF Authorize
  <1>9. ASSUME NEW j \in Jobs, AuthorizeFails(j) PROVE Told(k)'
    BY <1>9 DEF AuthorizeFails
  <1>10. ASSUME NEW j \in Jobs, ReadResult(j) PROVE Told(k)'
    BY <1>10 DEF ReadResult
  <1>11. ASSUME NEW j \in Jobs, Finish(j) PROVE Told(k)'
    BY <1>11 DEF Finish
  <1>12. ASSUME NEW j \in Jobs, FinishFails(j) PROVE Told(k)'
    BY <1>12 DEF FinishFails
  <1>13. ASSUME NEW j \in Jobs, Acknowledge(j) PROVE Told(k)'
    BY <1>13 DEF Acknowledge
  <1>14. ASSUME NEW j \in Jobs, AcknowledgeFails(j) PROVE Told(k)'
    BY <1>14 DEF AcknowledgeFails
  <1>15. ASSUME NEW j \in Jobs, CancelFile(j) PROVE Told(k)'
    BY <1>15 DEF CancelFile
  <1>16. ASSUME NEW j \in Jobs, CancelFileFails(j) PROVE Told(k)'
    BY <1>16 DEF CancelFileFails
  <1>17. ASSUME NEW j \in Jobs, CancelDb(j) PROVE Told(k)'
    BY <1>17 DEF CancelDb
  <1>18. ASSUME NEW j \in Jobs, Await(j) PROVE Told(k)'
    BY <1>18 DEF Await
  <1>19. ASSUME NEW j \in Jobs, BeginRemove(j) PROVE Told(k)'
    BY <1>19 DEF BeginRemove
  <1>20. ASSUME NEW j \in Jobs, Keep(j) PROVE Told(k)'
    BY <1>20 DEF Keep
  <1>21. ASSUME NEW j \in Jobs, ReconcileRaises(j) PROVE Told(k)'
    BY <1>21 DEF ReconcileRaises
  <1>22. ASSUME NEW j \in Jobs, Skip(j) PROVE Told(k)'
    BY <1>22 DEF Skip
  <1>23. ASSUME NEW j \in Jobs, FailWithoutRun(j) PROVE Told(k)'
    BY <1>23 DEF FailWithoutRun
  <1>24. ASSUME NEW j \in Jobs, Take(j) PROVE Told(k)'
    BY <1>24 DEF Take
  <1>25. ASSUME NEW j \in Jobs, VisitRaises(j) PROVE Told(k)'
    BY <1>25 DEF VisitRaises
  <1>26. ASSUME NEW j \in Jobs, DeadlinePasses(j) PROVE Told(k)'
    BY <1>26 DEF DeadlinePasses
  <1>27. ASSUME NEW j \in Jobs, AuthorizationExpires(j) PROVE Told(k)'
    BY <1>27 DEF AuthorizationExpires
  <1>28. ASSUME NEW j \in Jobs, LoseLease(j) PROVE Told(k)'
    BY <1>28 DEF LoseLease
  <1>29. ASSUME NEW j \in Jobs, InterruptPending(j) PROVE Told(k)'
    BY <1>29 DEF InterruptPending
  <1>30. ASSUME NEW j \in Jobs, ProducerCrash(j) PROVE Told(k)'
    BY <1>30 DEF ProducerCrash
  <1>31. CASE BeginReconcile
    BY <1>31 DEF BeginReconcile
  <1>32. CASE LockBusy
    BY <1>32 DEF LockBusy
  <1>33. CASE Rmdir
    BY <1>33 DEF Rmdir
  <1>34. CASE RemoveRaises
    BY <1>34 DEF RemoveRaises
  <1>35. CASE EndReconcile
    BY <1>35 DEF EndReconcile
  <1>36. CASE ListJobs
    BY <1>36 DEF ListJobs
  <1>37. CASE EndPass
    BY <1>37 DEF EndPass
  <1>38. CASE Claim
    BY <1>38 DEF Claim
  <1>39. CASE ClaimRaises
    BY <1>39 DEF ClaimRaises
  <1>40. CASE WriteClaim
    BY <1>40 DEF WriteClaim
  <1>41. CASE RecordStage
    BY <1>41 DEF RecordStage
  <1>42. CASE Launch
    BY <1>42 DEF Launch
  <1>43. CASE NoLaunch
    BY <1>43 DEF NoLaunch
  <1>44. CASE ProcessEnds
    BY <1>44 DEF ProcessEnds
  <1>45. CASE CheckStop
    BY <1>45 DEF CheckStop
  <1>46. CASE WriteResponse
    BY <1>46 DEF WriteResponse
  <1>47. CASE Purge
    BY <1>47 DEF Purge
  <1>48. CASE HeartbeatExpires
    BY <1>48 DEF HeartbeatExpires
  <1>49. CASE ConsumerCrash
    BY <1>49 DEF ConsumerCrash
  <1>50. CASE Restart
    BY <1>50 DEF Restart
  <1>51. ASSUME NEW f \in Files, Unlink(f) PROVE Told(k)'
    BY <1>51 DEF Unlink
  <1>52. CASE UNCHANGED vars
    BY <1>52 DEF vars
  <1>53. ASSUME NEW j \in Jobs, StagingFails(j) PROVE Told(k)'
    BY <1>53 DEF StagingFails
  <1> QED
    BY <1>1, <1>2, <1>3, <1>4, <1>5, <1>6, <1>7, <1>8, <1>9, <1>10, <1>11,
       <1>12, <1>13, <1>14, <1>15, <1>16, <1>17, <1>18, <1>19, <1>20, <1>21,
       <1>22, <1>23, <1>24, <1>25, <1>26, <1>27, <1>28, <1>29, <1>30, <1>31,
       <1>32, <1>33, <1>34, <1>35, <1>36, <1>37, <1>38, <1>39, <1>40, <1>41,
       <1>42, <1>43, <1>44, <1>45, <1>46, <1>47, <1>48, <1>49, <1>50, <1>51,
       <1>52, <1>53
       DEF Next, Step, Serve, World

\* What the application was given is what the row says, and a row that says "completed"
\* is a result that the application got or is about to get: whoever cancels, recovers the
\* session, removes the directory or dies, before and after the deadline.
THEOREM RowsAgree == Spec => []RowAndCallerAgree
  <1>1. Agreed => RowAndCallerAgree
    BY DEF Agreed, Told, RowAndCallerAgree, DeliveredIsRecorded, CompletedIsDelivered
  <1> QED
    BY <1>1, TypeInit, TypeStep, AgreedInit, AgreedStep, PTL DEF Spec

-----------------------------------------------------------------------------
(* The launches *)

LEMMA OnceInit == Init => Once
  BY DEF Init, Once, Started, Removing, Early, NoJob

LEMMA OnceStep ==
  ASSUME "removal" \notin Faults, TypeInv, Agreed, Once, [Next]_vars
  PROVE  Once'
  <1> SUFFICES ASSUME NEW k \in Jobs PROVE Started(k)'
    BY DEF Once
  <1> USE Names DEF TypeInv, TypeOK, InHand, world, spool, consumer, Put, Goto,
      At, Raises, ConsumerGone, LoadWorks, LoadFails, NoJob, Agreed, Told, Once,
      Started, Spent, HasClaim, StopReason, Ready, Removing, Removable,
      Cancelled, ProducerWrites, Done, Early, Visiting, Answering, HasResponse
  <1>1. ASSUME NEW j \in Jobs, Register(j) PROVE Started(k)'
    BY <1>1 DEF Register
  <1>2. ASSUME NEW j \in Jobs, Refuse(j) PROVE Started(k)'
    BY <1>2 DEF Refuse
  <1>3. ASSUME NEW j \in Jobs, Publish(j) PROVE Started(k)'
    BY <1>3 DEF Publish
  <1>4. ASSUME NEW j \in Jobs, PublishFails(j) PROVE Started(k)'
    BY <1>4 DEF PublishFails
  <1>5. ASSUME NEW j \in Jobs, Rename(j) PROVE Started(k)'
    BY <1>5 DEF Rename
  <1>6. ASSUME NEW j \in Jobs, Poll(j) PROVE Started(k)'
    BY <1>6 DEF Poll, Polled
  <1>7. ASSUME NEW j \in Jobs, PollFails(j) PROVE Started(k)'
    BY <1>7 DEF PollFails
  <1>8. ASSUME NEW j \in Jobs, Authorize(j) PROVE Started(k)'
    BY <1>8 DEF Authorize
  <1>9. ASSUME NEW j \in Jobs, AuthorizeFails(j) PROVE Started(k)'
    BY <1>9 DEF AuthorizeFails
  <1>10. ASSUME NEW j \in Jobs, ReadResult(j) PROVE Started(k)'
    BY <1>10 DEF ReadResult
  <1>11. ASSUME NEW j \in Jobs, Finish(j) PROVE Started(k)'
    BY <1>11 DEF Finish
  <1>12. ASSUME NEW j \in Jobs, FinishFails(j) PROVE Started(k)'
    BY <1>12 DEF FinishFails
  <1>13. ASSUME NEW j \in Jobs, Acknowledge(j) PROVE Started(k)'
    BY <1>13 DEF Acknowledge
  <1>14. ASSUME NEW j \in Jobs, AcknowledgeFails(j) PROVE Started(k)'
    BY <1>14 DEF AcknowledgeFails
  <1>15. ASSUME NEW j \in Jobs, CancelFile(j) PROVE Started(k)'
    BY <1>15 DEF CancelFile
  <1>16. ASSUME NEW j \in Jobs, CancelFileFails(j) PROVE Started(k)'
    BY <1>16 DEF CancelFileFails
  <1>17. ASSUME NEW j \in Jobs, CancelDb(j) PROVE Started(k)'
    BY <1>17 DEF CancelDb
  <1>18. ASSUME NEW j \in Jobs, Await(j) PROVE Started(k)'
    BY <1>18 DEF Await
  <1>19. ASSUME NEW j \in Jobs, BeginRemove(j) PROVE Started(k)'
    BY <1>19 DEF BeginRemove
  <1>20. ASSUME NEW j \in Jobs, Keep(j) PROVE Started(k)'
    BY <1>20 DEF Keep
  <1>21. ASSUME NEW j \in Jobs, ReconcileRaises(j) PROVE Started(k)'
    BY <1>21 DEF ReconcileRaises
  <1>22. ASSUME NEW j \in Jobs, Skip(j) PROVE Started(k)'
    BY <1>22 DEF Skip
  <1>23. ASSUME NEW j \in Jobs, FailWithoutRun(j) PROVE Started(k)'
    BY <1>23 DEF FailWithoutRun
  <1>24. ASSUME NEW j \in Jobs, Take(j) PROVE Started(k)'
    BY <1>24 DEF Take
  <1>25. ASSUME NEW j \in Jobs, VisitRaises(j) PROVE Started(k)'
    BY <1>25 DEF VisitRaises
  <1>26. ASSUME NEW j \in Jobs, DeadlinePasses(j) PROVE Started(k)'
    BY <1>26 DEF DeadlinePasses
  <1>27. ASSUME NEW j \in Jobs, AuthorizationExpires(j) PROVE Started(k)'
    BY <1>27 DEF AuthorizationExpires
  <1>28. ASSUME NEW j \in Jobs, LoseLease(j) PROVE Started(k)'
    BY <1>28 DEF LoseLease
  <1>29. ASSUME NEW j \in Jobs, InterruptPending(j) PROVE Started(k)'
    BY <1>29 DEF InterruptPending
  <1>30. ASSUME NEW j \in Jobs, ProducerCrash(j) PROVE Started(k)'
    BY <1>30 DEF ProducerCrash
  <1>31. CASE BeginReconcile
    BY <1>31 DEF BeginReconcile
  <1>32. CASE LockBusy
    BY <1>32 DEF LockBusy
  <1>33. CASE Rmdir
    BY <1>33 DEF Rmdir
  <1>34. CASE RemoveRaises
    BY <1>34 DEF RemoveRaises
  <1>35. CASE EndReconcile
    BY <1>35 DEF EndReconcile
  <1>36. CASE ListJobs
    BY <1>36 DEF ListJobs
  <1>37. CASE EndPass
    BY <1>37 DEF EndPass
  <1>38. CASE Claim
    BY <1>38 DEF Claim
  <1>39. CASE ClaimRaises
    BY <1>39 DEF ClaimRaises
  <1>40. CASE WriteClaim
    BY <1>40 DEF WriteClaim
  <1>41. CASE RecordStage
    BY <1>41 DEF RecordStage
  <1>42. CASE Launch
    BY <1>42 DEF Launch
  <1>43. CASE NoLaunch
    BY <1>43 DEF NoLaunch
  <1>44. CASE ProcessEnds
    BY <1>44 DEF ProcessEnds
  <1>45. CASE CheckStop
    BY <1>45 DEF CheckStop
  <1>46. CASE WriteResponse
    BY <1>46 DEF WriteResponse
  <1>47. CASE Purge
    BY <1>47 DEF Purge
  <1>48. CASE HeartbeatExpires
    BY <1>48 DEF HeartbeatExpires
  <1>49. CASE ConsumerCrash
    BY <1>49 DEF ConsumerCrash
  <1>50. CASE Restart
    BY <1>50 DEF Restart
  <1>51. ASSUME NEW f \in Files, Unlink(f) PROVE Started(k)'
    BY <1>51 DEF Unlink
  <1>52. CASE UNCHANGED vars
    BY <1>52 DEF vars
  <1>53. ASSUME NEW j \in Jobs, StagingFails(j) PROVE Started(k)'
    BY <1>53 DEF StagingFails
  <1> QED
    BY <1>1, <1>2, <1>3, <1>4, <1>5, <1>6, <1>7, <1>8, <1>9, <1>10, <1>11,
       <1>12, <1>13, <1>14, <1>15, <1>16, <1>17, <1>18, <1>19, <1>20, <1>21,
       <1>22, <1>23, <1>24, <1>25, <1>26, <1>27, <1>28, <1>29, <1>30, <1>31,
       <1>32, <1>33, <1>34, <1>35, <1>36, <1>37, <1>38, <1>39, <1>40, <1>41,
       <1>42, <1>43, <1>44, <1>45, <1>46, <1>47, <1>48, <1>49, <1>50, <1>51,
       <1>52, <1>53
       DEF Next, Step, Serve, World

\* The CLI is started once at most for a job, however often the consumer dies and is
\* started again, unless it dies in the middle of a removal.
THEOREM LaunchedOnceOnly ==
  ASSUME "removal" \notin Faults
  PROVE  Spec => []LaunchedOnce
  <1>1. Once => LaunchedOnce
    BY DEF Once, Started, LaunchedOnce
  <1>2. TypeInv /\ Agreed /\ Once /\ [Next]_vars => Once'
    BY OnceStep
  <1> QED
    BY <1>1, <1>2, TypeInit, TypeStep, AgreedInit, AgreedStep, OnceInit, PTL DEF Spec

-----------------------------------------------------------------------------
(* The one-shot call *)

\* A step starts a job that was not started, or writes one row that is not final, or
\* neither; "completed" is written of a job that was started.
LEMMA RowMoves ==
  ASSUME TypeInv, Agreed, Once, [Next]_vars
  PROVE  \/ UNCHANGED <<launches, status>>
         \/ \E j \in Jobs : launches[j] = 0 /\ launches' = [launches EXCEPT ![j] = 1]
                            /\ UNCHANGED status
         \/ \E j \in Jobs : \E s \in Statuses \ {"none"} :
               /\ status[j] \notin Terminal /\ status' = [status EXCEPT ![j] = s]
               /\ s = "completed" => launches[j] = 1
               /\ UNCHANGED launches
  <1> DEFINE Starts(j) == launches[j] = 0 /\ launches' = [launches EXCEPT ![j] = 1]
                          /\ UNCHANGED status
             Writes(j) == \E s \in Statuses \ {"none"} :
               /\ status[j] \notin Terminal /\ status' = [status EXCEPT ![j] = s]
               /\ s = "completed" => launches[j] = 1
               /\ UNCHANGED launches
  <1> USE Names DEF TypeInv, TypeOK, InHand, world, spool, consumer, Put, Goto,
      At, Raises, ConsumerGone, LoadWorks, LoadFails, NoJob, Agreed, Told, Once,
      Started, HasResponse, Terminal, Statuses, Visiting
  <1>1. ASSUME NEW j \in Jobs, Register(j) PROVE Writes(j)
    BY <1>1 DEF Register
  <1>2. ASSUME NEW j \in Jobs, Refuse(j) PROVE UNCHANGED <<launches, status>>
    BY <1>2 DEF Refuse
  <1>3. ASSUME NEW j \in Jobs, Publish(j) PROVE UNCHANGED <<launches, status>>
    BY <1>3 DEF Publish
  <1>4. ASSUME NEW j \in Jobs, PublishFails(j) PROVE UNCHANGED <<launches, status>>
    BY <1>4 DEF PublishFails
  <1>5. ASSUME NEW j \in Jobs, Rename(j) PROVE UNCHANGED <<launches, status>>
    BY <1>5 DEF Rename
  <1>6. ASSUME NEW j \in Jobs, Poll(j) PROVE UNCHANGED <<launches, status>>
            \/ Writes(j)
    BY <1>6 DEF Poll, Polled
  <1>7. ASSUME NEW j \in Jobs, PollFails(j) PROVE UNCHANGED <<launches, status>>
    BY <1>7 DEF PollFails
  <1>8. ASSUME NEW j \in Jobs, Authorize(j) PROVE UNCHANGED <<launches, status>>
    BY <1>8 DEF Authorize
  <1>9. ASSUME NEW j \in Jobs, AuthorizeFails(j) PROVE UNCHANGED <<launches, status>>
    BY <1>9 DEF AuthorizeFails
  <1>10. ASSUME NEW j \in Jobs, ReadResult(j) PROVE UNCHANGED <<launches, status>>
    BY <1>10 DEF ReadResult
  <1>11. ASSUME NEW j \in Jobs, Finish(j) PROVE Writes(j)
    BY <1>11 DEF Finish
  <1>12. ASSUME NEW j \in Jobs, FinishFails(j) PROVE UNCHANGED <<launches, status>>
    BY <1>12 DEF FinishFails
  <1>13. ASSUME NEW j \in Jobs, Acknowledge(j) PROVE UNCHANGED <<launches, status>>
    BY <1>13 DEF Acknowledge
  <1>14. ASSUME NEW j \in Jobs, AcknowledgeFails(j) PROVE UNCHANGED <<launches, status>>
    BY <1>14 DEF AcknowledgeFails
  <1>15. ASSUME NEW j \in Jobs, CancelFile(j) PROVE UNCHANGED <<launches, status>>
    BY <1>15 DEF CancelFile
  <1>16. ASSUME NEW j \in Jobs, CancelFileFails(j) PROVE UNCHANGED <<launches, status>>
    BY <1>16 DEF CancelFileFails
  <1>17. ASSUME NEW j \in Jobs, CancelDb(j) PROVE UNCHANGED <<launches, status>>
            \/ Writes(j)
    BY <1>17 DEF CancelDb
  <1>18. ASSUME NEW j \in Jobs, Await(j) PROVE UNCHANGED <<launches, status>>
    BY <1>18 DEF Await
  <1>19. ASSUME NEW j \in Jobs, BeginRemove(j) PROVE UNCHANGED <<launches, status>>
    BY <1>19 DEF BeginRemove
  <1>20. ASSUME NEW j \in Jobs, Keep(j) PROVE UNCHANGED <<launches, status>>
    BY <1>20 DEF Keep
  <1>21. ASSUME NEW j \in Jobs, ReconcileRaises(j) PROVE UNCHANGED <<launches, status>>
    BY <1>21 DEF ReconcileRaises
  <1>22. ASSUME NEW j \in Jobs, Skip(j) PROVE UNCHANGED <<launches, status>>
    BY <1>22 DEF Skip
  <1>23. ASSUME NEW j \in Jobs, FailWithoutRun(j) PROVE UNCHANGED <<launches, status>>
    BY <1>23 DEF FailWithoutRun
  <1>24. ASSUME NEW j \in Jobs, Take(j) PROVE UNCHANGED <<launches, status>>
    BY <1>24 DEF Take
  <1>25. ASSUME NEW j \in Jobs, VisitRaises(j) PROVE UNCHANGED <<launches, status>>
    BY <1>25 DEF VisitRaises
  <1>26. ASSUME NEW j \in Jobs, DeadlinePasses(j) PROVE UNCHANGED <<launches, status>>
    BY <1>26 DEF DeadlinePasses
  <1>27. ASSUME NEW j \in Jobs, AuthorizationExpires(j) PROVE UNCHANGED <<launches, status>>
    BY <1>27 DEF AuthorizationExpires
  <1>28. ASSUME NEW j \in Jobs, LoseLease(j) PROVE UNCHANGED <<launches, status>>
    BY <1>28 DEF LoseLease
  <1>29. ASSUME NEW j \in Jobs, InterruptPending(j) PROVE Writes(j)
    BY <1>29 DEF InterruptPending
  <1>30. ASSUME NEW j \in Jobs, ProducerCrash(j) PROVE UNCHANGED <<launches, status>>
    BY <1>30 DEF ProducerCrash
  <1>31. CASE BeginReconcile
    BY <1>31 DEF BeginReconcile
  <1>32. CASE LockBusy
    BY <1>32 DEF LockBusy
  <1>33. CASE Rmdir
    BY <1>33 DEF Rmdir
  <1>34. CASE RemoveRaises
    BY <1>34 DEF RemoveRaises
  <1>35. CASE EndReconcile
    BY <1>35 DEF EndReconcile
  <1>36. CASE ListJobs
    BY <1>36 DEF ListJobs
  <1>37. CASE EndPass
    BY <1>37 DEF EndPass
  <1>38. CASE Claim
    BY <1>38 DEF Claim
  <1>39. CASE ClaimRaises
    BY <1>39 DEF ClaimRaises
  <1>40. CASE WriteClaim
    BY <1>40 DEF WriteClaim
  <1>41. CASE RecordStage
    BY <1>41 DEF RecordStage
  <1>42. CASE Launch
    <2>1. cur \in Jobs /\ launches[cur] = 0
      BY <1>42 DEF Launch
    <2>2. Starts(cur)
      BY <1>42, <2>1 DEF Launch
    <2> QED
      BY <2>1, <2>2
  <1>43. CASE NoLaunch
    BY <1>43 DEF NoLaunch
  <1>44. CASE ProcessEnds
    BY <1>44 DEF ProcessEnds
  <1>45. CASE CheckStop
    BY <1>45 DEF CheckStop
  <1>46. CASE WriteResponse
    BY <1>46 DEF WriteResponse
  <1>47. CASE Purge
    BY <1>47 DEF Purge
  <1>48. CASE HeartbeatExpires
    BY <1>48 DEF HeartbeatExpires
  <1>49. CASE ConsumerCrash
    BY <1>49 DEF ConsumerCrash
  <1>50. CASE Restart
    BY <1>50 DEF Restart
  <1>51. ASSUME NEW f \in Files, Unlink(f) PROVE UNCHANGED <<launches, status>>
    BY <1>51 DEF Unlink
  <1>52. CASE UNCHANGED vars
    BY <1>52 DEF vars
  <1>53. ASSUME NEW j \in Jobs, StagingFails(j) PROVE UNCHANGED <<launches, status>>
    BY <1>53 DEF StagingFails
  <1> QED
    BY <1>1, <1>2, <1>3, <1>4, <1>5, <1>6, <1>7, <1>8, <1>9, <1>10, <1>11,
       <1>12, <1>13, <1>14, <1>15, <1>16, <1>17, <1>18, <1>19, <1>20, <1>21,
       <1>22, <1>23, <1>24, <1>25, <1>26, <1>27, <1>28, <1>29, <1>30, <1>31,
       <1>32, <1>33, <1>34, <1>35, <1>36, <1>37, <1>38, <1>39, <1>40, <1>41,
       <1>42, <1>43, <1>44, <1>45, <1>46, <1>47, <1>48, <1>49, <1>50, <1>51,
       <1>52, <1>53
       DEF Next, Step, Serve, World

LEMMA CallInit == Init => Call!Init
  BY DEF Init, Call!Init, Outcome, Terminal

LEMMA CallStep ==
  ASSUME TypeInv, Agreed, Once, [Next]_vars
  PROVE  [Call!Next]_<<launches, Outcome>>
  <1> DEFINE Verdict(s) == CASE s = "completed" -> "accepted"
                             [] s \in Terminal \ {"completed"} -> "dropped"
                             [] OTHER -> "open"
  <1>0. /\ Outcome = [j \in Jobs |-> Verdict(status[j])]
        /\ Outcome' = [j \in Jobs |-> Verdict(status'[j])]
    BY DEF Outcome
  <1>1. CASE UNCHANGED status
    BY <1>1, RowMoves DEF Outcome, Call!Next, Call!Attempt
  <1>2. ASSUME NEW j \in Jobs, NEW s \in Statuses \ {"none"}, status[j] \notin Terminal,
               status' = [status EXCEPT ![j] = s], s = "completed" => launches[j] = 1,
               UNCHANGED launches
        PROVE  [Call!Next]_<<launches, Outcome>>
    <2>1. Outcome[j] = "open"
      BY <1>0, <1>2 DEF Terminal
    <2>2. Outcome' = [Outcome EXCEPT ![j] = Verdict(s)]
      BY <1>0, <1>2 DEF TypeInv, TypeOK
    <2>3. Verdict(s) \in {"open", "accepted", "dropped"}
          /\ (Verdict(s) = "accepted" <=> s = "completed")
      OBVIOUS
    <2>4. Outcome \in [Jobs -> {"open", "accepted", "dropped"}]
      BY <1>0
    <2> HIDE DEF Verdict
    <2>5. CASE Verdict(s) = "open"
      <3>1. Outcome' = Outcome
        BY <2>1, <2>2, <2>4, <2>5
      <3> QED
        BY <1>2, <3>1
    <2> QED
      BY <1>2, <2>1, <2>2, <2>3, <2>5 DEF Call!Next, Call!Accept, Call!Drop
  <1> QED
    BY <1>1, <1>2, RowMoves

\* The bridge is what the application takes it for: a call that is tried once at most,
\* decided once, and accepted only when it was tried.
THEOREM BridgeIsOneShotCall ==
  ASSUME "removal" \notin Faults
  PROVE  Spec => IsOneShotCall
  <1>1. TypeInv /\ Agreed /\ Once /\ [Next]_vars => Once'
    BY OnceStep
  <1> QED
    BY <1>1, TypeInit, TypeStep, AgreedInit, AgreedStep, OnceInit, CallInit, CallStep,
       PTL DEF Spec, IsOneShotCall, Call!Spec

=============================================================================
