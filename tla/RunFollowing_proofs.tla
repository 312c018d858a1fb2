------------------------ MODULE RunFollowing_proofs ------------------------
(***************************************************************************)
(* Proofs about RunFollowing, for any number of runs, of sockets, of       *)
(* retries and of troubles.                                                *)
(*                                                                         *)
(* The end of a run is stored before it is said, and is never changed      *)
(* afterwards.  So it is enough to follow it on its way to the page: as an *)
(* event in the queue, in the task of a broadcast, on the wire of a        *)
(* socket; as the answer to a query, in flight and in the cache.           *)
(***************************************************************************)
EXTENDS RunFollowing, SequenceTheorems, TLAPS

Messages == {"open"} \cup Events
TaskRecords == [run : Runs \cup {0}, event : Events \cup {"none"},
                todo : SUBSET Conns, dead : SUBSET Conns]

ServerTypes ==
    /\ status \in [Runs -> Statuses]
    /\ DOMAIN half = Runs
    /\ queue \in Seq(Runs \X Events)
    /\ task \in [Tasks -> TaskRecords]
    /\ \A i \in Tasks : task[i] = NoTask \/ (task[i].run \in Runs /\ task[i].event \in Events)
    /\ registry \in [Runs -> SUBSET Conns]
    /\ handler \in [Conns -> {"none", "accepting", "serving", "gone"}]

SocketTypes ==
    /\ of \in [Conns -> Runs \cup {0}] /\ link \in [Conns -> {"none", "up", "down"}]
    /\ wire \in [Conns -> Seq(Messages)]
    /\ opened \in 0..MaxConns
    /\ ws \in 0..MaxConns /\ attached \subseteq Conns
    /\ runId \in 0..MaxRuns /\ timer \in BOOLEAN

PageTypes ==
    /\ session \in 0..MaxRuns /\ shown \in Statuses
    /\ fetch \in Statuses /\ cached \in Statuses

\* What the run has still to do: store what it said, or say the end that it stored.
Halfway ==
    \A r \in Runs :
        \/ half[r] \in {<<>>, <<"gone">>}
        \/ status[r] \in {"running", "paused"}
           /\ half[r] \in {<<"store", "running">>, <<"store", "paused">>}
        \/ status[r] \in Over /\ half[r] = <<"say", status[r]>>

TypeInv == ServerTypes /\ Halfway /\ SocketTypes /\ PageTypes

-----------------------------------------------------------------------------
(* The invariant *)

\* A socket has its run from the time it is opened; before that nobody knows of it.
Fresh(c) ==
    /\ link[c] = "none" /\ wire[c] = <<>> /\ handler[c] = "none" /\ c \notin attached
    /\ \A r \in Runs : c \notin registry[r]
    /\ \A i \in Tasks : c \notin task[i].todo \cup task[i].dead

Sockets ==
    /\ ws <= opened
    /\ \A c \in Conns : IF c <= opened THEN of[c] \in Runs /\ link[c] # "none" ELSE Fresh(c)

\* The sockets of a run are those that are registered for it, and those that its
\* broadcasts go to; what a broadcast found dead is dead.
Routes ==
    /\ \A r \in Runs : \A c \in registry[r] : of[c] = r
    /\ \A i \in Tasks : \A c \in task[i].todo : of[c] = task[i].run
    /\ \A i \in Tasks : \A c \in task[i].dead : link[c] = "down"
    /\ ServedIsRegistered

\* The run that WSManager has in mind is that of the session, as long as it has a
\* socket or is about to open one.
Following == OneSocket /\ (attached # {} => runId = session)

\* An end that is on its way is the end that is stored for its run.
True(r, s) == s \in Over => r \in Runs /\ status[r] = s

Queued == \A n \in 1..Len(queue) : True(queue[n][1], queue[n][2])
Broadcast == \A i \in Tasks : True(task[i].run, task[i].event)
Wired == \A c \in Conns : \A n \in 1..Len(wire[c]) : True(of[c], wire[c][n])
Answered == True(session, fetch) /\ True(session, cached) /\ True(session, shown)

-----------------------------------------------------------------------------
(* Types *)

LEMMA Bounds ==
  /\ MaxRuns \in Nat /\ MaxConns \in Nat /\ MaxTurns \in Nat
  /\ Runs \subseteq Nat \ {0} /\ Conns \subseteq Nat \ {0} /\ 0 \notin Conns
  /\ \A n \in Nat : n \in Conns <=> n # 0 /\ n <= MaxConns
  BY FollowingAssumption DEF Runs, Conns

LEMMA OpenTypes ==
  ASSUME TypeInv, NEW r \in Runs, NEW old, Open(r, old)
  PROVE  /\ of' \in [Conns -> Runs \cup {0}] /\ link' \in [Conns -> {"none", "up", "down"}]
         /\ wire' \in [Conns -> Seq(Messages)]
         /\ opened' \in 0..MaxConns /\ ws' \in 0..MaxConns /\ attached' \subseteq Conns
         /\ runId' \in 0..MaxRuns
  <1> USE Bounds DEF TypeInv, SocketTypes, Open
  <1>1. opened' \in Conns /\ ws' = opened' /\ opened' \in 0..MaxConns
    OBVIOUS
  <1>2. wire' \in [Conns -> Seq(Messages)]
    OBVIOUS
  <1>3. link' \in [Conns -> {"none", "up", "down"}]
    OBVIOUS
  <1>4. of' \in [Conns -> Runs \cup {0}]
    BY <1>1
  <1>5. attached' \subseteq Conns
    BY <1>1
  <1>6. runId' \in 0..MaxRuns
    BY DEF Runs
  <1> QED
    BY <1>1, <1>2, <1>3, <1>4, <1>5, <1>6

LEMMA ClosedTypes ==
  ASSUME TypeInv, NEW S, Closed(S)
  PROVE  /\ link' \in [Conns -> {"none", "up", "down"}]
         /\ wire' \in [Conns -> Seq(Messages)]
         /\ attached' \subseteq Conns
  <1> USE DEF TypeInv, SocketTypes, Closed
  <1>2. wire' \in [Conns -> Seq(Messages)]
    OBVIOUS
  <1>3. link' \in [Conns -> {"none", "up", "down"}]
    OBVIOUS
  <1> QED
    BY <1>2, <1>3

LEMMA AppendTypes ==
  ASSUME TypeInv, NEW c \in Conns, NEW m \in Messages, wire' = [wire EXCEPT ![c] = Append(@, m)]
  PROVE  wire' \in [Conns -> Seq(Messages)]
  <1>1. Append(wire[c], m) \in Seq(Messages)
    BY DEF TypeInv, SocketTypes
  <1> QED
    BY <1>1 DEF TypeInv, SocketTypes

LEMMA TailTypes ==
  ASSUME TypeInv, NEW c \in Conns, wire[c] # <<>>, wire' = [wire EXCEPT ![c] = Tail(@)]
  PROVE  wire' \in [Conns -> Seq(Messages)]
  <1>1. Tail(wire[c]) \in Seq(Messages)
    BY DEF TypeInv, SocketTypes
  <1> QED
    BY <1>1 DEF TypeInv, SocketTypes

LEMMA SendTasks ==
  ASSUME TypeInv, NEW i \in Tasks, NEW c \in Conns, Send(i, c)
  PROVE  /\ task' \in [Tasks -> TaskRecords]
         /\ task[i] # NoTask
         /\ task'[i].run = task[i].run /\ task'[i].event = task[i].event
         /\ task'[i].todo = task[i].todo \ {c}
         /\ task'[i].dead = task[i].dead
            \/ (task'[i].dead = task[i].dead \cup {c} /\ link[c] = "down")
         /\ \A k \in Tasks \ {i} : task'[k] = task[k]
  <1> DEFINE less == [task[i] EXCEPT !.todo = @ \ {c}]
             dead == [less EXCEPT !.dead = @ \cup {c}]
  <1>1. task[i] \in TaskRecords /\ c \in task[i].todo
    BY DEF TypeInv, ServerTypes, Send
  <1>2. task[i] # NoTask
    BY <1>1 DEF NoTask
  <1>3. /\ less \in TaskRecords /\ less.run = task[i].run /\ less.event = task[i].event
        /\ less.todo = task[i].todo \ {c} /\ less.dead = task[i].dead
    BY <1>1 DEF TaskRecords
  <1>4. /\ dead \in TaskRecords /\ dead.run = task[i].run /\ dead.event = task[i].event
        /\ dead.todo = task[i].todo \ {c} /\ dead.dead = task[i].dead \cup {c}
    BY <1>1 DEF TaskRecords
  <1>5. \/ task' = [task EXCEPT ![i] = less]
        \/ task' = [task EXCEPT ![i] = dead] /\ link[c] = "down"
    <2>1. CASE task' = [task EXCEPT ![i].todo = @ \ {c}]
      BY <2>1
    <2>2. CASE task' = [task EXCEPT ![i].todo = @ \ {c}, ![i].dead = @ \cup {c}]
               /\ link[c] = "down"
      BY <2>2 DEF TypeInv, ServerTypes
    <2> QED
      BY <2>1, <2>2 DEF Send
  <1> HIDE DEF less, dead
  <1> QED
    BY <1>2, <1>3, <1>4, <1>5 DEF TypeInv, ServerTypes

LEMMA Halves ==
  ASSUME TypeInv, NEW r \in Runs, half[r] # <<>>
  PROVE  /\ Head(half[r]) = "store" =>
               status[r] \in {"running", "paused"} /\ half[r][2] \in {"running", "paused"}
         /\ Head(half[r]) = "say" => status[r] \in Over /\ half[r][2] = status[r]
  BY DEF TypeInv, Halfway

LEMMA ServerTypesStep ==
  ASSUME TypeInv, [Next]_vars
  PROVE  ServerTypes'
  <1> USE Bounds DEF TypeInv, ServerTypes, SocketTypes, Statuses, Over, runVars,
      fanVars, netVars, wsVars, shownVars, actVars, queryVars, pageVars, Turn,
      Say, Store, Then, ServerSame, QuerySame, NoQuery, Show, Sync, Fetch,
      Connect, Open, Closed, CloseSocket, ClearSession, Break
  <1>1. ASSUME NEW r \in Runs, Begin(r), RunOnly PROVE ServerTypes'
    BY <1>1 DEF Begin, RunOnly
  <1>2. ASSUME NEW r \in Runs, Pause(r), RunOnly PROVE ServerTypes'
    BY <1>2 DEF Pause, RunOnly, Events
  <1>3. ASSUME NEW r \in Runs, Resume(r), RunOnly PROVE ServerTypes'
    BY <1>3 DEF Resume, RunOnly, Events
  <1>4. ASSUME NEW r \in Runs, End(r), RunOnly PROVE ServerTypes'
    BY <1>4 DEF End, RunOnly, Events, MayEnd
  <1>5. ASSUME NEW r \in Runs, StoreHalf(r), RunOnly PROVE ServerTypes'
    BY <1>5, Halves DEF StoreHalf, RunOnly
  <1>6. ASSUME NEW r \in Runs, SayHalf(r), RunOnly PROVE ServerTypes'
    BY <1>6, Halves DEF SayHalf, RunOnly, Events
  <1>7. ASSUME NEW r \in Runs, StartSession(r) PROVE ServerTypes'
    BY <1>7 DEF StartSession
  <1>8. ASSUME NEW r \in Runs, CreateRun(r) PROVE ServerTypes'
    BY <1>8 DEF CreateRun, Unused
  <1>9. ASSUME NEW i \in Tasks, BeginBroadcast(i) PROVE ServerTypes'
    <2>1. Head(queue) \in Runs \X Events /\ Tail(queue) \in Seq(Runs \X Events)
      BY <1>9 DEF BeginBroadcast
    <2> DEFINE t == [run |-> Head(queue)[1], event |-> Head(queue)[2],
                     todo |-> registry[Head(queue)[1]], dead |-> {}]
    <2>2. t \in TaskRecords /\ t.run \in Runs /\ t.event \in Events
      BY <2>1 DEF TaskRecords
    <2>3. task' = task \/ task' = [task EXCEPT ![i] = t]
      BY <1>9 DEF BeginBroadcast
    <2> HIDE DEF t
    <2> QED
      BY <1>9, <2>1, <2>2, <2>3 DEF BeginBroadcast
  <1>10. ASSUME NEW i \in Tasks, Sweep(i) PROVE ServerTypes'
    <2>1. NoTask \in TaskRecords
      BY DEF NoTask, TaskRecords
    <2> QED
      BY <1>10, <2>1 DEF Sweep
  <1>11. ASSUME NEW i \in Tasks, NEW c \in Conns, Send(i, c) PROVE ServerTypes'
    BY <1>11, SendTasks DEF Send
  <1>12. ASSUME NEW c \in Conns, Accept(c) PROVE ServerTypes'
    <2>1. registry' \in [Runs -> SUBSET Conns]
      <3>1. registry' = registry \/ registry' = [registry EXCEPT ![of[c]] = @ \cup {c}]
        BY <1>12 DEF Accept
      <3> QED
        BY <3>1
    <2>2. handler' \in [Conns -> {"none", "accepting", "serving", "gone"}]
      BY <1>12 DEF Accept
    <2> QED
      BY <1>12, <2>1, <2>2 DEF Accept
  <1>13. ASSUME NEW c \in Conns, Disconnect(c) PROVE ServerTypes'
    BY <1>13 DEF Disconnect
  <1>14. ASSUME NEW c \in Conns, Recv(c) PROVE ServerTypes'
    BY <1>14 DEF Recv
  <1>15. ASSUME NEW c \in Conns, OnClose(c) PROVE ServerTypes'
    BY <1>15 DEF OnClose
  <1>16. ASSUME NEW c \in Conns, Drop(c) PROVE ServerTypes'
    BY <1>16 DEF Drop
  <1>17. CASE TimerFires
    BY <1>17 DEF TimerFires
  <1>18. CASE Stopped
    BY <1>18 DEF Stopped
  <1>19. CASE Mount
    BY <1>19 DEF Mount
  <1>20. CASE Ask
    BY <1>20 DEF Ask
  <1>21. CASE Answer
    BY <1>21 DEF Answer
  <1>22. CASE ClearEnded
    BY <1>22 DEF ClearEnded
  <1>23. CASE Stop
    BY <1>23 DEF Stop
  <1>24. CASE Reload
    BY <1>24 DEF Reload
  <1>25. CASE Leave
    BY <1>25 DEF Leave
  <1>26. CASE Refocus
    BY <1>26 DEF Refocus
  <1>27. CASE Restart
    <2>1. NoTask \in TaskRecords
      BY DEF NoTask, TaskRecords
    <2> QED
      BY <1>27, <2>1 DEF Restart
  <1>28. CASE FetchFails
    BY <1>28 DEF FetchFails
  <1>29. CASE UNCHANGED vars
    BY <1>29 DEF vars
  <1>30. ASSUME NEW r \in Runs, PostFails(r) PROVE ServerTypes'
    BY <1>30 DEF PostFails, Unused
  <1>31. CASE Invalidate
    BY <1>31 DEF Invalidate
  <1> QED
    BY <1>1, <1>2, <1>3, <1>4, <1>5, <1>6, <1>7, <1>8, <1>9, <1>10, <1>11,
       <1>12, <1>13, <1>14, <1>15, <1>16, <1>17, <1>18, <1>19, <1>20, <1>21,
       <1>22, <1>23, <1>24, <1>25, <1>26, <1>27, <1>28, <1>29, <1>30, <1>31
       DEF Next, RunMoves, RunGoesOn, Fan, Handle, Heed, Inquire, UserActs, Troubles

LEMMA HalfwayStep ==
  ASSUME TypeInv, [Next]_vars
  PROVE  Halfway'
  <1> USE Bounds DEF TypeInv, Halfway, ServerTypes, Over, runVars, fanVars,
      netVars, wsVars, shownVars, actVars, queryVars, pageVars, Turn, Say,
      Store, Then, ServerSame, QuerySame, NoQuery, Show, Sync, Fetch, Connect,
      Open, Closed, CloseSocket, ClearSession, Break
  <1>1. ASSUME NEW r \in Runs, Begin(r), RunOnly PROVE Halfway'
    BY <1>1 DEF Begin, RunOnly
  <1>2. ASSUME NEW r \in Runs, Pause(r), RunOnly PROVE Halfway'
    BY <1>2 DEF Pause, RunOnly
  <1>3. ASSUME NEW r \in Runs, Resume(r), RunOnly PROVE Halfway'
    BY <1>3 DEF Resume, RunOnly
  <1>4. ASSUME NEW r \in Runs, End(r), RunOnly PROVE Halfway'
    BY <1>4 DEF End, RunOnly, MayEnd
  <1>5. ASSUME NEW r \in Runs, StoreHalf(r), RunOnly PROVE Halfway'
    BY <1>5, Halves DEF StoreHalf, RunOnly
  <1>6. ASSUME NEW r \in Runs, SayHalf(r), RunOnly PROVE Halfway'
    BY <1>6 DEF SayHalf, RunOnly
  <1>7. ASSUME NEW r \in Runs, StartSession(r) PROVE Halfway'
    BY <1>7 DEF StartSession
  <1>8. ASSUME NEW r \in Runs, CreateRun(r) PROVE Halfway'
    BY <1>8 DEF CreateRun, Unused
  <1>9. ASSUME NEW i \in Tasks, BeginBroadcast(i) PROVE Halfway'
    BY <1>9 DEF BeginBroadcast
  <1>10. ASSUME NEW i \in Tasks, Sweep(i) PROVE Halfway'
    BY <1>10 DEF Sweep
  <1>11. ASSUME NEW i \in Tasks, NEW c \in Conns, Send(i, c) PROVE Halfway'
    BY <1>11 DEF Send
  <1>12. ASSUME NEW c \in Conns, Accept(c) PROVE Halfway'
    BY <1>12 DEF Accept
  <1>13. ASSUME NEW c \in Conns, Disconnect(c) PROVE Halfway'
    BY <1>13 DEF Disconnect
  <1>14. ASSUME NEW c \in Conns, Recv(c) PROVE Halfway'
    BY <1>14 DEF Recv
  <1>15. ASSUME NEW c \in Conns, OnClose(c) PROVE Halfway'
    BY <1>15 DEF OnClose
  <1>16. ASSUME NEW c \in Conns, Drop(c) PROVE Halfway'
    BY <1>16 DEF Drop
  <1>17. CASE TimerFires
    BY <1>17 DEF TimerFires
  <1>18. CASE Stopped
    BY <1>18 DEF Stopped
  <1>19. CASE Mount
    BY <1>19 DEF Mount
  <1>20. CASE Ask
    BY <1>20 DEF Ask
  <1>21. CASE Answer
    BY <1>21 DEF Answer
  <1>22. CASE ClearEnded
    BY <1>22 DEF ClearEnded
  <1>23. CASE Stop
    BY <1>23 DEF Stop
  <1>24. CASE Reload
    BY <1>24 DEF Reload
  <1>25. CASE Leave
    BY <1>25 DEF Leave
  <1>26. CASE Refocus
    BY <1>26 DEF Refocus
  <1>27. CASE Restart
    BY <1>27 DEF Restart
  <1>28. CASE FetchFails
    BY <1>28 DEF FetchFails
  <1>29. CASE UNCHANGED vars
    BY <1>29 DEF vars
  <1>30. ASSUME NEW r \in Runs, PostFails(r) PROVE Halfway'
    BY <1>30 DEF PostFails, Unused
  <1>31. CASE Invalidate
    BY <1>31 DEF Invalidate
  <1> QED
    BY <1>1, <1>2, <1>3, <1>4, <1>5, <1>6, <1>7, <1>8, <1>9, <1>10, <1>11,
       <1>12, <1>13, <1>14, <1>15, <1>16, <1>17, <1>18, <1>19, <1>20, <1>21,
       <1>22, <1>23, <1>24, <1>25, <1>26, <1>27, <1>28, <1>29, <1>30, <1>31
       DEF Next, RunMoves, RunGoesOn, Fan, Handle, Heed, Inquire, UserActs, Troubles

LEMMA SocketTypesStep ==
  ASSUME TypeInv, [Next]_vars
  PROVE  SocketTypes'
  <1> USE Bounds DEF TypeInv, ServerTypes, SocketTypes, runVars, fanVars,
      netVars, wsVars, shownVars, actVars, queryVars, pageVars, Turn, Say,
      Store, Then, ServerSame, QuerySame, NoQuery, Show, Sync, Fetch,
      CloseSocket, ClearSession, Break
  <1>1. ASSUME NEW r \in Runs, Begin(r), RunOnly PROVE SocketTypes'
    BY <1>1 DEF Begin, RunOnly
  <1>2. ASSUME NEW r \in Runs, Pause(r), RunOnly PROVE SocketTypes'
    BY <1>2 DEF Pause, RunOnly
  <1>3. ASSUME NEW r \in Runs, Resume(r), RunOnly PROVE SocketTypes'
    BY <1>3 DEF Resume, RunOnly
  <1>4. ASSUME NEW r \in Runs, End(r), RunOnly PROVE SocketTypes'
    BY <1>4 DEF End, RunOnly
  <1>5. ASSUME NEW r \in Runs, StoreHalf(r), RunOnly PROVE SocketTypes'
    BY <1>5 DEF StoreHalf, RunOnly
  <1>6. ASSUME NEW r \in Runs, SayHalf(r), RunOnly PROVE SocketTypes'
    BY <1>6 DEF SayHalf, RunOnly
  <1>7. ASSUME NEW r \in Runs, StartSession(r) PROVE SocketTypes'
    BY <1>7, OpenTypes DEF StartSession, Connect
  <1>8. ASSUME NEW r \in Runs, CreateRun(r) PROVE SocketTypes'
    BY <1>8 DEF CreateRun, Unused
  <1>9. ASSUME NEW i \in Tasks, BeginBroadcast(i) PROVE SocketTypes'
    BY <1>9 DEF BeginBroadcast
  <1>10. ASSUME NEW i \in Tasks, Sweep(i) PROVE SocketTypes'
    BY <1>10 DEF Sweep
  <1>11. ASSUME NEW i \in Tasks, NEW c \in Conns, Send(i, c) PROVE SocketTypes'
    <2>1. wire' \in [Conns -> Seq(Messages)]
      BY <1>11, AppendTypes, SendTasks DEF Send, Messages
    <2> QED
      BY <1>11, <2>1 DEF Send
  <1>12. ASSUME NEW c \in Conns, Accept(c) PROVE SocketTypes'
    <2>1. wire' \in [Conns -> Seq(Messages)]
      BY <1>12, AppendTypes DEF Accept, Messages
    <2> QED
      BY <1>12, <2>1 DEF Accept
  <1>13. ASSUME NEW c \in Conns, Disconnect(c) PROVE SocketTypes'
    BY <1>13 DEF Disconnect
  <1>14. ASSUME NEW c \in Conns, Recv(c) PROVE SocketTypes'
    <2>1. CASE Closed({c}) /\ ws' = 0
      BY <1>14, <2>1, ClosedTypes DEF Recv
    <2>2. CASE wire' = [wire EXCEPT ![c] = Tail(@)] /\ UNCHANGED <<attached, link, ws>>
      BY <1>14, <2>2, TailTypes DEF Recv
    <2> QED
      BY <1>14, <2>1, <2>2 DEF Recv
  <1>15. ASSUME NEW c \in Conns, OnClose(c) PROVE SocketTypes'
    <2>1. attached' \subseteq Conns /\ ws' \in 0..MaxConns
      BY <1>15 DEF OnClose
    <2>2. timer' \in BOOLEAN
      BY <1>15 DEF OnClose
    <2> QED
      BY <1>15, <2>1, <2>2 DEF OnClose
  <1>16. ASSUME NEW c \in Conns, Drop(c) PROVE SocketTypes'
    BY <1>16 DEF Drop
  <1>17. CASE TimerFires
    <2>1. CASE runId # 0
      <3>1. runId \in Runs /\ Open(runId, {})
        BY <1>17, <2>1 DEF TimerFires, Runs
      <3> QED
        BY <1>17, <3>1, OpenTypes DEF TimerFires
    <2>2. CASE runId = 0
      BY <1>17, <2>2 DEF TimerFires
    <2> QED
      BY <2>1, <2>2
  <1>18. CASE Stopped
    <2>1. Closed({ws}) /\ CloseSocket
      BY <1>18 DEF Stopped
    <2>2. /\ link' \in [Conns -> {"none", "up", "down"}]
          /\ wire' \in [Conns -> Seq(Messages)] /\ attached' \subseteq Conns
      BY <2>1, ClosedTypes
    <2>3. UNCHANGED <<of, opened>> /\ ws' = 0 /\ runId' = 0
      BY <2>1
    <2>6. timer' \in BOOLEAN
      BY <2>1, Zenon
    <2>4. ws' \in 0..MaxConns /\ runId' \in 0..MaxRuns
      BY <2>3
    <2>5. of' \in [Conns -> Runs \cup {0}] /\ opened' \in 0..MaxConns
      BY <2>3
    <2> QED
      BY <2>2, <2>4, <2>5, <2>6
  <1>19. CASE Mount
    <2>1. CASE session # 0 /\ Connect(session)
      <3>1. session \in Runs /\ Open(session, {ws}) /\ timer' = FALSE
        BY <2>1 DEF Connect, PageTypes, Runs
      <3> QED
        BY <3>1, OpenTypes
    <2>2. CASE UNCHANGED <<netVars, wsVars>>
      BY <2>2
    <2> QED
      BY <1>19, <2>1, <2>2 DEF Mount
  <1>20. CASE Ask
    BY <1>20 DEF Ask
  <1>21. CASE Answer
    BY <1>21 DEF Answer
  <1>22. CASE ClearEnded
    <2>1. Closed({ws}) /\ CloseSocket
      BY <1>22 DEF ClearEnded
    <2>2. /\ link' \in [Conns -> {"none", "up", "down"}]
          /\ wire' \in [Conns -> Seq(Messages)] /\ attached' \subseteq Conns
      BY <2>1, ClosedTypes
    <2>3. UNCHANGED <<of, opened>> /\ ws' = 0 /\ runId' = 0
      BY <2>1
    <2>6. timer' \in BOOLEAN
      BY <2>1, Zenon
    <2>4. ws' \in 0..MaxConns /\ runId' \in 0..MaxRuns
      BY <2>3
    <2>5. of' \in [Conns -> Runs \cup {0}] /\ opened' \in 0..MaxConns
      BY <2>3
    <2> QED
      BY <2>2, <2>4, <2>5, <2>6
  <1>23. CASE Stop
    BY <1>23 DEF Stop
  <1>24. CASE Reload
    <2>1. Closed(attached)
      BY <1>24 DEF Reload
    <2>2. /\ link' \in [Conns -> {"none", "up", "down"}]
          /\ wire' \in [Conns -> Seq(Messages)] /\ attached' \subseteq Conns
      BY <2>1, ClosedTypes
    <2>3. UNCHANGED <<of, opened>> /\ ws' = 0 /\ runId' = 0
      BY <1>24 DEF Reload
    <2>4. ws' \in 0..MaxConns /\ runId' \in 0..MaxRuns
      BY <2>3
    <2>5. of' \in [Conns -> Runs \cup {0}] /\ opened' \in 0..MaxConns
      BY <2>3
    <2>6. timer' \in BOOLEAN
      BY <1>24, Zenon DEF Reload
    <2> QED
      BY <2>2, <2>4, <2>5, <2>6
  <1>25. CASE Leave
    BY <1>25 DEF Leave
  <1>26. CASE Refocus
    BY <1>26 DEF Refocus
  <1>27. CASE Restart
    BY <1>27 DEF Restart
  <1>28. CASE FetchFails
    BY <1>28 DEF FetchFails
  <1>29. CASE UNCHANGED vars
    BY <1>29 DEF vars
  <1>30. ASSUME NEW r \in Runs, PostFails(r) PROVE SocketTypes'
    BY <1>30 DEF PostFails, Unused
  <1>31. CASE Invalidate
    BY <1>31 DEF Invalidate
  <1> QED
    BY <1>1, <1>2, <1>3, <1>4, <1>5, <1>6, <1>7, <1>8, <1>9, <1>10, <1>11,
       <1>12, <1>13, <1>14, <1>15, <1>16, <1>17, <1>18, <1>19, <1>20, <1>21,
       <1>22, <1>23, <1>24, <1>25, <1>26, <1>27, <1>28, <1>29, <1>30, <1>31
       DEF Next, RunMoves, RunGoesOn, Fan, Handle, Heed, Inquire, UserActs, Troubles

LEMMA PageTypesStep ==
  ASSUME TypeInv, [Next]_vars
  PROVE  PageTypes'
  <1> USE Bounds DEF TypeInv, ServerTypes, SocketTypes, PageTypes, Statuses,
      Over, Runs, runVars, fanVars, netVars, wsVars, shownVars, actVars,
      queryVars, pageVars, Turn, Say, Store, Then, ServerSame, QuerySame,
      NoQuery, Show, Sync, Fetch, Connect, Open, Closed, CloseSocket,
      ClearSession, Break
  <1>1. ASSUME NEW r \in Runs, Begin(r), RunOnly PROVE PageTypes'
    BY <1>1 DEF Begin, RunOnly
  <1>2. ASSUME NEW r \in Runs, Pause(r), RunOnly PROVE PageTypes'
    BY <1>2 DEF Pause, RunOnly
  <1>3. ASSUME NEW r \in Runs, Resume(r), RunOnly PROVE PageTypes'
    BY <1>3 DEF Resume, RunOnly
  <1>4. ASSUME NEW r \in Runs, End(r), RunOnly PROVE PageTypes'
    BY <1>4 DEF End, RunOnly
  <1>5. ASSUME NEW r \in Runs, StoreHalf(r), RunOnly PROVE PageTypes'
    BY <1>5 DEF StoreHalf, RunOnly
  <1>6. ASSUME NEW r \in Runs, SayHalf(r), RunOnly PROVE PageTypes'
    BY <1>6 DEF SayHalf, RunOnly
  <1>7. ASSUME NEW r \in Runs, StartSession(r) PROVE PageTypes'
    BY <1>7 DEF StartSession
  <1>8. ASSUME NEW r \in Runs, CreateRun(r) PROVE PageTypes'
    BY <1>8 DEF CreateRun, Unused
  <1>9. ASSUME NEW i \in Tasks, BeginBroadcast(i) PROVE PageTypes'
    BY <1>9 DEF BeginBroadcast
  <1>10. ASSUME NEW i \in Tasks, Sweep(i) PROVE PageTypes'
    BY <1>10 DEF Sweep
  <1>11. ASSUME NEW i \in Tasks, NEW c \in Conns, Send(i, c) PROVE PageTypes'
    BY <1>11 DEF Send
  <1>12. ASSUME NEW c \in Conns, Accept(c) PROVE PageTypes'
    BY <1>12 DEF Accept
  <1>13. ASSUME NEW c \in Conns, Disconnect(c) PROVE PageTypes'
    BY <1>13 DEF Disconnect
  <1>14. ASSUME NEW c \in Conns, Recv(c) PROVE PageTypes'
    BY <1>14 DEF Recv, Messages, Events
  <1>15. ASSUME NEW c \in Conns, OnClose(c) PROVE PageTypes'
    BY <1>15 DEF OnClose
  <1>16. ASSUME NEW c \in Conns, Drop(c) PROVE PageTypes'
    BY <1>16 DEF Drop
  <1>17. CASE TimerFires
    BY <1>17 DEF TimerFires
  <1>18. CASE Stopped
    BY <1>18 DEF Stopped
  <1>19. CASE Mount
    BY <1>19 DEF Mount
  <1>20. CASE Ask
    BY <1>20 DEF Ask
  <1>21. CASE Answer
    BY <1>21 DEF Answer
  <1>22. CASE ClearEnded
    BY <1>22 DEF ClearEnded
  <1>23. CASE Stop
    BY <1>23 DEF Stop
  <1>24. CASE Reload
    BY <1>24 DEF Reload
  <1>25. CASE Leave
    BY <1>25 DEF Leave
  <1>26. CASE Refocus
    BY <1>26 DEF Refocus
  <1>27. CASE Restart
    BY <1>27 DEF Restart
  <1>28. CASE FetchFails
    BY <1>28 DEF FetchFails
  <1>29. CASE UNCHANGED vars
    BY <1>29 DEF vars
  <1>30. ASSUME NEW r \in Runs, PostFails(r) PROVE PageTypes'
    BY <1>30 DEF PostFails, Unused
  <1>31. CASE Invalidate
    BY <1>31 DEF Invalidate
  <1> QED
    BY <1>1, <1>2, <1>3, <1>4, <1>5, <1>6, <1>7, <1>8, <1>9, <1>10, <1>11,
       <1>12, <1>13, <1>14, <1>15, <1>16, <1>17, <1>18, <1>19, <1>20, <1>21,
       <1>22, <1>23, <1>24, <1>25, <1>26, <1>27, <1>28, <1>29, <1>30, <1>31
       DEF Next, RunMoves, RunGoesOn, Fan, Handle, Heed, Inquire, UserActs, Troubles

LEMMA TypeInit == Init => TypeInv
  <1>1. /\ <<>> \in Seq(Runs \X Events) /\ <<>> \in Seq(Messages)
        /\ NoTask \in TaskRecords
    BY DEF NoTask, TaskRecords
  <1>2. Init => ServerTypes /\ Halfway
    BY <1>1 DEF Init, ServerTypes, Halfway, Statuses
  <1>3. Init => SocketTypes
    <2>1. Init => timer \in BOOLEAN
      BY Zenon DEF Init
    <2>2. 0 \in 0..MaxConns /\ 0 \in 0..MaxRuns
      BY Bounds
    <2> QED
      BY <1>1, <2>1, <2>2 DEF Init, SocketTypes
  <1>4. Init => PageTypes
    BY Bounds DEF Init, PageTypes, Statuses
  <1> QED
    BY <1>2, <1>3, <1>4 DEF TypeInv

LEMMA TypeStep ==
  ASSUME TypeInv, [Next]_vars
  PROVE  TypeInv'
  BY ServerTypesStep, HalfwayStep, SocketTypesStep, PageTypesStep DEF TypeInv

-----------------------------------------------------------------------------
(* Sockets and their runs *)

LEMMA BroadcastTasks ==
  ASSUME TypeInv, NEW i \in Tasks, BeginBroadcast(i)
  PROVE  /\ \A k \in Tasks \ {i} : task'[k] = task[k]
         /\ \/ task'[i] = task[i]
            \/ /\ task'[i].run = Head(queue)[1] /\ task'[i].event = Head(queue)[2]
               /\ task'[i].run \in Runs
               /\ task'[i].todo = registry[task'[i].run] /\ task'[i].dead = {}
  <1>1. Head(queue) \in Runs \X Events
    BY DEF TypeInv, ServerTypes, BeginBroadcast
  <1> QED
    BY <1>1 DEF TypeInv, ServerTypes, BeginBroadcast

LEMMA OpenSockets ==
  ASSUME TypeInv, Sockets, NEW r \in Runs, NEW old, old \subseteq {ws}, Open(r, old),
         UNCHANGED <<registry, task>>
  PROVE  Sockets'
  <1>1. opened + 1 \in Conns /\ ws' = opened + 1 /\ opened' = opened + 1
    BY Bounds DEF Open, TypeInv, SocketTypes
  <1>2. ASSUME NEW c \in Conns, c <= opened PROVE c # opened + 1 /\ of'[c] \in Runs /\ link'[c] # "none"
    BY <1>1, <1>2, Bounds DEF Open, TypeInv, SocketTypes, Sockets
  <1>3. of'[opened + 1] \in Runs /\ link'[opened + 1] # "none"
    BY <1>1, Bounds DEF Open, TypeInv, SocketTypes
  <1>4. ASSUME NEW c \in Conns, ~(c <= opened), c # opened + 1 PROVE Fresh(c)'
    BY <1>1, <1>4, Bounds DEF Open, TypeInv, SocketTypes, Sockets, Fresh
  <1> QED
    BY <1>1, <1>2, <1>3, <1>4, Bounds DEF Sockets, TypeInv, SocketTypes

LEMMA ClosedSockets ==
  ASSUME TypeInv, Sockets, NEW S, S \subseteq attached \cup {ws}, Closed(S),
         UNCHANGED <<of, opened, handler, registry, task>>, ws' \in {0, ws}
  PROVE  Sockets'
  <1>1. ws' <= opened'
    BY Bounds DEF TypeInv, SocketTypes, Sockets
  <1>2. ASSUME NEW c \in Conns, c <= opened PROVE of'[c] \in Runs /\ link'[c] # "none"
    BY <1>2, Bounds DEF Closed, TypeInv, SocketTypes, Sockets
  <1>3. ASSUME NEW c \in Conns, ~(c <= opened) PROVE Fresh(c)'
    <2>1. c \notin S /\ Fresh(c)
      BY <1>3, Bounds DEF TypeInv, SocketTypes, Sockets, Fresh
    <2> QED
      BY <2>1 DEF Closed, Fresh
  <1> QED
    BY <1>1, <1>2, <1>3 DEF Sockets

LEMMA SocketsStep ==
  ASSUME TypeInv, Sockets, [Next]_vars
  PROVE  Sockets'
  <1> USE Bounds DEF TypeInv, ServerTypes, SocketTypes, runVars, fanVars,
      netVars, wsVars, shownVars, actVars, queryVars, pageVars, Turn, Say,
      Store, Then, ServerSame, QuerySame, NoQuery, Show, Sync, Fetch, Connect,
      CloseSocket, ClearSession, Break
  <1>1. ASSUME NEW r \in Runs, Begin(r), RunOnly PROVE Sockets'
    BY <1>1 DEF Begin, RunOnly, Sockets, Fresh
  <1>2. ASSUME NEW r \in Runs, Pause(r), RunOnly PROVE Sockets'
    BY <1>2 DEF Pause, RunOnly, Sockets, Fresh
  <1>3. ASSUME NEW r \in Runs, Resume(r), RunOnly PROVE Sockets'
    BY <1>3 DEF Resume, RunOnly, Sockets, Fresh
  <1>4. ASSUME NEW r \in Runs, End(r), RunOnly PROVE Sockets'
    BY <1>4 DEF End, RunOnly, Sockets, Fresh
  <1>5. ASSUME NEW r \in Runs, StoreHalf(r), RunOnly PROVE Sockets'
    BY <1>5 DEF StoreHalf, RunOnly, Sockets, Fresh
  <1>6. ASSUME NEW r \in Runs, SayHalf(r), RunOnly PROVE Sockets'
    BY <1>6 DEF SayHalf, RunOnly, Sockets, Fresh
  <1>7. ASSUME NEW r \in Runs, StartSession(r) PROVE Sockets'
    BY <1>7, OpenSockets DEF StartSession
  <1>8. ASSUME NEW r \in Runs, CreateRun(r) PROVE Sockets'
    BY <1>8 DEF CreateRun, Unused, Sockets, Fresh
  <1>9. ASSUME NEW i \in Tasks, BeginBroadcast(i) PROVE Sockets'
    <2>1. UNCHANGED <<registry, handler, of, link, wire, opened, ws, attached>>
      BY <1>9 DEF BeginBroadcast
    <2> QED
      <3>1. \A k \in Tasks : \/ task'[k] = task[k]
                             \/ /\ task'[k].dead = {}
                                /\ \E r \in Runs : task'[k].todo = registry[r]
        BY <1>9, BroadcastTasks
      <3>2. ASSUME NEW c \in Conns, Fresh(c) PROVE Fresh(c)'
        BY <2>1, <3>1, <3>2 DEF Fresh
      <3> QED
        BY <2>1, <3>2 DEF Sockets
  <1>10. ASSUME NEW i \in Tasks, Sweep(i) PROVE Sockets'
    <2>1. ASSUME NEW c \in Conns, Fresh(c) PROVE Fresh(c)'
      BY <1>10, <2>1 DEF Sweep, Fresh, NoTask
    <2> QED
      BY <1>10, <2>1 DEF Sweep, Sockets
  <1>11. ASSUME NEW i \in Tasks, NEW c \in Conns, Send(i, c) PROVE Sockets'
    <2>1. c <= opened
      BY <1>11 DEF Send, Sockets, Fresh
    <2> QED
      <3>1. \A k \in Tasks : task'[k].todo \cup task'[k].dead
                               \subseteq task[k].todo \cup task[k].dead \cup {c}
        <4>1. task'[i].todo \cup task'[i].dead \subseteq task[i].todo \cup task[i].dead \cup {c}
          <5>1. /\ task'[i].todo = task[i].todo \ {c}
                /\ task'[i].dead \in {task[i].dead, task[i].dead \cup {c}}
            BY <1>11, SendTasks
          <5> QED
            BY <5>1
        <4>2. \A k \in Tasks \ {i} : task'[k] = task[k]
          BY <1>11, SendTasks
        <4> QED
          BY <4>1, <4>2
      <3>2. ASSUME NEW d \in Conns \ {c}, Fresh(d) PROVE Fresh(d)'
        <4>1. wire'[d] = wire[d] /\ UNCHANGED <<link, handler, attached, registry>>
          BY <1>11 DEF Send
        <4> QED
          BY <3>1, <3>2, <4>1 DEF Fresh
      <3> QED
        BY <1>11, <2>1, <3>2 DEF Send, Sockets
  <1>12. ASSUME NEW c \in Conns, Accept(c) PROVE Sockets'
    <2>1. c <= opened
      BY <1>12 DEF Accept, Sockets, Fresh
    <2>2. ASSUME NEW d \in Conns \ {c}, Fresh(d) PROVE Fresh(d)'
      <3>1. handler'[d] = handler[d] /\ wire'[d] = wire[d]
        BY <1>12 DEF Accept
      <3>2. \A r \in Runs : registry'[r] \subseteq registry[r] \cup {c}
        BY <1>12 DEF Accept
      <3> QED
        BY <1>12, <2>2, <3>1, <3>2 DEF Accept, Fresh
    <2> QED
      BY <1>12, <2>1, <2>2 DEF Accept, Sockets
  <1>13. ASSUME NEW c \in Conns, Disconnect(c) PROVE Sockets'
    BY <1>13 DEF Disconnect, Sockets, Fresh
  <1>14. ASSUME NEW c \in Conns, Recv(c) PROVE Sockets'
    <2>1. CASE Closed({c}) /\ ws' = 0
      BY <1>14, <2>1, ClosedSockets DEF Recv
    <2>2. CASE wire' = [wire EXCEPT ![c] = Tail(@)] /\ UNCHANGED <<attached, link, ws>>
      <3>1. c <= opened
        BY <1>14 DEF Recv, Sockets, Fresh
      <3> QED
        BY <1>14, <2>2, <3>1 DEF Recv, Sockets, Fresh
    <2> QED
      BY <1>14, <2>1, <2>2 DEF Recv
  <1>15. ASSUME NEW c \in Conns, OnClose(c) PROVE Sockets'
    BY <1>15 DEF OnClose, Sockets, Fresh
  <1>16. ASSUME NEW c \in Conns, Drop(c) PROVE Sockets'
    BY <1>16 DEF Drop, Sockets, Fresh
  <1>17. CASE TimerFires
    <2>1. CASE runId # 0
      <3>1. runId \in Runs /\ Open(runId, {}) /\ UNCHANGED <<registry, task>>
        BY <1>17, <2>1 DEF TimerFires, Runs
      <3> QED
        BY <3>1, OpenSockets
    <2>2. CASE runId = 0
      <3>1. UNCHANGED <<registry, task, handler, of, link, wire, opened, ws, attached>>
        BY <1>17, <2>2 DEF TimerFires
      <3> QED
        BY <3>1 DEF Sockets, Fresh
    <2> QED
      BY <2>1, <2>2
  <1>18. CASE Stopped
    <2>1. Closed({ws}) /\ ws' = 0 /\ UNCHANGED <<of, opened, handler, registry, task>>
      BY <1>18 DEF Stopped
    <2> QED
      BY <2>1, ClosedSockets
  <1>19. CASE Mount
    <2>1. CASE session # 0 /\ Connect(session)
      <3>1. session \in Runs /\ Open(session, {ws}) /\ UNCHANGED <<registry, task>>
        BY <1>19, <2>1 DEF Mount, PageTypes, Runs
      <3> QED
        BY <3>1, OpenSockets
    <2>2. CASE UNCHANGED <<handler, netVars, wsVars>>
      BY <1>19, <2>2 DEF Mount, Sockets, Fresh
    <2> QED
      BY <1>19, <2>1, <2>2 DEF Mount
  <1>20. CASE Ask
    BY <1>20 DEF Ask, Sockets, Fresh
  <1>21. CASE Answer
    BY <1>21 DEF Answer, Sockets, Fresh
  <1>22. CASE ClearEnded
    <2>1. Closed({ws}) /\ ws' = 0 /\ UNCHANGED <<of, opened, handler, registry, task>>
      BY <1>22 DEF ClearEnded
    <2> QED
      BY <2>1, ClosedSockets
  <1>23. CASE Stop
    BY <1>23 DEF Stop, Sockets, Fresh
  <1>24. CASE Reload
    <2>1. /\ Closed(attached) /\ ws' = 0
          /\ UNCHANGED <<of, opened, handler, registry, task>>
      BY <1>24 DEF Reload
    <2> QED
      BY <2>1, ClosedSockets
  <1>25. CASE Leave
    BY <1>25 DEF Leave, Sockets, Fresh
  <1>26. CASE Refocus
    BY <1>26 DEF Refocus, Sockets, Fresh
  <1>27. CASE Restart
    <2>1. ASSUME NEW c \in Conns, Fresh(c) PROVE Fresh(c)'
      BY <1>27, <2>1 DEF Restart, Fresh, NoTask
    <2> QED
      BY <1>27, <2>1 DEF Restart, Sockets
  <1>28. CASE FetchFails
    BY <1>28 DEF FetchFails, Sockets, Fresh
  <1>29. CASE UNCHANGED vars
    BY <1>29 DEF vars, Sockets, Fresh
  <1>30. ASSUME NEW r \in Runs, PostFails(r) PROVE Sockets'
    BY <1>30 DEF PostFails, Unused, Sockets, Fresh
  <1>31. CASE Invalidate
    BY <1>31 DEF Invalidate, Sockets, Fresh
  <1> QED
    BY <1>1, <1>2, <1>3, <1>4, <1>5, <1>6, <1>7, <1>8, <1>9, <1>10, <1>11,
       <1>12, <1>13, <1>14, <1>15, <1>16, <1>17, <1>18, <1>19, <1>20, <1>21,
       <1>22, <1>23, <1>24, <1>25, <1>26, <1>27, <1>28, <1>29, <1>30, <1>31
       DEF Next, RunMoves, RunGoesOn, Fan, Handle, Heed, Inquire, UserActs, Troubles

\* WSManager opens a socket for the run of its session only, and the one of before is
\* closed, or broken, by then.
LEMMA FollowingStep ==
  ASSUME TypeInv, Sockets, Following, [Next]_vars
  PROVE  Following'
  <1>0. ASSUME NEW c \in attached PROVE c \in Conns /\ c = ws /\ c <= opened
    BY <1>0 DEF TypeInv, SocketTypes, Sockets, Fresh, Following, OneSocket
  <1> USE Bounds DEF TypeInv, SocketTypes, runVars, fanVars, netVars, wsVars,
      shownVars, actVars, queryVars, pageVars, Turn, Say, Store, Then,
      ServerSame, QuerySame, NoQuery, Show, Sync, Fetch, Connect, Open, Closed,
      CloseSocket, ClearSession, Break
  <1>1. ASSUME NEW r \in Runs, Begin(r), RunOnly PROVE Following'
    BY <1>1, <1>0 DEF Begin, RunOnly, Following, OneSocket
  <1>2. ASSUME NEW r \in Runs, Pause(r), RunOnly PROVE Following'
    BY <1>2, <1>0 DEF Pause, RunOnly, Following, OneSocket
  <1>3. ASSUME NEW r \in Runs, Resume(r), RunOnly PROVE Following'
    BY <1>3, <1>0 DEF Resume, RunOnly, Following, OneSocket
  <1>4. ASSUME NEW r \in Runs, End(r), RunOnly PROVE Following'
    BY <1>4, <1>0 DEF End, RunOnly, Following, OneSocket
  <1>5. ASSUME NEW r \in Runs, StoreHalf(r), RunOnly PROVE Following'
    BY <1>5, <1>0 DEF StoreHalf, RunOnly, Following, OneSocket
  <1>6. ASSUME NEW r \in Runs, SayHalf(r), RunOnly PROVE Following'
    BY <1>6, <1>0 DEF SayHalf, RunOnly, Following, OneSocket
  <1>7. ASSUME NEW r \in Runs, StartSession(r) PROVE Following'
    BY <1>7, <1>0 DEF StartSession, Following, OneSocket
  <1>8. ASSUME NEW r \in Runs, CreateRun(r) PROVE Following'
    BY <1>8, <1>0 DEF CreateRun, Unused, Following, OneSocket
  <1>9. ASSUME NEW i \in Tasks, BeginBroadcast(i) PROVE Following'
    BY <1>9, <1>0 DEF BeginBroadcast, Following, OneSocket
  <1>10. ASSUME NEW i \in Tasks, Sweep(i) PROVE Following'
    BY <1>10, <1>0 DEF Sweep, Following, OneSocket
  <1>11. ASSUME NEW i \in Tasks, NEW c \in Conns, Send(i, c) PROVE Following'
    BY <1>11, <1>0 DEF Send, Following, OneSocket
  <1>12. ASSUME NEW c \in Conns, Accept(c) PROVE Following'
    BY <1>12, <1>0 DEF Accept, Following, OneSocket
  <1>13. ASSUME NEW c \in Conns, Disconnect(c) PROVE Following'
    BY <1>13, <1>0 DEF Disconnect, Following, OneSocket
  <1>14. ASSUME NEW c \in Conns, Recv(c) PROVE Following'
    BY <1>14, <1>0 DEF Recv, Following, OneSocket
  <1>15. ASSUME NEW c \in Conns, OnClose(c) PROVE Following'
    BY <1>15, <1>0 DEF OnClose, Following, OneSocket
  <1>16. ASSUME NEW c \in Conns, Drop(c) PROVE Following'
    BY <1>16, <1>0 DEF Drop, Following, OneSocket
  <1>17. CASE TimerFires
    <2>0. timer /\ attached = {} /\ timer' = FALSE
      BY <1>17 DEF TimerFires, Following, OneSocket
    <2>1. CASE runId # 0
      <3>1. /\ attached' = {ws'} /\ ws' \in Conns /\ of'[ws'] = runId
            /\ runId' = runId /\ session' = session
        BY <1>17, <2>0, <2>1 DEF TimerFires
      <3>2. runId = session
        BY <2>0 DEF Following, OneSocket
      <3> QED
        BY <2>0, <3>1, <3>2 DEF Following, OneSocket
    <2>2. CASE runId = 0
      <3>1. attached' = {}
        BY <1>17, <2>0, <2>2 DEF TimerFires
      <3> QED
        BY <2>0, <3>1 DEF Following, OneSocket
    <2> QED
      BY <2>1, <2>2
  <1>18. CASE Stopped
    BY <1>18, <1>0 DEF Stopped, Following, OneSocket
  <1>19. CASE Mount
    <2>1. CASE Connect(session)
      <3>1. /\ attached' = {ws'} /\ ws' \in Conns /\ of'[ws'] = session
            /\ runId' = session /\ timer' = FALSE
        <4>1. attached \ {ws} = {}
          BY DEF Following, OneSocket
        <4>2. Open(session, {ws}) /\ timer' = FALSE
          BY <2>1, Zenon
        <4>3. opened + 1 \in Conns /\ ws' = opened + 1 /\ runId' = session
          BY <4>2
        <4>4. of' = [of EXCEPT ![opened + 1] = session] /\ attached' = {opened + 1}
          BY <4>1, <4>2
        <4> QED
          BY <4>2, <4>3, <4>4
      <3>2. session' = session
        BY <1>19 DEF Mount
      <3> QED
        BY <3>1, <3>2 DEF Following, OneSocket
    <2>2. CASE UNCHANGED <<handler, netVars, wsVars>>
      <3>1. session' = session
        BY <1>19 DEF Mount
      <3> QED
        BY <2>2, <3>1 DEF Following, OneSocket
    <2> QED
      BY <1>19, <2>1, <2>2 DEF Mount
  <1>20. CASE Ask
    BY <1>20, <1>0 DEF Ask, Following, OneSocket
  <1>21. CASE Answer
    BY <1>21, <1>0 DEF Answer, Following, OneSocket
  <1>22. CASE ClearEnded
    BY <1>22, <1>0 DEF ClearEnded, Following, OneSocket
  <1>23. CASE Stop
    BY <1>23, <1>0 DEF Stop, Following, OneSocket
  <1>24. CASE Reload
    BY <1>24, <1>0 DEF Reload, Following, OneSocket
  <1>25. CASE Leave
    BY <1>25, <1>0 DEF Leave, Following, OneSocket
  <1>26. CASE Refocus
    BY <1>26, <1>0 DEF Refocus, Following, OneSocket
  <1>27. CASE Restart
    BY <1>27, <1>0 DEF Restart, Following, OneSocket
  <1>28. CASE FetchFails
    BY <1>28, <1>0 DEF FetchFails, Following, OneSocket
  <1>29. CASE UNCHANGED vars
    BY <1>29, <1>0 DEF vars, Following, OneSocket
  <1>30. ASSUME NEW r \in Runs, PostFails(r) PROVE Following'
    BY <1>30, <1>0 DEF PostFails, Unused, Following, OneSocket
  <1>31. CASE Invalidate
    BY <1>31, <1>0 DEF Invalidate, Following, OneSocket
  <1> QED
    BY <1>1, <1>2, <1>3, <1>4, <1>5, <1>6, <1>7, <1>8, <1>9, <1>10, <1>11,
       <1>12, <1>13, <1>14, <1>15, <1>16, <1>17, <1>18, <1>19, <1>20, <1>21,
       <1>22, <1>23, <1>24, <1>25, <1>26, <1>27, <1>28, <1>29, <1>30, <1>31, <1>0
       DEF Next, RunMoves, RunGoesOn, Fan, Handle, Heed, Inquire, UserActs, Troubles

-----------------------------------------------------------------------------
(* Who changes what: the statuses, the tasks of the broadcasts, the wires *)

\* An end that was stored stays.
LEMMA EndsStay ==
  ASSUME TypeInv, [Next]_vars, NEW k \in Runs, status[k] \in Over
  PROVE  status'[k] = status[k]
  <1> USE Bounds DEF TypeInv, ServerTypes, Over, runVars, fanVars, netVars,
      wsVars, shownVars, actVars, queryVars, pageVars, Turn, Say, Store, Then,
      ServerSame, QuerySame, NoQuery, Show, Sync, Fetch, Connect, Open, Closed,
      CloseSocket, ClearSession, Break
  <1>1. ASSUME NEW r \in Runs, Begin(r), RunOnly PROVE status'[k] = status[k]
    BY <1>1 DEF Begin, RunOnly
  <1>2. ASSUME NEW r \in Runs, Pause(r), RunOnly PROVE status'[k] = status[k]
    BY <1>2 DEF Pause, RunOnly
  <1>3. ASSUME NEW r \in Runs, Resume(r), RunOnly PROVE status'[k] = status[k]
    BY <1>3 DEF Resume, RunOnly
  <1>4. ASSUME NEW r \in Runs, End(r), RunOnly PROVE status'[k] = status[k]
    BY <1>4 DEF End, RunOnly, MayEnd
  <1>5. ASSUME NEW r \in Runs, StoreHalf(r), RunOnly PROVE status'[k] = status[k]
    BY <1>5, Halves DEF StoreHalf, RunOnly
  <1>6. ASSUME NEW r \in Runs, SayHalf(r), RunOnly PROVE status'[k] = status[k]
    BY <1>6 DEF SayHalf, RunOnly
  <1>7. ASSUME NEW r \in Runs, StartSession(r) PROVE status'[k] = status[k]
    BY <1>7 DEF StartSession
  <1>8. ASSUME NEW r \in Runs, CreateRun(r) PROVE status'[k] = status[k]
    BY <1>8 DEF CreateRun, Unused
  <1>9. ASSUME NEW i \in Tasks, BeginBroadcast(i) PROVE status'[k] = status[k]
    BY <1>9 DEF BeginBroadcast
  <1>10. ASSUME NEW i \in Tasks, Sweep(i) PROVE status'[k] = status[k]
    BY <1>10 DEF Sweep
  <1>11. ASSUME NEW i \in Tasks, NEW c \in Conns, Send(i, c) PROVE status'[k] = status[k]
    BY <1>11 DEF Send
  <1>12. ASSUME NEW c \in Conns, Accept(c) PROVE status'[k] = status[k]
    BY <1>12 DEF Accept
  <1>13. ASSUME NEW c \in Conns, Disconnect(c) PROVE status'[k] = status[k]
    BY <1>13 DEF Disconnect
  <1>14. ASSUME NEW c \in Conns, Recv(c) PROVE status'[k] = status[k]
    BY <1>14 DEF Recv
  <1>15. ASSUME NEW c \in Conns, OnClose(c) PROVE status'[k] = status[k]
    BY <1>15 DEF OnClose
  <1>16. ASSUME NEW c \in Conns, Drop(c) PROVE status'[k] = status[k]
    BY <1>16 DEF Drop
  <1>17. CASE TimerFires
    BY <1>17 DEF TimerFires
  <1>18. CASE Stopped
    BY <1>18 DEF Stopped
  <1>19. CASE Mount
    BY <1>19 DEF Mount
  <1>20. CASE Ask
    BY <1>20 DEF Ask
  <1>21. CASE Answer
    BY <1>21 DEF Answer
  <1>22. CASE ClearEnded
    BY <1>22 DEF ClearEnded
  <1>23. CASE Stop
    BY <1>23 DEF Stop
  <1>24. CASE Reload
    BY <1>24 DEF Reload
  <1>25. CASE Leave
    BY <1>25 DEF Leave
  <1>26. CASE Refocus
    BY <1>26 DEF Refocus
  <1>27. CASE Restart
    BY <1>27 DEF Restart
  <1>28. CASE FetchFails
    BY <1>28 DEF FetchFails
  <1>29. CASE UNCHANGED vars
    BY <1>29 DEF vars
  <1>30. ASSUME NEW r \in Runs, PostFails(r) PROVE status'[k] = status[k]
    BY <1>30 DEF PostFails, Unused
  <1>31. CASE Invalidate
    BY <1>31 DEF Invalidate
  <1> QED
    BY <1>1, <1>2, <1>3, <1>4, <1>5, <1>6, <1>7, <1>8, <1>9, <1>10, <1>11,
       <1>12, <1>13, <1>14, <1>15, <1>16, <1>17, <1>18, <1>19, <1>20, <1>21,
       <1>22, <1>23, <1>24, <1>25, <1>26, <1>27, <1>28, <1>29, <1>30, <1>31
       DEF Next, RunMoves, RunGoesOn, Fan, Handle, Heed, Inquire, UserActs, Troubles

\* A task is what it was, or is over, or goes on, or starts with the list of the
\* registered connections.
GoesOn(i) ==
    /\ task[i].run = task'[i].run /\ task[i].event = task'[i].event
    /\ task'[i].todo \subseteq task[i].todo
    /\ \A c \in task'[i].dead : c \in task[i].dead \/ (c \in task[i].todo /\ link[c] = "down")
Starts(i) ==
    /\ queue # <<>> /\ task'[i].run = Head(queue)[1] /\ task'[i].event = Head(queue)[2]
    /\ task[i].todo = {} /\ task'[i].run \in Runs
    /\ task'[i].todo = registry[task'[i].run] /\ task'[i].dead = {}

LEMMA TasksMove ==
  ASSUME TypeInv, [Next]_vars, NEW k \in Tasks
  PROVE  task'[k] = NoTask \/ GoesOn(k) \/ Starts(k)
  <1> DEFINE Same == task'[k] = NoTask \/ GoesOn(k) \/ Starts(k)
  <1>0. task' = task => GoesOn(k)
    BY DEF GoesOn
  <1> USE Bounds DEF runVars, fanVars, netVars, wsVars, shownVars, actVars,
      queryVars, pageVars, Turn, Say, Store, Then, ServerSame, QuerySame,
      NoQuery, Show, Sync, Fetch, Connect, Open, Closed, CloseSocket,
      ClearSession, Break
  <1>1. ASSUME NEW r \in Runs, Begin(r), RunOnly PROVE Same
    BY <1>1, <1>0 DEF Begin, RunOnly
  <1>2. ASSUME NEW r \in Runs, Pause(r), RunOnly PROVE Same
    BY <1>2, <1>0 DEF Pause, RunOnly
  <1>3. ASSUME NEW r \in Runs, Resume(r), RunOnly PROVE Same
    BY <1>3, <1>0 DEF Resume, RunOnly
  <1>4. ASSUME NEW r \in Runs, End(r), RunOnly PROVE Same
    BY <1>4, <1>0 DEF End, RunOnly
  <1>5. ASSUME NEW r \in Runs, StoreHalf(r), RunOnly PROVE Same
    BY <1>5, <1>0 DEF StoreHalf, RunOnly
  <1>6. ASSUME NEW r \in Runs, SayHalf(r), RunOnly PROVE Same
    BY <1>6, <1>0 DEF SayHalf, RunOnly
  <1>7. ASSUME NEW r \in Runs, StartSession(r) PROVE Same
    BY <1>7, <1>0 DEF StartSession
  <1>8. ASSUME NEW r \in Runs, CreateRun(r) PROVE Same
    BY <1>8, <1>0 DEF CreateRun, Unused
  <1>9. ASSUME NEW i \in Tasks, BeginBroadcast(i) PROVE Same
    <2>1. CASE k = i
      <3>1. task[i].todo = {} /\ queue # <<>>
        BY <1>9 DEF BeginBroadcast, NoTask
      <3> QED
        BY <1>9, <2>1, <3>1, BroadcastTasks DEF GoesOn, Starts
    <2>2. CASE k # i
      BY <1>9, <2>2, BroadcastTasks DEF GoesOn
    <2> QED
      BY <2>1, <2>2
  <1>10. ASSUME NEW i \in Tasks, Sweep(i) PROVE Same
    BY <1>10 DEF Sweep, GoesOn, TypeInv, ServerTypes
  <1>11. ASSUME NEW i \in Tasks, NEW c \in Conns, Send(i, c) PROVE Same
    <2>1. CASE k = i
      <3>1. c \in task[i].todo
        BY <1>11 DEF Send
      <3> QED
        BY <1>11, <2>1, <3>1, SendTasks DEF GoesOn
    <2>2. CASE k # i
      BY <1>11, <2>2, SendTasks DEF GoesOn
    <2> QED
      BY <2>1, <2>2
  <1>12. ASSUME NEW c \in Conns, Accept(c) PROVE Same
    BY <1>12, <1>0 DEF Accept
  <1>13. ASSUME NEW c \in Conns, Disconnect(c) PROVE Same
    BY <1>13, <1>0 DEF Disconnect
  <1>14. ASSUME NEW c \in Conns, Recv(c) PROVE Same
    BY <1>14, <1>0 DEF Recv
  <1>15. ASSUME NEW c \in Conns, OnClose(c) PROVE Same
    BY <1>15, <1>0 DEF OnClose
  <1>16. ASSUME NEW c \in Conns, Drop(c) PROVE Same
    BY <1>16, <1>0 DEF Drop
  <1>17. CASE TimerFires
    BY <1>17, <1>0 DEF TimerFires
  <1>18. CASE Stopped
    BY <1>18, <1>0 DEF Stopped
  <1>19. CASE Mount
    BY <1>19, <1>0 DEF Mount
  <1>20. CASE Ask
    BY <1>20, <1>0 DEF Ask
  <1>21. CASE Answer
    BY <1>21, <1>0 DEF Answer
  <1>22. CASE ClearEnded
    BY <1>22, <1>0 DEF ClearEnded
  <1>23. CASE Stop
    BY <1>23, <1>0 DEF Stop
  <1>24. CASE Reload
    BY <1>24, <1>0 DEF Reload
  <1>25. CASE Leave
    BY <1>25, <1>0 DEF Leave
  <1>26. CASE Refocus
    BY <1>26, <1>0 DEF Refocus
  <1>27. CASE Restart
    BY <1>27, <1>0 DEF Restart
  <1>28. CASE FetchFails
    BY <1>28, <1>0 DEF FetchFails
  <1>29. CASE UNCHANGED vars
    BY <1>29, <1>0 DEF vars
  <1>30. ASSUME NEW r \in Runs, PostFails(r) PROVE Same
    BY <1>30, <1>0 DEF PostFails, Unused
  <1>31. CASE Invalidate
    BY <1>31, <1>0 DEF Invalidate
  <1> QED
    BY <1>1, <1>2, <1>3, <1>4, <1>5, <1>6, <1>7, <1>8, <1>9, <1>10, <1>11,
       <1>12, <1>13, <1>14, <1>15, <1>16, <1>17, <1>18, <1>19, <1>20, <1>21,
       <1>22, <1>23, <1>24, <1>25, <1>26, <1>27, <1>28, <1>29, <1>30, <1>31, <1>0
       DEF Next, RunMoves, RunGoesOn, Fan, Handle, Heed, Inquire, UserActs, Troubles

\* What a socket carries: what it did, less what was received or lost, and at its end
\* the greeting or an event that is broadcast to it.
Carries(c) ==
    \/ wire'[c] = <<>>
    \/ /\ of'[c] = of[c]
       /\ \/ wire'[c] = wire[c]
          \/ wire[c] # <<>> /\ wire'[c] = Tail(wire[c])
          \/ wire'[c] = Append(wire[c], "open")
          \/ \E i \in Tasks : c \in task[i].todo /\ wire'[c] = Append(wire[c], task[i].event)

LEMMA OpenedWire ==
  ASSUME TypeInv, Sockets, NEW r \in Runs, NEW old, Open(r, old), NEW k \in Conns
  PROVE  Carries(k)
  <1>1. opened + 1 \in Conns /\ opened' = opened + 1
    BY Bounds DEF Open, TypeInv, SocketTypes
  <1>2. CASE k = opened + 1
    <2>1. wire[k] = <<>>
      BY <1>1, <1>2, Bounds DEF Sockets, Fresh, TypeInv, SocketTypes
    <2> QED
      BY <2>1 DEF Open, Carries
  <1>3. CASE k # opened + 1
    BY <1>1, <1>3 DEF Open, TypeInv, SocketTypes, Carries
  <1> QED
    BY <1>2, <1>3

LEMMA WiresMove ==
  ASSUME TypeInv, Sockets, [Next]_vars, NEW k \in Conns
  PROVE  Carries(k)
  <1>0. UNCHANGED <<of, wire>> => Carries(k)
    BY DEF Carries
  <1> USE Bounds DEF SocketTypes, TypeInv, runVars, fanVars, netVars, wsVars,
      shownVars, actVars, queryVars, pageVars, Turn, Say, Store, Then,
      ServerSame, QuerySame, NoQuery, Show, Sync, Fetch, Connect, Closed,
      CloseSocket, ClearSession, Break
  <1>1. ASSUME NEW r \in Runs, Begin(r), RunOnly PROVE Carries(k)
    BY <1>1, <1>0 DEF Begin, RunOnly
  <1>2. ASSUME NEW r \in Runs, Pause(r), RunOnly PROVE Carries(k)
    BY <1>2, <1>0 DEF Pause, RunOnly
  <1>3. ASSUME NEW r \in Runs, Resume(r), RunOnly PROVE Carries(k)
    BY <1>3, <1>0 DEF Resume, RunOnly
  <1>4. ASSUME NEW r \in Runs, End(r), RunOnly PROVE Carries(k)
    BY <1>4, <1>0 DEF End, RunOnly
  <1>5. ASSUME NEW r \in Runs, StoreHalf(r), RunOnly PROVE Carries(k)
    BY <1>5, <1>0 DEF StoreHalf, RunOnly
  <1>6. ASSUME NEW r \in Runs, SayHalf(r), RunOnly PROVE Carries(k)
    BY <1>6, <1>0 DEF SayHalf, RunOnly
  <1>7. ASSUME NEW r \in Runs, StartSession(r) PROVE Carries(k)
    BY <1>7, OpenedWire DEF StartSession
  <1>8. ASSUME NEW r \in Runs, CreateRun(r) PROVE Carries(k)
    BY <1>8, <1>0 DEF CreateRun, Unused
  <1>9. ASSUME NEW i \in Tasks, BeginBroadcast(i) PROVE Carries(k)
    BY <1>9, <1>0 DEF BeginBroadcast
  <1>10. ASSUME NEW i \in Tasks, Sweep(i) PROVE Carries(k)
    BY <1>10, <1>0 DEF Sweep
  <1>11. ASSUME NEW i \in Tasks, NEW c \in Conns, Send(i, c) PROVE Carries(k)
    <2>1. UNCHANGED of /\ c \in task[i].todo
      BY <1>11 DEF Send
    <2>2. wire'[k] = wire[k] \/ (k = c /\ wire'[k] = Append(wire[k], task[i].event))
      BY <1>11 DEF Send
    <2> QED
      BY <2>1, <2>2 DEF Carries
  <1>12. ASSUME NEW c \in Conns, Accept(c) PROVE Carries(k)
    BY <1>12, <1>0 DEF Accept, Carries
  <1>13. ASSUME NEW c \in Conns, Disconnect(c) PROVE Carries(k)
    BY <1>13, <1>0 DEF Disconnect
  <1>14. ASSUME NEW c \in Conns, Recv(c) PROVE Carries(k)
    BY <1>14, <1>0 DEF Recv, Carries
  <1>15. ASSUME NEW c \in Conns, OnClose(c) PROVE Carries(k)
    BY <1>15, <1>0 DEF OnClose
  <1>16. ASSUME NEW c \in Conns, Drop(c) PROVE Carries(k)
    BY <1>16, <1>0 DEF Drop, Carries
  <1>17. CASE TimerFires
    <2>1. CASE runId # 0
      <3>1. runId \in Runs /\ Open(runId, {})
        BY <1>17, <2>1 DEF TimerFires, Runs
      <3> QED
        BY <3>1, OpenedWire
    <2> QED
      BY <1>17, <2>1, <1>0 DEF TimerFires
  <1>18. CASE Stopped
    BY <1>18, <1>0 DEF Stopped, Carries
  <1>19. CASE Mount
    <2>1. CASE session # 0 /\ Connect(session)
      BY <2>1, OpenedWire DEF PageTypes, Runs
    <2> QED
      BY <1>19, <2>1, <1>0 DEF Mount
  <1>20. CASE Ask
    BY <1>20, <1>0 DEF Ask
  <1>21. CASE Answer
    BY <1>21, <1>0 DEF Answer
  <1>22. CASE ClearEnded
    BY <1>22, <1>0 DEF ClearEnded, Carries
  <1>23. CASE Stop
    BY <1>23, <1>0 DEF Stop
  <1>24. CASE Reload
    BY <1>24, <1>0 DEF Reload, Carries
  <1>25. CASE Leave
    BY <1>25, <1>0 DEF Leave
  <1>26. CASE Refocus
    BY <1>26, <1>0 DEF Refocus
  <1>27. CASE Restart
    BY <1>27, <1>0 DEF Restart, Carries
  <1>28. CASE FetchFails
    BY <1>28, <1>0 DEF FetchFails
  <1>29. CASE UNCHANGED vars
    BY <1>29, <1>0 DEF vars
  <1>30. ASSUME NEW r \in Runs, PostFails(r) PROVE Carries(k)
    BY <1>30, <1>0 DEF PostFails, Unused
  <1>31. CASE Invalidate
    BY <1>31, <1>0 DEF Invalidate
  <1> QED
    BY <1>1, <1>2, <1>3, <1>4, <1>5, <1>6, <1>7, <1>8, <1>9, <1>10, <1>11,
       <1>12, <1>13, <1>14, <1>15, <1>16, <1>17, <1>18, <1>19, <1>20, <1>21,
       <1>22, <1>23, <1>24, <1>25, <1>26, <1>27, <1>28, <1>29, <1>30, <1>31, <1>0
       DEF Next, RunMoves, RunGoesOn, Fan, Handle, Heed, Inquire, UserActs, Troubles

\* The queue is what it was, or one shorter, or lost, or there is one more event, of a
\* run that is over if the event says so.
LEMMA QueueMoves ==
  ASSUME TypeInv, [Next]_vars
  PROVE  \/ UNCHANGED queue \/ queue' = <<>> \/ (queue # <<>> /\ queue' = Tail(queue))
         \/ \E r \in Runs, e \in Events :
               Say(r, e) /\ (e \in Over => status'[r] = e)
  <1> DEFINE Same == UNCHANGED queue \/ queue' = <<>> \/ (queue # <<>> /\ queue' = Tail(queue))
             Adds(r) == \E e \in Events : Say(r, e) /\ (e \in Over => status'[r] = e)
  <1> USE DEF runVars, fanVars, netVars, wsVars, shownVars, actVars, queryVars,
      pageVars, Turn, Store, Then, ServerSame, QuerySame, NoQuery, Show, Sync,
      Fetch, Connect, Open, Closed, CloseSocket, ClearSession, Break
  <1>1. ASSUME NEW r \in Runs, Begin(r), RunOnly PROVE Same
    BY <1>1 DEF Begin, RunOnly
  <1>2. ASSUME NEW r \in Runs, Pause(r), RunOnly PROVE Adds(r)
    BY <1>2 DEF Pause, RunOnly, Events, Over
  <1>3. ASSUME NEW r \in Runs, Resume(r), RunOnly PROVE Adds(r)
    BY <1>3 DEF Resume, RunOnly, Events, Over
  <1>4. ASSUME NEW r \in Runs, End(r), RunOnly PROVE Same
    BY <1>4 DEF End, RunOnly
  <1>5. ASSUME NEW r \in Runs, StoreHalf(r), RunOnly PROVE Same
    BY <1>5 DEF StoreHalf, RunOnly
  <1>6. ASSUME NEW r \in Runs, SayHalf(r), RunOnly PROVE Adds(r)
    BY <1>6, Halves DEF SayHalf, RunOnly, Events
  <1>7. ASSUME NEW r \in Runs, StartSession(r) PROVE Same
    BY <1>7 DEF StartSession
  <1>8. ASSUME NEW r \in Runs, CreateRun(r) PROVE Same
    BY <1>8 DEF CreateRun, Unused
  <1>9. ASSUME NEW i \in Tasks, BeginBroadcast(i) PROVE Same
    BY <1>9 DEF BeginBroadcast
  <1>10. ASSUME NEW i \in Tasks, Sweep(i) PROVE Same
    BY <1>10 DEF Sweep
  <1>11. ASSUME NEW i \in Tasks, NEW c \in Conns, Send(i, c) PROVE Same
    BY <1>11 DEF Send
  <1>12. ASSUME NEW c \in Conns, Accept(c) PROVE Same
    BY <1>12 DEF Accept
  <1>13. ASSUME NEW c \in Conns, Disconnect(c) PROVE Same
    BY <1>13 DEF Disconnect
  <1>14. ASSUME NEW c \in Conns, Recv(c) PROVE Same
    BY <1>14 DEF Recv
  <1>15. ASSUME NEW c \in Conns, OnClose(c) PROVE Same
    BY <1>15 DEF OnClose
  <1>16. ASSUME NEW c \in Conns, Drop(c) PROVE Same
    BY <1>16 DEF Drop
  <1>17. CASE TimerFires
    BY <1>17 DEF TimerFires
  <1>18. CASE Stopped
    BY <1>18 DEF Stopped
  <1>19. CASE Mount
    BY <1>19 DEF Mount
  <1>20. CASE Ask
    BY <1>20 DEF Ask
  <1>21. CASE Answer
    BY <1>21 DEF Answer
  <1>22. CASE ClearEnded
    BY <1>22 DEF ClearEnded
  <1>23. CASE Stop
    BY <1>23 DEF Stop
  <1>24. CASE Reload
    BY <1>24 DEF Reload
  <1>25. CASE Leave
    BY <1>25 DEF Leave
  <1>26. CASE Refocus
    BY <1>26 DEF Refocus
  <1>27. CASE Restart
    BY <1>27 DEF Restart
  <1>28. CASE FetchFails
    BY <1>28 DEF FetchFails
  <1>29. CASE UNCHANGED vars
    BY <1>29 DEF vars
  <1>30. ASSUME NEW r \in Runs, PostFails(r) PROVE Same
    BY <1>30 DEF PostFails, Unused
  <1>31. CASE Invalidate
    BY <1>31 DEF Invalidate
  <1> QED
    BY <1>1, <1>2, <1>3, <1>4, <1>5, <1>6, <1>7, <1>8, <1>9, <1>10, <1>11,
       <1>12, <1>13, <1>14, <1>15, <1>16, <1>17, <1>18, <1>19, <1>20, <1>21,
       <1>22, <1>23, <1>24, <1>25, <1>26, <1>27, <1>28, <1>29, <1>30, <1>31
       DEF Next, RunMoves, RunGoesOn, Fan, Handle, Heed, Inquire, UserActs, Troubles

-----------------------------------------------------------------------------
(* Broadcasts reach whom they are for *)

\* The run of a socket is set when it is opened, and a broken one stays broken.
LEMMA SocketsStay ==
  ASSUME TypeInv, Sockets, [Next]_vars, NEW k \in Conns, k <= opened
  PROVE  of'[k] = of[k] /\ (link[k] = "down" => link'[k] = "down")
  <1> USE Bounds DEF SocketTypes, TypeInv, runVars, fanVars, netVars, wsVars,
      shownVars, actVars, queryVars, pageVars, Turn, Say, Store, Then,
      ServerSame, QuerySame, NoQuery, Show, Sync, Fetch, Connect, Open, Closed,
      CloseSocket, ClearSession, Break
  <1>1. ASSUME NEW r \in Runs, Begin(r), RunOnly PROVE of'[k] = of[k] /\ (link[k] = "down" => link'[k] = "down")
    BY <1>1 DEF Begin, RunOnly
  <1>2. ASSUME NEW r \in Runs, Pause(r), RunOnly PROVE of'[k] = of[k] /\ (link[k] = "down" => link'[k] = "down")
    BY <1>2 DEF Pause, RunOnly
  <1>3. ASSUME NEW r \in Runs, Resume(r), RunOnly PROVE of'[k] = of[k] /\ (link[k] = "down" => link'[k] = "down")
    BY <1>3 DEF Resume, RunOnly
  <1>4. ASSUME NEW r \in Runs, End(r), RunOnly PROVE of'[k] = of[k] /\ (link[k] = "down" => link'[k] = "down")
    BY <1>4 DEF End, RunOnly
  <1>5. ASSUME NEW r \in Runs, StoreHalf(r), RunOnly PROVE of'[k] = of[k] /\ (link[k] = "down" => link'[k] = "down")
    BY <1>5 DEF StoreHalf, RunOnly
  <1>6. ASSUME NEW r \in Runs, SayHalf(r), RunOnly PROVE of'[k] = of[k] /\ (link[k] = "down" => link'[k] = "down")
    BY <1>6 DEF SayHalf, RunOnly
  <1>7. ASSUME NEW r \in Runs, StartSession(r) PROVE of'[k] = of[k] /\ (link[k] = "down" => link'[k] = "down")
    BY <1>7 DEF StartSession
  <1>8. ASSUME NEW r \in Runs, CreateRun(r) PROVE of'[k] = of[k] /\ (link[k] = "down" => link'[k] = "down")
    BY <1>8 DEF CreateRun, Unused
  <1>9. ASSUME NEW i \in Tasks, BeginBroadcast(i) PROVE of'[k] = of[k] /\ (link[k] = "down" => link'[k] = "down")
    BY <1>9 DEF BeginBroadcast
  <1>10. ASSUME NEW i \in Tasks, Sweep(i) PROVE of'[k] = of[k] /\ (link[k] = "down" => link'[k] = "down")
    BY <1>10 DEF Sweep
  <1>11. ASSUME NEW i \in Tasks, NEW c \in Conns, Send(i, c) PROVE of'[k] = of[k] /\ (link[k] = "down" => link'[k] = "down")
    BY <1>11 DEF Send
  <1>12. ASSUME NEW c \in Conns, Accept(c) PROVE of'[k] = of[k] /\ (link[k] = "down" => link'[k] = "down")
    BY <1>12 DEF Accept
  <1>13. ASSUME NEW c \in Conns, Disconnect(c) PROVE of'[k] = of[k] /\ (link[k] = "down" => link'[k] = "down")
    BY <1>13 DEF Disconnect
  <1>14. ASSUME NEW c \in Conns, Recv(c) PROVE of'[k] = of[k] /\ (link[k] = "down" => link'[k] = "down")
    BY <1>14 DEF Recv
  <1>15. ASSUME NEW c \in Conns, OnClose(c) PROVE of'[k] = of[k] /\ (link[k] = "down" => link'[k] = "down")
    BY <1>15 DEF OnClose
  <1>16. ASSUME NEW c \in Conns, Drop(c) PROVE of'[k] = of[k] /\ (link[k] = "down" => link'[k] = "down")
    BY <1>16 DEF Drop
  <1>17. CASE TimerFires
    BY <1>17 DEF TimerFires
  <1>18. CASE Stopped
    BY <1>18 DEF Stopped
  <1>19. CASE Mount
    <2>1. CASE Connect(session)
      BY <2>1
    <2>2. CASE UNCHANGED netVars
      BY <2>2
    <2> QED
      BY <1>19, <2>1, <2>2 DEF Mount
  <1>20. CASE Ask
    BY <1>20 DEF Ask
  <1>21. CASE Answer
    BY <1>21 DEF Answer
  <1>22. CASE ClearEnded
    BY <1>22 DEF ClearEnded
  <1>23. CASE Stop
    BY <1>23 DEF Stop
  <1>24. CASE Reload
    BY <1>24 DEF Reload
  <1>25. CASE Leave
    BY <1>25 DEF Leave
  <1>26. CASE Refocus
    BY <1>26 DEF Refocus
  <1>27. CASE Restart
    BY <1>27 DEF Restart
  <1>28. CASE FetchFails
    BY <1>28 DEF FetchFails
  <1>29. CASE UNCHANGED vars
    BY <1>29 DEF vars
  <1>30. ASSUME NEW r \in Runs, PostFails(r) PROVE of'[k] = of[k] /\ (link[k] = "down" => link'[k] = "down")
    BY <1>30 DEF PostFails, Unused
  <1>31. CASE Invalidate
    BY <1>31 DEF Invalidate
  <1> QED
    BY <1>1, <1>2, <1>3, <1>4, <1>5, <1>6, <1>7, <1>8, <1>9, <1>10, <1>11,
       <1>12, <1>13, <1>14, <1>15, <1>16, <1>17, <1>18, <1>19, <1>20, <1>21,
       <1>22, <1>23, <1>24, <1>25, <1>26, <1>27, <1>28, <1>29, <1>30, <1>31
       DEF Next, RunMoves, RunGoesOn, Fan, Handle, Heed, Inquire, UserActs, Troubles

\* A connection is registered for its own run, and stays so while it is served.
Registered(c) ==
    /\ \A r \in Runs : c \in registry[r] => of[c] = r
    /\ handler[c] = "serving" /\ link[c] = "up" => c \in registry[of[c]]

LEMMA RegisteredStep ==
  ASSUME TypeInv, Sockets, Routes, [Next]_vars, NEW k \in Conns
  PROVE  Registered(k)'
  <1>0. IF k <= opened THEN of[k] \in Runs ELSE Fresh(k)
    BY DEF Sockets
  <1>a. Registered(k) /\ (handler[k] # "none" => k <= opened)
    BY <1>0 DEF Routes, Registered, ServedIsRegistered, Fresh, TypeInv, ServerTypes
  <1>b. UNCHANGED <<registry, of, link, handler>> => Registered(k)'
    BY <1>a DEF Registered
  <1>c. k > opened => Fresh(k)
    BY <1>0, Bounds DEF TypeInv, SocketTypes
  <1> USE Bounds DEF SocketTypes, ServerTypes, TypeInv, runVars, fanVars,
      netVars, wsVars, shownVars, actVars, queryVars, pageVars, Turn, Say,
      Store, Then, ServerSame, QuerySame, NoQuery, Show, Sync, Fetch, Connect,
      Open, Closed, CloseSocket, ClearSession, Break
  <1>1. ASSUME NEW r \in Runs, Begin(r), RunOnly PROVE Registered(k)'
    BY <1>1, <1>a, <1>b, <1>c DEF Begin, RunOnly
  <1>2. ASSUME NEW r \in Runs, Pause(r), RunOnly PROVE Registered(k)'
    BY <1>2, <1>a, <1>b, <1>c DEF Pause, RunOnly
  <1>3. ASSUME NEW r \in Runs, Resume(r), RunOnly PROVE Registered(k)'
    BY <1>3, <1>a, <1>b, <1>c DEF Resume, RunOnly
  <1>4. ASSUME NEW r \in Runs, End(r), RunOnly PROVE Registered(k)'
    BY <1>4, <1>a, <1>b, <1>c DEF End, RunOnly
  <1>5. ASSUME NEW r \in Runs, StoreHalf(r), RunOnly PROVE Registered(k)'
    BY <1>5, <1>a, <1>b, <1>c DEF StoreHalf, RunOnly
  <1>6. ASSUME NEW r \in Runs, SayHalf(r), RunOnly PROVE Registered(k)'
    BY <1>6, <1>a, <1>b, <1>c DEF SayHalf, RunOnly
  <1>7. ASSUME NEW r \in Runs, StartSession(r) PROVE Registered(k)'
    BY <1>7, <1>a, <1>b, <1>c DEF StartSession, Registered, Fresh
  <1>8. ASSUME NEW r \in Runs, CreateRun(r) PROVE Registered(k)'
    BY <1>8, <1>a, <1>b, <1>c DEF CreateRun, Unused
  <1>9. ASSUME NEW i \in Tasks, BeginBroadcast(i) PROVE Registered(k)'
    BY <1>9, <1>a, <1>b, <1>c DEF BeginBroadcast
  <1>10. ASSUME NEW i \in Tasks, Sweep(i) PROVE Registered(k)'
    <2>1. \A d \in task[i].dead : link[d] = "down"
      BY DEF Routes
    <2>2. UNCHANGED <<of, link, handler>>
      BY <1>10 DEF Sweep
    <2>3. registry' = [registry EXCEPT ![task[i].run] = @ \ task[i].dead]
      BY <1>10 DEF Sweep
    <2> QED
      BY <2>1, <2>2, <2>3, <1>0, <1>a DEF Registered
  <1>11. ASSUME NEW i \in Tasks, NEW c \in Conns, Send(i, c) PROVE Registered(k)'
    BY <1>11, <1>a, <1>b, <1>c DEF Send
  <1>12. ASSUME NEW c \in Conns, Accept(c) PROVE Registered(k)'
    <2>1. CASE k # c
      <3>1. \A r \in Runs : k \in registry'[r] <=> k \in registry[r]
        <4>1. CASE registry' = [registry EXCEPT ![of[c]] = @ \cup {c}]
          BY <2>1, <4>1
        <4> QED
          BY <1>12, <4>1 DEF Accept
      <3>2. handler'[k] = handler[k] /\ UNCHANGED <<of, link>>
        BY <1>12, <2>1 DEF Accept
      <3> QED
        BY <3>1, <3>2, <1>0, <1>a DEF Registered, Fresh
    <2>2. CASE k = c
      <3>1. of[c] \in Runs
        BY <1>12, <2>2, <1>0 DEF Accept, Fresh
      <3>2. CASE registry' = [registry EXCEPT ![of[c]] = @ \cup {c}]
        BY <1>12, <2>2, <3>1, <3>2, <1>a DEF Accept, Registered
      <3>3. CASE link[c] = "down" /\ UNCHANGED registry
        BY <1>12, <2>2, <3>3, <1>a DEF Accept, Registered
      <3> QED
        BY <1>12, <3>2, <3>3 DEF Accept
    <2> QED
      BY <2>1, <2>2
  <1>13. ASSUME NEW c \in Conns, Disconnect(c) PROVE Registered(k)'
    BY <1>13, <1>a, <1>b, <1>c DEF Disconnect, Registered, Fresh
  <1>14. ASSUME NEW c \in Conns, Recv(c) PROVE Registered(k)'
    BY <1>14, <1>a, <1>b, <1>c DEF Recv, Registered, Fresh
  <1>15. ASSUME NEW c \in Conns, OnClose(c) PROVE Registered(k)'
    BY <1>15, <1>a, <1>b, <1>c DEF OnClose, Registered, Fresh
  <1>16. ASSUME NEW c \in Conns, Drop(c) PROVE Registered(k)'
    BY <1>16, <1>a, <1>b, <1>c DEF Drop, Registered, Fresh
  <1>17. CASE TimerFires
    <2>1. CASE Open(runId, {})
      BY <1>17, <2>1, <1>0, <1>a, <1>c DEF TimerFires, Registered, Fresh
    <2>2. CASE UNCHANGED <<handler, netVars>>
      BY <1>17, <2>2, <1>b DEF TimerFires
    <2> QED
      BY <1>17, <2>1, <2>2 DEF TimerFires
  <1>18. CASE Stopped
    BY <1>18, <1>a, <1>b, <1>c DEF Stopped, Registered, Fresh
  <1>19. CASE Mount
    <2>1. CASE Connect(session)
      BY <1>19, <2>1, <1>0, <1>a, <1>c DEF Mount, Registered, Fresh
    <2>2. CASE UNCHANGED <<handler, netVars>>
      BY <1>19, <2>2, <1>b DEF Mount
    <2> QED
      BY <1>19, <2>1, <2>2 DEF Mount
  <1>20. CASE Ask
    BY <1>20, <1>a, <1>b, <1>c DEF Ask
  <1>21. CASE Answer
    BY <1>21, <1>a, <1>b, <1>c DEF Answer
  <1>22. CASE ClearEnded
    BY <1>22, <1>a, <1>b, <1>c DEF ClearEnded, Registered, Fresh
  <1>23. CASE Stop
    BY <1>23, <1>a, <1>b, <1>c DEF Stop
  <1>24. CASE Reload
    BY <1>24, <1>a, <1>b, <1>c DEF Reload, Registered, Fresh
  <1>25. CASE Leave
    BY <1>25, <1>a, <1>b, <1>c DEF Leave
  <1>26. CASE Refocus
    BY <1>26, <1>a, <1>b, <1>c DEF Refocus
  <1>27. CASE Restart
    BY <1>27, <1>a, <1>b, <1>c DEF Restart, Registered, Fresh
  <1>28. CASE FetchFails
    BY <1>28, <1>a, <1>b, <1>c DEF FetchFails
  <1>29. CASE UNCHANGED vars
    BY <1>29, <1>a, <1>b, <1>c DEF vars
  <1>30. ASSUME NEW r \in Runs, PostFails(r) PROVE Registered(k)'
    BY <1>30, <1>a, <1>b, <1>c DEF PostFails, Unused
  <1>31. CASE Invalidate
    BY <1>31, <1>a, <1>b, <1>c DEF Invalidate
  <1> QED
    BY <1>1, <1>2, <1>3, <1>4, <1>5, <1>6, <1>7, <1>8, <1>9, <1>10, <1>11,
       <1>12, <1>13, <1>14, <1>15, <1>16, <1>17, <1>18, <1>19, <1>20, <1>21,
       <1>22, <1>23, <1>24, <1>25, <1>26, <1>27, <1>28, <1>29, <1>30, <1>31, <1>b
       DEF Next, RunMoves, RunGoesOn, Fan, Handle, Heed, Inquire, UserActs, Troubles

LEMMA RoutesStep ==
  ASSUME TypeInv, Sockets, Routes, [Next]_vars
  PROVE  Routes'
  <1>1. \A c \in Conns : Registered(c)'
    BY RegisteredStep
  <1>2. ASSUME NEW i \in Tasks, NEW c \in task[i].todo \cup task[i].dead
        PROVE  c \in Conns /\ c <= opened
    BY <1>2 DEF Sockets, Fresh, TypeInv, ServerTypes, TaskRecords
  <1>3. ASSUME NEW r \in Runs, NEW c \in registry[r] PROVE c \in Conns /\ c <= opened
    BY <1>3 DEF Sockets, Fresh, TypeInv, ServerTypes
  <1>4. ASSUME NEW i \in Tasks, NEW c \in task'[i].todo PROVE of'[c] = task'[i].run
    <2>1. CASE GoesOn(i)
      BY <1>2, <1>4, <2>1, SocketsStay DEF GoesOn, Routes
    <2>2. CASE Starts(i)
      BY <1>3, <1>4, <2>2, SocketsStay DEF Starts, Routes
    <2> QED
      BY <1>4, <2>1, <2>2, TasksMove DEF NoTask
  <1>5. ASSUME NEW i \in Tasks, NEW c \in task'[i].dead PROVE link'[c] = "down"
    <2>1. CASE GoesOn(i)
      <3>1. c \in Conns /\ c <= opened /\ link[c] = "down"
        BY <1>2, <1>5, <2>1 DEF GoesOn, Routes
      <3> QED
        BY <3>1, SocketsStay
    <2> QED
      BY <1>5, <2>1, TasksMove DEF NoTask, Starts
  <1>6. \A r \in Runs : \A c \in registry'[r] : c \in Conns
    BY TypeStep DEF TypeInv, ServerTypes
  <1> QED
    BY <1>1, <1>4, <1>5, <1>6 DEF Routes, Registered, ServedIsRegistered

LEMMA SocketsInit == Init => Sockets /\ Following /\ Routes
  <1> SUFFICES ASSUME Init PROVE Sockets /\ Following /\ Routes
    OBVIOUS
  <1>1. \A c \in Conns : ~(c <= 0)
    BY Bounds
  <1>2. Sockets
    BY <1>1 DEF Init, Sockets, Fresh, NoTask
  <1>3. timer = FALSE /\ attached = {}
    BY DEF Init
  <1>4. Following
    BY <1>3 DEF Following, OneSocket
  <1>5. Routes
    BY DEF Init, Routes, ServedIsRegistered, NoTask
  <1> QED
    BY <1>2, <1>4, <1>5

\* One socket at a time feeds the session, and it is one for its run: whatever closes,
\* breaks, is opened again by a timer, reloaded or left.
THEOREM SocketIsTheSessions == Spec => []OneSocket
  <1>1. Following => OneSocket
    BY DEF Following
  <1> QED
    BY <1>1, SocketsInit, TypeInit, TypeStep, SocketsStep, FollowingStep, PTL DEF Spec

\* A connection that is served is in the list of its run, whatever other connections,
\* of the same run or of others, are accepted, found dead or disconnected meanwhile.
THEOREM ServedConnectionIsRegistered == Spec => []ServedIsRegistered
  <1>1. Routes => ServedIsRegistered
    BY DEF Routes
  <1> QED
    BY <1>1, SocketsInit, TypeInit, TypeStep, SocketsStep, RoutesStep, PTL DEF Spec

\* A connection that leaves the list of a broadcast got the event, or is broken.
LEMMA PassesNobody ==
  ASSUME TypeInv, Sockets, [Next]_vars, NEW k \in Tasks, NEW d \in task[k].todo \ task'[k].todo
  PROVE  link'[d] = "down" \/ wire'[d] = Append(wire[d], task[k].event)
  <1> DEFINE Reached == link'[d] = "down" \/ wire'[d] = Append(wire[d], task[k].event)
  <1>0. task' # task /\ d \in Conns
    BY DEF TypeInv, ServerTypes, TaskRecords
  <1> USE Bounds DEF SocketTypes, TypeInv, runVars, fanVars, netVars, wsVars,
      shownVars, actVars, queryVars, pageVars, Turn, Say, Store, Then,
      ServerSame, QuerySame, NoQuery, Show, Sync, Fetch, Connect, Open, Closed,
      CloseSocket, ClearSession, Break
  <1>1. ASSUME NEW r \in Runs, Begin(r), RunOnly PROVE Reached
    BY <1>1, <1>0 DEF Begin, RunOnly
  <1>2. ASSUME NEW r \in Runs, Pause(r), RunOnly PROVE Reached
    BY <1>2, <1>0 DEF Pause, RunOnly
  <1>3. ASSUME NEW r \in Runs, Resume(r), RunOnly PROVE Reached
    BY <1>3, <1>0 DEF Resume, RunOnly
  <1>4. ASSUME NEW r \in Runs, End(r), RunOnly PROVE Reached
    BY <1>4, <1>0 DEF End, RunOnly
  <1>5. ASSUME NEW r \in Runs, StoreHalf(r), RunOnly PROVE Reached
    BY <1>5, <1>0 DEF StoreHalf, RunOnly
  <1>6. ASSUME NEW r \in Runs, SayHalf(r), RunOnly PROVE Reached
    BY <1>6, <1>0 DEF SayHalf, RunOnly
  <1>7. ASSUME NEW r \in Runs, StartSession(r) PROVE Reached
    BY <1>7, <1>0 DEF StartSession
  <1>8. ASSUME NEW r \in Runs, CreateRun(r) PROVE Reached
    BY <1>8, <1>0 DEF CreateRun, Unused
  <1>9. ASSUME NEW i \in Tasks, BeginBroadcast(i) PROVE Reached
    <2>1. k = i /\ task[i].todo = {}
      BY <1>9, BroadcastTasks DEF BeginBroadcast, NoTask
    <2> QED
      BY <2>1
  <1>10. ASSUME NEW i \in Tasks, Sweep(i) PROVE Reached
    BY <1>10 DEF Sweep, ServerTypes
  <1>11. ASSUME NEW i \in Tasks, NEW c \in Conns, Send(i, c) PROVE Reached
    <2>1. k = i /\ d = c
      BY <1>11, SendTasks
    <2> QED
      BY <1>11, <2>1, <1>0 DEF Send
  <1>12. ASSUME NEW c \in Conns, Accept(c) PROVE Reached
    BY <1>12, <1>0 DEF Accept
  <1>13. ASSUME NEW c \in Conns, Disconnect(c) PROVE Reached
    BY <1>13, <1>0 DEF Disconnect
  <1>14. ASSUME NEW c \in Conns, Recv(c) PROVE Reached
    BY <1>14, <1>0 DEF Recv
  <1>15. ASSUME NEW c \in Conns, OnClose(c) PROVE Reached
    BY <1>15, <1>0 DEF OnClose
  <1>16. ASSUME NEW c \in Conns, Drop(c) PROVE Reached
    BY <1>16, <1>0 DEF Drop
  <1>17. CASE TimerFires
    BY <1>17, <1>0 DEF TimerFires
  <1>18. CASE Stopped
    BY <1>18, <1>0 DEF Stopped
  <1>19. CASE Mount
    BY <1>19, <1>0 DEF Mount
  <1>20. CASE Ask
    BY <1>20, <1>0 DEF Ask
  <1>21. CASE Answer
    BY <1>21, <1>0 DEF Answer
  <1>22. CASE ClearEnded
    BY <1>22, <1>0 DEF ClearEnded
  <1>23. CASE Stop
    BY <1>23, <1>0 DEF Stop
  <1>24. CASE Reload
    BY <1>24, <1>0 DEF Reload
  <1>25. CASE Leave
    BY <1>25, <1>0 DEF Leave
  <1>26. CASE Refocus
    BY <1>26, <1>0 DEF Refocus
  <1>27. CASE Restart
    <2>1. link[d] # "none"
      BY <1>0 DEF Sockets, Fresh
    <2> QED
      BY <1>27, <2>1, <1>0 DEF Restart
  <1>28. CASE FetchFails
    BY <1>28, <1>0 DEF FetchFails
  <1>29. CASE UNCHANGED vars
    BY <1>29, <1>0 DEF vars
  <1>30. ASSUME NEW r \in Runs, PostFails(r) PROVE Reached
    BY <1>30, <1>0 DEF PostFails, Unused
  <1>31. CASE Invalidate
    BY <1>31, <1>0 DEF Invalidate
  <1> QED
    BY <1>1, <1>2, <1>3, <1>4, <1>5, <1>6, <1>7, <1>8, <1>9, <1>10, <1>11,
       <1>12, <1>13, <1>14, <1>15, <1>16, <1>17, <1>18, <1>19, <1>20, <1>21,
       <1>22, <1>23, <1>24, <1>25, <1>26, <1>27, <1>28, <1>29, <1>30, <1>31, <1>0
       DEF Next, RunMoves, RunGoesOn, Fan, Handle, Heed, Inquire, UserActs, Troubles

\* A broadcast passes no connection over, whatever others raise, and whoever is accepted
\* or goes while it waits for a slow one.
THEOREM BroadcastReachesAll == Spec => NobodyPassedOver
  <1>1. TypeInv /\ Sockets /\ [Next]_vars =>
          [\A i \in Tasks : \A c \in task[i].todo \ task'[i].todo :
              link'[c] = "down" \/ wire'[c] = Append(wire[c], task[i].event)]_vars
    BY PassesNobody
  <1> QED
    BY <1>1, SocketsInit, TypeInit, TypeStep, SocketsStep, PTL DEF Spec, NobodyPassedOver

-----------------------------------------------------------------------------
(* The end on its way *)

\* What is said of the end of a run is true of it now and later.
TrueNext(r, s) == s \in Over => r \in Runs /\ status'[r] = s

LEMMA TrueStays ==
  ASSUME TypeInv, [Next]_vars, NEW r, NEW s, True(r, s)
  PROVE  TrueNext(r, s)
  BY EndsStay DEF True, TrueNext

LEMMA QueuedStep ==
  ASSUME TypeInv, Queued, [Next]_vars
  PROVE  Queued'
  <1> SUFFICES ASSUME NEW n \in 1..Len(queue')
               PROVE  TrueNext(queue'[n][1], queue'[n][2])
    BY DEF Queued, True, TrueNext
  <1> DEFINE Goal == TrueNext(queue'[n][1], queue'[n][2])
  <1>1. UNCHANGED queue => Goal
    BY TrueStays DEF Queued
  <1>2. ASSUME NEW r \in Runs, NEW e \in Events, Say(r, e), e \in Over => status'[r] = e
        PROVE  Goal
    <2>1. CASE n = Len(queue) + 1
      BY <1>2, <2>1 DEF Say, TrueNext, TypeInv, ServerTypes
    <2>2. CASE n # Len(queue) + 1
      <3>1. n \in 1..Len(queue) /\ queue'[n] = queue[n]
        BY <1>2, <2>2 DEF Say, TypeInv, ServerTypes
      <3> QED
        BY <3>1, TrueStays DEF Queued
    <2> QED
      BY <2>1, <2>2
  <1>3. ASSUME queue # <<>>, queue' = Tail(queue) PROVE Goal
    <2>1. n + 1 \in 1..Len(queue) /\ queue'[n] = queue[n + 1]
      BY <1>3 DEF TypeInv, ServerTypes
    <2> QED
      BY <2>1, TrueStays DEF Queued
  <1>4. ASSUME queue' = <<>> PROVE Goal
    BY <1>4
  <1> QED
    BY <1>1, <1>2, <1>3, <1>4, QueueMoves

LEMMA HeadIsTrue ==
  ASSUME TypeInv, Queued, queue # <<>>
  PROVE  True(Head(queue)[1], Head(queue)[2])
  <1>1. 1 \in 1..Len(queue) /\ Head(queue) = queue[1]
    BY DEF TypeInv, ServerTypes
  <1> QED
    BY <1>1 DEF Queued

LEMMA BroadcastStep ==
  ASSUME TypeInv, Queued, Broadcast, [Next]_vars
  PROVE  Broadcast'
  <1> SUFFICES ASSUME NEW i \in Tasks PROVE TrueNext(task'[i].run, task'[i].event)
    BY DEF Broadcast, True, TrueNext
  <1>1. CASE task'[i] = NoTask
    BY <1>1 DEF NoTask, TrueNext, Over
  <1>2. CASE GoesOn(i)
    BY <1>2, TrueStays DEF GoesOn, Broadcast
  <1>3. CASE Starts(i)
    BY <1>3, HeadIsTrue, TrueStays DEF Starts
  <1> QED
    BY <1>1, <1>2, <1>3, TasksMove

LEMMA WiredStep ==
  ASSUME TypeInv, Sockets, Routes, Broadcast, Wired, [Next]_vars
  PROVE  Wired'
  <1> SUFFICES ASSUME NEW c \in Conns, NEW n \in 1..Len(wire'[c])
               PROVE  TrueNext(of'[c], wire'[c][n])
    BY DEF Wired, True, TrueNext
  <1> DEFINE Goal == TrueNext(of'[c], wire'[c][n])
  <1>0. wire[c] \in Seq(Messages)
    BY DEF TypeInv, SocketTypes
  <1>1. ASSUME of'[c] = of[c], NEW m \in 1..Len(wire[c]), wire'[c][n] = wire[c][m]
        PROVE  Goal
    <2>1. True(of[c], wire[c][m])
      BY DEF Wired
    <2> QED
      BY <1>1, <2>1, TrueStays
  <1>2. CASE wire'[c] = <<>>
    BY <1>2
  <1>3. CASE of'[c] = of[c] /\ wire'[c] = wire[c]
    BY <1>1, <1>3
  <1>4. CASE of'[c] = of[c] /\ wire[c] # <<>> /\ wire'[c] = Tail(wire[c])
    <2>1. n + 1 \in 1..Len(wire[c]) /\ wire'[c][n] = wire[c][n + 1]
      BY <1>0, <1>4
    <2> QED
      BY <1>1, <1>4, <2>1
  <1>5. ASSUME NEW m \in Messages, of'[c] = of[c], wire'[c] = Append(wire[c], m),
               TrueNext(of[c], m)
        PROVE  Goal
    <2>1. CASE n = Len(wire[c]) + 1
      BY <1>0, <1>5, <2>1 DEF TrueNext
    <2>2. CASE n # Len(wire[c]) + 1
      <3>1. n \in 1..Len(wire[c]) /\ wire'[c][n] = wire[c][n]
        BY <1>0, <1>5, <2>2
      <3> QED
        BY <1>1, <1>5, <3>1
    <2> QED
      BY <2>1, <2>2
  <1>6. CASE of'[c] = of[c] /\ wire'[c] = Append(wire[c], "open")
    BY <1>5, <1>6 DEF Messages, Over, TrueNext
  <1>7. ASSUME of'[c] = of[c], NEW i \in Tasks, c \in task[i].todo,
               wire'[c] = Append(wire[c], task[i].event)
        PROVE  Goal
    <2>1. of[c] = task[i].run /\ True(task[i].run, task[i].event)
      BY <1>7 DEF Routes, Broadcast
    <2>2. task[i].event \in Messages
      BY <1>7 DEF TypeInv, ServerTypes, NoTask, Messages
    <2> QED
      BY <1>5, <1>7, <2>1, <2>2, TrueStays
  <1> QED
    BY <1>2, <1>3, <1>4, <1>6, <1>7, WiresMove DEF Carries

\* The answers are about the run of the session, and so is what it shows.
LEMMA AnsweredStep ==
  ASSUME TypeInv, Sockets, Following, Wired, Answered, [Next]_vars
  PROVE  Answered'
  <1> DEFINE Goal == /\ TrueNext(session', fetch') /\ TrueNext(session', cached')
                     /\ TrueNext(session', shown')
  <1> SUFFICES Goal
    BY DEF Answered, True, TrueNext
  <1>0. TrueNext(session, fetch) /\ TrueNext(session, cached) /\ TrueNext(session, shown)
    BY TrueStays DEF Answered
  <1>a. UNCHANGED <<session, fetch, cached, shown>> => Goal
    BY <1>0
  <1>b. session # 0 => session \in Runs
    BY Bounds DEF TypeInv, PageTypes, Runs
  <1> USE DEF runVars, fanVars, netVars, wsVars, shownVars, actVars, queryVars,
      pageVars, Turn, Say, Store, Then, ServerSame, QuerySame, NoQuery, Show,
      Sync, Fetch, Connect, CloseSocket, ClearSession, Break
  <1>1. ASSUME NEW r \in Runs, Begin(r), RunOnly PROVE Goal
    BY <1>1, <1>0, <1>a DEF Begin, RunOnly
  <1>2. ASSUME NEW r \in Runs, Pause(r), RunOnly PROVE Goal
    BY <1>2, <1>0, <1>a DEF Pause, RunOnly
  <1>3. ASSUME NEW r \in Runs, Resume(r), RunOnly PROVE Goal
    BY <1>3, <1>0, <1>a DEF Resume, RunOnly
  <1>4. ASSUME NEW r \in Runs, End(r), RunOnly PROVE Goal
    BY <1>4, <1>0, <1>a DEF End, RunOnly
  <1>5. ASSUME NEW r \in Runs, StoreHalf(r), RunOnly PROVE Goal
    BY <1>5, <1>0, <1>a DEF StoreHalf, RunOnly
  <1>6. ASSUME NEW r \in Runs, SayHalf(r), RunOnly PROVE Goal
    BY <1>6, <1>0, <1>a DEF SayHalf, RunOnly
  <1>7. ASSUME NEW r \in Runs, StartSession(r) PROVE Goal
    BY <1>7, <1>0, <1>a DEF StartSession, TrueNext, Over
  <1>8. ASSUME NEW r \in Runs, CreateRun(r) PROVE Goal
    BY <1>8, <1>0, <1>a DEF CreateRun, Unused
  <1>9. ASSUME NEW i \in Tasks, BeginBroadcast(i) PROVE Goal
    BY <1>9, <1>0, <1>a DEF BeginBroadcast
  <1>10. ASSUME NEW i \in Tasks, Sweep(i) PROVE Goal
    BY <1>10, <1>0, <1>a DEF Sweep
  <1>11. ASSUME NEW i \in Tasks, NEW c \in Conns, Send(i, c) PROVE Goal
    BY <1>11, <1>0, <1>a DEF Send
  <1>12. ASSUME NEW c \in Conns, Accept(c) PROVE Goal
    BY <1>12, <1>0, <1>a DEF Accept
  <1>13. ASSUME NEW c \in Conns, Disconnect(c) PROVE Goal
    BY <1>13, <1>0, <1>a DEF Disconnect
  <1>14. ASSUME NEW c \in Conns, Recv(c) PROVE Goal
    <2>1. wire[c] \in Seq(Messages) /\ wire[c] # <<>> /\ c \in Conns
      BY <1>14 DEF Recv, TypeInv, SocketTypes
    <2>2. 1 \in 1..Len(wire[c]) /\ Head(wire[c]) = wire[c][1]
      BY <2>1
    <2>3. TrueNext(session, Head(wire[c]))
      <3>1. of[c] = session
        BY <1>14 DEF Recv, Following, OneSocket
      <3> QED
        BY <2>1, <2>2, <3>1, TrueStays DEF Wired
    <2> QED
      BY <1>14, <1>0, <2>3 DEF Recv, TrueNext, Over
  <1>15. ASSUME NEW c \in Conns, OnClose(c) PROVE Goal
    BY <1>15, <1>0, <1>a DEF OnClose
  <1>16. ASSUME NEW c \in Conns, Drop(c) PROVE Goal
    BY <1>16, <1>0, <1>a DEF Drop
  <1>17. CASE TimerFires
    BY <1>17, <1>0, <1>a DEF TimerFires
  <1>18. CASE Stopped
    BY <1>18, <1>0, <1>a DEF Stopped, TrueNext, Over
  <1>19. CASE Mount
    <2>1. UNCHANGED <<session, fetch, cached>> /\ shown' \in {shown, cached}
      BY <1>19 DEF Mount
    <2> QED
      BY <2>1, <1>0
  <1>20. CASE Ask
    <2>1. UNCHANGED <<status, session, cached, shown>> /\ session \in Runs
      BY <1>20, <1>b DEF Ask
    <2>2. fetch' \in {fetch, status[session]}
      BY <1>20 DEF Ask
    <2> QED
      BY <2>1, <2>2, <1>0 DEF TrueNext
  <1>21. CASE Answer
    <2>1. session' = session /\ fetch' = "none" /\ cached' = fetch /\ shown' \in {shown, fetch}
      BY <1>21 DEF Answer
    <2> QED
      BY <2>1, <1>0 DEF TrueNext, Over
  <1>22. CASE ClearEnded
    BY <1>22, <1>0, <1>a DEF ClearEnded, TrueNext, Over
  <1>23. CASE Stop
    BY <1>23, <1>0, <1>a DEF Stop
  <1>24. CASE Reload
    BY <1>24, <1>0, <1>a DEF Reload, TrueNext, Over
  <1>25. CASE Leave
    BY <1>25, <1>0, <1>a DEF Leave
  <1>26. CASE Refocus
    <2>1. UNCHANGED <<status, session, cached, shown>> /\ session \in Runs
      BY <1>26, <1>b DEF Refocus
    <2>2. fetch' \in {fetch, status[session]}
      BY <1>26 DEF Refocus
    <2> QED
      BY <2>1, <2>2, <1>0 DEF TrueNext
  <1>27. CASE Restart
    BY <1>27, <1>0, <1>a DEF Restart
  <1>28. CASE FetchFails
    BY <1>28, <1>0, <1>a DEF FetchFails, TrueNext, Over
  <1>29. CASE UNCHANGED vars
    BY <1>29, <1>0, <1>a DEF vars
  <1>30. ASSUME NEW r \in Runs, PostFails(r) PROVE Goal
    BY <1>30, <1>0, <1>a DEF PostFails, Unused
  <1>31. CASE Invalidate
    <2>1. UNCHANGED <<status, session, cached, shown>> /\ session \in Runs
      BY <1>31, <1>b DEF Invalidate
    <2>2. fetch' \in {fetch, status[session]}
      BY <1>31 DEF Invalidate
    <2> QED
      BY <2>1, <2>2, <1>0 DEF TrueNext
  <1> QED
    BY <1>1, <1>2, <1>3, <1>4, <1>5, <1>6, <1>7, <1>8, <1>9, <1>10, <1>11,
       <1>12, <1>13, <1>14, <1>15, <1>16, <1>17, <1>18, <1>19, <1>20, <1>21,
       <1>22, <1>23, <1>24, <1>25, <1>26, <1>27, <1>28, <1>29, <1>30, <1>31, <1>a
       DEF Next, RunMoves, RunGoesOn, Fan, Handle, Heed, Inquire, UserActs, Troubles

OnItsWay == Queued /\ Broadcast /\ Wired /\ Answered

LEMMA OnItsWayInit == Init => OnItsWay
  <1> SUFFICES ASSUME Init PROVE OnItsWay
    OBVIOUS
  <1>1. Queued /\ Wired
    BY DEF Init, Queued, Wired
  <1>2. Broadcast /\ Answered
    BY DEF Init, Broadcast, Answered, True, NoTask, Over
  <1> QED
    BY <1>1, <1>2 DEF OnItsWay

\* The session never shows an end that its run did not come to: not of another run, not
\* from an event that overtook others, an answer that was late or one from the cache.
THEOREM ShownEndIsTheRuns == Spec => []ShownEndIsTrue
  <1> DEFINE Inv == TypeInv /\ Sockets /\ Following /\ Routes /\ OnItsWay
  <1>1. Init => Inv
    BY TypeInit, SocketsInit, OnItsWayInit
  <1>2. Inv /\ [Next]_vars => Inv'
    BY TypeStep, SocketsStep, FollowingStep, RoutesStep, QueuedStep, BroadcastStep,
       WiredStep, AnsweredStep DEF OnItsWay
  <1>3. Inv => ShownEndIsTrue
    BY Bounds DEF ShownEndIsTrue, OnItsWay, Answered, True
  <1> QED
    BY <1>1, <1>2, <1>3, PTL DEF Spec

=============================================================================
