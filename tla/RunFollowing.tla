---------------------------- MODULE RunFollowing ----------------------------
(***************************************************************************)
(* How a page of the front end follows a pipeline run.                     *)
(*                                                                         *)
(*   - the runner stores the status of the run and says what it does; each *)
(*     event is broadcast by a task of its own to the connections that     *)
(*     ConnectionManager (api/v1/websocket.py) holds for the run;          *)
(*   - WSManager (packages/shared/src/lib/wsManager.ts) keeps one socket,  *)
(*     opens it again when it breaks and closes it at the end of the run;  *)
(*   - the session (store/pipelineStore.ts) shows the status of the run it *)
(*     belongs to, from two sources: the events, and the answers to the    *)
(*     queries for the run that PipelineRunPage.tsx makes.                 *)
(*                                                                         *)
(* WSManager and the session outlive the page, the answers are cached.     *)
(***************************************************************************)
EXTENDS Integers, Sequences, FiniteSets

CONSTANTS
    Ends,        \* [run -> the ends that it may come to]: a bound
    MaxRuns,     \* runs the user starts one after the other: a bound
    MaxConns,    \* sockets opened in all: a bound
    MaxRetries,  \* MAX_RETRIES of wsManager.ts
    MaxTurns     \* what happens besides the start and end of one run: a second run, pauses,
                 \* a stop, failures said twice, broken sockets, failed queries, restarts of the
                 \* server, pages reloaded, left or focussed again: a bound

Over == {"completed", "failed", "cancelled"}

ASSUME FollowingAssumption ==
    /\ Ends \in [1..MaxRuns -> SUBSET Over]
    /\ MaxRuns \in Nat \ {0} /\ MaxConns \in Nat \ {0}
    /\ MaxRetries \in Nat /\ MaxTurns \in Nat

VARIABLES
    \* server: runs, broadcasts, connections
    status, half, queue, task, registry, handler,
    \* the network
    of, link, wire, opened,
    \* WSManager
    ws, attached, runId, retryCount, timer, heard, wsStatus,
    \* session, page and query cache
    session, shown, ended, starting, busy, stopping, mounted, asked, fetch, cached,
    turns

runVars == <<status, half>>
fanVars == <<queue, task>>
netVars == <<of, link, wire, opened>>
wsVars == <<ws, attached, runId, retryCount, timer, heard, wsStatus>>
shownVars == <<session, shown, ended>>
actVars == <<starting, busy, stopping>>
queryVars == <<asked, fetch, cached>>
pageVars == <<shownVars, actVars, mounted, queryVars>>
vars == <<runVars, fanVars, registry, handler, netVars, wsVars, pageVars, turns>>

Runs == 1..MaxRuns
Conns == 1..MaxConns
Tasks == 1..(2 * MaxTurns + 1)
NoTask == [run |-> 0, event |-> "none", todo |-> {}, dead |-> {}]

Statuses == {"none", "pending", "running", "paused"} \cup Over
Events == {"paused", "resumed"} \cup Over

Init ==
    /\ status = [r \in Runs |-> "none"] /\ half = [r \in Runs |-> <<>>]
    /\ queue = <<>> /\ task = [i \in Tasks |-> NoTask]
    /\ registry = [r \in Runs |-> {}] /\ handler = [c \in Conns |-> "none"]
    /\ of = [c \in Conns |-> 0] /\ link = [c \in Conns |-> "none"]
    /\ wire = [c \in Conns |-> <<>>] /\ opened = 0
    /\ ws = 0 /\ attached = {} /\ runId = 0 /\ retryCount = 0 /\ timer = FALSE
    /\ heard = FALSE /\ wsStatus = "disconnected"
    /\ session = 0 /\ shown = "none" /\ ended = FALSE
    /\ starting = {} /\ busy = 0 /\ stopping = 0
    /\ mounted = TRUE /\ asked = FALSE
    /\ fetch = "none" /\ cached = "none"
    /\ turns = 0

-----------------------------------------------------------------------------
(***************************************************************************)
(* The run: what it stores, what it says, and in which order.  half is     *)
(* what it has still to do of the two.  run.started, layer.* and node.*    *)
(* change nothing that is followed here.                                   *)
(***************************************************************************)

Turn == turns < MaxTurns /\ turns' = turns + 1
Say(r, event) == queue' = Append(queue, <<r, event>>)
Store(r, s) == status' = [status EXCEPT ![r] = s]
Then(r, what) == half' = [half EXCEPT ![r] = what]

Begin(r) ==
    /\ status[r] = "pending" /\ half[r] = <<>>
    /\ Store(r, "running") /\ UNCHANGED <<half, queue, turns>>

\* A pause and a resume are said first and stored then.
Pause(r) ==
    /\ status[r] = "running" /\ half[r] = <<>>
    /\ Say(r, "paused") /\ Then(r, <<"store", "paused">>) /\ Turn /\ UNCHANGED status

Resume(r) ==
    /\ status[r] = "paused" /\ half[r] = <<>>
    /\ Say(r, "resumed") /\ Then(r, <<"store", "running">>) /\ UNCHANGED <<status, turns>>

StoreHalf(r) ==
    /\ half[r] # <<>> /\ Head(half[r]) = "store"
    /\ Store(r, half[r][2]) /\ Then(r, <<>>) /\ UNCHANGED <<queue, turns>>

MayEnd(r, s) ==
    /\ half[r] = <<>> /\ s \in Ends[r]
    /\ status[r] = "running" \/ (status[r] = "pending" /\ s = "failed")
                             \/ (status[r] = "paused" /\ s = "cancelled")

\* mutant: the end is said before it is stored.
End_SaidFirst(r) ==
    \E s \in Over : /\ MayEnd(r, s) /\ Say(r, s) /\ Then(r, <<"store", s>>)
                    /\ UNCHANGED <<status, turns>>

\* An end is stored first and said then, and is not stored over: that a database
\* exception after its write makes the background task store "failed" is left out.
End(r) ==
    \E s \in Over : /\ MayEnd(r, s) /\ Store(r, s) /\ Then(r, <<"say", s>>)
                    /\ UNCHANGED <<queue, turns>>

\* The failure of a node or of the plan is said by the runner, which raises, and again
\* by the background task around it; other failures by the latter only.
SayHalf(r) ==
    /\ half[r] # <<>> /\ Head(half[r]) = "say" /\ Say(r, half[r][2])
    /\ \/ Then(r, <<>>) /\ UNCHANGED turns
       \/ half[r][2] = "failed" /\ UNCHANGED half /\ Turn
    /\ UNCHANGED status

RunOnly == UNCHANGED <<task, registry, handler, netVars, wsVars, pageVars>>

RunMoves(r) ==
    /\ Begin(r) \/ Pause(r) \/ Resume(r) \/ End(r)
    /\ RunOnly

RunGoesOn(r) == (StoreHalf(r) \/ SayHalf(r)) /\ RunOnly

-----------------------------------------------------------------------------
(***************************************************************************)
(* ConnectionManager                                                       *)
(***************************************************************************)

\* The task of the next event takes a list of the connections of its run.
BeginBroadcast(i) ==
    /\ queue # <<>> /\ task[i] = NoTask /\ \A j \in 1..(i - 1) : task[j] # NoTask
    /\ queue' = Tail(queue)
    /\ LET r == Head(queue)[1] IN
       task' = IF registry[r] = {} THEN task
               ELSE [task EXCEPT ![i] = [run |-> r, event |-> Head(queue)[2],
                                         todo |-> registry[r], dead |-> {}]]
    /\ UNCHANGED <<runVars, registry, handler, netVars, wsVars, pageVars, turns>>

\* mutant: a connection that raises ends the broadcast.
Send_Breaks(i, c) ==
    /\ c \in task[i].todo
    /\ \/ /\ link[c] = "up" /\ wire' = [wire EXCEPT ![c] = Append(@, task[i].event)]
          /\ task' = [task EXCEPT ![i].todo = @ \ {c}]
       \/ /\ link[c] = "down" /\ UNCHANGED wire
          /\ task' = [task EXCEPT ![i].todo = {}, ![i].dead = @ \cup {c}]
    /\ UNCHANGED <<runVars, queue, registry, handler, of, link, opened, wsVars, pageVars, turns>>

\* One connection after the other, in the order of a Python set; a connection that
\* is slow delays this task and not the others, so broadcasts overtake each other.
\* On one that is broken the message is lost, or the call raises.
Send(i, c) ==
    /\ c \in task[i].todo
    /\ \/ /\ link[c] = "up" /\ wire' = [wire EXCEPT ![c] = Append(@, task[i].event)]
          /\ task' = [task EXCEPT ![i].todo = @ \ {c}]
       \/ /\ link[c] = "down" /\ UNCHANGED wire
          /\ \/ task' = [task EXCEPT ![i].todo = @ \ {c}]
             \/ task' = [task EXCEPT ![i].todo = @ \ {c}, ![i].dead = @ \cup {c}]
    /\ UNCHANGED <<runVars, queue, registry, handler, of, link, opened, wsVars, pageVars, turns>>

\* At the end of the broadcast the ones that raised are removed.
Sweep(i) ==
    /\ task[i] # NoTask /\ task[i].todo = {}
    /\ registry' = [registry EXCEPT ![task[i].run] = @ \ task[i].dead]
    /\ task' = [task EXCEPT ![i] = NoTask]
    /\ UNCHANGED <<runVars, queue, handler, netVars, wsVars, pageVars, turns>>

\* connect() accepts, then registers; the client learns that the socket is open.  The
\* greeting is sent outside the try: when it raises, the connection stays registered,
\* until a broadcast finds it dead.
Accept(c) ==
    /\ handler[c] = "accepting"
    /\ handler' = [handler EXCEPT ![c] = IF link[c] = "up" THEN "serving" ELSE "gone"]
    /\ \/ /\ registry' = [registry EXCEPT ![of[c]] = @ \cup {c}]
          /\ wire' = IF link[c] = "up" THEN [wire EXCEPT ![c] = Append(@, "open")] ELSE wire
       \/ link[c] = "down" /\ UNCHANGED <<registry, wire>>
    /\ UNCHANGED <<runVars, fanVars, of, link, opened, wsVars, pageVars, turns>>

\* mutant: the whole entry of the run goes with one of its connections.
Disconnect_DropsRun(c) ==
    /\ handler[c] = "serving" /\ link[c] = "down"
    /\ handler' = [handler EXCEPT ![c] = "gone"]
    /\ registry' = [registry EXCEPT ![of[c]] = {}]
    /\ UNCHANGED <<runVars, fanVars, netVars, wsVars, pageVars, turns>>

\* The handler notices, when it receives or when it pings.
Disconnect(c) ==
    /\ handler[c] = "serving" /\ link[c] = "down"
    /\ handler' = [handler EXCEPT ![c] = "gone"]
    /\ registry' = [registry EXCEPT ![of[c]] = @ \ {c}]
    /\ UNCHANGED <<runVars, fanVars, netVars, wsVars, pageVars, turns>>

-----------------------------------------------------------------------------
(***************************************************************************)
(* What goes wrong: sockets break, the server restarts.                    *)
(***************************************************************************)

\* What was on its way is lost with the connection.
Break(S) ==
    /\ link' = [c \in Conns |-> IF c \in S THEN "down" ELSE link[c]]
    /\ wire' = [c \in Conns |-> IF c \in S THEN <<>> ELSE wire[c]]

Drop(c) ==
    /\ link[c] = "up" /\ Turn /\ Break({c})
    /\ UNCHANGED <<runVars, fanVars, registry, handler, of, opened, wsVars, pageVars>>

\* Runs, broadcasts and handlers end with the process; the new one marks the runs it
\* finds running or pending as failed, and says nothing.
Restart ==
    /\ Turn /\ Break({c \in Conns : link[c] = "up"})
    /\ status' = [r \in Runs |-> IF status[r] \in {"running", "pending"} THEN "failed"
                                 ELSE status[r]]
    /\ half' = [r \in Runs |-> IF status[r] = "none" THEN <<>> ELSE <<"gone">>]
    /\ queue' = <<>> /\ task' = [i \in Tasks |-> NoTask]
    /\ registry' = [r \in Runs |-> {}]
    /\ handler' = [c \in Conns |-> IF handler[c] = "none" THEN "none" ELSE "gone"]
    /\ UNCHANGED <<of, opened, wsVars, pageVars>>

-----------------------------------------------------------------------------
(***************************************************************************)
(* WSManager                                                               *)
(***************************************************************************)

\* Detached and closed; what is on its way to it is read by nobody.
Closed(S) ==
    /\ attached' = attached \ S
    /\ link' = [c \in Conns |-> IF c \in S THEN "down" ELSE link[c]]
    /\ wire' = [c \in Conns |-> IF c \in S THEN <<>> ELSE wire[c]]

CloseSocket ==
    /\ ws' = 0 /\ timer' = FALSE /\ runId' = 0 /\ wsStatus' = "disconnected"
    /\ Closed({ws}) /\ UNCHANGED <<of, opened, handler, retryCount, heard>>

\* A new socket for run r; the one of before is detached and closed, if old has it.
Open(r, old) ==
    /\ opened < MaxConns /\ opened' = opened + 1
    /\ ws' = opened' /\ attached' = (attached \ old) \cup {opened'}
    /\ of' = [of EXCEPT ![opened'] = r]
    /\ handler' = [handler EXCEPT ![opened'] = "accepting"]
    /\ link' = [c \in Conns |-> IF c \in old THEN "down"
                                ELSE IF c = opened' THEN "up" ELSE link[c]]
    /\ wire' = [c \in Conns |-> IF c \in old THEN <<>> ELSE wire[c]]
    /\ runId' = r /\ wsStatus' = "connecting"

\* mutant: the timer of the previous connection goes on.
Connect_KeepsTimer(r) ==
    Open(r, {ws}) /\ UNCHANGED timer /\ retryCount' = 0 /\ heard' = FALSE

\* What there is of a previous connection goes first.
Connect(r) == Open(r, {ws}) /\ timer' = FALSE /\ retryCount' = 0 /\ heard' = FALSE

Show(s, over) == shown' = s /\ ended' = over

\* Events are applied to the session that is there, whatever run they name.
Recv(c) ==
    /\ c \in attached /\ wire[c] # <<>>
    /\ LET m == Head(wire[c]) IN
       IF m \in Over
       THEN /\ Show(m, TRUE) /\ heard' = TRUE /\ Closed({c}) /\ ws' = 0
            /\ wsStatus' = "disconnected" /\ UNCHANGED <<retryCount, session>>
       ELSE /\ wire' = [wire EXCEPT ![c] = Tail(@)]
            /\ IF m = "open" THEN retryCount' = 0 /\ wsStatus' = "connected"
                             ELSE UNCHANGED <<retryCount, wsStatus>>
            /\ \/ m = "paused" /\ Show("paused", FALSE) /\ UNCHANGED session
               \/ m = "resumed" /\ Show("running", FALSE) /\ UNCHANGED session
               \/ m = "open" /\ UNCHANGED shownVars
            /\ UNCHANGED <<heard, attached, link, ws>>
    /\ UNCHANGED <<runVars, fanVars, registry, handler, of, opened, runId, timer, actVars,
                   mounted, queryVars, turns>>

OnClose(c) ==
    /\ c \in attached /\ link[c] = "down" /\ wire[c] = <<>>
    /\ attached' = attached \ {c} /\ ws' = 0
    /\ IF heard THEN UNCHANGED <<retryCount, timer, wsStatus>>
       ELSE IF retryCount < MaxRetries
       THEN retryCount' = retryCount + 1 /\ timer' = TRUE /\ wsStatus' = "connecting"
       ELSE wsStatus' = "disconnected" /\ UNCHANGED <<retryCount, timer>>
    /\ UNCHANGED <<runVars, fanVars, registry, handler, netVars, runId, heard, pageVars, turns>>

TimerFires ==
    /\ timer /\ timer' = FALSE
    /\ IF runId # 0 THEN Open(runId, {})
       ELSE UNCHANGED <<handler, netVars, ws, attached, runId, wsStatus>>
    /\ UNCHANGED <<runVars, fanVars, registry, retryCount, heard, pageVars, turns>>

-----------------------------------------------------------------------------
(***************************************************************************)
(* The page: runs are started and stopped, queries answered.               *)
(***************************************************************************)

ServerSame == UNCHANGED <<runVars, fanVars, registry>>

\* What was asked and answered about another run concerns no session any more.
NoQuery == asked' = FALSE /\ fetch' = "none" /\ cached' = "none"


Unused(r) == status[r] = "none" /\ \A q \in 1..(r - 1) : status[q] # "none"

\* POST: a page that shows a run which is not over, or that waits for the answer
\* to its last POST, starts none.  All runs are of the page's template.
CreateRun(r) ==
    /\ mounted /\ busy = 0 /\ (session = 0 \/ shown \in Over)
    /\ Unused(r) /\ Store(r, "pending") /\ starting' = starting \cup {r} /\ busy' = r
    /\ IF r = 1 THEN UNCHANGED turns ELSE Turn
    /\ UNCHANGED <<half, fanVars, registry, handler, netVars, wsVars, shownVars, stopping,
                   mounted, queryVars>>

\* The POST was executed and its answer lost: it fails, or is sent once more and
\* creates another run.  (One that failed without effect left nothing behind.)
PostFails(r) ==
    /\ r \in starting /\ Turn
    /\ \/ /\ starting' = starting \ {r} /\ busy' = IF busy = r THEN 0 ELSE busy
          /\ UNCHANGED status
       \/ \E q \in Runs :
            /\ Unused(q) /\ Store(q, "pending")
            /\ starting' = (starting \ {r}) \cup {q}
            /\ busy' = IF busy = r THEN q ELSE busy
    /\ UNCHANGED <<half, fanVars, registry, handler, netVars, wsVars, shownVars,
                   stopping, mounted, queryVars>>

\* Its answer, which a page that is gone by now still handles.
StartSession(r) ==
    /\ r \in starting /\ starting' = starting \ {r}
    /\ busy' = IF busy = r THEN 0 ELSE busy
    /\ session' = r /\ Show("running", FALSE) /\ NoQuery /\ Connect(r)
    /\ ServerSame /\ UNCHANGED <<stopping, mounted, turns>>

ClearSession ==
    /\ session' = 0 /\ Show("none", FALSE) /\ NoQuery /\ CloseSocket
    /\ ServerSame /\ UNCHANGED <<starting, busy, mounted, turns>>

\* "Run again" without the file.
ClearEnded ==
    /\ mounted /\ session # 0 /\ ended
    /\ ClearSession /\ UNCHANGED stopping

\* POST cancel; whether and when the run takes the signal is its own affair.
Stop ==
    /\ mounted /\ session # 0 /\ shown \notin Over /\ stopping = 0
    /\ stopping' = session /\ Turn
    /\ ServerSame
    /\ UNCHANGED <<handler, netVars, wsVars, shownVars, starting, busy, mounted, queryVars>>

\* Its answer, or its failure: the session goes, be it of another run by now.
Stopped ==
    /\ stopping # 0 /\ stopping' = 0
    /\ ClearSession

\* The session is kept in sessionStorage; connections, answers and the cache are not.
Reload ==
    /\ Turn /\ mounted /\ mounted' = FALSE
    /\ ws' = 0 /\ runId' = 0 /\ retryCount' = 0 /\ timer' = FALSE /\ heard' = FALSE
    /\ wsStatus' = "disconnected" /\ Closed(attached)
    /\ starting' = {} /\ busy' = 0 /\ stopping' = 0 /\ NoQuery
    /\ ServerSame /\ UNCHANGED <<handler, of, opened, shownVars>>

\* Another page of the same application.
Leave ==
    /\ Turn /\ mounted /\ mounted' = FALSE
    /\ busy' = 0 /\ asked' = FALSE
    /\ ServerSame
    /\ UNCHANGED <<handler, netVars, wsVars, shownVars, starting, stopping, fetch, cached>>

Sync(s) == Show(s, s \in Over) /\ UNCHANGED session

\* The effects of the first render: a cached answer is shown; a session that had not
\* ended before that, and has no socket, is connected.
Mount ==
    /\ ~mounted /\ mounted' = TRUE
    /\ IF session # 0 /\ cached # "none" THEN Sync(cached) ELSE UNCHANGED shownVars
    /\ IF session # 0 /\ ~ended /\ wsStatus = "disconnected"
       THEN Connect(session) ELSE UNCHANGED <<handler, netVars, wsVars>>
    /\ ServerSame /\ UNCHANGED <<actVars, queryVars, turns>>

-----------------------------------------------------------------------------
(***************************************************************************)
(* usePipelineRun: one query for each page and session, and one whenever   *)
(* the window is focussed again.  No interval is set.                      *)
(***************************************************************************)

QuerySame ==
    /\ ServerSame
    /\ UNCHANGED <<handler, netVars, wsVars, actVars, mounted>>

Fetch == fetch = "none" /\ fetch' = status[session]

\* The server reads the status, and the answer is on its way.  A query in flight is
\* shared; a cached answer may still be fresh.
Ask ==
    /\ mounted /\ session # 0 /\ ~asked /\ asked' = TRUE
    /\ Fetch \/ ((fetch # "none" \/ cached # "none") /\ UNCHANGED fetch)
    /\ QuerySame /\ UNCHANGED <<shownVars, cached, turns>>

Refocus ==
    /\ mounted /\ session # 0 /\ asked /\ Fetch /\ Turn
    /\ QuerySame /\ UNCHANGED <<shownVars, asked, cached>>

\* A pause, a resume or a cancel was answered: the query is sent again, and an answer
\* under way is dropped if there was one before it.
Invalidate ==
    /\ mounted /\ session # 0 /\ asked /\ Turn
    /\ fetch = "none" \/ cached # "none"
    /\ fetch' = status[session]
    /\ QuerySame /\ UNCHANGED <<shownVars, asked, cached>>

\* The effect runs when the status of the answer differs from the one it follows.
Answer ==
    /\ fetch # "none" /\ fetch' = "none" /\ cached' = fetch
    /\ IF mounted /\ fetch # cached THEN Sync(fetch) ELSE UNCHANGED shownVars
    /\ QuerySame /\ UNCHANGED <<asked, turns>>

FetchFails ==
    /\ fetch # "none" /\ fetch' = "none" /\ Turn
    /\ QuerySame /\ UNCHANGED <<shownVars, asked, cached>>

-----------------------------------------------------------------------------
Fan(i) ==
    \/ \E c \in Conns : Send(i, c)
    \/ Sweep(i)
Handle(c) == Accept(c) \/ Disconnect(c)
Heed(c) == Recv(c) \/ OnClose(c)
Inquire == Ask \/ Answer
UserActs ==
    \/ \E r \in Runs : CreateRun(r)
    \/ ClearEnded \/ Stop \/ Reload \/ Leave \/ Refocus \/ Invalidate
Troubles ==
    \/ Restart \/ FetchFails \/ \E r \in Runs : PostFails(r)
    \/ \E c \in Conns : Drop(c)

Next ==
    \/ \E r \in Runs : RunMoves(r) \/ RunGoesOn(r) \/ StartSession(r)
    \/ \E i \in Tasks : BeginBroadcast(i) \/ Fan(i)
    \/ \E c \in Conns : Handle(c) \/ Heed(c)
    \/ TimerFires \/ Stopped \/ Mount \/ Inquire
    \/ UserActs \/ Troubles

Spec == Init /\ [][Next]_vars

\* The event loops of the server and of the browser get to what they have to do.  Runs,
\* users and troubles owe nothing; that they come back to the page is assumed of users.
FairSpec ==
    /\ Spec
    /\ \A r \in Runs :
          WF_vars(RunGoesOn(r)) /\ WF_vars(StartSession(r))
    /\ WF_vars(\E i \in Tasks : BeginBroadcast(i))
    /\ \A i \in Tasks : WF_vars(Fan(i))
    /\ \A c \in Conns : WF_vars(Handle(c)) /\ WF_vars(Heed(c))
    /\ WF_vars(TimerFires) /\ WF_vars(Stopped) /\ WF_vars(Mount) /\ WF_vars(Inquire)

-----------------------------------------------------------------------------
(***************************************************************************)
(* Properties                                                              *)
(***************************************************************************)

\* Every variable has its type.
TypeOK ==
    /\ status \in [Runs -> Statuses]
    /\ \A r \in Runs : half[r] \in {<<>>, <<"gone">>} \cup ({"store", "say"} \X Statuses)
    /\ Len(queue) <= 2 * MaxTurns + 1 /\ queue \in Seq(Runs \X (Events))
    /\ \A i \in Tasks :
          task[i] = NoTask \/ task[i] \in [run : Runs, event : Events, todo : SUBSET Conns,
                                           dead : SUBSET Conns]
    /\ registry \in [Runs -> SUBSET Conns]
    /\ handler \in [Conns -> {"none", "accepting", "serving", "gone"}]
    /\ of \in [Conns -> Runs \cup {0}] /\ link \in [Conns -> {"none", "up", "down"}]
    /\ wire \in [Conns -> Seq({"open"} \cup Events)]
    /\ opened \in 0..MaxConns /\ ws \in 0..MaxConns /\ attached \subseteq Conns
    /\ runId \in 0..MaxRuns /\ retryCount \in 0..MaxRetries
    /\ timer \in BOOLEAN /\ heard \in BOOLEAN
    /\ wsStatus \in {"disconnected", "connecting", "connected"}
    /\ session \in 0..MaxRuns /\ shown \in Statuses /\ ended \in BOOLEAN
    /\ starting \subseteq Runs /\ busy \in 0..MaxRuns /\ stopping \in 0..MaxRuns
    /\ mounted \in BOOLEAN /\ asked \in BOOLEAN
    /\ fetch \in Statuses /\ cached \in Statuses
    /\ turns \in 0..MaxTurns

\* An end that the session shows is the end that is stored for its run, whichever of
\* the event and the answer came first, and whatever runs were followed before.
\* (As long as the stored end stays, see End.)
ShownEndIsTrue == shown \in Over => session # 0 /\ status[session] = shown

\* A connection that is served and not broken is registered for its run: no clean-up
\* of another connection takes it out of the broadcasts.
ServedIsRegistered ==
    \A c \in Conns : handler[c] = "serving" /\ link[c] = "up" => c \in registry[of[c]]

\* One socket feeds the session, that of its run, and no second one is about to be
\* opened; without a session there is none.
OneSocket ==
    /\ attached \subseteq {ws}
    /\ \A c \in attached : of[c] = session /\ ~timer
    /\ timer => runId = session

\* A broadcast passes no connection over: one that leaves its list has been sent the
\* event, or is broken.
NobodyPassedOver ==
    [][\A i \in Tasks : \A c \in task[i].todo \ task'[i].todo :
          link'[c] = "down" \/ wire'[c] = Append(wire[c], task[i].event)]_vars

\* PipelineRunPage.tsx calls its query a "polling fallback" that syncs the status "when
\* WS may have missed events": a page that follows a run comes to show that it is over.
EndIsShown ==
    \A r \in Runs :
        (session = r /\ status[r] \in Over) ~> (session # r \/ shown \in Over)

=============================================================================
