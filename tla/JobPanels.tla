------------------------------ MODULE JobPanels ------------------------------
(***************************************************************************)
(* Jobs as the side panels see them: the runner (src/src/jobs/job-runner.ts*)
(* and use-jobs.ts), the Jobs tab (JobMonitor.tsx) and the reviewed jobs   *)
(* of the chat (ChatPage.tsx).  Every window has a panel.  The worker is   *)
(* the one of JobExecutor, a request of a panel being one step of it; what *)
(* remains of its awaits is that a job's last state is stored before its   *)
(* slot is free.                                                           *)
(***************************************************************************)
EXTENDS Integers, Sequences, FiniteSets

CONSTANTS
    Windows,
    MaxJobs,    \* bound on the jobs created
    MaxClicks,  \* bound on the clicks in all panels
    MaxAsks,    \* bound on a panel's job_status requests under way
    MaxTries,   \* SW_MSG_RETRIES
    MaxStops    \* bound on the stops of the worker, the switches of the environment and
                \* the times a chat page or a side panel goes away

ASSUME PanelAssumption ==
    /\ MaxJobs \in Nat /\ MaxClicks \in Nat /\ MaxStops \in Nat
    /\ MaxAsks \in Nat \ {0} /\ MaxTries \in Nat \ {0}

JobIds      == 1 .. MaxJobs
NoJob       == 0
Connections == {"uat", "prod"}
JobStates   == {"none", "running", "paused", "completed", "partial", "failed", "cancelled"}

VARIABLES
    job,        \* per job: its stored state, its recorded environment, where it runs
    slot,       \* the worker's activeJobId
    connection, \* the active environment
    panel,      \* per window: what its panel knows and does
    news,       \* per window: stored job lists its panel has not heard of yet
    ask,        \* per window: its job_status requests
    clicks, stops

panelVars == <<job, slot, connection, panel, news, ask, clicks, stops>>
countVars == <<clicks, stops>>

Unasked == -1
Asked   == -2

NoReview == [on |-> FALSE, env |-> "uat", blocked |-> FALSE]
NoClick  == [step |-> "none", kind |-> "none", job |-> NoJob, env |-> "uat", tries |-> 0,
             answer |-> NoJob, made |-> 0, seenEnv |-> {}, gone |-> FALSE]

\* A panel that has just been opened, or whose chat page has.
NotTold      == [j \in JobIds |-> "none"]
Fresh(jobs) == [active |-> NoJob, port |-> FALSE, jobs |-> jobs, watched |-> {}, told |-> NotTold,
                review |-> NoReview, click |-> NoClick]

PanelInit ==
    /\ job = [j \in JobIds |-> [state |-> "none", env |-> "uat", runs |-> "uat"]]
    /\ slot = NoJob
    /\ connection = "uat"
    /\ panel = [w \in Windows |-> Fresh(NotTold)]
    /\ news = [w \in Windows |-> <<>>]
    /\ ask = [w \in Windows |-> [i \in 1 .. MaxAsks |-> Unasked]]
    /\ clicks = 0 /\ stops = 0

States(jobs) == [j \in JobIds |-> jobs[j].state]
Click(w)     == panel[w].click
Steps(w, s)  == panel' = [panel EXCEPT ![w].click.step = s]
ClickOver(w) == panel' = [panel EXCEPT ![w].click = NoClick]

-----------------------------------------------------------------------------
(* The worker.                                                             *)

\* A write of the jobs is heard of by every panel, in order.
JobsStored(jobs) ==
    /\ job' = jobs
    /\ news' = [w \in Windows |-> Append(news[w], States(jobs))]

\* A run ends; the slot is freed after its last state is stored.
RunEnds ==
    /\ slot # NoJob /\ job[slot].state = "running"
    /\ \E s \in {"completed", "partial", "failed", "paused"} :
          JobsStored([job EXCEPT ![slot].state = s])
    /\ UNCHANGED <<slot, connection, panel, ask, countVars>>

SlotFreed ==
    /\ slot # NoJob /\ job[slot].state # "running"
    /\ slot' = NoJob
    /\ UNCHANGED <<job, connection, panel, news, ask, countVars>>

\* What the worker answers: NoJob for an error.
Answers(w, j) == panel' = [panel EXCEPT ![w].click.step = "answered", ![w].click.answer = j]

\* job_start: a second job is refused, a new one created and run.
StartServed(w) ==
    \/ slot # NoJob /\ Answers(w, NoJob) /\ UNCHANGED <<job, slot, news>>
    \/ /\ slot = NoJob
       /\ \E j \in JobIds :
             /\ job[j].state = "none" /\ \A i \in JobIds : i < j => job[i].state # "none"
             /\ slot' = j
             /\ JobsStored([job EXCEPT ![j] = [state |-> "running", env |-> Click(w).env,
                                                runs |-> Click(w).env]])
             /\ panel' = [panel EXCEPT ![w].click.step = "answered", ![w].click.answer = j,
                                       ![w].click.made = @ + 1]

\* job_resume runs a stored job in the environment it is given.
ResumeServed(w) ==
    LET j == Click(w).job
    IN  IF slot # NoJob \/ job[j].state \notin {"paused", "failed"}
        THEN Answers(w, NoJob) /\ UNCHANGED <<job, slot, news>>
        ELSE /\ slot' = j
             /\ JobsStored([job EXCEPT ![j].state = "running", ![j].runs = Click(w).env])
             /\ Answers(w, j)

\* job_pause and job_cancel are for the active job, job_cancel with an id for
\* that one.
StopServed(w, state) ==
    LET c == Click(w)
        j == IF c.kind = "cancelById" THEN c.job ELSE slot
    IN  /\ IF j = NoJob \/ (state = "paused" /\ job[j].state # "running")
           THEN UNCHANGED <<job, news>>
           ELSE JobsStored([job EXCEPT ![j].state = state])
        /\ slot' = IF j = slot THEN NoJob ELSE slot
        /\ Answers(w, c.job)

ClickServed(w) ==
    /\ Click(w).step = "asked"
    /\ CASE Click(w).kind = "start"  -> StartServed(w)
         [] Click(w).kind = "resume" -> ResumeServed(w)
         [] Click(w).kind = "pause"  -> StopServed(w, "paused")
         [] OTHER                    -> StopServed(w, "cancelled")
    /\ UNCHANGED <<connection, ask, countVars>>

AskServed(w) ==
    /\ \E i \in 1 .. MaxAsks : ask[w][i] = Asked /\ ask' = [ask EXCEPT ![w][i] = slot]
    /\ UNCHANGED <<job, slot, connection, panel, news, countVars>>

\* The worker stops and is started again by the next message: its run is paused,
\* the ports are closed, and a request that was not answered is repeated.
WorkerStops ==
    /\ stops < MaxStops /\ stops' = stops + 1
    /\ slot' = NoJob
    /\ IF \E j \in JobIds : job[j].state = "running"
       THEN JobsStored([j \in JobIds |-> IF job[j].state = "running"
                                         THEN [job[j] EXCEPT !.state = "paused"] ELSE job[j]])
       ELSE UNCHANGED <<job, news>>
    /\ LET asksAgain(c) == IF c.step # "answered" THEN c
                           ELSE IF c.tries + 1 = MaxTries THEN NoClick
                           ELSE [c EXCEPT !.step = "asked", !.tries = c.tries + 1]
       IN  panel' = [w \in Windows |-> [panel[w] EXCEPT !.port = FALSE, !.click = asksAgain(panel[w].click)]]
    /\ UNCHANGED <<connection, ask, clicks>>

-----------------------------------------------------------------------------
(* The runner: activeJobId, the keep-alive port, and the jobs it has heard *)
(* of.                                                                     *)

\* Mutant of SyncPolled: only a change of the jobs makes the runner ask.
SyncOnChange(w) == FALSE /\ UNCHANGED panelVars

\* Every 3 seconds.
SyncPolled(w) ==
    /\ \E i \in 1 .. MaxAsks : ask[w][i] = Unasked /\ ask' = [ask EXCEPT ![w][i] = Asked]
    /\ UNCHANGED <<job, slot, connection, panel, news, countVars>>

\* The answers come in any order.
Synced(w) ==
    /\ \E i \in 1 .. MaxAsks :
          /\ ask[w][i] >= NoJob
          /\ panel' = [panel EXCEPT ![w].active = ask[w][i]]
          /\ ask' = [ask EXCEPT ![w][i] = Unasked]
    /\ UNCHANGED <<job, slot, connection, news, countVars>>

\* The chat announces a watched job in one of these states, once in a row.
notifyStates == {"paused", "failed", "completed", "cancelled"}

\* Mutant of Announced: a job is announced once.
AnnouncedOnce(w, states) ==
    [j \in JobIds |-> IF /\ j \in panel[w].watched /\ states[j] \in notifyStates
                         /\ panel[w].told[j] = "running"
                      THEN states[j] ELSE panel[w].told[j]]

Announced(w, states) ==
    [j \in JobIds |-> IF j \in panel[w].watched /\ states[j] \in notifyStates
                      THEN states[j] ELSE panel[w].told[j]]

\* The listeners of storage.onChanged: the job list is taken over, the runner
\* asks for the active job, and the port is closed if the one it knows is over.
NewsHeard(w) ==
    /\ news[w] # <<>>
    /\ LET states == Head(news[w])
           a      == panel[w].active
       IN  panel' = [panel EXCEPT
              ![w].jobs = states, ![w].told = Announced(w, states),
              ![w].port = @ /\ ~(a # NoJob /\ states[a] \in {"completed", "failed", "paused", "cancelled"})]
    /\ news' = [news EXCEPT ![w] = Tail(@)]
    /\ \/ \E i \in 1 .. MaxAsks : ask[w][i] = Unasked /\ ask' = [ask EXCEPT ![w][i] = Asked]
       \/ (\A i \in 1 .. MaxAsks : ask[w][i] # Unasked) /\ UNCHANGED ask
    /\ UNCHANGED <<job, slot, connection, countVars>>

-----------------------------------------------------------------------------
(* The chat: a draft, its review, its start.                               *)

Begins(w, c) ==
    /\ Click(w).step = "none" /\ clicks < MaxClicks
    /\ clicks' = clicks + 1
    /\ panel' = [panel EXCEPT ![w].click = c]
    /\ UNCHANGED <<job, slot, connection, news, ask, stops>>

\* handleDraftJob reads the active environment, the model answers, ...
DraftClicked(w) == Begins(w, [NoClick EXCEPT !.step = "model", !.kind = "draft", !.env = connection])

\* ... and its script, or the one it drafts when the first does not pass the
\* preflight, is shown for review, or there is an error.
Drafted(w) ==
    /\ Click(w).step = "model"
    /\ \/ ClickOver(w)
       \/ \E firstOk, secondOk \in BOOLEAN :
             /\ ~Click(w).gone
             /\ panel' = [panel EXCEPT
                   ![w].click = NoClick,
                   ![w].review = [on |-> TRUE, env |-> Click(w).env, blocked |-> ~firstOk /\ ~secondOk]]
    /\ UNCHANGED <<job, slot, connection, news, ask, countVars>>

ReviewCancelled(w) ==
    /\ Click(w).step = "none" /\ panel[w].review.on
    /\ panel' = [panel EXCEPT ![w].review = NoReview]
    /\ UNCHANGED <<job, slot, connection, news, ask, countVars>>

\* handleStartReviewedJob: a script that does not pass the preflight, ...
StartClicked(w) ==
    /\ panel[w].review.on /\ ~panel[w].review.blocked
    /\ Begins(w, [NoClick EXCEPT !.step = "env", !.kind = "start", !.env = panel[w].review.env,
                                 !.seenEnv = {connection}])

\* Mutant of EnvRead: the review's environment is taken for the active one.
EnvTrusted(w) ==
    /\ Click(w).step = "env"
    /\ panel' = [panel EXCEPT ![w].click.step = "creds"]
    /\ UNCHANGED <<job, slot, connection, news, ask, countVars>>

\* ... one reviewed for another environment, ...
EnvRead(w) ==
    /\ Click(w).step = "env"
    /\ IF Click(w).kind = "start"
       THEN IF connection = Click(w).env THEN Steps(w, "creds") ELSE ClickOver(w)
       ELSE panel' = [panel EXCEPT ![w].click.step = "creds", ![w].click.env = connection]
    /\ UNCHANGED <<job, slot, connection, news, ask, countVars>>

\* ... and a locked session are errors.  startJob opens the port and asks.
CredsRead(w) ==
    /\ Click(w).step = "creds"
    /\ \/ ClickOver(w)
       \/ panel' = [panel EXCEPT ![w].click.step = "asked",
                                 ![w].port = @ \/ Click(w).kind = "start"]
    /\ UNCHANGED <<job, slot, connection, news, ask, countVars>>

\* The answer: an error closes the port, or the job is the active one.
Started(w) ==
    /\ Click(w).step = "answered" /\ Click(w).kind = "start"
    /\ IF Click(w).answer = NoJob
       THEN panel' = [panel EXCEPT ![w].click = NoClick, ![w].port = FALSE]
       ELSE panel' = [panel EXCEPT ![w].click.step = "fresh", ![w].active = Click(w).answer]
    /\ UNCHANGED <<job, slot, connection, news, ask, countVars>>

\* getJobFresh: the job is watched from the state it is in now, by the page that
\* asked, if it is still mounted.
FreshRead(w) ==
    /\ Click(w).step = "fresh"
    /\ LET j == Click(w).answer
       IN  panel' = IF Click(w).gone
                    THEN [panel EXCEPT ![w].click = NoClick, ![w].jobs = States(job)]
                    ELSE [panel EXCEPT ![w].click = NoClick, ![w].review = NoReview,
                             ![w].jobs = States(job),
                             ![w].watched = @ \cup {j}, ![w].told[j] = job[j].state]
    /\ UNCHANGED <<job, slot, connection, news, ask, countVars>>

\* The tab left the supported domains, or the session was locked: ChatPage unmounts
\* and, later, mounts anew.  What it had asked for goes on; the user is taken to
\* wait for that before the next click.
ChatUnmounts(w) ==
    /\ stops < MaxStops /\ stops' = stops + 1
    /\ LET c == Click(w)
           orphan == [c EXCEPT !.gone = c.gone \/ c.kind \in {"draft", "start"}]
       IN  panel' = [panel EXCEPT ![w] = [panel[w] EXCEPT !.watched = {}, !.told = NotTold,
                                                          !.review = NoReview, !.click = orphan]]
    /\ UNCHANGED <<job, slot, connection, news, ask, clicks>>

\* The side panel is closed and opened again: a new document, which loads the jobs.
\* A request that was sent is served before.
PanelReopens(w) ==
    /\ stops < MaxStops /\ stops' = stops + 1
    /\ Click(w).step # "asked"
    /\ panel' = [panel EXCEPT ![w] = Fresh(States(job))]
    /\ news' = [news EXCEPT ![w] = <<>>]
    /\ ask' = [ask EXCEPT ![w] = [i \in 1 .. MaxAsks |-> Unasked]]
    /\ UNCHANGED <<job, slot, connection, clicks>>

-----------------------------------------------------------------------------
(* The Jobs tab.                                                           *)

\* Resume: the environment that is active now, its credentials, the worker.
ResumeClicked(w) ==
    \E j \in JobIds :
        /\ panel[w].jobs[j] \in {"paused", "failed"}
        /\ Begins(w, [NoClick EXCEPT !.step = "env", !.kind = "resume", !.job = j])

Resumed(w) ==
    /\ Click(w).step = "answered" /\ Click(w).kind = "resume"
    /\ panel' = IF Click(w).answer = NoJob THEN [panel EXCEPT ![w].click = NoClick]
                ELSE [panel EXCEPT ![w].click = NoClick, ![w].active = Click(w).job, ![w].port = TRUE]
    /\ UNCHANGED <<job, slot, connection, news, ask, countVars>>

\* Pause and Cancel of the job that is shown as active.
StopClicked(w) ==
    LET a == panel[w].active
    IN  /\ a # NoJob
        /\ \/ /\ panel[w].jobs[a] = "running"
              /\ \E k \in {"pause", "cancel"} :
                    Begins(w, [NoClick EXCEPT !.step = "asked", !.kind = k, !.job = a])
           \/ /\ panel[w].jobs[a] = "paused"
              /\ Begins(w, [NoClick EXCEPT !.step = "asked", !.kind = "cancel", !.job = a])

\* Discard of another one.
DiscardClicked(w) ==
    \E j \in JobIds \ {panel[w].active} :
        /\ panel[w].jobs[j] \in {"running", "paused", "failed"}
        /\ Begins(w, [NoClick EXCEPT !.step = "asked", !.kind = "cancelById", !.job = j])

Stopped(w) ==
    /\ Click(w).step = "answered" /\ Click(w).kind \in {"pause", "cancel", "cancelById"}
    /\ panel' = IF Click(w).kind = "cancelById" THEN [panel EXCEPT ![w].click = NoClick]
                ELSE [panel EXCEPT ![w].click = NoClick, ![w].active = NoJob, ![w].port = FALSE]
    /\ UNCHANGED <<job, slot, connection, news, ask, countVars>>

\* Some panel switches the active environment (see Credentials).
EnvSwitched ==
    /\ stops < MaxStops /\ stops' = stops + 1
    /\ \E env \in Connections \ {connection} :
          /\ connection' = env
          /\ panel' = [w \in Windows |-> IF Click(w).kind = "start"
                          THEN [panel[w] EXCEPT !.click.seenEnv = @ \cup {env}] ELSE panel[w]]
    /\ UNCHANGED <<job, slot, news, ask, clicks>>

PanelStep(w) ==
    \/ ClickServed(w) \/ AskServed(w) \/ Synced(w) \/ NewsHeard(w) \/ Drafted(w) \/ EnvRead(w)
    \/ CredsRead(w) \/ Started(w) \/ FreshRead(w) \/ Resumed(w) \/ Stopped(w)

PanelNext ==
    \/ RunEnds \/ SlotFreed \/ WorkerStops \/ EnvSwitched
    \/ \E w \in Windows : \/ PanelStep(w) \/ SyncPolled(w) \/ DraftClicked(w) \/ ReviewCancelled(w)
                          \/ StartClicked(w) \/ ResumeClicked(w) \/ StopClicked(w) \/ DiscardClicked(w)
                          \/ ChatUnmounts(w) \/ PanelReopens(w)

PanelSpec == PanelInit /\ [][PanelNext]_panelVars

\* Requests are served and answered, events are delivered, the timer goes on.
PanelFairness ==
    /\ WF_panelVars(SlotFreed)
    /\ \A w \in Windows :
          /\ WF_panelVars(NewsHeard(w)) /\ WF_panelVars(AskServed(w))
          /\ WF_panelVars(Synced(w)) /\ WF_panelVars(SyncPolled(w))

-----------------------------------------------------------------------------
PanelTypeOK ==
    /\ slot \in JobIds \cup {NoJob} /\ connection \in Connections
    /\ job \in [JobIds -> [state : JobStates, env : Connections, runs : Connections]]
    /\ \A w \in Windows :
          /\ panel[w].active \in JobIds \cup {NoJob} /\ panel[w].port \in BOOLEAN
          /\ panel[w].jobs \in [JobIds -> JobStates] /\ panel[w].told \in [JobIds -> JobStates]
          /\ panel[w].watched \subseteq JobIds
          /\ panel[w].review \in [on : BOOLEAN, env : Connections, blocked : BOOLEAN]
          /\ Click(w).step \in {"none", "model", "env", "creds", "asked", "answered", "fresh"}
          /\ Click(w).gone \in BOOLEAN
          /\ Click(w).tries \in 0 .. MaxTries - 1 /\ Click(w).made \in 0 .. MaxTries
          /\ news[w] \in Seq([JobIds -> JobStates])
          /\ ask[w] \in [1 .. MaxAsks -> JobIds \cup {NoJob, Asked, Unasked}]
    /\ clicks \in 0 .. MaxClicks /\ stops \in 0 .. MaxStops

\* A panel that has heard all news has told the user of the last state of every
\* job its chat page started and still follows, if it is one it tells of: also when
\* the job ended before the panel got the answer to its start.  A page follows a job
\* only as long as it stays mounted (StaysFollowed).
FinalAnnounced ==
    \A w \in Windows : news[w] = <<>> =>
        \A j \in panel[w].watched :
            job[j].state \in notifyStates => panel[w].told[j] = job[j].state

\* A reviewed job is sent to the worker only for an environment that was the
\* active one at some moment since the user clicked Start.
StartsAsReviewed ==
    \A w \in Windows :
        Click(w).step \in {"asked", "answered", "fresh"} /\ Click(w).kind = "start"
            => Click(w).env \in Click(w).seenEnv

\* What the user of the chat approved is what runs, and what a chat page tells of
\* the end of a job it follows is its end.
ChatFollowsJob == FinalAnnounced /\ StartsAsReviewed

\* Once the worker's active job stays the same, every panel comes to show it and
\* goes on showing it, whatever it showed before and however late its requests
\* were answered.
ShowsActive ==
    \A w \in Windows, j \in JobIds \cup {NoJob} :
        <>[](slot = j) => <>[](Click(w).step = "none" => panel[w].active = j)

\* formatJobStateNotice has a text for a job that ended "partial"
\* (ChatPage.tsx:165); notifyStates has not, and it is never told.
EveryEndAnnounced ==
    \A w \in Windows : news[w] = <<>> =>
        \A j \in panel[w].watched : job[j].state = "partial" => panel[w].told[j] = "partial"

\* "Keep ChatPage mounted so conversation state survives tab switches" (App.tsx:96):
\* what survives does not include the jobs it follows.  When the tab leaves the
\* supported domains, the session is locked, or the side panel is closed, nobody
\* follows a job that goes on, and its end is never told.
StaysFollowed ==
    [][\A w \in Windows :
          {j \in panel[w].watched : job[j].state = "running"} \subseteq panel'[w].watched]_panelVars

\* "Cancel a job by ID (even if it's not the active one ...)" (job-runner.ts:253):
\* for a job the panel still takes for the active one it names none, and the
\* worker cancels another.
CancelsNamed ==
    [][\A w \in Windows : Click(w).kind = "cancel" /\ Click(w).step = "asked"
                          /\ panel'[w].click.step = "answered"
          => \A j \in JobIds : job'[j].state # job[j].state => j = Click(w).job]_panelVars

\* "Messages over this port keep the MV3 worker active while a side-panel job
\* runs" (service-worker.ts:118): a second start that is refused closes it.
KeptAlive ==
    [][\A w \in Windows :
          /\ Click(w).kind = "start" /\ stops' = stops
          /\ slot \in panel[w].watched /\ job[slot].state = "running"
          => (panel[w].port => panel'[w].port)]_panelVars

\* A click on Start creates one job: not when the worker stops before it has
\* answered and the request is repeated.
OneJobPerClick == \A w \in Windows : Click(w).made <= 1

\* The preview of a job names the environment it runs in (JobMonitor.tsx:269):
\* a resumed one runs in the one that is active then.
RunsWhereRecorded == \A j \in JobIds : job[j].state = "running" => job[j].runs = job[j].env
=============================================================================
