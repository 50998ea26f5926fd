---------------------------- MODULE JobExecutor ----------------------------
(***************************************************************************)
(* The job executor of the service worker (src/background/                 *)
(* sw-job-executor.ts), together with everything it awaits: the job store  *)
(* in chrome.storage (src/src/jobs/job-store.ts), the offscreen document   *)
(* and the sandbox iframe that run the script, the start-up recovery of    *)
(* service-worker.ts, and the death and restart of the worker.             *)
(*                                                                         *)
(* The worker is single threaded.  One action of this module is what one   *)
(* task of it does between two awaits, so the interleavings are those of   *)
(* the event loop.  All storage requests pass through one FIFO queue, the  *)
(* channel from the worker to the browser process; every updateJob is a    *)
(* get that is answered, a change of the array it returned, and a set that *)
(* is answered later.                                                      *)
(***************************************************************************)
EXTENDS Naturals, Sequences, FiniteSets

CONSTANTS
    Jobs,       \* ids createJob may draw
    ChatJobs,   \* those whose source is "chat" (one extra audit update)
    Runs,       \* start and resume requests, one swStartJob call each
    Ctls,       \* pause and cancel requests, one call each
    None,       \* null: no active job, no runtime, no cache, field not patched
    MaxCalls,   \* bound: SDK calls a script makes, counted from no checkpoint
    MaxCrashes  \* bound: times the worker or the browser stops

ASSUME ConstantsAssumption ==
    /\ ChatJobs \subseteq Jobs
    /\ None \notin Jobs \cup Runs
    /\ MaxCalls \in Nat
    /\ MaxCrashes \in Nat

VARIABLES
    store,      \* the "jobs" array in chrome.storage.local
    q,          \* storage requests sent and not answered, oldest first
    cache,      \* cachedJobs of job-store.ts in the worker
    active,     \* activeJobId
    runtime,    \* the run that installed activeSandboxRuntime
    stopped,    \* runs whose AbortController was aborted
    pc,         \* where each swStartJob/executeInSw is
    job,        \* the job it works on
    base,       \* the `job` constant of executeInSw, as read when it began
    cpc, ckind, cjob,  \* the same for a pause or cancel request
    rpc, found,        \* pauseInterruptedJobs: where it is, interruptedIds
    host,       \* offscreen.js: the pending execute request of a run
    script,     \* sandbox.js: the script of a run
    pos,        \* how far that script is: the checkpoint it would post
    aborted,    \* sandbox.js: abortedJobs
    sdk,        \* the script's SDK call
    prog, posted,      \* the script's progress message and what it carries
    up, crashes        \* the worker is alive; how often it died

storeVars == <<store, q, cache>>
slotVars  == <<active, runtime, stopped>>
runVars   == <<pc, job, base>>
ctlVars   == <<cpc, ckind, cjob>>
recVars   == <<rpc, found>>
boxVars   == <<host, script, pos, aborted>>
msgVars   == <<sdk, prog, posted>>
lifeVars  == <<up, crashes>>
vars == <<storeVars, slotVars, runVars, ctlVars, recVars, boxVars, msgVars, lifeVars>>

-----------------------------------------------------------------------------
(* Job records.  `saved` is the set of runs whose results, logs and writes *)
(* were merged into the record; a checkpoint is the number of calls the    *)
(* script need not repeat.  "resumed" is never assigned by the program.    *)

States == {"absent", "paused", "running", "completed", "partial", "failed", "cancelled"}
Outcomes == {"completed", "partial", "failed"}

Record == [state: States, saved: SUBSET Runs, ckpt: Nat, audited: BOOLEAN]
Patch  == [state: States \cup {None}, saved: (SUBSET Runs) \cup {None},
           ckpt: Nat \cup {None}, audited: BOOLEAN \cup {None}]

NoRecord == [state |-> "absent", saved |-> {}, ckpt |-> 0, audited |-> FALSE]
Keep     == [state |-> None, saved |-> None, ckpt |-> None, audited |-> None]
Becomes(s) == [Keep EXCEPT !.state = s]

Pick(new, old) == IF new = None THEN old ELSE new

\* Object.assign(jobs[idx], patch)
Assign(rec, p) ==
    [state   |-> Pick(p.state, rec.state),
     saved   |-> Pick(p.saved, rec.saved),
     ckpt    |-> Pick(p.ckpt, rec.ckpt),
     audited |-> Pick(p.audited, rec.audited)]

-----------------------------------------------------------------------------
(* Storage requests.  A task is named by its kind and its run or request.  *)

Kinds == {"run", "ctl", "sdk", "prog", "rec"}
Ops   == {"create", "update", "load", "set"}
JobArray == [Jobs -> Record]

\* null is no value of a field it stands for the lack of.
ASSUME NoneAssumption ==
    None \notin States /\ None \notin JobArray /\ \A d \in SUBSET Runs : None # d

Request ==
    {req \in [kind: Kinds, id: Runs \cup Ctls \cup {None}, op: Ops,
              job: Jobs \cup {None}, patch: Patch, jobs: JobArray \cup {None}] :
        req.op = "set" => req.jobs \in JobArray}

Create(k, i, j)    == [kind |-> k, id |-> i, op |-> "create", job |-> j,
                       patch |-> Becomes("paused"), jobs |-> None]
Update(k, i, j, p) == [kind |-> k, id |-> i, op |-> "update", job |-> j,
                       patch |-> p, jobs |-> None]
Load(k, i)         == [kind |-> k, id |-> i, op |-> "load", job |-> None,
                       patch |-> Keep, jobs |-> None]
Save(k, i, js)     == [kind |-> k, id |-> i, op |-> "set", job |-> None,
                       patch |-> Keep, jobs |-> js]

\* The oldest request is this task's.
Mine(k, i) == up /\ q # <<>> /\ Head(q).kind = k /\ Head(q).id = i

\* updateJob or createJob of this task ends with the oldest request: its set,
\* or the get of an updateJob that did not find the job and returned null.
Answered(k, i) ==
    /\ Mine(k, i)
    /\ \/ Head(q).op = "set"
       \/ Head(q).op = "update" /\ store[Head(q).job].state = "absent"

Loaded(k, i) == Mine(k, i) /\ Head(q).op = "load"

Settle ==
    /\ store' = IF Head(q).op = "set" THEN Head(q).jobs ELSE store
    /\ cache' = IF Head(q).op = "set" THEN Head(q).jobs ELSE store

\* loadJobsFresh is answered: the returned array becomes cachedJobs and is
\* changed in place, and the whole of it is sent back.
Fetch ==
    /\ up /\ q # <<>>
    /\ \/ Head(q).op = "create"
       \/ Head(q).op = "update" /\ store[Head(q).job].state # "absent"
    /\ LET req == Head(q)
           js  == [store EXCEPT ![req.job] = Assign(@, req.patch)]
       IN  /\ cache' = js
           /\ q' = Append(Tail(q), Save(req.kind, req.id, js))
    /\ UNCHANGED <<store, slotVars, runVars, ctlVars, recVars, boxVars, msgVars, lifeVars>>

-----------------------------------------------------------------------------
Live == {"lookup", "create", "mark", "announce", "begin", "log", "audit",
         "compile", "exec", "flush", "finish", "report"}
PCs  == Live \cup {"idle", "refused", "done", "dead"}
CPCs == {"idle", "abort", "aborted", "save", "byid", "done", "dead"}
Busy == {"abort", "aborted", "save", "byid"}

Init ==
    /\ store = [j \in Jobs |-> NoRecord]
    /\ q = <<>>
    /\ cache = None
    /\ active = None
    /\ runtime = None
    /\ stopped = {}
    /\ pc = [r \in Runs |-> "idle"]
    /\ job = [r \in Runs |-> None]
    /\ base = [r \in Runs |-> NoRecord]
    /\ cpc = [c \in Ctls |-> "idle"]
    /\ ckind = [c \in Ctls |-> "pause"]
    /\ cjob = [c \in Ctls |-> None]
    /\ rpc = "done"
    /\ found = {}
    /\ host = [r \in Runs |-> "idle"]
    /\ script = [r \in Runs |-> "none"]
    /\ pos = [r \in Runs |-> 0]
    /\ aborted = {}
    /\ sdk = [r \in Runs |-> "none"]
    /\ prog = [r \in Runs |-> "none"]
    /\ posted = [r \in Runs |-> 0]
    /\ up = TRUE
    /\ crashes = 0

cleanup == active' = None /\ runtime' = None /\ UNCHANGED stopped

-----------------------------------------------------------------------------
(* swStartJob                                                              *)

\* A new job: the slot is free now, the id is known to nobody yet.
StartNew(r, j) ==
    /\ up /\ pc[r] = "idle" /\ active = None
    /\ \A s \in Runs : job[s] # j
    /\ pc' = [pc EXCEPT ![r] = "create"]
    /\ job' = [job EXCEPT ![r] = j]
    /\ q' = Append(q, Create("run", r, j))
    /\ UNCHANGED <<store, cache, slotVars, base, ctlVars, recVars, boxVars, msgVars, lifeVars>>

\* mutant: a job is resumed in whatever state it is
Resumable_any(rec) == rec.state # "absent"

Resumable(rec) == rec.state \in {"paused", "failed"}

\* Resume: getJob answers from cachedJobs, so nothing intervenes.
StartResume(r, j) ==
    /\ up /\ pc[r] = "idle" /\ active = None
    /\ cache # None /\ Resumable(cache[j])
    /\ active' = j
    /\ pc' = [pc EXCEPT ![r] = "mark"]
    /\ job' = [job EXCEPT ![r] = j]
    /\ q' = Append(q, Update("run", r, j, Becomes("running")))
    /\ UNCHANGED <<store, cache, runtime, stopped, base, ctlVars, recVars, boxVars, msgVars, lifeVars>>

\* Resume in a worker that has not read the jobs yet: getJob awaits storage.
StartLookup(r, j) ==
    /\ up /\ pc[r] = "idle" /\ active = None
    /\ cache = None /\ store[j].state # "absent"
    /\ pc' = [pc EXCEPT ![r] = "lookup"]
    /\ job' = [job EXCEPT ![r] = j]
    /\ q' = Append(q, Load("run", r))
    /\ UNCHANGED <<store, cache, slotVars, base, ctlVars, recVars, boxVars, msgVars, lifeVars>>

RunFound(r) ==
    /\ pc[r] = "lookup" /\ Loaded("run", r)
    /\ cache' = store
    /\ IF Resumable(store[job[r]])
       THEN /\ active' = job[r]
            /\ pc' = [pc EXCEPT ![r] = "mark"]
            /\ q' = Append(Tail(q), Update("run", r, job[r], Becomes("running")))
       ELSE /\ pc' = [pc EXCEPT ![r] = "refused"]
            /\ q' = Tail(q)
            /\ UNCHANGED active
    /\ UNCHANGED <<store, runtime, stopped, job, base, ctlVars, recVars, boxVars, msgVars, lifeVars>>

\* createJob returned: the slot is taken without looking at it again.
RunCreated(r) ==
    /\ pc[r] = "create" /\ Answered("run", r) /\ Settle
    /\ active' = job[r]
    /\ pc' = [pc EXCEPT ![r] = "mark"]
    /\ q' = Append(Tail(q), Update("run", r, job[r], Becomes("running")))
    /\ UNCHANGED <<runtime, stopped, job, base, ctlVars, recVars, boxVars, msgVars, lifeVars>>

RunMarked(r) ==
    /\ pc[r] = "mark" /\ Answered("run", r) /\ Settle
    /\ pc' = [pc EXCEPT ![r] = "announce"]
    /\ q' = Tail(q)
    /\ UNCHANGED <<slotVars, job, base, ctlVars, recVars, boxVars, msgVars, lifeVars>>

-----------------------------------------------------------------------------
(* executeInSw, started without being awaited once telemetry has answered  *)

RunBegun(r) ==
    /\ up /\ pc[r] = "announce"
    /\ IF cache[job[r]].state = "absent"
       THEN /\ cleanup
            /\ pc' = [pc EXCEPT ![r] = "done"]
            /\ UNCHANGED <<q, base>>
       ELSE /\ base' = [base EXCEPT ![r] = cache[job[r]]]
            /\ pc' = [pc EXCEPT ![r] = "begin"]
            /\ q' = Append(q, Update("run", r, job[r], Becomes("running")))
            /\ UNCHANGED slotVars
    /\ UNCHANGED <<store, cache, job, ctlVars, recVars, boxVars, msgVars, lifeVars>>

\* The first chat start of a job is audited once: an entry in the audit log ...
RunAuditing(r) ==
    /\ pc[r] = "begin" /\ Answered("run", r) /\ Settle
    /\ job[r] \in ChatJobs /\ ~base[r].audited
    /\ pc' = [pc EXCEPT ![r] = "log"]
    /\ q' = Tail(q)
    /\ UNCHANGED <<slotVars, job, base, ctlVars, recVars, boxVars, msgVars, lifeVars>>

\* ... and, once appendAuditEntry has returned, its time in the job.
RunLogged(r) ==
    /\ up /\ pc[r] = "log"
    /\ pc' = [pc EXCEPT ![r] = "audit"]
    /\ q' = Append(q, Update("run", r, job[r], [Keep EXCEPT !.audited = TRUE]))
    /\ UNCHANGED <<store, cache, slotVars, job, base, ctlVars, recVars, boxVars, msgVars, lifeVars>>

\* The SDK bridge is installed; compileSandboxScript is awaited.
RunOpened(r) ==
    /\ Answered("run", r) /\ Settle
    /\ \/ pc[r] = "begin" /\ (job[r] \notin ChatJobs \/ base[r].audited)
       \/ pc[r] = "audit"
    /\ runtime' = r
    /\ pc' = [pc EXCEPT ![r] = "compile"]
    /\ q' = Tail(q)
    /\ UNCHANGED <<active, stopped, job, base, ctlVars, recVars, boxVars, msgVars, lifeVars>>

RunCompileFailed(r) ==
    /\ up /\ pc[r] = "compile"
    /\ pc' = [pc EXCEPT ![r] = "finish"]
    /\ q' = Append(q, Update("run", r, job[r], Becomes("failed")))
    /\ UNCHANGED <<store, cache, slotVars, job, base, ctlVars, recVars, boxVars, msgVars, lifeVars>>

RunCompiled(r) ==
    /\ up /\ pc[r] = "compile"
    /\ pc' = [pc EXCEPT ![r] = "exec"]
    /\ host' = [host EXCEPT ![r] = "sent"]
    /\ UNCHANGED <<storeVars, slotVars, job, base, ctlVars, recVars, script, pos, aborted, msgVars, lifeVars>>

Merged(r, s) == [Keep EXCEPT !.state = s, !.saved = base[r].saved \cup {r}]

\* The script returned.  What computeJobOutcome says of its results is free.
RunReturned(r) ==
    /\ up /\ pc[r] = "exec" /\ host[r] = "returned"
    /\ IF active # job[r]
       THEN /\ pc' = [pc EXCEPT ![r] = "done"]
            /\ UNCHANGED q
       ELSE /\ pc' = [pc EXCEPT ![r] = "finish"]
            /\ \E s \in Outcomes : q' = Append(q, Update("run", r, job[r], Merged(r, s)))
    /\ UNCHANGED <<store, cache, slotVars, job, base, ctlVars, recVars, boxVars, msgVars, lifeVars>>

\* mutant: the catch branch stores the computed outcome instead of "failed"
Conclude_outcome(r, rest) ==
    IF active # job[r]
    THEN /\ pc' = [pc EXCEPT ![r] = "done"]
         /\ q' = rest
    ELSE /\ pc' = [pc EXCEPT ![r] = "finish"]
         /\ \E s \in Outcomes : q' = Append(rest, Update("run", r, job[r], Merged(r, s)))

\* The end of the catch branch, `rest` being the requests still queued.
Conclude(r, rest) ==
    IF active # job[r]
    THEN /\ pc' = [pc EXCEPT ![r] = "done"]
         /\ q' = rest
    ELSE /\ pc' = [pc EXCEPT ![r] = "finish"]
         /\ q' = Append(rest, Update("run", r, job[r], Merged(r, "failed")))

Serves(j) == runtime # None /\ job[runtime] = j

\* executeJobInOffscreen threw: progress is flushed with the checkpoint the
\* job had when this run began, if a runtime of the job is still installed.
RunThrew(r) ==
    /\ up /\ pc[r] = "exec" /\ host[r] \in {"threw", "failed"}
    /\ IF Serves(job[r])
       THEN /\ pc' = [pc EXCEPT ![r] = "flush"]
            /\ q' = Append(q, Update("run", r, job[r], [Keep EXCEPT !.ckpt = base[r].ckpt]))
       ELSE Conclude(r, q)
    /\ UNCHANGED <<store, cache, slotVars, job, base, ctlVars, recVars, boxVars, msgVars, lifeVars>>

RunFlushed(r) ==
    /\ pc[r] = "flush" /\ Answered("run", r) /\ Settle
    /\ Conclude(r, Tail(q))
    /\ UNCHANGED <<slotVars, job, base, ctlVars, recVars, boxVars, msgVars, lifeVars>>

\* The final updateJob is done; job_completed or job_failed telemetry is awaited.
RunFinished(r) ==
    /\ pc[r] = "finish" /\ Answered("run", r) /\ Settle
    /\ pc' = [pc EXCEPT ![r] = "report"]
    /\ q' = Tail(q)
    /\ UNCHANGED <<slotVars, job, base, ctlVars, recVars, boxVars, msgVars, lifeVars>>

\* mutant: the run ends without cleanup()
RunReported_keeps(r) ==
    /\ up /\ pc[r] = "report"
    /\ pc' = [pc EXCEPT ![r] = "done"]
    /\ UNCHANGED <<storeVars, slotVars, job, base, ctlVars, recVars, boxVars, msgVars, lifeVars>>

RunReported(r) ==
    /\ up /\ pc[r] = "report"
    /\ cleanup
    /\ pc' = [pc EXCEPT ![r] = "done"]
    /\ UNCHANGED <<storeVars, job, base, ctlVars, recVars, boxVars, msgVars, lifeVars>>

-----------------------------------------------------------------------------
(* swPauseJob (side panel, or a tab was closed), swCancelJob, and          *)
(* swCancelJobById                                                         *)

\* mutant: does not look whether a job is active
PauseOrCancel_unguarded(c, kind) ==
    /\ up /\ cpc[c] = "idle"
    /\ cpc' = [cpc EXCEPT ![c] = "abort"]
    /\ ckind' = [ckind EXCEPT ![c] = kind]
    /\ cjob' = [cjob EXCEPT ![c] = active]
    /\ stopped' = stopped \cup (IF runtime = None THEN {} ELSE {runtime})
    /\ UNCHANGED <<storeVars, active, runtime, runVars, recVars, boxVars, msgVars, lifeVars>>

PauseOrCancel(c, kind) ==
    /\ up /\ cpc[c] = "idle" /\ active # None
    /\ cpc' = [cpc EXCEPT ![c] = "abort"]
    /\ ckind' = [ckind EXCEPT ![c] = kind]
    /\ cjob' = [cjob EXCEPT ![c] = active]
    /\ stopped' = stopped \cup (IF runtime = None THEN {} ELSE {runtime})
    /\ UNCHANGED <<storeVars, active, runtime, runVars, recVars, boxVars, msgVars, lifeVars>>

CancelById(c, j) ==
    /\ up /\ cpc[c] = "idle" /\ active # j
    /\ store[j].state # "absent"
    /\ cpc' = [cpc EXCEPT ![c] = "byid"]
    /\ ckind' = [ckind EXCEPT ![c] = "cancel"]
    /\ cjob' = [cjob EXCEPT ![c] = j]
    /\ q' = Append(q, Update("ctl", c, j, Becomes("cancelled")))
    /\ UNCHANGED <<store, cache, slotVars, runVars, recVars, boxVars, msgVars, lifeVars>>

\* offscreen_job_abort was answered; getJob reads cachedJobs.
CtlAborted(c) ==
    /\ up /\ cpc[c] = "aborted"
    /\ LET state == cache[cjob[c]].state
           write == IF ckind[c] = "pause" THEN state = "running" ELSE state # "absent"
           final == IF ckind[c] = "pause" THEN "paused" ELSE "cancelled"
       IN  IF write
           THEN /\ cpc' = [cpc EXCEPT ![c] = "save"]
                /\ q' = Append(q, Update("ctl", c, cjob[c], Becomes(final)))
                /\ UNCHANGED slotVars
           ELSE /\ cpc' = [cpc EXCEPT ![c] = "done"]
                /\ cleanup
                /\ UNCHANGED q
    /\ UNCHANGED <<store, cache, runVars, ckind, cjob, recVars, boxVars, msgVars, lifeVars>>

CtlSaved(c) ==
    /\ cpc[c] \in {"save", "byid"} /\ Answered("ctl", c) /\ Settle
    /\ cpc' = [cpc EXCEPT ![c] = "done"]
    /\ q' = Tail(q)
    /\ IF cpc[c] = "save" THEN cleanup ELSE UNCHANGED slotVars
    /\ UNCHANGED <<runVars, ckind, cjob, recVars, boxVars, msgVars, lifeVars>>

-----------------------------------------------------------------------------
(* The offscreen document: pendingSandboxRequests, its timeout and abort   *)

\* offscreen_job_execute arrives; the script starts at the job's checkpoint.
HostExecute(r) ==
    /\ host[r] = "sent"
    /\ host' = [host EXCEPT ![r] = "pending"]
    /\ script' = [script EXCEPT ![r] = "running"]
    /\ pos' = [pos EXCEPT ![r] = base[r].ckpt]
    /\ aborted' = aborted \ {job[r]}
    /\ UNCHANGED <<storeVars, slotVars, runVars, ctlVars, recVars, msgVars, lifeVars>>

\* The document cannot be created or does not answer: no script starts.
HostUnavailable(r) ==
    /\ host[r] = "sent"
    /\ host' = [host EXCEPT ![r] = "failed"]
    /\ UNCHANGED <<storeVars, slotVars, runVars, ctlVars, recVars, script, pos, aborted, msgVars, lifeVars>>

\* mutant: the timer forgets the request without rejecting it
HostTimeout_silent(r) ==
    /\ host[r] = "pending"
    /\ host' = [host EXCEPT ![r] = "idle"]
    /\ UNCHANGED <<storeVars, slotVars, runVars, ctlVars, recVars, script, pos, aborted, msgVars, lifeVars>>

\* The request times out.  Nobody tells the script.
HostTimeout(r) ==
    /\ host[r] = "pending"
    /\ host' = [host EXCEPT ![r] = "failed"]
    /\ UNCHANGED <<storeVars, slotVars, runVars, ctlVars, recVars, script, pos, aborted, msgVars, lifeVars>>

\* offscreen_job_abort: every pending request of the job is rejected, the
\* sandbox is told, and the worker is answered.
HostAbort(c) ==
    /\ cpc[c] = "abort"
    /\ cpc' = [cpc EXCEPT ![c] = "aborted"]
    /\ host' = [r \in Runs |-> IF host[r] = "pending" /\ job[r] = cjob[c]
                               THEN "failed" ELSE host[r]]
    /\ aborted' = aborted \cup {cjob[c]}
    /\ UNCHANGED <<storeVars, slotVars, runVars, ckind, cjob, recVars, script, pos, msgVars, lifeVars>>

-----------------------------------------------------------------------------
(* The script in the sandbox: one SDK call at a time, a checkpoint posted  *)
(* once after any of them, an end at any moment between two calls.         *)

ScriptCall(r) ==
    /\ script[r] = "running" /\ sdk[r] = "none" /\ pos[r] < MaxCalls
    /\ job[r] \notin aborted
    /\ sdk' = [sdk EXCEPT ![r] = "sent"]
    /\ UNCHANGED <<storeVars, slotVars, runVars, ctlVars, recVars, boxVars, prog, posted, lifeVars>>

ScriptProgress(r) ==
    /\ script[r] = "running" /\ sdk[r] = "none" /\ prog[r] = "none"
    /\ pos[r] > base[r].ckpt /\ posted[r] < pos[r]
    /\ prog' = [prog EXCEPT ![r] = "posted"]
    /\ posted' = [posted EXCEPT ![r] = pos[r]]
    /\ UNCHANGED <<storeVars, slotVars, runVars, ctlVars, recVars, boxVars, sdk, lifeVars>>

\* sandbox_result or sandbox_error: dropped unless the request is pending.
ScriptEnd(r, how) ==
    /\ script[r] = "running" /\ sdk[r] = "none"
    /\ script' = [script EXCEPT ![r] = how]
    /\ host' = IF host[r] = "pending" THEN [host EXCEPT ![r] = how] ELSE host
    /\ aborted' = aborted \ {job[r]}
    /\ UNCHANGED <<storeVars, slotVars, runVars, ctlVars, recVars, pos, msgVars, lifeVars>>

-----------------------------------------------------------------------------
(* handleSandboxSdkCall                                                    *)

\* Once the signal is aborted the calls that take it throw at once, the others are
\* made.  A method that does not exist is a call that fails (SdkReturned).
SdkDispatch(r) ==
    /\ up /\ sdk[r] = "sent" /\ Serves(job[r])
    /\ \E to \in IF runtime \in stopped THEN {"none", "calling"} ELSE {"calling"} :
           sdk' = [sdk EXCEPT ![r] = to]
    /\ UNCHANGED <<storeVars, slotVars, runVars, ctlVars, recVars, boxVars, prog, posted, lifeVars>>

SdkReturned(r, ok) ==
    /\ up /\ sdk[r] = "calling"
    /\ sdk' = [sdk EXCEPT ![r] = "none"]
    /\ pos' = IF ok THEN [pos EXCEPT ![r] = @ + 1] ELSE pos
    /\ UNCHANGED <<storeVars, slotVars, runVars, ctlVars, recVars, host, script, aborted, prog, posted, lifeVars>>

\* No runtime serves the job: fail it if it is running, then clean up
\* whatever holds the slot.
Disown(r, rec, rest) ==
    IF rec.state = "running"
    THEN /\ sdk' = [sdk EXCEPT ![r] = "disowned"]
         /\ q' = Append(rest, Update("sdk", r, job[r], Becomes("failed")))
         /\ UNCHANGED slotVars
    ELSE /\ sdk' = [sdk EXCEPT ![r] = "none"]
         /\ q' = rest
         /\ cleanup

SdkOrphan(r) ==
    /\ up /\ sdk[r] = "sent" /\ ~Serves(job[r])
    /\ IF cache = None
       THEN /\ sdk' = [sdk EXCEPT ![r] = "lookup"]
            /\ q' = Append(q, Load("sdk", r))
            /\ UNCHANGED slotVars
       ELSE Disown(r, cache[job[r]], q)
    /\ UNCHANGED <<store, cache, runVars, ctlVars, recVars, boxVars, prog, posted, lifeVars>>

SdkFound(r) ==
    /\ sdk[r] = "lookup" /\ Loaded("sdk", r)
    /\ cache' = store
    /\ Disown(r, store[job[r]], Tail(q))
    /\ UNCHANGED <<store, runVars, ctlVars, recVars, boxVars, prog, posted, lifeVars>>

SdkDisowned(r) ==
    /\ sdk[r] = "disowned" /\ Answered("sdk", r) /\ Settle
    /\ sdk' = [sdk EXCEPT ![r] = "none"]
    /\ q' = Tail(q)
    /\ cleanup
    /\ UNCHANGED <<runVars, ctlVars, recVars, boxVars, prog, posted, lifeVars>>

-----------------------------------------------------------------------------
(* handleSandboxProgress                                                   *)

\* mutant: the message is credited to the active job, whoever sent it
ProgReceived_credits(r) ==
    /\ up /\ prog[r] = "posted"
    /\ IF active = None
       THEN /\ prog' = [prog EXCEPT ![r] = "none"]
            /\ UNCHANGED q
       ELSE /\ prog' = [prog EXCEPT ![r] = "saving"]
            /\ q' = Append(q, Update("prog", r, active, [Keep EXCEPT !.ckpt = posted[r]]))
    /\ UNCHANGED <<store, cache, slotVars, runVars, ctlVars, recVars, boxVars, sdk, posted, lifeVars>>

ProgReceived(r) ==
    /\ up /\ prog[r] = "posted"
    /\ IF active # job[r]
       THEN /\ prog' = [prog EXCEPT ![r] = "none"]
            /\ UNCHANGED q
       ELSE /\ prog' = [prog EXCEPT ![r] = "saving"]
            /\ q' = Append(q, Update("prog", r, job[r], [Keep EXCEPT !.ckpt = posted[r]]))
    /\ UNCHANGED <<store, cache, slotVars, runVars, ctlVars, recVars, boxVars, sdk, posted, lifeVars>>

ProgSaved(r) ==
    /\ prog[r] = "saving" /\ Answered("prog", r) /\ Settle
    /\ prog' = [prog EXCEPT ![r] = "none"]
    /\ q' = Tail(q)
    /\ UNCHANGED <<slotVars, runVars, ctlVars, recVars, boxVars, sdk, posted, lifeVars>>

-----------------------------------------------------------------------------
(* The worker or the whole browser stops, and pauseInterruptedJobs         *)

\* The worker's memory goes with it: what it had begun, or had finished, is "dead".
Stops(pcs) == [t \in DOMAIN pcs |-> IF pcs[t] = "idle" THEN "idle" ELSE "dead"]

\* A prefix of the requests already sent may still take effect: since a set
\* replaces the array, what counts is which of them was the last.
Crash(browser) ==
    /\ up /\ crashes < MaxCrashes
    /\ up' = FALSE
    /\ crashes' = crashes + 1
    /\ store' \in {store} \cup {q[i].jobs : i \in {n \in DOMAIN q : q[n].op = "set"}}
    /\ q' = <<>>
    /\ cache' = None
    /\ cleanup
    /\ pc' = Stops(pc)
    /\ cpc' = Stops(cpc)
    /\ rpc' = "off"
    /\ found' = {}
    /\ IF browser
       THEN /\ script' = [r \in Runs |-> IF script[r] = "running" THEN "killed" ELSE script[r]]
            /\ host' = [r \in Runs |-> IF host[r] \in {"sent", "pending"} THEN "failed" ELSE host[r]]
            /\ sdk' = [r \in Runs |-> "none"]
            /\ prog' = [r \in Runs |-> "none"]
            /\ aborted' = {}
       ELSE /\ host' = [r \in Runs |-> IF host[r] = "sent" THEN "failed" ELSE host[r]]
            /\ sdk' = [r \in Runs |-> IF sdk[r] = "sent" THEN "sent" ELSE "none"]
            /\ prog' = [r \in Runs |-> IF prog[r] = "posted" THEN "posted" ELSE "none"]
            /\ UNCHANGED <<script, aborted>>
    /\ UNCHANGED <<job, base, ckind, cjob, pos, posted>>

\* Any event wakes the worker; its module code calls pauseInterruptedJobs.  The
\* second call, from onStartup after a start of the browser, is left out: it comes
\* as the worker starts, so each of its requests follows one of the first call's.
SwStart ==
    /\ ~up
    /\ up' = TRUE
    /\ rpc' = "first"
    /\ q' = <<Load("rec", None)>>
    /\ UNCHANGED <<store, cache, slotVars, runVars, ctlVars, found, boxVars, msgVars, crashes>>

RecFirst ==
    /\ rpc = "first" /\ Loaded("rec", None)
    /\ found' = {j \in Jobs : store[j].state = "running"}
    /\ IF found' = {}
       THEN rpc' = "done" /\ q' = Tail(q)
       ELSE rpc' = "second" /\ q' = Append(Tail(q), Load("rec", None))
    /\ UNCHANGED <<store, cache, slotVars, runVars, ctlVars, boxVars, msgVars, lifeVars>>

\* mutant: `changed` is never set
RecSecond_forgets ==
    /\ rpc = "second" /\ Loaded("rec", None)
    /\ rpc' = "done" /\ q' = Tail(q)
    /\ UNCHANGED <<store, cache, slotVars, runVars, ctlVars, found, boxVars, msgVars, lifeVars>>

RecSecond ==
    /\ rpc = "second" /\ Loaded("rec", None)
    /\ LET hit == {j \in found : store[j].state = "running"}
           js  == [j \in Jobs |-> IF j \in hit THEN Assign(store[j], Becomes("paused"))
                                               ELSE store[j]]
       IN  IF hit = {}
           THEN rpc' = "done" /\ q' = Tail(q)
           ELSE rpc' = "write" /\ q' = Append(Tail(q), Save("rec", None, js))
    /\ UNCHANGED <<store, cache, slotVars, runVars, ctlVars, found, boxVars, msgVars, lifeVars>>

\* storage.onChanged refreshes cachedJobs after a set that bypasses saveJobs.
RecWritten ==
    /\ rpc = "write" /\ Answered("rec", None) /\ Settle
    /\ rpc' = "done"
    /\ q' = Tail(q)
    /\ UNCHANGED <<slotVars, runVars, ctlVars, found, boxVars, msgVars, lifeVars>>

-----------------------------------------------------------------------------
RunStep(r) ==
    \/ RunFound(r) \/ RunCreated(r) \/ RunMarked(r) \/ RunBegun(r)
    \/ RunAuditing(r) \/ RunLogged(r) \/ RunOpened(r)
    \/ RunCompileFailed(r) \/ RunCompiled(r) \/ RunReturned(r)
    \/ RunThrew(r) \/ RunFlushed(r) \/ RunFinished(r) \/ RunReported(r)

CtlStep(c) == CtlAborted(c) \/ CtlSaved(c) \/ HostAbort(c)

SdkStep(r) ==
    \/ SdkDispatch(r) \/ SdkOrphan(r) \/ SdkFound(r) \/ SdkDisowned(r)
    \/ \E ok \in BOOLEAN : SdkReturned(r, ok)

ProgStep(r) == ProgReceived(r) \/ ProgSaved(r)
RecStep == SwStart \/ RecFirst \/ RecSecond \/ RecWritten
HostStep(r) == HostExecute(r) \/ HostUnavailable(r) \/ HostTimeout(r)

ScriptStep(r) ==
    \/ ScriptCall(r) \/ ScriptProgress(r)
    \/ \E how \in {"returned", "threw"} : ScriptEnd(r, how)

UserStep ==
    \/ \E r \in Runs, j \in Jobs : StartNew(r, j) \/ StartResume(r, j) \/ StartLookup(r, j)
    \/ \E c \in Ctls : \E kind \in {"pause", "cancel"} : PauseOrCancel(c, kind)
    \/ \E c \in Ctls, j \in Jobs : CancelById(c, j)

Next ==
    \/ UserStep
    \/ Fetch
    \/ \E r \in Runs : RunStep(r) \/ HostStep(r) \/ ScriptStep(r) \/ SdkStep(r) \/ ProgStep(r)
    \/ \E c \in Ctls : CtlStep(c)
    \/ RecStep
    \/ \E browser \in BOOLEAN : Crash(browser)

Spec == Init /\ [][Next]_vars

\* What the platform keeps going: storage answers, the event loop resumes
\* every task whose await was answered, messages between the worker and the
\* offscreen document arrive, the pending execute request times out, and a
\* stopped worker is woken (its panel polls it).  A script may hang for ever,
\* and nobody is obliged to ask for anything.
Fairness ==
    /\ WF_vars(Fetch) /\ WF_vars(RecStep)
    /\ \A r \in Runs : WF_vars(RunStep(r)) /\ WF_vars(HostStep(r))
    /\ \A r \in Runs : WF_vars(SdkStep(r)) /\ WF_vars(ProgStep(r))
    /\ \A c \in Ctls : WF_vars(CtlStep(c))

FairSpec == Spec /\ Fairness

-----------------------------------------------------------------------------
(* Properties                                                              *)

TypeOK ==
    /\ store \in JobArray
    /\ q \in Seq(Request)
    /\ cache \in JobArray \cup {None}
    /\ active \in Jobs \cup {None}
    /\ runtime \in Runs \cup {None}
    /\ stopped \subseteq Runs
    /\ pc \in [Runs -> PCs]
    /\ job \in [Runs -> Jobs \cup {None}]
    /\ base \in [Runs -> Record]
    /\ cpc \in [Ctls -> CPCs]
    /\ ckind \in [Ctls -> {"pause", "cancel"}]
    /\ cjob \in [Ctls -> Jobs \cup {None}]
    /\ rpc \in {"off", "first", "second", "write", "done"}
    /\ found \subseteq Jobs
    /\ host \in [Runs -> {"idle", "sent", "pending", "returned", "threw", "failed"}]
    /\ script \in [Runs -> {"none", "running", "returned", "threw", "killed"}]
    /\ pos \in [Runs -> Nat]
    /\ aborted \subseteq Jobs
    /\ sdk \in [Runs -> {"none", "sent", "lookup", "disowned", "calling"}]
    /\ prog \in [Runs -> {"none", "posted", "saving"}]
    /\ posted \in [Runs -> Nat]
    /\ up \in BOOLEAN
    /\ crashes \in Nat

\* What a task works on exists, and the executor has read the jobs when it
\* starts.  The rest of the induction behind TypeOK.
TasksOK ==
    /\ \A r \in Runs : pc[r] # "idle" => job[r] \in Jobs
    /\ \A r \in Runs : pc[r] = "announce" => cache \in JobArray
    /\ \A c \in Ctls : cpc[c] # "idle" => cjob[c] \in Jobs

\* From the moment swStartJob stores activeJobId until its run is over.
Holding == Live \ {"lookup", "create"}

\* The job slot is never left taken by a job nobody executes: if activeJobId
\* names a job, some run of that job is still on its way to a cleanup().
\* Otherwise every later start would be refused until the worker dies.
SlotHasOwner ==
    active # None => \E r \in Runs : job[r] = active /\ pc[r] \in Holding

\* A job is recorded as completed or partial only on the strength of a script
\* of that same job that ran to its end and whose results were stored,
\* whatever was aborted, timed out, resumed or restarted on the way.
CompletedIsBacked ==
    \A j \in Jobs : store[j].state \in {"completed", "partial"} =>
        \E r \in store[j].saved : job[r] = j /\ script[r] = "returned"

\* A stored checkpoint was posted by a script of the same job: a late or
\* orphaned progress message never lands in the job that holds the slot now.
CheckpointBacked ==
    \A j \in Jobs : store[j].ckpt > 0 =>
        \E r \in Runs : job[r] = j /\ posted[r] >= store[j].ckpt

Final == {"completed", "partial", "cancelled"}

\* A copy of the array on its way to storage with another record of the job.
Older(req, j) == req.op = "set" /\ req.jobs[j] # store[j]

\* The job is finished, and neither a task of the worker nor an update on its
\* way is still about it; a resume request may be looking it up, and other
\* tasks may be about to write back whatever copies of the array they read.
Settled(j) ==
    /\ store[j].state \in Final
    /\ \A i \in DOMAIN q : q[i].op \in {"create", "update"} => q[i].job # j
    /\ cache = None \/ cache[j] = store[j]
    /\ active # j
    /\ \E r \in Runs : job[r] = j /\ pc[r] # "idle"
    /\ \A r \in Runs : job[r] = j => pc[r] \notin Live \ {"lookup"}
    /\ \A c \in Ctls : cjob[c] = j => cpc[c] \notin Busy

\* One of the copies that were on their way replaces the array.
Overwritten(j) == \E i \in DOMAIN q : Older(q[i], j) /\ store' = q[i].jobs

\* The job stays as it is and at rest, and nobody sends an older copy of it
\* that was not on its way before.
LeftAlone(j) ==
    /\ Settled(j)' /\ store'[j] = store[j]
    /\ \A i \in DOMAIN q' : Older(q'[i], j) => \E n \in DOMAIN q : q'[i] = q[n]

\* swCancelJobById looks at no state and may overwrite a finished job.
FinishedKept ==
    \A j \in Jobs : Settled(j) =>
        \/ LeftAlone(j)
        \/ Overwritten(j)
        \/ \E c \in Ctls : CancelById(c, j)

\* What was stored of a finished job at rest is changed only by a request to
\* cancel it or by a copy of the array that was read earlier and was already on
\* its way when the job came to rest: no resume request, recovery, script that
\* outlived its run or stop of the worker brings it back, or reads it and then
\* writes another.
FinishedStays == [][FinishedKept]_vars

\* In this life of the worker a request has got as far as starting or resuming
\* the job: one that looks it up, creates it or was refused has not.
Started(j) == \E r \in Runs : job[r] = j /\ pc[r] \in Holding \cup {"done"}

\* When the recovery of a restarted worker ends, a job is in the state "running"
\* only if somebody has started or resumed it since.
RecoveryEnds ==
    rpc # "done" /\ rpc' = "done" => \A j \in Jobs : store'[j].state = "running" => Started(j)'

\* The recovery leaves no interrupted job behind, whatever is asked of the worker
\* meanwhile and whichever stale copies of the array are on their way.
RecoveryPauses == [][RecoveryEnds]_vars

\* Every start, resume, pause and cancel request ends, even if the script
\* hangs, the offscreen document is gone or another request overtakes it.
RequestsEnd ==
    /\ \A r \in Runs : pc[r] \in Live ~> pc[r] \notin Live
    /\ \A c \in Ctls : cpc[c] \in Busy ~> cpc[c] \notin Busy

\* The slot is always freed again.
SlotFreed == active # None ~> active = None

-----------------------------------------------------------------------------
(* What the documentation and the comments promise and the code does not   *)
(* keep: each is violated by a run of its own.                             *)

\* "Pause/resume -- user-initiated or automatic on tab close. State is
\* persisted" (README.md:365); "Abort from pause/cancel -- they set state
\* themselves" (sw-job-executor.ts:717): a job paused while its script was
\* executing does not turn into a failed one by itself.
PausedStaysPaused ==
    [][\A r \in Runs : script[r] = "running" /\ store[job[r]].state = "paused"
          => store'[job[r]].state # "failed"]_vars

\* "Checkpoints enable resume after pause or restart" (README.md:550): what a
\* script has checkpointed is not taken back.
CheckpointKept ==
    [][\A j \in Jobs : store'[j].ckpt >= store[j].ckpt]_vars

\* "If the worker or browser stopped while a job was running, mark it as paused so
\* the side panel can offer to resume" (service-worker.ts:76-77).  Not so: one
\* who creates another job, or writes to it, may have read the array before the
\* recovery wrote it, and puts "running" back.
OrphansArePaused ==
    up /\ rpc = "done" => \A j \in Jobs : store[j].state = "running" => Started(j)

\* "Update fields on an existing job." (job-store.ts:252).  Not only: every
\* update writes all jobs back as they were when it read them, so a job whose end
\* was stored meanwhile loses it.
EndsStay ==
    [][\A j \in Jobs : Settled(j) /\ ~(\E c \in Ctls : CancelById(c, j))
           => store'[j] = store[j]]_vars
=============================================================================
