------------------------- MODULE JobExecutorProofs -------------------------
(* What holds of JobExecutor for every number of jobs, requests, calls and *)
(* crashes: who has the slot and how a job ends; and what the records say, *)
(* who stands behind an outcome or a checkpoint, and what the recovery     *)
(* leaves of the interrupted jobs.                                         *)
EXTENDS JobExecutor, SequenceTheorems, TLAPS

Typing == TypeOK /\ TasksOK

-----------------------------------------------------------------------------
(* The operators that build records and requests                           *)

\* Patches made of a state change only, and the three others the code uses.
LEMMA PatchesTyped ==
    /\ \A s \in States : Becomes(s) \in Patch
    /\ [Keep EXCEPT !.audited = TRUE] \in Patch
    /\ \A n \in Nat : [Keep EXCEPT !.ckpt = n] \in Patch
    /\ \A s \in States, d \in SUBSET Runs : [Keep EXCEPT !.state = s, !.saved = d] \in Patch
    /\ Keep \in Patch
  BY DEF Becomes, Keep, Patch

\* Object.assign keeps a record a record.
LEMMA AssignTyped ==
    ASSUME NEW rec \in Record, NEW p \in Patch
    PROVE  Assign(rec, p) \in Record
  BY DEF Assign, Pick, Record, Patch

LEMMA RequestsTyped ==
    ASSUME NEW k \in Kinds, NEW i \in Runs \cup Ctls \cup {None}
    PROVE  /\ \A j \in Jobs : Create(k, i, j) \in Request
           /\ \A j \in Jobs \cup {None}, p \in Patch : Update(k, i, j, p) \in Request
           /\ Load(k, i) \in Request
           /\ \A js \in JobArray : Save(k, i, js) \in Request
  <1>1. ASSUME NEW j \in Jobs PROVE Create(k, i, j) \in Request
    <2>1. Becomes("paused") \in Patch
      BY PatchesTyped DEF States
    <2> QED BY <2>1 DEF Create, Request, Ops
  <1>2. ASSUME NEW j \in Jobs \cup {None}, NEW p \in Patch PROVE Update(k, i, j, p) \in Request
    BY DEF Update, Request, Ops
  <1>3. Load(k, i) \in Request
    BY PatchesTyped DEF Load, Request, Ops
  <1>4. ASSUME NEW js \in JobArray PROVE Save(k, i, js) \in Request
    BY PatchesTyped DEF Save, Request, Ops
  <1> QED BY <1>1, <1>2, <1>3, <1>4

\* The oldest request and what is left without it.
LEMMA QueueTyped ==
    ASSUME TypeOK, q # <<>>
    PROVE  Head(q) \in Request /\ Tail(q) \in Seq(Request)
  BY HeadTailProperties DEF TypeOK

LEMMA PendingTyped ==
    ASSUME Typing
    PROVE  q \in Seq(Request)
  BY DEF Typing, TypeOK

LEMMA EnqueueTyped ==
    ASSUME NEW s \in Seq(Request), NEW req \in Request
    PROVE  Append(s, req) \in Seq(Request)
  BY AppendProperties

\* The end of an updateJob leaves a job array in storage and in the cache.
LEMMA SettleTyped ==
    ASSUME TypeOK, q # <<>>, Settle
    PROVE  store' \in JobArray /\ cache' \in JobArray
  <1>1. Head(q) \in Request
    BY QueueTyped
  <1>2. Head(q).op = "set" => Head(q).jobs \in JobArray
    BY <1>1 DEF Request
  <1> QED BY <1>2 DEF Settle, TypeOK

-----------------------------------------------------------------------------
(* Type correctness                                                        *)

\* Everything but storage and its queue: enough for the steps that send
\* nothing.
USE DEF storeVars, slotVars, runVars, ctlVars, recVars, boxVars, msgVars, lifeVars

LEMMA InitTyped == Init => Typing
  <1>1. NoRecord \in Record
    BY DEF NoRecord, Record, States
  <1>2. << >> \in Seq(Request)
    OBVIOUS
  <1> QED BY <1>1, <1>2 DEF Init, Typing, TypeOK, TasksOK, JobArray, PCs, CPCs

\* Starting a job, or resuming one.
LEMMA StartsTyped ==
    ASSUME Typing, NEW r \in Runs, NEW j \in Jobs,
           StartNew(r, j) \/ StartResume(r, j) \/ StartLookup(r, j)
    PROVE  Typing'
  <1>1. CASE StartNew(r, j)
    <2>1. Create("run", r, j) \in Request
      BY RequestsTyped DEF Kinds
    <2>2. q' \in Seq(Request)
      BY <1>1, <2>1, EnqueueTyped, PendingTyped DEF StartNew
    <2> QED BY <1>1, <2>2 DEF Typing, TypeOK, TasksOK, StartNew, PCs, Live
  <1>2. CASE StartResume(r, j)
    <2>1. Update("run", r, j, Becomes("running")) \in Request
      BY RequestsTyped, PatchesTyped DEF Kinds, States
    <2>2. q' \in Seq(Request)
      BY <1>2, <2>1, EnqueueTyped, PendingTyped DEF StartResume
    <2> QED BY <1>2, <2>2 DEF Typing, TypeOK, TasksOK, StartResume, PCs, Live
  <1>3. CASE StartLookup(r, j)
    <2>1. Load("run", r) \in Request
      BY RequestsTyped DEF Kinds
    <2>2. q' \in Seq(Request)
      BY <1>3, <2>1, EnqueueTyped, PendingTyped DEF StartLookup
    <2> QED BY <1>3, <2>2 DEF Typing, TypeOK, TasksOK, StartLookup, PCs, Live
  <1> QED BY <1>1, <1>2, <1>3

LEMMA FetchTyped ==
    ASSUME Typing, Fetch
    PROVE  Typing'
  <1> DEFINE req == Head(q)
             js == [store EXCEPT ![req.job] = Assign(@, req.patch)]
  <1>1. req \in Request /\ Tail(q) \in Seq(Request)
    BY QueueTyped DEF Fetch, Typing
  <1>2. req.kind \in Kinds /\ req.id \in Runs \cup Ctls \cup {None} /\ req.patch \in Patch
    BY <1>1 DEF Request
  <1>3. js \in JobArray
    BY <1>2, AssignTyped DEF Typing, TypeOK, JobArray
  <1>4. Save(req.kind, req.id, js) \in Request
    BY <1>2, <1>3, RequestsTyped
  <1>5. q' \in Seq(Request) /\ cache' = js
    BY <1>1, <1>4, EnqueueTyped DEF Fetch
  <1> QED BY <1>3, <1>5 DEF Typing, TypeOK, TasksOK, Fetch, JobArray

\* swStartJob after its first await.
LEMMA SwStartJobTyped ==
    ASSUME Typing, NEW r \in Runs, RunFound(r) \/ RunCreated(r) \/ RunMarked(r)
    PROVE  Typing'
  <1>1. q # <<>>
    BY DEF RunFound, RunCreated, RunMarked, Loaded, Answered, Mine
  <1>2. Tail(q) \in Seq(Request)
    BY <1>1, QueueTyped DEF Typing
  <1>3. job[r] \in Jobs
    BY DEF RunFound, RunCreated, RunMarked, Typing, TasksOK
  <1>4. Append(Tail(q), Update("run", r, job[r], Becomes("running"))) \in Seq(Request)
    BY <1>2, <1>3, RequestsTyped, PatchesTyped, EnqueueTyped DEF Kinds, States
  <1>5. CASE RunFound(r)
    BY <1>2, <1>3, <1>4, <1>5 DEF Typing, TypeOK, TasksOK, RunFound, PCs, Live, JobArray
  <1>6. CASE RunCreated(r)
    <2>1. store' \in JobArray /\ cache' \in JobArray
      BY <1>1, <1>6, SettleTyped DEF RunCreated, Typing
    <2> QED BY <1>3, <1>4, <1>6, <2>1 DEF Typing, TypeOK, TasksOK, RunCreated, PCs, Live
  <1>7. CASE RunMarked(r)
    <2>1. store' \in JobArray /\ cache' \in JobArray
      BY <1>1, <1>7, SettleTyped DEF RunMarked, Typing
    <2> QED BY <1>2, <1>7, <2>1 DEF Typing, TypeOK, TasksOK, RunMarked, PCs, Live
  <1> QED BY <1>5, <1>6, <1>7

\* executeInSw up to the moment the script is handed to the offscreen document.
LEMMA OpeningTyped ==
    ASSUME Typing, NEW r \in Runs,
           RunBegun(r) \/ RunAuditing(r) \/ RunLogged(r)
           \/ RunOpened(r) \/ RunCompileFailed(r) \/ RunCompiled(r)
    PROVE  Typing'
  <1>1. job[r] \in Jobs
    BY DEF RunBegun, RunAuditing, RunLogged, RunOpened, RunCompileFailed, RunCompiled,
       Typing, TasksOK
  <1>2. CASE RunBegun(r)
    <2>1. cache[job[r]] \in Record
      BY <1>1, <1>2 DEF RunBegun, Typing, TasksOK, JobArray
    <2>2. Update("run", r, job[r], Becomes("running")) \in Request
      BY <1>1, RequestsTyped, PatchesTyped DEF Kinds, States
    <2>3. q' = q \/ q' = Append(q, Update("run", r, job[r], Becomes("running")))
      BY <1>2 DEF RunBegun
    <2>4. q' \in Seq(Request)
      BY <2>2, <2>3, EnqueueTyped, PendingTyped
    <2> QED BY <1>2, <2>1, <2>4 DEF Typing, TypeOK, TasksOK, RunBegun, cleanup, PCs, Live
  <1>3. CASE RunAuditing(r)
    <2>1. store' \in JobArray /\ cache' \in JobArray /\ Tail(q) \in Seq(Request)
      BY <1>3, SettleTyped, QueueTyped DEF RunAuditing, Answered, Mine, Typing
    <2> QED BY <1>3, <2>1 DEF Typing, TypeOK, TasksOK, RunAuditing, PCs, Live
  <1>7. CASE RunLogged(r)
    <2>1. Update("run", r, job[r], [Keep EXCEPT !.audited = TRUE]) \in Request
      BY <1>1, RequestsTyped, PatchesTyped DEF Kinds
    <2>2. q' \in Seq(Request)
      BY <1>7, <2>1, EnqueueTyped, PendingTyped DEF RunLogged
    <2> QED BY <1>7, <2>2 DEF Typing, TypeOK, TasksOK, RunLogged, PCs, Live
  <1>4. CASE RunOpened(r)
    <2>1. store' \in JobArray /\ cache' \in JobArray /\ Tail(q) \in Seq(Request)
      BY <1>4, SettleTyped, QueueTyped DEF RunOpened, Answered, Mine, Typing
    <2> QED BY <1>4, <2>1 DEF Typing, TypeOK, TasksOK, RunOpened, PCs, Live
  <1>5. CASE RunCompileFailed(r)
    <2>1. Update("run", r, job[r], Becomes("failed")) \in Request
      BY <1>1, RequestsTyped, PatchesTyped DEF Kinds, States
    <2>2. q' \in Seq(Request)
      BY <1>5, <2>1, EnqueueTyped, PendingTyped DEF RunCompileFailed
    <2> QED BY <1>5, <2>2 DEF Typing, TypeOK, TasksOK, RunCompileFailed, PCs, Live
  <1>6. CASE RunCompiled(r)
    BY <1>6 DEF Typing, TypeOK, TasksOK, RunCompiled, PCs, Live
  <1> QED BY <1>2, <1>3, <1>4, <1>5, <1>6, <1>7

\* The patch that stores a run's results with the state it ends in.
LEMMA MergedTyped ==
    ASSUME TypeOK, NEW r \in Runs, NEW s \in States, job[r] \in Jobs
    PROVE  Update("run", r, job[r], Merged(r, s)) \in Request
  <1>1. base[r].saved \cup {r} \in SUBSET Runs
    BY DEF TypeOK, Record
  <1>2. Merged(r, s) \in Patch
    BY <1>1, PatchesTyped DEF Merged
  <1> QED BY <1>2, RequestsTyped DEF Kinds

\* The end of the catch branch.
LEMMA ConcludeTyped ==
    ASSUME Typing, NEW r \in Runs, NEW rest \in Seq(Request), Conclude(r, rest),
           job[r] \in Jobs
    PROVE  /\ q' \in Seq(Request)
           /\ pc' = [pc EXCEPT ![r] = "done"] \/ pc' = [pc EXCEPT ![r] = "finish"]
  <1>1. Update("run", r, job[r], Merged(r, "failed")) \in Request
    BY MergedTyped DEF Typing, States
  <1> QED BY <1>1, EnqueueTyped DEF Conclude

\* executeInSw from the answer of the offscreen document to its end.
LEMMA ClosingTyped ==
    ASSUME Typing, NEW r \in Runs,
           RunReturned(r) \/ RunThrew(r) \/ RunFlushed(r) \/ RunFinished(r) \/ RunReported(r)
    PROVE  Typing'
  <1>1. job[r] \in Jobs
    BY DEF RunReturned, RunThrew, RunFlushed, RunFinished, RunReported, Typing, TasksOK
  <1>2. CASE RunReturned(r)
    <2>1. \A s \in Outcomes : Update("run", r, job[r], Merged(r, s)) \in Request
      BY <1>1, MergedTyped DEF Typing, Outcomes, States
    <2>2. q' = q \/ \E s \in Outcomes : q' = Append(q, Update("run", r, job[r], Merged(r, s)))
      BY <1>2 DEF RunReturned
    <2>3. q' \in Seq(Request)
      BY <2>1, <2>2, EnqueueTyped, PendingTyped
    <2>4. pc' = [pc EXCEPT ![r] = "done"] \/ pc' = [pc EXCEPT ![r] = "finish"]
      BY <1>2 DEF RunReturned
    <2>5. UNCHANGED <<store, cache, slotVars, job, base, ctlVars, recVars, boxVars, msgVars, lifeVars>>
      BY <1>2 DEF RunReturned
    <2> QED BY <1>1, <2>3, <2>4, <2>5 DEF Typing, TypeOK, TasksOK, PCs, Live
  <1>3. CASE RunThrew(r)
    <2>1. base[r].ckpt \in Nat
      BY DEF Typing, TypeOK, Record
    <2>2. Update("run", r, job[r], [Keep EXCEPT !.ckpt = base[r].ckpt]) \in Request
      BY <1>1, <2>1, RequestsTyped, PatchesTyped DEF Kinds
    <2>3. /\ q' \in Seq(Request)
          /\ \E p \in {"done", "finish", "flush"} : pc' = [pc EXCEPT ![r] = p]
      <3>1. CASE Serves(job[r])
        <4>1. /\ pc' = [pc EXCEPT ![r] = "flush"]
              /\ q' = Append(q, Update("run", r, job[r], [Keep EXCEPT !.ckpt = base[r].ckpt]))
          BY <1>3, <3>1 DEF RunThrew
        <4>2. q' \in Seq(Request)
          BY <2>2, <4>1, EnqueueTyped, PendingTyped
        <4> QED BY <4>1, <4>2
      <3>2. CASE ~Serves(job[r])
        BY <1>1, <1>3, <3>2, ConcludeTyped DEF Typing, TypeOK, RunThrew
      <3> QED BY <3>1, <3>2
    <2> QED BY <1>1, <1>3, <2>3 DEF Typing, TypeOK, TasksOK, RunThrew, PCs, Live
  <1>4. CASE RunFlushed(r)
    <2>1. store' \in JobArray /\ cache' \in JobArray /\ Tail(q) \in Seq(Request)
      BY <1>4, SettleTyped, QueueTyped DEF RunFlushed, Answered, Mine, Typing
    <2>2. /\ q' \in Seq(Request)
          /\ pc' = [pc EXCEPT ![r] = "done"] \/ pc' = [pc EXCEPT ![r] = "finish"]
      BY <1>1, <1>4, <2>1, ConcludeTyped DEF RunFlushed
    <2> QED BY <1>1, <1>4, <2>1, <2>2 DEF Typing, TypeOK, TasksOK, RunFlushed, PCs, Live
  <1>5. CASE RunFinished(r)
    <2>1. store' \in JobArray /\ cache' \in JobArray /\ Tail(q) \in Seq(Request)
      BY <1>5, SettleTyped, QueueTyped DEF RunFinished, Answered, Mine, Typing
    <2> QED BY <1>5, <2>1 DEF Typing, TypeOK, TasksOK, RunFinished, PCs, Live
  <1>6. CASE RunReported(r)
    BY <1>6 DEF Typing, TypeOK, TasksOK, RunReported, cleanup, PCs, Live
  <1> QED BY <1>2, <1>3, <1>4, <1>5, <1>6

\* Pause and cancel requests.
LEMMA ControlsTyped ==
    ASSUME Typing, NEW c \in Ctls,
           \/ \E kind \in {"pause", "cancel"} : PauseOrCancel(c, kind)
           \/ \E j \in Jobs : CancelById(c, j)
           \/ CtlStep(c)
    PROVE  Typing'
  <1>1. CASE \E kind \in {"pause", "cancel"} : PauseOrCancel(c, kind)
    BY <1>1 DEF Typing, TypeOK, TasksOK, PauseOrCancel, CPCs
  <1>2. CASE \E j \in Jobs : CancelById(c, j)
    <2>1. PICK j \in Jobs : CancelById(c, j)
      BY <1>2
    <2>2. Update("ctl", c, j, Becomes("cancelled")) \in Request
      BY RequestsTyped, PatchesTyped DEF Kinds, States
    <2>3. q' \in Seq(Request)
      BY <2>1, <2>2, EnqueueTyped, PendingTyped DEF CancelById
    <2> QED BY <2>1, <2>3 DEF Typing, TypeOK, TasksOK, CancelById, CPCs
  <1>3. CASE CtlAborted(c)
    <2>1. cjob[c] \in Jobs
      BY <1>3 DEF CtlAborted, Typing, TasksOK
    <2>2. \A s \in {"paused", "cancelled"} : Update("ctl", c, cjob[c], Becomes(s)) \in Request
      BY <2>1, RequestsTyped, PatchesTyped DEF Kinds, States
    <2>3. q' = q \/ \E s \in {"paused", "cancelled"} :
                        q' = Append(q, Update("ctl", c, cjob[c], Becomes(s)))
      BY <1>3 DEF CtlAborted
    <2>4. q' \in Seq(Request)
      BY <2>2, <2>3, EnqueueTyped, PendingTyped
    <2>5. cpc' = [cpc EXCEPT ![c] = "save"] \/ cpc' = [cpc EXCEPT ![c] = "done"]
      BY <1>3 DEF CtlAborted
    <2>6. UNCHANGED slotVars \/ cleanup
      BY <1>3 DEF CtlAborted
    <2>7. UNCHANGED <<store, cache, runVars, ckind, cjob, recVars, boxVars, msgVars, lifeVars>>
      BY <1>3 DEF CtlAborted
    <2> QED BY <2>1, <2>4, <2>5, <2>6, <2>7 DEF Typing, TypeOK, TasksOK, cleanup, CPCs
  <1>4. CASE CtlSaved(c)
    <2>1. store' \in JobArray /\ cache' \in JobArray /\ Tail(q) \in Seq(Request)
      BY <1>4, SettleTyped, QueueTyped DEF CtlSaved, Answered, Mine, Typing
    <2>2. UNCHANGED slotVars \/ cleanup
      BY <1>4 DEF CtlSaved
    <2> QED BY <1>4, <2>1, <2>2 DEF Typing, TypeOK, TasksOK, CtlSaved, cleanup, CPCs
  <1>5. CASE HostAbort(c)
    BY <1>5 DEF Typing, TypeOK, TasksOK, HostAbort, CPCs
  <1> QED BY <1>1, <1>2, <1>3, <1>4, <1>5 DEF CtlStep

\* The offscreen document and the script send nothing to storage.
LEMMA SandboxTyped ==
    ASSUME Typing, NEW r \in Runs, HostStep(r) \/ ScriptStep(r)
    PROVE  Typing'
  <1>1. CASE HostExecute(r)
    <2>1. base[r].ckpt \in Nat
      BY DEF Typing, TypeOK, Record
    <2> QED BY <1>1, <2>1 DEF Typing, TypeOK, TasksOK, HostExecute
  <1>2. CASE HostUnavailable(r)
    BY <1>2 DEF Typing, TypeOK, TasksOK, HostUnavailable
  <1>3. CASE HostTimeout(r)
    BY <1>3 DEF Typing, TypeOK, TasksOK, HostTimeout
  <1>4. CASE ScriptCall(r)
    BY <1>4 DEF Typing, TypeOK, TasksOK, ScriptCall
  <1>5. CASE ScriptProgress(r)
    BY <1>5 DEF Typing, TypeOK, TasksOK, ScriptProgress
  <1>6. ASSUME NEW how \in {"returned", "threw"}, ScriptEnd(r, how) PROVE Typing'
    BY <1>6 DEF Typing, TypeOK, TasksOK, ScriptEnd
  <1> QED BY <1>1, <1>2, <1>3, <1>4, <1>5, <1>6 DEF HostStep, ScriptStep

\* What Disown sends and leaves behind.
LEMMA DisownTyped ==
    ASSUME Typing, NEW r \in Runs, NEW rec, NEW rest \in Seq(Request), Disown(r, rec, rest)
    PROVE  /\ q' \in Seq(Request)
           /\ sdk' \in [Runs -> {"none", "sent", "lookup", "disowned", "calling"}]
           /\ UNCHANGED slotVars \/ cleanup
  <1>1. Update("sdk", r, job[r], Becomes("failed")) \in Request
    BY RequestsTyped, PatchesTyped DEF Kinds, States, Typing, TypeOK
  <1>2. q' = rest \/ q' = Append(rest, Update("sdk", r, job[r], Becomes("failed")))
    BY DEF Disown
  <1>3. q' \in Seq(Request)
    BY <1>1, <1>2, EnqueueTyped
  <1>4. sdk' = [sdk EXCEPT ![r] = "disowned"] \/ sdk' = [sdk EXCEPT ![r] = "none"]
    BY DEF Disown
  <1>5. UNCHANGED slotVars \/ cleanup
    BY DEF Disown
  <1> QED BY <1>3, <1>4, <1>5 DEF Typing, TypeOK

LEMMA SdkTyped ==
    ASSUME Typing, NEW r \in Runs, SdkStep(r)
    PROVE  Typing'
  <1>1. CASE SdkDispatch(r)
    BY <1>1 DEF Typing, TypeOK, TasksOK, SdkDispatch
  <1>2. CASE SdkOrphan(r)
    <2>1. /\ q' \in Seq(Request)
          /\ sdk' \in [Runs -> {"none", "sent", "lookup", "disowned", "calling"}]
          /\ UNCHANGED slotVars \/ cleanup
      <3>1. CASE cache = None
        <4>1. Load("sdk", r) \in Request
          BY RequestsTyped DEF Kinds
        <4>2. /\ sdk' = [sdk EXCEPT ![r] = "lookup"]
              /\ q' = Append(q, Load("sdk", r))
              /\ UNCHANGED slotVars
          BY <1>2, <3>1 DEF SdkOrphan
        <4>3. q' \in Seq(Request)
          BY <4>1, <4>2, EnqueueTyped, PendingTyped
        <4> QED BY <4>2, <4>3 DEF Typing, TypeOK
      <3>2. CASE cache # None
        <4>1. Disown(r, cache[job[r]], q) /\ q \in Seq(Request)
          BY <1>2, <3>2 DEF SdkOrphan, Typing, TypeOK
        <4> QED BY <4>1, DisownTyped
      <3> QED BY <3>1, <3>2
    <2>2. UNCHANGED <<store, cache, runVars, ctlVars, recVars, boxVars, prog, posted, lifeVars>>
      BY <1>2 DEF SdkOrphan
    <2> QED BY <2>1, <2>2 DEF Typing, TypeOK, TasksOK, cleanup
  <1>3. CASE SdkFound(r)
    <2>1. Tail(q) \in Seq(Request)
      BY <1>3, QueueTyped DEF SdkFound, Loaded, Mine, Typing
    <2>2. Disown(r, store[job[r]], Tail(q))
      BY <1>3 DEF SdkFound
    <2>3. /\ cache' = store
          /\ UNCHANGED <<store, runVars, ctlVars, recVars, boxVars, prog, posted, lifeVars>>
      BY <1>3 DEF SdkFound
    <2>4. /\ q' \in Seq(Request)
          /\ sdk' \in [Runs -> {"none", "sent", "lookup", "disowned", "calling"}]
          /\ UNCHANGED slotVars \/ cleanup
      BY <2>1, <2>2, DisownTyped
    <2> QED BY <2>3, <2>4 DEF Typing, TypeOK, TasksOK, cleanup
  <1>4. CASE SdkDisowned(r)
    <2>1. store' \in JobArray /\ cache' \in JobArray /\ Tail(q) \in Seq(Request)
      BY <1>4, SettleTyped, QueueTyped DEF SdkDisowned, Answered, Mine, Typing
    <2> QED BY <1>4, <2>1 DEF Typing, TypeOK, TasksOK, SdkDisowned, cleanup
  <1>5. ASSUME NEW ok \in BOOLEAN, SdkReturned(r, ok) PROVE Typing'
    BY <1>5 DEF Typing, TypeOK, TasksOK, SdkReturned
  <1> QED BY <1>1, <1>2, <1>3, <1>4, <1>5 DEF SdkStep

LEMMA ProgTyped ==
    ASSUME Typing, NEW r \in Runs, ProgStep(r)
    PROVE  Typing'
  <1>1. CASE ProgReceived(r)
    <2>1. posted[r] \in Nat /\ job[r] \in Jobs \cup {None}
      BY DEF Typing, TypeOK
    <2> DEFINE req == Update("prog", r, job[r], [Keep EXCEPT !.ckpt = posted[r]])
    <2>2. req \in Request
      BY <2>1, RequestsTyped, PatchesTyped DEF Kinds
    <2>3. q' = q \/ q' = Append(q, req)
      BY <1>1 DEF ProgReceived
    <2>4. q \in Seq(Request) /\ Append(q, req) \in Seq(Request)
      BY <2>2, EnqueueTyped, PendingTyped
    <2>5. q' \in Seq(Request)
      BY <2>3, <2>4
    <2> QED BY <1>1, <2>5 DEF Typing, TypeOK, TasksOK, ProgReceived
  <1>2. CASE ProgSaved(r)
    <2>1. store' \in JobArray /\ cache' \in JobArray /\ Tail(q) \in Seq(Request)
      BY <1>2, SettleTyped, QueueTyped DEF ProgSaved, Answered, Mine, Typing
    <2> QED BY <1>2, <2>1 DEF Typing, TypeOK, TasksOK, ProgSaved
  <1> QED BY <1>1, <1>2 DEF ProgStep

\* A stop forgets what the worker knew; storage holds one of the arrays sent.
LEMMA CrashTyped ==
    ASSUME Typing, NEW browser \in BOOLEAN, Crash(browser)
    PROVE  Typing'
  <1>1. \A i \in DOMAIN q : q[i] \in Request
    BY ElementOfSeq DEF Typing, TypeOK
  <1>2. \A i \in DOMAIN q : q[i].op = "set" => q[i].jobs \in JobArray
    BY <1>1 DEF Request
  <1>3. store' \in JobArray
    BY <1>2 DEF Crash, Typing, TypeOK
  <1>4. q' \in Seq(Request)
    BY DEF Crash
  <1>5. /\ pc' \in [Runs -> PCs] /\ cpc' \in [Ctls -> CPCs]
        /\ \A r \in Runs : pc'[r] # "idle" => pc[r] # "idle"
        /\ \A r \in Runs : pc'[r] # "announce"
        /\ \A c \in Ctls : cpc'[c] # "idle" => cpc[c] # "idle"
    BY DEF Crash, Stops, Typing, TypeOK, PCs, CPCs
  <1>6. /\ host' \in [Runs -> {"idle", "sent", "pending", "returned", "threw", "failed"}]
        /\ script' \in [Runs -> {"none", "running", "returned", "threw", "killed"}]
        /\ aborted' \subseteq Jobs
        /\ sdk' \in [Runs -> {"none", "sent", "lookup", "disowned", "calling"}]
        /\ prog' \in [Runs -> {"none", "posted", "saving"}]
    BY DEF Crash, Typing, TypeOK
  <1>7. /\ cache' = None /\ rpc' = "off" /\ found' = {} /\ up' = FALSE
        /\ crashes' = crashes + 1 /\ cleanup
        /\ UNCHANGED <<job, base, ckind, cjob, pos, posted>>
    BY DEF Crash
  <1>8. TypeOK'
    <2>1. /\ active' \in Jobs \cup {None} /\ runtime' \in Runs \cup {None} /\ stopped' \subseteq Runs
          /\ cache' \in JobArray \cup {None} /\ found' \subseteq Jobs
          /\ rpc' \in {"off", "first", "second", "write", "done"}
      BY <1>7 DEF Typing, TypeOK, cleanup
    <2>2. /\ job' \in [Runs -> Jobs \cup {None}] /\ base' \in [Runs -> Record]
          /\ ckind' \in [Ctls -> {"pause", "cancel"}] /\ cjob' \in [Ctls -> Jobs \cup {None}]
          /\ pos' \in [Runs -> Nat] /\ posted' \in [Runs -> Nat]
      BY <1>7 DEF Typing, TypeOK
    <2>3. up' \in BOOLEAN
      BY <1>7
    <2>4. crashes' \in Nat
      BY <1>7 DEF Typing, TypeOK
    <2> QED BY <1>3, <1>4, <1>5, <1>6, <2>1, <2>2, <2>3, <2>4 DEF TypeOK
  <1>9. TasksOK'
    BY <1>5, <1>7 DEF Typing, TasksOK
  <1> QED BY <1>8, <1>9 DEF Typing

LEMMA RecoveryTyped ==
    ASSUME Typing, RecStep
    PROVE  Typing'
  <1>1. Load("rec", None) \in Request
    BY RequestsTyped DEF Kinds
  <1>2. CASE SwStart
    <2>1. \A req \in Request : <<req>> \in Seq(Request)
      OBVIOUS
    <2>2. q' = <<Load("rec", None)>>
      BY <1>2 DEF SwStart
    <2>3. q' \in Seq(Request)
      BY <1>1, <2>1, <2>2
    <2> QED BY <1>2, <2>3 DEF Typing, TypeOK, TasksOK, SwStart
  <1>3. CASE RecFirst
    <2>1. Tail(q) \in Seq(Request)
      BY <1>3, QueueTyped DEF RecFirst, Loaded, Mine, Typing
    <2>2. (rpc' = "done" /\ q' = Tail(q)) \/ (rpc' = "second" /\ q' = Append(Tail(q), Load("rec", None)))
      BY <1>3 DEF RecFirst
    <2>3. q' \in Seq(Request)
      BY <1>1, <2>1, <2>2, EnqueueTyped
    <2> QED BY <1>3, <2>2, <2>3 DEF Typing, TypeOK, TasksOK, RecFirst
  <1>4. CASE RecSecond
    <2> DEFINE hit == {j \in found : store[j].state = "running"}
               js == [j \in Jobs |-> IF j \in hit THEN Assign(store[j], Becomes("paused"))
                                                  ELSE store[j]]
    <2>1. Tail(q) \in Seq(Request)
      BY <1>4, QueueTyped DEF RecSecond, Loaded, Mine, Typing
    <2>2. Becomes("paused") \in Patch
      BY PatchesTyped DEF States
    <2>3. js \in JobArray
      BY <2>2, AssignTyped DEF Typing, TypeOK, JobArray
    <2>4. Save("rec", None, js) \in Request
      BY <2>3, RequestsTyped DEF Kinds
    <2>5. (rpc' = "done" /\ q' = Tail(q)) \/ (rpc' = "write" /\ q' = Append(Tail(q), Save("rec", None, js)))
      BY <1>4 DEF RecSecond
    <2>6. q' \in Seq(Request)
      BY <2>1, <2>4, <2>5, EnqueueTyped
    <2>7. UNCHANGED <<store, cache, slotVars, runVars, ctlVars, found, boxVars, msgVars, lifeVars>>
      BY <1>4 DEF RecSecond
    <2> QED BY <2>5, <2>6, <2>7 DEF Typing, TypeOK, TasksOK
  <1>5. CASE RecWritten
    <2>1. store' \in JobArray /\ cache' \in JobArray /\ Tail(q) \in Seq(Request)
      BY <1>5, SettleTyped, QueueTyped DEF RecWritten, Answered, Mine, Typing
    <2> QED BY <1>5, <2>1 DEF Typing, TypeOK, TasksOK, RecWritten
  <1> QED BY <1>2, <1>3, <1>4, <1>5 DEF RecStep

\* Every reachable state is well typed, and the tasks work on jobs that exist.
THEOREM TypeCorrect == Spec => [](TypeOK /\ TasksOK)
  <1>1. Init => Typing
    BY InitTyped
  <1>2. Typing /\ [Next]_vars => Typing'
    <2> SUFFICES ASSUME Typing, [Next]_vars PROVE Typing'
      OBVIOUS
    <2>1. CASE UserStep
      BY <2>1, StartsTyped, ControlsTyped DEF UserStep
    <2>2. CASE Fetch
      BY <2>2, FetchTyped
    <2>3. ASSUME NEW r \in Runs, RunStep(r) PROVE Typing'
      BY <2>3, SwStartJobTyped, OpeningTyped, ClosingTyped DEF RunStep
    <2>4. ASSUME NEW r \in Runs, HostStep(r) \/ ScriptStep(r) PROVE Typing'
      BY <2>4, SandboxTyped
    <2>5. ASSUME NEW r \in Runs, SdkStep(r) \/ ProgStep(r) PROVE Typing'
      BY <2>5, SdkTyped, ProgTyped
    <2>6. ASSUME NEW c \in Ctls, CtlStep(c) PROVE Typing'
      BY <2>6, ControlsTyped
    <2>7. CASE RecStep
      BY <2>7, RecoveryTyped
    <2>8. CASE \E browser \in BOOLEAN : Crash(browser)
      BY <2>8, CrashTyped
    <2>9. CASE UNCHANGED vars
      <3>1. UNCHANGED <<store, q, cache, active, runtime, stopped, pc, job, base>>
        BY <2>9 DEF vars
      <3>2. UNCHANGED <<cpc, ckind, cjob, rpc, found, host, script, pos, aborted>>
        BY <2>9 DEF vars
      <3>3. UNCHANGED <<sdk, prog, posted, up, crashes>>
        BY <2>9 DEF vars
      <3> QED BY <3>1, <3>2, <3>3 DEF Typing, TypeOK, TasksOK
    <2> QED BY <2>1, <2>2, <2>3, <2>4, <2>5, <2>6, <2>7, <2>8, <2>9 DEF Next
  <1> QED BY <1>1, <1>2, PTL DEF Spec, Typing

-----------------------------------------------------------------------------
(* The slot has an owner                                                   *)

\* A step that leaves the slot alone keeps its owner on the way.
LEMMA OwnerStays ==
    ASSUME SlotHasOwner, active' = active,
           \A r \in Runs : job[r] = active /\ pc[r] \in Holding
                           => job'[r] = job[r] /\ pc'[r] \in Holding
    PROVE  SlotHasOwner'
  BY DEF SlotHasOwner

\* A cleanup leaves no slot to own.
LEMMA NoOwnerNeeded == cleanup => SlotHasOwner'
  BY DEF cleanup, SlotHasOwner

LEMMA StartsKeepOwner ==
    ASSUME Typing, SlotHasOwner, NEW r \in Runs, NEW j \in Jobs,
           StartNew(r, j) \/ StartResume(r, j) \/ StartLookup(r, j)
    PROVE  SlotHasOwner'
  <1>1. CASE StartNew(r, j)
    BY <1>1 DEF StartNew, SlotHasOwner
  <1>2. CASE StartResume(r, j)
    <2>1. job'[r] = j /\ pc'[r] \in Holding
      BY <1>2 DEF StartResume, Typing, TypeOK, Holding, Live
    <2> QED BY <1>2, <2>1 DEF StartResume, SlotHasOwner
  <1>3. CASE StartLookup(r, j)
    BY <1>3 DEF StartLookup, SlotHasOwner
  <1> QED BY <1>1, <1>2, <1>3

LEMMA RunsKeepOwner ==
    ASSUME Typing, SlotHasOwner, NEW r \in Runs, RunStep(r)
    PROVE  SlotHasOwner'
  <1> USE DEF Typing, TypeOK, Holding, Live
  <1>1. CASE RunFound(r)
    <2>1. CASE Resumable(store[job[r]])
      <3>1. active' = job[r] /\ job'[r] = job[r] /\ pc'[r] \in Holding
        BY <1>1, <2>1 DEF RunFound
      <3> QED BY <3>1 DEF SlotHasOwner
    <2>2. CASE ~Resumable(store[job[r]])
      <3>1. active' = active /\ job' = job /\ pc[r] \notin Holding
            /\ pc' = [pc EXCEPT ![r] = "refused"]
        BY <1>1, <2>2 DEF RunFound
      <3> QED BY <3>1, OwnerStays
    <2> QED BY <2>1, <2>2
  <1>2. CASE RunCreated(r)
    <2>1. active' = job[r] /\ job'[r] = job[r] /\ pc'[r] \in Holding
      BY <1>2 DEF RunCreated
    <2> QED BY <2>1 DEF SlotHasOwner
  <1>3. CASE RunMarked(r)
    BY <1>3, OwnerStays DEF RunMarked
  <1>4. CASE RunBegun(r)
    <2>1. CASE cache[job[r]].state = "absent"
      BY <1>4, <2>1, NoOwnerNeeded DEF RunBegun
    <2>2. CASE cache[job[r]].state # "absent"
      <3>1. active' = active /\ job' = job /\ pc' = [pc EXCEPT ![r] = "begin"]
        BY <1>4, <2>2 DEF RunBegun
      <3> QED BY <3>1, OwnerStays
    <2> QED BY <2>1, <2>2
  <1>5. CASE RunAuditing(r)
    BY <1>5, OwnerStays DEF RunAuditing
  <1>14. CASE RunLogged(r)
    BY <1>14, OwnerStays DEF RunLogged
  <1>6. CASE RunOpened(r)
    BY <1>6, OwnerStays DEF RunOpened
  <1>7. CASE RunCompileFailed(r)
    BY <1>7, OwnerStays DEF RunCompileFailed
  <1>8. CASE RunCompiled(r)
    BY <1>8, OwnerStays DEF RunCompiled
  \* A run that returns without cleanup() has seen another job in the slot.
  <1>9. CASE RunReturned(r)
    <2>1. /\ active' = active /\ job' = job
          /\ \/ active # job[r] /\ pc' = [pc EXCEPT ![r] = "done"]
             \/ pc' = [pc EXCEPT ![r] = "finish"]
      BY <1>9 DEF RunReturned
    <2> QED BY <2>1, OwnerStays
  <1>10. CASE RunThrew(r)
    <2>1. /\ active' = active /\ job' = job
          /\ \/ active # job[r] /\ pc' = [pc EXCEPT ![r] = "done"]
             \/ \E p \in {"flush", "finish"} : pc' = [pc EXCEPT ![r] = p]
      BY <1>10 DEF RunThrew, Conclude
    <2> QED BY <2>1, OwnerStays
  <1>11. CASE RunFlushed(r)
    <2>1. /\ active' = active /\ job' = job
          /\ \/ active # job[r] /\ pc' = [pc EXCEPT ![r] = "done"]
             \/ pc' = [pc EXCEPT ![r] = "finish"]
      BY <1>11 DEF RunFlushed, Conclude
    <2> QED BY <2>1, OwnerStays
  <1>12. CASE RunFinished(r)
    BY <1>12, OwnerStays DEF RunFinished
  <1>13. CASE RunReported(r)
    BY <1>13, NoOwnerNeeded DEF RunReported
  <1> QED BY <1>1, <1>2, <1>3, <1>4, <1>5, <1>6, <1>7, <1>8, <1>9, <1>10, <1>11, <1>12, <1>13,
             <1>14
          DEF RunStep

LEMMA OthersKeepOwner ==
    ASSUME SlotHasOwner,
           \/ \E c \in Ctls, kind \in {"pause", "cancel"} : PauseOrCancel(c, kind)
           \/ \E c \in Ctls, j \in Jobs : CancelById(c, j)
           \/ \E c \in Ctls : CtlStep(c)
           \/ \E r \in Runs : HostStep(r) \/ ScriptStep(r) \/ SdkStep(r) \/ ProgStep(r)
           \/ Fetch \/ RecStep \/ \E browser \in BOOLEAN : Crash(browser)
    PROVE  SlotHasOwner'
  <1>1. cleanup \/ (active' = active /\ UNCHANGED runVars)
    <2>1. ASSUME NEW c \in Ctls, NEW kind \in {"pause", "cancel"}, PauseOrCancel(c, kind)
          PROVE  active' = active /\ UNCHANGED runVars
      BY <2>1 DEF PauseOrCancel
    <2>2. ASSUME NEW c \in Ctls, NEW j \in Jobs, CancelById(c, j)
          PROVE  active' = active /\ UNCHANGED runVars
      BY <2>2 DEF CancelById
    <2>3. ASSUME NEW c \in Ctls, CtlStep(c)
          PROVE  cleanup \/ (active' = active /\ UNCHANGED runVars)
      BY <2>3 DEF CtlStep, CtlAborted, CtlSaved, HostAbort, cleanup
    <2>4. ASSUME NEW r \in Runs, HostStep(r) \/ ScriptStep(r)
          PROVE  active' = active /\ UNCHANGED runVars
      BY <2>4 DEF HostStep, ScriptStep, HostExecute, HostUnavailable, HostTimeout,
                  ScriptCall, ScriptProgress, ScriptEnd
    <2>5. ASSUME NEW r \in Runs, SdkStep(r)
          PROVE  cleanup \/ (active' = active /\ UNCHANGED runVars)
      BY <2>5 DEF SdkStep, SdkDispatch, SdkOrphan, SdkFound, SdkDisowned, SdkReturned,
                  Disown, cleanup
    <2>6. ASSUME NEW r \in Runs, ProgStep(r)
          PROVE  active' = active /\ UNCHANGED runVars
      BY <2>6 DEF ProgStep, ProgReceived, ProgSaved
    <2>7. ASSUME Fetch \/ RecStep PROVE active' = active /\ UNCHANGED runVars
      BY <2>7 DEF Fetch, RecStep, SwStart, RecFirst, RecSecond, RecWritten
    <2>8. ASSUME NEW browser \in BOOLEAN, Crash(browser) PROVE cleanup
      BY <2>8 DEF Crash
    <2> QED BY <2>1, <2>2, <2>3, <2>4, <2>5, <2>6, <2>7, <2>8
  <1> QED BY <1>1, OwnerStays, NoOwnerNeeded

\* The slot is never taken by a job that nobody executes.
THEOREM SlotOwned == Spec => []SlotHasOwner
  <1>1. Init => SlotHasOwner
    BY DEF Init, SlotHasOwner
  <1>2. Typing /\ SlotHasOwner /\ [Next]_vars => SlotHasOwner'
    <2> SUFFICES ASSUME Typing, SlotHasOwner, [Next]_vars PROVE SlotHasOwner'
      OBVIOUS
    <2>1. CASE \E r \in Runs, j \in Jobs : StartNew(r, j) \/ StartResume(r, j) \/ StartLookup(r, j)
      BY <2>1, StartsKeepOwner
    <2>2. CASE \E r \in Runs : RunStep(r)
      BY <2>2, RunsKeepOwner
    <2>3. CASE UNCHANGED vars
      BY <2>3, OwnerStays DEF vars
    <2> QED BY <2>1, <2>2, <2>3, OthersKeepOwner DEF Next, UserStep
  <1> QED BY <1>1, <1>2, TypeCorrect, PTL DEF Spec, Typing

-----------------------------------------------------------------------------
(* A finished job at rest stays as it is                                   *)

\* A request that is about another job and, if it is an older copy of this one,
\* was on its way before.
Harmless(req, j) ==
    /\ req.op \in {"create", "update"} => req.job # j
    /\ Older(req, j) => \E n \in DOMAIN q : req = q[n]

Kept(j) == LeftAlone(j) \/ Overwritten(j)

\* What the steps below show of a settled job, whichever task moves.
LEMMA StaysSettled ==
    ASSUME NEW j \in Jobs, Settled(j),
           store'[j] = store[j],
           \A i \in DOMAIN q' : Harmless(q'[i], j),
           cache' = None \/ cache'[j] = store[j],
           active' # j,
           \A r \in Runs : job[r] = j /\ pc[r] # "idle" => job'[r] = j /\ pc'[r] # "idle",
           \A r \in Runs : job'[r] = j => pc'[r] \notin Live \ {"lookup"},
           \A c \in Ctls : cjob'[c] = j => cpc'[c] \notin Busy
    PROVE  Kept(j)
  BY DEF Settled, Harmless, LeftAlone, Kept, Older

LEMMA HarmlessQueue ==
    ASSUME Typing, NEW j \in Jobs, Settled(j)
    PROVE  /\ \A i \in DOMAIN q : Harmless(q[i], j)
           /\ q # <<>> => Harmless(Head(q), j)
           /\ q # <<>> => Tail(q) \in Seq(Request)
           /\ q # <<>> => \A i \in DOMAIN Tail(q) : Harmless(Tail(q)[i], j)
  <1>1. q \in Seq(Request) /\ \A i \in 1 .. Len(q) : Harmless(q[i], j)
    BY DEF Typing, TypeOK, Settled, Harmless
  <1>2. ASSUME q # <<>> PROVE Len(q) \in Nat \ {0} /\ Head(q) = q[1]
    BY <1>1, <1>2
  <1>3. ASSUME q # <<>>
        PROVE  /\ Tail(q) \in Seq(Request)
               /\ Len(Tail(q)) = Len(q) - 1
               /\ \A i \in 1 .. Len(Tail(q)) : Tail(q)[i] = q[i + 1]
    BY <1>1, <1>3, HeadTailProperties
  <1>4. ASSUME q # <<>>, NEW i \in DOMAIN Tail(q) PROVE Harmless(Tail(q)[i], j)
    <2>1. i \in 1 .. Len(Tail(q))
      BY <1>3, <1>4
    <2>2. i + 1 \in 1 .. Len(q) /\ Tail(q)[i] = q[i + 1]
      BY <1>2, <1>3, <1>4, <2>1
    <2> QED BY <1>1, <2>2
  <1> QED BY <1>1, <1>2, <1>3, <1>4

LEMMA HarmlessAppend ==
    ASSUME NEW j \in Jobs, NEW s \in Seq(Request), NEW req \in Request,
           \A i \in DOMAIN s : Harmless(s[i], j), Harmless(req, j)
    PROVE  \A i \in DOMAIN Append(s, req) : Harmless(Append(s, req)[i], j)
  <1>1. /\ Append(s, req) \in Seq(Request)
        /\ Len(Append(s, req)) = Len(s) + 1
        /\ \A i \in 1 .. Len(s) : Append(s, req)[i] = s[i]
        /\ Append(s, req)[Len(s) + 1] = req
    BY AppendProperties
  <1>2. Len(s) \in Nat
    OBVIOUS
  <1>3. TAKE i \in DOMAIN Append(s, req)
  <1>4. i \in 1 .. Len(s) \/ i = Len(s) + 1
    BY <1>1, <1>2
  <1> QED BY <1>1, <1>2, <1>4

\* The end of somebody's updateJob does not change a settled job, unless what it
\* writes is an older copy.
LEMMA SettleHarmless ==
    ASSUME NEW j \in Jobs, Typing, q # <<>>, Settle
    PROVE  (store'[j] = store[j] /\ cache'[j] = store[j]) \/ Overwritten(j)
  <1>1. q \in Seq(Request)
    BY DEF Typing, TypeOK
  <1>2. 1 \in DOMAIN q /\ q[1] = Head(q)
    BY <1>1
  <1>3. CASE Older(Head(q), j)
    BY <1>2, <1>3 DEF Settle, Older, Overwritten
  <1>4. CASE ~Older(Head(q), j)
    BY <1>4 DEF Settle, Older
  <1> QED BY <1>3, <1>4

\* What the worker sends for another job is harmless to this one.
LEMMA OthersHarmless ==
    ASSUME NEW j \in Jobs, NEW k, NEW i
    PROVE  /\ \A h \in Jobs \ {j} : Harmless(Create(k, i, h), j)
           /\ \A h \in (Jobs \cup {None}) \ {j}, p \in Patch : Harmless(Update(k, i, h, p), j)
           /\ Harmless(Load(k, i), j)
           /\ \A js : js[j] = store[j] => Harmless(Save(k, i, js), j)
  BY DEF Harmless, Older, Create, Update, Load, Save

\* A run that is past its lookup works on another job.
LEMMA WorkingElsewhere ==
    ASSUME Typing, NEW j \in Jobs, Settled(j), NEW r \in Runs, pc[r] \in Live \ {"lookup"}
    PROVE  job[r] \in Jobs \ {j}
  BY DEF Typing, TasksOK, Settled, Live

\* A step of a run on another job: the queue it leaves and the rest it keeps.
LEMMA RunElsewhere ==
    ASSUME Typing, NEW j \in Jobs, Settled(j), NEW r \in Runs, job[r] \in Jobs \ {j},
           job' = job, UNCHANGED ctlVars,
           \E p \in PCs : pc' = [pc EXCEPT ![r] = p],
           store'[j] = store[j], cache' = None \/ cache'[j] = store[j], active' # j,
           \A i \in DOMAIN q' : Harmless(q'[i], j)
    PROVE  Kept(j)
  <1>1. \A s \in Runs : s # r => pc'[s] = pc[s]
    BY DEF Typing, TypeOK
  <1>2. \A s \in Runs : job[s] = j => job'[s] = j /\ pc'[s] = pc[s]
    BY <1>1
  <1> QED BY <1>2, StaysSettled DEF Settled

LEMMA StartsKeepSettled ==
    ASSUME Typing, NEW j \in Jobs, Settled(j), NEW r \in Runs, NEW k \in Jobs,
           StartNew(r, k) \/ StartResume(r, k) \/ StartLookup(r, k)
    PROVE  Kept(j)
  <1> USE DEF Typing, TypeOK
  <1>1. q \in Seq(Request) /\ \A i \in DOMAIN q : Harmless(q[i], j)
    BY HarmlessQueue
  <1>2. CASE StartNew(r, k)
    <2>1. k # j
      BY <1>2 DEF StartNew, Settled
    <2>2. Create("run", r, k) \in Request /\ Harmless(Create("run", r, k), j)
      BY <2>1, RequestsTyped, OthersHarmless DEF Kinds
    <2>3. q' = Append(q, Create("run", r, k))
      BY <1>2 DEF StartNew
    <2>4. \A i \in DOMAIN q' : Harmless(q'[i], j)
      BY <1>1, <2>2, <2>3, HarmlessAppend
    <2>5. /\ pc[r] = "idle" /\ \A s \in Runs : s # r => job'[s] = job[s] /\ pc'[s] = pc[s]
          /\ job'[r] = j => pc'[r] = "lookup"
      BY <1>2, <2>1 DEF StartNew
    <2>6. /\ \A s \in Runs : job[s] = j /\ pc[s] # "idle" => job'[s] = j /\ pc'[s] # "idle"
          /\ \A s \in Runs : job'[s] = j => pc'[s] \notin Live \ {"lookup"}
      BY <2>5 DEF Settled
    <2>7. /\ store'[j] = store[j] /\ (cache' = None \/ cache'[j] = store[j]) /\ active' # j
          /\ \A c \in Ctls : cjob'[c] = j => cpc'[c] \notin Busy
      BY <1>2, <2>1 DEF StartNew, Settled
    <2> QED BY <2>4, <2>6, <2>7, StaysSettled
  <1>3. CASE StartResume(r, k)
    <2>1. k # j
      BY <1>3 DEF StartResume, Settled, Resumable, Final
    <2>2. /\ Update("run", r, k, Becomes("running")) \in Request
          /\ Harmless(Update("run", r, k, Becomes("running")), j)
      BY <2>1, RequestsTyped, PatchesTyped, OthersHarmless DEF Kinds, States
    <2>3. q' = Append(q, Update("run", r, k, Becomes("running")))
      BY <1>3 DEF StartResume
    <2>4. \A i \in DOMAIN q' : Harmless(q'[i], j)
      BY <1>1, <2>2, <2>3, HarmlessAppend
    <2>5. /\ pc[r] = "idle" /\ \A s \in Runs : s # r => job'[s] = job[s] /\ pc'[s] = pc[s]
          /\ job'[r] = j => pc'[r] = "lookup"
      BY <1>3, <2>1 DEF StartResume
    <2>6. /\ \A s \in Runs : job[s] = j /\ pc[s] # "idle" => job'[s] = j /\ pc'[s] # "idle"
          /\ \A s \in Runs : job'[s] = j => pc'[s] \notin Live \ {"lookup"}
      BY <2>5 DEF Settled
    <2>7. /\ store'[j] = store[j] /\ (cache' = None \/ cache'[j] = store[j]) /\ active' # j
          /\ \A c \in Ctls : cjob'[c] = j => cpc'[c] \notin Busy
      BY <1>3, <2>1 DEF StartResume, Settled
    <2> QED BY <2>4, <2>6, <2>7, StaysSettled
  <1>4. CASE StartLookup(r, k)
    <2>1. Load("run", r) \in Request /\ Harmless(Load("run", r), j)
      BY RequestsTyped, OthersHarmless DEF Kinds
    <2>2. q' = Append(q, Load("run", r))
      BY <1>4 DEF StartLookup
    <2>3. \A i \in DOMAIN q' : Harmless(q'[i], j)
      BY <1>1, <2>1, <2>2, HarmlessAppend
    <2>4. /\ pc[r] = "idle" /\ \A s \in Runs : s # r => job'[s] = job[s] /\ pc'[s] = pc[s]
          /\ job'[r] = j => pc'[r] = "lookup"
      BY <1>4, <1>4 DEF StartLookup
    <2>5. /\ \A s \in Runs : job[s] = j /\ pc[s] # "idle" => job'[s] = j /\ pc'[s] # "idle"
          /\ \A s \in Runs : job'[s] = j => pc'[s] \notin Live \ {"lookup"}
      BY <2>4 DEF Settled
    <2>6. /\ store'[j] = store[j] /\ (cache' = None \/ cache'[j] = store[j]) /\ active' # j
          /\ \A c \in Ctls : cjob'[c] = j => cpc'[c] \notin Busy
      BY <1>4, <1>4 DEF StartLookup, Settled
    <2> QED BY <2>3, <2>5, <2>6, StaysSettled
  <1> QED BY <1>2, <1>3, <1>4

LEMMA FetchKeepsSettled ==
    ASSUME Typing, NEW j \in Jobs, Settled(j), Fetch
    PROVE  Kept(j)
  <1> DEFINE req == Head(q)
             js == [store EXCEPT ![req.job] = Assign(@, req.patch)]
  <1>1. q # <<>> /\ req \in Request /\ Tail(q) \in Seq(Request)
    BY QueueTyped DEF Fetch, Typing
  <1>2. req.kind \in Kinds /\ req.id \in Runs \cup Ctls \cup {None} /\ req.patch \in Patch
    BY <1>1 DEF Request
  <1>3. req.job # j
    BY <1>1, HarmlessQueue DEF Fetch, Harmless
  <1>4. js \in JobArray /\ js[j] = store[j]
    BY <1>2, <1>3, AssignTyped DEF Typing, TypeOK, JobArray
  <1>5. Save(req.kind, req.id, js) \in Request /\ Harmless(Save(req.kind, req.id, js), j)
    BY <1>2, <1>4, RequestsTyped, OthersHarmless
  <1>6. q' = Append(Tail(q), Save(req.kind, req.id, js)) /\ cache' = js
    BY DEF Fetch
  <1>7. \A i \in DOMAIN q' : Harmless(q'[i], j)
    BY <1>1, <1>5, <1>6, HarmlessQueue, HarmlessAppend
  <1> QED BY <1>4, <1>6, <1>7, StaysSettled DEF Fetch, Settled

\* Sending updates of other jobs, and having requests answered, leaves only
\* harmless requests in the queue.
LEMMA QueueStaysHarmless ==
    ASSUME Typing, NEW j \in Jobs, Settled(j),
           NEW kind \in Kinds, NEW id \in Runs \cup Ctls \cup {None},
           NEW k \in (Jobs \cup {None}) \ {j},
           \/ q' = q
           \/ q # <<>> /\ q' = Tail(q)
           \/ \E p \in Patch : \/ q' = Append(q, Update(kind, id, k, p))
                               \/ q # <<>> /\ q' = Append(Tail(q), Update(kind, id, k, p))
    PROVE  \A i \in DOMAIN q' : Harmless(q'[i], j)
  <1>1. q \in Seq(Request) /\ \A i \in DOMAIN q : Harmless(q[i], j)
    BY HarmlessQueue DEF Typing, TypeOK
  <1>2. CASE q' = q
    BY <1>1, <1>2
  <1>3. CASE q # <<>> /\ q' = Tail(q)
    BY <1>3, HarmlessQueue
  <1>4. ASSUME NEW p \in Patch, q' = Append(q, Update(kind, id, k, p))
        PROVE  \A i \in DOMAIN q' : Harmless(q'[i], j)
    <2>1. Update(kind, id, k, p) \in Request /\ Harmless(Update(kind, id, k, p), j)
      BY RequestsTyped, OthersHarmless
    <2> QED BY <1>1, <1>4, <2>1, HarmlessAppend
  <1>5. ASSUME NEW p \in Patch, q # <<>>, q' = Append(Tail(q), Update(kind, id, k, p))
        PROVE  \A i \in DOMAIN q' : Harmless(q'[i], j)
    <2>1. Update(kind, id, k, p) \in Request /\ Harmless(Update(kind, id, k, p), j)
      BY RequestsTyped, OthersHarmless
    <2>2. Tail(q) \in Seq(Request) /\ \A i \in DOMAIN Tail(q) : Harmless(Tail(q)[i], j)
      BY <1>5, HarmlessQueue
    <2> QED BY <1>5, <2>1, <2>2, HarmlessAppend
  <1> QED BY <1>2, <1>3, <1>4, <1>5

LEMMA MergedPatch ==
    ASSUME Typing, NEW r \in Runs, NEW s \in States
    PROVE  Merged(r, s) \in Patch
  <1>1. base[r].saved \cup {r} \in SUBSET Runs
    BY DEF Typing, TypeOK, Record
  <1> QED BY <1>1, PatchesTyped DEF Merged

\* What the steps of a run on another job do: move its pc, leave the slot to
\* nobody or to that job, and send updates of that job.
LEMMA RunMoves ==
    ASSUME Typing, NEW j \in Jobs, Settled(j), NEW r \in Runs, job[r] \in Jobs \ {j},
           job' = job, UNCHANGED ctlVars,
           \E p \in PCs : pc' = [pc EXCEPT ![r] = p],
           active' \in {active, None, job[r]},
           \/ store' = store /\ cache' = cache
           \/ store' = store /\ cache' = store
           \/ q # <<>> /\ Settle,
           \/ q' = q
           \/ q # <<>> /\ q' = Tail(q)
           \/ \E p \in Patch : \/ q' = Append(q, Update("run", r, job[r], p))
                               \/ q # <<>> /\ q' = Append(Tail(q), Update("run", r, job[r], p))
    PROVE  Kept(j)
  <1>1. \A i \in DOMAIN q' : Harmless(q'[i], j)
    BY QueueStaysHarmless DEF Kinds
  <1>2. (store'[j] = store[j] /\ (cache' = None \/ cache'[j] = store[j])) \/ Overwritten(j)
    BY SettleHarmless DEF Settled
  <1>3. active' # j
    BY ConstantsAssumption DEF Settled
  <1>4. CASE Overwritten(j)
    BY <1>4 DEF Kept
  <1> QED BY <1>1, <1>2, <1>3, <1>4, RunElsewhere

LEMMA OpeningKeepsSettled ==
    ASSUME Typing, NEW j \in Jobs, Settled(j), NEW r \in Runs,
           RunCreated(r) \/ RunMarked(r) \/ RunBegun(r) \/ RunAuditing(r)
           \/ RunLogged(r) \/ RunOpened(r) \/ RunCompileFailed(r) \/ RunCompiled(r)
    PROVE  Kept(j)
  <1>1. job[r] \in Jobs \ {j}
    BY WorkingElsewhere DEF Live, RunCreated, RunMarked, RunBegun, RunAuditing,
       RunLogged, RunOpened, RunCompileFailed, RunCompiled
  <1>2. /\ \A s \in States : Becomes(s) \in Patch
        /\ [Keep EXCEPT !.audited = TRUE] \in Patch
    BY PatchesTyped
  <1>3. CASE RunCreated(r)
    <2>1. /\ job' = job /\ UNCHANGED ctlVars /\ pc' = [pc EXCEPT ![r] = "mark"]
          /\ active' = job[r] /\ q # <<>> /\ Settle
          /\ q' = Append(Tail(q), Update("run", r, job[r], Becomes("running")))
      BY <1>3 DEF RunCreated, Answered, Mine
    <2> QED BY <1>1, <1>2, <2>1, RunMoves DEF PCs, Live, States
  <1>4. CASE RunMarked(r)
    <2>1. /\ job' = job /\ UNCHANGED ctlVars /\ pc' = [pc EXCEPT ![r] = "announce"]
          /\ active' = active /\ q # <<>> /\ Settle /\ q' = Tail(q)
      BY <1>4 DEF RunMarked, Answered, Mine
    <2> QED BY <1>1, <2>1, RunMoves DEF PCs, Live
  <1>5. CASE RunBegun(r)
    <2>1. /\ job' = job /\ UNCHANGED ctlVars /\ active' \in {active, None}
          /\ pc' = [pc EXCEPT ![r] = "done"] \/ pc' = [pc EXCEPT ![r] = "begin"]
          /\ store' = store /\ cache' = cache
          /\ q' = q \/ q' = Append(q, Update("run", r, job[r], Becomes("running")))
      BY <1>5 DEF RunBegun, cleanup
    <2> QED BY <1>1, <1>2, <2>1, RunMoves DEF PCs, Live, States
  <1>6. CASE RunAuditing(r)
    <2>1. /\ job' = job /\ UNCHANGED ctlVars /\ pc' = [pc EXCEPT ![r] = "log"]
          /\ active' = active /\ q # <<>> /\ Settle /\ q' = Tail(q)
      BY <1>6 DEF RunAuditing, Answered, Mine
    <2> QED BY <1>1, <2>1, RunMoves DEF PCs, Live
  <1>10. CASE RunLogged(r)
    <2>1. /\ job' = job /\ UNCHANGED ctlVars /\ pc' = [pc EXCEPT ![r] = "audit"]
          /\ active' = active /\ store' = store /\ cache' = cache
          /\ q' = Append(q, Update("run", r, job[r], [Keep EXCEPT !.audited = TRUE]))
      BY <1>10 DEF RunLogged
    <2> QED BY <1>1, <1>2, <2>1, RunMoves DEF PCs, Live
  <1>7. CASE RunOpened(r)
    <2>1. /\ job' = job /\ UNCHANGED ctlVars /\ pc' = [pc EXCEPT ![r] = "compile"]
          /\ active' = active /\ q # <<>> /\ Settle /\ q' = Tail(q)
      BY <1>7 DEF RunOpened, Answered, Mine
    <2> QED BY <1>1, <2>1, RunMoves DEF PCs, Live
  <1>8. CASE RunCompileFailed(r)
    <2>1. /\ job' = job /\ UNCHANGED ctlVars /\ pc' = [pc EXCEPT ![r] = "finish"]
          /\ active' = active /\ store' = store /\ cache' = cache
          /\ q' = Append(q, Update("run", r, job[r], Becomes("failed")))
      BY <1>8 DEF RunCompileFailed
    <2> QED BY <1>1, <1>2, <2>1, RunMoves DEF PCs, Live, States
  <1>9. CASE RunCompiled(r)
    <2>1. /\ job' = job /\ UNCHANGED ctlVars /\ pc' = [pc EXCEPT ![r] = "exec"]
          /\ active' = active /\ store' = store /\ cache' = cache /\ q' = q
      BY <1>9 DEF RunCompiled
    <2> QED BY <1>1, <2>1, RunMoves DEF PCs, Live
  <1> QED BY <1>3, <1>4, <1>5, <1>6, <1>7, <1>8, <1>9, <1>10

LEMMA ClosingKeepsSettled ==
    ASSUME Typing, NEW j \in Jobs, Settled(j), NEW r \in Runs,
           RunReturned(r) \/ RunThrew(r) \/ RunFlushed(r) \/ RunFinished(r) \/ RunReported(r)
    PROVE  Kept(j)
  <1>1. job[r] \in Jobs \ {j}
    BY WorkingElsewhere DEF Live, RunReturned, RunThrew, RunFlushed, RunFinished, RunReported
  <1>2. \A s \in States : Merged(r, s) \in Patch
    BY MergedPatch
  <1>3. [Keep EXCEPT !.ckpt = base[r].ckpt] \in Patch
    BY PatchesTyped DEF Typing, TypeOK, Record
  <1>4. CASE RunReturned(r)
    <2>1. /\ job' = job /\ UNCHANGED ctlVars /\ active' = active
          /\ pc' = [pc EXCEPT ![r] = "done"] \/ pc' = [pc EXCEPT ![r] = "finish"]
          /\ store' = store /\ cache' = cache
          /\ q' = q \/ \E s \in Outcomes : q' = Append(q, Update("run", r, job[r], Merged(r, s)))
      BY <1>4 DEF RunReturned
    <2>2. q' = q \/ \E p \in Patch : q' = Append(q, Update("run", r, job[r], p))
      BY <1>2, <2>1 DEF Outcomes, States
    <2> QED BY <1>1, <2>1, <2>2, RunMoves DEF PCs, Live
  <1>5. CASE RunThrew(r)
    <2>1. /\ job' = job /\ UNCHANGED ctlVars /\ active' = active
          /\ \E p \in {"done", "finish", "flush"} : pc' = [pc EXCEPT ![r] = p]
          /\ store' = store /\ cache' = cache
      BY <1>5 DEF RunThrew, Conclude
    <2>2. \/ q' = q
          \/ q' = Append(q, Update("run", r, job[r], [Keep EXCEPT !.ckpt = base[r].ckpt]))
          \/ q' = Append(q, Update("run", r, job[r], Merged(r, "failed")))
      BY <1>5 DEF RunThrew, Conclude
    <2>3. q' = q \/ \E p \in Patch : q' = Append(q, Update("run", r, job[r], p))
      BY <1>2, <1>3, <2>2 DEF States
    <2> QED BY <1>1, <2>1, <2>3, RunMoves DEF PCs, Live
  <1>6. CASE RunFlushed(r)
    <2>1. /\ job' = job /\ UNCHANGED ctlVars /\ active' = active
          /\ pc' = [pc EXCEPT ![r] = "done"] \/ pc' = [pc EXCEPT ![r] = "finish"]
          /\ q # <<>> /\ Settle
          /\ q' = Tail(q) \/ q' = Append(Tail(q), Update("run", r, job[r], Merged(r, "failed")))
      BY <1>6 DEF RunFlushed, Conclude, Answered, Mine
    <2> QED BY <1>1, <1>2, <2>1, RunMoves DEF PCs, Live, States
  <1>7. CASE RunFinished(r)
    <2>1. /\ job' = job /\ UNCHANGED ctlVars /\ pc' = [pc EXCEPT ![r] = "report"]
          /\ active' = active /\ q # <<>> /\ Settle /\ q' = Tail(q)
      BY <1>7 DEF RunFinished, Answered, Mine
    <2> QED BY <1>1, <2>1, RunMoves DEF PCs, Live
  <1>8. CASE RunReported(r)
    <2>1. /\ job' = job /\ UNCHANGED ctlVars /\ pc' = [pc EXCEPT ![r] = "done"]
          /\ active' = None /\ store' = store /\ cache' = cache /\ q' = q
      BY <1>8 DEF RunReported, cleanup
    <2> QED BY <1>1, <2>1, RunMoves DEF PCs, Live
  <1> QED BY <1>4, <1>5, <1>6, <1>7, <1>8

\* A resume request may look a finished job up; it is then refused.
LEMMA LookupKeepsSettled ==
    ASSUME Typing, NEW j \in Jobs, Settled(j), NEW r \in Runs, RunFound(r)
    PROVE  Kept(j)
  <1>1. job[r] \in Jobs /\ q # <<>>
    BY DEF RunFound, Loaded, Mine, Typing, TasksOK
  <1>2. Becomes("running") \in Patch
    BY PatchesTyped DEF States
  <1>3. CASE job[r] # j
    <2>1. /\ job' = job /\ UNCHANGED ctlVars /\ active' \in {active, job[r]}
          /\ pc' = [pc EXCEPT ![r] = "refused"] \/ pc' = [pc EXCEPT ![r] = "mark"]
          /\ store' = store /\ cache' = store
          /\ q' = Tail(q) \/ q' = Append(Tail(q), Update("run", r, job[r], Becomes("running")))
      BY DEF RunFound
    <2> QED BY <1>1, <1>2, <1>3, <2>1, RunMoves DEF PCs, Live
  <1>4. CASE job[r] = j
    <2>1. ~Resumable(store[j])
      BY DEF Settled, Resumable, Final
    <2>2. /\ job' = job /\ UNCHANGED ctlVars /\ active' = active
          /\ pc' = [pc EXCEPT ![r] = "refused"]
          /\ store' = store /\ cache' = store /\ q' = Tail(q)
      BY <1>4, <2>1 DEF RunFound
    <2>3. \A i \in DOMAIN q' : Harmless(q'[i], j)
      BY <1>1, <2>2, HarmlessQueue
    <2>4. /\ \A s \in Runs : job[s] = j /\ pc[s] # "idle" => job'[s] = j /\ pc'[s] # "idle"
          /\ \A s \in Runs : job'[s] = j => pc'[s] \notin Live \ {"lookup"}
      BY <2>2 DEF Settled, Typing, TypeOK, Live
    <2>5. /\ active' # j /\ \A c \in Ctls : cjob'[c] = j => cpc'[c] \notin Busy
      BY <2>2 DEF Settled
    <2> QED BY <2>2, <2>3, <2>4, <2>5, StaysSettled
  <1> QED BY <1>3, <1>4

\* A step that moves no run: what is left to show of it.
LEMMA RestMoves ==
    ASSUME Typing, NEW j \in Jobs, Settled(j), UNCHANGED runVars,
           active' \in {active, None},
           store'[j] = store[j], cache' = None \/ cache'[j] = store[j],
           \A i \in DOMAIN q' : Harmless(q'[i], j),
           \A c \in Ctls : cjob'[c] = j => cpc'[c] \notin Busy
    PROVE  Kept(j)
  <1>1. active' # j
    BY ConstantsAssumption DEF Settled
  <1> QED BY <1>1, StaysSettled DEF Settled

\* ... and that is the end of somebody's updateJob.
LEMMA SettledMoves ==
    ASSUME Typing, NEW j \in Jobs, Settled(j), UNCHANGED runVars,
           active' \in {active, None}, q # <<>>, Settle, q' = Tail(q),
           \A c \in Ctls : cjob'[c] = j => cpc'[c] \notin Busy
    PROVE  Kept(j)
  <1>1. \A i \in DOMAIN q' : Harmless(q'[i], j)
    BY HarmlessQueue
  <1>2. CASE Overwritten(j)
    BY <1>2 DEF Kept
  <1>3. CASE store'[j] = store[j] /\ cache'[j] = store[j]
    BY <1>1, <1>3, RestMoves
  <1> QED BY <1>2, <1>3, SettleHarmless

LEMMA ControlsKeepSettled ==
    ASSUME Typing, NEW j \in Jobs, Settled(j), NEW c \in Ctls,
           \/ \E kind \in {"pause", "cancel"} : PauseOrCancel(c, kind)
           \/ \E k \in Jobs \ {j} : CancelById(c, k)
           \/ CtlStep(c)
    PROVE  Kept(j)
  <1> USE DEF Typing, TypeOK
  <1>1. /\ \A i \in DOMAIN q : Harmless(q[i], j)
        /\ cache = None \/ cache[j] = store[j]
        /\ active # j
        /\ \A d \in Ctls : cjob[d] = j => cpc[d] \notin Busy
    BY HarmlessQueue DEF Settled
  <1>2. CASE \E kind \in {"pause", "cancel"} : PauseOrCancel(c, kind)
    <2>1. /\ UNCHANGED runVars /\ active' = active /\ store' = store /\ cache' = cache /\ q' = q
          /\ cjob' = [cjob EXCEPT ![c] = active] /\ cpc' = [cpc EXCEPT ![c] = "abort"]
      BY <1>2 DEF PauseOrCancel
    <2>2. \A d \in Ctls : cjob'[d] = j => cpc'[d] \notin Busy
      BY <1>1, <2>1
    <2> QED BY <1>1, <2>1, <2>2, RestMoves
  <1>3. ASSUME NEW k \in Jobs \ {j}, CancelById(c, k) PROVE Kept(j)
    <2>1. /\ UNCHANGED runVars /\ active' = active /\ store' = store /\ cache' = cache
          /\ cjob' = [cjob EXCEPT ![c] = k] /\ cpc' = [cpc EXCEPT ![c] = "byid"]
          /\ q' = Append(q, Update("ctl", c, k, Becomes("cancelled")))
      BY <1>3 DEF CancelById
    <2>2. \A d \in Ctls : cjob'[d] = j => cpc'[d] \notin Busy
      BY <1>1, <2>1
    <2>3. \A i \in DOMAIN q' : Harmless(q'[i], j)
      BY <2>1, QueueStaysHarmless, PatchesTyped DEF Kinds, States
    <2> QED BY <1>1, <2>1, <2>2, <2>3, RestMoves
  <1>4. CASE CtlAborted(c)
    <2>1. cjob[c] # j
      BY <1>1, <1>4 DEF CtlAborted, Busy
    <2>2. /\ UNCHANGED runVars /\ active' \in {active, None} /\ store' = store /\ cache' = cache
          /\ cjob' = cjob
          /\ cpc' = [cpc EXCEPT ![c] = "save"] \/ cpc' = [cpc EXCEPT ![c] = "done"]
          /\ q' = q \/ \E s \in {"paused", "cancelled"} :
                           q' = Append(q, Update("ctl", c, cjob[c], Becomes(s)))
      BY <1>4 DEF CtlAborted, cleanup
    <2>3. q' = q \/ \E p \in Patch : q' = Append(q, Update("ctl", c, cjob[c], p))
      BY <2>2, PatchesTyped DEF States
    <2>4. \A i \in DOMAIN q' : Harmless(q'[i], j)
      BY <2>1, <2>3, QueueStaysHarmless DEF Kinds
    <2>5. \A d \in Ctls : cjob'[d] = j => cpc'[d] \notin Busy
      BY <1>1, <2>1, <2>2
    <2> QED BY <1>1, <2>2, <2>4, <2>5, RestMoves
  <1>5. CASE CtlSaved(c)
    <2>1. /\ UNCHANGED runVars /\ active' \in {active, None} /\ q # <<>> /\ Settle
          /\ q' = Tail(q) /\ cjob' = cjob /\ cpc' = [cpc EXCEPT ![c] = "done"]
      BY <1>5 DEF CtlSaved, Answered, Mine, cleanup
    <2>2. \A d \in Ctls : cjob'[d] = j => cpc'[d] \notin Busy
      BY <1>1, <2>1 DEF Busy
    <2> QED BY <2>1, <2>2, SettledMoves
  <1>6. CASE HostAbort(c)
    <2>1. /\ UNCHANGED runVars /\ active' = active /\ store' = store /\ cache' = cache /\ q' = q
          /\ cjob' = cjob /\ cpc[c] = "abort" /\ cpc' = [cpc EXCEPT ![c] = "aborted"]
      BY <1>6 DEF HostAbort
    <2>2. \A d \in Ctls : cjob'[d] = j => cpc'[d] \notin Busy
      BY <1>1, <2>1 DEF Busy
    <2> QED BY <1>1, <2>1, <2>2, RestMoves
  <1> QED BY <1>2, <1>3, <1>4, <1>5, <1>6 DEF CtlStep

LEMMA MessagesKeepSettled ==
    ASSUME Typing, NEW j \in Jobs, Settled(j), NEW r \in Runs,
           HostStep(r) \/ ScriptStep(r) \/ SdkStep(r) \/ ProgStep(r)
    PROVE  Kept(j)
  <1>1. /\ \A i \in DOMAIN q : Harmless(q[i], j)
        /\ cache = None \/ cache[j] = store[j]
        /\ store[j].state # "running"
        /\ active # j
        /\ \A d \in Ctls : cjob[d] = j => cpc[d] \notin Busy
        /\ q \in Seq(Request)
        /\ job[r] \in Jobs \cup {None}
    BY HarmlessQueue DEF Settled, Final, Typing, TypeOK
  <1>2. CASE HostStep(r) \/ ScriptStep(r)
    <2>1. UNCHANGED <<storeVars, slotVars, runVars, ctlVars>>
      BY <1>2 DEF HostStep, ScriptStep, HostExecute, HostUnavailable, HostTimeout,
                  ScriptCall, ScriptProgress, ScriptEnd
    <2> QED BY <1>1, <2>1, RestMoves
  <1>3. CASE SdkDispatch(r) \/ \E ok \in BOOLEAN : SdkReturned(r, ok)
    <2>1. UNCHANGED <<storeVars, slotVars, runVars, ctlVars>>
      BY <1>3 DEF SdkDispatch, SdkReturned
    <2> QED BY <1>1, <2>1, RestMoves
  <1>4. CASE SdkOrphan(r)
    <2>1. UNCHANGED <<store, cache, runVars, ctlVars>> /\ active' \in {active, None}
      BY <1>4 DEF SdkOrphan, Disown, cleanup
    <2>2. \/ q' = Append(q, Load("sdk", r))
          \/ q' = q
          \/ job[r] # j /\ q' = Append(q, Update("sdk", r, job[r], Becomes("failed")))
      BY <1>1, <1>4 DEF SdkOrphan, Disown
    <2>3. CASE q' = Append(q, Load("sdk", r))
      <3>1. Load("sdk", r) \in Request /\ Harmless(Load("sdk", r), j)
        BY RequestsTyped, OthersHarmless DEF Kinds
      <3>2. \A i \in DOMAIN q' : Harmless(q'[i], j)
        BY SMTT(30), <1>1, <2>3, <3>1, HarmlessAppend
      <3> QED BY <1>1, <2>1, <3>2, RestMoves
    <2>4. CASE q' = q
      BY SMTT(30), <1>1, <2>1, <2>4, RestMoves
    <2>5. CASE job[r] # j /\ q' = Append(q, Update("sdk", r, job[r], Becomes("failed")))
      <3>1. \A i \in DOMAIN q' : Harmless(q'[i], j)
        BY <1>1, <2>5, QueueStaysHarmless, PatchesTyped DEF Kinds, States
      <3> QED BY <1>1, <2>1, <3>1, RestMoves
    <2> QED BY <2>2, <2>3, <2>4, <2>5
  <1>5. CASE SdkFound(r)
    <2>1. /\ UNCHANGED <<store, runVars, ctlVars>> /\ active' \in {active, None}
          /\ cache' = store /\ q # <<>>
      BY <1>5 DEF SdkFound, Disown, cleanup, Loaded, Mine
    <2>2. \/ q' = Tail(q)
          \/ job[r] # j /\ q' = Append(Tail(q), Update("sdk", r, job[r], Becomes("failed")))
      BY <1>1, <1>5 DEF SdkFound, Disown
    <2>3. CASE q' = Tail(q)
      BY SMTT(30), <1>1, <2>1, <2>3, HarmlessQueue, RestMoves
    <2>4. CASE job[r] # j /\ q' = Append(Tail(q), Update("sdk", r, job[r], Becomes("failed")))
      <3>1. \A i \in DOMAIN q' : Harmless(q'[i], j)
        BY <1>1, <2>1, <2>4, QueueStaysHarmless, PatchesTyped DEF Kinds, States
      <3> QED BY SMTT(30), <1>1, <2>1, <3>1, RestMoves
    <2> QED BY <2>2, <2>3, <2>4
  <1>6. CASE SdkDisowned(r) \/ ProgSaved(r)
    <2>1. /\ UNCHANGED <<runVars, ctlVars>> /\ active' \in {active, None}
          /\ q # <<>> /\ Settle /\ q' = Tail(q)
      BY <1>6 DEF SdkDisowned, ProgSaved, Answered, Mine, cleanup
    <2> QED BY <1>1, <2>1, SettledMoves
  <1>7. CASE ProgReceived(r)
    <2>1. /\ UNCHANGED <<store, cache, slotVars, runVars, ctlVars>>
          /\ \/ q' = q
             \/ job[r] # j /\ q' = Append(q, Update("prog", r, job[r], [Keep EXCEPT !.ckpt = posted[r]]))
      BY <1>1, <1>7 DEF ProgReceived
    <2>2. [Keep EXCEPT !.ckpt = posted[r]] \in Patch
      BY PatchesTyped DEF Typing, TypeOK
    <2>3. CASE q' = q
      BY <1>1, <2>1, <2>3, RestMoves
    <2>4. CASE job[r] # j /\ q' = Append(q, Update("prog", r, job[r], [Keep EXCEPT !.ckpt = posted[r]]))
      <3>1. \A i \in DOMAIN q' : Harmless(q'[i], j)
        BY <1>1, <2>2, <2>4, QueueStaysHarmless DEF Kinds
      <3> QED BY <1>1, <2>1, <3>1, RestMoves
    <2> QED BY <2>1, <2>3, <2>4
  <1> QED BY <1>2, <1>3, <1>4, <1>5, <1>6, <1>7 DEF SdkStep, ProgStep

\* Of the arrays on their way one may reach storage.
LEMMA CrashKeepsSettled ==
    ASSUME Typing, NEW j \in Jobs, Settled(j), NEW browser \in BOOLEAN, Crash(browser)
    PROVE  Kept(j)
  <1>1. store'[j] = store[j] \/ Overwritten(j)
    BY DEF Crash, Older, Overwritten
  <1>2. q' = <<>> /\ cache' = None /\ active' = None /\ job' = job /\ cjob' = cjob
    BY DEF Crash, cleanup
  <1>3. \A i \in DOMAIN q' : Harmless(q'[i], j)
    BY <1>2
  <1>4. pc' = Stops(pc) /\ cpc' = Stops(cpc)
    BY DEF Crash
  <1>5. /\ \A r \in Runs : pc'[r] \notin Live /\ (pc[r] # "idle" => pc'[r] # "idle")
        /\ \A c \in Ctls : cpc'[c] \notin Busy
    BY <1>4 DEF Stops, Typing, TypeOK, Live, Busy
  <1>6. CASE Overwritten(j)
    BY <1>6 DEF Kept
  <1>7. CASE store'[j] = store[j]
    BY <1>2, <1>3, <1>5, <1>7, StaysSettled, ConstantsAssumption DEF Settled
  <1> QED BY <1>1, <1>6, <1>7

LEMMA RecoveryKeepsSettled ==
    ASSUME Typing, NEW j \in Jobs, Settled(j), RecStep
    PROVE  Kept(j)
  <1>1. /\ cache = None \/ cache[j] = store[j]
        /\ store[j].state # "running"
        /\ \A d \in Ctls : cjob[d] = j => cpc[d] \notin Busy
    BY DEF Settled, Final
  <1>2. Load("rec", None) \in Request /\ Harmless(Load("rec", None), j)
    BY RequestsTyped, OthersHarmless DEF Kinds
  <1>3. CASE SwStart
    <2>1. UNCHANGED <<store, cache, slotVars, runVars, ctlVars>> /\ q' = <<Load("rec", None)>>
      BY <1>3 DEF SwStart
    <2>2. \A i \in DOMAIN q' : Harmless(q'[i], j)
      BY <1>2, <2>1
    <2> QED BY <1>1, <2>1, <2>2, RestMoves
  <1>4. CASE RecFirst
    <2>1. /\ UNCHANGED <<store, cache, slotVars, runVars, ctlVars>> /\ q # <<>>
          /\ q' = Tail(q) \/ q' = Append(Tail(q), Load("rec", None))
      BY <1>4 DEF RecFirst, Loaded, Mine
    <2>2. \A i \in DOMAIN q' : Harmless(q'[i], j)
      BY <1>2, <2>1, HarmlessQueue, HarmlessAppend
    <2> QED BY <1>1, <2>1, <2>2, RestMoves
  <1>5. CASE RecSecond
    <2> DEFINE hit == {k \in found : store[k].state = "running"}
               js == [k \in Jobs |-> IF k \in hit THEN Assign(store[k], Becomes("paused"))
                                                  ELSE store[k]]
    <2>1. js \in JobArray
      BY PatchesTyped, AssignTyped DEF Typing, TypeOK, JobArray, States
    <2>2. js[j] = store[j]
      BY <1>1
    <2>3. Save("rec", None, js) \in Request /\ Harmless(Save("rec", None, js), j)
      BY <2>1, <2>2, RequestsTyped, OthersHarmless DEF Kinds
    <2>4. /\ UNCHANGED <<store, cache, slotVars, runVars, ctlVars>> /\ q # <<>>
          /\ q' = Tail(q) \/ q' = Append(Tail(q), Save("rec", None, js))
      BY <1>5 DEF RecSecond, Loaded, Mine
    <2>5. \A i \in DOMAIN q' : Harmless(q'[i], j)
      BY <2>3, <2>4, HarmlessQueue, HarmlessAppend
    <2> QED BY <1>1, <2>4, <2>5, RestMoves
  <1>6. CASE RecWritten
    <2>1. UNCHANGED <<slotVars, runVars, ctlVars>> /\ q # <<>> /\ Settle /\ q' = Tail(q)
      BY <1>6 DEF RecWritten, Answered, Mine
    <2> QED BY <1>1, <2>1, SettledMoves
  <1> QED BY <1>3, <1>4, <1>5, <1>6 DEF RecStep

\* A finished job at rest is changed only by a request to cancel it by its id or by
\* an older copy of the array that was already on its way, and no new older copy
\* of it is sent: for any jobs, requests, calls and stops of the worker.
THEOREM FinishedJobsStay == Spec => FinishedStays
  <1>1. Typing /\ [Next]_vars => [FinishedKept]_vars
    <2> SUFFICES ASSUME Typing, Next, NEW j \in Jobs, Settled(j),
                        ~ \E c \in Ctls : CancelById(c, j)
                 PROVE  Kept(j)
      BY DEF FinishedKept, Kept
    <2>1. CASE \E r \in Runs, k \in Jobs : StartNew(r, k) \/ StartResume(r, k) \/ StartLookup(r, k)
      BY <2>1, StartsKeepSettled
    <2>2. CASE \E c \in Ctls : \E kind \in {"pause", "cancel"} : PauseOrCancel(c, kind)
      BY <2>2, ControlsKeepSettled
    <2>3. CASE \E c \in Ctls, k \in Jobs : CancelById(c, k)
      <3>1. PICK c \in Ctls, k \in Jobs : CancelById(c, k)
        BY <2>3
      <3>2. k \in Jobs \ {j}
        BY <3>1
      <3> QED BY <3>1, <3>2, ControlsKeepSettled
    <2>4. CASE Fetch
      BY <2>4, FetchKeepsSettled
    <2>5. ASSUME NEW r \in Runs, RunStep(r) PROVE Kept(j)
      BY <2>5, LookupKeepsSettled, OpeningKeepsSettled, ClosingKeepsSettled DEF RunStep
    <2>6. ASSUME NEW r \in Runs, HostStep(r) \/ ScriptStep(r) \/ SdkStep(r) \/ ProgStep(r)
          PROVE  Kept(j)
      BY <2>6, MessagesKeepSettled
    <2>7. CASE \E c \in Ctls : CtlStep(c)
      BY <2>7, ControlsKeepSettled
    <2>8. CASE RecStep
      BY <2>8, RecoveryKeepsSettled
    <2>9. CASE \E browser \in BOOLEAN : Crash(browser)
      BY <2>9, CrashKeepsSettled
    <2> QED BY <2>1, <2>2, <2>3, <2>4, <2>5, <2>6, <2>7, <2>8, <2>9 DEF Next, UserStep
  <1> QED BY <1>1, TypeCorrect, PTL DEF Spec, Typing, FinishedStays

-----------------------------------------------------------------------------
(* The records and who stands behind them                                  *)

Ended == {"completed", "partial"}

\* Per job: the runs whose script ran to its end, and the checkpoints that a
\* script has posted, as deep as it got.
Ends  == [j \in Jobs |-> {r \in Runs : job[r] = j /\ script[r] = "returned"}]
Posts == [j \in Jobs |-> {n \in Nat : n = 0 \/ \E r \in Runs : job[r] = j /\ posted[r] >= n}]

RecordBacked(ends, posts, rec) ==
    /\ rec.state \in Ended => rec.saved \cap ends # {}
    /\ rec.ckpt \in posts

BackedArrays(E, P) == {js \in JobArray : \A j \in Jobs : RecordBacked(E[j], P[j], js[j])}

\* A patch that names an end brings its script along, and one that replaces the
\* scripts names the state.
PatchBacked(ends, posts, p) ==
    /\ p.state \in Ended => p.saved # None /\ p.saved \cap ends # {}
    /\ p.state = None => p.saved = None
    /\ p.ckpt # None => p.ckpt \in posts

BackedRequests(E, P) ==
    {req \in Request :
        /\ req.op \in {"create", "update"} /\ req.job \in Jobs =>
              PatchBacked(E[req.job], P[req.job], req.patch)
        /\ req.op = "set" => req.jobs \in BackedArrays(E, P)}

StorageBacked ==
    /\ store \in BackedArrays(Ends, Posts)
    /\ cache \in BackedArrays(Ends, Posts) \cup {None}
    /\ q \in Seq(BackedRequests(Ends, Posts))

\* Until its script is sent to the sandbox a run has none.
Unsent == {"idle", "lookup", "create", "mark", "announce", "begin", "log", "audit", "compile"}

RunBacked(r) ==
    /\ pc[r] = "idle" => job[r] = None /\ base[r].ckpt = 0
    /\ pc[r] \in Unsent => host[r] = "idle" /\ script[r] = "none"
    /\ host[r] = "sent" => script[r] = "none"
    /\ host[r] = "returned" => script[r] = "returned"
    /\ job[r] \in Jobs => base[r].ckpt \in Posts[job[r]]

Backed == StorageBacked /\ \A r \in Runs : RunBacked(r)

StartedJobs == {j \in Jobs : Started(j)}
RunningIn(js) == {j \in Jobs : js[j].state = "running"}

\* What a request may bring back to "running" while the recovery is in mode m, has
\* found the jobs f, and the jobs s were started since.
RecoverableRequests(m, f, s) ==
    {req \in Request :
        /\ req.kind = "rec" => req.op \in {"load", "set"}
        /\ req.op \in {"create", "update"} /\ req.patch.state = "running" => req.job \in s
        /\ m = "first" => req.op # "set"
        /\ m = "second" /\ req.op = "set" => req.kind # "rec"
        /\ m \in {"second", "write"} /\ req.op = "set" => RunningIn(req.jobs) \subseteq f \cup s
        /\ m = "write" /\ req.op = "set" /\ req.kind = "rec" => RunningIn(req.jobs) \subseteq s}

\* The first request of a new worker is the recovery's: it reads the array before
\* anybody changes it, and nobody but a new run makes a job "running" after that.
Recovering ==
    /\ up <=> rpc # "off"
    /\ ~up => q = <<>>
    /\ rpc = "first" => q # <<>> /\ Head(q).op = "load" /\ Head(q).kind = "rec"
    /\ rpc \in {"second", "write"} => RunningIn(store) \subseteq found \cup StartedJobs
    /\ q \in Seq(RecoverableRequests(rpc, found, StartedJobs))

RecordsIInv == Typing /\ Backed /\ Recovering

-----------------------------------------------------------------------------
(* Sets of requests                                                        *)

LEMMA SeqGrows ==
    ASSUME NEW S, NEW T, S \subseteq T, NEW s \in Seq(S)
    PROVE  s \in Seq(T)
  <1>1. Len(s) \in Nat /\ s \in [1 .. Len(s) -> S]
    BY LenProperties
  <1>2. s \in [1 .. Len(s) -> T]
    BY <1>1
  <1> QED BY <1>1, <1>2, SeqDef

LEMMA ArraysGrow ==
    ASSUME NEW E, NEW P, NEW E2, NEW P2, \A j \in Jobs : E[j] \subseteq E2[j] /\ P[j] \subseteq P2[j]
    PROVE  BackedArrays(E, P) \subseteq BackedArrays(E2, P2)
  BY DEF BackedArrays, RecordBacked

LEMMA RequestsGrow ==
    ASSUME NEW E, NEW P, NEW E2, NEW P2, \A j \in Jobs : E[j] \subseteq E2[j] /\ P[j] \subseteq P2[j]
    PROVE  BackedRequests(E, P) \subseteq BackedRequests(E2, P2)
  <1> SUFFICES ASSUME NEW req \in BackedRequests(E, P) PROVE req \in BackedRequests(E2, P2)
    OBVIOUS
  <1>1. req.op = "set" => req.jobs \in BackedArrays(E2, P2)
    BY ArraysGrow DEF BackedRequests
  <1>2. ASSUME req.op \in {"create", "update"}, req.job \in Jobs
        PROVE  PatchBacked(E2[req.job], P2[req.job], req.patch)
    <2>1. PatchBacked(E[req.job], P[req.job], req.patch)
      BY <1>2 DEF BackedRequests
    <2>2. E[req.job] \subseteq E2[req.job] /\ P[req.job] \subseteq P2[req.job]
      BY <1>2
    <2> QED BY <2>1, <2>2 DEF PatchBacked
  <1> QED BY <1>1, <1>2 DEF BackedRequests

LEMMA RecoverablesGrow ==
    ASSUME NEW m, NEW f, NEW s, NEW t, s \subseteq t
    PROVE  RecoverableRequests(m, f, s) \subseteq RecoverableRequests(m, f, t)
  BY DEF RecoverableRequests

\* What a task other than the recovery may send.
NewRequests(E, P, s) ==
    {req \in BackedRequests(E, P) :
        req.kind # "rec" /\ req.op # "set" /\ (req.patch.state = "running" => req.job \in s)}

LEMMA NewAreRecoverable ==
    ASSUME NEW E, NEW P, NEW m, NEW f, NEW s
    PROVE  NewRequests(E, P, s) \subseteq RecoverableRequests(m, f, s)
  BY DEF NewRequests, RecoverableRequests, BackedRequests

\* The requests that the worker's tasks send, and when they may.
LEMMA SentAreNew ==
    ASSUME NEW E, NEW P, NEW s, NEW k \in Kinds \ {"rec"}, NEW i \in Runs \cup Ctls \cup {None},
           NEW j \in Jobs \cup {None}
    PROVE  /\ j \in Jobs => Create(k, i, j) \in NewRequests(E, P, s)
           /\ Load(k, i) \in NewRequests(E, P, s)
           /\ \A st \in States \ Ended :
                (st = "running" => j \in s) => Update(k, i, j, Becomes(st)) \in NewRequests(E, P, s)
           /\ Update(k, i, j, [Keep EXCEPT !.audited = TRUE]) \in NewRequests(E, P, s)
           /\ \A n \in Nat : (j \in Jobs => n \in P[j]) =>
                Update(k, i, j, [Keep EXCEPT !.ckpt = n]) \in NewRequests(E, P, s)
           /\ \A st \in States, d \in SUBSET Runs :
                (j \in Jobs /\ st \in Ended => d \cap E[j] # {}) /\ st # "running" =>
                Update(k, i, j, [Keep EXCEPT !.state = st, !.saved = d]) \in NewRequests(E, P, s)
  <1>1. ASSUME NEW p \in Patch, p.state = "running" => j \in s,
               j \in Jobs => PatchBacked(E[j], P[j], p)
        PROVE  Update(k, i, j, p) \in NewRequests(E, P, s)
    <2>1. Update(k, i, j, p) \in Request
      BY RequestsTyped
    <2> QED BY <1>1, <2>1 DEF Update, NewRequests, BackedRequests
  <1>2. ASSUME NEW st \in States \ Ended
        PROVE  Becomes(st) \in Patch /\ Becomes(st).state = st /\ PatchBacked(E[j], P[j], Becomes(st))
    BY PatchesTyped, NoneAssumption DEF Becomes, Keep, PatchBacked
  <1>3. ASSUME j \in Jobs PROVE Create(k, i, j) \in NewRequests(E, P, s)
    <2>1. Create(k, i, j) \in Request
      BY <1>3, RequestsTyped
    <2>2. "paused" \in States \ Ended /\ "paused" # "running"
      BY DEF States, Ended
    <2> QED BY <1>2, <2>1, <2>2 DEF Create, NewRequests, BackedRequests
  <1>4. Load(k, i) \in NewRequests(E, P, s)
    <2>1. Load(k, i) \in Request
      BY RequestsTyped
    <2> QED BY <2>1, NoneAssumption DEF Load, Keep, NewRequests, BackedRequests, States
  <1>5. Update(k, i, j, [Keep EXCEPT !.audited = TRUE]) \in NewRequests(E, P, s)
    <2> DEFINE p == [Keep EXCEPT !.audited = TRUE]
    <2>1. p \in Patch /\ p.state = None /\ p.saved = None /\ p.ckpt = None
      BY PatchesTyped DEF Keep
    <2>2. p.state \notin Ended /\ p.state # "running"
      BY <2>1, NoneAssumption DEF States, Ended
    <2> HIDE DEF p
    <2>3. PatchBacked(E[j], P[j], p)
      BY <2>1, <2>2 DEF PatchBacked
    <2> QED BY <1>1, <2>1, <2>2, <2>3 DEF p
  <1>6. ASSUME NEW n \in Nat, j \in Jobs => n \in P[j]
        PROVE  Update(k, i, j, [Keep EXCEPT !.ckpt = n]) \in NewRequests(E, P, s)
    <2> DEFINE p == [Keep EXCEPT !.ckpt = n]
    <2>1. p \in Patch /\ p.state = None /\ p.saved = None /\ p.ckpt = n
      BY PatchesTyped DEF Keep
    <2>2. p.state \notin Ended /\ p.state # "running"
      BY <2>1, NoneAssumption DEF States, Ended
    <2> HIDE DEF p
    <2>3. j \in Jobs => PatchBacked(E[j], P[j], p)
      BY <1>6, <2>1, <2>2 DEF PatchBacked
    <2> QED BY <1>1, <2>1, <2>2, <2>3 DEF p
  <1>7. ASSUME NEW st \in States, NEW d \in SUBSET Runs, st # "running",
               j \in Jobs /\ st \in Ended => d \cap E[j] # {}
        PROVE  Update(k, i, j, [Keep EXCEPT !.state = st, !.saved = d]) \in NewRequests(E, P, s)
    <2> DEFINE p == [Keep EXCEPT !.state = st, !.saved = d]
    <2>1. p \in Patch /\ p.state = st /\ p.saved = d /\ p.ckpt = None
      BY PatchesTyped DEF Keep
    <2> HIDE DEF p
    <2>3. j \in Jobs => PatchBacked(E[j], P[j], p)
      BY <1>7, <2>1, NoneAssumption DEF PatchBacked
    <2> QED BY <1>1, <1>7, <2>1, <2>3 DEF p
  <1>8. ASSUME NEW st \in States \ Ended, st = "running" => j \in s
        PROVE  Update(k, i, j, Becomes(st)) \in NewRequests(E, P, s)
    BY <1>1, <1>2, <1>8
  <1> QED BY <1>3, <1>4, <1>5, <1>6, <1>7, <1>8

-----------------------------------------------------------------------------
(* What a step leaves alone                                                *)

\* The witnesses of a record survive: a run keeps its job, a script that ran to
\* its end has done so for good, and it takes back no checkpoint it posted.
WitnessesStay ==
    \A r \in Runs :
        /\ job[r] \in Jobs => job'[r] = job[r]
        /\ script[r] = "returned" => script'[r] = "returned"
        /\ posted'[r] >= posted[r]

Taken == Holding \cup {"done"}

StartsStay == \A r \in Runs : pc[r] \in Taken => pc'[r] \in Taken

RunsKept == WitnessesStay /\ StartsStay /\ \A r \in Runs : RunBacked(r)'

LEMMA WitnessesGrow ==
    ASSUME Typing, Typing', WitnessesStay
    PROVE  \A j \in Jobs : Ends[j] \subseteq Ends'[j] /\ Posts[j] \subseteq Posts'[j]
  <1> SUFFICES ASSUME NEW j \in Jobs PROVE Ends[j] \subseteq Ends'[j] /\ Posts[j] \subseteq Posts'[j]
    OBVIOUS
  <1>1. Ends[j] \subseteq Ends'[j]
    BY DEF Ends, WitnessesStay
  <1>2. ASSUME NEW n \in Posts[j] PROVE n \in Posts'[j]
    <2>1. n \in Nat /\ (n = 0 \/ \E r \in Runs : job[r] = j /\ posted[r] >= n)
      BY DEF Posts
    <2>2. CASE n = 0
      BY <2>1, <2>2 DEF Posts
    <2>3. ASSUME NEW r \in Runs, job[r] = j, posted[r] >= n PROVE n \in Posts'[j]
      <3>1. posted[r] \in Nat /\ posted'[r] \in Nat
        BY DEF Typing, TypeOK
      <3>2. job'[r] = j /\ posted'[r] >= n
        BY <2>1, <2>3, <3>1 DEF WitnessesStay
      <3> QED BY <2>1, <3>2 DEF Posts
    <2> QED BY <2>1, <2>2, <2>3
  <1> QED BY <1>1, <1>2

LEMMA StartsGrow ==
    ASSUME Typing, WitnessesStay, StartsStay
    PROVE  StartedJobs \subseteq StartedJobs'
  BY DEF StartedJobs, Started, Typing, TasksOK, WitnessesStay, StartsStay, Taken, Holding, Live

\* What the worker's tasks may send in this step.
Sendable == NewRequests(Ends', Posts', StartedJobs')

\* One task of the worker, the recovery apart: it sends a request, or takes the
\* answer to its own, or both.
TaskStep ==
    \/ UNCHANGED <<store, cache, q>>
    \/ up /\ UNCHANGED <<store, cache>> /\ \E req \in Sendable : q' = Append(q, req)
    \/ /\ up /\ q # <<>> /\ Head(q).kind # "rec"
       /\ q' = Tail(q) \/ \E req \in Sendable : q' = Append(Tail(q), req)
       /\ (UNCHANGED store /\ cache' = store) \/ Settle

\* Such a step keeps storage and its queue backed and leaves the recovery alone.
LEMMA TasksKeep ==
    ASSUME RecordsIInv, Typing', RunsKept, TaskStep, UNCHANGED <<rpc, found, up>>
    PROVE  Backed' /\ Recovering'
  <1> DEFINE B == BackedRequests(Ends', Posts')
             A == BackedArrays(Ends', Posts')
             R == RecoverableRequests(rpc, found, StartedJobs')
  <1>1. \A j \in Jobs : Ends[j] \subseteq Ends'[j] /\ Posts[j] \subseteq Posts'[j]
    BY WitnessesGrow DEF RecordsIInv, RunsKept
  <1>2. StartedJobs \subseteq StartedJobs'
    BY StartsGrow DEF RecordsIInv, RunsKept
  <1>3. store \in A /\ cache \in A \cup {None} /\ q \in Seq(B)
    BY <1>1, ArraysGrow, RequestsGrow, SeqGrows DEF RecordsIInv, Backed, StorageBacked
  <1>4. q \in Seq(R)
    BY <1>2, RecoverablesGrow, SeqGrows DEF RecordsIInv, Recovering
  <1>5. Sendable \subseteq B /\ Sendable \subseteq R
    BY NewAreRecoverable DEF Sendable, NewRequests
  <1>6. q # <<>> => /\ Head(q) \in B /\ Tail(q) \in Seq(B)
                    /\ Head(q) \in R /\ Tail(q) \in Seq(R)
    BY <1>3, <1>4, HeadTailProperties
  <1>7. q' \in Seq(B) /\ q' \in Seq(R)
    <2>1. CASE q' = q
      BY <1>3, <1>4, <2>1
    <2>2. ASSUME NEW req \in Sendable, q' = Append(q, req) PROVE q' \in Seq(B) /\ q' \in Seq(R)
      BY <1>3, <1>4, <1>5, <2>2, AppendProperties
    <2>3. CASE q # <<>> /\ q' = Tail(q)
      BY <1>6, <2>3
    <2>4. ASSUME NEW req \in Sendable, q # <<>>, q' = Append(Tail(q), req)
          PROVE  q' \in Seq(B) /\ q' \in Seq(R)
      BY <1>5, <1>6, <2>4, AppendProperties
    <2> QED BY <2>1, <2>2, <2>3, <2>4 DEF TaskStep
  <1>8. store' \in A /\ cache' \in A \cup {None}
    <2>1. CASE UNCHANGED <<store, cache>>
      BY <1>3, <2>1
    <2>2. CASE UNCHANGED store /\ cache' = store
      BY <1>3, <2>2
    <2>3. CASE q # <<>> /\ Settle
      BY <1>3, <1>6, <2>3 DEF Settle, BackedRequests
    <2> QED BY <2>1, <2>2, <2>3 DEF TaskStep
  <1>9. Backed'
    BY <1>7, <1>8 DEF Backed, StorageBacked, RunsKept
  <1>10. ASSUME rpc \in {"second", "write"}
         PROVE  RunningIn(store') \subseteq found \cup StartedJobs'
    <2>1. RunningIn(store) \subseteq found \cup StartedJobs'
      BY <1>2, <1>10 DEF RecordsIInv, Recovering
    <2>2. CASE q # <<>> /\ Settle
      BY <1>6, <1>10, <2>1, <2>2 DEF Settle, RecoverableRequests
    <2> QED BY <2>1, <2>2 DEF TaskStep
  <1>11. ASSUME rpc = "first" PROVE q' # <<>> /\ Head(q') = Head(q)
    <2>1. q # <<>> /\ Head(q).kind = "rec" /\ q \in Seq(B)
      BY <1>3, <1>11 DEF RecordsIInv, Recovering
    <2>2. ASSUME NEW req \in Sendable, q' = Append(q, req) PROVE q' # <<>> /\ Head(q') = Head(q)
      BY <1>5, <2>1, <2>2, AppendProperties
    <2> QED BY <2>1, <2>2 DEF TaskStep
  <1>12. ~up => q' = <<>>
    BY DEF TaskStep, RecordsIInv, Recovering
  <1>13. Recovering'
    BY <1>7, <1>10, <1>11, <1>12 DEF RecordsIInv, Recovering, RunningIn
  <1> QED BY <1>9, <1>13

\* A run that goes on to p and leaves its script alone.
Advances(r, p) ==
    /\ pc[r] # "idle" /\ p # "idle"
    /\ p \in Unsent => pc[r] \in Unsent
    /\ pc[r] \in Taken => p \in Taken
    /\ pc' = [pc EXCEPT ![r] = p]
    /\ UNCHANGED <<job, base, host, script, posted>>

LEMMA AdvancesKeeps ==
    ASSUME Typing, Typing', Backed, NEW r \in Runs, NEW p, Advances(r, p)
    PROVE  RunsKept
  <1>1. WitnessesStay
    BY DEF Advances, WitnessesStay, Typing, TypeOK
  <1>2. StartsStay
    BY DEF Advances, StartsStay, Typing, TypeOK
  <1>3. \A j \in Jobs : Posts[j] \subseteq Posts'[j]
    BY <1>1, WitnessesGrow
  <1>4. ASSUME NEW t \in Runs PROVE RunBacked(t)'
    <2>1. RunBacked(t)
      BY DEF Backed
    <2>2. pc'[t] = pc[t] \/ (t = r /\ pc'[t] = p)
      BY DEF Advances, Typing, TypeOK
    <2>3. pc'[t] \in Unsent => pc[t] \in Unsent
      BY <2>2 DEF Advances
    <2>4. pc'[t] = "idle" => pc[t] = "idle"
      BY <2>2 DEF Advances
    <2>5. job[t] \in Jobs => base[t].ckpt \in Posts'[job[t]]
      BY <1>3, <2>1 DEF RunBacked
    <2> QED BY <2>1, <2>3, <2>4, <2>5 DEF RunBacked, Advances
  <1> QED BY <1>1, <1>2, <1>4 DEF RunsKept

\* A step that leaves the runs, their scripts and what they posted alone.
LEMMA OthersKeep ==
    ASSUME Typing, Typing', Backed, UNCHANGED <<pc, job, base, host, script, posted>>
    PROVE  RunsKept
  <1>1. WitnessesStay /\ StartsStay
    BY DEF WitnessesStay, StartsStay, Typing, TypeOK
  <1>2. \A j \in Jobs : Posts[j] \subseteq Posts'[j]
    BY <1>1, WitnessesGrow
  <1>3. ASSUME NEW t \in Runs PROVE RunBacked(t)'
    <2>1. job[t] \in Jobs => base[t].ckpt \in Posts'[job[t]]
      BY <1>2 DEF Backed, RunBacked
    <2> QED BY <2>1 DEF Backed, RunBacked
  <1> QED BY <1>1, <1>3 DEF RunsKept

\* A request of run r to change its job, of the sort this task may send.
LEMMA RunSends ==
    ASSUME Typing', NEW k \in Kinds \ {"rec"}, NEW i \in Runs \cup Ctls, NEW j \in Jobs \cup {None}
    PROVE  /\ j \in Jobs => Create(k, i, j) \in Sendable
           /\ Load(k, i) \in Sendable
           /\ \A st \in States \ Ended :
                (st = "running" => j \in StartedJobs') => Update(k, i, j, Becomes(st)) \in Sendable
           /\ Update(k, i, j, [Keep EXCEPT !.audited = TRUE]) \in Sendable
           /\ \A n \in Nat : (j \in Jobs => n \in Posts'[j]) =>
                Update(k, i, j, [Keep EXCEPT !.ckpt = n]) \in Sendable
           /\ \A st \in States, d \in SUBSET Runs :
                (j \in Jobs /\ st \in Ended => d \cap Ends'[j] # {}) /\ st # "running" =>
                Update(k, i, j, [Keep EXCEPT !.state = st, !.saved = d]) \in Sendable
  BY SentAreNew DEF Sendable

-----------------------------------------------------------------------------
(* swStartJob                                                              *)

LEMMA RunsStart ==
    ASSUME RecordsIInv, Typing', NEW r \in Runs, NEW j \in Jobs, NEW p \in Live,
           pc[r] = "idle", pc' = [pc EXCEPT ![r] = p], p \in Unsent,
           job' = [job EXCEPT ![r] = j], UNCHANGED <<base, host, script, posted>>
    PROVE  RunsKept /\ (p \in Holding => j \in StartedJobs')
  <1>1. job[r] = None /\ base[r].ckpt = 0 /\ host[r] = "idle" /\ script[r] = "none"
    BY DEF RecordsIInv, Backed, RunBacked, Unsent
  <1>2. WitnessesStay /\ StartsStay
    BY <1>1, ConstantsAssumption DEF WitnessesStay, StartsStay, RecordsIInv, Typing, TypeOK, Live,
       Taken, Holding
  <1>3. \A k \in Jobs : Posts[k] \subseteq Posts'[k]
    BY <1>2, WitnessesGrow DEF RecordsIInv
  <1>4. 0 \in Posts'[j]
    BY DEF Posts
  <1>5. ASSUME NEW t \in Runs PROVE RunBacked(t)'
    <2>1. RunBacked(t)
      BY DEF RecordsIInv, Backed
    <2>2. CASE t = r
      BY <1>1, <1>4, <2>2 DEF RunBacked, RecordsIInv, Typing, TypeOK, Live
    <2>3. CASE t # r
      <3>1. job[t] \in Jobs => base[t].ckpt \in Posts'[job[t]]
        BY <1>3, <2>1 DEF RunBacked
      <3>2. pc'[t] = pc[t] /\ job'[t] = job[t]
        BY <2>3 DEF RecordsIInv, Typing, TypeOK
      <3> QED BY <2>1, <3>1, <3>2 DEF RunBacked
    <2> QED BY <2>2, <2>3
  <1>6. ASSUME p \in Holding PROVE j \in StartedJobs'
    <2>1. pc'[r] = p /\ job'[r] = j
      BY DEF RecordsIInv, Typing, TypeOK
    <2> QED BY <1>6, <2>1 DEF StartedJobs, Started, Holding, Live
  <1> QED BY <1>2, <1>5, <1>6 DEF RunsKept

LEMMA StartsBacked ==
    ASSUME RecordsIInv, Typing', NEW r \in Runs, NEW j \in Jobs,
           StartNew(r, j) \/ StartResume(r, j) \/ StartLookup(r, j)
    PROVE  Backed' /\ Recovering'
  <1>1. RunsKept /\ (StartResume(r, j) => j \in StartedJobs')
    <2>1. CASE StartNew(r, j)
      <3>1. RunsKept
        BY <2>1, RunsStart DEF StartNew, Live, Unsent
      <3>2. pc'[r] = "create"
        BY <2>1 DEF StartNew, RecordsIInv, Typing, TypeOK
      <3>3. StartResume(r, j) => pc'[r] = "mark"
        BY DEF StartResume, RecordsIInv, Typing, TypeOK
      <3> QED BY <3>1, <3>2, <3>3
    <2>2. CASE StartResume(r, j)
      BY <2>2, RunsStart DEF StartResume, Live, Holding, Unsent
    <2>3. CASE StartLookup(r, j)
      <3>1. RunsKept
        BY <2>3, RunsStart DEF StartLookup, Live, Unsent
      <3>2. pc'[r] = "lookup"
        BY <2>3 DEF StartLookup, RecordsIInv, Typing, TypeOK
      <3>3. StartResume(r, j) => pc'[r] = "mark"
        BY DEF StartResume, RecordsIInv, Typing, TypeOK
      <3> QED BY <3>1, <3>2, <3>3
    <2> QED BY <2>1, <2>2, <2>3
  <1>2. /\ Create("run", r, j) \in Sendable
        /\ Load("run", r) \in Sendable
        /\ StartResume(r, j) => Update("run", r, j, Becomes("running")) \in Sendable
    BY <1>1, RunSends DEF Kinds, States, Ended
  <1>3. TaskStep
    BY <1>2 DEF TaskStep, StartNew, StartResume, StartLookup
  <1>4. UNCHANGED <<rpc, found, up>>
    BY DEF StartNew, StartResume, StartLookup
  <1> QED BY <1>1, <1>3, <1>4, TasksKeep

LEMMA SwStartJobBacked ==
    ASSUME RecordsIInv, Typing', NEW r \in Runs, RunFound(r) \/ RunCreated(r) \/ RunMarked(r)
    PROVE  Backed' /\ Recovering'
  <1>1. \E p \in {"mark", "refused", "announce"} : Advances(r, p)
    BY DEF RunFound, RunCreated, RunMarked, Advances, Unsent, Taken, Holding, Live
  <1>2. RunsKept
    BY <1>1, AdvancesKeeps DEF RecordsIInv
  <1>3. job[r] \in Jobs /\ job'[r] = job[r]
    BY <1>1 DEF Advances, RecordsIInv, Typing, TasksOK
  <1>4. pc' = [pc EXCEPT ![r] = "mark"] => job[r] \in StartedJobs'
    BY <1>1, <1>3 DEF StartedJobs, Started, Holding, Live, RecordsIInv, Typing, TypeOK
  <1>5. pc' = [pc EXCEPT ![r] = "mark"] => Update("run", r, job[r], Becomes("running")) \in Sendable
    BY <1>3, <1>4, RunSends DEF Kinds, States, Ended
  <1>6. up /\ q # <<>> /\ Head(q).kind = "run"
    BY DEF RunFound, RunCreated, RunMarked, Loaded, Answered, Mine
  <1>7. TaskStep
    BY <1>5, <1>6 DEF TaskStep, RunFound, RunCreated, RunMarked
  <1>8. UNCHANGED <<rpc, found, up>>
    BY DEF RunFound, RunCreated, RunMarked
  <1> QED BY <1>2, <1>7, <1>8, TasksKeep

-----------------------------------------------------------------------------
(* executeInSw                                                             *)

\* A run that goes on executing a job counts as a start of it.
LEMMA AdvancedStarted ==
    ASSUME Typing, Typing', NEW r \in Runs, NEW p, Advances(r, p)
    PROVE  job[r] \in Jobs /\ job'[r] = job[r] /\ (p \in Taken => job[r] \in StartedJobs')
  <1>1. job[r] \in Jobs /\ job'[r] = job[r]
    BY DEF Advances, Typing, TasksOK
  <1>2. pc'[r] = p
    BY DEF Advances, Typing, TypeOK
  <1> QED BY <1>1, <1>2 DEF StartedJobs, Started, Advances, Taken

LEMMA BegunBacked ==
    ASSUME RecordsIInv, Typing', NEW r \in Runs, RunBegun(r)
    PROVE  Backed' /\ Recovering'
  <1>1. UNCHANGED <<rpc, found, up, store, cache>> /\ up
    BY DEF RunBegun
  <1>2. CASE cache[job[r]].state = "absent"
    <2>1. Advances(r, "done")
      BY <1>2 DEF RunBegun, Advances, Unsent, Taken, Holding, Live
    <2>2. TaskStep
      BY <1>2 DEF RunBegun, TaskStep
    <2> QED BY <1>1, <2>1, <2>2, AdvancesKeeps, TasksKeep DEF RecordsIInv
  <1>3. CASE cache[job[r]].state # "absent"
    <2>1. /\ base' = [base EXCEPT ![r] = cache[job[r]]]
          /\ pc' = [pc EXCEPT ![r] = "begin"]
          /\ q' = Append(q, Update("run", r, job[r], Becomes("running")))
          /\ UNCHANGED <<job, host, script, posted>>
          /\ pc[r] = "announce"
      BY <1>3 DEF RunBegun
    <2>2. job[r] \in Jobs /\ cache \in JobArray
      BY <2>1 DEF RecordsIInv, Typing, TasksOK
    <2>3. WitnessesStay /\ StartsStay
      BY <2>1 DEF WitnessesStay, StartsStay, Taken, Holding, Live, RecordsIInv, Typing, TypeOK
    <2>4. \A j \in Jobs : Posts[j] \subseteq Posts'[j]
      BY <2>3, WitnessesGrow DEF RecordsIInv
    <2>5. cache[job[r]].ckpt \in Posts[job[r]]
      <3>1. cache \in BackedArrays(Ends, Posts)
        BY <2>2, NoneAssumption DEF RecordsIInv, Backed, StorageBacked
      <3> QED BY <2>2, <3>1 DEF BackedArrays, RecordBacked
    <2>6. ASSUME NEW t \in Runs PROVE RunBacked(t)'
      <3>1. RunBacked(t)
        BY DEF RecordsIInv, Backed
      <3>2. CASE t = r
        <4>1. pc'[r] = "begin" /\ base'[r].ckpt \in Posts'[job[r]]
          BY <2>1, <2>2, <2>4, <2>5 DEF RecordsIInv, Typing, TypeOK
        <4> QED BY <2>1, <2>2, <3>1, <3>2, <4>1 DEF RunBacked, Unsent
      <3>3. CASE t # r
        <4>1. pc'[t] = pc[t] /\ base'[t] = base[t]
          BY <2>1, <3>3 DEF RecordsIInv, Typing, TypeOK
        <4>2. job[t] \in Jobs => base[t].ckpt \in Posts'[job[t]]
          BY <2>4, <3>1 DEF RunBacked
        <4> QED BY <2>1, <3>1, <4>1, <4>2 DEF RunBacked
      <3> QED BY <3>2, <3>3
    <2>7. job[r] \in StartedJobs'
      <3>1. pc'[r] = "begin" /\ job'[r] = job[r]
        BY <2>1 DEF RecordsIInv, Typing, TypeOK
      <3> QED BY <2>2, <3>1 DEF StartedJobs, Started, Holding, Live
    <2>8. Update("run", r, job[r], Becomes("running")) \in Sendable
      BY <2>2, <2>7, RunSends DEF Kinds, States, Ended
    <2>9. TaskStep
      BY <1>1, <2>1, <2>8 DEF TaskStep
    <2> QED BY <1>1, <2>3, <2>6, <2>9, TasksKeep DEF RunsKept
  <1> QED BY <1>2, <1>3

\* executeInSw up to the moment the script is handed to the offscreen document.
LEMMA OpeningBacked ==
    ASSUME RecordsIInv, Typing', NEW r \in Runs,
           RunAuditing(r) \/ RunLogged(r) \/ RunOpened(r) \/ RunCompileFailed(r)
    PROVE  Backed' /\ Recovering'
  <1>1. \E p \in {"log", "audit", "compile", "finish"} : Advances(r, p)
    BY DEF RunAuditing, RunLogged, RunOpened, RunCompileFailed, Advances, Unsent, Taken, Holding, Live
  <1>2. RunsKept /\ job[r] \in Jobs
    BY <1>1, AdvancesKeeps, AdvancedStarted DEF RecordsIInv
  <1>3. /\ Update("run", r, job[r], [Keep EXCEPT !.audited = TRUE]) \in Sendable
        /\ Update("run", r, job[r], Becomes("failed")) \in Sendable
    BY <1>2, RunSends DEF Kinds, States, Ended
  <1>4. UNCHANGED <<rpc, found, up>>
    BY DEF RunAuditing, RunLogged, RunOpened, RunCompileFailed
  <1>5. CASE RunAuditing(r) \/ RunOpened(r)
    BY <1>2, <1>4, <1>5, TasksKeep DEF TaskStep, RunAuditing, RunOpened, Answered, Mine
  <1>6. CASE RunLogged(r) \/ RunCompileFailed(r)
    BY <1>2, <1>3, <1>4, <1>6, TasksKeep DEF TaskStep, RunLogged, RunCompileFailed
  <1> QED BY <1>5, <1>6

LEMMA CompiledBacked ==
    ASSUME RecordsIInv, Typing', NEW r \in Runs, RunCompiled(r)
    PROVE  Backed' /\ Recovering'
  <1>1. /\ pc[r] = "compile" /\ pc' = [pc EXCEPT ![r] = "exec"]
        /\ host' = [host EXCEPT ![r] = "sent"]
        /\ UNCHANGED <<store, cache, q, job, base, script, posted, rpc, found, up>>
    BY DEF RunCompiled
  <1>2. WitnessesStay /\ StartsStay
    BY <1>1 DEF WitnessesStay, StartsStay, Taken, Holding, Live, RecordsIInv, Typing, TypeOK
  <1>3. \A j \in Jobs : Posts[j] \subseteq Posts'[j]
    BY <1>2, WitnessesGrow DEF RecordsIInv
  <1>4. ASSUME NEW t \in Runs PROVE RunBacked(t)'
    <2>1. RunBacked(t)
      BY DEF RecordsIInv, Backed
    <2>2. job[t] \in Jobs => base[t].ckpt \in Posts'[job[t]]
      BY <1>3, <2>1 DEF RunBacked
    <2>3. CASE t = r
      <3>1. pc'[r] = "exec" /\ host'[r] = "sent"
        BY <1>1 DEF RecordsIInv, Typing, TypeOK
      <3> QED BY <1>1, <2>1, <2>2, <2>3, <3>1 DEF RunBacked, Unsent
    <2>4. CASE t # r
      BY <1>1, <2>1, <2>2, <2>4 DEF RunBacked, RecordsIInv, Typing, TypeOK
    <2> QED BY <2>3, <2>4
  <1>5. TaskStep
    BY <1>1 DEF TaskStep
  <1> QED BY <1>1, <1>2, <1>4, <1>5, TasksKeep DEF RunsKept

\* What may be stored of a run that is over: its own script stands behind the end.
LEMMA MergedSendable ==
    ASSUME Typing, Typing', NEW r \in Runs, NEW p, Advances(r, p), NEW st \in Outcomes,
           st \in Ended => script[r] = "returned"
    PROVE  Update("run", r, job[r], Merged(r, st)) \in Sendable
  <1>1. job[r] \in Jobs /\ job'[r] = job[r] /\ script' = script
    BY AdvancedStarted DEF Advances
  <1>2. base[r].saved \cup {r} \in SUBSET Runs
    BY ZenonT(40) DEF Typing, TypeOK, Record
  <1>3. st \in Ended => r \in Ends'[job[r]]
    BY <1>1 DEF Ends
  <1>4. st \in States /\ st # "running"
    BY DEF Outcomes, States
  <1> DEFINE d == base[r].saved \cup {r}
  <1>5. st \in Ended => d \cap Ends'[job[r]] # {}
    BY <1>3
  <1>6. Update("run", r, job[r], [Keep EXCEPT !.state = st, !.saved = d]) \in Sendable
    BY <1>1, <1>2, <1>4, <1>5, RunSends DEF Kinds
  <1> QED BY <1>6 DEF Merged

LEMMA ConcludeSends ==
    ASSUME Typing, Typing', NEW r \in Runs, NEW rest, Conclude(r, rest),
           pc[r] \in {"exec", "flush"}, UNCHANGED <<job, base, host, script, posted>>
    PROVE  /\ \E p \in {"done", "finish"} : Advances(r, p)
           /\ q' = rest \/ \E req \in Sendable : q' = Append(rest, req)
  <1>1. \E p \in {"done", "finish"} : Advances(r, p)
    BY DEF Conclude, Advances, Unsent, Taken, Holding, Live
  <1>2. Update("run", r, job[r], Merged(r, "failed")) \in Sendable
    BY <1>1, MergedSendable DEF Outcomes, Ended
  <1> QED BY <1>1, <1>2 DEF Conclude

\* executeInSw from the answer of the offscreen document to its end.
LEMMA ClosingBacked ==
    ASSUME RecordsIInv, Typing', NEW r \in Runs,
           RunReturned(r) \/ RunThrew(r) \/ RunFlushed(r) \/ RunFinished(r) \/ RunReported(r)
    PROVE  Backed' /\ Recovering'
  <1>1. UNCHANGED <<rpc, found, up>>
    BY DEF RunReturned, RunThrew, RunFlushed, RunFinished, RunReported
  <1>2. SUFFICES RunsKept /\ TaskStep
    BY <1>1, TasksKeep
  <1>3. CASE RunReturned(r)
    <2>1. \E p \in {"done", "finish"} : Advances(r, p)
      BY <1>3 DEF RunReturned, Advances, Unsent, Taken, Holding, Live
    <2>2. script[r] = "returned"
      BY <1>3 DEF RunReturned, RecordsIInv, Backed, RunBacked
    <2>3. \A st \in Outcomes : Update("run", r, job[r], Merged(r, st)) \in Sendable
      BY <2>1, <2>2, MergedSendable DEF RecordsIInv
    <2>4. RunsKept
      BY <2>1, AdvancesKeeps DEF RecordsIInv
    <2> QED BY <1>3, <2>3, <2>4 DEF RunReturned, TaskStep
  <1>4. CASE RunThrew(r)
    <2>0. /\ up /\ pc[r] = "exec"
          /\ UNCHANGED <<store, cache, job, base, host, script, posted>>
      BY <1>4 DEF RunThrew
    <2>1. CASE Serves(job[r])
      <3>1. /\ pc' = [pc EXCEPT ![r] = "flush"]
            /\ q' = Append(q, Update("run", r, job[r], [Keep EXCEPT !.ckpt = base[r].ckpt]))
        BY <1>4, <2>1 DEF RunThrew
      <3>2. Advances(r, "flush")
        BY <2>0, <3>1 DEF Advances, Unsent, Taken, Holding, Live
      <3>3. RunsKept /\ job[r] \in Jobs
        BY <3>2, AdvancesKeeps, AdvancedStarted DEF RecordsIInv
      <3>4. base[r].ckpt \in Nat /\ base[r].ckpt \in Posts'[job[r]]
        BY <2>0, <3>3 DEF RunsKept, RunBacked, RecordsIInv, Typing, TypeOK, Record
      <3>5. Update("run", r, job[r], [Keep EXCEPT !.ckpt = base[r].ckpt]) \in Sendable
        BY <3>3, <3>4, RunSends DEF Kinds
      <3> QED BY <2>0, <3>1, <3>3, <3>5 DEF TaskStep
    <2>2. CASE ~Serves(job[r])
      <3>1. Conclude(r, q)
        BY <1>4, <2>2 DEF RunThrew
      <3>2. /\ \E p \in {"done", "finish"} : Advances(r, p)
            /\ q' = q \/ \E req \in Sendable : q' = Append(q, req)
        BY <2>0, <3>1, ConcludeSends DEF RecordsIInv
      <3>3. RunsKept
        BY <3>2, AdvancesKeeps DEF RecordsIInv
      <3> QED BY <2>0, <3>2, <3>3 DEF TaskStep
    <2> QED BY <2>1, <2>2
  <1>5. CASE RunFlushed(r)
    <2>1. /\ pc[r] = "flush" /\ Conclude(r, Tail(q)) /\ Settle
          /\ UNCHANGED <<job, base, host, script, posted>>
          /\ up /\ q # <<>> /\ Head(q).kind = "run"
      BY <1>5 DEF RunFlushed, Answered, Mine
    <2>2. /\ \E p \in {"done", "finish"} : Advances(r, p)
          /\ q' = Tail(q) \/ \E req \in Sendable : q' = Append(Tail(q), req)
      BY <2>1, ConcludeSends DEF RecordsIInv
    <2>3. RunsKept
      BY <2>2, AdvancesKeeps DEF RecordsIInv
    <2> QED BY <2>1, <2>2, <2>3 DEF TaskStep
  <1>6. CASE RunFinished(r)
    <2>1. Advances(r, "report")
      BY <1>6 DEF RunFinished, Advances, Unsent, Taken, Holding, Live
    <2> QED BY <1>6, <2>1, AdvancesKeeps DEF RunFinished, Answered, Mine, TaskStep, RecordsIInv
  <1>7. CASE RunReported(r)
    <2>1. Advances(r, "done")
      BY <1>7 DEF RunReported, Advances, Unsent, Taken, Holding, Live
    <2> QED BY <1>7, <2>1, AdvancesKeeps DEF RunReported, TaskStep, RecordsIInv
  <1> QED BY <1>3, <1>4, <1>5, <1>6, <1>7

-----------------------------------------------------------------------------
(* Pause and cancel, SDK calls, progress, and the offscreen document       *)

\* CancelById asks for "cancelled", CtlAborted for "paused" or "cancelled".
LEMMA ControlsBacked ==
    ASSUME RecordsIInv, Typing', NEW c \in Ctls,
           \/ \E kind \in {"pause", "cancel"} : PauseOrCancel(c, kind)
           \/ \E j \in Jobs : CancelById(c, j)
           \/ CtlAborted(c) \/ CtlSaved(c)
    PROVE  Backed' /\ Recovering'
  <1>1. UNCHANGED <<pc, job, base, host, script, posted, rpc, found, up>>
    BY DEF PauseOrCancel, CancelById, CtlAborted, CtlSaved
  <1>2. RunsKept
    BY <1>1, OthersKeep DEF RecordsIInv
  <1>3. \A j \in Jobs : /\ Update("ctl", c, j, Becomes("paused")) \in Sendable
                        /\ Update("ctl", c, j, Becomes("cancelled")) \in Sendable
    BY RunSends DEF Kinds, States, Ended
  <1>4. CASE \E kind \in {"pause", "cancel"} : PauseOrCancel(c, kind)
    BY <1>1, <1>2, <1>4, TasksKeep DEF TaskStep, PauseOrCancel
  <1>5. CASE \E j \in Jobs : CancelById(c, j)
    BY <1>1, <1>2, <1>3, <1>5, TasksKeep DEF TaskStep, CancelById
  <1>6. CASE CtlAborted(c)
    <2>1. cjob[c] \in Jobs
      BY <1>6 DEF CtlAborted, RecordsIInv, Typing, TasksOK
    <2>2. q' = q \/ \E st \in {"paused", "cancelled"} :
                       q' = Append(q, Update("ctl", c, cjob[c], Becomes(st)))
      BY <1>6 DEF CtlAborted
    <2>3. TaskStep
      BY <1>3, <1>6, <2>1, <2>2 DEF TaskStep, CtlAborted
    <2> QED BY <1>1, <1>2, <2>3, TasksKeep
  <1>7. CASE CtlSaved(c)
    BY <1>1, <1>2, <1>7, TasksKeep DEF TaskStep, CtlSaved, Answered, Mine
  <1> QED BY <1>4, <1>5, <1>6, <1>7

\* What Disown sends, `rest` being the requests still queued.
LEMMA DisownSends ==
    ASSUME Typing, Typing', NEW r \in Runs, NEW rec, NEW rest, Disown(r, rec, rest)
    PROVE  q' = rest \/ \E req \in Sendable : q' = Append(rest, req)
  <1>1. job[r] \in Jobs \cup {None}
    BY DEF Typing, TypeOK
  <1>2. Update("sdk", r, job[r], Becomes("failed")) \in Sendable
    BY <1>1, RunSends DEF Kinds, States, Ended
  <1> QED BY <1>2 DEF Disown

LEMMA SdkBacked ==
    ASSUME RecordsIInv, Typing', NEW r \in Runs, SdkStep(r)
    PROVE  Backed' /\ Recovering'
  <1>1. UNCHANGED <<pc, job, base, host, script, posted, rpc, found, up>>
    BY DEF SdkStep, SdkDispatch, SdkOrphan, SdkFound, SdkDisowned, SdkReturned
  <1>2. RunsKept
    BY <1>1, OthersKeep DEF RecordsIInv
  <1>3. SUFFICES TaskStep
    BY <1>1, <1>2, TasksKeep
  <1>4. CASE SdkDispatch(r) \/ \E ok \in BOOLEAN : SdkReturned(r, ok)
    BY <1>4 DEF TaskStep, SdkDispatch, SdkReturned
  <1>5. CASE SdkOrphan(r)
    <2>1. q' = q \/ \E req \in Sendable : q' = Append(q, req)
      <3>1. Load("sdk", r) \in Sendable
        BY RunSends DEF Kinds
      <3>2. CASE cache = None
        BY <1>5, <3>1, <3>2 DEF SdkOrphan
      <3>3. CASE cache # None
        BY <1>5, <3>3, DisownSends DEF SdkOrphan, RecordsIInv
      <3> QED BY <3>2, <3>3
    <2> QED BY <1>5, <2>1 DEF TaskStep, SdkOrphan
  <1>6. CASE SdkFound(r)
    <2>1. q' = Tail(q) \/ \E req \in Sendable : q' = Append(Tail(q), req)
      BY <1>6, DisownSends DEF SdkFound, RecordsIInv
    <2> QED BY <1>6, <2>1 DEF TaskStep, SdkFound, Loaded, Mine
  <1>7. CASE SdkDisowned(r)
    BY <1>7 DEF TaskStep, SdkDisowned, Answered, Mine
  <1> QED BY <1>4, <1>5, <1>6, <1>7 DEF SdkStep

LEMMA ProgBacked ==
    ASSUME RecordsIInv, Typing', NEW r \in Runs, ProgStep(r)
    PROVE  Backed' /\ Recovering'
  <1>1. UNCHANGED <<pc, job, base, host, script, posted, rpc, found, up>>
    BY DEF ProgStep, ProgReceived, ProgSaved
  <1>2. RunsKept
    BY <1>1, OthersKeep DEF RecordsIInv
  <1>3. SUFFICES TaskStep
    BY <1>1, <1>2, TasksKeep
  <1>4. CASE ProgReceived(r)
    <2>1. job[r] \in Jobs \cup {None} /\ posted[r] \in Nat
      BY DEF RecordsIInv, Typing, TypeOK
    <2>2. job[r] \in Jobs => posted[r] \in Posts'[job[r]]
      BY <1>1, <2>1 DEF Posts
    <2>3. Update("prog", r, job[r], [Keep EXCEPT !.ckpt = posted[r]]) \in Sendable
      BY <2>1, <2>2, RunSends DEF Kinds
    <2> QED BY <1>4, <2>3 DEF TaskStep, ProgReceived
  <1>5. CASE ProgSaved(r)
    BY <1>5 DEF TaskStep, ProgSaved, Answered, Mine
  <1> QED BY <1>4, <1>5 DEF ProgStep

\* Steps of the offscreen document and the script: how a run's script may change.
LEMMA SandboxBacked ==
    ASSUME RecordsIInv, Typing',
           \/ \E r \in Runs : HostStep(r) \/ ScriptStep(r)
           \/ \E c \in Ctls : HostAbort(c)
    PROVE  Backed' /\ Recovering'
  <1>1. UNCHANGED <<store, cache, q, pc, job, base, rpc, found, up>>
    BY DEF HostStep, HostExecute, HostUnavailable, HostTimeout, HostAbort,
       ScriptStep, ScriptCall, ScriptProgress, ScriptEnd
  <1>2. \A t \in Runs : RunBacked(t)
    BY DEF RecordsIInv, Backed
  <1>3. \A t \in Runs : posted'[t] >= posted[t]
    <2>1. CASE \E r \in Runs : ScriptProgress(r)
      BY <2>1 DEF ScriptProgress, RecordsIInv, Typing, TypeOK
    <2>2. CASE UNCHANGED posted
      BY <2>2 DEF RecordsIInv, Typing, TypeOK
    <2> QED BY <2>1, <2>2 DEF HostStep, HostExecute, HostUnavailable, HostTimeout, HostAbort,
          ScriptStep, ScriptCall, ScriptEnd
  <1>4. ASSUME NEW t \in Runs
        PROVE  /\ script[t] = "returned" => script'[t] = "returned"
               /\ host[t] = "idle" /\ script[t] = "none" => host'[t] = "idle" /\ script'[t] = "none"
               /\ host'[t] = "sent" => script'[t] = "none"
               /\ host'[t] = "returned" => script'[t] = "returned"
    <2>1. /\ host \in [Runs -> {"idle", "sent", "pending", "returned", "threw", "failed"}]
          /\ script \in [Runs -> {"none", "running", "returned", "threw", "killed"}]
          /\ host[t] = "sent" => script[t] = "none"
          /\ host[t] = "returned" => script[t] = "returned"
      BY <1>2 DEF RecordsIInv, Typing, TypeOK, RunBacked
    <2>2. ASSUME NEW r \in Runs, HostExecute(r)
          PROVE  /\ script' = [script EXCEPT ![r] = "running"] /\ script[r] = "none"
                 /\ host[r] = "sent" /\ host' = [host EXCEPT ![r] = "pending"]
      BY <1>2, <2>2 DEF HostExecute, RunBacked
    <2>3. CASE \E r \in Runs : HostUnavailable(r) \/ HostTimeout(r)
      BY <2>1, <2>3 DEF HostUnavailable, HostTimeout
    <2>4. CASE \E c \in Ctls : HostAbort(c)
      BY <2>1, <2>4 DEF HostAbort
    <2>5. CASE \E r \in Runs : ScriptCall(r) \/ ScriptProgress(r)
      BY <2>1, <2>5 DEF ScriptCall, ScriptProgress
    <2>6. CASE \E r \in Runs, how \in {"returned", "threw"} : ScriptEnd(r, how)
      <3>1. PICK r \in Runs, how \in {"returned", "threw"} : ScriptEnd(r, how)
        BY <2>6
      <3>2. /\ script[r] = "running" /\ script' = [script EXCEPT ![r] = how]
            /\ host' = host \/ (host[r] = "pending" /\ host' = [host EXCEPT ![r] = how])
        BY <3>1 DEF ScriptEnd
      <3> QED BY <2>1, <3>2
    <2>7. CASE \E r \in Runs : HostExecute(r)
      <3>1. PICK r \in Runs : HostExecute(r)
        BY <2>7
      <3>2. /\ script' = [script EXCEPT ![r] = "running"] /\ script[r] = "none"
            /\ host[r] = "sent" /\ host' = [host EXCEPT ![r] = "pending"]
        BY <2>2, <3>1
      <3> QED BY <2>1, <3>2
    <2>8. \/ \E r \in Runs : HostExecute(r)
          \/ \E r \in Runs : HostUnavailable(r) \/ HostTimeout(r)
          \/ \E c \in Ctls : HostAbort(c)
          \/ \E r \in Runs : ScriptCall(r) \/ ScriptProgress(r)
          \/ \E r \in Runs, how \in {"returned", "threw"} : ScriptEnd(r, how)
      BY DEF HostStep, ScriptStep
    <2> QED BY <2>3, <2>4, <2>5, <2>6, <2>7, <2>8
  <1>5. WitnessesStay /\ StartsStay
    BY <1>1, <1>3, <1>4 DEF WitnessesStay, StartsStay
  <1>6. \A j \in Jobs : Posts[j] \subseteq Posts'[j]
    BY <1>5, WitnessesGrow DEF RecordsIInv
  <1>7. ASSUME NEW t \in Runs PROVE RunBacked(t)'
    <2>1. job[t] \in Jobs => base[t].ckpt \in Posts'[job[t]]
      BY <1>2, <1>6 DEF RunBacked
    <2> QED BY <1>1, <1>2, <1>4, <2>1 DEF RunBacked
  <1> QED BY <1>1, <1>5, <1>7, TasksKeep DEF RunsKept, TaskStep

-----------------------------------------------------------------------------
(* Storage, the recovery, and the stops of the worker                      *)

\* The read half of an updateJob: the copy it will send back is backed, since the
\* record and the patch are, and makes no other job "running" than the patch does.
LEMMA FetchBacked ==
    ASSUME RecordsIInv, Typing', Fetch
    PROVE  Backed' /\ Recovering'
  <1> DEFINE req == Head(q)
             js  == [store EXCEPT ![req.job] = Assign(@, req.patch)]
  <1>1. /\ up /\ q # <<>> /\ req.op \in {"create", "update"}
        /\ cache' = js /\ q' = Append(Tail(q), Save(req.kind, req.id, js))
        /\ UNCHANGED <<store, pc, job, base, host, script, posted, rpc, found, up>>
    BY DEF Fetch
  <1>2. RunsKept
    BY <1>1, OthersKeep DEF RecordsIInv
  <1>3. Ends' = Ends /\ Posts' = Posts /\ StartedJobs' = StartedJobs
    BY <1>1 DEF Ends, Posts, StartedJobs, Started, Holding, Live
  <1>4. /\ req \in BackedRequests(Ends, Posts) /\ req \in RecoverableRequests(rpc, found, StartedJobs)
        /\ Tail(q) \in Seq(BackedRequests(Ends, Posts))
        /\ Tail(q) \in Seq(RecoverableRequests(rpc, found, StartedJobs))
    BY <1>1, HeadTailProperties DEF RecordsIInv, Backed, StorageBacked, Recovering
  <1>5. /\ req.kind \in Kinds \ {"rec"} /\ req.id \in Runs \cup Ctls \cup {None}
        /\ req.patch \in Patch
    BY <1>1, <1>4 DEF BackedRequests, RecoverableRequests, Request
  <1>6. js \in JobArray
    BY <1>5, AssignTyped DEF RecordsIInv, Typing, TypeOK, JobArray
  <1>7. js \in BackedArrays(Ends, Posts)
    <2> SUFFICES ASSUME NEW j \in Jobs PROVE RecordBacked(Ends[j], Posts[j], js[j])
      BY <1>6 DEF BackedArrays
    <2>1. RecordBacked(Ends[j], Posts[j], store[j]) /\ store \in JobArray
      BY DEF RecordsIInv, Backed, StorageBacked, BackedArrays
    <2>2. CASE j # req.job
      BY <2>1, <2>2 DEF JobArray
    <2>3. CASE j = req.job
      <3>1. PatchBacked(Ends[j], Posts[j], req.patch)
        BY <1>1, <1>4, <2>3 DEF BackedRequests
      <3>2. js[j] = Assign(store[j], req.patch)
        BY <2>1, <2>3 DEF JobArray
      <3>3. RecordBacked(Ends[j], Posts[j], Assign(store[j], req.patch))
        BY <2>1, <3>1 DEF RecordBacked, PatchBacked, Assign, Pick
      <3> QED BY <3>2, <3>3
    <2> QED BY <2>2, <2>3
  <1>8. RunningIn(js) \subseteq RunningIn(store) \cup StartedJobs
    <2> SUFFICES ASSUME NEW j \in Jobs, js[j].state = "running", store[j].state # "running"
                 PROVE  j \in StartedJobs
      BY DEF RunningIn
    <2>1. j = req.job /\ js[j] = Assign(store[j], req.patch)
      BY DEF RecordsIInv, Typing, TypeOK, JobArray
    <2>2. req.patch.state = "running"
      BY <2>1 DEF Assign, Pick
    <2> QED BY <1>1, <1>4, <2>1, <2>2 DEF RecoverableRequests
  <1> DEFINE save == Save(req.kind, req.id, js)
  <1>9. rpc # "first"
    BY <1>1 DEF RecordsIInv, Recovering
  <1>10. save \in Request
    BY <1>5, <1>6, RequestsTyped
  <1>11. save.op = "set" /\ save.kind # "rec" /\ save.jobs = js
    BY <1>5 DEF Save
  <1>12. save \in BackedRequests(Ends, Posts)
    BY <1>7, <1>10, <1>11 DEF BackedRequests
  <1>13. save \in RecoverableRequests(rpc, found, StartedJobs)
    <2>1. rpc \in {"second", "write"} => RunningIn(js) \subseteq found \cup StartedJobs
      BY <1>8 DEF RecordsIInv, Recovering
    <2> HIDE DEF save, js
    <2> QED BY <1>9, <1>10, <1>11, <2>1 DEF RecoverableRequests
  <1> HIDE DEF save, js
  <1>14. /\ q' \in Seq(BackedRequests(Ends', Posts'))
         /\ q' \in Seq(RecoverableRequests(rpc', found', StartedJobs'))
    BY <1>1, <1>3, <1>4, <1>12, <1>13, AppendProperties DEF save
  <1>15. Backed'
    BY <1>1, <1>2, <1>3, <1>7, <1>14 DEF RecordsIInv, Backed, StorageBacked, RunsKept
  <1>16. Recovering'
    BY <1>1, <1>3, <1>9, <1>14 DEF RecordsIInv, Recovering, RunningIn
  <1> QED BY <1>15, <1>16

\* What the recovery reads and writes, and that it ends with no job "running" that
\* nobody has started since.
LEMMA RecoveryBacked ==
    ASSUME RecordsIInv, Typing', RecStep
    PROVE  Backed' /\ Recovering' /\ RecoveryEnds
  <1>1. UNCHANGED <<pc, job, base, host, script, posted>>
    BY DEF RecStep, SwStart, RecFirst, RecSecond, RecWritten
  <1>2. RunsKept
    BY <1>1, OthersKeep DEF RecordsIInv
  <1>3. Ends' = Ends /\ Posts' = Posts /\ StartedJobs' = StartedJobs
    BY <1>1 DEF Ends, Posts, StartedJobs, Started, Holding, Live
  <1> DEFINE B == BackedRequests(Ends, Posts)
             R(m, f) == RecoverableRequests(m, f, StartedJobs)
  <1>4. q # <<>> => /\ Head(q) \in B /\ Head(q) \in R(rpc, found)
                    /\ Tail(q) \in Seq(B) /\ Tail(q) \in Seq(R(rpc, found))
    BY HeadTailProperties DEF RecordsIInv, Backed, StorageBacked, Recovering
  <1>5. /\ Load("rec", None) \in B
        /\ \A m, f : Load("rec", None) \in R(m, f)
        /\ Load("rec", None).op = "load" /\ Load("rec", None).kind = "rec"
    <2>1. Load("rec", None) \in Request
      BY RequestsTyped DEF Kinds
    <2> QED BY <2>1 DEF Load, BackedRequests, RecoverableRequests
  <1>6. \A j \in Jobs : j \in StartedJobs' <=> Started(j)'
    BY DEF StartedJobs
  <1>7. /\ store \in JobArray
        /\ \A j \in Jobs : RecordBacked(Ends[j], Posts[j], store[j])
    BY DEF RecordsIInv, Backed, StorageBacked, BackedArrays
  <1>8. CASE SwStart
    <2>1. /\ ~up /\ up' = TRUE /\ rpc' = "first" /\ q' = <<Load("rec", None)>>
          /\ UNCHANGED <<store, cache, found>>
      BY <1>8 DEF SwStart
    <2>2. q' \in Seq(B) /\ q' \in Seq(R(rpc', found')) /\ q' # <<>> /\ Head(q') = Load("rec", None)
      BY <1>5, <2>1
    <2>3. Backed'
      BY <1>2, <1>3, <2>1, <2>2 DEF RecordsIInv, Backed, StorageBacked, RunsKept
    <2>4. Recovering'
      BY <1>3, <1>5, <2>1, <2>2 DEF Recovering
    <2> QED BY <2>1, <2>3, <2>4 DEF RecoveryEnds
  <1>9. CASE RecFirst
    <2>1. /\ rpc = "first" /\ up /\ q # <<>> /\ found' = RunningIn(store)
          /\ UNCHANGED <<store, cache, up>>
      BY <1>9 DEF RecFirst, Loaded, Mine, RunningIn
    <2>2. \A m \in {"second", "done"} : R("first", found) \subseteq R(m, found')
      BY DEF RecoverableRequests
    <2>3. \A m \in {"second", "done"} : Tail(q) \in Seq(R(m, found'))
      BY <1>4, <2>1, <2>2, SeqGrows
    <2>4. /\ rpc' \in {"second", "done"}
          /\ q' = Tail(q) \/ q' = Append(Tail(q), Load("rec", None))
      BY <1>9 DEF RecFirst
    <2>5. q' \in Seq(B) /\ q' \in Seq(R(rpc', found'))
      BY <1>4, <1>5, <2>1, <2>3, <2>4, AppendProperties
    <2>6. Backed'
      BY <1>2, <1>3, <2>1, <2>5 DEF RecordsIInv, Backed, StorageBacked, RunsKept
    <2>7. Recovering'
      BY <1>3, <2>1, <2>4, <2>5 DEF Recovering, RunningIn
    <2>8. RecoveryEnds
      BY <1>9, <2>1 DEF RecoveryEnds, RecFirst, RunningIn
    <2> QED BY <2>6, <2>7, <2>8
  <1>10. CASE RecSecond
    <2> DEFINE hit == {j \in found : store[j].state = "running"}
               js  == [j \in Jobs |-> IF j \in hit THEN Assign(store[j], Becomes("paused"))
                                                   ELSE store[j]]
               save == Save("rec", None, js)
    <2>1. /\ rpc = "second" /\ up /\ q # <<>>
          /\ \/ hit = {} /\ rpc' = "done" /\ q' = Tail(q)
             \/ rpc' = "write" /\ q' = Append(Tail(q), save)
          /\ UNCHANGED <<store, cache, found, up>>
      BY <1>10 DEF RecSecond, Loaded, Mine
    <2>2. RunningIn(store) \subseteq found \cup StartedJobs
      BY <2>1 DEF RecordsIInv, Recovering
    <2>3. \A j \in Jobs : LET rec == Assign(store[j], Becomes("paused"))
                          IN  /\ rec \in Record /\ rec.state = "paused"
                              /\ RecordBacked(Ends[j], Posts[j], rec)
      <3>1. \A j \in Jobs : Assign(store[j], Becomes("paused")) \in Record
        BY <1>7, PatchesTyped, AssignTyped DEF JobArray, States
      <3>2. "paused" # None
        BY NoneAssumption DEF States
      <3> QED BY <1>7, <3>1, <3>2 DEF Assign, Pick, Becomes, Keep, RecordBacked, Ended
    <2>4. js \in BackedArrays(Ends, Posts)
      BY <1>7, <2>3 DEF BackedArrays, JobArray
    <2>5. RunningIn(js) \subseteq StartedJobs
      BY <2>2, <2>3 DEF RunningIn
    <2>6. save \in Request /\ save.op = "set" /\ save.kind = "rec" /\ save.jobs = js
      BY <2>4, RequestsTyped DEF Save, BackedArrays, Kinds
    <2> HIDE DEF js, save
    <2>7. save \in B /\ save \in R("write", found)
      BY <2>4, <2>5, <2>6 DEF BackedRequests, RecoverableRequests
    <2>8. \A m \in {"write", "done"} : R("second", found) \subseteq R(m, found)
      BY DEF RecoverableRequests
    <2>9. \A m \in {"write", "done"} : Tail(q) \in Seq(R(m, found))
      BY <1>4, <2>1, <2>8, SeqGrows
    <2>10. q' \in Seq(B) /\ q' \in Seq(R(rpc', found'))
      <3>1. CASE rpc' = "done" /\ q' = Tail(q)
        BY <1>4, <2>1, <2>9, <3>1
      <3>2. CASE rpc' = "write" /\ q' = Append(Tail(q), save)
        <4>1. Tail(q) \in Seq(B) /\ Tail(q) \in Seq(R("write", found))
          BY <1>4, <2>1, <2>9
        <4>2. q' \in Seq(B) /\ q' \in Seq(R("write", found))
          BY <2>7, <3>2, <4>1, AppendProperties
        <4> QED BY <2>1, <3>2, <4>2
      <3> QED BY <2>1, <3>1, <3>2
    <2>11. Backed'
      BY <1>2, <1>3, <2>1, <2>10 DEF RecordsIInv, Backed, StorageBacked, RunsKept
    <2>12. Recovering'
      BY <1>3, <2>1, <2>2, <2>10 DEF Recovering, RunningIn
    <2>13. RecoveryEnds
      BY <1>3, <1>6, <2>1, <2>2 DEF RecoveryEnds, RunningIn
    <2> QED BY <2>11, <2>12, <2>13
  <1>11. CASE RecWritten
    <2>1. /\ rpc = "write" /\ rpc' = "done" /\ up /\ q # <<>> /\ q' = Tail(q)
          /\ Head(q).kind = "rec" /\ Head(q).op \in {"set", "update"} /\ Settle
          /\ UNCHANGED <<found, up>>
      BY <1>11 DEF RecWritten, Answered, Mine
    <2>2. Head(q).op = "set" /\ Head(q).jobs \in BackedArrays(Ends, Posts)
          /\ RunningIn(Head(q).jobs) \subseteq StartedJobs
      BY <1>4, <2>1 DEF BackedRequests, RecoverableRequests
    <2>3. store' = Head(q).jobs /\ cache' = Head(q).jobs
      BY <2>1, <2>2 DEF Settle
    <2>4. R("write", found) \subseteq R("done", found)
      BY DEF RecoverableRequests
    <2>5. q' \in Seq(R(rpc', found'))
      BY <1>4, <2>1, <2>4, SeqGrows
    <2>6. Backed'
      BY <1>2, <1>3, <1>4, <2>1, <2>2, <2>3 DEF Backed, StorageBacked, RunsKept
    <2>7. Recovering'
      BY <1>3, <2>1, <2>5 DEF Recovering
    <2>8. RecoveryEnds
      BY <1>3, <1>6, <2>2, <2>3 DEF RecoveryEnds, RunningIn
    <2> QED BY <2>6, <2>7, <2>8
  <1> QED BY <1>8, <1>9, <1>10, <1>11 DEF RecStep

LEMMA CrashBacked ==
    ASSUME RecordsIInv, Typing', NEW browser \in BOOLEAN, Crash(browser)
    PROVE  Backed' /\ Recovering'
  <1>1. /\ up' = FALSE /\ rpc' = "off" /\ q' = <<>> /\ cache' = None /\ pc' = Stops(pc)
        /\ UNCHANGED <<job, base, posted>>
    BY DEF Crash
  <1>2. \A t \in Runs : /\ script'[t] = script[t] \/ (script[t] = "running" /\ script'[t] = "killed")
                        /\ host'[t] = host[t] \/ (host[t] \in {"sent", "pending"} /\ host'[t] = "failed")
                        /\ host'[t] # "sent"
    BY DEF Crash, RecordsIInv, Typing, TypeOK
  <1>3. \A t \in Runs : /\ pc'[t] = "idle" => pc[t] = "idle"
                        /\ pc'[t] \in Unsent => pc[t] \in Unsent
    BY <1>1 DEF Stops, Unsent, RecordsIInv, Typing, TypeOK
  <1>4. WitnessesStay
    BY <1>1, <1>2 DEF WitnessesStay, RecordsIInv, Typing, TypeOK
  <1>5. \A j \in Jobs : Ends[j] \subseteq Ends'[j] /\ Posts[j] \subseteq Posts'[j]
    BY <1>4, WitnessesGrow DEF RecordsIInv
  <1>6. ASSUME NEW t \in Runs PROVE RunBacked(t)'
    <2>1. RunBacked(t)
      BY DEF RecordsIInv, Backed
    <2>2. job[t] \in Jobs => base[t].ckpt \in Posts'[job[t]]
      BY <1>5, <2>1 DEF RunBacked
    <2> QED BY <1>1, <1>2, <1>3, <2>1, <2>2 DEF RunBacked
  <1>7. store' \in BackedArrays(Ends, Posts)
    <2>1. \A i \in DOMAIN q : q[i] \in BackedRequests(Ends, Posts)
      BY ElementOfSeq DEF RecordsIInv, Backed, StorageBacked
    <2>2. \A i \in DOMAIN q : q[i].op = "set" => q[i].jobs \in BackedArrays(Ends, Posts)
      BY <2>1 DEF BackedRequests
    <2> QED BY <2>2 DEF Crash, RecordsIInv, Backed, StorageBacked
  <1>8. store' \in BackedArrays(Ends', Posts')
    BY <1>5, <1>7, ArraysGrow
  <1>9. q' \in Seq(BackedRequests(Ends', Posts'))
        /\ q' \in Seq(RecoverableRequests(rpc', found', StartedJobs'))
    BY <1>1
  <1>10. Backed'
    BY <1>1, <1>6, <1>8, <1>9 DEF Backed, StorageBacked
  <1>11. Recovering'
    BY <1>1, <1>9 DEF Recovering
  <1> QED BY <1>10, <1>11

-----------------------------------------------------------------------------
(* The theorems                                                            *)

LEMMA InitBacked == Init => Backed /\ Recovering
  <1> SUFFICES ASSUME Init PROVE Backed /\ Recovering
    OBVIOUS
  <1>1. NoRecord \in Record /\ NoRecord.state = "absent" /\ NoRecord.ckpt = 0
    BY DEF NoRecord, Record, States
  <1>2. \A j \in Jobs : 0 \in Posts[j]
    BY DEF Posts
  <1>3. store \in BackedArrays(Ends, Posts)
    BY <1>1, <1>2 DEF Init, BackedArrays, JobArray, RecordBacked, Ended
  <1>4. \A r \in Runs : RunBacked(r)
    BY <1>1, ConstantsAssumption DEF Init, RunBacked
  <1>5. q \in Seq(BackedRequests(Ends, Posts)) /\ q \in Seq(RecoverableRequests(rpc, found, StartedJobs))
    BY DEF Init
  <1> QED BY <1>3, <1>4, <1>5 DEF Init, Backed, StorageBacked, Recovering

\* One step of the whole system.
LEMMA StepBacked ==
    ASSUME RecordsIInv, Typing', [Next]_vars
    PROVE  Backed' /\ Recovering'
  <1>1. CASE UserStep
    BY <1>1, StartsBacked, ControlsBacked DEF UserStep
  <1>2. CASE Fetch
    BY <1>2, FetchBacked
  <1>3. ASSUME NEW r \in Runs, RunStep(r) PROVE Backed' /\ Recovering'
    BY <1>3, SwStartJobBacked, BegunBacked, OpeningBacked, CompiledBacked, ClosingBacked DEF RunStep
  <1>4. ASSUME NEW r \in Runs, HostStep(r) \/ ScriptStep(r) PROVE Backed' /\ Recovering'
    BY <1>4, SandboxBacked
  <1>5. ASSUME NEW r \in Runs, SdkStep(r) \/ ProgStep(r) PROVE Backed' /\ Recovering'
    BY <1>5, SdkBacked, ProgBacked
  <1>6. ASSUME NEW c \in Ctls, CtlStep(c) PROVE Backed' /\ Recovering'
    BY <1>6, ControlsBacked, SandboxBacked DEF CtlStep
  <1>7. CASE RecStep
    BY <1>7, RecoveryBacked
  <1>8. CASE \E browser \in BOOLEAN : Crash(browser)
    BY <1>8, CrashBacked
  <1>9. CASE UNCHANGED vars
    <2>1. UNCHANGED <<store, cache, q, pc, job, base, host, script, posted, rpc, found, up>>
      BY <1>9 DEF vars
    <2>2. RunsKept
      BY <2>1, OthersKeep DEF RecordsIInv
    <2> QED BY <2>1, <2>2, TasksKeep DEF TaskStep
  <1> QED BY <1>1, <1>2, <1>3, <1>4, <1>5, <1>6, <1>7, <1>8, <1>9 DEF Next

\* The invariant holds of every reachable state: each copy of a job's record, stored,
\* loaded by a task or about to be written, is backed by the scripts of that job.
THEOREM RecordsAreBacked == Spec => []RecordsIInv
  <1>1. Init => Backed /\ Recovering
    BY InitBacked
  <1>2. Typing /\ Typing' /\ Backed /\ Recovering /\ [Next]_vars => Backed' /\ Recovering'
    BY StepBacked DEF RecordsIInv
  <1> QED BY <1>1, <1>2, TypeCorrect, PTL DEF Spec, Typing, RecordsIInv

\* A job is recorded as completed or partial only on the strength of a script of
\* that same job that ran to its end and whose results were stored.
THEOREM CompletedJobsAreBacked == Spec => []CompletedIsBacked
  <1>1. RecordsIInv => CompletedIsBacked
    BY DEF RecordsIInv, Backed, StorageBacked, BackedArrays, RecordBacked, Ended, Ends,
       CompletedIsBacked
  <1> QED BY <1>1, RecordsAreBacked, PTL

\* A stored checkpoint was posted by a script of the same job.
THEOREM CheckpointsAreBacked == Spec => []CheckpointBacked
  <1>1. RecordsIInv => CheckpointBacked
    BY DEF RecordsIInv, Backed, StorageBacked, BackedArrays, RecordBacked, Posts,
       CheckpointBacked
  <1> QED BY <1>1, RecordsAreBacked, PTL

\* The recovery of a restarted worker leaves no interrupted job "running".
THEOREM RecoveryPausesJobs == Spec => RecoveryPauses
  <1>1. RecordsIInv /\ RecordsIInv' /\ [Next]_vars => [RecoveryEnds]_vars
    <2> SUFFICES ASSUME RecordsIInv, Typing', Next, rpc # "done", rpc' = "done" PROVE RecoveryEnds
      BY DEF RecordsIInv, RecoveryEnds
    <2>1. CASE RecStep
      BY <2>1, RecoveryBacked
    <2>2. CASE UserStep \/ Fetch
      BY <2>2 DEF UserStep, StartNew, StartResume, StartLookup, PauseOrCancel, CancelById, Fetch
    <2>3. ASSUME NEW r \in Runs, RunStep(r) PROVE FALSE
      BY <2>3 DEF RunStep, RunFound, RunCreated, RunMarked, RunBegun, RunAuditing, RunLogged,
         RunOpened, RunCompileFailed, RunCompiled, RunReturned, RunThrew, RunFlushed,
         RunFinished, RunReported
    <2>4. ASSUME NEW r \in Runs, HostStep(r) \/ ScriptStep(r) PROVE FALSE
      BY <2>4 DEF HostStep, HostExecute, HostUnavailable, HostTimeout,
         ScriptStep, ScriptCall, ScriptProgress, ScriptEnd
    <2>5. ASSUME NEW r \in Runs, SdkStep(r) \/ ProgStep(r) PROVE FALSE
      BY <2>5 DEF SdkStep, SdkDispatch, SdkOrphan, SdkFound, SdkDisowned, SdkReturned,
         ProgStep, ProgReceived, ProgSaved
    <2>6. ASSUME NEW c \in Ctls, CtlStep(c) PROVE FALSE
      BY <2>6 DEF CtlStep, CtlAborted, CtlSaved, HostAbort
    <2>7. CASE \E browser \in BOOLEAN : Crash(browser)
      BY <2>7 DEF Crash
    <2> QED BY <2>1, <2>2, <2>3, <2>4, <2>5, <2>6, <2>7 DEF Next
  <1> QED BY <1>1, RecordsAreBacked, PTL DEF Spec, RecoveryPauses
=============================================================================
