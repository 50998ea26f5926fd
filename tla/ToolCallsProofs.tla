---------------------------- MODULE ToolCallsProofs ----------------------------
(* What holds of ToolCalls for any number of calls, of a workflow's calls and  *)
(* of changes of the environment; of WorkflowSdk, the calls of a workflow's    *)
(* script, for any calls and entities; of WriteRoutes, the requests that the   *)
(* calls of any script become; of Settings, the tool that looks settings up    *)
(* along the hierarchy, for any hierarchy and settings; and of Hierarchy, the  *)
(* tool that lists it while it changes, for any entities.                      *)
EXTENDS ToolCalls, WorkflowSdk, WriteRoutes, Settings, Hierarchy, FiniteSetTheorems, SequenceTheorems, TLAPS

-----------------------------------------------------------------------------
(* The invariant, of one call                                              *)

SentRequests == [kind : ToolKinds, env : Targets]

ToolTasks ==
    [work : Work,
     stage : {"idle", "policy", "session", "asking", "sending", "suspend", "delete", "over"},
     decided : Targets \cup {"locked"}, shown : Targets \cup {"none"}, env : Targets \cup {"locked"},
     asked : 0 .. 1, inner : 0 .. MaxInner, sent : SUBSET SentRequests,
     told : {"none", "ok", "error", "cancelled", "timeout"},
     token : {"none", "active", "suspended", "deleted"}, claimed : BOOLEAN, failed : BOOLEAN]

Before == {"idle", "policy", "session", "asking"}
AskTools   == {"delete", "token", "settings"}

\* Until the user has answered nothing is sent, and no token is there.
QuietBefore(t) ==
    /\ t.stage \in Before => t.sent = {} /\ t.told = "none"
    /\ t.stage \in Before \cup {"sending"} => t.token = "none"
    /\ t.stage # "over" => t.told \in {"none", "timeout"}
    /\ t.told = "cancelled" => t.sent = {}

\* Who was asked, and how often, at every stage: the page's call before its session is
\* read, the chat's after.
AskedSoFar(t) ==
    /\ t.stage \in {"idle", "policy"} => t.asked = 0
    /\ t.stage \in {"idle", "policy", "session"} => t.env = "locked"
    /\ t.stage \in {"idle", "policy"} \/ (t.stage = "session" /\ t.work.via = "chat") => t.asked = 0 /\ t.shown = "none"
    /\ t.stage = "session" /\ t.work.via = "page" /\ t.work.tool \in AskTools => t.asked = 1
    /\ t.stage = "asking" => t.asked = 1 /\ (t.env = "locked" <=> t.work.via = "page")
    /\ t.stage \in {"sending", "suspend", "delete"} =>
          t.env # "locked" /\ (t.work.tool \in AskTools => t.asked = 1)
    /\ t.sent # {} /\ t.work.tool \in AskTools => t.asked = 1

\* What is sent goes to the environment of the credentials, in the chat the one that
\* was shown, and nothing of a plan.
SentThere(t) ==
    /\ \A r \in t.sent : r.env = t.env
    /\ t.work.via = "chat" /\ t.shown # "none" => t.env = t.shown
    /\ t.work.plan => t.sent = {}

\* The token is suspended before it is deleted, or a request has failed.
TokenOnItsWay(t) ==
    /\ t.stage = "suspend" => t.token = "active"
    /\ t.stage = "delete" => t.token = "suspended" \/ t.failed
    /\ t.stage = "over" /\ t.token \in {"active", "suspended"} => t.failed

CallSound(t) == t \in ToolTasks /\ QuietBefore(t) /\ AskedSoFar(t) /\ SentThere(t) /\ TokenOnItsWay(t)

ToolIInv ==
    /\ target \in Targets \cup {"locked"} /\ changes \in 0 .. MaxChanges
    /\ task \in [ToolCallIds -> ToolTasks]
    /\ \A c \in ToolCallIds : CallSound(task[c])

LEMMA NewTaskSound == CallSound(NewTask)
  <1> USE ToolCallsAssumption
  <1>1. NoWork \in Work
    BY DEF NoWork, Work, ToolKinds, Workflows
  <1>2. NewTask \in ToolTasks
    BY <1>1 DEF NewTask, ToolTasks, Targets
  <1> QED BY <1>2 DEF NewTask, CallSound, QuietBefore, AskedSoFar, SentThere, TokenOnItsWay, Before, NoWork

\* Only workflows are planned, and a page hands them to a Job.
LEMMA WorkKinds ==
    ASSUME NEW w \in Work
    PROVE  /\ w.tool \in ToolKinds /\ w.via \in {"chat", "page"} /\ w.plan \in BOOLEAN /\ w.dry \in BOOLEAN
           /\ w.plan => w.tool \in Workflows
           /\ w.tool \in AskTools => ~ReadOnly(w) /\ PageAsks(w) /\ ChatAsks(w)
  BY DEF Work, ToolKinds, Workflows, AskTools, ReadOnly, PageAsks, ChatAsks

-----------------------------------------------------------------------------
(* Parts of steps                                                          *)

\* An end tells what is neither a cancel nor nothing.
LEMMA ToolEndSound ==
    ASSUME NEW t \in ToolTasks, CallSound(t), t.token \in {"none", "deleted"} \/ t.failed,
           NEW told \in {"ok", "error", "timeout"}
    PROVE  CallSound(Ends(t, told))
  <1> DEFINE u == [t EXCEPT !.stage = "over", !.told = told]
  <1>1. u \in ToolTasks /\ u.stage = "over" /\ u.told = told
    BY DEF ToolTasks
  <1>2. /\ u.sent = t.sent /\ u.token = t.token /\ u.failed = t.failed /\ u.asked = t.asked
        /\ u.env = t.env /\ u.shown = t.shown /\ u.work = t.work
    BY DEF ToolTasks
  <1> HIDE DEF u
  <1>3. CallSound(u)
    BY <1>1, <1>2 DEF CallSound, QuietBefore, AskedSoFar, SentThere, TokenOnItsWay, Before
  <1> QED BY <1>3 DEF u, Ends

\* A request of a call that may send.
LEMMA ToolSendSound ==
    ASSUME NEW t \in ToolTasks, CallSound(t), t.stage = "sending", ~t.work.plan, NEW k \in ToolKinds
    PROVE  /\ Sends(t, k) \in ToolTasks /\ CallSound(Sends(t, k))
           /\ Sends(t, k).stage = "sending" /\ Sends(t, k).token = "none" /\ Sends(t, k).work = t.work
           /\ Sends(t, k).told = t.told /\ Sends(t, k).inner = t.inner
  <1> DEFINE u == [t EXCEPT !.sent = @ \cup {[kind |-> k, env |-> t.env]}]
  <1>1. t.env \in Targets
    BY DEF CallSound, AskedSoFar, ToolTasks
  <1>2. [kind |-> k, env |-> t.env] \in SentRequests
    BY <1>1 DEF SentRequests
  <1>3. u \in ToolTasks /\ u.sent = t.sent \cup {[kind |-> k, env |-> t.env]}
    BY <1>2 DEF ToolTasks
  <1>4. /\ u.stage = "sending" /\ u.token = t.token /\ u.failed = t.failed /\ u.asked = t.asked /\ u.inner = t.inner
        /\ u.env = t.env /\ u.shown = t.shown /\ u.work = t.work /\ u.told = t.told
    BY DEF ToolTasks
  <1>5. t.token = "none" /\ t.told \in {"none", "timeout"}
    BY DEF CallSound, QuietBefore
  <1> HIDE DEF u
  <1>6. CallSound(u)
    BY <1>3, <1>4, <1>5 DEF CallSound, QuietBefore, AskedSoFar, SentThere, TokenOnItsWay, Before
  <1> QED BY <1>3, <1>4, <1>5, <1>6 DEF u, Sends

\* A further call of a workflow is counted.
LEMMA CountSound ==
    ASSUME NEW t \in ToolTasks, CallSound(t), t.stage = "sending", t.inner + 1 <= MaxInner
    PROVE  LET u == [t EXCEPT !.inner = @ + 1]
           IN  u \in ToolTasks /\ CallSound(u) /\ u.stage = "sending" /\ u.work = t.work
  <1> DEFINE u == [t EXCEPT !.inner = @ + 1]
  <1>1. u \in ToolTasks
    BY ToolCallsAssumption DEF ToolTasks
  <1>2. /\ u.stage = t.stage /\ u.token = t.token /\ u.failed = t.failed /\ u.asked = t.asked /\ u.sent = t.sent
        /\ u.env = t.env /\ u.shown = t.shown /\ u.work = t.work /\ u.told = t.told
    BY DEF ToolTasks
  <1> HIDE DEF u
  <1>3. CallSound(u)
    BY <1>1, <1>2 DEF CallSound, QuietBefore, AskedSoFar, SentThere, TokenOnItsWay
  <1> QED BY <1>1, <1>2, <1>3 DEF u

\* What the fields become that a step sets, and that the others stay.
LEMMA AskingFields ==
    ASSUME NEW v \in ToolTasks, v.asked = 0, NEW e \in Targets
    PROVE  LET u == Asking(v, e)
           IN  /\ u \in ToolTasks /\ u.asked = 1 /\ u.stage = "asking" /\ u.shown = e
               /\ u.token = v.token /\ u.sent = v.sent /\ u.failed = v.failed /\ u.told = v.told
               /\ u.work = v.work /\ u.env = v.env
  <1> DEFINE u == [v EXCEPT !.stage = "asking", !.asked = 1, !.shown = e]
  <1>1. Asking(v, e) = u
    BY DEF Asking
  <1>2. u \in ToolTasks
    <2>1. ASSUME NEW w \in ToolTasks PROVE [w EXCEPT !.shown = e] \in ToolTasks
      BY DEF ToolTasks
    <2>2. ASSUME NEW w \in ToolTasks PROVE [w EXCEPT !.stage = "asking"] \in ToolTasks
      BY DEF ToolTasks
    <2>3. ASSUME NEW w \in ToolTasks PROVE [w EXCEPT !.asked = 1] \in ToolTasks
      <3>1. 1 \in 0 .. 1
        OBVIOUS
      <3> QED BY <3>1 DEF ToolTasks
    <2>4. u = [[[v EXCEPT !.asked = 1] EXCEPT !.stage = "asking"] EXCEPT !.shown = e]
      BY DEF ToolTasks
    <2> QED BY <2>1, <2>2, <2>3, <2>4
  <1>3. /\ u.asked = 1 /\ u.stage = "asking" /\ u.shown = e
        /\ u.token = v.token /\ u.sent = v.sent /\ u.failed = v.failed /\ u.told = v.told
        /\ u.work = v.work /\ u.env = v.env
    BY DEF ToolTasks
  <1> QED BY <1>1, <1>2, <1>3

LEMMA EndFields ==
    ASSUME NEW v \in ToolTasks, NEW told \in {"ok", "error", "cancelled", "timeout"}
    PROVE  LET u == Ends(v, told)
           IN  /\ u \in ToolTasks /\ u.stage = "over" /\ u.told = told
               /\ u.asked = v.asked /\ u.shown = v.shown /\ u.token = v.token /\ u.sent = v.sent
               /\ u.failed = v.failed /\ u.work = v.work /\ u.env = v.env
  BY DEF Ends, ToolTasks

LEMMA TokenFields ==
    ASSUME NEW v \in ToolTasks
    PROVE  LET u == [v EXCEPT !.stage = "suspend", !.token = "active"]
           IN  /\ u \in ToolTasks /\ u.stage = "suspend" /\ u.token = "active"
               /\ u.sent = v.sent /\ u.failed = v.failed /\ u.told = v.told /\ u.work = v.work
               /\ u.asked = v.asked /\ u.env = v.env /\ u.shown = v.shown
  BY DEF ToolTasks

-----------------------------------------------------------------------------
(* The steps of a call: each gives it a sound record.                      *)

\* The record that a step gives the call is sound.
Soundly(c) == \E t \in ToolTasks : CallSound(t) /\ Sets(c, t)

LEMMA ArrivesSound ==
    ASSUME NEW c \in ToolCallIds, task[c] \in ToolTasks, CallSound(task[c]), target \in Targets \cup {"locked"},
           NEW w \in Work, CallArrives(c, w)
    PROVE  Soundly(c)
  <1> DEFINE u == [task[c] EXCEPT !.work = w, !.stage = "policy", !.decided = target]
  <1>1. u \in ToolTasks /\ u.stage = "policy" /\ u.work = w
    BY DEF ToolTasks
  <1>2. /\ u.token = task[c].token /\ u.asked = task[c].asked /\ u.sent = task[c].sent /\ u.failed = task[c].failed
        /\ u.env = task[c].env /\ u.shown = task[c].shown /\ u.told = task[c].told /\ Sets(c, u) /\ task[c].stage = "idle"
    BY DEF ToolTasks, CallArrives
  <1> HIDE DEF u
  <1>3. CallSound(u)
    BY <1>1, <1>2 DEF CallSound, QuietBefore, AskedSoFar, SentThere, TokenOnItsWay, Before
  <1> QED BY <1>1, <1>2, <1>3 DEF Soundly

\* Before anything was asked a dialog may open, and the call goes on to its session.
LEMMA AskingSound ==
    ASSUME NEW t \in ToolTasks, CallSound(t), t.stage \in {"policy", "session"}, t.asked = 0, NEW e \in Targets,
           t.work.via = "chat" => t.stage = "session", NEW env \in Targets \cup {"locked"},
           IF t.work.via = "chat" THEN env = e ELSE env = "locked"
    PROVE  LET u == Asking([t EXCEPT !.env = env], e) IN u \in ToolTasks /\ CallSound(u)
  <1> DEFINE v == [t EXCEPT !.env = env]
             u == Asking(v, e)
  <1>1. v \in ToolTasks /\ v.env = env /\ v.asked = 0
    BY DEF ToolTasks
  <1>2. /\ v.token = t.token /\ v.sent = t.sent /\ v.failed = t.failed /\ v.told = t.told /\ v.work = t.work
    BY DEF ToolTasks
  <1> HIDE DEF v
  <1>3. u \in ToolTasks /\ u.asked = 1 /\ u.stage = "asking" /\ u.shown = e
    BY <1>1, AskingFields
  <1>4. /\ u.token = t.token /\ u.sent = t.sent /\ u.failed = t.failed /\ u.told = t.told /\ u.work = t.work /\ u.env = env
    BY <1>1, <1>2, AskingFields
  <1> HIDE DEF u
  <1>5. t.work \in Work /\ e # "locked"
    BY DEF ToolTasks, Targets
  <1>6. CallSound(u)
    BY <1>3, <1>4, <1>5, WorkKinds DEF CallSound, QuietBefore, AskedSoFar, SentThere, TokenOnItsWay, Before
  <1> QED BY <1>3, <1>6 DEF u, v

\* A call goes on to another stage; nothing else changes.
LEMMA StageSound ==
    ASSUME NEW t \in ToolTasks, CallSound(t), NEW next \in {"session", "sending"},
           t.stage \in Before,
           next = "session" =>
               /\ t.env = "locked"
               /\ t.work.via = "chat" => t.asked = 0 /\ t.shown = "none"
               /\ t.work.via = "page" /\ t.work.tool \in AskTools => t.asked = 1,
           next = "sending" => t.env # "locked" /\ (t.work.tool \in AskTools => t.asked = 1)
    PROVE  LET u == [t EXCEPT !.stage = next] IN u \in ToolTasks /\ CallSound(u)
  <1> DEFINE u == [t EXCEPT !.stage = next]
  <1>1. u \in ToolTasks /\ u.stage = next
    BY DEF ToolTasks
  <1>2. /\ u.token = t.token /\ u.sent = t.sent /\ u.failed = t.failed /\ u.told = t.told /\ u.work = t.work
        /\ u.asked = t.asked /\ u.env = t.env /\ u.shown = t.shown
    BY DEF ToolTasks
  <1> HIDE DEF u
  <1>3. CallSound(u)
    BY <1>1, <1>2 DEF CallSound, QuietBefore, AskedSoFar, SentThere, TokenOnItsWay, Before
  <1> QED BY <1>1, <1>3 DEF u

LEMMA ToolPolicySound ==
    ASSUME NEW c \in ToolCallIds, task[c] \in ToolTasks, CallSound(task[c]), target \in Targets \cup {"locked"},
           PolicyAllows(c) \/ PolicyDenies(c)
    PROVE  Soundly(c)
  <1> DEFINE t == task[c]
             session == IF t.decided = "locked" THEN target ELSE t.decided
  <1>1. t.stage = "policy" /\ t.asked = 0 /\ t.shown = "none" /\ t.env = "locked" /\ t.token = "none"
    BY DEF PolicyAllows, PolicyDenies, CallSound, AskedSoFar, QuietBefore, Before
  <1>2. t \in ToolTasks /\ t.work \in Work /\ session \in Targets \cup {"locked"}
    BY DEF ToolTasks
  <1>3. Ends(t, "error") \in ToolTasks /\ CallSound(Ends(t, "error"))
    BY <1>1, ToolEndSound DEF CallSound
  <1>4. CASE PolicyDenies(c)
    BY <1>3, <1>4 DEF PolicyDenies, Soundly
  <1>5. CASE PolicyAllows(c)
    <2>1. CASE t.work.via = "chat" \/ ReadOnly(t.work)
      <3>1. LET u == [t EXCEPT !.stage = "session"] IN u \in ToolTasks /\ CallSound(u)
        BY <1>1, <1>2, <2>1, StageSound, WorkKinds DEF Before
      <3> QED BY <1>5, <2>1, <3>1 DEF PolicyAllows, Soundly
    <2>2. CASE ~(t.work.via = "chat" \/ ReadOnly(t.work)) /\ session = "locked"
      BY <1>3, <1>5, <2>2 DEF PolicyAllows, Soundly
    <2>3. CASE ~(t.work.via = "chat" \/ ReadOnly(t.work)) /\ session # "locked" /\ PageAsks(t.work)
      <3>1. [t EXCEPT !.env = "locked"] = t
        BY <1>1, <1>2 DEF ToolTasks
      <3>2. session \in Targets
        BY <1>2, <2>3
      <3>3. Asking([t EXCEPT !.env = "locked"], session) \in ToolTasks /\ CallSound(Asking([t EXCEPT !.env = "locked"], session))
        BY <1>1, <1>2, <2>3, <3>2, AskingSound
      <3>4. Sets(c, Asking(t, session))
        BY <1>5, <2>3 DEF PolicyAllows
      <3> QED BY <3>1, <3>3, <3>4 DEF Soundly
    <2>4. CASE ~(t.work.via = "chat" \/ ReadOnly(t.work)) /\ session # "locked" /\ ~PageAsks(t.work)
      <3>1. LET u == [t EXCEPT !.stage = "session"] IN u \in ToolTasks /\ CallSound(u)
        BY <1>1, <1>2, <2>4, StageSound, WorkKinds DEF Before
      <3> QED BY <1>5, <2>4, <3>1 DEF PolicyAllows, Soundly
    <2> QED BY <2>1, <2>2, <2>3, <2>4
  <1> QED BY <1>4, <1>5

LEMMA SessionSound ==
    ASSUME NEW c \in ToolCallIds, task[c] \in ToolTasks, CallSound(task[c]), target \in Targets \cup {"locked"},
           SessionTaken(c)
    PROVE  Soundly(c)
  <1> DEFINE t == task[c]
             v == [t EXCEPT !.env = target]
  <1>1. /\ t.stage = "session" /\ t.env = "locked" /\ t.sent = {} /\ t.told = "none" /\ t.token = "none"
        /\ t.work.via = "chat" => t.asked = 0 /\ t.shown = "none"
        /\ t.work.via = "page" /\ t.work.tool \in AskTools => t.asked = 1
    BY DEF SessionTaken, CallSound, AskedSoFar, QuietBefore, Before
  <1>2. v \in ToolTasks /\ v.env = target /\ v.stage = "session" /\ v.sent = {} /\ v.told = "none" /\ v.token = "none"
        /\ v.asked = t.asked /\ v.shown = t.shown /\ v.work = t.work /\ v.failed = t.failed /\ t.work \in Work
    BY <1>1 DEF ToolTasks
  <1>3. CASE Sets(c, Ends(v, "error"))
    <2> DEFINE u == Ends(v, "error")
    <2>1. u \in ToolTasks /\ u.stage = "over" /\ u.told = "error" /\ u.sent = {} /\ u.token = "none"
          /\ u.asked = t.asked /\ u.shown = t.shown /\ u.work = t.work /\ u.env = target
      BY ZenonT(40), <1>2, EndFields
    <2> HIDE DEF u
    <2>2. u.work.via = "chat" => u.shown = "none"
      BY <1>1, <2>1
    <2>3. CallSound(u)
      BY <2>1, <2>2 DEF CallSound, QuietBefore, AskedSoFar, SentThere, TokenOnItsWay, Before
    <2>4. Sets(c, u)
      BY <1>3 DEF u
    <2> QED BY <2>1, <2>3, <2>4 DEF Soundly
  <1>4. CASE target # "locked" /\ ToolAsks(t.work) /\ Sets(c, Asking(v, target))
    <2>1. t.work.via = "chat" /\ target \in Targets
      BY <1>4 DEF ToolAsks
    <2>2. Asking(v, target) \in ToolTasks /\ CallSound(Asking(v, target))
      BY <1>1, <2>1, AskingSound
    <2> QED BY <1>4, <2>2 DEF Soundly
  <1>5. CASE target # "locked" /\ ~ToolAsks(t.work) /\ Sets(c, [v EXCEPT !.stage = "sending"])
    <2> DEFINE u == [v EXCEPT !.stage = "sending"]
    <2>1. u \in ToolTasks /\ u.stage = "sending" /\ u.told = "none" /\ u.sent = {} /\ u.token = "none"
          /\ u.asked = t.asked /\ u.shown = t.shown /\ u.work = t.work /\ u.env = target
      <3> HIDE DEF v
      <3> QED BY <1>2 DEF ToolTasks
    <2> HIDE DEF u
    <2>2. u.work.tool \in AskTools => u.asked = 1
      BY <1>1, <1>2, <1>5, <2>1, WorkKinds DEF ToolAsks
    <2>3. u.work.via = "chat" => u.shown = "none"
      BY <1>1, <2>1
    <2>4. CallSound(u)
      BY <1>5, <2>1, <2>2, <2>3 DEF CallSound, QuietBefore, AskedSoFar, SentThere, TokenOnItsWay, Before
    <2>5. Sets(c, u)
      BY <1>5 DEF u
    <2> QED BY <2>1, <2>4, <2>5 DEF Soundly
  <1>6. \/ Sets(c, Ends(v, "error"))
        \/ target # "locked" /\ Sets(c, IF ToolAsks(v.work) THEN Asking(v, target) ELSE [v EXCEPT !.stage = "sending"])
    BY DEF SessionTaken
  <1>7. v.work = t.work
    BY <1>2
  <1> HIDE DEF v
  <1> QED BY <1>3, <1>4, <1>5, <1>6, <1>7

LEMMA AnswerSound ==
    ASSUME NEW c \in ToolCallIds, task[c] \in ToolTasks, CallSound(task[c]), UserAnswers(c)
    PROVE  Soundly(c)
  <1> DEFINE t == task[c]
  <1>1. t.stage = "asking" /\ t.asked = 1 /\ (t.env = "locked" <=> t.work.via = "page") /\ t.sent = {} /\ t.token = "none"
    BY DEF UserAnswers, CallSound, AskedSoFar, QuietBefore, Before
  <1>2. t.work.via \in {"chat", "page"}
    BY WorkKinds DEF ToolTasks
  <1>3. CASE Sets(c, [t EXCEPT !.stage = IF t.env = "locked" THEN "session" ELSE "sending"])
    <2>1. LET u == [t EXCEPT !.stage = IF t.env = "locked" THEN "session" ELSE "sending"] IN u \in ToolTasks /\ CallSound(u)
      <3>1. CASE t.env = "locked"
        BY <1>1, <1>2, <3>1, StageSound DEF Before
      <3>2. CASE t.env # "locked"
        BY <1>1, <1>2, <3>2, StageSound DEF Before
      <3> QED BY <3>1, <3>2
    <2> QED BY <1>3, <2>1 DEF Soundly
  <1>4. CASE Sets(c, Ends(t, "cancelled"))
    <2> DEFINE u == [t EXCEPT !.stage = "over", !.told = "cancelled"]
    <2>1. /\ u \in ToolTasks /\ u.stage = "over" /\ u.sent = {} /\ u.token = "none"
          /\ u.work = t.work /\ u.env = t.env /\ u.shown = t.shown
      BY <1>1 DEF ToolTasks
    <2> HIDE DEF u
    <2>2. CallSound(u)
      BY <2>1 DEF CallSound, QuietBefore, AskedSoFar, SentThere, TokenOnItsWay, Before
    <2> QED BY <1>4, <2>1, <2>2 DEF Soundly, Ends, u
  <1> QED BY <1>3, <1>4 DEF UserAnswers

LEMMA ToolRequestSound ==
    ASSUME NEW c \in ToolCallIds, task[c] \in ToolTasks, CallSound(task[c]), Requested(c) \/ Rejected(c)
    PROVE  Soundly(c)
  <1> DEFINE t == task[c]
  <1>1. t.stage = "sending" /\ t.token = "none" /\ t.work \in Work
    BY DEF Requested, Rejected, CallSound, QuietBefore, ToolTasks
  <1>2. CASE Rejected(c)
    <2>1. Ends(t, "error") \in ToolTasks /\ CallSound(Ends(t, "error"))
      BY <1>1, ToolEndSound DEF CallSound
    <2> QED BY <1>2, <2>1 DEF Rejected, Soundly
  <1>3. CASE Requested(c)
    <2>1. ~t.work.plan /\ t.work.tool \in ToolKinds
      BY <1>1, <1>3, WorkKinds DEF Requested
    <2> DEFINE u == Sends(t, t.work.tool)
    <2>2. u \in ToolTasks /\ CallSound(u) /\ u.token = "none"
      BY <1>1, <2>1, ToolSendSound
    <2>3. PICK told \in {"ok", "error"} : Sets(c, Ends(u, told))
      BY <1>3 DEF Requested
    <2> HIDE DEF u
    <2>4. Ends(u, told) \in ToolTasks /\ CallSound(Ends(u, told))
      BY <2>2, ToolEndSound DEF CallSound
    <2> QED BY <2>3, <2>4 DEF Soundly
  <1> QED BY <1>2, <1>3

LEMMA TokenSound ==
    ASSUME NEW c \in ToolCallIds, task[c] \in ToolTasks, CallSound(task[c]), TokenMade(c)
    PROVE  Soundly(c)
  <1> DEFINE t == task[c]
             v == Sends(t, "token")
  <1>0. v.stage = t.stage /\ v.work = t.work /\ t.work \in Work
    BY DEF Sends, ToolTasks
  <1>1. t.stage = "sending" /\ t.work.tool = "token" /\ ~t.work.plan /\ "token" \in ToolKinds
    BY <1>0, WorkKinds DEF TokenMade, Workflows, ToolKinds
  <1>2. v \in ToolTasks /\ CallSound(v) /\ v.token = "none" /\ v.stage = "sending" /\ v.work = t.work
    BY <1>1, ToolSendSound
  <1>3. Sets(c, Ends(v, "error")) \/ Sets(c, [v EXCEPT !.stage = "suspend", !.token = "active"])
    BY DEF TokenMade
  <1> HIDE DEF v
  <1>4. CASE Sets(c, Ends(v, "error"))
    <2>1. Ends(v, "error") \in ToolTasks /\ CallSound(Ends(v, "error"))
      BY <1>2, ToolEndSound DEF CallSound
    <2> QED BY <1>4, <2>1 DEF Soundly
  <1>5. CASE Sets(c, [v EXCEPT !.stage = "suspend", !.token = "active"])
    <2> DEFINE u == [v EXCEPT !.stage = "suspend", !.token = "active"]
    <2>1. u \in ToolTasks /\ u.stage = "suspend" /\ u.token = "active"
      BY <1>2, TokenFields
    <2>2. /\ u.sent = v.sent /\ u.failed = v.failed /\ u.told = v.told /\ u.work = v.work
          /\ u.asked = v.asked /\ u.env = v.env /\ u.shown = v.shown
      BY <1>2, TokenFields
    <2> HIDE DEF u
    <2>3. CallSound(u)
      BY <1>2, <2>1, <2>2 DEF CallSound, QuietBefore, AskedSoFar, SentThere, TokenOnItsWay, Before
    <2> QED BY <1>5, <2>1, <2>3 DEF Soundly, u
  <1> QED BY <1>3, <1>4, <1>5

LEMMA CleanUpSound ==
    ASSUME NEW c \in ToolCallIds, task[c] \in ToolTasks, CallSound(task[c]), SuspendAnswered(c) \/ DeleteAnswered(c)
    PROVE  Soundly(c)
  <1> DEFINE t == task[c]
  <1>1. t.stage \in {"suspend", "delete"}
    BY DEF SuspendAnswered, DeleteAnswered
  <1>2. ASSUME NEW u \in ToolTasks, u.sent = t.sent, u.work = t.work, u.asked = t.asked, u.env = t.env, u.shown = t.shown,
               \/ u.stage = "delete" /\ u.told = t.told /\ (u.token = "suspended" \/ u.failed)
               \/ u.stage = "over" /\ u.told = "ok" /\ (u.token = "deleted" \/ u.failed),
               Sets(c, u)
        PROVE  Soundly(c)
    <2>1. CallSound(u)
      BY <1>1, <1>2 DEF CallSound, QuietBefore, AskedSoFar, SentThere, TokenOnItsWay, Before
    <2> QED BY <1>2, <2>1 DEF Soundly
  <1>3. CASE SuspendAnswered(c)
    <2>1. CASE Sets(c, [t EXCEPT !.stage = "delete", !.token = "suspended"])
      <3> DEFINE u == [t EXCEPT !.stage = "delete", !.token = "suspended"]
      <3>1. u \in ToolTasks /\ u.stage = "delete" /\ u.token = "suspended" /\ u.told = t.told
            /\ u.sent = t.sent /\ u.work = t.work /\ u.asked = t.asked /\ u.env = t.env /\ u.shown = t.shown
        BY DEF ToolTasks
      <3>2. Sets(c, u)
        BY <2>1
      <3> HIDE DEF u
      <3> QED BY <1>2, <3>1, <3>2
    <2>2. CASE Sets(c, [t EXCEPT !.stage = "delete", !.failed = TRUE])
      <3> DEFINE u == [t EXCEPT !.stage = "delete", !.failed = TRUE]
      <3>1. u \in ToolTasks /\ u.stage = "delete" /\ u.failed /\ u.told = t.told
            /\ u.sent = t.sent /\ u.work = t.work /\ u.asked = t.asked /\ u.env = t.env /\ u.shown = t.shown
        BY DEF ToolTasks
      <3>2. Sets(c, u)
        BY <2>2
      <3> HIDE DEF u
      <3> QED BY <1>2, <3>1, <3>2
    <2>3. CASE Sets(c, [Ends(t, "ok") EXCEPT !.failed = TRUE])
      <3> DEFINE u == [Ends(t, "ok") EXCEPT !.failed = TRUE]
      <3>1. u \in ToolTasks /\ u.stage = "over" /\ u.failed /\ u.told = "ok"
            /\ u.sent = t.sent /\ u.work = t.work /\ u.asked = t.asked /\ u.env = t.env /\ u.shown = t.shown
        BY DEF ToolTasks, Ends
      <3>2. Sets(c, u)
        BY <2>3
      <3> HIDE DEF u
      <3> QED BY <1>2, <3>1, <3>2
    <2> QED BY <1>3, <2>1, <2>2, <2>3 DEF SuspendAnswered
  <1>4. CASE DeleteAnswered(c)
    <2> DEFINE v == [Ends(t, "ok") EXCEPT !.claimed = TRUE]
    <2>1. v \in ToolTasks /\ v.stage = "over" /\ v.told = "ok"
          /\ v.sent = t.sent /\ v.work = t.work /\ v.asked = t.asked /\ v.env = t.env /\ v.shown = t.shown
      BY DEF ToolTasks, Ends
    <2>2. \/ Sets(c, [v EXCEPT !.token = "deleted"])
          \/ Sets(c, [v EXCEPT !.failed = TRUE])
          \/ Sets(c, [v EXCEPT !.failed = TRUE, !.claimed = FALSE])
      BY <1>4 DEF DeleteAnswered
    <2> HIDE DEF v
    <2>3. CASE Sets(c, [v EXCEPT !.token = "deleted"])
      <3> DEFINE u == [v EXCEPT !.token = "deleted"]
      <3>1. u \in ToolTasks /\ u.stage = "over" /\ u.token = "deleted" /\ u.told = "ok"
            /\ u.sent = t.sent /\ u.work = t.work /\ u.asked = t.asked /\ u.env = t.env /\ u.shown = t.shown
        BY <2>1 DEF ToolTasks
      <3>2. Sets(c, u)
        BY <2>3
      <3> HIDE DEF u
      <3> QED BY <1>2, <3>1, <3>2
    <2>4. CASE Sets(c, [v EXCEPT !.failed = TRUE])
      <3> DEFINE u == [v EXCEPT !.failed = TRUE]
      <3>1. u \in ToolTasks /\ u.stage = "over" /\ u.failed /\ u.told = "ok"
            /\ u.sent = t.sent /\ u.work = t.work /\ u.asked = t.asked /\ u.env = t.env /\ u.shown = t.shown
        BY <2>1 DEF ToolTasks
      <3>2. Sets(c, u)
        BY <2>4
      <3> HIDE DEF u
      <3> QED BY <1>2, <3>1, <3>2
    <2>5. CASE Sets(c, [v EXCEPT !.failed = TRUE, !.claimed = FALSE])
      <3> DEFINE u == [v EXCEPT !.failed = TRUE, !.claimed = FALSE]
      <3>1. u \in ToolTasks /\ u.stage = "over" /\ u.failed /\ u.told = "ok"
            /\ u.sent = t.sent /\ u.work = t.work /\ u.asked = t.asked /\ u.env = t.env /\ u.shown = t.shown
        BY <2>1 DEF ToolTasks
      <3>2. Sets(c, u)
        BY <2>5
      <3> HIDE DEF u
      <3> QED BY <1>2, <3>1, <3>2
    <2> QED BY <2>2, <2>3, <2>4, <2>5
  <1> QED BY <1>3, <1>4

LEMMA WorkflowSound ==
    ASSUME NEW c \in ToolCallIds, task[c] \in ToolTasks, CallSound(task[c]),
           DeclaredCall(c) \/ ScriptCall(c) \/ WorkflowEnds(c) \/ ScriptTimedOut(c)
    PROVE  Soundly(c)
  <1> DEFINE t == task[c]
             v == [t EXCEPT !.inner = @ + 1]
  <1>1. t.stage = "sending" /\ t.token = "none" /\ t.told \in {"none", "timeout"}
    BY DEF DeclaredCall, ScriptCall, WorkflowEnds, ScriptTimedOut, CallSound, QuietBefore, ToolTasks
  <1>2. InnerKinds \subseteq ToolKinds
    BY DEF InnerKinds, ToolKinds
  <1>3. ASSUME DeclaredCall(c) \/ ScriptCall(c) PROVE v \in ToolTasks /\ CallSound(v) /\ v.stage = "sending" /\ v.work = t.work
    <2>1. v.inner <= MaxInner /\ v.inner = t.inner + 1
      BY <1>3 DEF DeclaredCall, ScriptCall, ToolTasks
    <2> QED BY <1>1, <2>1, CountSound
  <1>4. CASE DeclaredCall(c)
    <2>1. PICK k \in InnerKinds : Sets(c, IF t.work.plan THEN v ELSE Sends(v, k))
      BY <1>4, <1>3 DEF DeclaredCall
    <2>2. v \in ToolTasks /\ CallSound(v) /\ v.stage = "sending" /\ v.work = t.work
      BY <1>3, <1>4
    <2> HIDE DEF v
    <2>3. ~t.work.plan => Sends(v, k) \in ToolTasks /\ CallSound(Sends(v, k))
      BY <1>2, <2>2, ToolSendSound
    <2> QED BY <2>1, <2>2, <2>3 DEF Soundly
  <1>5. CASE ScriptCall(c)
    <2>1. PICK k \in InnerKinds : Sets(c, Sends(v, k))
      BY <1>5 DEF ScriptCall
    <2>2. v \in ToolTasks /\ CallSound(v) /\ v.stage = "sending" /\ v.work = t.work
      BY <1>3, <1>5
    <2>3. ~t.work.plan
      BY <1>5, <2>2 DEF ScriptCall
    <2> HIDE DEF v
    <2>4. Sends(v, k) \in ToolTasks /\ CallSound(Sends(v, k))
      BY <1>2, <2>2, <2>3, ToolSendSound
    <2> QED BY <2>1, <2>4 DEF Soundly
  <1>6. CASE WorkflowEnds(c)
    <2>1. PICK told \in {"ok", "error"} : Sets(c, Ends(t, IF t.told = "timeout" THEN t.told ELSE told))
      BY <1>6 DEF WorkflowEnds
    <2>2. ASSUME NEW x \in {"ok", "error", "timeout"} PROVE Ends(t, x) \in ToolTasks /\ CallSound(Ends(t, x))
      BY <1>1, ToolEndSound DEF CallSound
    <2> QED BY <2>1, <2>2 DEF Soundly
  <1>7. CASE ScriptTimedOut(c)
    <2> DEFINE u == [t EXCEPT !.told = "timeout"]
    <2>1. u \in ToolTasks /\ u.told = "timeout" /\ Sets(c, u)
      BY <1>7 DEF ToolTasks, ScriptTimedOut
    <2>2. /\ u.sent = t.sent /\ u.failed = t.failed /\ u.token = t.token /\ u.work = t.work
          /\ u.asked = t.asked /\ u.env = t.env /\ u.shown = t.shown /\ u.stage = t.stage
      BY DEF ToolTasks
    <2> HIDE DEF u
    <2>3. CallSound(u)
      BY <1>1, <2>1, <2>2 DEF CallSound, QuietBefore, AskedSoFar, SentThere, TokenOnItsWay, Before
    <2> QED BY <2>1, <2>3 DEF Soundly
  <1> QED BY <1>4, <1>5, <1>6, <1>7

-----------------------------------------------------------------------------
(* The theorem                                                             *)

LEMMA ToolInitSound == ToolInit => ToolIInv
  BY NewTaskSound, ToolCallsAssumption DEF ToolInit, ToolIInv, CallSound

LEMMA ToolNextSound == ToolIInv /\ [ToolNext]_toolVars => ToolIInv'
  <1> SUFFICES ASSUME ToolIInv, [ToolNext]_toolVars PROVE ToolIInv'
    OBVIOUS
  <1>1. ASSUME NEW c \in ToolCallIds, ToolStep(c) PROVE Soundly(c)
    <2>1. task[c] \in ToolTasks /\ CallSound(task[c]) /\ target \in Targets \cup {"locked"}
      BY DEF ToolIInv
    <2> QED BY <1>1, <2>1, ArrivesSound, ToolPolicySound, SessionSound, AnswerSound, ToolRequestSound, TokenSound,
               CleanUpSound, WorkflowSound DEF ToolStep
  <1>2. ASSUME NEW c \in ToolCallIds, Soundly(c) PROVE ToolIInv'
    BY <1>2 DEF Soundly, Sets, ToolIInv
  <1>3. CASE TargetChanged
    <2>1. target' \in Targets \cup {"locked"} /\ task' = task
      BY <1>3 DEF TargetChanged
    <2>2. changes' \in 0 .. MaxChanges
      BY <1>3, ToolCallsAssumption DEF TargetChanged, ToolIInv
    <2> QED BY <2>1, <2>2 DEF ToolIInv
  <1>4. CASE UNCHANGED toolVars
    BY <1>4 DEF toolVars, ToolIInv
  <1> QED BY <1>1, <1>2, <1>3, <1>4 DEF ToolNext

\* However the environment changes and whoever is asked, a call that deletes was asked
\* about once, a cancelled or planned one sends nothing, the chat's goes where the
\* dialog showed, and a token is left only when its clean-up failed.
THEOREM ToolsSendAsAnswered == ToolSpec => []SentAsAnswered
  <1>1. ASSUME ToolIInv PROVE SentAsAnswered
    <2> SUFFICES ASSUME NEW c \in ToolCallIds
                 PROVE  LET t == task[c]
                        IN  /\ t.told = "cancelled" => t.sent = {}
                            /\ t.work.tool \in AskTools /\ t.sent # {} => t.asked = 1
                            /\ t.work.plan => t.sent = {}
                            /\ t.work.via = "chat" /\ t.shown # "none" => \A r \in t.sent : r.env = t.shown
                            /\ t.stage = "over" /\ t.token \in {"active", "suspended"} => t.failed
      BY DEF SentAsAnswered, CancelledSendsNothing, DeletionAskedOnce, PlanSendsNothing, ChatGoesWhereShown,
             TokenLeftOnlyOnFailure, AskTools
    <2>1. CallSound(task[c])
      BY <1>1 DEF ToolIInv
    <2> QED BY <2>1 DEF CallSound, QuietBefore, AskedSoFar, SentThere, TokenOnItsWay
  <1> QED BY <1>1, ToolInitSound, ToolNextSound, PTL DEF ToolSpec

-----------------------------------------------------------------------------
(* The writes of the sdk object                                              *)

WriteEntries ==
    [work : SdkWork,
     stage : {"idle", "resolving", "parent", "sending", "sent", "over"},
     checked : BOOLEAN, recorded : BOOLEAN, posts : 0 .. MaxKeys, applied : 0 .. MaxKeys,
     late : BOOLEAN, told : {"none", "ok", "thrown"}]

\* Before any request, and on the way of one.
UnsentWrite == {"idle", "resolving", "parent"}
OnItsWay(w) == w.stage \in {"sending", "sent"} \/ w.posts > 0

\* What is counted at every stage.
Counted(w) ==
    /\ w.stage \in UnsentWrite => w.posts = 0 /\ w.applied = 0 /\ ~w.checked /\ ~w.late
    /\ w.stage # "over" => w.told = "none"
    /\ w.stage = "sending" => w.posts < w.work.keys
    /\ w.stage = "sent" => w.applied < w.posts
    /\ w.applied <= w.posts /\ w.posts <= w.work.keys
    /\ w.told = "ok" /\ w.work.method = "settings" => w.applied = w.work.keys

\* A target that the hooks of the workflow let pass.
Aimed(launch, w) ==
    launch.host = "job" /\ launch.channel /\ w.work.method \in Guarded =>
        /\ w.work.to # "otherChannel"
        /\ w.work.to = "otherMerchant" => ~w.checked /\ launch.merchant = "asked"

\* A call that may send has passed the hooks and is in the report.
PassedHooks(launch, w) ==
    /\ w.stage = "parent" => /\ launch.host = "job" /\ launch.channel /\ launch.merchant = "asked"
                             /\ w.work.to \in {"merchant", "otherMerchant"}
    /\ OnItsWay(w) => /\ w.work.method \notin {"threeDCheck", "sendTest"} => w.recorded /\ w.work.valid
                      /\ Aimed(launch, w)
    /\ launch.host = "job" /\ w.work.method \in {"contact", "settings"} => ~w.late

WriteSound(launch, w) == w \in WriteEntries /\ Counted(w) /\ PassedHooks(launch, w)

SdkIInv ==
    /\ workflow \in Launches /\ stopped \in BOOLEAN
    /\ write \in [SdkCalls -> WriteEntries]
    /\ \A c \in SdkCalls : WriteSound(workflow, write[c])

LEMMA SdkWorkTyped ==
    ASSUME NEW w \in SdkWork
    PROVE  /\ w.method \in SdkMethods /\ w.to \in SdkTargets /\ w.keys \in 1 .. MaxKeys /\ w.valid \in BOOLEAN
           /\ w.keys \in Nat /\ w.keys >= 1 /\ (w.method # "settings" => w.keys = 1)
  BY WorkflowSdkAssumption DEF SdkWork

LEMMA RejectsSound ==
    ASSUME NEW l \in Launches, NEW w, WriteSound(l, w)
    PROVE  WriteSound(l, Rejects(w))
  <1> DEFINE r == [w EXCEPT !.stage = "over", !.told = "thrown"]
  <1>1. r \in WriteEntries
    BY DEF WriteSound, WriteEntries
  <1>2. /\ r.stage = "over" /\ r.told = "thrown" /\ r.work = w.work /\ r.posts = w.posts /\ r.applied = w.applied
        /\ r.recorded = w.recorded /\ r.checked = w.checked /\ r.late = w.late
    BY DEF WriteSound, WriteEntries
  <1>3. Rejects(w) = r
    BY DEF Rejects
  <1> HIDE DEF r
  <1>4. Counted(r)
    BY <1>2 DEF WriteSound, Counted, UnsentWrite
  <1>5. PassedHooks(l, r)
    BY <1>2 DEF WriteSound, PassedHooks, OnItsWay, Aimed
  <1> QED BY <1>1, <1>3, <1>4, <1>5 DEF WriteSound

\* A call whose target is good is recorded, and sent if its parameters are.
LEMMA AcceptedSound ==
    ASSUME NEW l \in Launches, NEW w, WriteSound(l, w), w.stage \in UnsentWrite, NEW b \in BOOLEAN,
           NEW v, v = [w EXCEPT !.checked = b], Aimed(l, v)
    PROVE  WriteSound(l, Accepted(v))
  <1> DEFINE r == [v EXCEPT !.recorded = TRUE]
             s == [r EXCEPT !.stage = "sending"]
             o == [r EXCEPT !.stage = "over", !.told = "thrown"]
  <1>1. v \in WriteEntries /\ r \in WriteEntries /\ s \in WriteEntries /\ o \in WriteEntries
    <2>1. v \in WriteEntries
      BY DEF WriteSound, WriteEntries
    <2>2. r \in WriteEntries
      BY <2>1 DEF WriteEntries
    <2> HIDE DEF r
    <2>3. s \in WriteEntries
      BY <2>2 DEF WriteEntries
    <2>4. o \in WriteEntries
      BY <2>2 DEF WriteEntries
    <2> QED BY <2>1, <2>2, <2>3, <2>4
  <1>2. /\ v.work = w.work /\ v.posts = w.posts /\ v.applied = w.applied /\ v.late = w.late
        /\ v.stage = w.stage /\ v.told = w.told
    BY DEF WriteSound, WriteEntries
  <1>3. /\ s.stage = "sending" /\ s.recorded /\ s.work = v.work /\ s.posts = v.posts /\ s.applied = v.applied
        /\ s.late = v.late /\ s.told = v.told /\ s.checked = v.checked
    BY <1>1 DEF WriteEntries
  <1>4. /\ o.stage = "over" /\ o.told = "thrown" /\ o.work = v.work /\ o.posts = v.posts /\ o.applied = v.applied
        /\ o.late = v.late /\ o.checked = v.checked
    BY <1>1 DEF WriteEntries
  <1>5. w.posts = 0 /\ w.applied = 0 /\ ~w.late /\ w.told = "none"
    BY DEF WriteSound, Counted, UnsentWrite
  <1>6. w.work.keys \in Nat /\ w.work.keys >= 1
    BY SdkWorkTyped DEF WriteSound, WriteEntries
  <1>7. Accepted(v) = IF v.work.valid THEN s ELSE o
    BY DEF Accepted, Rejects
  <1> HIDE DEF r, s, o
  <1>8. CASE v.work.valid
    <2>1. Counted(s)
      BY <1>2, <1>3, <1>5, <1>6 DEF Counted, UnsentWrite
    <2>2. PassedHooks(l, s)
      BY <1>2, <1>3, <1>5, <1>8 DEF PassedHooks, Aimed
    <2> QED BY <1>1, <1>7, <1>8, <2>1, <2>2 DEF WriteSound
  <1>9. CASE ~v.work.valid
    <2>1. Counted(o)
      BY <1>2, <1>4, <1>5, <1>6 DEF Counted, UnsentWrite
    <2>2. PassedHooks(l, o)
      BY <1>2, <1>4, <1>5 DEF PassedHooks, OnItsWay
    <2> QED BY <1>1, <1>7, <1>9, <2>1, <2>2 DEF WriteSound
  <1> QED BY <1>8, <1>9

\* The same without a comparison.
LEMMA UncheckedAccepted ==
    ASSUME NEW l \in Launches, NEW w, WriteSound(l, w), w.stage \in UnsentWrite, Aimed(l, w)
    PROVE  WriteSound(l, Accepted(w))
  <1>1. w = [w EXCEPT !.checked = FALSE] /\ FALSE \in BOOLEAN
    BY DEF WriteSound, Counted, WriteEntries
  <1> QED BY <1>1, AcceptedSound

\* A call that goes on to another stage before any request.
LEMMA SdkStageSound ==
    ASSUME NEW l \in Launches, NEW w, WriteSound(l, w), w.stage \in UnsentWrite,
           NEW st \in {"resolving", "parent", "sending"},
           st = "parent" => /\ l.host = "job" /\ l.channel /\ l.merchant = "asked"
                            /\ w.work.to \in {"merchant", "otherMerchant"},
           st = "sending" => w.work.method \in {"threeDCheck", "sendTest"}
    PROVE  WriteSound(l, [w EXCEPT !.stage = st])
  <1> DEFINE r == [w EXCEPT !.stage = st]
  <1>1. r \in WriteEntries
    BY DEF WriteSound, WriteEntries
  <1>2. /\ r.stage = st /\ r.told = w.told /\ r.work = w.work /\ r.posts = w.posts /\ r.applied = w.applied
        /\ r.recorded = w.recorded /\ r.checked = w.checked /\ r.late = w.late
    BY DEF WriteSound, WriteEntries
  <1>3. w.work.keys \in Nat /\ w.work.keys >= 1 /\ w.stage # "over"
    BY SdkWorkTyped DEF WriteSound, WriteEntries, UnsentWrite
  <1> HIDE DEF r
  <1>4. Counted(r)
    BY <1>2, <1>3 DEF WriteSound, Counted, UnsentWrite
  <1>5. PassedHooks(l, r)
    BY <1>2 DEF WriteSound, Counted, PassedHooks, OnItsWay, Aimed, Guarded, UnsentWrite
  <1> QED BY <1>1, <1>4, <1>5 DEF WriteSound, r

LEMMA HookedSound ==
    ASSUME NEW l \in Launches, l = workflow, NEW w, WriteSound(l, w), w.stage \in UnsentWrite
    PROVE  WriteSound(l, Hooked(w))
  <1> DEFINE v == [w EXCEPT !.checked = TRUE]
  <1>1. v.work = w.work /\ ~w.checked /\ w.work.to \in SdkTargets
    BY SdkWorkTyped DEF WriteSound, Counted, WriteEntries
  <1>2. l.host \in {"panel", "job"} /\ l.merchant \in {"given", "asked"}
    BY DEF Launches
  <1>3. CASE l.host = "panel" \/ ~l.channel \/ w.work.method \notin Guarded
    BY <1>2, <1>3, UncheckedAccepted DEF Hooked, Aimed
  <1>4. CASE ~(l.host = "panel" \/ ~l.channel \/ w.work.method \notin Guarded)
    <2>1. CASE w.work.to = "otherChannel"
      BY <1>4, <2>1, RejectsSound DEF Hooked
    <2>2. CASE w.work.to \notin {"merchant", "otherMerchant"} /\ w.work.to # "otherChannel"
      BY <1>4, <2>2, UncheckedAccepted DEF Hooked, Aimed
    <2>3. CASE w.work.to \in {"merchant", "otherMerchant"} /\ l.merchant = "asked"
      BY <1>2, <1>4, <2>3, SdkStageSound DEF Hooked
    <2>4. CASE w.work.to = "otherMerchant" /\ l.merchant # "asked"
      BY <1>4, <2>4, RejectsSound DEF Hooked
    <2>5. CASE w.work.to = "merchant" /\ l.merchant # "asked"
      <3>1. Aimed(l, v)
        BY <1>1, <2>5 DEF Aimed
      <3>2. WriteSound(l, Accepted(v))
        BY <3>1, AcceptedSound, TRUE \in BOOLEAN
      <3> QED BY <1>4, <2>5, <3>2 DEF Hooked
    <2> QED BY <2>1, <2>2, <2>3, <2>4, <2>5
  <1> QED BY <1>3, <1>4

-----------------------------------------------------------------------------
(* Steps                                                                     *)

LEMMA NewWriteSound == ASSUME NEW l \in Launches PROVE WriteSound(l, NewWrite)
  <1>1. NoSdkWork \in SdkWork
    BY WorkflowSdkAssumption DEF NoSdkWork, SdkWork, SdkMethods, SdkTargets
  <1>2. NewWrite \in WriteEntries
    BY <1>1, WorkflowSdkAssumption DEF NewWrite, WriteEntries
  <1> QED BY <1>2 DEF NewWrite, NoSdkWork, WriteSound, Counted, PassedHooks, OnItsWay, UnsentWrite

LEMMA SdkInitHolds == SdkInit => SdkIInv
  BY NewWriteSound DEF SdkInit, SdkIInv, WriteSound

\* A step of a call that is sound afterwards.
LEMMA WriteStepSound ==
    ASSUME SdkIInv, NEW c \in SdkCalls, NEW w, WriteIs(c, w), WriteSound(workflow, w)
    PROVE  SdkIInv'
  <1>1. /\ workflow' = workflow /\ stopped' = stopped /\ write' \in [SdkCalls -> WriteEntries]
        /\ \A d \in SdkCalls : write'[d] = IF d = c THEN w ELSE write[d]
    BY DEF WriteIs, SdkIInv, WriteSound
  <1> QED BY <1>1 DEF SdkIInv

LEMMA CallMadeSound ==
    ASSUME SdkIInv, NEW c \in SdkCalls, NEW work \in SdkWork, CallMade(c, work)
    PROVE  SdkIInv'
  <1> DEFINE w == [write[c] EXCEPT !.work = work]
             l == workflow
  <1>1. WriteSound(l, write[c]) /\ l \in Launches /\ write[c].stage = "idle"
    BY DEF SdkIInv, CallMade
  <1>2. WriteSound(l, w) /\ w.stage = "idle" /\ w.work = work
    <2>1. w \in WriteEntries
      BY <1>1 DEF WriteSound, WriteEntries
    <2>2. /\ w.stage = "idle" /\ w.told = write[c].told /\ w.work = work /\ w.posts = write[c].posts
          /\ w.applied = write[c].applied /\ w.recorded = write[c].recorded /\ w.checked = write[c].checked
          /\ w.late = write[c].late
      BY <1>1 DEF WriteSound, WriteEntries
    <2>3. work.keys \in Nat /\ work.keys >= 1
      BY SdkWorkTyped
    <2> HIDE DEF w
    <2>4. Counted(w)
      BY <1>1, <2>2, <2>3 DEF WriteSound, Counted, UnsentWrite
    <2>5. PassedHooks(l, w)
      BY <1>1, <2>2 DEF WriteSound, Counted, PassedHooks, OnItsWay, UnsentWrite
    <2> QED BY <2>1, <2>2, <2>4, <2>5 DEF WriteSound
  <1>3. w.stage \in UnsentWrite
    BY <1>2 DEF UnsentWrite
  <1>4. WriteSound(l, Rejects(w)) /\ WriteSound(l, Hooked(w)) /\ WriteSound(l, [w EXCEPT !.stage = "resolving"])
    BY <1>1, <1>2, <1>3, RejectsSound, HookedSound, SdkStageSound
  <1>5. work.method \in {"threeDCheck", "sendTest"} => WriteSound(l, [w EXCEPT !.stage = "sending"])
    BY <1>1, <1>2, <1>3, SdkStageSound
  <1>6. PICK x : /\ WriteIs(c, x)
                 /\ \/ x = Rejects(w) \/ x = Hooked(w) \/ x = [w EXCEPT !.stage = "resolving"]
                    \/ x = [w EXCEPT !.stage = "sending"] /\ work.method \in {"threeDCheck", "sendTest"}
    BY DEF CallMade
  <1> QED BY <1>4, <1>5, <1>6, WriteStepSound

LEMMA ResolvedSound ==
    ASSUME SdkIInv, NEW c \in SdkCalls, Resolved(c)
    PROVE  SdkIInv'
  <1> DEFINE w == write[c]
  <1>1. WriteSound(workflow, w) /\ workflow \in Launches /\ w.stage = "resolving" /\ w.stage \in UnsentWrite
    BY DEF SdkIInv, Resolved, UnsentWrite
  <1>2. WriteSound(workflow, Rejects(w)) /\ WriteSound(workflow, Hooked(w))
    BY <1>1, RejectsSound, HookedSound
  <1>3. w.work.method = "sendTest" => WriteSound(workflow, [w EXCEPT !.stage = "sending"])
    BY <1>1, SdkStageSound
  <1>4. PICK x : /\ WriteIs(c, x)
                 /\ \/ x = Rejects(w) \/ x = Hooked(w)
                    \/ x = [w EXCEPT !.stage = "sending"] /\ w.work.method = "sendTest"
    BY DEF Resolved
  <1> QED BY <1>2, <1>3, <1>4, WriteStepSound

LEMMA ParentSound ==
    ASSUME SdkIInv, NEW c \in SdkCalls, ParentAnswered(c)
    PROVE  SdkIInv'
  <1> DEFINE w == write[c]
             v == [w EXCEPT !.checked = TRUE]
             l == workflow
  <1>1. WriteSound(l, w) /\ l \in Launches /\ w.stage = "parent" /\ w.stage \in UnsentWrite
    BY DEF SdkIInv, ParentAnswered, UnsentWrite
  <1>2. l.merchant = "asked" /\ w.work.to \in {"merchant", "otherMerchant"} /\ ~w.checked
    BY <1>1 DEF WriteSound, PassedHooks, Counted
  <1>3. WriteSound(l, Rejects(w))
    BY <1>1, RejectsSound
  <1>4. WriteSound(l, Accepted(w))
    BY <1>1, <1>2, UncheckedAccepted DEF Aimed
  <1>5. w.work.to # "otherMerchant" => WriteSound(l, Accepted(v))
    <2>1. v.work = w.work
      BY <1>1 DEF WriteSound, WriteEntries
    <2>2. w.work.to # "otherMerchant" => Aimed(l, v)
      BY <1>2, <2>1 DEF Aimed
    <2> QED BY <1>1, <2>2, AcceptedSound, TRUE \in BOOLEAN
  <1>6. PICK x : /\ WriteIs(c, x)
                 /\ x = Rejects(w) \/ x = Accepted(w) \/ (x = Accepted(v) /\ w.work.to # "otherMerchant")
    BY DEF ParentAnswered
  <1> QED BY <1>3, <1>4, <1>5, <1>6, WriteStepSound

LEMMA PostedSound ==
    ASSUME SdkIInv, NEW c \in SdkCalls, Posted(c)
    PROVE  SdkIInv'
  <1> DEFINE w == write[c]
             p == [w EXCEPT !.stage = "sent", !.posts = @ + 1, !.late = @ \/ stopped]
             l == workflow
  <1>1. WriteSound(l, w) /\ l \in Launches /\ w.stage = "sending" /\ stopped \in BOOLEAN
    BY DEF SdkIInv, Posted
  <1>2. /\ w.posts \in Nat /\ w.applied \in Nat /\ w.posts < w.work.keys /\ w.work.keys \in 1 .. MaxKeys
        /\ w.applied <= w.posts /\ w.told = "none"
    BY <1>1, SdkWorkTyped DEF WriteSound, Counted, WriteEntries
  <1>3. p \in WriteEntries
    <2>1. w.posts + 1 \in 0 .. MaxKeys
      BY <1>2, WorkflowSdkAssumption
    <2>2. (w.late \/ stopped) \in BOOLEAN
      BY <1>1
    <2> QED BY <1>1, <2>1, <2>2 DEF WriteSound, WriteEntries
  <1>4. /\ p.stage = "sent" /\ p.told = w.told /\ p.work = w.work /\ p.posts = w.posts + 1
        /\ p.applied = w.applied /\ p.recorded = w.recorded /\ p.checked = w.checked
        /\ p.late = (w.late \/ stopped)
    BY <1>1 DEF WriteSound, WriteEntries
  <1>5. WriteSound(l, Rejects(w))
    BY <1>1, RejectsSound
  <1>6. PICK x : WriteIs(c, x) /\ (x = Rejects(w) \/ (x = p /\ ~(Signalled(w) /\ stopped)))
    BY DEF Posted
  <1> HIDE DEF p
  <1>7. ~(Signalled(w) /\ stopped) => WriteSound(l, p)
    <2>1. Counted(p)
      BY <1>2, <1>4 DEF Counted, UnsentWrite
    <2>2. ~(Signalled(w) /\ stopped) => PassedHooks(l, p)
      BY <1>1, <1>4 DEF WriteSound, PassedHooks, OnItsWay, Aimed, Signalled
    <2> QED BY <1>3, <2>1, <2>2 DEF WriteSound
  <1> QED BY <1>5, <1>6, <1>7, WriteStepSound

LEMMA PostAnsweredSound ==
    ASSUME SdkIInv, NEW c \in SdkCalls, PostAnswered(c)
    PROVE  SdkIInv'
  <1> DEFINE l == workflow
             w == IF write[c].work.method = "sendTest" THEN [write[c] EXCEPT !.recorded = TRUE] ELSE write[c]
             took(n) == [w EXCEPT !.applied = @ + n]
             goes(x) == IF x.posts < x.work.keys THEN [x EXCEPT !.stage = "sending"]
                        ELSE IF x.applied < x.work.keys /\ x.work.method \notin {"sendTest", "threeDCheck"} THEN Rejects(x)
                        ELSE [x EXCEPT !.stage = "over", !.told = "ok"]
  <1>1. WriteSound(l, write[c]) /\ l \in Launches /\ write[c].stage = "sent"
    BY DEF SdkIInv, PostAnswered
  <1>2. w \in WriteEntries /\ w.stage = "sent" /\ WriteSound(l, w)
    <2> DEFINE v == [write[c] EXCEPT !.recorded = TRUE]
    <2>1. v \in WriteEntries
      BY <1>1 DEF WriteSound, WriteEntries
    <2>2. /\ v.stage = "sent" /\ v.told = write[c].told /\ v.work = write[c].work /\ v.posts = write[c].posts
          /\ v.applied = write[c].applied /\ v.recorded /\ v.checked = write[c].checked
          /\ v.late = write[c].late
      BY <1>1 DEF WriteSound, WriteEntries
    <2> HIDE DEF v
    <2>3. WriteSound(l, v)
      BY <1>1, <2>1, <2>2 DEF WriteSound, Counted, PassedHooks, OnItsWay, Aimed, UnsentWrite
    <2> QED BY <1>1, <2>1, <2>2, <2>3 DEF v, WriteSound
  <1>3. PostAnswered(c) => \/ \E n \in {0, 1} : WriteIs(c, goes(took(n)))
                           \/ WriteIs(c, Rejects(write[c]))
    BY DEF PostAnswered
  <1> HIDE DEF w
  <1>4. ASSUME NEW n \in {0, 1} PROVE WriteSound(l, goes(took(n)))
    <2> DEFINE x == took(n)
               s == [x EXCEPT !.stage = "sending"]
               o == [x EXCEPT !.stage = "over", !.told = "ok"]
    <2>1. /\ w.posts \in Nat /\ w.applied \in Nat /\ w.posts <= w.work.keys /\ w.work.keys \in 1 .. MaxKeys
          /\ w.applied < w.posts /\ w.told = "none" /\ w.posts \in 0 .. MaxKeys
      BY <1>2, SdkWorkTyped DEF WriteSound, Counted, WriteEntries
    <2>2. x \in WriteEntries
      <3>1. w.applied + n \in 0 .. MaxKeys
        BY <2>1, WorkflowSdkAssumption
      <3> QED BY <1>2, <3>1 DEF WriteEntries
    <2>3. /\ x.stage = "sent" /\ x.told = w.told /\ x.work = w.work /\ x.posts = w.posts
          /\ x.applied = w.applied + n /\ x.recorded = w.recorded /\ x.checked = w.checked /\ x.late = w.late
      BY <1>2 DEF WriteEntries
    <2>4. /\ s.stage = "sending" /\ s.told = w.told /\ s.work = w.work /\ s.posts = w.posts
          /\ s.applied = w.applied + n /\ s.recorded = w.recorded /\ s.checked = w.checked /\ s.late = w.late
          /\ s \in WriteEntries
      BY <2>2, <2>3 DEF WriteEntries
    <2>5. /\ o.stage = "over" /\ o.told = "ok" /\ o.work = w.work /\ o.posts = w.posts
          /\ o.applied = w.applied + n /\ o.recorded = w.recorded /\ o.checked = w.checked /\ o.late = w.late
          /\ o \in WriteEntries
      BY <2>2, <2>3 DEF WriteEntries
    <2>6. goes(x) = IF x.posts < x.work.keys THEN s
                    ELSE IF x.applied < x.work.keys /\ x.work.method \notin {"sendTest", "threeDCheck"} THEN Rejects(x)
                    ELSE o
      OBVIOUS
    <2> HIDE DEF x, s, o, goes
    <2>7. CASE x.posts < x.work.keys
      <3>1. Counted(s)
        BY <2>1, <2>3, <2>4, <2>7 DEF Counted, UnsentWrite
      <3>2. PassedHooks(l, s)
        BY <1>2, <2>4 DEF WriteSound, PassedHooks, OnItsWay, Aimed
      <3> QED BY <2>4, <2>6, <2>7, <3>1, <3>2 DEF WriteSound, x
    <2>8. CASE ~(x.posts < x.work.keys)
      <3>1. x.posts = x.work.keys
        BY <2>1, <2>3, <2>8
      <3>2. CASE x.applied < x.work.keys /\ x.work.method \notin {"sendTest", "threeDCheck"}
        <4> DEFINE r == [x EXCEPT !.stage = "over", !.told = "thrown"]
        <4>1. /\ r.stage = "over" /\ r.told = "thrown" /\ r.work = w.work /\ r.posts = w.posts
              /\ r.applied = w.applied + n /\ r.recorded = w.recorded /\ r.checked = w.checked /\ r.late = w.late
              /\ r \in WriteEntries
          BY <2>2, <2>3 DEF WriteEntries
        <4>2. Rejects(x) = r
          BY DEF Rejects
        <4> HIDE DEF r
        <4>3. Counted(r)
          BY <2>1, <4>1 DEF Counted, UnsentWrite
        <4>4. PassedHooks(l, r)
          BY <1>2, <4>1 DEF WriteSound, PassedHooks, OnItsWay, Aimed
        <4> QED BY <2>6, <2>8, <3>2, <4>1, <4>2, <4>3, <4>4 DEF WriteSound, x
      <3>3. CASE ~(x.applied < x.work.keys /\ x.work.method \notin {"sendTest", "threeDCheck"})
        <4>1. Counted(o)
          BY <2>1, <2>3, <2>5, <3>1, <3>3 DEF Counted, UnsentWrite
        <4>2. PassedHooks(l, o)
          BY <1>2, <2>5 DEF WriteSound, PassedHooks, OnItsWay, Aimed
        <4> QED BY <2>5, <2>6, <2>8, <3>3, <4>1, <4>2 DEF WriteSound, x
      <3> QED BY <3>2, <3>3
    <2> QED BY <2>7, <2>8 DEF x
  <1>5. WriteSound(l, Rejects(write[c]))
    BY <1>1, RejectsSound
  <1> HIDE DEF goes, took
  <1> QED BY <1>3, <1>4, <1>5, WriteStepSound

LEMMA SdkIInvNext == SdkIInv /\ [SdkNext]_sdkVars => SdkIInv'
  <1> SUFFICES ASSUME SdkIInv, [SdkNext]_sdkVars PROVE SdkIInv'
    OBVIOUS
  <1>1. CASE UNCHANGED sdkVars
    BY <1>1 DEF sdkVars, SdkIInv
  <1>2. CASE Stops
    BY <1>2 DEF Stops, SdkIInv
  <1> QED BY <1>1, <1>2, CallMadeSound, ResolvedSound, ParentSound, PostedSound, PostAnsweredSound DEF SdkNext

LEMMA SdkInvariant == SdkSpec => []SdkIInv
  BY SdkInitHolds, SdkIInvNext, PTL DEF SdkSpec

\* Of the sdk object of a workflow script (assertWorkflowTarget of buildSwSdk): with
\* any number of calls under way, whatever the look-up of a merchant answers, a Job
\* launched on a channel sends no guarded write to another channel, nor to a merchant
\* it has compared with its own and found to be another.
THEOREM WorkflowWritesAreAimed == SdkSpec => []AimedAtContext
  <1>1. SdkIInv => AimedAtContext
    <2> SUFFICES ASSUME SdkIInv, NEW c \in SdkCalls, workflow.host = "job", workflow.channel,
                        write[c].work.method \in Guarded, write[c].posts > 0
                 PROVE  /\ write[c].work.to # "otherChannel"
                        /\ write[c].work.to = "otherMerchant" => ~write[c].checked /\ workflow.merchant = "asked"
      BY DEF AimedAtContext
    <2>1. PassedHooks(workflow, write[c])
      BY DEF SdkIInv, WriteSound
    <2> QED BY <2>1 DEF PassedHooks, OnItsWay, Aimed
  <1> QED BY <1>1, SdkInvariant, PTL

\* And of its report: a write that may have gone out is recorded, the calls that get
\* the Job's signal send nothing after the stop, and an update of settings is told as
\* done only when every key was set, for any number of calls and of keys.
THEOREM WorkflowWritesAreAccounted == SdkSpec => []WritesAreAccounted
  <1>1. ASSUME SdkIInv, NEW c \in SdkCalls
        PROVE  /\ Counted(write[c]) /\ PassedHooks(workflow, write[c])
               /\ write[c].posts \in Nat
    BY <1>1 DEF SdkIInv, WriteSound, WriteEntries
  <1>2. SdkIInv => SentIsRecorded
    BY <1>1 DEF SentIsRecorded, PassedHooks, OnItsWay
  <1>3. SdkIInv => SignalStopsWrites
    BY <1>1 DEF SignalStopsWrites, PassedHooks
  <1>4. SdkIInv => UpdatesAreWhole
    <2> SUFFICES ASSUME SdkIInv, NEW c \in SdkCalls, write[c].work.method = "settings"
                 PROVE  /\ write[c].told = "ok" => write[c].applied = write[c].work.keys
                        /\ ~write[c].work.valid => write[c].posts = 0
      BY DEF UpdatesAreWhole
    <2> QED BY <1>1 DEF Counted, PassedHooks, OnItsWay
  <1>5. SdkIInv => WritesAreAccounted
    BY <1>2, <1>3, <1>4 DEF WritesAreAccounted
  <1> QED BY <1>5, SdkInvariant, PTL

-----------------------------------------------------------------------------
(* The requests that the calls of a script become                            *)

\* A write that was announced is the one that is sent, unless it was a plan's.
AnnouncedSound ==
    routeCall.method \in RouteAnnounced =>
        /\ request # Nothing => /\ preview = Preview(routeCall) /\ request = Request(routeCall)
                                /\ routeCall.host # "plan"
        /\ routeStage = "asked" => preview = Preview(routeCall) /\ request = Nothing
        /\ routeStage \in {"sent", "returned"} /\ routeCall.host # "plan" => request # Nothing

\* Other calls are sent as they are handled.
ReadsSound ==
    routeCall.method \notin RouteAnnounced => routeStage # "asked" /\ request \in {Nothing, Handled(routeCall)}

RouteIInv ==
    /\ RouteTypeOK /\ AnnouncedSound /\ ReadsSound
    /\ routeStage = "idle" => routeCall.method = "contacts.get"

\* A set of two is not one.
LEMMA TwoAreNotOne ==
    ASSUME NEW S, IsFiniteSet(S), NEW a \in S, NEW b \in S, a # b
    PROVE  Cardinality(S) # 1 /\ Cardinality(S) > 1
  <1>1. Cardinality(S) \in Nat
    BY FS_CardinalityType
  <1>2. Cardinality(S) # 0
    BY FS_EmptySet
  <1>3. Cardinality(S) # 1
    BY FS_Singleton
  <1> QED BY <1>1, <1>2, <1>3

LEMMA FewAreFinite ==
    ASSUME NEW a, NEW b, NEW c, NEW d
    PROVE  IsFiniteSet({a, b, c}) /\ IsFiniteSet({a, b, c, d})
  <1>1. IsFiniteSet({a})
    BY FS_Singleton
  <1>2. IsFiniteSet({a} \cup {b})
    BY <1>1, FS_AddElement
  <1>3. IsFiniteSet(({a} \cup {b}) \cup {c})
    BY <1>2, FS_AddElement
  <1>4. IsFiniteSet((({a} \cup {b}) \cup {c}) \cup {d})
    BY <1>3, FS_AddElement
  <1>5. ({a} \cup {b}) \cup {c} = {a, b, c} /\ (({a} \cup {b}) \cup {c}) \cup {d} = {a, b, c, d}
    OBVIOUS
  <1> QED BY <1>3, <1>4, <1>5

-----------------------------------------------------------------------------
(* What a call becomes                                                       *)

LEMMA RouteStrings ==
    /\ RouteAnnounced \subseteq RouteMethods
    /\ \A m \in RouteAnnounced :
           \/ m \in {"entities.create", "entities.edit", "entities.delete"}
           \/ m \in {"accounts.create", "accounts.edit", "accounts.delete", "accounts.attach", "accounts.detach"}
           \/ m \in ContactWrites
    /\ \A m \in {"entities.create", "entities.edit", "entities.delete"} \cup ContactWrites
                   \cup (AccountWrites \ {"accounts.threeDCheck"}) : m \in RouteAnnounced
    /\ RouteAnnounced \cap (RouteReads \cup {"accounts.threeDCheck"}) = {}
  BY DEF RouteAnnounced, RouteMethods, RouteReads, OnEntity, OnBoth, OnObject, ContactWrites, AccountWrites

\* A request whose arguments are given is none that is not sent.
LEMMA ReqIs ==
    ASSUME NEW c, NEW level, NEW body, NEW audited
    PROVE  LET r == Req(c, level, body, audited) IN
           /\ r # Nothing <=> Needed(c.method) \subseteq c.given
           /\ r # Nothing => /\ r.verb = Verb(c.method) /\ r.body = body
                             /\ r.level = IF c.method \in OnObject THEN "none" ELSE level
                             /\ r.id = IF c.method \in OnObject THEN "object" ELSE "entity"
  <1> DEFINE r == [method |-> c.method, verb |-> Verb(c.method), body |-> body, audited |-> audited,
                   level  |-> IF c.method \in OnObject THEN "none" ELSE level,
                   id     |-> IF c.method \in OnObject THEN "object" ELSE "entity"]
  <1>1. r # Nothing
    BY DEF Nothing
  <1>2. Req(c, level, body, audited) = IF ~(Needed(c.method) \subseteq c.given) THEN Nothing ELSE r
    BY DEF Req
  <1>3. /\ r.verb = Verb(c.method) /\ r.body = body
        /\ r.level = IF c.method \in OnObject THEN "none" ELSE level
        /\ r.id = IF c.method \in OnObject THEN "object" ELSE "entity"
    OBVIOUS
  <1> HIDE DEF r
  <1> QED BY <1>1, <1>2, <1>3

\* What a Job sends for a write.
HandledBody(c) ==
    Body(c) \cup (IF c.method \in ContactWrites /\ c.password THEN {"password"} ELSE {})

LEMMA HandledIs ==
    ASSUME NEW c, c.method \in RouteAnnounced
    PROVE  LET r == Handled(c) IN
           /\ r # Nothing <=> Needed(c.method) \subseteq c.given
           /\ r # Nothing => /\ r.verb = Verb(c.method) /\ r.body = HandledBody(c)
                             /\ r.level = IF c.method \in OnObject THEN "none"
                                          ELSE IF c.method = "entities.create" THEN ParentLevel(c.child) ELSE c.level
                             /\ r.id = IF c.method \in OnObject THEN "object" ELSE "entity"
  <1>1. CASE c.method \in {"entities.create", "entities.edit", "entities.delete"}
    <2>1. c.method \notin ContactWrites \cup AccountWrites \cup RouteReads
      BY <1>1 DEF ContactWrites, AccountWrites, RouteReads
    <2>2. Handled(c) = EntityWrite(c)
      BY <1>1, <2>1 DEF Handled
    <2>3. HandledBody(c) = Body(c)
      BY <2>1 DEF HandledBody
    <2> DEFINE audited == TRUE
               level == IF c.method = "entities.create" THEN ParentLevel(c.child) ELSE c.level
    <2>4. Handled(c) = Req(c, level, Body(c), audited)
      BY <2>2 DEF EntityWrite
    <2>5. level = IF c.method = "entities.create" THEN ParentLevel(c.child) ELSE c.level
      OBVIOUS
    <2> HIDE DEF audited, level
    <2> QED BY <2>3, <2>4, <2>5, ReqIs
  <1>2. CASE c.method \in {"accounts.create", "accounts.edit", "accounts.delete", "accounts.attach", "accounts.detach"}
    <2>1. Handled(c) = AccountWrite(c)
      <3>1. c.method \in AccountWrites /\ c.method \notin ContactWrites \cup RouteReads
        BY <1>2 DEF ContactWrites, AccountWrites, RouteReads
      <3>2. c.method \notin {"entities.create", "entities.edit", "entities.delete", "entities.get", "entities.listChildren"}
        BY <1>2
      <3> QED BY <3>1, <3>2 DEF Handled
    <2>2. c.method \notin ContactWrites /\ c.method # "entities.create"
      BY <1>2 DEF ContactWrites
    <2>3. HandledBody(c) = Body(c)
      BY <2>2 DEF HandledBody
    <2> QED BY <2>1, <2>2, <2>3, ReqIs DEF AccountWrite
  <1>3. CASE c.method \in ContactWrites
    <2>1. Handled(c) = ContactWrite(c)
      BY <1>3 DEF Handled, RouteReads, AccountWrites, ContactWrites
    <2>2. c.method # "entities.create"
      BY <1>3 DEF ContactWrites
    <2>3. HandledBody(c) = Body(c) \cup (IF c.password THEN {"password"} ELSE {})
      BY <1>3 DEF HandledBody
    <2> QED BY <2>1, <2>2, <2>3, ReqIs DEF ContactWrite
  <1> QED BY <1>1, <1>2, <1>3, RouteStrings

\* What the panel's typed tools have in hand.
LEMMA CallTyped ==
    ASSUME NEW c \in RouteCalls
    PROVE  /\ c.method \in RouteMethods /\ c.level \in RouteLevels /\ c.child \in {"division", "merchant", "channel"}
           /\ c.given \subseteq {"entity", "object", "fields"} /\ c.fields \subseteq FieldKinds
           /\ "fields" \notin c.given => c.fields = {}
           /\ c.method # "contacts.resetPassword" => ~c.password
  BY DEF RouteCalls, RouteLevels

\* A tool that is generated for several levels sends to the one of the entity, and
\* one for a contact or an account to that.
LEMMA PickedIs ==
    ASSUME NEW c \in RouteCalls, c.method \in RouteAnnounced \ {"contacts.attach"},
           PathId(c) # "missing", c.host = "panel", ~Redirected(c)
    PROVE  /\ c.method \in OnObject => Picked(c) = "none" /\ PathId(c) = "object"
           /\ c.method \notin OnObject => /\ Picked(c) = c.level /\ PathId(c) = "entity" /\ "entity" \in c.given
                                          /\ c.method # "entities.create"
  <1>1. CASE c.method \in OnObject
    <2>1. Variants(c) = {}
      <3>1. c.method \in OnObject \ RouteReads
        BY <1>1, RouteStrings
      <3> QED BY <3>1 DEF Variants, OnObject, RouteReads
    <2> QED BY <1>1, <2>1 DEF Picked, PathId
  <1>2. CASE c.method = "entities.create"
    <2>1. Variants(c) = {ParentLevel(c.child)} /\ ParentLevel(c.child) \in {"psp", "division", "merchant"}
      BY <1>2, CallTyped DEF Variants, ParentLevel
    <2>2. Cardinality(Variants(c)) = 1 /\ Variants(c) # {}
      BY <2>1, FS_Singleton
    <2>3. Picked(c) = ParentLevel(c.child)
      BY <2>1, <2>2 DEF Picked
    <2>4. PathId(c) = "merchantId"
      BY <2>1, <2>2, <2>3 DEF PathId
    <2>5. Picked(c) = "merchant" /\ "merchantId" \in c.fields
      BY <2>1, <2>3, <2>4 DEF PathId
    <2> QED BY <1>2, <2>3, <2>5 DEF Redirected
  <1>3. CASE c.method \in {"contacts.create", "entities.edit", "entities.delete", "contacts.detach", "accounts.create", "accounts.attach"}
    <2>1. /\ c.method \notin OnObject /\ c.method # "entities.create"
          /\ IsFiniteSet(Variants(c)) /\ "division" \in Variants(c) /\ "merchant" \in Variants(c)
          /\ Variants(c) \subseteq RouteLevels
      <3>1. c.method \notin OnObject /\ c.method # "entities.create"
        BY <1>3 DEF OnObject
      <3>2. Variants(c) \in {{"psp", "division", "merchant"}, {"division", "merchant", "channel"}, RouteLevels}
        BY <1>3 DEF Variants
      <3>3. /\ IsFiniteSet({"psp", "division", "merchant"}) /\ IsFiniteSet({"division", "merchant", "channel"})
            /\ IsFiniteSet({"psp", "division", "merchant", "channel"})
        BY FewAreFinite
      <3> QED BY <3>1, <3>2, <3>3 DEF RouteLevels
    <2>2. Variants(c) # {} /\ Cardinality(Variants(c)) # 1 /\ Cardinality(Variants(c)) > 1
      BY <2>1, TwoAreNotOne
    <2>3. Picked(c) \in {"psp", "division"} \cup {c.level} /\ (Picked(c) = "merchant" => Picked(c) = c.level)
      BY <2>1, <2>2 DEF Picked
    <2>4. Picked(c) # "none"
      BY <2>3, CallTyped DEF RouteLevels
    <2>5. PathId(c) = "merchantId" => c.level = "merchant" /\ "merchantId" \in c.fields
      BY <2>3, <2>4 DEF PathId
    <2>6. PathId(c) # "merchantId"
      BY <2>1, <2>5 DEF Redirected
    <2> QED BY <2>1, <2>2, <2>4, <2>6 DEF PathId
  <1>4. c.method \in OnObject \/ c.method = "entities.create"
            \/ c.method \in {"contacts.create", "entities.edit", "entities.delete", "contacts.detach", "accounts.create", "accounts.attach"}
    BY RouteStrings DEF ContactWrites, OnObject
  <1> QED BY <1>1, <1>2, <1>3, <1>4

LEMMA TypedIs ==
    ASSUME NEW c \in RouteCalls, c.method \in RouteAnnounced \ {"contacts.attach"}, Typed(c) # Nothing
    PROVE  /\ PathId(c) # "missing" /\ ~("object" \in Needed(c.method) \ c.given)
           /\ c.fields \subseteq KnownFields(c) /\ RequiredFields(c) \subseteq c.fields
           /\ Typed(c).verb = Verb(c.method) /\ Typed(c).level = Picked(c) /\ Typed(c).id = PathId(c)
           /\ Typed(c).body = IF c.method \in {"accounts.create", "accounts.edit"} THEN Body(c)
                              ELSE Body(c) \ {"merchantId"}
  <1> DEFINE r == [method  |-> c.method,
                   verb    |-> Verb(c.method),
                   level   |-> Picked(c),
                   id      |-> PathId(c),
                   body    |-> IF c.method \in {"accounts.create", "accounts.edit"} THEN Body(c)
                               ELSE Body(c) \ {"merchantId"},
                   audited |-> TRUE]
  <1>1. /\ PathId(c) # "missing" /\ ~("object" \in Needed(c.method) \ c.given)
        /\ c.fields \subseteq KnownFields(c) /\ RequiredFields(c) \subseteq c.fields
    BY DEF Typed
  <1>2. Typed(c) = r
    BY <1>1 DEF Typed
  <1> QED BY <1>1, <1>2

-----------------------------------------------------------------------------
(* The steps of a call                                                       *)

\* What the arguments of accounts.create become is a call again.
LEMMA NormalisedTyped ==
    ASSUME NEW c \in RouteCalls, c.method \in AccountWrites
    PROVE  Normalised(c) \in RouteCalls /\ Normalised(c).method = c.method
  <1>1. CASE c.method # "accounts.create" \/ c.form = "positional"
    BY <1>1 DEF Normalised
  <1>2. CASE c.method = "accounts.create" /\ c.form # "positional"
    <2> DEFINE fields == c.fields \ {"merchantId"}
               given == IF "merchantId" \in c.fields /\ c.form = "flat" THEN c.given \cup {"entity"} ELSE c.given
               n == [c EXCEPT !.fields = fields, !.given = given]
    <2>1. Normalised(c) = n
      BY <1>2 DEF Normalised
    <2>2. /\ c \in [host : {"job", "panel", "plan"}, method : RouteMethods, level : RouteLevels, child : RouteLevels \ {"psp"},
                    given : SUBSET {"entity", "object", "fields"}, fields : SUBSET FieldKinds,
                    form : {"positional", "flat", "nested"}, password : BOOLEAN]
          /\ c.child = "channel" /\ "object" \notin c.given /\ "fields" \in c.given /\ ~c.password
      BY <1>2 DEF RouteCalls, OnEntity, OnBoth, OnObject
    <2>3. /\ given \in SUBSET {"entity", "object", "fields"} /\ fields \in SUBSET FieldKinds
          /\ "object" \notin given /\ "fields" \in given
      BY <2>2
    <2> HIDE DEF fields, given
    <2>4. /\ n \in [host : {"job", "panel", "plan"}, method : RouteMethods, level : RouteLevels, child : RouteLevels \ {"psp"},
                    given : SUBSET {"entity", "object", "fields"}, fields : SUBSET FieldKinds,
                    form : {"positional", "flat", "nested"}, password : BOOLEAN]
          /\ n.method = "accounts.create" /\ n.given = given /\ n.fields = fields /\ n.child = c.child
          /\ n.password = c.password
      BY <1>2, <2>2, <2>3
    <2> HIDE DEF n
    <2>5. "accounts.create" \in OnEntity /\ "accounts.create" \in WithFields
      BY DEF OnEntity, WithFields
    <2>6. n \in RouteCalls
      BY <2>2, <2>3, <2>4, <2>5 DEF RouteCalls
    <2> QED BY <1>2, <2>1, <2>4, <2>6
  <1> QED BY <1>1, <1>2

LEMMA RouteInitSound == RouteInit => RouteIInv
  <1> SUFFICES ASSUME RouteInit PROVE RouteIInv
    OBVIOUS
  <1>1. routeCall.method = "contacts.get" /\ routeStage = "idle" /\ request = Nothing
    BY DEF RouteInit
  <1>2. "contacts.get" \notin RouteAnnounced
    BY DEF RouteAnnounced, RouteReads
  <1>3. routeCall \in RouteCalls
    <2>1. "contacts.get" \in OnObject /\ "contacts.get" \in RouteMethods
      BY DEF OnObject, RouteMethods
    <2>2. "contacts.get" \notin OnEntity \cup OnBoth
      BY DEF OnEntity, OnBoth
    <2> QED BY <2>1, <2>2 DEF RouteInit, RouteCalls, RouteLevels, FieldKinds
  <1> QED BY <1>1, <1>2, <1>3 DEF RouteIInv, RouteTypeOK, AnnouncedSound, ReadsSound

\* A call that is announced.
LEMMA AsksSound ==
    ASSUME NEW c \in RouteCalls, c.method \in RouteAnnounced, Called(c), Asks(c)
    PROVE  RouteIInv'
  <1>1. routeCall' = c /\ request' = Nothing /\ preview' = Preview(c) /\ routeStage' = "asked"
    BY DEF Called, Asks
  <1>2. AnnouncedSound'
    BY <1>1 DEF AnnouncedSound
  <1>3. ReadsSound'
    BY <1>1 DEF ReadsSound
  <1> QED BY <1>1, <1>2, <1>3 DEF RouteIInv, RouteTypeOK

LEMMA ReadsKept == ASSUME NEW c \in RouteCalls, Reads(c) PROVE RouteIInv'
  <1>1. /\ c.method \notin RouteAnnounced
        /\ routeCall' = c /\ preview' = Nothing /\ request' = Handled(c) /\ routeStage' \in {"sent", "thrown", "returned"}
    BY RouteStrings DEF Reads, Called, RouteEnds
  <1>2. ReadsSound'
    BY <1>1 DEF ReadsSound
  <1>3. AnnouncedSound'
    BY <1>1 DEF AnnouncedSound
  <1> QED BY <1>1, <1>2, <1>3 DEF RouteIInv, RouteTypeOK

LEMMA WritesKept ==
    ASSUME NEW c \in RouteCalls, WritesContact(c) \/ WritesEntity(c) \/ WritesAccount(c) PROVE RouteIInv'
  <1>1. CASE WritesContact(c)
    BY <1>1, RouteStrings, AsksSound DEF WritesContact
  <1>2. CASE WritesEntity(c)
    BY <1>2, RouteStrings, AsksSound DEF WritesEntity
  <1>3. CASE WritesAccount(c)
    <2> DEFINE n == Normalised(c)
    <2>1. n \in RouteCalls /\ n.method = c.method /\ n.method \in RouteAnnounced
      BY <1>3, NormalisedTyped, RouteStrings DEF WritesAccount
    <2>2. /\ Called(n)
          /\ Asks(n) \/ (routeStage' = "thrown" /\ preview' = Nothing /\ request' = Nothing)
      BY <1>3 DEF WritesAccount
    <2> HIDE DEF n
    <2>3. CASE Asks(n)
      BY <2>1, <2>2, <2>3, AsksSound
    <2>4. CASE routeStage' = "thrown" /\ preview' = Nothing /\ request' = Nothing
      <3>1. AnnouncedSound'
        BY <2>4 DEF AnnouncedSound
      <3>2. ReadsSound'
        BY <2>4 DEF ReadsSound
      <3> QED BY <2>1, <2>2, <2>4, <3>1, <3>2 DEF RouteIInv, RouteTypeOK, Called
    <2> QED BY <2>2, <2>3, <2>4
  <1> QED BY <1>1, <1>2, <1>3

LEMMA RefusedSound == ASSUME RouteIInv, PreviewRefused PROVE RouteIInv'
  <1>1. /\ routeStage' = "thrown" /\ routeStage = "asked" /\ UNCHANGED <<routeCall, preview, request>>
        /\ routeCall.method \in RouteAnnounced
    BY DEF PreviewRefused, RouteIInv, ReadsSound
  <1>2. AnnouncedSound'
    BY <1>1 DEF RouteIInv, AnnouncedSound, Request
  <1>3. ReadsSound'
    BY <1>1 DEF ReadsSound
  <1> QED BY <1>1, <1>2, <1>3 DEF RouteIInv, RouteTypeOK

LEMMA PreviewAcceptedSound == ASSUME RouteIInv, PreviewAccepted PROVE RouteIInv'
  <1>1. /\ routeStage = "asked" /\ UNCHANGED <<routeCall, preview>>
        /\ routeCall.method \in RouteAnnounced /\ routeCall \in RouteCalls
        /\ preview = Preview(routeCall) /\ request = Nothing
    BY DEF PreviewAccepted, RouteIInv, ReadsSound, AnnouncedSound, RouteTypeOK
  <1>2. CASE routeCall.host = "plan" /\ routeStage' = "returned" /\ UNCHANGED request
    <2>1. AnnouncedSound'
      BY <1>1, <1>2 DEF AnnouncedSound
    <2>2. ReadsSound'
      BY <1>1, <1>2 DEF ReadsSound
    <2> QED BY <1>1, <1>2, <2>1, <2>2 DEF RouteIInv, RouteTypeOK
  <1>3. CASE routeCall.host # "plan" /\ RouteEnds(routeCall, Request(routeCall))
    <2>1. /\ request' = Request(routeCall) /\ routeStage' \in {"sent", "thrown"}
          /\ routeStage' = "sent" => request' # Nothing
      BY <1>1, <1>3 DEF RouteEnds, ThrowsItsError
    <2>2. Preview(routeCall)' = preview' /\ Request(routeCall)' = Request(routeCall)
      BY <1>1
    <2>3. AnnouncedSound'
      BY <1>1, <1>3, <2>1, <2>2 DEF AnnouncedSound
    <2>4. ReadsSound'
      BY <1>1, <2>1 DEF ReadsSound
    <2> QED BY <1>1, <2>1, <2>3, <2>4 DEF RouteIInv, RouteTypeOK
  <1> QED BY <1>2, <1>3 DEF PreviewAccepted

LEMMA RouteAnsweredSound == ASSUME RouteIInv, NEW ok \in BOOLEAN, RouteAnswered(ok) PROVE RouteIInv'
  <1>1. /\ routeStage = "sent" /\ routeStage' \in {"returned", "thrown"} /\ UNCHANGED <<routeCall, preview, request>>
    BY DEF RouteAnswered
  <1>2. Preview(routeCall)' = Preview(routeCall) /\ Request(routeCall)' = Request(routeCall) /\ Handled(routeCall)' = Handled(routeCall)
    BY <1>1
  <1>3. AnnouncedSound'
    BY <1>1, <1>2 DEF RouteIInv, AnnouncedSound
  <1>4. ReadsSound'
    BY <1>1, <1>2 DEF RouteIInv, ReadsSound
  <1> QED BY <1>1, <1>3, <1>4 DEF RouteIInv, RouteTypeOK

LEMMA RoutesStaySound == ASSUME RouteIInv, [RouteNext]_routeVars PROVE RouteIInv'
  <1>1. CASE UNCHANGED routeVars
    <2>1. UNCHANGED <<routeCall, routeStage, preview, request>>
      BY <1>1 DEF routeVars
    <2>2. Preview(routeCall)' = Preview(routeCall) /\ Request(routeCall)' = Request(routeCall) /\ Handled(routeCall)' = Handled(routeCall)
      BY <2>1
    <2> QED BY <2>1, <2>2 DEF RouteIInv, AnnouncedSound, ReadsSound, RouteTypeOK
  <1> QED BY <1>1, ReadsKept, WritesKept, RefusedSound, PreviewAcceptedSound, RouteAnsweredSound DEF RouteNext

-----------------------------------------------------------------------------
(* What follows of a request that was sent                                   *)

LEMMA SentIsPreviewed == ASSUME RouteIInv PROVE SentAsPreviewed
  <1> SUFFICES ASSUME request # Nothing, routeCall.method \in RouteAnnounced
               PROVE  /\ preview # Nothing /\ request.verb = preview.verb
                      /\ ~Redirected(routeCall) => request.level = preview.level /\ request.id = preview.id
    BY DEF SentAsPreviewed
  <1> DEFINE c == routeCall
  <1>1. c \in RouteCalls /\ preview = Preview(c) /\ request = Request(c) /\ c.host # "plan"
    BY DEF RouteIInv, RouteTypeOK, AnnouncedSound
  <1>2. /\ preview # Nothing /\ preview.verb = Verb(c.method)
        /\ preview.level = IF c.method \in OnObject THEN "none" ELSE c.level
        /\ preview.id = IF c.method \in OnObject THEN "object" ELSE "entity"
    BY <1>1 DEF Preview, Nothing
  <1>3. CASE request = Handled(c)
    <2>1. /\ request.verb = Verb(c.method)
          /\ request.level = IF c.method \in OnObject THEN "none"
                             ELSE IF c.method = "entities.create" THEN ParentLevel(c.child) ELSE c.level
          /\ request.id = IF c.method \in OnObject THEN "object" ELSE "entity"
      BY <1>3, HandledIs
    <2>2. ~Redirected(c) /\ c.method = "entities.create" => c.level = ParentLevel(c.child)
      BY DEF Redirected
    <2> QED BY <1>2, <2>1, <2>2
  <1>4. CASE c.host = "panel" /\ c.method # "contacts.attach"
    <2>1. request = Typed(c) /\ c.method \in RouteAnnounced \ {"contacts.attach"}
      BY <1>1, <1>4 DEF Request
    <2>2. PathId(c) # "missing" /\ request.verb = Verb(c.method) /\ request.level = Picked(c) /\ request.id = PathId(c)
      BY <1>1, <2>1, TypedIs
    <2>3. ~Redirected(c) => /\ c.method \in OnObject => Picked(c) = "none" /\ PathId(c) = "object"
                            /\ c.method \notin OnObject => Picked(c) = c.level /\ PathId(c) = "entity"
      BY <1>1, <1>4, <2>1, <2>2, PickedIs
    <2> QED BY <1>2, <2>2, <2>3
  <1> QED BY <1>1, <1>3, <1>4 DEF Request

LEMMA PanelAgrees == ASSUME RouteIInv PROVE TransportsAgree
  <1> SUFFICES ASSUME routeCall.host = "panel", request # Nothing, ~Redirected(routeCall)
               PROVE  /\ Handled(routeCall) # Nothing /\ Handled(routeCall).verb = request.verb
                      /\ Handled(routeCall).level = request.level /\ Handled(routeCall).id = request.id
                      /\ Handled(routeCall).body \ {"password"} = request.body \ {"password"}
    BY DEF TransportsAgree
  <1> DEFINE c == routeCall
  <1>1. CASE request = Handled(c)
    BY <1>1
  <1>2. CASE c.method \in RouteAnnounced /\ c.method # "contacts.attach"
    <2>1. c \in RouteCalls /\ request = Typed(c) /\ c.method \in RouteAnnounced \ {"contacts.attach"}
      BY <1>2 DEF RouteIInv, RouteTypeOK, AnnouncedSound, Request
    <2>2. /\ PathId(c) # "missing" /\ ~("object" \in Needed(c.method) \ c.given)
          /\ c.fields \subseteq KnownFields(c) /\ RequiredFields(c) \subseteq c.fields
          /\ request.verb = Verb(c.method) /\ request.level = Picked(c) /\ request.id = PathId(c)
          /\ request.body = IF c.method \in {"accounts.create", "accounts.edit"} THEN Body(c)
                            ELSE Body(c) \ {"merchantId"}
      BY <2>1, TypedIs
    <2>3. /\ c.method \in OnObject => Picked(c) = "none" /\ PathId(c) = "object"
          /\ c.method \notin OnObject => /\ Picked(c) = c.level /\ PathId(c) = "entity" /\ "entity" \in c.given
                                         /\ c.method # "entities.create"
      BY <2>1, <2>2, PickedIs
    <2>4. c.method \in WithFields => "fields" \in c.given
      BY <2>1, <2>2, CallTyped DEF RequiredFields
    <2>5. "entity" \in Needed(c.method) => "entity" \in c.given
      <3>1. c.method \in OnEntity \cup OnBoth => c.method \notin OnObject
        BY DEF OnEntity, OnBoth, OnObject
      <3> QED BY <2>3, <3>1 DEF Needed
    <2>6. Needed(c.method) \subseteq c.given
      BY <2>2, <2>4, <2>5 DEF Needed
    <2>7. /\ Handled(c) # Nothing /\ Handled(c).verb = Verb(c.method) /\ Handled(c).body = HandledBody(c)
          /\ Handled(c).level = IF c.method \in OnObject THEN "none"
                                ELSE IF c.method = "entities.create" THEN ParentLevel(c.child) ELSE c.level
          /\ Handled(c).id = IF c.method \in OnObject THEN "object" ELSE "entity"
      BY <2>1, <2>6, HandledIs
    <2>8. c.method \notin {"accounts.create", "accounts.edit"} => "merchantId" \notin Body(c)
      <3> SUFFICES ASSUME c.method \notin {"accounts.create", "accounts.edit"}, "merchantId" \in c.fields PROVE FALSE
        BY DEF Body
      <3>1. Picked(c) = "merchant"
        BY <2>2 DEF KnownFields
      <3>2. c.method \notin OnObject /\ c.level = "merchant"
        BY <2>3, <3>1
      <3> QED BY <2>3, <3>2 DEF Redirected
    <2>9. HandledBody(c) \ {"password"} = request.body \ {"password"}
      BY <2>2, <2>8 DEF HandledBody
    <2> QED BY <2>2, <2>3, <2>7, <2>9
  <1>3. request = Handled(c) \/ (c.method \in RouteAnnounced /\ c.method # "contacts.attach")
    BY DEF RouteIInv, AnnouncedSound, ReadsSound, Request
  <1> QED BY <1>1, <1>2, <1>3

\* Of every call of sdk.entities, sdk.contacts and sdk.merchantAccounts, with any
\* arguments: what is sent has the verb and the entity of the preview, a plan sends
\* nothing, a write that returns was sent, and the panel's typed tool and a Job's
\* handler send the same (executeTypedTool and the handlers of src/tools), but for
\* the redirections that the property names.
THEOREM RoutesStayTrue == RouteSpec => []RoutesAreSound
  <1>1. RouteIInv => NothingPretended
    BY DEF RouteIInv, AnnouncedSound, NothingPretended
  <1>2. RouteIInv => RoutesAreSound
    BY <1>1, SentIsPreviewed, PanelAgrees DEF RoutesAreSound
  <1> QED BY <1>2, RouteInitSound, RoutesStaySound, PTL DEF RouteSpec

-----------------------------------------------------------------------------
(* manage_settings                                                           *)

Failings == SettingValues \cup {"failed"}
Readings == [place : Places, value : Failings]
Answerings == [place : Places, value : SettingValues \cup {"unknown"}, path : Seq(Platforms)]

\* The entities and keys of a call are different.
Apart(todo) == \A i, j \in DOMAIN todo : i # j => todo[i] # todo[j]

Lookups ==
    [action : {"none", "get", "set"}, stage : {"idle", "read", "parent", "post", "over"}, todo : Seq(Places),
     at : Platforms \cup {NoPlatform}, path : Seq(Platforms), reads : SUBSET Readings,
     parents : SUBSET [of : Platforms, is : Platforms \cup {Division, NoPlatform}], answers : SUBSET Answerings]

SettingsTyped ==
    /\ settings \in moments /\ moments \in SUBSET [Places -> SettingValues]
    /\ lookup \in Lookups

\* What was read was there, and is read once.
ReadsWereTrue(l, h) ==
    /\ \A r \in l.reads : r.value # "failed" => r.value \in h[r.place]
    /\ \A r, q \in l.reads : r.place = q.place => r = q

\* On its way up: below where it is the setting is inherited.
Climbing(l, h) ==
    l.stage \in {"read", "parent", "post"} =>
        /\ l.todo # <<>> /\ l.path # <<>>
        /\ l.at \in Platforms /\ l.path[Len(l.path)] = l.at
        /\ \A i \in 1 .. Len(l.path) - 1 : "unset" \in h[<<l.path[i], Wanted(l)>>]
        /\ l.stage = "parent" => "unset" \in h[<<l.at, Wanted(l)>>]
        /\ l.stage = "post" => l.path = <<Place(l)[1]>>
        /\ l.stage = "post" <=> l.action = "set"
        /\ l.action \in {"get", "set"}

\* An answer was true; ...
WasTrue(a, h) ==
    a.value # "unknown" =>
        /\ a.value \in h[<<a.path[Len(a.path)], a.place[2]>>]
        /\ \A i \in 1 .. Len(a.path) - 1 : "unset" \in h[<<a.path[i], a.place[2]>>]
\* ... one to a "get" is what was read last, one to a "set" is the only one of its
\* entity and key, and none is for one that is still to do.
LookupAnswerSound(l, a, h) ==
    /\ a.path # <<>> /\ WasTrue(a, h)
    /\ a.value # "unknown" =>
           /\ l.action = "get" => [place |-> <<a.path[Len(a.path)], a.place[2]>>, value |-> a.value] \in l.reads
           /\ l.action = "set" => a.path = <<a.place[1]>>
    /\ \A i \in DOMAIN l.todo : l.todo[i] # a.place

AnswersSound(l, h) ==
    /\ \A a \in l.answers : LookupAnswerSound(l, a, h)
    /\ \A a, b \in l.answers : a.place = b.place => a = b
    /\ l.answers # {} => l.action \in {"get", "set"}

LookupSound(l, h) == Apart(l.todo) /\ ReadsWereTrue(l, h) /\ Climbing(l, h) /\ AnswersSound(l, h)

SettingsIInv == SettingsTyped /\ LookupSound(lookup, had)

Hads == [Places -> SUBSET SettingValues]

-----------------------------------------------------------------------------
(* Calls                                                                     *)

LEMMA EmptyLookup ==
    /\ NewLookup \in Lookups /\ NewLookup.reads = {} /\ NewLookup.answers = {} /\ NewLookup.todo = <<>>
    /\ NewLookup.stage = "idle" /\ NewLookup.action = "none"
  BY DEF NewLookup, Lookups

\* A call at rest is sound if its reads are.
LEMMA RestSound ==
    ASSUME NEW l \in Lookups, NEW h, l.stage \in {"idle", "over"}, l.todo = <<>>, l.answers = {}, ReadsWereTrue(l, h)
    PROVE  LookupSound(l, h)
  <1>1. Apart(l.todo)
    BY DEF Apart
  <1> QED BY <1>1 DEF LookupSound, Climbing, AnswersSound

\* What a platform and a key are, they had.
LEMMA HadSeen ==
    ASSUME settings \in moments, moments \in SUBSET [Places -> SettingValues]
    PROVE  /\ settings \in [Places -> SettingValues] /\ had \in Hads
           /\ \A x \in Places : settings[x] \in had[x]
  <1>1. \A x \in Places : had[x] = {s[x] : s \in moments}
    BY DEF had
  <1>2. \A x \in Places : {s[x] : s \in moments} \subseteq SettingValues
    OBVIOUS
  <1>3. had \in Hads
    BY <1>2 DEF had, Hads
  <1> QED BY <1>1, <1>3

LEMMA SettingsInitSound == SettingsInit => SettingsIInv
  <1> SUFFICES ASSUME SettingsInit PROVE SettingsIInv
    OBVIOUS
  <1>1. lookup = NewLookup
    BY DEF SettingsInit
  <1>2. SettingsTyped
    BY <1>1, EmptyLookup DEF SettingsInit, SettingsTyped
  <1>3. ReadsWereTrue(lookup, had)
    BY <1>1, EmptyLookup DEF ReadsWereTrue
  <1> QED BY <1>1, <1>2, <1>3, EmptyLookup, RestSound DEF SettingsIInv

\* What a platform and a key have had they have had.
LEMMA HadGrows ==
    ASSUME NEW l \in Lookups, NEW g \in Hads, NEW h \in Hads, LookupSound(l, g), \A x \in Places : g[x] \subseteq h[x]
    PROVE  LookupSound(l, h)
  <1>1. ReadsWereTrue(l, h)
    <2>1. \A r \in l.reads : r.place \in Places
      BY DEF Lookups, Readings
    <2> QED BY <2>1 DEF LookupSound, ReadsWereTrue
  <1>2. Climbing(l, h)
    <2> SUFFICES ASSUME l.stage \in {"read", "parent", "post"}
                 PROVE  /\ \A i \in 1 .. Len(l.path) - 1 : "unset" \in h[<<l.path[i], Wanted(l)>>]
                        /\ l.stage = "parent" => "unset" \in h[<<l.at, Wanted(l)>>]
      BY DEF LookupSound, Climbing
    <2>1. l.todo \in Seq(Places) /\ l.todo # <<>> /\ l.at \in Platforms /\ l.path \in Seq(Platforms)
      BY DEF LookupSound, Climbing, Lookups
    <2>2. Wanted(l) \in SettingKeys
      BY <2>1 DEF Wanted, Place, Places
    <2>3. \A i \in 1 .. Len(l.path) - 1 : l.path[i] \in Platforms
      BY <2>1
    <2> QED BY <2>1, <2>2, <2>3 DEF LookupSound, Climbing, Places
  <1>3. ASSUME NEW a \in l.answers PROVE LookupAnswerSound(l, a, h)
    <2>1. a.place \in Places /\ a.path \in Seq(Platforms) /\ a.path # <<>> /\ LookupAnswerSound(l, a, g)
      BY <1>3 DEF LookupSound, AnswersSound, LookupAnswerSound, Lookups, Answerings
    <2>2. a.place[2] \in SettingKeys /\ \A i \in 1 .. Len(a.path) : a.path[i] \in Platforms
      BY <2>1 DEF Places
    <2>3. Len(a.path) \in 1 .. Len(a.path) /\ \A i \in 1 .. Len(a.path) - 1 : i \in 1 .. Len(a.path)
      BY <2>1, EmptySeq, LenProperties
    <2>4. \A i \in 1 .. Len(a.path) : <<a.path[i], a.place[2]>> \in Places
      BY <2>2 DEF Places
    <2>5. WasTrue(a, h)
      BY <2>1, <2>3, <2>4 DEF LookupAnswerSound, WasTrue
    <2> QED BY <2>1, <2>5 DEF LookupAnswerSound
  <1> QED BY <1>1, <1>2, <1>3 DEF LookupSound, AnswersSound

\* The next key or entity is begun at its bottom.
LEMMA ProceedsSound ==
    ASSUME NEW l \in Lookups, NEW h, Apart(l.todo), ReadsWereTrue(l, h), AnswersSound(l, h), l.action \in {"get", "set"}
    PROVE  Proceeds(l) \in Lookups /\ LookupSound(Proceeds(l), h)
  <1>1. CASE l.todo = <<>>
    <2> DEFINE n == [l EXCEPT !.stage = "over", !.at = NoPlatform, !.path = <<>>]
    <2>1. Proceeds(l) = n
      BY <1>1 DEF Proceeds
    <2>2. /\ n \in Lookups /\ n.stage = "over" /\ n.todo = l.todo /\ n.reads = l.reads /\ n.answers = l.answers
          /\ n.action = l.action
      <3>1. <<>> \in Seq(Platforms)
        BY EmptySeq
      <3> QED BY <3>1 DEF Lookups
    <2> HIDE DEF n
    <2>3. ReadsWereTrue(n, h) /\ AnswersSound(n, h) /\ Climbing(n, h)
      BY <2>2 DEF ReadsWereTrue, AnswersSound, LookupAnswerSound, Climbing
    <2> QED BY <2>1, <2>2, <2>3 DEF LookupSound
  <1>2. CASE l.todo # <<>>
    <2> DEFINE stage == IF l.action = "set" THEN "post" ELSE "read"
               n == [l EXCEPT !.stage = stage, !.at = Place(l)[1], !.path = <<Place(l)[1]>>]
    <2>1. Proceeds(l) = n
      BY <1>2 DEF Proceeds
    <2>2. l.todo \in Seq(Places) /\ Place(l) \in Places /\ Place(l)[1] \in Platforms
      BY <1>2 DEF Lookups, Place, Places
    <2>3. stage \in {"post", "read"} /\ (stage = "post" <=> l.action = "set")
      OBVIOUS
    <2> HIDE DEF stage
    <2>4. <<Place(l)[1]>> \in Seq(Platforms) /\ Len(<<Place(l)[1]>>) = 1
      BY <2>2
    <2>5. /\ n \in Lookups /\ n.stage = stage /\ n.todo = l.todo /\ n.reads = l.reads /\ n.answers = l.answers
          /\ n.action = l.action /\ n.at = Place(l)[1] /\ n.path = <<Place(l)[1]>>
      BY <2>2, <2>3, <2>4 DEF Lookups
    <2> HIDE DEF n
    <2>6. ReadsWereTrue(n, h) /\ AnswersSound(n, h)
      BY <2>5 DEF ReadsWereTrue, AnswersSound, LookupAnswerSound
    <2>7. Place(n) = Place(l)
      BY <2>5 DEF Place
    <2>8. Climbing(n, h)
      BY <1>2, <2>2, <2>3, <2>4, <2>5, <2>7 DEF Climbing
    <2> QED BY <2>1, <2>5, <2>6, <2>8 DEF LookupSound
  <1> QED BY <1>1, <1>2

\* A key or entity is answered, and the next begun.
LEMMA LookupAnsweredSound ==
    ASSUME NEW l \in Lookups, NEW h, LookupSound(l, h), l.stage \in {"read", "parent", "post"},
           NEW v \in SettingValues \cup {"unknown"},
           v # "unknown" => /\ v \in h[<<l.at, Wanted(l)>>]
                            /\ l.action = "get" => [place |-> <<l.at, Wanted(l)>>, value |-> v] \in l.reads
    PROVE  Answered(l, v) \in Lookups /\ LookupSound(Answered(l, v), h)
  <1> DEFINE a == [place |-> Place(l), value |-> v, path |-> l.path]
             n == [l EXCEPT !.todo = Tail(l.todo), !.answers = l.answers \cup {a}]
  <1>1. /\ l.todo \in Seq(Places) /\ l.todo # <<>> /\ l.path \in Seq(Platforms) /\ l.path # <<>>
        /\ l.at \in Platforms /\ l.path[Len(l.path)] = l.at
    BY DEF LookupSound, Climbing, Lookups
  <1>2. /\ Place(l) \in Places /\ Tail(l.todo) \in Seq(Places) /\ Place(l) = l.todo[1]
        /\ Len(Tail(l.todo)) = Len(l.todo) - 1 /\ Len(l.todo) \in Nat \ {0}
        /\ \A i \in 1 .. Len(Tail(l.todo)) : Tail(l.todo)[i] = l.todo[i + 1]
    BY <1>1, HeadTailProperties, EmptySeq DEF Place
  <1>3. a \in Answerings /\ a.place = Place(l) /\ a.value = v /\ a.path = l.path /\ a.place[2] = Wanted(l)
    BY <1>1, <1>2 DEF Answerings, Wanted
  <1>4. Answered(l, v) = Proceeds(n)
    BY DEF Answered
  <1> HIDE DEF a
  <1>5. /\ n \in Lookups /\ n.todo = Tail(l.todo) /\ n.answers = l.answers \cup {a} /\ n.reads = l.reads
        /\ n.action = l.action /\ n.path = l.path
    BY <1>2, <1>3 DEF Lookups
  <1> HIDE DEF n
  <1>6. DOMAIN l.todo = 1 .. Len(l.todo) /\ DOMAIN n.todo = 1 .. Len(l.todo) - 1
    BY <1>1, <1>2, <1>5
  <1>7. \A i \in DOMAIN n.todo : n.todo[i] = l.todo[i + 1] /\ i + 1 \in DOMAIN l.todo /\ i + 1 # 1 /\ 1 \in DOMAIN l.todo
    BY <1>2, <1>5, <1>6
  <1>8. \A i, j \in DOMAIN l.todo : i # j => l.todo[i] # l.todo[j]
    BY DEF LookupSound, Apart
  <1>9. Apart(n.todo)
    <2> SUFFICES ASSUME NEW i \in DOMAIN n.todo, NEW j \in DOMAIN n.todo, i # j PROVE n.todo[i] # n.todo[j]
      BY DEF Apart
    <2>1. i \in Nat /\ j \in Nat /\ i + 1 # j + 1
      BY <1>6
    <2> QED BY <1>7, <1>8, <2>1
  <1>10. \A i \in DOMAIN n.todo : n.todo[i] # a.place
    BY <1>2, <1>3, <1>7, <1>8
  <1>11. ReadsWereTrue(n, h)
    BY <1>5 DEF LookupSound, ReadsWereTrue
  <1>12. ASSUME NEW b \in l.answers PROVE LookupAnswerSound(n, b, h) /\ b.place # a.place
    <2>1. LookupAnswerSound(l, b, h)
      BY <1>12 DEF LookupSound, AnswersSound
    <2>2. b.place # a.place
      BY SMTT(30), <1>2, <1>3, <1>6, <2>1 DEF LookupAnswerSound
    <2>3. \A i \in DOMAIN n.todo : n.todo[i] # b.place
      BY <1>7, <2>1 DEF LookupAnswerSound
    <2> QED BY <1>5, <2>1, <2>2, <2>3 DEF LookupAnswerSound
  <1>13. WasTrue(a, h)
    <2>1. \A i \in 1 .. Len(l.path) - 1 : "unset" \in h[<<l.path[i], Wanted(l)>>]
      BY DEF LookupSound, Climbing
    <2> QED BY <1>1, <1>3, <2>1 DEF WasTrue
  <1>14. LookupAnswerSound(n, a, h)
    <2>1. l.action = "set" => l.path = <<Place(l)[1]>>
      BY DEF LookupSound, Climbing
    <2> QED BY <1>1, <1>3, <1>5, <1>10, <1>13, <2>1 DEF LookupAnswerSound
  <1>15. n.action \in {"get", "set"}
    BY <1>5 DEF LookupSound, Climbing
  <1>16. AnswersSound(n, h)
    <2>1. \A b, c \in l.answers : b.place = c.place => b = c
      BY DEF LookupSound, AnswersSound
    <2>2. \A b \in n.answers : b = a \/ b \in l.answers
      BY <1>5
    <2>3. \A b \in n.answers : LookupAnswerSound(n, b, h)
      BY <1>12, <1>14, <2>2
    <2>4. \A b, c \in n.answers : b.place = c.place => b = c
      BY <1>12, <2>1, <2>2
    <2> QED BY <1>15, <2>3, <2>4 DEF AnswersSound
  <1> QED BY <1>4, <1>5, <1>9, <1>11, <1>15, <1>16, ProceedsSound

\* The keys and entities of a call are a list of different ones.
LEMMA OrdersApart ==
    ASSUME NEW todo \in Orders PROVE todo \in Seq(Places) /\ Apart(todo)
  <1>1. ASSUME NEW n \in Int, NEW s \in [1 .. n -> Places] PROVE s \in Seq(Places)
    <2>1. CASE n \in Nat
      BY <2>1
    <2>2. CASE n \notin Nat
      <3>1. 1 .. n = 1 .. 0
        BY <2>2
      <3> QED BY <3>1
    <2> QED BY <2>1, <2>2
  <1>2. Cardinality(Platforms) - 1 \in Int /\ Cardinality(SettingKeys) \in Int
    BY SettingsAssumption, FS_CardinalityType
  <1>3. CASE todo \in [1 .. 1 -> Places]
    <2> DEFINE n == 1
    <2>1. todo \in Seq(Places)
      <3>1. n \in Int /\ todo \in [1 .. n -> Places]
        BY <1>3
      <3> HIDE DEF n
      <3> QED BY <1>1, <3>1
    <2>2. \A i, j \in DOMAIN todo : i = j
      BY <1>3
    <2> QED BY <2>1, <2>2 DEF Apart
  <1>4. CASE /\ todo \in [1 .. Cardinality(Platforms) - 1 -> Places]
             /\ \A i, j \in DOMAIN todo : i # j => todo[i][1] # todo[j][1] /\ todo[i][2] = todo[j][2]
    BY <1>1, <1>2, <1>4 DEF Apart
  <1>5. CASE /\ todo \in [1 .. Cardinality(SettingKeys) -> Places]
             /\ \A i, j \in DOMAIN todo : i # j => todo[i][1] = todo[j][1] /\ todo[i][2] # todo[j][2]
    BY <1>1, <1>2, <1>5 DEF Apart
  <1> QED BY <1>3, <1>4, <1>5 DEF Orders

LEMMA SettingsCalledSound == ASSUME SettingsIInv, SettingsCalled PROVE SettingsIInv'
  <1>1. PICK action \in {"get", "set"}, todo \in Orders : lookup' = Proceeds(Begun(action, todo))
    BY DEF SettingsCalled
  <1>2. UNCHANGED <<settings, moments>>
    BY DEF SettingsCalled
  <1> DEFINE l == Begun(action, todo)
  <1>3. todo \in Seq(Places) /\ Apart(todo)
    BY OrdersApart
  <1>4. l \in Lookups /\ l.todo = todo /\ l.reads = {} /\ l.answers = {} /\ l.action = action
    BY <1>3, EmptyLookup DEF Begun, Lookups
  <1> HIDE DEF l
  <1>5. ReadsWereTrue(l, had') /\ AnswersSound(l, had')
    BY <1>4 DEF ReadsWereTrue, AnswersSound
  <1>6. lookup' \in Lookups /\ LookupSound(lookup', had')
    BY <1>1, <1>3, <1>4, <1>5, ProceedsSound DEF l
  <1>7. SettingsTyped'
    BY <1>2, <1>6 DEF SettingsIInv, SettingsTyped
  <1> QED BY <1>6, <1>7 DEF SettingsIInv

\* A call goes on while the settings stay.
LEMMA LookupGoesOn ==
    ASSUME SettingsIInv, UNCHANGED <<settings, moments>>, lookup' \in Lookups, LookupSound(lookup', had)
    PROVE  SettingsIInv'
  <1>1. SettingsTyped'
    BY DEF SettingsIInv, SettingsTyped
  <1>2. had' = had
    BY DEF had
  <1> QED BY <1>1, <1>2 DEF SettingsIInv

-----------------------------------------------------------------------------
(* Reading and writing                                                       *)

\* What a call has at hand on its way.
LEMMA LookupAtHand ==
    ASSUME SettingsIInv
    PROVE  /\ lookup \in Lookups /\ LookupSound(lookup, had) /\ had \in Hads
           /\ settings \in [Places -> SettingValues] /\ \A x \in Places : settings[x] \in had[x]
           /\ lookup.stage \in {"read", "parent", "post"} =>
                  /\ lookup.todo \in Seq(Places) /\ lookup.todo # <<>> /\ lookup.at \in Platforms
                  /\ lookup.path \in Seq(Platforms) /\ lookup.path # <<>>
                  /\ Wanted(lookup) \in SettingKeys /\ Place(lookup) \in Places
                  /\ <<lookup.at, Wanted(lookup)>> \in Places
  <1>1. /\ lookup \in Lookups /\ LookupSound(lookup, had) /\ had \in Hads
        /\ settings \in [Places -> SettingValues] /\ \A x \in Places : settings[x] \in had[x]
    BY HadSeen DEF SettingsIInv, SettingsTyped
  <1>2. ASSUME lookup.stage \in {"read", "parent", "post"}
        PROVE  /\ lookup.todo \in Seq(Places) /\ lookup.todo # <<>> /\ lookup.at \in Platforms
               /\ lookup.path \in Seq(Platforms) /\ lookup.path # <<>>
    BY <1>1, <1>2 DEF LookupSound, Climbing, Lookups
  <1>3. ASSUME lookup.stage \in {"read", "parent", "post"}
        PROVE  Wanted(lookup) \in SettingKeys /\ Place(lookup) \in Places /\ <<lookup.at, Wanted(lookup)>> \in Places
    <2>1. Place(lookup) \in Places
      BY <1>2, <1>3 DEF Place
    <2> QED BY <1>2, <1>3, <2>1 DEF Wanted, Places
  <1> QED BY <1>1, <1>2, <1>3

LEMMA SettingReadSound == ASSUME SettingsIInv, SettingRead PROVE SettingsIInv'
  <1> DEFINE l == lookup
             place == <<l.at, Wanted(l)>>
             answers == IF Cached(l) # {} THEN Cached(l)
                        ELSE [place : {place}, value : {settings[place], "failed"}]
  <1>1. /\ l.stage = "read" /\ UNCHANGED <<settings, moments>>
        /\ l \in Lookups /\ LookupSound(l, had) /\ had \in Hads
        /\ settings \in [Places -> SettingValues] /\ settings[place] \in had[place] /\ place \in Places
    BY LookupAtHand DEF SettingRead
  <1>2. PICK r \in answers :
            LET kept == [l EXCEPT !.reads = @ \cup {r}]
            IN  lookup' = CASE r.value = "unset"  -> [kept EXCEPT !.stage = "parent"]
                            [] r.value = "failed" -> Answered(kept, "unknown")
                            [] OTHER              -> Answered(kept, r.value)
    BY DEF SettingRead
  <1> DEFINE kept == [l EXCEPT !.reads = l.reads \cup {r}]
  <1>3. r \in Readings /\ r.place = place /\ (r.value # "failed" => r.value \in had[place])
    <2>1. CASE Cached(l) # {}
      <3>1. r \in l.reads /\ r.place = place
        BY <2>1 DEF Cached
      <3> QED BY <1>1, <3>1 DEF LookupSound, ReadsWereTrue, Lookups
    <2>2. CASE Cached(l) = {}
      BY <1>1, <2>2 DEF Readings, Failings
    <2> QED BY <2>1, <2>2
  <1>4. \A q \in l.reads : q.place = place => q = r
    <2>1. CASE Cached(l) # {}
      <3>1. r \in l.reads /\ r.place = place
        BY <2>1 DEF Cached
      <3> QED BY <1>1, <3>1 DEF LookupSound, ReadsWereTrue
    <2>2. CASE Cached(l) = {}
      BY <2>2 DEF Cached
    <2> QED BY <2>1, <2>2
  <1>5. r = [place |-> place, value |-> r.value] /\ r.value \in Failings
    BY <1>3 DEF Readings
  <1>6. place = <<l.at, Wanted(l)>>
    OBVIOUS
  <1> HIDE DEF place, answers
  <1>7. /\ kept \in Lookups /\ kept.stage = "read" /\ kept.todo = l.todo /\ kept.at = l.at /\ kept.path = l.path
        /\ kept.reads = l.reads \cup {r} /\ kept.answers = l.answers /\ kept.action = l.action
    BY <1>1, <1>3 DEF Lookups
  <1> HIDE DEF kept
  <1>8. Wanted(kept) = Wanted(l) /\ Place(kept) = Place(l)
    BY <1>7 DEF Wanted, Place
  <1>9. ReadsWereTrue(kept, had)
    BY <1>1, <1>3, <1>4, <1>7 DEF LookupSound, ReadsWereTrue
  <1>10. Climbing(kept, had)
    BY <1>1, <1>7, <1>8 DEF LookupSound, Climbing
  <1>11. AnswersSound(kept, had) /\ Apart(kept.todo)
    BY <1>1, <1>7 DEF LookupSound, AnswersSound, LookupAnswerSound
  <1>12. LookupSound(kept, had)
    BY <1>9, <1>10, <1>11 DEF LookupSound
  <1>13. CASE r.value = "unset"
    <2> DEFINE n == [kept EXCEPT !.stage = "parent"]
    <2>1. lookup' = n
      BY <1>2, <1>13 DEF kept
    <2>2. /\ n \in Lookups /\ n.stage = "parent" /\ n.todo = kept.todo /\ n.at = kept.at /\ n.path = kept.path
          /\ n.reads = kept.reads /\ n.answers = kept.answers /\ n.action = kept.action
      BY <1>7 DEF Lookups
    <2> HIDE DEF n
    <2>3. Wanted(n) = Wanted(kept) /\ Place(n) = Place(kept)
      BY <2>2 DEF Wanted, Place
    <2>4. "unset" \in had[<<n.at, Wanted(n)>>]
      BY <1>3, <1>6, <1>7, <1>8, <1>13, <2>2, <2>3
    <2>5. Climbing(n, had)
      BY <1>7, <1>10, <2>2, <2>3, <2>4 DEF Climbing
    <2>6. LookupSound(n, had)
      BY <1>9, <1>11, <2>2, <2>5 DEF LookupSound, ReadsWereTrue, AnswersSound, LookupAnswerSound
    <2> QED BY <1>1, <2>1, <2>2, <2>6, LookupGoesOn
  <1>14. CASE r.value = "failed"
    <2>1. lookup' = Answered(kept, "unknown")
      BY <1>2, <1>14 DEF kept
    <2> QED BY <1>1, <1>7, <1>12, <2>1, LookupAnsweredSound, LookupGoesOn
  <1>15. CASE r.value \notin {"unset", "failed"}
    <2>1. lookup' = Answered(kept, r.value)
      BY <1>2, <1>15 DEF kept
    <2>2. r.value \in SettingValues \cup {"unknown"}
      BY <1>5, <1>15 DEF Failings
    <2>3. /\ r.value \in had[<<kept.at, Wanted(kept)>>]
          /\ [place |-> <<kept.at, Wanted(kept)>>, value |-> r.value] \in kept.reads
      BY <1>3, <1>5, <1>6, <1>7, <1>8, <1>15
    <2> QED BY <1>1, <1>7, <1>12, <2>1, <2>2, <2>3, LookupAnsweredSound, LookupGoesOn
  <1> QED BY <1>13, <1>14, <1>15

LEMMA ParentFoundSound == ASSUME SettingsIInv, ParentFound PROVE SettingsIInv'
  <1> DEFINE l == lookup
             known == {r \in l.parents : r.of = l.at}
             answers == IF known # {} THEN known ELSE [of : {l.at}, is : {ParentOf[l.at], NoPlatform}]
  <1>1. /\ l.stage = "parent" /\ UNCHANGED <<settings, moments>>
        /\ l \in Lookups /\ LookupSound(l, had) /\ l.at \in Platforms
        /\ l.path \in Seq(Platforms) /\ l.path # <<>>
    BY LookupAtHand DEF ParentFound
  <1>2. PICK r \in answers :
            LET kept == [l EXCEPT !.parents = @ \cup {r}]
            IN  lookup' = IF r.is \notin Platforms \/ Len(l.path) = MaxDepth
                          THEN Answered(kept, "unknown")
                          ELSE [kept EXCEPT !.stage = "read", !.at = r.is, !.path = Append(@, r.is)]
    BY DEF ParentFound
  <1> DEFINE kept == [l EXCEPT !.parents = l.parents \cup {r}]
  <1>3. r \in [of : Platforms, is : Platforms \cup {Division, NoPlatform}]
    <2>1. CASE known # {}
      BY <1>1, <2>1 DEF Lookups
    <2>2. CASE known = {}
      BY <1>1, <2>2, SettingsAssumption
    <2> QED BY <2>1, <2>2
  <1> HIDE DEF answers, known
  <1>4. /\ kept \in Lookups /\ kept.stage = "parent" /\ kept.todo = l.todo /\ kept.at = l.at /\ kept.path = l.path
        /\ kept.reads = l.reads /\ kept.answers = l.answers /\ kept.action = l.action
    BY <1>1, <1>3 DEF Lookups
  <1>5. CASE r.is \notin Platforms \/ Len(l.path) = MaxDepth
    <2>1. lookup' = Answered(kept, "unknown")
      BY <1>2, <1>5
    <2> HIDE DEF kept
    <2>2. Wanted(kept) = Wanted(l) /\ Place(kept) = Place(l)
      BY <1>4 DEF Wanted, Place
    <2>3. Climbing(kept, had)
      BY <1>1, <1>4, <2>2 DEF LookupSound, Climbing
    <2>4. LookupSound(kept, had)
      BY <1>1, <1>4, <2>3 DEF LookupSound, ReadsWereTrue, AnswersSound, LookupAnswerSound
    <2> QED BY <1>1, <1>4, <2>1, <2>4, LookupAnsweredSound, LookupGoesOn
  <1>6. CASE ~(r.is \notin Platforms \/ Len(l.path) = MaxDepth)
    <2> DEFINE path == Append(l.path, r.is)
               n == [kept EXCEPT !.stage = "read", !.at = r.is, !.path = path]
    <2>1. lookup' = n
      BY <1>2, <1>6
    <2>2. /\ path \in Seq(Platforms) /\ path # <<>> /\ Len(path) = Len(l.path) + 1 /\ path[Len(path)] = r.is
          /\ \A i \in 1 .. Len(l.path) : path[i] = l.path[i]
          /\ Len(l.path) \in Nat \ {0}
      BY <1>1, <1>6, AppendProperties, EmptySeq
    <2> HIDE DEF path, kept
    <2>3. /\ n \in Lookups /\ n.stage = "read" /\ n.todo = l.todo /\ n.at = r.is /\ n.path = path
          /\ n.reads = l.reads /\ n.answers = l.answers /\ n.action = l.action
      BY <1>4, <1>6, <2>2 DEF Lookups
    <2> HIDE DEF n
    <2>4. Wanted(n) = Wanted(l) /\ Place(n) = Place(l)
      BY <2>3 DEF Wanted, Place
    <2>5. \A i \in 1 .. Len(l.path) : "unset" \in had[<<l.path[i], Wanted(l)>>]
      <3> SUFFICES ASSUME NEW i \in 1 .. Len(l.path) PROVE "unset" \in had[<<l.path[i], Wanted(l)>>]
        OBVIOUS
      <3>1. CASE i = Len(l.path)
        BY <1>1, <3>1 DEF LookupSound, Climbing
      <3>2. CASE i # Len(l.path)
        <4>1. i \in 1 .. Len(l.path) - 1
          BY <2>2, <3>2
        <4> QED BY <1>1, <4>1 DEF LookupSound, Climbing
      <3> QED BY <3>1, <3>2
    <2>6. \A i \in 1 .. Len(n.path) - 1 : "unset" \in had[<<n.path[i], Wanted(n)>>]
      <3> SUFFICES ASSUME NEW i \in 1 .. Len(n.path) - 1 PROVE "unset" \in had[<<n.path[i], Wanted(n)>>]
        OBVIOUS
      <3>1. i \in 1 .. Len(l.path)
        BY <2>2, <2>3
      <3> QED BY <2>2, <2>3, <2>4, <2>5, <3>1
    <2>7. l.todo # <<>> /\ l.action \in {"get", "set"} /\ l.action # "set"
      BY <1>1 DEF LookupSound, Climbing
    <2>8. Climbing(n, had)
      BY <1>6, <2>2, <2>3, <2>6, <2>7 DEF Climbing
    <2>9. LookupSound(n, had)
      BY <1>1, <2>3, <2>8 DEF LookupSound, ReadsWereTrue, AnswersSound, LookupAnswerSound
    <2> QED BY <1>1, <2>1, <2>3, <2>9, LookupGoesOn
  <1> QED BY <1>5, <1>6

\* A value that is taken was had.
LEMMA TakenWasHad ==
    ASSUME SettingsIInv, NEW x \in Places, NEW v \in SettingValues, TakesValue(x, v)
    PROVE  /\ settings' \in [Places -> SettingValues] /\ had' \in Hads
           /\ settings' \in moments' /\ moments' \in SUBSET [Places -> SettingValues]
           /\ \A y \in Places : settings'[y] \in had'[y] /\ had[y] \subseteq had'[y]
           /\ v \in had'[x] /\ LookupSound(lookup, had')
  <1>1. /\ settings' \in [Places -> SettingValues] /\ had' \in Hads
        /\ settings' \in moments' /\ moments' \in SUBSET [Places -> SettingValues]
        /\ \A y \in Places : settings'[y] \in had'[y] /\ had[y] \subseteq had'[y]
        /\ v \in had'[x]
    <2>1. /\ settings \in [Places -> SettingValues] /\ settings' = [settings EXCEPT ![x] = v]
          /\ moments' = moments \cup {settings'} /\ moments \in SUBSET [Places -> SettingValues]
      BY LookupAtHand DEF TakesValue, SettingsIInv, SettingsTyped
    <2>2. settings' \in [Places -> SettingValues] /\ settings'[x] = v
      BY <2>1
    <2>3. settings' \in moments' /\ moments' \in SUBSET [Places -> SettingValues]
      BY <2>1, <2>2
    <2>4. \A y \in Places : had[y] = {s[y] : s \in moments} /\ had'[y] = {s[y] : s \in moments'}
      BY DEF had
    <2>5. \A y \in Places : had[y] \subseteq had'[y] /\ settings'[y] \in had'[y]
      BY <2>1, <2>4
    <2>6. \A y \in Places : {s[y] : s \in moments'} \subseteq SettingValues
      BY <2>3
    <2>7. had' \in Hads
      BY <2>6 DEF had, Hads
    <2> QED BY <2>2, <2>3, <2>5, <2>7
  <1>2. lookup \in Lookups /\ LookupSound(lookup, had) /\ had \in Hads
    BY LookupAtHand
  <1> QED BY <1>1, <1>2, HadGrows

LEMMA SettingPostedSound == ASSUME SettingsIInv, SettingPosted PROVE SettingsIInv'
  <1>1. /\ lookup.stage = "post" /\ lookup \in Lookups /\ LookupSound(lookup, had) /\ Place(lookup) \in Places
    BY LookupAtHand DEF SettingPosted
  <1>2. CASE lookup' = Answered(lookup, "unknown") /\ UNCHANGED <<settings, moments>>
    BY <1>1, <1>2, LookupAnsweredSound, LookupGoesOn
  <1>3. CASE \E v \in {"default", "special"} : TakesValue(Place(lookup), v) /\ lookup' = Answered(lookup, v)
    <2>1. PICK v \in {"default", "special"} : TakesValue(Place(lookup), v) /\ lookup' = Answered(lookup, v)
      BY <1>3
    <2>2. /\ settings' \in moments' /\ moments' \in SUBSET [Places -> SettingValues]
          /\ v \in had'[Place(lookup)] /\ LookupSound(lookup, had')
      BY <1>1, <2>1, TakenWasHad DEF SettingValues
    <2>3. <<lookup.at, Wanted(lookup)>> = Place(lookup) /\ lookup.action = "set"
      <3>1. lookup.path = <<Place(lookup)[1]>> /\ lookup.path[Len(lookup.path)] = lookup.at /\ lookup.action = "set"
        BY <1>1 DEF LookupSound, Climbing
      <3>2. lookup.at = Place(lookup)[1]
        BY <3>1
      <3> QED BY <1>1, <3>1, <3>2 DEF Wanted, Places
    <2>4. Answered(lookup, v) \in Lookups /\ LookupSound(Answered(lookup, v), had')
      BY <1>1, <2>2, <2>3, LookupAnsweredSound DEF SettingValues
    <2> QED BY <2>1, <2>2, <2>4 DEF SettingsIInv, SettingsTyped
  <1> QED BY <1>2, <1>3 DEF SettingPosted

LEMMA CallThrowsSound == ASSUME SettingsIInv, CallThrows PROVE SettingsIInv'
  <1> DEFINE n == [NewLookup EXCEPT !.stage = "over", !.reads = lookup.reads]
  <1>1. lookup' = n /\ lookup \in Lookups
    BY LookupAtHand DEF CallThrows
  <1>2. n \in Lookups /\ n.stage = "over" /\ n.reads = lookup.reads /\ n.todo = <<>> /\ n.answers = {}
    BY <1>1, EmptyLookup DEF Lookups
  <1> HIDE DEF n
  <1>3. ASSUME NEW h, LookupSound(lookup, h) PROVE LookupSound(n, h)
    <2>1. ReadsWereTrue(n, h)
      BY <1>2, <1>3 DEF LookupSound, ReadsWereTrue
    <2> QED BY <1>2, <2>1, RestSound
  <1>4. CASE UNCHANGED <<settings, moments>>
    BY <1>1, <1>2, <1>3, <1>4, LookupAtHand, LookupGoesOn
  <1>5. CASE lookup.stage = "post" /\ TakesValue(Place(lookup), "special")
    <2>1. /\ settings' \in moments' /\ moments' \in SUBSET [Places -> SettingValues]
          /\ LookupSound(lookup, had')
      BY <1>5, LookupAtHand, TakenWasHad DEF SettingValues
    <2> QED BY <1>1, <1>2, <1>3, <2>1 DEF SettingsIInv, SettingsTyped
  <1> QED BY <1>4, <1>5 DEF CallThrows

\* The next call starts from nothing but the settings as they are.
LEMMA CallReturnedSound == ASSUME SettingsIInv, CallReturned PROVE SettingsIInv'
  <1>1. lookup' = NewLookup /\ UNCHANGED settings /\ moments' = {settings}
    BY DEF CallReturned
  <1>2. NewLookup \in Lookups /\ NewLookup.stage = "idle" /\ NewLookup.reads = {}
        /\ NewLookup.todo = <<>> /\ NewLookup.answers = {}
    BY EmptyLookup DEF NewLookup
  <1>3. LookupSound(NewLookup, had')
    <2>1. ReadsWereTrue(NewLookup, had')
      BY <1>2 DEF ReadsWereTrue
    <2> QED BY <1>2, <2>1, RestSound
  <1>4. SettingsTyped'
    BY <1>1, <1>2 DEF SettingsIInv, SettingsTyped
  <1> QED BY <1>1, <1>3, <1>4 DEF SettingsIInv

LEMMA OthersChangeSound == ASSUME SettingsIInv, OthersChange PROVE SettingsIInv'
  <1>1. PICK x \in Places, v \in SettingValues : TakesValue(x, v)
    BY DEF OthersChange
  <1>2. lookup' = lookup
    BY DEF OthersChange
  <1>3. /\ settings' \in moments' /\ moments' \in SUBSET [Places -> SettingValues]
        /\ LookupSound(lookup, had')
    BY <1>1, TakenWasHad
  <1> QED BY <1>2, <1>3, LookupAtHand DEF SettingsIInv, SettingsTyped

LEMMA SettingsStaySound == ASSUME SettingsIInv, [SettingsNext]_settingsVars PROVE SettingsIInv'
  <1>1. CASE UNCHANGED settingsVars
    <2>1. UNCHANGED <<settings, moments, lookup>>
      BY <1>1 DEF settingsVars
    <2> QED BY <2>1, LookupAtHand, LookupGoesOn
  <1> QED BY <1>1, SettingsCalledSound, SettingReadSound, ParentFoundSound, SettingPostedSound, CallThrowsSound,
             CallReturnedSound, OthersChangeSound DEF SettingsNext

\* Two answers of a call for one key that come from the same entity are the same:
\* both are its one reading, or they are one answer.
LEMMA SameSourceSame == ASSUME SettingsIInv PROVE SiblingsAgree
  <1> SUFFICES ASSUME NEW a \in lookup.answers, NEW b \in lookup.answers,
                      a.value # "unknown", b.value # "unknown", a.place[2] = b.place[2],
                      a.path[Len(a.path)] = b.path[Len(b.path)]
               PROVE  a.value = b.value
    BY DEF SiblingsAgree
  <1>1. /\ LookupAnswerSound(lookup, a, had) /\ LookupAnswerSound(lookup, b, had) /\ lookup.action \in {"get", "set"}
        /\ a \in Answerings /\ b \in Answerings
        /\ \A x, y \in lookup.answers : x.place = y.place => x = y
        /\ \A r, q \in lookup.reads : r.place = q.place => r = q
    BY LookupAtHand DEF LookupSound, AnswersSound, ReadsWereTrue, Lookups
  <1>2. CASE lookup.action = "get"
    <2> DEFINE ra == [place |-> <<a.path[Len(a.path)], a.place[2]>>, value |-> a.value]
               rb == [place |-> <<b.path[Len(b.path)], b.place[2]>>, value |-> b.value]
    <2>1. ra \in lookup.reads /\ rb \in lookup.reads
      BY <1>1, <1>2 DEF LookupAnswerSound
    <2>2. ra.place = rb.place
      OBVIOUS
    <2>3. ra = rb
      BY <1>1, <2>1, <2>2
    <2> QED BY <2>3
  <1>3. CASE lookup.action = "set"
    <2>1. a.path = <<a.place[1]>> /\ b.path = <<b.place[1]>> /\ a.place \in Places /\ b.place \in Places
      BY <1>1, <1>3 DEF LookupAnswerSound, Answerings
    <2>2. a.place[1] = b.place[1]
      BY <2>1
    <2>3. a.place = b.place
      BY <2>1, <2>2 DEF Places
    <2> QED BY <1>1, <2>3
  <1> QED BY <1>1, <1>2, <1>3

\* At most one entity of an answer's chain moved: at the moment it was read all the
\* others were as they were read.
LEMMA OneMovedSound ==
    ASSUME SettingsIInv, NEW a \in lookup.answers, WasTrue(a, had), a.value # "unknown", OneMoved(a)
    PROVE  \E s \in moments : Held(s, a)
  <1> DEFINE place(i) == <<a.path[i], a.place[2]>>
             top == Len(a.path)
             told(i) == IF i = top THEN a.value ELSE "unset"
  <1>1. /\ a.path \in Seq(Platforms) /\ a.path # <<>> /\ a.place \in Places
    BY LookupAtHand DEF LookupSound, AnswersSound, LookupAnswerSound, Lookups, Answerings
  <1>2. top \in Nat \ {0}
    BY <1>1, EmptySeq, LenProperties
  <1>3. \A i \in 1 .. top : place(i) \in Places
    BY <1>1 DEF Places
  <1>4. \A i \in 1 .. top : told(i) \in had[place(i)]
    BY <1>2 DEF WasTrue
  <1>5. \A i \in 1 .. top : had[place(i)] = {s[place(i)] : s \in moments}
    BY <1>3 DEF had
  <1>6. \A i \in 1 .. top : \E s \in moments : s[place(i)] = told(i)
    BY <1>4, <1>5
  <1>7. PICK k \in 1 .. top : \A i \in 1 .. top : i # k => \A s, t \in moments : s[place(i)] = t[place(i)]
    BY DEF OneMoved
  <1>8. PICK s \in moments : s[place(k)] = told(k)
    BY <1>6
  <1>9. \A i \in 1 .. top : s[place(i)] = told(i)
    <2> SUFFICES ASSUME NEW i \in 1 .. top, i # k PROVE s[place(i)] = told(i)
      BY <1>8
    <2>1. PICK t \in moments : t[place(i)] = told(i)
      BY <1>6
    <2> QED BY <1>7, <2>1
  <1>10. s[place(top)] = a.value /\ \A i \in 1 .. top - 1 : s[place(i)] = "unset"
    BY <1>2, <1>9
  <1> QED BY <1>10 DEF Held

\* Whatever number of entities and keys manage_settings reports on, however the settings
\* are changed meanwhile and whichever readings fail (resolveEffectiveSetting and its
\* ResolutionCache): each entity of an answer's chain was at some time of the call as
\* the answer says, the one it came from with the value and those below unset; all of
\* them at one moment, unless two of them changed during the call; and entities that
\* inherit from the same parent are told the same.
THEOREM SettingsAnswersAreSound == SettingsSpec => []AnswersAreSound
  <1>1. SettingsIInv => AnswersWereTrue
    <2> SUFFICES ASSUME SettingsIInv, NEW a \in lookup.answers, a.value # "unknown"
                 PROVE  /\ a.value \in had[<<a.path[Len(a.path)], a.place[2]>>]
                        /\ \A i \in 1 .. Len(a.path) - 1 : "unset" \in had[<<a.path[i], a.place[2]>>]
                        /\ OneMoved(a) => \E s \in moments : Held(s, a)
      BY DEF AnswersWereTrue
    <2>1. WasTrue(a, had)
      BY LookupAtHand DEF LookupSound, AnswersSound, LookupAnswerSound
    <2>2. OneMoved(a) => \E s \in moments : Held(s, a)
      BY <2>1, OneMovedSound
    <2> QED BY <2>1, <2>2 DEF WasTrue
  <1>2. SettingsIInv => AnswersAreSound
    BY <1>1, SameSourceSame DEF AnswersAreSound
  <1> QED BY <1>2, SettingsInitSound, SettingsStaySound, PTL DEF SettingsSpec

-----------------------------------------------------------------------------
(* get_hierarchy                                                             *)

\* How far an entity is from its PSP.
Rank ==
    CHOOSE rank \in [Entities -> 0 .. 3] :
        \A e \in Entities : UnderOf[e] # NoEntityAbove => rank[e] = rank[UnderOf[e]] + 1

TreeCalls == [node : Entities, left : Nat]
Walks ==
    [stage : {"idle", "root", "listing", "over"}, root : Entities \cup {NoEntityAbove}, depth : 1 .. 3,
     disabled : BOOLEAN, todo : Seq(TreeCalls), tree : SUBSET Entities, hidden : Nat, failed : SUBSET Entities]

TreeTyped ==
    /\ entity \in [Entities -> EntityStates] /\ stood \in [Entities -> SUBSET EntityStates]
    /\ \A e \in Entities : entity[e] \in stood[e]
    /\ treeChanges \in 0 .. MaxTreeChanges
    /\ walk \in Walks

CallsLeft(todo) == {todo[i] : i \in DOMAIN todo}
Distinct(todo) == \A i, j \in DOMAIN todo : i # j => todo[i].node # todo[j].node
Awaited(w) == {c.node : c \in CallsLeft(w.todo)}

\* What is in the tree was found below what is in it and has been listed.
TreeHangs(w, s) ==
    /\ Distinct(w.todo) /\ Awaited(w) \subseteq w.tree
    /\ w.tree # {} => w.root \in w.tree
    /\ \A e \in w.tree : Rank[w.root] <= Rank[e]
    /\ \A e \in w.tree \ {w.root} :
          /\ UnderOf[e] \in w.tree \ Awaited(w)
          /\ "enabled" \in s[e] \/ (w.disabled /\ "disabled" \in s[e])

\* No node is listed twice, so nothing is counted twice.
DisabledSeen(s) == {x \in Entities : "disabled" \in s[x]}
HiddenSeen(w, s) == {x \in DisabledSeen(s) : UnderOf[x] \in w.tree \ Awaited(w)}
HiddenCounted(w, s) ==
    /\ w.hidden <= Cardinality(DisabledSeen(s))
    /\ w.tree # {} => w.hidden <= Cardinality(HiddenSeen(w, s))

\* On a way down that stands still, who is not in the tree is below one who is still
\* to be listed, or whose listing failed.
WaysOf(w) ==
    {s \in UNION {[1 .. n -> Entities] : n \in 1 .. w.depth} :
        \A i \in DOMAIN s : UnderOf[s[i]] = IF i = 1 THEN w.root ELSE s[i - 1]}
StandsStill(way, s) == \A i \in DOMAIN way : s[way[i]] = {"enabled"}
Reached(w, way, j) ==
    \/ way[j] \in w.tree
    \/ \E k \in 1 .. j : \/ UnderOf[way[k]] \in w.failed
                         \/ [node |-> UnderOf[way[k]], left |-> w.depth - k + 1] \in CallsLeft(w.todo)
WaysFollowed(w, s) ==
    w.tree # {} => \A way \in WaysOf(w) : StandsStill(way, s) => \A j \in DOMAIN way : Reached(w, way, j)

WalkSound(w, s) ==
    /\ TreeHangs(w, s) /\ HiddenCounted(w, s) /\ WaysFollowed(w, s)
    /\ w.stage = "over" => w.todo = <<>>

TreeIInv == TreeTyped /\ WalkSound(walk, stood)

-----------------------------------------------------------------------------
(* Ranks and calls                                                           *)

LEMMA RankIs ==
    /\ Rank \in [Entities -> 0 .. 3]
    /\ \A e, f \in Entities : UnderOf[e] = f => Rank[e] = Rank[f] + 1
  <1>1. \E rank \in [Entities -> 0 .. 3] :
            \A e \in Entities : UnderOf[e] # NoEntityAbove => rank[e] = rank[UnderOf[e]] + 1
    BY HierarchyAssumption DEF HierarchyAssumption
  <1>2. /\ Rank \in [Entities -> 0 .. 3]
        /\ \A e \in Entities : UnderOf[e] # NoEntityAbove => Rank[e] = Rank[UnderOf[e]] + 1
    BY <1>1 DEF Rank
  <1>3. NoEntityAbove \notin Entities
    BY HierarchyAssumption DEF HierarchyAssumption
  <1> QED BY <1>2, <1>3

LEMMA FirstCalled ==
    ASSUME NEW todo \in Seq(TreeCalls), todo # <<>>, Distinct(todo)
    PROVE  /\ Head(todo) \in TreeCalls /\ Head(todo) \in CallsLeft(todo)
           /\ Tail(todo) \in Seq(TreeCalls) /\ Distinct(Tail(todo))
           /\ CallsLeft(Tail(todo)) = CallsLeft(todo) \ {Head(todo)}
           /\ \A c \in CallsLeft(todo) \ {Head(todo)} : c.node # Head(todo).node
  <1>1. /\ Len(todo) \in Nat \ {0} /\ Head(todo) = todo[1] /\ DOMAIN todo = 1 .. Len(todo)
        /\ Tail(todo) \in Seq(TreeCalls) /\ Len(Tail(todo)) = Len(todo) - 1
        /\ DOMAIN Tail(todo) = 1 .. Len(todo) - 1
        /\ \A i \in 1 .. Len(Tail(todo)) : Tail(todo)[i] = todo[i + 1]
    BY EmptySeq, HeadTailProperties, LenProperties
  <1>2. \A i \in DOMAIN Tail(todo) : i \in Nat /\ i + 1 \in DOMAIN todo /\ i + 1 # 1 /\ Tail(todo)[i] = todo[i + 1]
    BY <1>1
  <1>3. 1 \in DOMAIN todo /\ \A i \in DOMAIN todo : i # 1 => i - 1 \in DOMAIN Tail(todo) /\ Tail(todo)[i - 1] = todo[i]
    BY <1>1
  <1>4. Distinct(Tail(todo))
    <2> SUFFICES ASSUME NEW i \in DOMAIN Tail(todo), NEW j \in DOMAIN Tail(todo), i # j
                 PROVE  Tail(todo)[i].node # Tail(todo)[j].node
      BY DEF Distinct
    <2>1. i + 1 # j + 1
      BY <1>2
    <2> QED BY <1>2, <2>1 DEF Distinct
  <1>5. \A c \in CallsLeft(todo) \ {todo[1]} : c.node # todo[1].node
    BY <1>3 DEF CallsLeft, Distinct
  <1>6. CallsLeft(Tail(todo)) = CallsLeft(todo) \ {todo[1]}
    <2>1. ASSUME NEW i \in DOMAIN Tail(todo) PROVE Tail(todo)[i] \in CallsLeft(todo) \ {todo[1]}
      BY <1>2, <1>3 DEF CallsLeft, Distinct
    <2>2. ASSUME NEW c \in CallsLeft(todo) \ {todo[1]} PROVE c \in CallsLeft(Tail(todo))
      BY <1>3 DEF CallsLeft
    <2> QED BY <2>1, <2>2 DEF CallsLeft
  <1>7. todo[1] \in CallsLeft(todo)
    BY <1>3 DEF CallsLeft
  <1>8. Head(todo) \in TreeCalls
    BY HeadTailProperties
  <1> QED BY <1>1, <1>4, <1>5, <1>6, <1>7, <1>8

\* An order of a finite set names each of its members once.
LEMMA OrderNamesAll ==
    ASSUME NEW S, IsFiniteSet(S), NEW nodes \in OrdersOf(S)
    PROVE  /\ nodes \in [1 .. Cardinality(S) -> S] /\ Cardinality(S) \in Nat
           /\ \A i, j \in DOMAIN nodes : i # j => nodes[i] # nodes[j]
           /\ \A x \in S : \E i \in DOMAIN nodes : nodes[i] = x
  <1>1. Cardinality(S) \in Nat
    BY FS_CardinalityType
  <1>2. nodes \in [1 .. Cardinality(S) -> S] /\ \A i, j \in DOMAIN nodes : i # j => nodes[i] # nodes[j]
    BY DEF OrdersOf
  <1>3. nodes \in Injection(1 .. Cardinality(S), S)
    BY <1>2 DEF Injection, IsInjective
  <1>4. Cardinality(1 .. Cardinality(S)) = Cardinality(S)
    BY <1>1, FS_Interval
  <1>5. nodes \in Surjection(1 .. Cardinality(S), S)
    BY <1>3, <1>4, FS_Injection
  <1> QED BY <1>1, <1>2, <1>5 DEF Surjection

LEMMA DeeperCalled ==
    ASSUME NEW S \in SUBSET Entities, NEW nodes \in OrdersOf(S), NEW left \in Nat
    PROVE  /\ Deeper(nodes, left) \in Seq(TreeCalls) /\ Distinct(Deeper(nodes, left))
           /\ CallsLeft(Deeper(nodes, left)) = IF left <= 1 THEN {} ELSE {[node |-> x, left |-> left - 1] : x \in S}
  <1>1. IsFiniteSet(S)
    BY HierarchyAssumption, FS_Subset DEF HierarchyAssumption
  <1>2. CASE left <= 1
    BY <1>2, EmptySeq DEF Deeper, Distinct, CallsLeft
  <1>3. CASE ~(left <= 1)
    <2> DEFINE t == [i \in DOMAIN nodes |-> [node |-> nodes[i], left |-> left - 1]]
    <2>1. Deeper(nodes, left) = t
      BY <1>3 DEF Deeper
    <2>2. /\ nodes \in [1 .. Cardinality(S) -> S] /\ Cardinality(S) \in Nat
          /\ \A i, j \in DOMAIN nodes : i # j => nodes[i] # nodes[j]
          /\ \A x \in S : \E i \in DOMAIN nodes : nodes[i] = x
      BY <1>1, OrderNamesAll
    <2>3. left - 1 \in Nat
      BY <1>3
    <2>4. t \in [1 .. Cardinality(S) -> TreeCalls]
      BY <2>2, <2>3 DEF TreeCalls
    <2>5. t \in Seq(TreeCalls) /\ DOMAIN t = DOMAIN nodes
      BY <2>2, <2>4
    <2>6. \A i \in DOMAIN t : t[i] = [node |-> nodes[i], left |-> left - 1] /\ nodes[i] \in S
      BY <2>2
    <2> HIDE DEF t
    <2>7. Distinct(t)
      BY <2>2, <2>5, <2>6 DEF Distinct
    <2>8. CallsLeft(t) = {[node |-> x, left |-> left - 1] : x \in S}
      <3>1. ASSUME NEW c \in CallsLeft(t) PROVE c \in {[node |-> x, left |-> left - 1] : x \in S}
        BY <2>6 DEF CallsLeft
      <3>2. ASSUME NEW x \in S PROVE [node |-> x, left |-> left - 1] \in CallsLeft(t)
        BY <2>2, <2>5, <2>6 DEF CallsLeft
      <3> QED BY <3>1, <3>2
    <2> QED BY <1>3, <2>1, <2>5, <2>7, <2>8
  <1> QED BY <1>2, <1>3

LEMMA CalledBoth ==
    ASSUME NEW a \in Seq(TreeCalls), NEW b \in Seq(TreeCalls), Distinct(a), Distinct(b),
           \A c \in CallsLeft(a), d \in CallsLeft(b) : c.node # d.node
    PROVE  a \o b \in Seq(TreeCalls) /\ Distinct(a \o b) /\ CallsLeft(a \o b) = CallsLeft(a) \cup CallsLeft(b)
  <1> DEFINE t == a \o b
  <1>1. /\ t \in Seq(TreeCalls) /\ Len(t) = Len(a) + Len(b) /\ Len(a) \in Nat /\ Len(b) \in Nat
        /\ DOMAIN t = 1 .. Len(a) + Len(b) /\ DOMAIN a = 1 .. Len(a) /\ DOMAIN b = 1 .. Len(b)
        /\ \A i \in 1 .. Len(a) + Len(b) : t[i] = IF i <= Len(a) THEN a[i] ELSE b[i - Len(a)]
    BY ConcatProperties, LenProperties
  <1> HIDE DEF t
  <1>2. \A i \in DOMAIN a : i \in DOMAIN t /\ t[i] = a[i]
    BY <1>1
  <1>3. \A i \in DOMAIN b : i + Len(a) \in DOMAIN t /\ t[i + Len(a)] = b[i]
    BY <1>1
  <1>4. \A i \in DOMAIN t : \/ i <= Len(a) /\ i \in DOMAIN a /\ t[i] = a[i]
                            \/ ~(i <= Len(a)) /\ i - Len(a) \in DOMAIN b /\ t[i] = b[i - Len(a)]
    BY <1>1
  <1>5. CallsLeft(t) = CallsLeft(a) \cup CallsLeft(b)
    BY <1>2, <1>3, <1>4 DEF CallsLeft
  <1>6. Distinct(t)
    <2> SUFFICES ASSUME NEW i \in DOMAIN t, NEW j \in DOMAIN t, i # j PROVE t[i].node # t[j].node
      BY DEF Distinct
    <2>1. i \in Nat /\ j \in Nat /\ i - Len(a) # j - Len(a)
      BY <1>1
    <2>2. CASE i <= Len(a) /\ j <= Len(a)
      BY <1>4, <2>2 DEF Distinct
    <2>3. CASE ~(i <= Len(a)) /\ ~(j <= Len(a))
      BY <1>4, <2>1, <2>3 DEF Distinct
    <2>4. CASE i <= Len(a) /\ ~(j <= Len(a))
      BY <1>4, <2>4 DEF CallsLeft
    <2>5. CASE ~(i <= Len(a)) /\ j <= Len(a)
      BY <1>4, <2>5 DEF CallsLeft
    <2> QED BY <2>2, <2>3, <2>4, <2>5
  <1> QED BY <1>1, <1>5, <1>6 DEF t

-----------------------------------------------------------------------------
(* The walk                                                                  *)

\* A walk with nothing shown and nothing to do is sound.
LEMMA BareWalkSound ==
    ASSUME NEW w \in Walks, NEW s \in [Entities -> SUBSET EntityStates], w.tree = {}, w.todo = <<>>,
           w.hidden <= Cardinality(DisabledSeen(s))
    PROVE  WalkSound(w, s)
  <1>1. Distinct(w.todo) /\ Awaited(w) = {}
    BY DEF Distinct, Awaited, CallsLeft
  <1>2. TreeHangs(w, s)
    BY <1>1 DEF TreeHangs
  <1> QED BY <1>2 DEF WalkSound, HiddenCounted, WaysFollowed

LEMMA NoneHidden ==
    ASSUME NEW S \in SUBSET Entities
    PROVE  IsFiniteSet(S) /\ Cardinality(S) \in Nat /\ \A T \in SUBSET S : Cardinality(T) <= Cardinality(S)
  <1>1. IsFiniteSet(S)
    BY HierarchyAssumption, FS_Subset DEF HierarchyAssumption
  <1> QED BY <1>1, FS_CardinalityType, FS_Subset

LEMMA TreeInitSound == TreeInit => TreeIInv
  <1> SUFFICES ASSUME TreeInit PROVE TreeIInv
    OBVIOUS
  <1>1. walk = NewWalk /\ NewWalk \in Walks /\ NewWalk.tree = {} /\ NewWalk.todo = <<>> /\ NewWalk.hidden = 0
    BY EmptySeq DEF TreeInit, NewWalk, Walks
  <1>2. TreeTyped
    BY <1>1, HierarchyAssumption DEF TreeInit, TreeTyped, EntityStates, HierarchyAssumption
  <1>3. stood \in [Entities -> SUBSET EntityStates] /\ 0 <= Cardinality(DisabledSeen(stood))
    BY <1>2, NoneHidden DEF TreeTyped, DisabledSeen
  <1> QED BY <1>1, <1>2, <1>3, BareWalkSound DEF TreeIInv

LEMMA AskedSound == ASSUME TreeIInv, HierarchyAsked PROVE TreeIInv'
  <1>1. PICK root \in Entities, depth \in 0 .. 4, disabled \in BOOLEAN :
            walk' = [NewWalk EXCEPT !.root = root, !.depth = Cut(depth), !.disabled = disabled,
                                    !.stage = IF root \in PspRoots THEN "listing" ELSE "root",
                                    !.tree = {root}, !.todo = <<[node |-> root, left |-> Cut(depth)]>>]
    BY DEF HierarchyAsked
  <1> DEFINE c == [node |-> root, left |-> Cut(depth)]
             w == walk'
  <1>2. Cut(depth) \in 1 .. 3
    BY DEF Cut
  <1>3. c \in TreeCalls /\ <<c>> \in Seq(TreeCalls) /\ c.node = root
    BY <1>2 DEF TreeCalls
  <1>4. CallsLeft(<<c>>) = {c} /\ Distinct(<<c>>)
    BY DEF CallsLeft, Distinct
  <1>5. /\ w.root = root /\ w.depth = Cut(depth) /\ w.tree = {root} /\ w.todo = <<c>> /\ w.hidden = 0
        /\ w.stage \in {"listing", "root"} /\ w.failed = {}
    BY <1>1 DEF NewWalk
  <1>6. w \in Walks
    BY <1>1, <1>2, <1>3 DEF NewWalk, Walks
  <1> HIDE DEF c, w
  <1>7. TreeTyped'
    <2>1. stood' = [e \in Entities |-> {entity[e]}] /\ entity' = entity /\ treeChanges' = 0
      BY DEF HierarchyAsked
    <2> QED BY <1>6, <2>1, HierarchyAssumption DEF TreeIInv, TreeTyped, EntityStates, HierarchyAssumption, w
  <1>8. TreeHangs(w, stood')
    <2>1. Rank[root] <= Rank[root]
      BY RankIs
    <2> QED BY <1>3, <1>4, <1>5, <2>1 DEF TreeHangs, Awaited
  <1>9. HiddenCounted(w, stood')
    <2>1. 0 <= Cardinality(DisabledSeen(stood')) /\ 0 <= Cardinality(HiddenSeen(w, stood'))
      BY NoneHidden DEF DisabledSeen, HiddenSeen
    <2> QED BY <1>5, <2>1 DEF HiddenCounted
  <1>10. WaysFollowed(w, stood')
    <2> SUFFICES ASSUME NEW way \in WaysOf(w), NEW j \in DOMAIN way PROVE Reached(w, way, j)
      BY DEF WaysFollowed
    <2>1. PICK n \in 1 .. w.depth : way \in [1 .. n -> Entities]
      BY DEF WaysOf
    <2>2. 1 \in DOMAIN way /\ 1 \in 1 .. j
      BY <1>2, <1>5, <2>1
    <2>3. UnderOf[way[1]] = root
      BY <1>5, <2>2 DEF WaysOf
    <2>4. w.depth - 1 + 1 = Cut(depth)
      BY <1>2, <1>5
    <2>5. [node |-> UnderOf[way[1]], left |-> w.depth - 1 + 1] \in CallsLeft(w.todo)
      BY <1>4, <1>5, <2>3, <2>4 DEF c
    <2> QED BY <2>2, <2>5 DEF Reached
  <1> QED BY <1>5, <1>7, <1>8, <1>9, <1>10 DEF TreeIInv, WalkSound, w

\* A walk that ends with an error.
LEMMA NoTreeSound ==
    ASSUME TreeIInv, walk' = NoTree(walk), UNCHANGED <<entity, stood, treeChanges>>
    PROVE  TreeIInv'
  <1> DEFINE w == NoTree(walk)
  <1>1. w \in Walks /\ w.tree = {} /\ w.todo = <<>> /\ w.hidden = walk.hidden
    BY EmptySeq DEF NoTree, TreeIInv, TreeTyped, Walks
  <1> HIDE DEF w
  <1>2. WalkSound(w, stood)
    BY <1>1, BareWalkSound DEF TreeIInv, TreeTyped, WalkSound, HiddenCounted
  <1>3. walk' = w /\ stood' = stood
    BY DEF w
  <1>4. TreeTyped'
    BY <1>1, <1>3 DEF TreeIInv, TreeTyped
  <1> QED BY <1>2, <1>3, <1>4 DEF TreeIInv

\* The stage says nothing of the tree, but that nothing is left to do at the end.
LEMMA WalkStageSound ==
    ASSUME TreeIInv, NEW stage \in {"listing", "over"}, stage = "over" => walk.todo = <<>>,
           walk' = [walk EXCEPT !.stage = stage], UNCHANGED <<entity, stood, treeChanges>>
    PROVE  TreeIInv'
  <1> DEFINE w == [walk EXCEPT !.stage = stage]
  <1>1. /\ w \in Walks /\ w.stage = stage /\ w.root = walk.root /\ w.depth = walk.depth /\ w.disabled = walk.disabled
        /\ w.todo = walk.todo /\ w.tree = walk.tree /\ w.hidden = walk.hidden /\ w.failed = walk.failed
    BY DEF TreeIInv, TreeTyped, Walks
  <1> HIDE DEF w
  <1>2. Awaited(w) = Awaited(walk)
    BY <1>1 DEF Awaited
  <1>3. TreeHangs(w, stood) /\ HiddenCounted(w, stood)
    BY <1>1, <1>2 DEF TreeIInv, WalkSound, TreeHangs, HiddenCounted, HiddenSeen
  <1>4. WaysFollowed(w, stood)
    BY ZenonT(40), <1>1 DEF TreeIInv, WalkSound, WaysFollowed, WaysOf, Reached
  <1>5. walk' = w /\ stood' = stood
    BY DEF w
  <1>6. TreeTyped'
    BY <1>1, <1>5 DEF TreeIInv, TreeTyped
  <1> QED BY <1>1, <1>3, <1>4, <1>5, <1>6 DEF TreeIInv, WalkSound

\* What an entity has been it has been.
LEMMA ChangeSound == ASSUME TreeIInv, EntityChanges PROVE TreeIInv'
  <1>1. PICK e \in Entities, x \in EntityStates :
            entity' = [entity EXCEPT ![e] = x] /\ stood' = [stood EXCEPT ![e] = @ \cup {x}]
    BY DEF EntityChanges
  <1>2. walk' = walk /\ TreeTyped'
    <2>1. treeChanges' \in 0 .. MaxTreeChanges
      BY HierarchyAssumption DEF EntityChanges, TreeIInv, TreeTyped, HierarchyAssumption
    <2>2. \A f \in Entities : entity'[f] \in stood'[f]
      BY <1>1 DEF TreeIInv, TreeTyped
    <2> QED BY <1>1, <2>1, <2>2 DEF EntityChanges, TreeIInv, TreeTyped
  <1>3. \A f \in Entities : stood[f] \subseteq stood'[f] /\ stood'[f] # {} /\ stood[f] # {}
    BY <1>1 DEF TreeIInv, TreeTyped
  <1>4. walk.tree \subseteq Entities
    BY DEF TreeIInv, TreeTyped, Walks
  <1>5. TreeHangs(walk, stood')
    BY <1>3, <1>4 DEF TreeIInv, WalkSound, TreeHangs
  <1>6. HiddenCounted(walk, stood')
    <2>1. /\ DisabledSeen(stood) \in SUBSET DisabledSeen(stood') /\ DisabledSeen(stood') \in SUBSET Entities
          /\ HiddenSeen(walk, stood) \in SUBSET HiddenSeen(walk, stood') /\ HiddenSeen(walk, stood') \in SUBSET Entities
      BY <1>3 DEF DisabledSeen, HiddenSeen
    <2>2. /\ Cardinality(DisabledSeen(stood)) <= Cardinality(DisabledSeen(stood'))
          /\ Cardinality(HiddenSeen(walk, stood)) <= Cardinality(HiddenSeen(walk, stood'))
      BY <2>1, NoneHidden
    <2>3. /\ Cardinality(DisabledSeen(stood)) \in Nat /\ Cardinality(DisabledSeen(stood')) \in Nat
          /\ Cardinality(HiddenSeen(walk, stood)) \in Nat /\ Cardinality(HiddenSeen(walk, stood')) \in Nat
      BY <2>1, NoneHidden
    <2>4. walk.hidden \in Nat
      BY DEF TreeIInv, TreeTyped, Walks
    <2> QED BY <2>2, <2>3, <2>4 DEF TreeIInv, WalkSound, HiddenCounted
  <1>7. WaysFollowed(walk, stood')
    <2>1. ASSUME NEW way \in WaysOf(walk), StandsStill(way, stood') PROVE StandsStill(way, stood)
      <3>1. \A i \in DOMAIN way : way[i] \in Entities
        BY DEF WaysOf
      <3> QED BY <1>3, <2>1, <3>1 DEF StandsStill
    <2> QED BY <2>1 DEF TreeIInv, WalkSound, WaysFollowed
  <1> QED BY <1>2, <1>5, <1>6, <1>7 DEF TreeIInv, WalkSound

\* A listing shows the children that are there, leaves those that can be asked
\* further to be asked, and nobody twice.
LEMMA ListedSound ==
    ASSUME TreeIInv, ChildrenListed, NEW call, call = Head(walk.todo), NEW listed,
           listed = {e \in Below(call.node) : entity[e] # "gone"},
           NEW nodes \in OrdersOf(Visible(listed)), NEW w,
           w = [walk EXCEPT !.tree = walk.tree \cup Visible(listed),
                            !.hidden = walk.hidden + Cardinality(listed \ Visible(listed)),
                            !.todo = Deeper(nodes, call.left) \o Tail(walk.todo)]
    PROVE  w \in Walks /\ WalkSound(w, stood)
  <1> DEFINE vis == Visible(listed)
             more == Deeper(nodes, call.left)
  <1>1. /\ walk \in Walks /\ walk.todo \in Seq(TreeCalls) /\ walk.todo # <<>> /\ walk.stage = "listing"
        /\ walk.tree \in SUBSET Entities /\ walk.hidden \in Nat /\ walk.depth \in 1 .. 3
        /\ TreeHangs(walk, stood) /\ HiddenCounted(walk, stood) /\ WaysFollowed(walk, stood)
    BY DEF ChildrenListed, TreeIInv, TreeTyped, WalkSound, Walks
  <1>2. /\ listed \in SUBSET Entities /\ vis \in SUBSET listed
        /\ \A e \in listed : UnderOf[e] = call.node /\ entity[e] \in {"enabled", "disabled"}
        /\ \A e \in vis : entity[e] = "enabled" \/ walk.disabled
        /\ \A e \in listed \ vis : entity[e] = "disabled"
        /\ \A e \in Entities : UnderOf[e] = call.node /\ entity[e] = "enabled" => e \in vis
    BY DEF Below, Visible, TreeIInv, TreeTyped, EntityStates
  <1> DEFINE new == listed \ vis
  <1>3. /\ w = [walk EXCEPT !.tree = walk.tree \cup vis, !.hidden = walk.hidden + Cardinality(new),
                             !.todo = more \o Tail(walk.todo)]
         /\ nodes \in OrdersOf(vis) /\ more = Deeper(nodes, call.left) /\ vis \in SUBSET Entities
    BY <1>2
  <1> HIDE DEF vis, more
  <1>4. Distinct(walk.todo)
    BY <1>1 DEF TreeHangs
  <1>5. /\ call \in TreeCalls /\ call \in CallsLeft(walk.todo)
        /\ Tail(walk.todo) \in Seq(TreeCalls) /\ Distinct(Tail(walk.todo))
        /\ CallsLeft(Tail(walk.todo)) = CallsLeft(walk.todo) \ {call}
        /\ \A c \in CallsLeft(walk.todo) \ {call} : c.node # call.node
    BY <1>1, <1>4, FirstCalled
  <1>6. call.node \in Awaited(walk) /\ call.node \in walk.tree /\ call.node \in Entities /\ call.left \in Nat
    BY <1>1, <1>5 DEF Awaited, TreeHangs, TreeCalls
  <1>7. walk.root \in walk.tree /\ walk.root \in Entities /\ Rank[walk.root] <= Rank[call.node]
    BY <1>1, <1>6 DEF TreeHangs
  \* Nobody below it was there before.
  <1>8. ASSUME NEW e \in listed PROVE e \notin walk.tree /\ e # call.node /\ Rank[walk.root] <= Rank[e]
    <2>1. Rank[e] = Rank[call.node] + 1 /\ Rank[e] \in 0 .. 3 /\ Rank[call.node] \in 0 .. 3 /\ Rank[walk.root] \in 0 .. 3
      BY <1>2, <1>6, <1>7, <1>8, RankIs
    <2>2. e # walk.root /\ e # call.node /\ Rank[walk.root] <= Rank[e]
      BY <1>7, <2>1
    <2>3. e \notin walk.tree
      BY <1>1, <1>2, <1>6, <1>8, <2>2 DEF TreeHangs
    <2> QED BY <2>2, <2>3
  <1>9. /\ more \in Seq(TreeCalls) /\ Distinct(more)
        /\ CallsLeft(more) = IF call.left <= 1 THEN {} ELSE {[node |-> x, left |-> call.left - 1] : x \in vis}
    <2>1. call.left \in Nat /\ vis \in SUBSET Entities /\ nodes \in OrdersOf(vis)
      BY <1>6, <1>3
    <2>2. /\ Deeper(nodes, call.left) \in Seq(TreeCalls) /\ Distinct(Deeper(nodes, call.left))
          /\ CallsLeft(Deeper(nodes, call.left)) =
                 IF call.left <= 1 THEN {} ELSE {[node |-> x, left |-> call.left - 1] : x \in vis}
      BY <2>1, DeeperCalled
    <2> QED BY <1>3, <2>2
  <1>10. \A c \in CallsLeft(more) : c.node \in vis
    BY <1>9
  <1>11. \A c \in CallsLeft(Tail(walk.todo)) : c.node \in Awaited(walk) /\ c.node \in walk.tree /\ c.node # call.node
    BY <1>1, <1>5 DEF Awaited, TreeHangs
  <1>12. /\ more \o Tail(walk.todo) \in Seq(TreeCalls) /\ Distinct(more \o Tail(walk.todo))
         /\ CallsLeft(more \o Tail(walk.todo)) = CallsLeft(more) \cup CallsLeft(Tail(walk.todo))
    <2>1. \A c \in CallsLeft(more), d \in CallsLeft(Tail(walk.todo)) : c.node # d.node
      BY <1>2, <1>8, <1>10, <1>11
    <2> QED BY <1>5, <1>9, <2>1, CalledBoth
  <1>13. IsFiniteSet(new) /\ Cardinality(new) \in Nat
    BY SMTT(30), <1>2, NoneHidden
  <1>14. w \in Walks
    <2>1. walk.hidden + Cardinality(new) \in Nat /\ walk.tree \cup vis \in SUBSET Entities
      BY <1>1, <1>13, <1>3
    <2> HIDE DEF new
    <2> QED BY <1>1, <1>12, <1>3, <2>1 DEF Walks
  <1>15. /\ w.tree = walk.tree \cup vis /\ w.hidden = walk.hidden + Cardinality(new)
         /\ w.todo = more \o Tail(walk.todo)
         /\ w.stage = walk.stage /\ w.root = walk.root /\ w.depth = walk.depth /\ w.disabled = walk.disabled
         /\ w.failed = walk.failed
    <2> HIDE DEF new
    <2> QED BY <1>1, <1>3 DEF Walks
  <1>16. CallsLeft(w.todo) = CallsLeft(more) \cup (CallsLeft(walk.todo) \ {call})
    BY <1>5, <1>12, <1>15
  <1>17. Awaited(w) \subseteq (Awaited(walk) \ {call.node}) \cup vis
    BY <1>5, <1>10, <1>11, <1>16 DEF Awaited
  <1>18. TreeHangs(w, stood)
    <2>1. Distinct(w.todo) /\ Awaited(w) \subseteq w.tree
      BY ZenonT(40), <1>1, <1>12, <1>15, <1>17 DEF TreeHangs
    <2>2. \A e \in w.tree : Rank[w.root] <= Rank[e]
      BY SMTT(30), <1>1, <1>2, <1>8, <1>15 DEF TreeHangs
    <2>3. ASSUME NEW e \in walk.tree \ {walk.root} PROVE UnderOf[e] \in w.tree \ Awaited(w)
      <3>1. UnderOf[e] \in walk.tree \ Awaited(walk)
        BY <1>1, <2>3 DEF TreeHangs
      <3>2. UnderOf[e] \notin vis
        BY SMTT(30), <1>2, <1>8, <3>1
      <3> QED BY <1>15, <1>17, <3>1, <3>2
    <2>4. ASSUME NEW e \in vis PROVE UnderOf[e] \in w.tree \ Awaited(w)
      <3>1. UnderOf[e] = call.node /\ call.node \notin vis
        BY <1>2, <1>8, <2>4
      <3> QED BY <1>6, <1>15, <1>17, <3>1
    <2>5. \A e \in vis : "enabled" \in stood[e] \/ (w.disabled /\ "disabled" \in stood[e])
      BY <1>2, <1>15 DEF TreeIInv, TreeTyped
    <2>6. \A e \in walk.tree \ {walk.root} : "enabled" \in stood[e] \/ (w.disabled /\ "disabled" \in stood[e])
      BY <1>1, <1>15 DEF TreeHangs
    <2> QED BY <1>7, <1>15, <2>1, <2>2, <2>3, <2>4, <2>5, <2>6 DEF TreeHangs
  <1>19. HiddenCounted(w, stood)
    <2> DEFINE hadBefore == HiddenSeen(walk, stood)
    <2>1. hadBefore \cap new = {}
      BY <1>2, <1>6 DEF HiddenSeen
    <2>2. \A e \in new : e \in DisabledSeen(stood)
      BY SMTT(30), <1>2 DEF DisabledSeen, TreeIInv, TreeTyped
    <2>3. ASSUME NEW e \in hadBefore PROVE e \in HiddenSeen(w, stood)
      <3>1. UnderOf[e] \in walk.tree \ Awaited(walk) /\ e \in DisabledSeen(stood)
        BY <2>3 DEF HiddenSeen
      <3>2. UnderOf[e] \notin vis
        BY SMTT(30), <1>2, <1>8, <3>1
      <3> QED BY <1>15, <1>17, <3>1, <3>2 DEF HiddenSeen
    <2>4. ASSUME NEW e \in new PROVE e \in HiddenSeen(w, stood)
      <3>1. UnderOf[e] = call.node /\ call.node \notin vis
        BY SMTT(30), <1>2, <1>8, <2>4
      <3> QED BY <1>6, <1>15, <1>17, <2>2, <2>4, <3>1 DEF HiddenSeen
    <2>5. /\ hadBefore \in SUBSET Entities /\ HiddenSeen(w, stood) \in SUBSET DisabledSeen(stood)
          /\ DisabledSeen(stood) \in SUBSET Entities /\ hadBefore \cup new \in SUBSET HiddenSeen(w, stood)
          /\ HiddenSeen(w, stood) \in SUBSET Entities /\ hadBefore \cup new \in SUBSET Entities
      BY <1>2, <2>3, <2>4 DEF HiddenSeen, DisabledSeen
    <2>6. IsFiniteSet(hadBefore) /\ Cardinality(hadBefore) \in Nat /\ Cardinality(HiddenSeen(w, stood)) \in Nat
          /\ Cardinality(DisabledSeen(stood)) \in Nat
      BY <2>5, NoneHidden
    <2> HIDE DEF hadBefore, new
    <2>7. Cardinality(hadBefore \cup new) = Cardinality(hadBefore) + Cardinality(new)
      <3>1. Cardinality(hadBefore \cap new) = 0
        BY <2>1, FS_EmptySet
      <3>2. Cardinality(hadBefore \cup new)
              = Cardinality(hadBefore) + Cardinality(new) - Cardinality(hadBefore \cap new)
        BY SMTT(30), <1>13, <2>6, FS_Union
      <3> QED BY <1>13, <2>6, <3>1, <3>2
    <2>8. Cardinality(hadBefore \cup new) <= Cardinality(HiddenSeen(w, stood))
      BY <2>5, NoneHidden
    <2>9. Cardinality(HiddenSeen(w, stood)) <= Cardinality(DisabledSeen(stood))
      BY <2>5, NoneHidden
    <2>10. walk.hidden <= Cardinality(hadBefore)
      BY <1>1, <1>6 DEF HiddenCounted, hadBefore
    <2> QED BY <1>1, <1>13, <1>15, <2>6, <2>7, <2>8, <2>9, <2>10 DEF HiddenCounted
  <1>20. WaysFollowed(w, stood)
    <2> SUFFICES ASSUME NEW way \in WaysOf(w), StandsStill(way, stood), NEW j \in DOMAIN way
                 PROVE  Reached(w, way, j)
      BY DEF WaysFollowed
    <2>1. PICK n \in 1 .. w.depth : way \in [1 .. n -> Entities]
      BY DEF WaysOf
    <2>2. j \in 1 .. n /\ n <= walk.depth /\ DOMAIN way = 1 .. n
      BY <1>1, <1>15, <2>1
    <2>3. Reached(walk, way, j)
      BY <1>1, <1>6, <1>15 DEF WaysFollowed, WaysOf
    <2>4. CASE way[j] \in walk.tree
      BY <1>15, <2>4 DEF Reached
    <2>5. CASE \E k \in 1 .. j : UnderOf[way[k]] \in walk.failed
      BY <1>15, <2>5 DEF Reached
    <2>6. ASSUME NEW k \in 1 .. j, [node |-> UnderOf[way[k]], left |-> walk.depth - k + 1] \in CallsLeft(walk.todo)
          PROVE  Reached(w, way, j)
      <3> DEFINE c == [node |-> UnderOf[way[k]], left |-> walk.depth - k + 1]
      <3>1. CASE c # call
        <4>1. [node |-> UnderOf[way[k]], left |-> w.depth - k + 1] \in CallsLeft(w.todo)
          BY <1>15, <1>16, <2>6, <3>1
        <4> QED BY <2>6, <4>1 DEF Reached
      <3>2. CASE c = call
        <4>1. call.node = UnderOf[way[k]] /\ call.left = walk.depth - k + 1
          BY <3>2
        <4>2. k \in DOMAIN way /\ way[k] \in Entities
          BY <2>1, <2>2
        <4>3. way[k] \in vis
          BY <1>2, <4>1, <4>2 DEF StandsStill, TreeIInv, TreeTyped
        <4>4. CASE k = j
          BY <1>15, <4>3, <4>4 DEF Reached
        <4>5. CASE k # j
          <5>1. k + 1 \in 1 .. j /\ k + 1 \in DOMAIN way /\ k + 1 # 1 /\ ~(call.left <= 1) /\ k + 1 - 1 = k
                /\ call.left - 1 = w.depth - (k + 1) + 1
            <6>1. k \in Int /\ j \in Int /\ n \in Int /\ walk.depth \in Int /\ w.depth = walk.depth
              BY <1>1, <1>15, <2>2
            <6>2. 1 <= k /\ k < j /\ j <= n /\ n <= walk.depth /\ call.left = walk.depth - k + 1
              BY <1>1, <2>2, <4>1, <4>5
            <6> QED BY SMTT(30), <2>2, <6>1, <6>2
          <5>2. UnderOf[way[k + 1]] = way[k]
            BY <5>1 DEF WaysOf
          <5>3. [node |-> way[k], left |-> call.left - 1] \in CallsLeft(w.todo)
            BY <1>9, <1>16, <4>3, <5>1
          <5>4. [node |-> UnderOf[way[k + 1]], left |-> w.depth - (k + 1) + 1] \in CallsLeft(w.todo)
            BY <5>1, <5>2, <5>3
          <5> QED BY <5>1, <5>4 DEF Reached
        <4> QED BY <4>4, <4>5
      <3> QED BY <3>1, <3>2
    <2> QED BY SMTT(30), <2>3, <2>4, <2>5, <2>6 DEF Reached
  <1> QED BY <1>1, <1>14, <1>15, <1>18, <1>19, <1>20 DEF WalkSound

\* A listing that is not ok shows nobody, and is remembered.
LEMMA UnlistedSound ==
    ASSUME TreeIInv, walk.stage = "listing", walk.todo # <<>>, NEW call, call = Head(walk.todo), NEW w,
           w = [walk EXCEPT !.failed = walk.failed \cup {call.node}, !.todo = Tail(walk.todo)]
    PROVE  w \in Walks /\ WalkSound(w, stood)
  <1>1. /\ walk \in Walks /\ walk.todo \in Seq(TreeCalls) /\ walk.tree \in SUBSET Entities /\ walk.hidden \in Nat
        /\ TreeHangs(walk, stood) /\ HiddenCounted(walk, stood) /\ WaysFollowed(walk, stood)
    BY DEF TreeIInv, TreeTyped, WalkSound, Walks
  <1>2. Distinct(walk.todo)
    BY <1>1 DEF TreeHangs
  <1>3. /\ call \in TreeCalls /\ call \in CallsLeft(walk.todo)
        /\ Tail(walk.todo) \in Seq(TreeCalls) /\ Distinct(Tail(walk.todo))
        /\ CallsLeft(Tail(walk.todo)) = CallsLeft(walk.todo) \ {call}
    BY <1>1, <1>2, FirstCalled
  <1>4. w \in Walks
    BY <1>1, <1>3 DEF Walks, TreeCalls
  <1>5. /\ w.tree = walk.tree /\ w.hidden = walk.hidden /\ w.todo = Tail(walk.todo) /\ w.stage = walk.stage
        /\ w.root = walk.root /\ w.depth = walk.depth /\ w.disabled = walk.disabled
        /\ w.failed = walk.failed \cup {call.node}
    BY <1>1 DEF Walks
  <1>6. Awaited(w) \subseteq Awaited(walk)
    BY <1>3, <1>5 DEF Awaited
  <1>7. TreeHangs(w, stood)
    BY <1>1, <1>3, <1>5, <1>6 DEF TreeHangs
  <1>8. HiddenCounted(w, stood)
    <2>1. HiddenSeen(walk, stood) \in SUBSET HiddenSeen(w, stood) /\ HiddenSeen(w, stood) \in SUBSET Entities
      BY <1>5, <1>6 DEF HiddenSeen, DisabledSeen
    <2>2. /\ Cardinality(HiddenSeen(walk, stood)) <= Cardinality(HiddenSeen(w, stood))
          /\ Cardinality(HiddenSeen(w, stood)) \in Nat /\ Cardinality(HiddenSeen(walk, stood)) \in Nat
      BY <2>1, NoneHidden
    <2> QED BY <1>1, <1>5, <2>2 DEF HiddenCounted
  <1>9. WaysFollowed(w, stood)
    <2> SUFFICES ASSUME w.tree # {}, NEW way \in WaysOf(w), StandsStill(way, stood), NEW j \in DOMAIN way
                 PROVE  Reached(w, way, j)
      BY DEF WaysFollowed
    <2>1. Reached(walk, way, j)
      BY <1>1, <1>5 DEF WaysFollowed, WaysOf
    <2>2. ASSUME NEW c \in CallsLeft(walk.todo), c \notin CallsLeft(w.todo) PROVE c.node \in w.failed
      BY <1>3, <1>5, <2>2
    <2>3. ASSUME NEW k \in 1 .. j, [node |-> UnderOf[way[k]], left |-> walk.depth - k + 1] \in CallsLeft(walk.todo)
          PROVE  Reached(w, way, j)
      <3> DEFINE c == [node |-> UnderOf[way[k]], left |-> walk.depth - k + 1]
      <3>1. c \in CallsLeft(w.todo) \/ UnderOf[way[k]] \in w.failed
        BY <2>2, <2>3
      <3> QED BY <1>5, <2>3, <3>1 DEF Reached
    <2> QED BY <1>5, <2>1, <2>3 DEF Reached
  <1> QED BY <1>4, <1>5, <1>7, <1>8, <1>9 DEF WalkSound

LEMMA ChildrenSound == ASSUME TreeIInv, ChildrenListed PROVE TreeIInv'
  <1> DEFINE call == Head(walk.todo)
             listed == {e \in Below(call.node) : entity[e] # "gone"}
  <1>1. walk' \in Walks /\ WalkSound(walk', stood)
    <2>1. ASSUME NEW nodes \in OrdersOf(Visible(listed)),
                 walk' = [walk EXCEPT !.tree = walk.tree \cup Visible(listed),
                                      !.hidden = walk.hidden + Cardinality(listed \ Visible(listed)),
                                      !.todo = Deeper(nodes, call.left) \o Tail(walk.todo)]
          PROVE  walk' \in Walks /\ WalkSound(walk', stood)
      BY <2>1, ListedSound
    <2>2. ASSUME walk' = [walk EXCEPT !.failed = walk.failed \cup {call.node}, !.todo = Tail(walk.todo)]
          PROVE  walk' \in Walks /\ WalkSound(walk', stood)
      BY <2>2, UnlistedSound DEF ChildrenListed
    <2> QED BY <2>1, <2>2 DEF ChildrenListed
  <1>2. TreeTyped' /\ stood' = stood
    BY <1>1 DEF ChildrenListed, TreeIInv, TreeTyped
  <1> QED BY SMTT(30), <1>1, <1>2 DEF TreeIInv

LEMMA TreeStepSound == TreeIInv /\ [TreeNext]_treeVars => TreeIInv'
  <1> SUFFICES ASSUME TreeIInv, [TreeNext]_treeVars PROVE TreeIInv'
    OBVIOUS
  <1>1. CASE RootFetched
    BY <1>1, NoTreeSound, WalkStageSound DEF RootFetched
  <1>2. CASE HierarchyAnswered
    BY <1>2, WalkStageSound DEF HierarchyAnswered
  <1>3. CASE HierarchyThrows
    BY <1>3, NoTreeSound DEF HierarchyThrows
  <1>4. CASE UNCHANGED treeVars
    BY <1>4 DEF treeVars, TreeIInv, TreeTyped
  <1> QED BY <1>1, <1>2, <1>3, <1>4, AskedSound, ChildrenSound, ChangeSound DEF TreeNext

\* The tree that get_hierarchy answers shows nothing that was not there during the
\* call, and all that stood still below what did, save below a failed listing.
THEOREM TreesAreSound == TreeSpec => []TreeIsSound
  <1>1. TreeIInv => TreeWasThere
    BY DEF TreeIInv, WalkSound, TreeHangs, HiddenCounted, DisabledSeen, TreeWasThere
  <1>2. TreeIInv => StableIsShown
    <2> SUFFICES ASSUME TreeIInv, Answer, NEW way \in Ways, Stable(way),
                        \A i \in DOMAIN way : UnderOf[way[i]] \notin walk.failed
                 PROVE  way[Len(way)] \in walk.tree
      BY DEF StableIsShown
    <2>1. way \in WaysOf(walk) /\ StandsStill(way, stood)
      BY DEF Ways, WaysOf, Stable, StandsStill
    <2>2. PICK n \in 1 .. walk.depth : way \in [1 .. n -> Entities]
      BY DEF Ways
    <2>3. n \in Nat /\ DOMAIN way = 1 .. n /\ Len(way) = n /\ n \in DOMAIN way
      <3>1. walk.depth \in 1 .. 3
        BY DEF TreeIInv, TreeTyped, Walks
      <3>2. n \in Nat /\ n >= 1
        BY <2>2, <3>1
      <3>3. way \in Seq(Entities) /\ Len(way) = n
        BY <2>2, <3>2
      <3> QED BY <2>2, <3>2, <3>3
    <2>4. Reached(walk, way, n)
      BY <2>1, <2>3 DEF Answer, TreeIInv, WalkSound, WaysFollowed
    <2>5. CallsLeft(walk.todo) = {}
      BY DEF Answer, TreeIInv, WalkSound, CallsLeft
    <2>6. \A k \in 1 .. n : UnderOf[way[k]] \notin walk.failed
      BY <2>3
    <2> QED BY <2>3, <2>4, <2>5, <2>6 DEF Reached
  <1>3. TreeIInv => TreeIsSound
    BY <1>1, <1>2 DEF TreeIsSound
  <1> QED BY <1>3, TreeInitSound, TreeStepSound, PTL DEF TreeSpec

-----------------------------------------------------------------------------
(* Type correctness of the other parts                                      *)

\* A call is at a stage of the code, with at most one answer of the user.
THEOREM ToolsAreTyped == ToolSpec => []ToolTypeOK
  <1>1. ToolIInv => ToolTypeOK
    <2> SUFFICES ASSUME ToolIInv, NEW c \in ToolCallIds
                 PROVE  LET t == task[c]
                        IN  /\ t.work \in Work
                            /\ t.stage \in {"idle", "policy", "session", "asking", "sending", "suspend", "delete", "over"}
                            /\ {t.decided, t.env} \subseteq Targets \cup {"locked"}
                            /\ t.shown \in Targets \cup {"none"} /\ t.asked \in 0 .. 2 /\ t.inner \in 0 .. MaxInner
                            /\ t.sent \subseteq [kind : ToolKinds, env : Targets]
                            /\ t.told \in {"none", "ok", "error", "cancelled", "timeout"}
                            /\ t.token \in {"none", "active", "suspended", "deleted"}
      BY DEF ToolIInv, ToolTypeOK
    <2>1. task[c] \in ToolTasks
      BY DEF ToolIInv
    <2> QED BY <2>1 DEF ToolTasks, SentRequests
  <1> QED BY <1>1, ToolInitSound, ToolNextSound, PTL DEF ToolSpec

\* A workflow's calls, the requests of them and what the service holds are those
\* of the code.
THEOREM WorkflowWritesAreTyped == SdkSpec => []SdkTypeOK
  <1>1. SdkIInv => SdkTypeOK
    BY DEF SdkIInv, SdkTypeOK, WriteEntries
  <1> QED BY <1>1, SdkInvariant, PTL

\* A call, its confirmation and its request are of an operation and a target.
THEOREM RoutesAreTyped == RouteSpec => []RouteTypeOK
  <1>1. RouteIInv => RouteTypeOK
    BY DEF RouteIInv
  <1> QED BY <1>1, RouteInitSound, RoutesStaySound, PTL DEF RouteSpec

\* The service's hierarchy and what a walk holds of it are of its entities.
THEOREM TreesAreTyped == TreeSpec => []TreeTypeOK
  <1>1. TreeIInv => walk.hidden \in 0 .. Cardinality(Entities)
    <2> SUFFICES ASSUME TreeIInv PROVE walk.hidden \in 0 .. Cardinality(Entities)
      OBVIOUS
    <2>1. walk.hidden \in Nat /\ walk.hidden <= Cardinality(DisabledSeen(stood))
      BY DEF TreeIInv, TreeTyped, Walks, WalkSound, HiddenCounted
    <2>2. DisabledSeen(stood) \in SUBSET Entities /\ Entities \in SUBSET Entities
      BY DEF DisabledSeen
    <2>3. /\ Cardinality(DisabledSeen(stood)) \in Nat /\ Cardinality(Entities) \in Nat
          /\ Cardinality(DisabledSeen(stood)) <= Cardinality(Entities)
      BY <2>2, HierarchyAssumption, FS_Subset, FS_CardinalityType
    <2> QED BY <2>1, <2>3
  <1>2. TreeIInv => TreeTypeOK
    BY <1>1 DEF TreeIInv, TreeTyped, Walks, TreeTypeOK
  <1> QED BY <1>2, TreeInitSound, TreeStepSound, PTL DEF TreeSpec

\* A key or entity that is begun has gone no way yet.
LEMMA ProceedsShort == ASSUME NEW l, "path" \in DOMAIN l PROVE Len(Proceeds(l).path) <= MaxDepth
  <1>1. \A x : Len(<<x>>) = 1
    OBVIOUS
  <1>2. 0 <= MaxDepth /\ 1 <= MaxDepth /\ Len(<<>>) = 0
    BY SettingsAssumption
  <1>3. CASE l.todo = <<>>
    <2>1. Proceeds(l) = [l EXCEPT !.stage = "over", !.at = NoPlatform, !.path = <<>>]
      BY <1>3 DEF Proceeds
    <2>2. Proceeds(l).path = <<>>
      BY <2>1
    <2> QED BY <1>2, <2>2
  <1>4. CASE l.todo # <<>>
    <2> DEFINE stage == IF l.action = "set" THEN "post" ELSE "read"
               x == Place(l)[1]
    <2>1. Proceeds(l) = [l EXCEPT !.stage = stage, !.at = x, !.path = <<x>>]
      BY <1>4 DEF Proceeds
    <2> HIDE DEF stage, x
    <2>2. Proceeds(l).path = <<x>>
      BY <2>1
    <2> QED BY <1>1, <1>2, <2>2
  <1> QED BY <1>3, <1>4

LEMMA AnsweredShort == ASSUME NEW l, NEW v, "path" \in DOMAIN l PROVE Len(Answered(l, v).path) <= MaxDepth
  <1> DEFINE n == [l EXCEPT !.todo = Tail(l.todo),
                            !.answers = l.answers \cup {[place |-> Place(l), value |-> v, path |-> l.path]}]
  <1>1. DOMAIN n = DOMAIN l
    OBVIOUS
  <1>2. Answered(l, v) = Proceeds(n)
    <2>1. [l EXCEPT !.todo = Tail(@), !.answers = @ \cup {[place |-> Place(l), value |-> v, path |-> l.path]}] = n
      OBVIOUS
    <2> QED BY <2>1 DEF Answered
  <1> QED BY <1>1, <1>2, ProceedsShort

SettingsRest == foreign \in 0 .. MaxValueChanges /\ Len(lookup.path) <= MaxDepth

LEMMA SettingsRestStays == ASSUME SettingsIInv, SettingsRest, [SettingsNext]_settingsVars PROVE SettingsRest'
  <1> USE SettingsAssumption DEF SettingsRest
  <1>1. /\ lookup \in Lookups /\ NewLookup \in Lookups /\ lookup.path \in Seq(Platforms) /\ Len(lookup.path) \in Nat
        /\ \A l \in Lookups : "path" \in DOMAIN l
    BY EmptyLookup DEF SettingsIInv, SettingsTyped, Lookups
  <1>2. 0 \in 0 .. MaxValueChanges /\ Len(<<>>) <= MaxDepth
    OBVIOUS
  <1>3. CASE SettingsCalled
    <2>1. PICK action \in {"get", "set"}, todo \in Orders : lookup' = Proceeds(Begun(action, todo))
      BY <1>3 DEF SettingsCalled
    <2>2. "path" \in DOMAIN Begun(action, todo)
      BY <1>1 DEF Begun
    <2> QED BY <1>2, <1>3, <2>1, <2>2, ProceedsShort DEF SettingsCalled
  <1>4. CASE SettingRead
    <2> DEFINE place == <<lookup.at, Wanted(lookup)>>
    <2>1. PICK r : LET kept == [lookup EXCEPT !.reads = lookup.reads \cup {r}]
                   IN  \/ lookup' = [kept EXCEPT !.stage = "parent"]
                       \/ \E v : lookup' = Answered(kept, v)
      BY <1>4 DEF SettingRead
    <2> DEFINE kept == [lookup EXCEPT !.reads = lookup.reads \cup {r}]
    <2>2. "path" \in DOMAIN kept /\ kept.path = lookup.path
      BY <1>1
    <2>3. lookup' = [kept EXCEPT !.stage = "parent"] \/ \E v : lookup' = Answered(kept, v)
      BY <2>1
    <2> HIDE DEF kept
    <2>4. CASE lookup' = [kept EXCEPT !.stage = "parent"]
      <3>1. lookup'.path = lookup.path
        BY <2>2, <2>4
      <3> QED BY <1>4, <3>1 DEF SettingRead
    <2>5. CASE \E v : lookup' = Answered(kept, v)
      BY <1>4, <2>2, <2>5, AnsweredShort DEF SettingRead
    <2> QED BY <2>3, <2>4, <2>5
  <1>5. CASE ParentFound
    <2>1. PICK r : LET kept == [lookup EXCEPT !.parents = lookup.parents \cup {r}]
                   IN  \/ lookup' = Answered(kept, "unknown")
                       \/ /\ Len(lookup.path) # MaxDepth /\ r.is \in Platforms
                          /\ lookup' = [kept EXCEPT !.stage = "read", !.at = r.is, !.path = Append(kept.path, r.is)]
      BY <1>5 DEF ParentFound
    <2> DEFINE kept == [lookup EXCEPT !.parents = lookup.parents \cup {r}]
    <2>2. "path" \in DOMAIN kept /\ kept.path = lookup.path
      BY <1>1
    <2>3. \/ lookup' = Answered(kept, "unknown")
          \/ /\ Len(lookup.path) # MaxDepth /\ r.is \in Platforms
             /\ lookup' = [kept EXCEPT !.stage = "read", !.at = r.is, !.path = Append(kept.path, r.is)]
      BY <2>1
    <2> HIDE DEF kept
    <2>4. CASE lookup' = Answered(kept, "unknown")
      BY <1>5, <2>2, <2>4, AnsweredShort DEF ParentFound
    <2>5. CASE /\ Len(lookup.path) # MaxDepth /\ r.is \in Platforms
               /\ lookup' = [kept EXCEPT !.stage = "read", !.at = r.is, !.path = Append(kept.path, r.is)]
      <3>1. lookup'.path = Append(lookup.path, r.is)
        BY <2>2, <2>5
      <3>2. Len(lookup'.path) = Len(lookup.path) + 1
        BY <1>1, <2>5, <3>1, AppendProperties
      <3>3. Len(lookup'.path) <= MaxDepth
        BY <1>1, <2>5, <3>2
      <3> QED BY <1>5, <3>3 DEF ParentFound
    <2> QED BY <2>3, <2>4, <2>5
  <1>6. CASE SettingPosted
    <2>1. \E v : lookup' = Answered(lookup, v)
      BY <1>6 DEF SettingPosted
    <2> QED BY <1>1, <1>6, <2>1, AnsweredShort DEF SettingPosted
  <1>7. CASE CallThrows
    <2>1. lookup'.path = <<>>
      BY <1>7 DEF CallThrows, NewLookup
    <2> QED BY <1>2, <1>7, <2>1 DEF CallThrows
  <1>8. CASE OthersChange
    <2>1. foreign' \in 0 .. MaxValueChanges
      BY <1>8 DEF OthersChange
    <2> QED BY <1>8, <2>1 DEF OthersChange
  <1>9. CASE UNCHANGED settingsVars
    BY <1>9 DEF settingsVars
  <1>10. CASE CallReturned
    <2>1. lookup'.path = <<>>
      BY <1>10 DEF CallReturned, NewLookup
    <2> QED BY <1>2, <1>10, <2>1 DEF CallReturned
  <1> QED BY <1>3, <1>4, <1>5, <1>6, <1>7, <1>8, <1>9, <1>10 DEF SettingsNext

\* A lookup climbs at most as far as the hierarchy is deep.
THEOREM SettingsAreTyped == SettingsSpec => []SettingsTypeOK
  <1>1. SettingsInit => SettingsRest
    BY SettingsAssumption DEF SettingsInit, NewLookup, SettingsRest
  <1>2. SettingsIInv /\ SettingsRest => SettingsTypeOK
    BY DEF SettingsIInv, SettingsTyped, Lookups, Answerings, SettingsRest, SettingsTypeOK
  <1> QED BY <1>1, <1>2, SettingsInitSound, SettingsStaySound, SettingsRestStays, PTL DEF SettingsSpec
=============================================================================
