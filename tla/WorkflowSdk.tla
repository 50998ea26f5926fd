------------------------------ MODULE WorkflowSdk ------------------------------
(***************************************************************************)
(* The writes of the sdk object of a workflow script: createWorkflowSdk    *)
(* and its namespaces, with the two hosts that make one, the panel's       *)
(* (buildSdkFacade) and the Job's (buildSwSdk).  The script may have       *)
(* several calls under way.  How its calls travel to the service worker    *)
(* is JobExecutor; what a test transaction does is TestTransaction.        *)
(***************************************************************************)
EXTENDS Naturals

CONSTANTS
    SdkCalls,
    MaxKeys         \* settings of one update

ASSUME WorkflowSdkAssumption == MaxKeys \in Nat \ {0}

VARIABLES
    workflow,   \* the host and the context it was launched with
    stopped,    \* the Job was paused or cancelled, or the panel's sandbox timed out
    write       \* per call, see NewWrite

sdkVars == <<workflow, stopped, write>>

\* merchant: whether the context names it, or it is looked up by its channel.
Launches == [host : {"panel", "job"}, channel : BOOLEAN, merchant : {"given", "asked"}]

\* "account" stands for edit, delete and detach of a merchant account.
SdkMethods == {"settings", "entity", "createAccount", "attach", "account", "contact", "threeDCheck", "sendTest"}

\* For a workflow launched on a channel; "above" is a division or a PSP.
SdkTargets == {"channel", "merchant", "otherChannel", "otherMerchant", "above"}

SdkWork ==
    {w \in [method : SdkMethods, to : SdkTargets, keys : 1 .. MaxKeys, valid : BOOLEAN] :
        w.method # "settings" => w.keys = 1}

NoSdkWork == [method |-> "entity", to |-> "channel", keys |-> 1, valid |-> TRUE]

NewWrite ==
    [work     |-> NoSdkWork,
     stage    |-> "idle",
     checked  |-> FALSE,    \* ghost: the merchant it aims at was compared
     recorded |-> FALSE,    \* in the writes of the report
     posts    |-> 0,        \* requests that change something
     applied  |-> 0,
     late     |-> FALSE,    \* ghost: one of them was sent after the stop
     told     |-> "none"]

SdkInit ==
    /\ workflow \in Launches /\ stopped = FALSE
    /\ write = [c \in SdkCalls |-> NewWrite]

WriteIs(c, w) == write' = [write EXCEPT ![c] = w] /\ UNCHANGED <<workflow, stopped>>

-----------------------------------------------------------------------------
(* Before the request.                                                     *)

Rejects(w) == [w EXCEPT !.stage = "over", !.told = "thrown"]

Guarded == {"settings", "entity", "createAccount", "attach"}

\* Mutant of Accepted: nothing is recorded before the answer.
AcceptedUnrecorded(w) == IF w.work.valid THEN [w EXCEPT !.stage = "sending"] ELSE Rejects(w)

\* recordWrite comes before the parameters are looked at for good.
Accepted(w) ==
    LET r == [w EXCEPT !.recorded = TRUE]
    IN  IF w.work.valid THEN [r EXCEPT !.stage = "sending"] ELSE Rejects(r)

\* Mutant of Hooked: only a merchant that the context names is compared.
HookedByContext(w) ==
    IF workflow.host = "job" /\ workflow.channel /\ w.work.method \in Guarded
         /\ (w.work.to = "otherChannel" \/ (w.work.to = "otherMerchant" /\ workflow.merchant = "given"))
    THEN Rejects(w)
    ELSE Accepted([w EXCEPT !.checked = TRUE])

\* The before-write hooks: the panel's sandbox asks no more, the Job compares the
\* target with the channel it was launched from (assertWorkflowTarget).
Hooked(w) ==
    IF workflow.host = "panel" \/ ~workflow.channel \/ w.work.method \notin Guarded THEN Accepted(w)
    ELSE IF w.work.to = "otherChannel" THEN Rejects(w)
    ELSE IF w.work.to \notin {"merchant", "otherMerchant"} THEN Accepted(w)
    ELSE IF workflow.merchant = "asked" THEN [w EXCEPT !.stage = "parent"]
    ELSE IF w.work.to = "otherMerchant" THEN Rejects(w)
    ELSE Accepted([w EXCEPT !.checked = TRUE])

\* Which calls look at their parameters before the hook.
ChecksFirst(w) ==
    w.work.method \in {"attach", "createAccount"} \/ (w.work.method = "account" /\ workflow.host = "job")

\* A call of the script.  The Job's service worker takes none once it is stopped,
\* the panel's sandbox goes on taking them.
CallMade(c, work) ==
    LET w == [write[c] EXCEPT !.work = work]
    IN  /\ write[c].stage = "idle" /\ (workflow.host = "job" => ~stopped)
        /\ WriteIs(c,
             IF work.method = "threeDCheck" THEN [w EXCEPT !.stage = "sending"]
             ELSE IF work.method \in {"createAccount", "sendTest"} /\ workflow.host = "job"
                  THEN [w EXCEPT !.stage = "resolving"]
             ELSE IF work.method = "sendTest"
                  THEN IF work.valid THEN [w EXCEPT !.stage = "sending"] ELSE Rejects(w)
             ELSE IF ChecksFirst(w) /\ ~work.valid THEN Rejects(w)
             ELSE Hooked(w))

\* resolveMerchantAccountClearingInstitute and resolveTransactionParams, which
\* may find nothing and throw.
Resolved(c) ==
    LET w == write[c]
    IN  /\ w.stage = "resolving"
        /\ \/ WriteIs(c, Rejects(w))
           \/ WriteIs(c, IF ~w.work.valid THEN Rejects(w)
                         ELSE IF w.work.method = "sendTest" THEN [w EXCEPT !.stage = "sending"]
                         ELSE Hooked(w))

\* currentMerchantId: the answer names the parent, or is refused and names none,
\* or the request throws.
ParentAnswered(c) ==
    LET w == write[c]
    IN  /\ w.stage = "parent"
        /\ \/ WriteIs(c, IF w.work.to = "otherMerchant" THEN Rejects(w) ELSE Accepted([w EXCEPT !.checked = TRUE]))
           \/ WriteIs(c, Accepted(w))
           \/ WriteIs(c, Rejects(w))

-----------------------------------------------------------------------------
(* The requests.                                                           *)

\* Mutant of Signalled: the SDK of the settings is made without the signal.
SignalledContacts(w) == workflow.host = "job" /\ w.work.method = "contact"

\* Whose requests get the signal of the Job.
Signalled(w) == workflow.host = "job" /\ w.work.method \in {"contact", "settings"}

Posted(c) ==
    LET w == write[c]
    IN  /\ w.stage = "sending"
        /\ WriteIs(c, IF Signalled(w) /\ stopped THEN Rejects(w)
                      ELSE [w EXCEPT !.stage = "sent", !.posts = @ + 1, !.late = @ \/ stopped])

\* Mutant of PostAnswered: the errors of an update are not looked at.
PostTaken(c) ==
    LET w == write[c]
        goes(x) == IF x.posts < x.work.keys THEN [x EXCEPT !.stage = "sending"]
                   ELSE [x EXCEPT !.stage = "over", !.told = "ok"]
    IN  w.stage = "sent" /\ \E n \in {0, 1} : WriteIs(c, goes([w EXCEPT !.applied = @ + n]))

\* update() sends key by key, and goes on after a refusal; assertWriteSucceeded
\* then throws what was applied away.  sendTest is recorded when it is answered.
PostAnswered(c) ==
    LET w == IF write[c].work.method = "sendTest" THEN [write[c] EXCEPT !.recorded = TRUE] ELSE write[c]
        goes(x) == IF x.posts < x.work.keys THEN [x EXCEPT !.stage = "sending"]
                   ELSE IF x.applied < x.work.keys /\ x.work.method \notin {"sendTest", "threeDCheck"} THEN Rejects(x)
                   ELSE [x EXCEPT !.stage = "over", !.told = "ok"]
    IN  /\ w.stage = "sent"
        /\ \/ \E n \in {0, 1} : WriteIs(c, goes([w EXCEPT !.applied = @ + n]))
           \/ WriteIs(c, Rejects(write[c]))

Stops == ~stopped /\ stopped' = TRUE /\ UNCHANGED <<workflow, write>>

SdkNext ==
    \/ Stops
    \/ \E c \in SdkCalls :
        \/ \E w \in SdkWork : CallMade(c, w)
        \/ Resolved(c) \/ ParentAnswered(c) \/ Posted(c) \/ PostAnswered(c)

SdkSpec == SdkInit /\ [][SdkNext]_sdkVars

-----------------------------------------------------------------------------

SdkTypeOK ==
    /\ workflow \in Launches /\ stopped \in BOOLEAN
    /\ write \in [SdkCalls ->
         [work : SdkWork,
          stage : {"idle", "resolving", "parent", "sending", "sent", "over"},
          checked : BOOLEAN, recorded : BOOLEAN, posts : 0 .. MaxKeys, applied : 0 .. MaxKeys,
          late : BOOLEAN, told : {"none", "ok", "thrown"}]]

\* Whatever becomes of a call, a write it may have sent is in the report: save a
\* 3D check, and a test transaction that is recorded when it is answered.
SentIsRecorded ==
    \A c \in SdkCalls :
        LET w == write[c]
        IN  w.posts > 0 /\ w.work.method \notin {"threeDCheck", "sendTest"} => w.recorded

\* A Job launched on a channel sends no guarded write to another channel, nor to
\* a merchant it could compare with its own and found to be another.
AimedAtContext ==
    \A c \in SdkCalls :
        LET w == write[c]
        IN  workflow.host = "job" /\ workflow.channel /\ w.work.method \in Guarded /\ w.posts > 0
            => /\ w.work.to # "otherChannel"
               /\ w.work.to = "otherMerchant" => ~w.checked /\ workflow.merchant = "asked"

\* The contact and settings calls of a Job that was stopped send nothing more,
\* wherever they were.
SignalStopsWrites ==
    \A c \in SdkCalls :
        workflow.host = "job" /\ write[c].work.method \in {"contact", "settings"} => ~write[c].late

\* An update that the script is told of as done has set every key, and one with
\* a key that is not known sets none.
UpdatesAreWhole ==
    \A c \in SdkCalls :
        LET w == write[c]
        IN  w.work.method = "settings"
            => (w.told = "ok" => w.applied = w.work.keys) /\ (~w.work.valid => w.posts = 0)

\* A script's calls are accounted for: what was sent is recorded, nothing is
\* sent for a Job that was stopped where a signal goes with the call, and a
\* settings update is told as done only when it is.
WritesAreAccounted == SentIsRecorded /\ SignalStopsWrites /\ UpdatesAreWhole

\* Not so: a parent that cannot be looked up lets every merchant pass.
MerchantWritesVerified ==
    \A c \in SdkCalls :
        LET w == write[c]
        IN  workflow.host = "job" /\ workflow.channel /\ w.work.method \in Guarded
            /\ w.work.to = "otherMerchant" => w.posts = 0

\* Not so: the writes of entities, accounts and transactions get no signal.
StoppedJobSendsNothing == \A c \in SdkCalls : workflow.host = "job" => ~write[c].late

\* Not so: a test transaction whose answer is lost is in no report.
EveryWriteRecorded == \A c \in SdkCalls : write[c].told # "none" /\ write[c].posts > 0 => write[c].recorded
=============================================================================
