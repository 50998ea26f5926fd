------------------------------ MODULE ToolCalls ------------------------------
(***************************************************************************)
(* From the call of a tool to its requests: executeChatTool of the chat,   *)
(* handleWebMcpExecuteTool of the service worker, the execute map of       *)
(* src/src/tools/internal-router.ts, executeTypedTool of adapter.ts and    *)
(* executeWorkflow.  How the user is asked is ConfirmFlow, how the gateway *)
(* decides is GatewayPolicy; here both simply answer.  What counts is who  *)
(* asks, about which environment, and what is sent in the end.             *)
(***************************************************************************)
EXTENDS FiniteSets, Naturals

CONSTANTS
    ToolCallIds,
    MaxInner,       \* calls of a workflow
    MaxChanges      \* times the user changes the active environment

ASSUME ToolCallsAssumption == MaxInner \in Nat \ {0} /\ MaxChanges \in Nat

VARIABLES
    target,     \* getActiveEnv(), or "locked" when there is no session for it
    changes,
    task        \* per call, see NewTask

toolVars == <<target, changes, task>>

Targets == {"uat", "prod"}

\* "settings" stands for the handwritten write tools, "create" for a generated
\* write that the manifest does not call destructive, "delete" for one that it
\* does, "token" for create_api_token, "payment" for send_test_transaction.
ToolKinds == {"read", "settings", "create", "delete", "token", "payment", "script", "declared"}
Workflows == {"script", "declared"}
InnerKinds == {"read", "create", "delete"}

\* dry and plan are dryRun and planOnly; jobs: whether workflows go to a Job.
Work == {w \in [via : {"chat", "page"}, tool : ToolKinds, dry : BOOLEAN, plan : BOOLEAN, jobs : BOOLEAN] :
            /\ w.tool \notin Workflows => ~w.dry /\ ~w.plan /\ ~w.jobs
            /\ w.via = "page" /\ w.tool \in Workflows => w.jobs}

NoWork == [via |-> "chat", tool |-> "read", dry |-> FALSE, plan |-> FALSE, jobs |-> FALSE]

NewTask ==
    [work    |-> NoWork,
     stage   |-> "idle",
     decided |-> "locked",  \* the environment the gateway was asked about
     shown   |-> "none",    \* the one the dialog showed
     env     |-> "locked",  \* the one whose credentials the tool holds
     asked   |-> 0,
     inner   |-> 0,         \* calls of the workflow that were made
     sent    |-> {},        \* requests: which kind, and where
     told    |-> "none",    \* how the call was answered
     token   |-> "none",    \* the token that create_api_token leaves
     claimed |-> FALSE,     \* _temporaryTokenDeleted
     failed  |-> FALSE]     \* whether a request of its clean-up failed

ToolInit ==
    /\ target \in Targets /\ changes = 0
    /\ task = [c \in ToolCallIds |-> NewTask]

Sets(c, t) == task' = [task EXCEPT ![c] = t] /\ UNCHANGED <<target, changes>>

Ends(t, told) == [t EXCEPT !.stage = "over", !.told = told]

-----------------------------------------------------------------------------
(* The gate.                                                               *)

\* isWebMcpReadOnlyInvocation.
ReadOnly(w) == w.tool = "read" \/ (w.tool \in Workflows /\ (w.dry \/ w.plan))

\* buildWebMcpWritePreview knows nothing of send_test_transaction.
PageAsks(w) == ~ReadOnly(w) /\ w.tool # "payment"

\* confirmIfMutating, confirmWorkflowIfNeeded, executeSendTestTransaction and,
\* for what the manifest calls destructive, executeTypedTool.  The page's
\* execute map has bypassWriteConfirmation.
ChatAsks(w) == ~ReadOnly(w) /\ w.tool # "create"

\* Mutant of ToolAsks: the service worker's execute map without its option.
ToolAsksAgain(w) == ChatAsks(w)

ToolAsks(w) == w.via = "chat" /\ ChatAsks(w)

Asking(t, env) == [t EXCEPT !.stage = "asking", !.asked = @ + 1, !.shown = env]

CallArrives(c, w) ==
    /\ task[c].stage = "idle"
    /\ Sets(c, [task[c] EXCEPT !.work = w, !.stage = "policy", !.decided = target])

\* The page's preview shows the session read before the policy was evaluated.
\* (Without a side panel the page itself asks, and calls again when confirmed.)
PolicyAllows(c) ==
    LET t == task[c]
        session == IF t.decided = "locked" THEN target ELSE t.decided
    IN  /\ t.stage = "policy"
        /\ Sets(c, IF t.work.via = "chat" \/ ReadOnly(t.work) THEN [t EXCEPT !.stage = "session"]
                   ELSE IF session = "locked" THEN Ends(t, "error")
                   ELSE IF PageAsks(t.work) THEN Asking(t, session)
                   ELSE [t EXCEPT !.stage = "session"])

PolicyDenies(c) == task[c].stage = "policy" /\ Sets(c, Ends(task[c], "error"))

\* sessionOrError(): the credentials the tool will use.  A script that fails the
\* preflight and parameters that the adapter rejects end here as well.
SessionTaken(c) ==
    LET t == [task[c] EXCEPT !.env = target]
    IN  /\ task[c].stage = "session"
        /\ \/ Sets(c, Ends(t, "error"))
           \/ /\ target # "locked"
              /\ Sets(c, IF ToolAsks(t.work) THEN Asking(t, target) ELSE [t EXCEPT !.stage = "sending"])

\* What is rejected only when the user has been asked: the runtime that a script
\* names, and parameters that a handwritten tool misses.
Rejected(c) == task[c].stage = "sending" /\ task[c].inner = 0 /\ Sets(c, Ends(task[c], "error"))

\* Mutant of UserAnswers: the chat reads the session when the dialog is over.
AnswersThenSession(c) ==
    LET t == task[c]
    IN  /\ t.stage = "asking"
        /\ \/ Sets(c, [t EXCEPT !.stage = IF t.work.via = "chat" THEN "sending" ELSE "session",
                                !.env = IF target = "locked" THEN @ ELSE target])
           \/ Sets(c, Ends(t, "cancelled"))

\* Mutant of UserAnswers: the choice is not looked at.
AnswersAnyhow(c) ==
    LET t == task[c]
        goes == [t EXCEPT !.stage = IF t.env = "locked" THEN "session" ELSE "sending"]
    IN  t.stage = "asking" /\ (Sets(c, goes) \/ Sets(c, [goes EXCEPT !.told = "cancelled"]))

UserAnswers(c) ==
    LET t == task[c]
    IN  /\ t.stage = "asking"
        /\ \/ Sets(c, [t EXCEPT !.stage = IF t.env = "locked" THEN "session" ELSE "sending"])
           \/ Sets(c, Ends(t, "cancelled"))

-----------------------------------------------------------------------------
(* The requests.                                                           *)

Sends(t, kind) == [t EXCEPT !.sent = @ \cup {[kind |-> kind, env |-> t.env]}]

\* One request is all of it.
Requested(c) ==
    LET t == task[c]
    IN  /\ t.stage = "sending" /\ t.work.tool \notin Workflows \cup {"token"}
        /\ \E told \in {"ok", "error"} : Sets(c, Ends(Sends(t, t.work.tool), told))

\* create_api_token: a token that was created, and that the answer names, is
\* suspended and then deleted.
TokenMade(c) ==
    LET t == Sends(task[c], "token")
    IN  /\ t.stage = "sending" /\ t.work.tool = "token"
        /\ \/ Sets(c, Ends(t, "error"))
           \/ Sets(c, [t EXCEPT !.stage = "suspend", !.token = "active"])

\* Mutant of SuspendAnswered: the deletion is left to somebody else.
SuspendOnly(c) ==
    LET t == task[c]
    IN  /\ t.stage = "suspend"
        /\ \/ Sets(c, [Ends(t, "ok") EXCEPT !.token = "suspended"])
           \/ Sets(c, [Ends(t, "ok") EXCEPT !.failed = TRUE])

\* A request that throws skips the rest; one that is refused does not.
SuspendAnswered(c) ==
    LET t == task[c]
    IN  /\ t.stage = "suspend"
        /\ \/ Sets(c, [t EXCEPT !.stage = "delete", !.token = "suspended"])
           \/ Sets(c, [t EXCEPT !.stage = "delete", !.failed = TRUE])
           \/ Sets(c, [Ends(t, "ok") EXCEPT !.failed = TRUE])

\* The API deletes suspended tokens only.
DeleteAnswered(c) ==
    LET t == [Ends(task[c], "ok") EXCEPT !.claimed = TRUE]
    IN  /\ task[c].stage = "delete"
        /\ \/ t.token = "suspended" /\ Sets(c, [t EXCEPT !.token = "deleted"])
           \/ Sets(c, [t EXCEPT !.failed = TRUE])
           \/ Sets(c, [t EXCEPT !.failed = TRUE, !.claimed = FALSE])

\* Mutant of DeclaredCall: planOnly is not looked at.
DeclaredCallSent(c) ==
    LET t == task[c]
    IN  /\ t.stage = "sending" /\ t.work.tool = "declared" /\ t.inner < MaxInner
        /\ \E k \in InnerKinds : Sets(c, Sends([t EXCEPT !.inner = @ + 1], k))

\* executeDeclarativeWorkflow looks at planOnly, and not at dryRun.
DeclaredCall(c) ==
    LET t == [task[c] EXCEPT !.inner = @ + 1]
    IN  /\ t.stage = "sending" /\ t.work.tool = "declared" /\ t.inner <= MaxInner
        /\ \E k \in InnerKinds : Sets(c, IF t.work.plan THEN t ELSE Sends(t, k))

\* A script that is neither dry nor handed to a Job runs here, and asks no more;
\* one that is only to be planned is refused.
ScriptCall(c) ==
    LET t == [task[c] EXCEPT !.inner = @ + 1]
    IN  /\ t.stage = "sending" /\ t.work.tool = "script" /\ ~t.work.dry
        /\ ~t.work.plan /\ ~t.work.jobs
        /\ t.inner <= MaxInner
        /\ \E k \in InnerKinds : Sets(c, Sends(t, k))

\* The workflow ends, is handed to the Job, or one of its calls throws.  A script
\* that has timed out is answered for already.
WorkflowEnds(c) ==
    LET t == task[c]
    IN  /\ t.stage = "sending" /\ t.work.tool \in Workflows
        /\ \E told \in {"ok", "error"} : Sets(c, Ends(t, IF t.told = "timeout" THEN t.told ELSE told))

\* runSandbox aborts its signal, which the SDK calls of the script do not get.
ScriptTimedOut(c) ==
    LET t == task[c]
    IN  /\ t.stage = "sending" /\ t.work.tool = "script" /\ t.inner > 0 /\ t.told = "none"
        /\ Sets(c, [t EXCEPT !.told = "timeout"])

TargetChanged ==
    /\ changes < MaxChanges
    /\ target' \in (Targets \cup {"locked"}) \ {target}
    /\ changes' = changes + 1 /\ UNCHANGED task

ToolStep(c) ==
    \/ \E w \in Work : CallArrives(c, w)
    \/ PolicyAllows(c) \/ PolicyDenies(c) \/ SessionTaken(c) \/ Rejected(c) \/ UserAnswers(c)
    \/ Requested(c) \/ TokenMade(c) \/ SuspendAnswered(c) \/ DeleteAnswered(c)
    \/ DeclaredCall(c) \/ ScriptCall(c) \/ WorkflowEnds(c) \/ ScriptTimedOut(c)

ToolNext == TargetChanged \/ \E c \in ToolCallIds : ToolStep(c)

ToolSpec == ToolInit /\ [][ToolNext]_toolVars

-----------------------------------------------------------------------------

ToolTypeOK ==
    /\ target \in Targets \cup {"locked"} /\ changes \in 0 .. MaxChanges
    /\ \A c \in ToolCallIds :
        LET t == task[c]
        IN  /\ t.work \in Work
            /\ t.stage \in {"idle", "policy", "session", "asking", "sending", "suspend", "delete", "over"}
            /\ {t.decided, t.env} \subseteq Targets \cup {"locked"}
            /\ t.shown \in Targets \cup {"none"} /\ t.asked \in 0 .. 2 /\ t.inner \in 0 .. MaxInner
            /\ t.sent \subseteq [kind : ToolKinds, env : Targets]
            /\ t.told \in {"none", "ok", "error", "cancelled", "timeout"}
            /\ t.token \in {"none", "active", "suspended", "deleted"}

\* What the user of the chat confirms is done in the environment the dialog
\* showed, however the active one changes meanwhile.
ChatGoesWhereShown ==
    \A c \in ToolCallIds :
        LET t == task[c]
        IN  t.work.via = "chat" /\ t.shown # "none" => \A r \in t.sent : r.env = t.shown

\* A call that the user cancelled sends nothing, then or later.
CancelledSendsNothing == \A c \in ToolCallIds : task[c].told = "cancelled" => task[c].sent = {}

\* A deletion outside a workflow was asked about by exactly one of the layers it
\* passes: not by none, and not twice.
DeletionAskedOnce ==
    \A c \in ToolCallIds :
        LET t == task[c]
        IN  t.work.tool \in {"delete", "token", "settings"} /\ t.sent # {} => t.asked = 1

\* The token that create_api_token made survives the call only if a request of
\* its clean-up failed.
TokenLeftOnlyOnFailure ==
    \A c \in ToolCallIds :
        LET t == task[c] IN t.stage = "over" /\ t.token \in {"active", "suspended"} => t.failed

\* A workflow of declared calls that is only to be planned sends nothing.
PlanSendsNothing == \A c \in ToolCallIds : task[c].work.plan => task[c].sent = {}

\* What a call sends was let through: by the user, once, where it deletes; never
\* by one who cancelled, nor for a plan; from the chat, where the user was shown
\* that it goes; and the token it makes is gone when it is over, or a request of its
\* clean-up failed.
SentAsAnswered ==
    CancelledSendsNothing /\ DeletionAskedOnce /\ PlanSendsNothing /\ ChatGoesWhereShown /\ TokenLeftOnlyOnFailure

\* Not so: the page's tools read the session again after the dialog.
GoesWhereShown ==
    \A c \in ToolCallIds : task[c].shown # "none" => \A r \in task[c].sent : r.env = task[c].shown

\* Not so: neither the chat's generated writes nor the page's test transactions
\* are asked about.
WritesAreAsked ==
    \A c \in ToolCallIds :
        LET t == task[c]
        IN  t.work.tool \notin {"read"} \cup Workflows /\ t.sent # {} => t.asked > 0

\* Not so: a declarative workflow is run although dryRun is set.
DryRunSendsNothing == \A c \in ToolCallIds : task[c].work.dry => task[c].sent = {}

\* Not so: a refused deletion is reported as done.
ClaimedIsDeleted == \A c \in ToolCallIds : task[c].claimed => task[c].token = "deleted"

\* Not so: the policy is asked about the environment before the last change.
RunsWhereDecided ==
    \A c \in ToolCallIds : \A r \in task[c].sent : r.env = task[c].decided
=============================================================================
