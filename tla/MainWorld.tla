------------------------------ MODULE MainWorld ------------------------------
(***************************************************************************)
(* WebMCP in one page of the portal: registerToolsInMainWorld, which the   *)
(* service worker injects (background/service-worker.ts), and the bridge   *)
(* of the isolated world (content/bridge.ts).  The two share the thread of *)
(* the page and talk by window.postMessage; window.confirm stops both.     *)
(* What the worker does with a call is ConfirmFlow and GatewayPolicy: here *)
(* it runs the tool or not, and its answer may never come.                 *)
(***************************************************************************)
EXTENDS FiniteSets, Naturals

CONSTANTS
    McpTools,       \* TOOL_SCHEMAS
    PageCalls,      \* calls that the page makes
    MaxPolls        \* MAX_RETRIES

ASSUME MainAssumption == IsFiniteSet(McpTools) /\ MaxPolls \in Nat \ {0}

VARIABLES
    script,     \* of the main world: "requested" by the bridge, "running", "failed"
    offered,    \* whether the page has navigator.modelContext
    shown,      \* document.visibilityState = "visible"
    unwanted,    \* tools that registerTool refuses, now
    held,       \* tools the browser holds
    registered, polls, polling, watching,
    promise,    \* of a call: "none", "pending", or how it settled
    stage,      \* of a call in the bridge
    posted,     \* the webmcp:tool-result on its way to the main world
    ran         \* times the worker ran the tool of a call

registryVars == <<script, offered, shown, unwanted, held, registered, polls, polling, watching>>
callVars     == <<promise, stage, posted, ran>>
mainVars     == <<registryVars, callVars>>

MainInit ==
    /\ script = "requested" /\ offered \in BOOLEAN /\ shown \in BOOLEAN
    /\ unwanted \in SUBSET McpTools
    /\ held = {} /\ registered = FALSE /\ polls = 0 /\ polling = FALSE /\ watching = FALSE
    /\ promise = [c \in PageCalls |-> "none"] /\ stage = [c \in PageCalls |-> "none"]
    /\ posted = [c \in PageCalls |-> "none"] /\ ran = [c \in PageCalls |-> 0]

\* window.confirm is open: no event of the page is handled.
Blocked == \E c \in PageCalls : stage[c] = "dialog"

Put(f, c, v) == [f EXCEPT ![c] = v]

-----------------------------------------------------------------------------
(* The registration.                                                       *)

\* tryRegister(): one tool is enough, and the ones that failed are given up.
TryRegister ==
    IF registered \/ ~offered THEN UNCHANGED <<held, registered>>
    ELSE /\ held' = held \cup (McpTools \ unwanted)
         /\ registered' = (McpTools \ unwanted # {})

InjectMain ==
    /\ script = "requested"
    /\ \/ script' = "failed" /\ UNCHANGED <<held, registered, polling, watching>>
       \/ /\ script' = "running"
          /\ TryRegister
          /\ polling' = ~registered' /\ watching' = ~registered'
    /\ UNCHANGED <<offered, shown, unwanted, polls>>

Poll ==
    /\ polling
    /\ polls' = polls + 1
    /\ TryRegister
    /\ polling' = ~(registered' \/ polls' >= MaxPolls)
    /\ UNCHANGED <<script, offered, shown, unwanted, watching>>

Hide == shown /\ shown' = FALSE /\ UNCHANGED <<script, offered, unwanted, held, registered, polls, polling, watching>>

\* Mutant of Show: no listener of visibilitychange.
ShowUnwatched == ~shown /\ shown' = TRUE /\ UNCHANGED <<script, offered, unwanted, held, registered, polls, polling, watching>>

Show ==
    /\ ~shown /\ shown' = TRUE
    /\ IF watching THEN TryRegister ELSE UNCHANGED <<held, registered>>
    /\ UNCHANGED <<script, offered, unwanted, polls, polling, watching>>

\* The browser brings modelContext up, or changes its mind about a tool.
BrowserChanges ==
    /\ ~registered
    /\ \/ ~offered /\ offered' = TRUE /\ UNCHANGED unwanted
       \/ \E t \in unwanted : unwanted' = unwanted \ {t} /\ UNCHANGED offered
    /\ UNCHANGED <<script, shown, held, registered, polls, polling, watching>>

Registers ==
    /\ ~Blocked
    /\ InjectMain \/ Poll \/ Hide \/ Show \/ BrowserChanges
    /\ UNCHANGED callVars

-----------------------------------------------------------------------------
(* A call.                                                                 *)

Execute(c) ==
    /\ ~Blocked /\ held # {} /\ promise[c] = "none"
    /\ promise' = Put(promise, c, "pending")
    /\ stage' = Put(stage, c, "called")
    /\ UNCHANGED <<posted, ran>>

\* The listener of the bridge: sendExecuteTool.
BridgeReads(c) ==
    /\ ~Blocked /\ stage[c] = "called"
    /\ stage' = Put(stage, c, "asked")
    /\ UNCHANGED <<promise, posted, ran>>

PostsResult(c, what) ==
    /\ posted' = Put(posted, c, what)
    /\ stage' = Put(stage, c, "done")
    /\ UNCHANGED promise

\* The worker runs the tool, once, and answers; or only the one or the other.
WorkerRuns(c) ==
    /\ stage[c] \in {"asked", "confirmed"} /\ ran[c] = 0
    /\ ran' = Put(ran, c, 1)
    /\ UNCHANGED <<promise, stage, posted>>

AnswerOk(c) ==
    /\ ~Blocked /\ stage[c] \in {"asked", "confirmed"} /\ ran[c] = 1
    /\ PostsResult(c, "result")
    /\ UNCHANGED ran

AnswerError(c) ==
    /\ ~Blocked /\ stage[c] \in {"asked", "confirmed"}
    /\ PostsResult(c, "failed")
    /\ UNCHANGED ran

\* needsConfirmation, which the worker says before it runs anything.
AnswerConfirm(c) ==
    /\ ~Blocked /\ stage[c] = "asked" /\ ran[c] = 0
    /\ stage' = Put(stage, c, "dialog")
    /\ UNCHANGED <<promise, posted, ran>>

Confirms(c) ==
    /\ stage[c] = "dialog"
    /\ stage' = Put(stage, c, "confirmed")
    /\ UNCHANGED <<promise, posted, ran>>

\* Mutant of Declines: the return after the message is missing.
DeclinesAndGoesOn(c) ==
    /\ stage[c] = "dialog"
    /\ posted' = Put(posted, c, "cancelled")
    /\ stage' = Put(stage, c, "confirmed")
    /\ UNCHANGED <<promise, ran>>

Declines(c) ==
    /\ stage[c] = "dialog"
    /\ PostsResult(c, "cancelled")
    /\ UNCHANGED ran

\* The listener of the main world: an answer to a call it has given up is dropped.
Delivered(c) ==
    /\ ~Blocked /\ posted[c] # "none"
    /\ posted' = Put(posted, c, "none")
    /\ promise' = IF promise[c] = "pending" THEN Put(promise, c, posted[c]) ELSE promise
    /\ UNCHANGED <<stage, ran>>

\* Mutant of CallTimedOut: the call is forgotten and its promise left.
CallForgotten(c) == UNCHANGED callVars

\* CALL_TIMEOUT_MS: neither the bridge nor the worker is told.
CallTimedOut(c) ==
    /\ ~Blocked /\ promise[c] = "pending"
    /\ promise' = Put(promise, c, "timeout")
    /\ UNCHANGED <<stage, posted, ran>>

Calls(c) ==
    /\ \/ Execute(c) \/ BridgeReads(c) \/ WorkerRuns(c)
       \/ AnswerOk(c) \/ AnswerError(c) \/ AnswerConfirm(c)
       \/ Confirms(c) \/ Declines(c) \/ Delivered(c) \/ CallTimedOut(c)
    /\ UNCHANGED registryVars

MainNext == Registers \/ \E c \in PageCalls : Calls(c)

MainSpec == MainInit /\ [][MainNext]_mainVars

\* Timers fire and the page's events are handled.  The worker need not answer,
\* nor the user, nor does anyone show the page.
MainFairness ==
    /\ WF_mainVars(~Blocked /\ (InjectMain \/ Poll) /\ UNCHANGED callVars)
    /\ \A c \in PageCalls : WF_mainVars((CallTimedOut(c) \/ Delivered(c)) /\ UNCHANGED registryVars)

-----------------------------------------------------------------------------

MainTypeOK ==
    /\ script \in {"requested", "running", "failed"}
    /\ {offered, shown, registered, polling, watching} \subseteq BOOLEAN
    /\ unwanted \subseteq McpTools /\ held \subseteq McpTools /\ polls \in 0 .. MaxPolls
    /\ promise \in [PageCalls -> {"none", "pending", "result", "cancelled", "failed", "timeout"}]
    /\ stage \in [PageCalls -> {"none", "called", "asked", "dialog", "confirmed", "done"}]
    /\ posted \in [PageCalls -> {"none", "result", "cancelled", "failed"}]
    /\ ran \in [PageCalls -> 0 .. 1]

\* What the page is told is what happened, whatever the time-out, the dialog
\* and the worker do in between: a result came from a tool that ran, and a call
\* reported as cancelled by the user has not run and will not.
ToldTruly ==
    \A c \in PageCalls :
        /\ promise[c] = "result" => ran[c] = 1
        /\ promise[c] = "cancelled" => ran[c] = 0 /\ stage[c] = "done"

\* Every call of the page settles, unless a dialog keeps the page waiting.
PageCallsSettle ==
    \A c \in PageCalls : promise[c] = "pending" ~> (promise[c] # "pending" \/ Blocked)

\* The tools are registered however late modelContext comes, provided that
\* the page is shown again and again and no dialog stays open.
LateContextFound ==
    (/\ []<><<Show>>_shown
     /\ []<>~Blocked
     /\ <>[](offered /\ unwanted # McpTools)) => <>(registered \/ script = "failed")
=============================================================================
