---------------------------- MODULE ConfirmFlow ----------------------------
(***************************************************************************)
(* The confirmation of writes: src/src/bridge/confirm-bridge.ts (askers in *)
(* the side panel), remote-confirm.ts with handleWebMcpExecuteTool of the  *)
(* service worker (writes of a page, asked through chrome.storage.session),*)
(* use-confirm.ts and ConfirmDialog.tsx (the one dialog both kinds meet    *)
(* in), and content/bridge.ts (the page's own dialog).                     *)
(*                                                                         *)
(* An action is the code between two awaits.  A storage operation is sent  *)
(* by one action and served, in the order of its context, by the action    *)
(* that continues its caller.                                              *)
(***************************************************************************)
EXTENDS Naturals, Sequences, FiniteSets

CONSTANTS
    Calls,      \* WebMCP calls that need a confirmation
    Locals,     \* writes asked for in the side panel
    Scripts,    \* runSandbox executions in the side panel
    Author,     \* the script a local write belongs to, or None
    None,
    MaxTurns,   \* bound: the side panel opens, closes, shows and hides its dialog
    MaxOps,     \* bound: storage operations of the side panel in flight
    MaxStops    \* bound: the browser stops the service worker

ASSUME ConfirmAssumption ==
    /\ Author \in [Locals -> Scripts \cup {None}]
    /\ None \notin Calls \cup Locals \cup Scripts
    /\ Calls \cap Locals = {}
    /\ MaxTurns \in Nat /\ MaxOps \in Nat /\ MaxStops \in Nat

VARIABLES
    ready, request, response,   \* the three keys of chrome.storage.session
    st,         \* where each handleWebMcpExecuteTool is
    choice,     \* what its waitForRemoteConfirmResponse returned
    swq,        \* calls whose storage operation is in flight, oldest first
    stops,
    panel,      \* "closed", "gated" (App without the dialog), "open"
    turns,
    ops,        \* storage operations of the side panel in flight
    notices,    \* changes of the request the dialog was not told of yet
    remotePending,              \* state of useConfirm
    pendingState, hasScope,     \* confirm-bridge.ts: the local question
    asks,       \* where each local asker is
    scope, auto,                \* currentScopeId, autoConfirmScopeId
    sc,         \* the scripts
    agreed,     \* history: writes an approving answer was given to
    viewed,     \* history: writes on display when an approving answer was given
    grants,     \* history: authors of the questions answered by "confirm all" since
                \* the scope began
    strays      \* history: writes waved through on a "confirm all" for another's

sessionVars == <<ready, request, response>>
swVars      == <<st, choice, swq, stops>>
panelVars   == <<panel, turns, ops, notices, remotePending>>
localVars   == <<pendingState, hasScope, asks, scope, auto, sc>>
grantVars   == <<grants, strays>>
userVars    == <<agreed, viewed, grantVars>>
vars == <<sessionVars, swVars, panelVars, localVars, userVars>>

Choices   == {"confirm", "confirm_all", "cancel"}
InFlight  == {"asked", "clearing", "setting", "looking", "closing"}
Waiting   == InFlight \cup {"waiting"}
LetThrough == {"running", "done", "cut"}
CallStates == Waiting \cup LetThrough
              \cup {"idle", "page", "resent", "refused", "timedout", "lost"}
Over       == {"done", "cut", "refused", "timedout", "lost"}

Response == [call: Calls, choice: Choices]

\* null is no answer.
ASSUME NoneAssumption == None \notin Response

PanelOp  == [op: {"ready", "get"}, call: {None}, choice: {None}, mounted: BOOLEAN]
            \cup [op: {"respond"}, call: Calls, choice: Choices, mounted: BOOLEAN]
SetReady          == [op |-> "ready", call |-> None, choice |-> None, mounted |-> TRUE]
GetRequest        == [op |-> "get", call |-> None, choice |-> None, mounted |-> TRUE]
Respond(c, how)   == [op |-> "respond", call |-> c, choice |-> how, mounted |-> TRUE]

Init ==
    /\ ready = FALSE /\ request = None /\ response = None
    /\ st = [c \in Calls |-> "idle"]
    /\ choice = [c \in Calls |-> None]
    /\ swq = <<>> /\ stops = 0
    /\ panel = "closed" /\ turns = 0
    /\ ops = <<>> /\ notices = 0 /\ remotePending = None
    /\ pendingState = None /\ hasScope = FALSE
    /\ asks = [l \in Locals |-> "idle"]
    /\ scope = None /\ auto = None
    /\ sc = [s \in Scripts |-> "idle"]
    /\ agreed = {} /\ viewed = {} /\ grants = {} /\ strays = {}

-----------------------------------------------------------------------------
(* handleWebMcpExecuteTool.  The policy and the session were in order.     *)

\* isSidePanelConfirmReady is asked.
ExecuteTool(c) ==
    /\ st[c] = "idle"
    /\ st' = [st EXCEPT ![c] = "asked"]
    /\ swq' = Append(swq, c)
    /\ UNCHANGED <<sessionVars, choice, stops, panelVars, localVars, userVars>>

\* storage.onChanged tells a mounted dialog, if the request changes.
Notify == notices' = IF panel = "open" /\ request' # request THEN notices + 1 ELSE notices

\* The oldest operation is served; its caller goes on to `next` and sends the
\* next operation, if that is one.
Served(c, from) == swq # <<>> /\ Head(swq) = c /\ st[c] = from
GoesOn(c, next) ==
    /\ st' = [st EXCEPT ![c] = next]
    /\ swq' = IF next \in InFlight THEN Append(Tail(swq), c) ELSE Tail(swq)

IsReady(c) ==
    /\ Served(c, "asked")
    /\ GoesOn(c, IF ready THEN "clearing" ELSE "page")
    /\ UNCHANGED <<sessionVars, choice, stops, panelVars, localVars, userVars>>

Cleared(c) ==
    /\ Served(c, "clearing")
    /\ GoesOn(c, "setting")
    /\ request' = None /\ response' = None
    /\ Notify
    /\ UNCHANGED <<ready, choice, stops, panel, turns, ops, remotePending, localVars, userVars>>

RequestSet(c) ==
    /\ Served(c, "setting")
    /\ GoesOn(c, "looking")
    /\ request' = c
    /\ Notify
    /\ UNCHANGED <<ready, response, choice, stops, panel, turns, ops, remotePending, localVars, userVars>>

\* waitForRemoteConfirmResponse: an answer that is there already, or a listener.
Names(resp, c) == resp # None /\ resp.call = c

Looked(c) ==
    /\ Served(c, "looking")
    /\ IF Names(response, c)
       THEN GoesOn(c, "closing") /\ choice' = [choice EXCEPT ![c] = response.choice]
       ELSE GoesOn(c, "waiting") /\ UNCHANGED choice
    /\ UNCHANGED <<sessionVars, stops, panelVars, localVars, userVars>>

\* mutant: the timer is never set
WaitTimedOut_never(c) == st[c] = "waiting" /\ UNCHANGED vars

\* The listener's timer, 300000 ms.
WaitTimedOut(c) ==
    /\ st[c] = "waiting"
    /\ st' = [st EXCEPT ![c] = "closing"]
    /\ swq' = Append(swq, c)
    /\ UNCHANGED <<sessionVars, choice, stops, panelVars, localVars, userVars>>

Outcome(how) ==
    IF how = None THEN "timedout" ELSE IF how = "cancel" THEN "refused" ELSE "running"

\* mutant: the state in session storage is left behind
Closed_keeps(c) ==
    /\ Served(c, "closing")
    /\ GoesOn(c, Outcome(choice[c]))
    /\ UNCHANGED <<sessionVars, choice, stops, panelVars, localVars, userVars>>

\* clearRemoteConfirmState after the wait, then the tool or a refusal.
Closed(c) ==
    /\ Served(c, "closing")
    /\ GoesOn(c, Outcome(choice[c]))
    /\ request' = None /\ response' = None
    /\ Notify
    /\ UNCHANGED <<ready, choice, stops, panel, turns, ops, remotePending, localVars, userVars>>

\* content/bridge.ts: needsConfirmation opens the page's own dialog.
PageAsked(c, yes) ==
    /\ st[c] = "page"
    /\ st' = [st EXCEPT ![c] = IF yes THEN "resent" ELSE "refused"]
    /\ agreed' = IF yes THEN agreed \cup {c} ELSE agreed
    /\ viewed' = IF yes THEN viewed \cup {c} ELSE viewed
    /\ UNCHANGED <<sessionVars, choice, swq, stops, panelVars, localVars, grantVars>>

\* The second message carries confirmed: true.
ExecuteConfirmed(c) ==
    /\ st[c] = "resent"
    /\ st' = [st EXCEPT ![c] = "running"]
    /\ UNCHANGED <<sessionVars, choice, swq, stops, panelVars, localVars, userVars>>

ToolEnded(c) ==
    /\ st[c] = "running"
    /\ st' = [st EXCEPT ![c] = "done"]
    /\ UNCHANGED <<sessionVars, choice, swq, stops, panelVars, localVars, userVars>>

\* The browser stops the worker.  A prefix of the operations in flight still
\* takes effect; session storage outlives the worker.
SwStops(n) ==
    LET hits    == {i \in 1..n : st[swq[i]] \in {"clearing", "setting", "closing"}}
        wipes   == {i \in hits : st[swq[i]] # "setting"}
        last(k) == k \in hits /\ \A i \in hits : i <= k
    IN  /\ stops < MaxStops
        /\ stops' = stops + 1
        /\ \/ hits = {} /\ UNCHANGED request
           \/ \E k \in hits : last(k) /\ request' = IF k \in wipes THEN None ELSE swq[k]
        /\ response' = IF wipes = {} THEN response ELSE None
        /\ swq' = <<>>
        /\ st' = [c \in Calls |-> IF st[c] \in Waiting THEN "lost"
                                  ELSE IF st[c] = "running" THEN "cut" ELSE st[c]]
        /\ Notify
        /\ UNCHANGED <<ready, choice, panel, turns, ops, remotePending, localVars, userVars>>

-----------------------------------------------------------------------------
(* The side panel: App.tsx and useConfirm                                  *)

Unmounted(s) == [i \in DOMAIN s |-> [s[i] EXCEPT !.mounted = FALSE]]

\* App mounts; before it knows the tab there is no dialog.
PanelOpens ==
    /\ panel = "closed" /\ turns < MaxTurns
    /\ panel' = "gated" /\ turns' = turns + 1
    /\ ops' = Append(ops, SetReady)
    /\ UNCHANGED <<sessionVars, swVars, notices, remotePending, localVars, userVars>>

\* mutant: the hook does not ask for a request that is already there
DialogMounts_blank ==
    /\ panel = "gated" /\ turns < MaxTurns
    /\ panel' = "open" /\ turns' = turns + 1
    /\ UNCHANGED <<sessionVars, swVars, ops, notices, remotePending, localVars, userVars>>

DialogMounts ==
    /\ panel = "gated" /\ turns < MaxTurns
    /\ panel' = "open" /\ turns' = turns + 1
    /\ ops' = Append(ops, GetRequest)
    /\ UNCHANGED <<sessionVars, swVars, notices, remotePending, localVars, userVars>>

\* The tab is not on a supported domain, or the session was locked.
DialogUnmounts ==
    /\ panel = "open" /\ turns < MaxTurns
    /\ panel' = "gated" /\ turns' = turns + 1
    /\ ops' = Unmounted(ops) /\ notices' = 0 /\ remotePending' = None
    /\ UNCHANGED <<sessionVars, swVars, localVars, userVars>>

\* The document goes away: no effect of React is cleaned up, so the ready flag
\* stays.  Operations in flight are served or lost.
PanelCloses ==
    /\ panel # "closed" /\ turns < MaxTurns
    /\ panel' = "closed" /\ turns' = turns + 1
    /\ ops' \in {<<>>, Unmounted(ops)} /\ notices' = 0 /\ remotePending' = None
    /\ pendingState' = None /\ hasScope' = FALSE
    /\ asks' = [l \in Locals |-> IF asks[l] = "asking" THEN "gone" ELSE asks[l]]
    /\ scope' = None /\ auto' = None
    /\ sc' = [s \in Scripts |-> IF sc[s] = "idle" THEN "idle" ELSE "gone"]
    /\ grants' = {}
    /\ UNCHANGED <<sessionVars, swVars, agreed, viewed, strays>>

Noticed ==
    /\ panel = "open" /\ notices > 0
    /\ notices' = notices - 1
    /\ ops' = Append(ops, GetRequest)
    /\ UNCHANGED <<sessionVars, swVars, panel, turns, remotePending, localVars, userVars>>

ReadySet ==
    /\ ops # <<>> /\ Head(ops).op = "ready"
    /\ ready' = TRUE
    /\ ops' = Tail(ops)
    /\ UNCHANGED <<request, response, swVars, panel, turns, notices, remotePending, localVars, userVars>>

RequestGot ==
    /\ ops # <<>> /\ Head(ops).op = "get"
    /\ remotePending' = IF Head(ops).mounted THEN request ELSE remotePending
    /\ ops' = Tail(ops)
    /\ UNCHANGED <<sessionVars, swVars, panel, turns, notices, localVars, userVars>>

\* The listener of waitForRemoteConfirmResponse takes the answer that names it.
Listener(c, resp) == st[c] = "waiting" /\ resp.call = c

\* The response is stored, the waiting call is told, the dialog closes.
ResponseSent ==
    /\ ops # <<>> /\ Head(ops).op = "respond"
    /\ LET resp == [call |-> Head(ops).call, choice |-> Head(ops).choice]
       IN  /\ response' = resp
           /\ \/ \E c \in Calls :
                   /\ Listener(c, resp)
                   /\ st' = [st EXCEPT ![c] = "closing"]
                   /\ choice' = [choice EXCEPT ![c] = resp.choice]
                   /\ swq' = Append(swq, c)
              \/ (\A c \in Calls : ~Listener(c, resp)) /\ UNCHANGED <<st, choice, swq>>
    /\ remotePending' = IF Head(ops).mounted THEN None ELSE remotePending
    /\ ops' = Tail(ops)
    /\ UNCHANGED <<ready, request, stops, panel, turns, notices, localVars, userVars>>

-----------------------------------------------------------------------------
(* confirm-bridge.ts: requestConfirm, beginScope, endScope                 *)

beginScope(s) ==
    /\ panel # "closed" /\ sc[s] = "idle"
    /\ sc' = [sc EXCEPT ![s] = "running"]
    /\ scope' = s /\ auto' = None /\ grants' = {}
    /\ UNCHANGED <<sessionVars, swVars, panelVars, pendingState, hasScope, asks,
                   agreed, viewed, strays>>

\* At the end of the script or at its time limit; in the second case the
\* script itself goes on.
endScope(s) ==
    /\ sc[s] = "running"
    /\ sc' = [sc EXCEPT ![s] = "over"]
    /\ scope' = None /\ auto' = None /\ grants' = {}
    /\ UNCHANGED <<sessionVars, swVars, panelVars, pendingState, hasScope, asks,
                   agreed, viewed, strays>>

Blanket == scope # None /\ auto = scope

\* The user did confirm all, but not for the script that writes this.
Stray(l) == grants # {} /\ Author[l] \notin grants \ {None}

CanAsk(l) ==
    /\ panel # "closed" /\ asks[l] = "idle"
    /\ Author[l] # None => sc[Author[l]] \in {"running", "over"}

AutoConfirmed(l) ==
    /\ CanAsk(l) /\ Blanket
    /\ asks' = [asks EXCEPT ![l] = "waved"]
    /\ strays' = IF Stray(l) THEN strays \cup {l} ELSE strays
    /\ UNCHANGED <<sessionVars, swVars, panelVars, pendingState, hasScope, scope, auto, sc,
                   agreed, viewed, grants>>

\* Nobody listens: window.confirm.
NativeConfirm(l, yes) ==
    /\ CanAsk(l) /\ ~Blanket /\ panel = "gated"
    /\ asks' = [asks EXCEPT ![l] = IF yes THEN "confirmed" ELSE "cancelled"]
    /\ agreed' = IF yes THEN agreed \cup {l} ELSE agreed
    /\ viewed' = IF yes THEN viewed \cup {l} ELSE viewed
    /\ UNCHANGED <<sessionVars, swVars, panelVars, pendingState, hasScope, scope, auto, sc, grantVars>>

requestConfirm(l) ==
    /\ CanAsk(l) /\ ~Blanket /\ panel = "open"
    /\ asks' = [asks EXCEPT ![l] = "asking"]
    /\ pendingState' = l /\ hasScope' = (scope # None)
    /\ UNCHANGED <<sessionVars, swVars, panelVars, scope, auto, sc, userVars>>

-----------------------------------------------------------------------------
(* ConfirmDialog: what is shown and what a click answers                   *)

Displayed == IF pendingState # None THEN pendingState ELSE remotePending
Answered  == IF remotePending # None THEN remotePending ELSE pendingState

Approval(how) ==
    /\ agreed' = IF how = "cancel" THEN agreed ELSE agreed \cup {Answered}
    /\ viewed' = IF how = "cancel" THEN viewed ELSE viewed \cup {Displayed}

\* What the local question was about when all was confirmed.
Grants(how) ==
    /\ grants' = IF how = "confirm_all" /\ scope # None THEN grants \cup {Author[pendingState]}
                                                        ELSE grants
    /\ UNCHANGED strays

\* "Confirm all" is offered for a local question inside a scope only.
Offered(how) == how = "confirm_all" => pendingState # None /\ hasScope

\* mutant: does not look whether there is a remote request
ClickRemote_unguarded(how) ==
    /\ panel = "open" /\ Displayed # None /\ Offered(how) /\ Len(ops) < MaxOps
    /\ ops' = Append(ops, Respond(remotePending, how))
    /\ Approval(how)
    /\ UNCHANGED <<sessionVars, swVars, panel, turns, notices, remotePending, localVars, grantVars>>

\* mutant: answers the request that is in storage now
ClickRemote_latest(how) ==
    /\ panel = "open" /\ remotePending # None /\ Offered(how) /\ Len(ops) < MaxOps
    /\ request # None
    /\ ops' = Append(ops, Respond(request, how))
    /\ Approval(how)
    /\ UNCHANGED <<sessionVars, swVars, panel, turns, notices, remotePending, localVars, grantVars>>

ClickRemote(how) ==
    /\ panel = "open" /\ remotePending # None /\ Offered(how) /\ Len(ops) < MaxOps
    /\ ops' = Append(ops, Respond(remotePending, how))
    /\ Approval(how)
    /\ UNCHANGED <<sessionVars, swVars, panel, turns, notices, remotePending, localVars, grantVars>>

\* mutant: any answer inside a scope is taken for "confirm all"
ClickLocal_all(how) ==
    /\ panel = "open" /\ remotePending = None /\ pendingState # None /\ Offered(how)
    /\ asks' = [asks EXCEPT ![pendingState] = IF how = "cancel" THEN "cancelled" ELSE "confirmed"]
    /\ auto' = IF scope # None THEN scope ELSE auto
    /\ pendingState' = None /\ hasScope' = FALSE
    /\ Approval(how) /\ Grants(how)
    /\ UNCHANGED <<sessionVars, swVars, panelVars, scope, sc>>

ClickLocal(how) ==
    /\ panel = "open" /\ remotePending = None /\ pendingState # None /\ Offered(how)
    /\ asks' = [asks EXCEPT ![pendingState] = IF how = "cancel" THEN "cancelled" ELSE "confirmed"]
    /\ auto' = IF how = "confirm_all" /\ scope # None THEN scope ELSE auto
    /\ pendingState' = None /\ hasScope' = FALSE
    /\ Approval(how) /\ Grants(how)
    /\ UNCHANGED <<sessionVars, swVars, panelVars, scope, sc>>

-----------------------------------------------------------------------------
SwStep(c) ==
    \/ IsReady(c) \/ Cleared(c) \/ RequestSet(c) \/ Looked(c)
    \/ WaitTimedOut(c) \/ Closed(c) \/ ExecuteConfirmed(c) \/ ToolEnded(c)

PanelStep == ReadySet \/ RequestGot \/ ResponseSent \/ Noticed

PanelTurn == PanelOpens \/ DialogMounts \/ DialogUnmounts \/ PanelCloses

LocalStep ==
    \/ \E l \in Locals : requestConfirm(l) \/ AutoConfirmed(l)
    \/ \E l \in Locals, yes \in BOOLEAN : NativeConfirm(l, yes)
    \/ \E s \in Scripts : beginScope(s) \/ endScope(s)

Click == \E how \in Choices : ClickRemote(how) \/ ClickLocal(how)

Next ==
    \/ \E c \in Calls : ExecuteTool(c) \/ SwStep(c)
    \/ \E c \in Calls, yes \in BOOLEAN : PageAsked(c, yes)
    \/ \E n \in 0..Len(swq) : SwStops(n)
    \/ PanelStep \/ PanelTurn \/ LocalStep \/ Click

Spec == Init /\ [][Next]_vars

\* Storage answers, timers fire, events arrive, tools end.  Nobody has to ask,
\* to click, or to open the side panel.
Fairness == WF_vars(PanelStep) /\ \A c \in Calls : WF_vars(SwStep(c))

FairSpec == Spec /\ Fairness

-----------------------------------------------------------------------------
(* Properties                                                              *)

TypeOK ==
    /\ ready \in BOOLEAN
    /\ request \in Calls \cup {None}
    /\ response \in Response \cup {None}
    /\ st \in [Calls -> CallStates]
    /\ choice \in [Calls -> Choices \cup {None}]
    /\ swq \in Seq(Calls)
    /\ stops \in Nat
    /\ panel \in {"closed", "gated", "open"}
    /\ turns \in Nat
    /\ ops \in Seq(PanelOp)
    /\ notices \in Nat
    /\ remotePending \in Calls \cup {None}
    /\ pendingState \in Locals \cup {None}
    /\ hasScope \in BOOLEAN
    /\ asks \in [Locals -> {"idle", "asking", "confirmed", "waved", "cancelled", "gone"}]
    /\ scope \in Scripts \cup {None}
    /\ auto \in Scripts \cup {None}
    /\ sc \in [Scripts -> {"idle", "running", "over", "gone"}]
    /\ agreed \subseteq Calls \cup Locals
    /\ viewed \subseteq Calls \cup Locals
    /\ grants \subseteq Scripts \cup {None}
    /\ strays \subseteq Locals

\* A write is let through only on an approving answer given to that very write,
\* or while a "confirm all" given to a write of the same script stands: whatever
\* requests replaced each other in session storage, timed out, or outlived their
\* worker.  Not so for the writes in `strays`, which ScopeIsKept is about.
Ran == {c \in Calls : st[c] \in LetThrough}
       \cup {l \in Locals \ strays : asks[l] \in {"confirmed", "waved"}}

C == INSTANCE Consent WITH Remote <- Calls, Local <- Locals,
                           agreed <- agreed, blanket <- grants \ {None}, ran <- Ran

ImplementsConsent == C!Spec

\* An answer on its way to a WebMCP call was given to that call, the local question
\* on display has an asker, and a "confirm all" that stands was clicked.  The rest of
\* the induction behind ImplementsConsent.
Meant(o) == o.op = "respond" /\ o.choice # "cancel" => o.call \in agreed

AnswersAreMeant ==
    /\ \A i \in DOMAIN ops : Meant(ops[i])
    /\ response # None /\ response.choice # "cancel" => response.call \in agreed
    /\ \A c \in Calls : choice[c] \notin {None, "cancel"} => c \in agreed
    /\ \A c \in Calls : st[c] = "resent" => c \in agreed
    /\ pendingState # None => asks[pendingState] = "asking"
    /\ Blanket => grants # {}

\* Every WebMCP call that asks the side panel stops waiting, although the panel
\* may be closed, another call may wipe its request, or the worker may stop.
AsksEnd == \A c \in Calls : st[c] \in Waiting ~> st[c] \notin Waiting

\* Unless the worker is stopped, the dialog of a call that is over goes away
\* without anybody's click, also when the call timed out or was replaced.
DialogCloses ==
    \A c \in Calls : remotePending = c /\ st[c] \in Over ~> remotePending # c \/ stops > 0

\* Once the open side panel has caught up, its buttons answer the call that waits
\* for its answer, unless a second call came with its own; and the dialog shows
\* that call, unless a write of the side panel's own covers it.
RequestIsShown ==
    \A c \in Calls :
        /\ st[c] = "waiting" /\ \A d \in Calls \ {c} : st[d] = "idle"
        /\ panel = "open" /\ ops = <<>> /\ notices = 0
        => Answered = c /\ (pendingState = None => Displayed = c)

-----------------------------------------------------------------------------
(* What the documentation and the comments promise and the code does not   *)
(* keep: each is violated by a run of its own.                             *)

\* "All write operations go through a **preview-then-confirm** flow: the
\* extension shows the exact API calls and the user approves or cancels."
\* (README.md:474): what was confirmed was on display.
ConfirmedWasShown ==
    /\ \A c \in Calls : st[c] \in LetThrough => c \in viewed
    /\ \A l \in Locals : asks[l] = "confirmed" => l \in viewed

\* "If the Web API Extension side panel is active, confirmation is shown in the
\* Extension UI. Otherwise, external WebMCP tool calls fall back to a native
\* browser confirm dialog" (README.md:445).
FallsBack ==
    [][\A c \in Calls : st[c] = "asked" /\ panel = "closed" => st'[c] # "clearing"]_vars

\* "'Confirm all' only applies within the same scope" (confirm-bridge.ts:66), and
\* pendingState says "whether the request originates from a scoped context".  Not
\* so: the scope is a module variable, and whoever asks while it stands is in it.
ScopeIsKept == strays = {}
=============================================================================
