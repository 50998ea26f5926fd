---------------------------- MODULE GatewayPolicy ----------------------------
(***************************************************************************)
(* The governance hooks around a WebMCP call in the service worker:        *)
(* handleWebMcpExecuteTool (background/service-worker.ts), the decision    *)
(* cache (src/src/gateway/gateway-sw-bridge.ts), the policy service and    *)
(* telemetry (gateway-client.ts) and the telemetry context                 *)
(* (gateway-context.ts).  The write confirmation in the middle is the      *)
(* module ConfirmFlow; here it ends somehow.                               *)
(***************************************************************************)
EXTENDS Naturals, FiniteSetsExt

CONSTANTS
    WebCalls,   \* calls of tools by pages, made again and again
    Writes,     \* those that are not read-only
    Tool,       \* the cache key of each: tool and params
    CacheMax,   \* CACHE_MAX_ENTRIES
    Ttl,        \* CACHE_TTL_MS
    MaxTime,    \* bound on the clock
    MaxToggles, \* bound on the user's changes of the settings and the token
    MaxIssued   \* bound on the decisions asked for

ASSUME GatewayAssumption ==
    /\ Writes \subseteq WebCalls
    /\ CacheMax \in Nat /\ Ttl \in Nat \ {0} /\ MaxTime \in Nat
    /\ MaxToggles \in Nat /\ MaxIssued \in Nat

VARIABLES
    hooks,      \* settings.enabled
    token,      \* whether the session holds a gateway token
    toggles,
    clock,
    cache,      \* the Map of decisions: [key, id, from, expires, place], in the order of place
    issued,     \* correlation ids given out so far
    call,       \* per call: the await it stands at, the decision it runs under,
                \* when it began, whether it is sent with confirmed: true
    parent,     \* the correlation id of the ambient telemetry context, 0 for none
    outer,      \* history: per running call, the running ones that began before it
    unnested,    \* history: calls during whose run one ended that had not begun last
    spent,      \* history: ids whose call is over
    known       \* history: per call, the ids spent when it began

gatewayVars == <<hooks, token, toggles, clock, cache, issued, call, parent, outer, unnested, spent, known>>
userVars    == <<hooks, token, toggles>>
cacheVars   == <<cache, issued>>
runVars     == <<parent, outer, unnested>>

NoDecision == [id |-> 0, from |-> "none", expires |-> 0]
NewCall    == [at |-> "idle", decision |-> NoDecision, began |-> 0, confirmed |-> FALSE, before |-> 0]

GatewayInit ==
    /\ hooks \in BOOLEAN /\ token \in BOOLEAN /\ toggles = 0 /\ clock = 0
    /\ cache = {} /\ issued = 0
    /\ call = [c \in WebCalls |-> NewCall]
    /\ parent = 0 /\ outer = [c \in WebCalls |-> {}] /\ unnested = {} /\ spent = {}
    /\ known = [c \in WebCalls |-> {}]

CallAt(c, place) == call[c].at = place
CallMoves(c, place) == call' = [call EXCEPT ![c].at = place]

\* The handler has answered: its decision and the rest of it are gone.
CallEnds(c) == call' = [call EXCEPT ![c] = [NewCall EXCEPT !.at = "over"]]

-----------------------------------------------------------------------------
(* evaluateWebMcpPolicy.                                                   *)

Newest(entries) == {e \in entries : Cardinality({f \in entries : f.place > e.place}) < CacheMax}

pruneCache(entries) == Newest({e \in entries : e.expires > clock})

Hits(entries, c) == {e \in entries : e.key = Tool[c]}

\* A call begins, or is sent again with confirmed: true; what the cache holds
\* for its key is its decision.
WebCallBegins(c) ==
    /\ call[c].at \in {"idle", "page", "over"}
    /\ cache' = pruneCache(cache)
    /\ LET hits == Hits(cache', c)
       IN  /\ hits = {} => issued < MaxIssued
           /\ issued' = issued + (IF hits = {} THEN 1 ELSE 0)
           /\ \E d \in IF hits = {}
                       THEN {[id |-> issued', from |-> "none", expires |-> clock + Ttl]}
                       ELSE {[id |-> e.id, from |-> e.from, expires |-> e.expires] : e \in hits} :
                call' = [call EXCEPT ![c] = [at |-> IF hits = {} THEN "settings" ELSE "gate",
                                             decision |-> d, began |-> clock,
                                             confirmed |-> CallAt(c, "page"), before |-> 0]]
    /\ known' = [known EXCEPT ![c] = spent]
    /\ unnested' = unnested \ {c}
    /\ UNCHANGED <<userVars, clock, parent, outer, spent>>

LastPlace(entries) == Max({0} \cup {e.place : e \in entries})

\* cache.set: an existing key keeps its place.
CacheSet(c, source) ==
    \E place \in IF Hits(cache, c) = {} THEN {LastPlace(cache) + 1} ELSE {e.place : e \in Hits(cache, c)} :
        cache' = (cache \ Hits(cache, c))
                 \cup {[key |-> Tool[c], id |-> call[c].decision.id, from |-> source,
                        expires |-> call[c].decision.expires, place |-> place]}

\* allowed: true, from the service or because the hooks are off.
Allowed(c, source) ==
    /\ CacheSet(c, source)
    /\ call' = [call EXCEPT ![c].at = "gate", ![c].decision.from = source]
    /\ UNCHANGED <<userVars, issued>>

\* Any exception: the call ends, and nothing is cached.
Unavailable(c) == CallEnds(c) /\ UNCHANGED cacheVars

\* evaluatePolicy: the settings are read, then the token, ...
SettingsRead(c) ==
    /\ CallAt(c, "settings")
    /\ \/ ~hooks /\ Allowed(c, "off")
       \/ hooks /\ CallMoves(c, "token") /\ UNCHANGED <<userVars, cacheVars>>
    /\ UNCHANGED <<clock, runVars, spent, known>>

TokenRead(c) ==
    /\ CallAt(c, "token")
    /\ \/ token /\ CallMoves(c, "asked") /\ UNCHANGED cacheVars
       \/ ~token /\ Unavailable(c)
    /\ UNCHANGED <<userVars, clock, runVars, spent, known>>

\* ... and the service answers: it allows, denies (which is reported), or
\* rejects the token, or answers too late, badly or not at all.
Decided(c) ==
    /\ CallAt(c, "asked")
    /\ \/ Allowed(c, "service")
       \/ CallMoves(c, "denied") /\ UNCHANGED <<userVars, cacheVars>>
       \/ Unavailable(c) /\ UNCHANGED userVars
       \/ CallMoves(c, "locking") /\ UNCHANGED <<userVars, cacheVars>>
    /\ UNCHANGED <<clock, runVars, spent, known>>

\* A rejected token is taken from the session, whatever it is by now.
TokenLocked(c) ==
    /\ CallAt(c, "locking")
    /\ token' = FALSE
    /\ CallEnds(c)
    /\ UNCHANGED <<hooks, toggles, clock, cacheVars, runVars, spent, known>>

DenialReported(c) ==
    /\ CallAt(c, "denied")
    /\ CallEnds(c)
    /\ UNCHANGED <<userVars, clock, cacheVars, runVars, spent, known>>

-----------------------------------------------------------------------------
(* The write confirmation and the execution.                               *)

Running == {c \in WebCalls : call[c].at = "run"}

Invalidated(c) == cache' = cache \ Hits(cache, c)

\* No side panel to ask: the page is told to confirm and to send it again.
BackToPage(c) ==
    /\ CallAt(c, "gate") /\ c \in Writes /\ ~call[c].confirmed
    /\ CallMoves(c, "page")
    /\ UNCHANGED <<userVars, clock, cacheVars, runVars, spent, known>>

\* No session, a cancelled or an unanswered question.
GateCloses(c) ==
    /\ CallAt(c, "gate") /\ c \in Writes
    /\ CallEnds(c)
    /\ Invalidated(c)
    /\ UNCHANGED <<userVars, clock, issued, runVars, spent, known>>

\* runWithGatewayTelemetryContext: the context is set and the former one kept.
ToolBegins(c) ==
    /\ CallAt(c, "gate")
    /\ call' = [call EXCEPT ![c].at = "run", ![c].before = parent]
    /\ parent' = call[c].decision.id
    /\ outer' = [outer EXCEPT ![c] = Running]
    /\ UNCHANGED <<userVars, clock, cacheVars, unnested, spent, known>>

\* The running calls that began after c.
Inner(c) == {d \in Running : c \in outer[d]}

\* Mutant of ToolOver: the context is dropped, not restored.
ToolOverClears(c) ==
    /\ CallAt(c, "run")
    /\ parent' = 0
    /\ CallMoves(c, "telemetry")
    /\ outer' = [d \in WebCalls |-> IF d = c THEN {} ELSE outer[d] \ {c}]
    /\ unnested' = IF Inner(c) = {} THEN unnested ELSE unnested \cup (Running \ {c})
    /\ UNCHANGED <<userVars, clock, cacheVars, spent, known>>

\* The tool is over or has thrown; the former context is restored.
ToolOver(c) ==
    /\ CallAt(c, "run")
    /\ parent' = call[c].before
    /\ CallMoves(c, "telemetry")
    /\ outer' = [d \in WebCalls |-> IF d = c THEN {} ELSE outer[d] \ {c}]
    /\ unnested' = IF Inner(c) = {} THEN unnested ELSE unnested \cup (Running \ {c})
    /\ UNCHANGED <<userVars, clock, cacheVars, spent, known>>

\* fireToolTelemetry has returned, sent or not.
WebCallOver(c) ==
    /\ CallAt(c, "telemetry")
    /\ CallEnds(c)
    /\ Invalidated(c)
    /\ spent' = spent \cup {call[c].decision.id}
    /\ UNCHANGED <<userVars, clock, issued, runVars, known>>

-----------------------------------------------------------------------------
(* The Connections page, and time.                                         *)

SettingsSaved ==
    /\ toggles < MaxToggles
    /\ toggles' = toggles + 1
    /\ \/ hooks' = ~hooks /\ UNCHANGED token
       \/ token' = ~token /\ UNCHANGED hooks
    /\ UNCHANGED <<clock, cacheVars, call, runVars, spent, known>>

TimePasses ==
    /\ clock < MaxTime
    /\ clock' = clock + 1
    /\ UNCHANGED <<userVars, cacheVars, call, runVars, spent, known>>

PolicyStep(c) == SettingsRead(c) \/ TokenRead(c) \/ Decided(c) \/ TokenLocked(c) \/ DenialReported(c)
CallStep(c)   == \/ PolicyStep(c) \/ BackToPage(c) \/ GateCloses(c) \/ ToolBegins(c)
                 \/ ToolOver(c) \/ WebCallOver(c)

GatewayNext ==
    \/ \E c \in WebCalls : WebCallBegins(c) \/ CallStep(c)
    \/ SettingsSaved \/ TimePasses

GatewaySpec == GatewayInit /\ [][GatewayNext]_gatewayVars

-----------------------------------------------------------------------------
GatewayTypeOK ==
    /\ hooks \in BOOLEAN /\ token \in BOOLEAN
    /\ toggles \in 0 .. MaxToggles /\ clock \in 0 .. MaxTime /\ issued \in Nat
    /\ \A e \in cache :
          /\ e.key \in {Tool[c] : c \in WebCalls}
          /\ e.id \in 1 .. issued /\ e.from \in {"off", "service"}
          /\ e.expires \in Nat /\ e.place \in Nat
    /\ \A c \in WebCalls :
          /\ call[c].at \in {"idle", "settings", "token", "asked", "locking", "denied", "gate",
                             "page", "run", "telemetry", "over"}
          /\ call[c].decision.id \in 0 .. issued
          /\ call[c].began \in 0 .. clock /\ call[c].confirmed \in BOOLEAN
          /\ call[c].before \in 0 .. issued
    /\ parent \in 0 .. issued /\ unnested \subseteq WebCalls
    /\ outer \in [WebCalls -> SUBSET WebCalls]
    /\ spent \subseteq 1 .. issued /\ known \in [WebCalls -> SUBSET (1 .. issued)]

\* A tool runs only under a decision that the policy service (or the switched
\* off hooks) made, that had not expired when the call began, and that no call
\* which was over by then had used up; calls that share one are calls of the
\* same tool with the same params, however they overlap.
RunsOnFreshDecision ==
    \A c \in WebCalls : CallAt(c, "run") =>
        /\ call[c].decision.from # "none"
        /\ call[c].decision.expires > call[c].began
        /\ call[c].decision.id \notin known[c]
        /\ \A d \in WebCalls :
              (CallAt(d, "run") /\ call[d].decision.id = call[c].decision.id) => Tool[d] = Tool[c]

\* The tool that began last of those that run sends its API telemetry under its
\* own correlation id: one that runs inside another is told apart from it, and
\* when it is over the outer one's id is there again, whatever calls that
\* crossed each other earlier left in the ambient context.  Calls that run while
\* one ends that had not begun last have no such claim: see ContextCleared.
OwnTelemetryContext ==
    \A c \in Running \ unnested : Inner(c) = {} => parent = call[c].decision.id

\* Page calls at once (handleWebMcpExecuteTool), with the same tool and params or
\* with different ones: each runs on a decision of its own key that is not used
\* up, and as long as they end inside out, each reports under its own id.
CallsKeptApart == RunsOnFreshDecision /\ OwnTelemetryContext

\* "The context is ... cleared in finally blocks" (gateway-context.ts:6): two
\* calls that overlap leave the first one's behind.
ContextCleared == Running = {} => parent = 0
=============================================================================
