------------------------------ MODULE GatewayForm ------------------------------
(***************************************************************************)
(* "Governance and telemetry" on the Connections page                      *)
(* (GatewaySettingsSection), the settings, token and probe status it keeps *)
(* (gateway/gateway-storage.ts), and the probe (testGatewayConnection).    *)
(* Every window has a section, and the service worker locks a token that   *)
(* the gateway rejects.  The fields are what is typed when a button is     *)
(* pressed; PINs are in Credentials, the calls of tools in GatewayPolicy.  *)
(***************************************************************************)
EXTENDS Naturals

CONSTANTS
    Sections,       \* windows with the Connections page
    Bearers,        \* bearer tokens
    NoBearer,
    MaxPresses      \* bound on what the users and the worker begin

ASSUME GatewayFormAssumption == NoBearer \notin Bearers /\ MaxPresses \in Nat

VARIABLES
    gwStored,   \* gateway:settings: the configuration, the probe's status, and what it is about
    bearer,     \* gateway:token, session:gateway:token and gateway:tokenInvalid
    section,    \* per section, what it shows: the same as storage, when it was read
    thread,       \* per section, each of its threads, and the worker: see NoTask
    presses,
    crossing  \* history: something began while something else was under way: "tests", or two
                \* changes of the token at once: "works"

gwFormVars == <<gwStored, bearer, section, thread, presses, crossing>>

\* Two hosts that validateGatewayHost accepts.
Configs == [enabled : BOOLEAN, host : {"host1", "host2"}]
Default == [enabled |-> FALSE, host |-> "host1"]
Untested == [cfg |-> Default, status |-> "none", about |-> Default]

Threads == (Sections \X {"mount", "work", "test"}) \cup {<<"worker", "call">>}

\* left: the storage requests of a Promise.all that are not carried out yet; cfg and
\* token: the configuration and the token it works with; read: what it read last.
NoTask == [does |-> "rest", left |-> {}, cfg |-> Default, token |-> NoBearer, status |-> "none", read |-> Untested]

\* The page opens, and every section hydrates.
GatewayFormInit ==
    /\ \E cfg \in {Default, [Default EXCEPT !.enabled = TRUE]} : gwStored = [Untested EXCEPT !.cfg = cfg]
    /\ \E b \in Bearers \cup {NoBearer}, open \in BOOLEAN :
          bearer = [stored |-> b, session |-> IF open THEN b ELSE NoBearer, invalid |-> FALSE]
    /\ section = [g \in Sections |-> [settings |-> Untested, has |-> FALSE, open |-> FALSE, invalid |-> FALSE, loaded |-> FALSE]]
    /\ thread = [t \in Threads |-> [NoTask EXCEPT !.does = IF t[2] = "mount" THEN "hydrate" ELSE "rest"]]
    /\ presses = 0 /\ crossing = "no"

-----------------------------------------------------------------------------
Resting == \A t \in Threads : thread[t].does = "rest"
WorkUnderWay == \E t \in Threads : thread[t].does \in {"encrypted", "session", "forget"}

\* A thread begins; it overlaps with whatever has not ended.
HookBegins(t, begun) ==
    /\ thread[t].does = "rest" /\ presses < MaxPresses
    /\ presses' = presses + 1
    /\ thread' = [thread EXCEPT ![t] = begun]
    /\ crossing' = IF Resting THEN crossing
                     ELSE IF t[2] = "work" /\ WorkUnderWay THEN "works"
                     ELSE IF crossing = "no" THEN "tests" ELSE crossing
    /\ UNCHANGED <<gwStored, bearer, section>>

Continues(t, does) == thread' = [thread EXCEPT ![t].does = does]

\* hydrate(): four reads at once, then the state of the component.
HydrateRead(t) ==
    /\ thread[t].does = "hydrate"
    /\ thread' = [thread EXCEPT ![t].does = "show", ![t].read = gwStored,
                            ![t].token = bearer.session, ![t].left = IF bearer.invalid THEN {"invalid"} ELSE {},
                            ![t].status = IF bearer.stored = NoBearer THEN "none" ELSE "has"]
    /\ UNCHANGED <<gwStored, bearer, section, presses, crossing>>

HydrateShown(t) ==
    /\ thread[t].does = "show"
    /\ section' = [section EXCEPT ![t[1]] =
                      [settings |-> thread[t].read, has |-> thread[t].status = "has", open |-> thread[t].token # NoBearer,
                       invalid |-> "invalid" \in thread[t].left, loaded |-> TRUE]]
    /\ thread' = [thread EXCEPT ![t] = NoTask]
    /\ UNCHANGED <<gwStored, bearer, presses, crossing>>

-----------------------------------------------------------------------------
(* Settings.                                                               *)

\* The button needs something to save: isDirty.
SettingsPressed(g, cfg) ==
    /\ section[g].loaded /\ cfg # section[g].settings.cfg
    /\ HookBegins(<<g, "work">>, [NoTask EXCEPT !.does = "settings", !.cfg = cfg])

\* saveGatewaySettings keeping the status of the probe.
SettingsWrittenTested(t) ==
    /\ thread[t].does = "settings" /\ thread' = [thread EXCEPT ![t] = NoTask]
    /\ gwStored' = [gwStored EXCEPT !.cfg = thread[t].cfg]
    /\ section' = [section EXCEPT ![t[1]].settings = gwStored']
    /\ UNCHANGED <<bearer, presses, crossing>>

\* saveGatewaySettings: what the probe found of the former settings is dropped.  A
\* host or a path that is not accepted leaves everything.
SettingsWritten(t) ==
    /\ thread[t].does = "settings" /\ thread' = [thread EXCEPT ![t] = NoTask]
    /\ \/ UNCHANGED <<gwStored, section>>
       \/ /\ gwStored' = [Untested EXCEPT !.cfg = thread[t].cfg]
          /\ section' = [section EXCEPT ![t[1]].settings = gwStored']
    /\ UNCHANGED <<bearer, presses, crossing>>

-----------------------------------------------------------------------------
(* The bearer token.                                                       *)

TokenPressed(g, b) == HookBegins(<<g, "work">>, [NoTask EXCEPT !.does = "encrypted", !.token = b])

\* saveGatewayToken: local storage first, then the session's.
TokenWritten(t) ==
    /\ thread[t].does = "encrypted" /\ Continues(t, "session")
    /\ bearer' = [bearer EXCEPT !.stored = thread[t].token, !.invalid = FALSE]
    /\ UNCHANGED <<gwStored, section, presses, crossing>>

TokenOpened(t) ==
    /\ thread[t].does = "session" /\ Continues(t, "hydrate")
    /\ bearer' = [bearer EXCEPT !.session = thread[t].token]
    /\ UNCHANGED <<gwStored, section, presses, crossing>>

ForgetPressed(g) ==
    /\ section[g].has
    /\ HookBegins(<<g, "work">>, [NoTask EXCEPT !.does = "forget", !.left = {"local", "session"}])

\* forgetGatewayToken and lockGatewayToken: two requests, carried out in any order.
RequestDone(t, r) ==
    /\ thread[t].does \in {"forget", "lock"} /\ r \in thread[t].left
    /\ bearer' = IF r = "session" THEN [bearer EXCEPT !.session = NoBearer]
                 ELSE IF thread[t].does = "forget" THEN [bearer EXCEPT !.stored = NoBearer, !.invalid = FALSE]
                 ELSE [bearer EXCEPT !.invalid = TRUE]
    /\ thread' = [thread EXCEPT ![t].left = @ \ {r},
                            ![t].does = IF thread[t].left # {r} THEN @
                                        ELSE IF @ = "forget" THEN "hydrate"
                                        ELSE IF t[1] = "worker" THEN "rest" ELSE "status"]
    /\ UNCHANGED <<gwStored, section, presses, crossing>>

-----------------------------------------------------------------------------
(* The probe: the policy request, telemetry, and the status.               *)

GatewayTestPressed(g) ==
    /\ thread[<<g, "work">>].does = "rest" /\ section[g].has /\ section[g].open
    /\ HookBegins(<<g, "test">>, [NoTask EXCEPT !.does = "ask"])

ProbeEnds(t, status) == thread' = [thread EXCEPT ![t].does = "status", ![t].status = status]

\* evaluatePolicy reads settings and token.  With the hooks off nothing is asked.
PolicyAsked(t) ==
    /\ thread[t].does = "ask"
    /\ IF ~gwStored.cfg.enabled THEN thread' = [thread EXCEPT ![t].does = "telemetry", ![t].cfg = gwStored.cfg]
       ELSE IF bearer.session = NoBearer
            THEN thread' = [thread EXCEPT ![t].does = "status", ![t].status = "failed", ![t].cfg = gwStored.cfg]
       ELSE thread' = [thread EXCEPT ![t].does = "asked", ![t].cfg = gwStored.cfg, ![t].token = bearer.session]
    /\ UNCHANGED <<gwStored, bearer, section, presses, crossing>>

\* Allowed; or denied, failed or late; or the token is rejected, and then locked.
HooksAnswered(t) ==
    /\ thread[t].does = "asked"
    /\ \/ t[2] = "test" /\ Continues(t, "telemetry")
       \/ IF t[2] = "test" THEN ProbeEnds(t, "failed") ELSE thread' = [thread EXCEPT ![t] = NoTask]
       \/ thread' = [thread EXCEPT ![t].does = "lock", ![t].left = {"local", "session"}, ![t].status = "failed"]
    /\ UNCHANGED <<gwStored, bearer, section, presses, crossing>>

\* sendToolTelemetry reads them again: off, no token, or sent and answered.
TelemetrySent(t) ==
    /\ thread[t].does = "telemetry"
    /\ \/ (~gwStored.cfg.enabled \/ bearer.session # NoBearer) /\ ProbeEnds(t, "ok")
       \/ gwStored.cfg.enabled /\ ProbeEnds(t, "degraded")
    /\ UNCHANGED <<gwStored, bearer, section, presses, crossing>>

\* saveGatewayProbeStatus: read, ...
StatusRead(t) ==
    /\ thread[t].does = "status"
    /\ thread' = [thread EXCEPT ![t].does = "write", ![t].read = gwStored]
    /\ UNCHANGED <<gwStored, bearer, section, presses, crossing>>

\* ... and written, with the settings as they were read.
StatusWritten(t) ==
    /\ thread[t].does = "write" /\ Continues(t, "hydrate")
    /\ gwStored' = [thread[t].read EXCEPT !.status = thread[t].status, !.about = thread[t].cfg]
    /\ UNCHANGED <<bearer, section, presses, crossing>>

\* A call of a tool in the service worker.
WorkerAsks ==
    /\ gwStored.cfg.enabled /\ bearer.session # NoBearer
    /\ HookBegins(<<"worker", "call">>, [NoTask EXCEPT !.does = "asked", !.token = bearer.session])

GatewayFormNext ==
    \/ \E t \in Threads :
          \/ HydrateRead(t) \/ HydrateShown(t) \/ SettingsWritten(t) \/ TokenWritten(t) \/ TokenOpened(t)
          \/ PolicyAsked(t) \/ HooksAnswered(t) \/ TelemetrySent(t) \/ StatusRead(t) \/ StatusWritten(t)
          \/ \E r \in {"local", "session"} : RequestDone(t, r)
    \/ \E g \in Sections :
          \/ ForgetPressed(g) \/ GatewayTestPressed(g)
          \/ \E cfg \in Configs : SettingsPressed(g, cfg)
          \/ \E b \in Bearers : TokenPressed(g, b)
    \/ WorkerAsks

GatewayFormSpec == GatewayFormInit /\ [][GatewayFormNext]_gwFormVars

-----------------------------------------------------------------------------
(* Properties.                                                             *)

StoredSettings == [cfg : Configs, status : {"none", "ok", "degraded", "failed"}, about : Configs]

\* Every variable has its type.
GatewayFormTypeOK ==
    /\ gwStored \in StoredSettings
    /\ bearer \in [stored : Bearers \cup {NoBearer}, session : Bearers \cup {NoBearer}, invalid : BOOLEAN]
    /\ section \in [Sections -> [settings : StoredSettings, has : BOOLEAN, open : BOOLEAN, invalid : BOOLEAN, loaded : BOOLEAN]]
    /\ \A t \in Threads :
          /\ thread[t].does \in {"rest", "hydrate", "show", "settings", "encrypted", "session", "forget", "lock",
                               "ask", "asked", "telemetry", "status", "write"}
          /\ thread[t].left \subseteq {"local", "session", "invalid"} /\ thread[t].cfg \in Configs
          /\ thread[t].token \in Bearers \cup {NoBearer} /\ thread[t].read \in StoredSettings
          /\ thread[t].status \in {"none", "has", "ok", "degraded", "failed"}
    /\ presses \in 0..MaxPresses /\ crossing \in {"no", "tests", "works"}

\* Whatever tests and rejected tokens come between the two halves of
\* saving or removing a token, the session's token is the stored one or there is none
\* by the end, as long as two windows do not do it at once.  One after the other, a
\* test leaves its finding with the settings it tested, and a save drops it.
GatewayFormIsSound ==
    /\ crossing # "works" /\ ~WorkUnderWay => bearer.session \in {NoBearer, bearer.stored}
    /\ crossing = "no" /\ Resting /\ gwStored.status # "none" => gwStored.about = gwStored.cfg

\* "Test the configured gateway": what the probe found is about the stored settings.
\* Not so: settings saved during a test are marked with what it found of the former.
StatusIsOfSettings == Resting /\ gwStored.status # "none" => gwStored.about = gwStored.cfg

\* A token that is marked as invalid is not open.  Not so: one saved while the former
\* is rejected is open and marked.
InvalidIsLocked == Resting /\ bearer.invalid => bearer.session = NoBearer

\* "Gateway connection successful" follows an answer of the gateway.  Not so: with the
\* hooks off, nothing is asked.
TestedTruly == gwStored.status = "ok" => gwStored.about.enabled
=============================================================================
