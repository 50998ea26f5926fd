------------------------------ MODULE ApiClient ------------------------------
(***************************************************************************)
(* apiRequest of src/src/lib/api-client.ts: the limiter, the retries of    *)
(* fetchWithRetry, the entry in the audit log (see AuditLog) and telemetry.*)
(* An action is the code between two awaits.                               *)
(***************************************************************************)
EXTENDS RateLimiter

CONSTANT MaxRetries     \* MAX_RETRIES

ASSUME ApiAssumption == MaxRetries \in Nat

VARIABLES
    at,         \* per request, the await it stands at
    attempt,    \* its attempt, from 0
    aborted,    \* whether its signal is aborted
    answer      \* what it returns: "none" as yet, "ok", "error", or it has "thrown"

requestVars == <<at, attempt, aborted, answer>>
apiVars     == <<limiterVars, requestVars>>

ApiInit ==
    /\ LimiterInit
    /\ at = [r \in Requests |-> "idle"]
    /\ attempt = [r \in Requests |-> 0]
    /\ aborted = [r \in Requests |-> FALSE]
    /\ answer = [r \in Requests |-> "none"]

ReqGoes(r, next)   == at' = [at EXCEPT ![r] = next]
Result(r, what) == answer' = [answer EXCEPT ![r] = what]
Throws(r, next) == ReqGoes(r, next) /\ Result(r, "thrown")

-----------------------------------------------------------------------------
(* acquire() before each attempt.                                          *)

\* Mutant of Fetch: fetch() is not given the signal.
FetchUnsignalled(r) == ReqGoes(r, "fetch") /\ UNCHANGED answer

\* fetch() with an aborted signal sends nothing, and the delay after it
\* rejects as well: the request goes on to its report.
Fetch(r) == IF aborted[r] THEN Throws(r, "report") ELSE ReqGoes(r, "fetch") /\ UNCHANGED answer

\* A signal that is aborted already is noticed by acquire() only if it waits.
ApiRequest(r) ==
    /\ at[r] = "idle"
    /\ \/ TakeToken /\ Fetch(r)
       \/ ~aborted[r] /\ Sleep(r) /\ ReqGoes(r, "first") /\ UNCHANGED answer
       \/ aborted[r] /\ ~HasToken /\ Refill /\ UNCHANGED timer /\ Throws(r, "over")
    /\ UNCHANGED <<attempt, aborted>>

Acquired(r) ==
    /\ at[r] \in {"first", "again"}
    /\ WakeUp(r)
    /\ Fetch(r)
    /\ UNCHANGED <<attempt, aborted>>

\* The delay between two attempts is over.
Delayed(r) ==
    /\ at[r] = "backoff"
    /\ attempt' = [attempt EXCEPT ![r] = @ + 1]
    /\ \/ TakeToken /\ Fetch(r)
       \/ Sleep(r) /\ ReqGoes(r, "again") /\ UNCHANGED answer
    /\ UNCHANGED <<aborted>>

\* Mutant of Abort: the timer is cleared and the promise never rejected.
AbortWithoutReject(r) ==
    /\ ~aborted[r]
    /\ aborted' = [aborted EXCEPT ![r] = TRUE]
    /\ ClearTimer(r)
    /\ UNCHANGED <<at, answer, attempt>>

\* The caller aborts.  A wait ends at once, with a report if an attempt was
\* made; a fetch or the reading of a body rejects later, or was too fast.
Abort(r) ==
    /\ ~aborted[r]
    /\ aborted' = [aborted EXCEPT ![r] = TRUE]
    /\ IF at[r] \in {"first", "again", "backoff"}
       THEN /\ Throws(r, IF at[r] = "first" THEN "over" ELSE "report")
            /\ ClearTimer(r)
       ELSE UNCHANGED <<at, answer, limiterVars>>
    /\ UNCHANGED attempt

-----------------------------------------------------------------------------
(* fetchWithRetry: a fetch ends with a success, an error the API answered, *)
(* a status worth a retry, or no answer at all.                            *)

isRetryableStatus(outcome) == outcome = "retryable"
LastAttempt(r)             == attempt[r] = MaxRetries

FetchEnds(r) == at[r] = "fetch" /\ UNCHANGED <<limiterVars, attempt, aborted>>

\* A final status, or a retryable one of the last attempt, is the response.
Responds(r, outcome) ==
    /\ outcome # "network"
    /\ ~isRetryableStatus(outcome) \/ LastAttempt(r)
    /\ FetchEnds(r)
    /\ ReqGoes(r, "body") /\ Result(r, IF outcome = "ok" THEN "ok" ELSE "error")

Retries(r, outcome) ==
    /\ isRetryableStatus(outcome) \/ outcome = "network"
    /\ ~LastAttempt(r) /\ ~aborted[r]
    /\ FetchEnds(r)
    /\ ReqGoes(r, "backoff") /\ UNCHANGED answer

\* A network error of the last attempt, or the signal was aborted meanwhile.
GivesUp(r, outcome) ==
    /\ \/ outcome = "network" /\ (LastAttempt(r) \/ aborted[r])
       \/ isRetryableStatus(outcome) /\ ~LastAttempt(r) /\ aborted[r]
    /\ FetchEnds(r)
    /\ Throws(r, "report")

FetchEnded(r) ==
    \E outcome \in {"ok", "error", "retryable", "network"} :
        Responds(r, outcome) \/ Retries(r, outcome) \/ GivesUp(r, outcome)

\* The body is read and the audit log asked for.  A body that cannot be read
\* ends the request, neither logged nor reported.
BodyRead(r) ==
    /\ at[r] = "body"
    /\ \/ ReqGoes(r, "log") /\ UNCHANGED answer
       \/ Throws(r, "over")
    /\ UNCHANGED <<limiterVars, attempt, aborted>>

\* appendAuditEntry is awaited; what it does to the log is in AuditLog.
Audited(r) ==
    /\ at[r] = "log"
    /\ ReqGoes(r, "report")
    /\ UNCHANGED <<limiterVars, attempt, aborted, answer>>

\* fireApiTelemetry is awaited and never fails.
Reported(r) ==
    /\ at[r] = "report"
    /\ ReqGoes(r, "over")
    /\ UNCHANGED <<limiterVars, attempt, aborted, answer>>

Elapses == Tick /\ UNCHANGED requestVars

-----------------------------------------------------------------------------
RequestStep(r) == \/ Acquired(r) \/ Delayed(r) \/ FetchEnded(r) \/ BodyRead(r)
                  \/ Audited(r) \/ Reported(r)

ApiNext ==
    \/ \E r \in Requests : ApiRequest(r) \/ Abort(r) \/ RequestStep(r)
    \/ Elapses

ApiSpec == ApiInit /\ [][ApiNext]_apiVars

\* Time passes, fetches and storage operations end, timers fire.  Nobody has to
\* send or to abort.
ApiFairness ==
    /\ WF_apiVars(Elapses)
    /\ \A r \in Requests : WF_apiVars(RequestStep(r))

-----------------------------------------------------------------------------
ApiTypeOK ==
    /\ LimiterTypeOK
    /\ at \in [Requests -> {"idle", "first", "again", "fetch", "backoff", "body",
                            "log", "report", "over"}]
    /\ attempt \in [Requests -> 0 .. MaxRetries]
    /\ aborted \in [Requests -> BOOLEAN]
    /\ answer \in [Requests -> {"none", "ok", "error", "thrown"}]

\* A request that was aborted makes no further attempt, wherever the abort found
\* it: before it began, waiting for a token, or between two attempts.
AbortIsHeard ==
    [][\A r \in Requests : aborted[r] /\ at[r] # "fetch" => at'[r] # "fetch"]_apiVars

\* Every request returns or throws, whatever the others do to its limiter and
\* however its attempts end.
RequestsReturn == \A r \in Requests : at[r] \notin {"idle", "over"} ~> at[r] = "over"
=============================================================================
