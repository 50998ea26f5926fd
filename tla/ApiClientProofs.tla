---------------------------- MODULE ApiClientProofs ----------------------------
(* What holds of ApiClient and its RateLimiter for any number of requests,   *)
(* any rate and any number of retries; of AuditLog, where the requests are   *)
(* written down, for any number of entries and any length of the log; and of *)
(* TestTransaction, the tests sent with a token of their own, for any tokens *)
(* and runs.                                                                 *)
EXTENDS ApiClient, AuditLog, TestTransaction, FiniteSetTheorems, SequenceTheorems, TLAPS

-----------------------------------------------------------------------------
(* The balance                                                             *)

\* What k tokens of debt leave of the first token.
Debt(k) == Unit - k * Unit

\* Each token of debt is worth Unit.
LEMMA DebtGrows ==
    /\ Debt(0) = Unit
    /\ \A k \in Nat : Debt(k) \in Int /\ Debt(k) <= Unit /\ Debt(k + 1) = Debt(k) - Unit
    /\ \A k \in Nat \ {0} : Debt(k) <= 0
  <1> USE LimiterAssumption DEF Debt
  <1>1. Debt(0) = Unit
    OBVIOUS
  <1>2. ASSUME NEW k \in Nat PROVE k * Unit \in Nat /\ (k + 1) * Unit = k * Unit + Unit
    OBVIOUS
  <1>3. ASSUME NEW k \in Nat PROVE Debt(k) \in Int /\ Debt(k) <= Unit /\ Debt(k + 1) = Debt(k) - Unit
    BY <1>2
  <1>4. ASSUME NEW k \in Nat \ {0} PROVE Debt(k) <= 0
    <2>1. Debt(k) = Debt(k - 1) - Unit /\ Debt(k - 1) <= Unit /\ Debt(k - 1) \in Int
      <3>1. k - 1 \in Nat /\ (k - 1) + 1 = k
        OBVIOUS
      <3> HIDE DEF Debt
      <3> QED BY <3>1, <1>3
    <2> HIDE DEF Debt
    <2> QED BY <2>1
  <1> QED BY <1>1, <1>3, <1>4

\* A full bucket holds a token.
LEMMA FullHolds == Full \in Nat /\ Full >= Unit
  <1>1. \A m \in Nat \ {0} : m * Unit >= Unit /\ m * Unit \in Nat
    BY LimiterAssumption
  <1> QED BY <1>1, LimiterAssumption DEF Full

\* The balance now, and what refilling, taking and waiting make of it.
LEMMA BalanceMoves ==
    ASSUME LimiterTypeOK
    PROVE  /\ Balance \in Int /\ Balance <= Full /\ (Balance >= tokens \/ Balance = Full)
           /\ Refill => tokens' = Balance /\ Balance' = Balance /\ idle' = 0
           /\ Consume => tokens' = Balance - Unit /\ Balance' = Balance - Unit /\ idle' = 0
           /\ Tick => /\ Balance < Full => Balance' = Balance + 1
                      /\ Balance = Full => Balance' = Full
  <1> USE LimiterAssumption, FullHolds DEF LimiterTypeOK
  <1>1. Balance \in Int /\ Balance <= Full /\ (Balance >= tokens \/ Balance = Full)
    BY DEF Balance
  <1>2. ASSUME Refill PROVE tokens' = Balance /\ Balance' = Balance /\ idle' = 0
    BY <1>1, <1>2 DEF Refill, Balance
  <1>3. ASSUME Consume PROVE tokens' = Balance - Unit /\ Balance' = Balance - Unit /\ idle' = 0
    BY <1>1, <1>3 DEF Consume, Balance
  <1>4. ASSUME Tick PROVE (Balance < Full => Balance' = Balance + 1) /\ (Balance = Full => Balance' = Full)
    BY <1>1, <1>4 DEF Tick, Balance
  <1> QED BY <1>1, <1>2, <1>3, <1>4

-----------------------------------------------------------------------------
(* Type correctness                                                        *)

\* A request has a timer just while it waits for a token.
TimersWait == \A r \in Requests : timer[r] # Off <=> at[r] \in {"first", "again"}

\* An attempt that is followed by a delay was not the last.
RetriesLeft == \A r \in Requests : at[r] = "backoff" => attempt[r] < MaxRetries

ApiTyped == ApiTypeOK /\ TimersWait /\ RetriesLeft

LEMMA ApiInitTyped == ApiInit => ApiTyped
  BY LimiterAssumption, ApiAssumption, FullHolds
     DEF ApiInit, LimiterInit, ApiTyped, ApiTypeOK, LimiterTypeOK, TimersWait, RetriesLeft, Off

\* What each way of taking or waiting does to the limiter's types.
LEMMA LimiterTyped ==
    ASSUME LimiterTypeOK, NEW r \in Requests
    PROVE  /\ TakeToken => LimiterTypeOK' /\ timer' = timer
           /\ Sleep(r) => LimiterTypeOK' /\ \E w \in Nat \ {0} : timer' = [timer EXCEPT ![r] = w]
           /\ WakeUp(r) => LimiterTypeOK'
           /\ ClearTimer(r) => LimiterTypeOK'
           /\ Refill /\ UNCHANGED timer => LimiterTypeOK'
  <1> USE LimiterAssumption, FullHolds, BalanceMoves
  <1>1. ASSUME TakeToken PROVE LimiterTypeOK' /\ timer' = timer
    BY <1>1 DEF TakeToken, LimiterTypeOK
  <1>2. ASSUME Sleep(r) PROVE LimiterTypeOK' /\ \E w \in Nat \ {0} : timer' = [timer EXCEPT ![r] = w]
    <2>1. WaitMs \in Nat \ {0}
      BY <1>2 DEF Sleep, HasToken, WaitMs
    <2>2. LimiterTypeOK'
      BY <1>2, <2>1 DEF Sleep, LimiterTypeOK
    <2> QED BY <1>2, <2>1, <2>2 DEF Sleep
  <1>3. ASSUME WakeUp(r) PROVE LimiterTypeOK'
    BY <1>3 DEF WakeUp, LimiterTypeOK
  <1>4. ASSUME ClearTimer(r) PROVE LimiterTypeOK'
    BY <1>4 DEF ClearTimer, LimiterTypeOK
  <1>5. ASSUME Refill, UNCHANGED timer PROVE LimiterTypeOK'
    BY <1>5 DEF LimiterTypeOK
  <1> QED BY <1>1, <1>2, <1>3, <1>4, <1>5

\* Time wakes nobody and puts nobody to sleep.
LEMMA TimeTyped ==
    ASSUME LimiterTypeOK, Tick
    PROVE  LimiterTypeOK' /\ \A s \in Requests : timer'[s] = Off <=> timer[s] = Off
  <1> USE FullHolds
  <1>1. LimiterTypeOK'
    BY DEF Tick, LimiterTypeOK, Off
  <1>2. ASSUME NEW s \in Requests PROVE timer'[s] = Off <=> timer[s] = Off
    <2>1. timer[s] \in Nat \cup {Off} /\ timer'[s] = IF timer[s] > 0 THEN timer[s] - 1 ELSE timer[s]
      BY DEF Tick, LimiterTypeOK
    <2> QED BY <2>1 DEF Off
  <1> QED BY <1>1, <1>2

\* What a fetch that begins leaves of a request.
LEMMA FetchGoes ==
    ASSUME ApiTypeOK, NEW r \in Requests, Fetch(r)
    PROVE  \E next \in {"fetch", "report"}, what \in {"none", "ok", "error", "thrown"} :
               /\ at' = [at EXCEPT ![r] = next] /\ answer' = [answer EXCEPT ![r] = what]
               /\ aborted[r] => next = "report"
  <1>1. answer[r] \in {"none", "ok", "error", "thrown"} /\ answer = [answer EXCEPT ![r] = answer[r]]
    BY DEF ApiTypeOK
  <1>2. CASE aborted[r]
    BY <1>2 DEF Fetch, Throws, ReqGoes, Result
  <1>3. CASE ~aborted[r]
    <2>1. at' = [at EXCEPT ![r] = "fetch"] /\ answer' = [answer EXCEPT ![r] = answer[r]]
      BY <1>1, <1>3 DEF Fetch, ReqGoes
    <2> QED BY <1>1, <1>3, <2>1
  <1> QED BY <1>2, <1>3

LEMMA ApiNextTyped == ApiTyped /\ [ApiNext]_apiVars => ApiTyped'
  <1> SUFFICES ASSUME ApiTyped, [ApiNext]_apiVars PROVE ApiTyped'
    OBVIOUS
  <1> USE LimiterAssumption, ApiAssumption DEF ApiTyped
  <1>a. LimiterTypeOK
    BY DEF ApiTypeOK
  <1>1. ASSUME NEW r \in Requests, ApiRequest(r) PROVE ApiTyped'
    <2>1. timer[r] = Off
      BY <1>1 DEF ApiRequest, TimersWait
    <2>2. CASE TakeToken /\ Fetch(r)
      BY <1>1, <1>a, <2>1, <2>2, LimiterTyped, FetchGoes DEF ApiRequest, ApiTypeOK, TimersWait, RetriesLeft
    <2>3. CASE Sleep(r) /\ ReqGoes(r, "first") /\ UNCHANGED answer
      <3>1. LimiterTypeOK' /\ \E w \in Nat \ {0} : timer' = [timer EXCEPT ![r] = w]
        BY <1>a, <2>3, LimiterTyped
      <3> QED BY <1>1, <1>a, <2>3, <3>1 DEF ApiRequest, ApiTypeOK, LimiterTypeOK, TimersWait, RetriesLeft, ReqGoes, Off
    <2>4. CASE Refill /\ UNCHANGED timer /\ Throws(r, "over")
      <3>1. LimiterTypeOK'
        BY <1>a, <2>4, LimiterTyped
      <3> QED BY <1>1, <2>1, <2>4, <3>1 DEF ApiRequest, ApiTypeOK, TimersWait, RetriesLeft, Throws, ReqGoes, Result
    <2> QED BY <1>1, <2>2, <2>3, <2>4 DEF ApiRequest
  <1>2. ASSUME NEW r \in Requests, Abort(r) PROVE ApiTyped'
    <2>1. CASE at[r] \in {"first", "again", "backoff"}
      <3>1. LimiterTypeOK' /\ timer' = [timer EXCEPT ![r] = Off]
        BY <1>2, <1>a, <2>1, LimiterTyped DEF Abort, ClearTimer
      <3> QED BY <1>2, <1>a, <2>1, <3>1 DEF Abort, ApiTypeOK, LimiterTypeOK, TimersWait, RetriesLeft, Throws, ReqGoes, Result
    <2>2. CASE at[r] \notin {"first", "again", "backoff"}
      BY <1>2, <2>2 DEF Abort, ApiTypeOK, LimiterTypeOK, limiterVars, TimersWait, RetriesLeft
    <2> QED BY <2>1, <2>2
  <1>3. ASSUME NEW r \in Requests, Acquired(r) PROVE ApiTyped'
    <2>1. LimiterTypeOK' /\ timer' = [timer EXCEPT ![r] = Off]
      BY <1>3, <1>a, LimiterTyped DEF Acquired, WakeUp
    <2>2. Fetch(r)
      BY <1>3 DEF Acquired
    <2> QED BY <1>3, <1>a, <2>1, <2>2, FetchGoes DEF Acquired, ApiTypeOK, LimiterTypeOK, TimersWait, RetriesLeft
  <1>4. ASSUME NEW r \in Requests, Delayed(r) PROVE ApiTyped'
    <2>1. timer[r] = Off /\ attempt[r] + 1 \in 0 .. MaxRetries
      BY <1>4 DEF Delayed, TimersWait, RetriesLeft, ApiTypeOK
    <2>2. CASE TakeToken /\ Fetch(r)
      <3>1. LimiterTypeOK' /\ timer' = timer
        BY <1>a, <2>2, LimiterTyped
      <3> QED BY <1>4, <2>1, <2>2, <3>1, FetchGoes DEF Delayed, ApiTypeOK, TimersWait, RetriesLeft
    <2>3. CASE Sleep(r) /\ ReqGoes(r, "again") /\ UNCHANGED answer
      <3>1. LimiterTypeOK' /\ \E w \in Nat \ {0} : timer' = [timer EXCEPT ![r] = w]
        BY <1>a, <2>3, LimiterTyped
      <3> QED BY <1>4, <1>a, <2>1, <2>3, <3>1 DEF Delayed, ApiTypeOK, LimiterTypeOK, TimersWait, RetriesLeft, ReqGoes, Off
    <2> QED BY <1>4, <2>2, <2>3 DEF Delayed
  <1>5. ASSUME NEW r \in Requests, FetchEnded(r) PROVE ApiTyped'
    <2>1. at[r] = "fetch" /\ UNCHANGED <<limiterVars, attempt, aborted>>
      BY <1>5 DEF FetchEnded, Responds, Retries, GivesUp, FetchEnds
    <2>2. \E next \in {"body", "backoff", "report"}, what \in {"none", "ok", "error", "thrown"} :
              /\ at' = [at EXCEPT ![r] = next] /\ answer' = [answer EXCEPT ![r] = what]
              /\ next = "backoff" => attempt[r] < MaxRetries
      <3>1. PICK outcome \in {"ok", "error", "retryable", "network"} :
                Responds(r, outcome) \/ Retries(r, outcome) \/ GivesUp(r, outcome)
        BY <1>5 DEF FetchEnded
      <3>2. CASE Responds(r, outcome)
        BY <3>2 DEF Responds, ReqGoes, Result
      <3>3. CASE Retries(r, outcome)
        <4>1. answer[r] \in {"none", "ok", "error", "thrown"} /\ answer' = [answer EXCEPT ![r] = answer[r]]
          BY <3>3 DEF Retries, ApiTypeOK
        <4>2. attempt[r] < MaxRetries
          BY <3>3 DEF Retries, LastAttempt, ApiTypeOK
        <4> QED BY <3>3, <4>1, <4>2 DEF Retries, ReqGoes
      <3>4. CASE GivesUp(r, outcome)
        BY <3>4 DEF GivesUp, Throws, ReqGoes, Result
      <3> QED BY <3>1, <3>2, <3>3, <3>4
    <2>3. ApiTypeOK'
      BY <2>1, <2>2 DEF ApiTypeOK, LimiterTypeOK, limiterVars
    <2>4. TimersWait' /\ RetriesLeft'
      BY <2>1, <2>2 DEF ApiTypeOK, limiterVars, TimersWait, RetriesLeft
    <2> QED BY <2>3, <2>4
  <1>6. ASSUME NEW r \in Requests, BodyRead(r) \/ Audited(r) \/ Reported(r) PROVE ApiTyped'
    BY <1>6 DEF BodyRead, Audited, Reported, Throws, ReqGoes, Result,
         ApiTypeOK, LimiterTypeOK, limiterVars, TimersWait, RetriesLeft
  <1>7. CASE Elapses
    BY <1>7, <1>a, TimeTyped DEF Elapses, requestVars, ApiTypeOK, TimersWait, RetriesLeft
  <1>8. CASE UNCHANGED apiVars
    BY <1>8 DEF apiVars, limiterVars, requestVars, ApiTypeOK, LimiterTypeOK, TimersWait, RetriesLeft
  <1> QED BY <1>1, <1>2, <1>3, <1>4, <1>5, <1>6, <1>7, <1>8 DEF ApiNext, RequestStep

\* Every variable keeps its type; a request has a timer just while it waits.
THEOREM ApiIsTyped == ApiSpec => []ApiTypeOK
  <1>1. ApiTyped => ApiTypeOK
    BY DEF ApiTyped
  <1> QED BY <1>1, ApiInitTyped, ApiNextTyped, PTL DEF ApiSpec

-----------------------------------------------------------------------------
(* An abort is heard                                                       *)

\* However many requests share the limiter, one whose signal is aborted makes no
\* further attempt.
THEOREM AbortStaysHeard == ApiSpec => AbortIsHeard
  <1>1. ASSUME ApiTyped, [ApiNext]_apiVars
        PROVE  [\A r \in Requests : aborted[r] /\ at[r] # "fetch" => at'[r] # "fetch"]_apiVars
    <2> SUFFICES ASSUME ApiNext, NEW q \in Requests, aborted[q], at[q] # "fetch" PROVE at'[q] # "fetch"
      BY <1>1
    <2> USE <1>1 DEF ApiTyped
    <2>1. ASSUME NEW r \in Requests, ApiRequest(r) PROVE at'[q] # "fetch"
      BY <2>1, FetchGoes DEF ApiRequest, ApiTypeOK, Throws, ReqGoes
    <2>2. ASSUME NEW r \in Requests, Abort(r) PROVE at'[q] # "fetch"
      BY <2>2 DEF Abort, ApiTypeOK, Throws, ReqGoes
    <2>3. ASSUME NEW r \in Requests, Acquired(r) PROVE at'[q] # "fetch"
      BY <2>3, FetchGoes DEF Acquired, ApiTypeOK
    <2>4. ASSUME NEW r \in Requests, Delayed(r) PROVE at'[q] # "fetch"
      BY <2>4, FetchGoes DEF Delayed, ApiTypeOK, ReqGoes
    <2>5. ASSUME NEW r \in Requests, FetchEnded(r) PROVE at'[q] # "fetch"
      BY <2>5 DEF FetchEnded, Responds, Retries, GivesUp, ApiTypeOK, Throws, ReqGoes
    <2>6. ASSUME NEW r \in Requests, BodyRead(r) \/ Audited(r) \/ Reported(r) PROVE at'[q] # "fetch"
      BY <2>6 DEF BodyRead, Audited, Reported, ApiTypeOK, Throws, ReqGoes
    <2>7. CASE Elapses
      BY <2>7 DEF Elapses, requestVars
    <2> QED BY <2>1, <2>2, <2>3, <2>4, <2>5, <2>6, <2>7 DEF ApiNext, RequestStep
  <1> QED BY <1>1, ApiInitTyped, ApiNextTyped, PTL DEF ApiSpec, AbortIsHeard

-----------------------------------------------------------------------------
(* The overdraft is bounded                                                *)

Waiting == {r \in Requests : timer[r] # Off}

\* The callers that would be more than k tokens short if they woke when they are due
\* and nobody took a token meanwhile.
Short(k) == {r \in Waiting : Balance + timer[r] < Debt(k)}

\* The more short some callers are, the fewer they are: a caller that looks after an
\* overdraft waits it off.
ShortAreFew == \A k \in Nat : Short(k) # {} => Cardinality(Short(k)) + k < Cardinality(Requests)

DebtIInv == ApiTyped /\ ShortAreFew /\ DebtBounded

\* What is known of the numbers of callers.
LEMMA CallersCount ==
    /\ Cardinality(Requests) \in Nat
    /\ \A S \in SUBSET Requests :
          /\ IsFiniteSet(S) /\ Cardinality(S) \in Nat /\ Cardinality(S) <= Cardinality(Requests)
          /\ Cardinality(S) = 0 <=> S = {}
          /\ \A T \in SUBSET S : Cardinality(T) <= Cardinality(S)
          /\ \A r \in S : Cardinality(S \ {r}) = Cardinality(S) - 1
    /\ \A S \in SUBSET Requests, r \in Requests : r \notin S => Cardinality(S) < Cardinality(Requests)
  <1>1. IsFiniteSet(Requests)
    BY LimiterAssumption
  <1>2. Cardinality(Requests) \in Nat
    BY <1>1, FS_CardinalityType
  <1>3. ASSUME NEW S \in SUBSET Requests
        PROVE  IsFiniteSet(S) /\ Cardinality(S) \in Nat /\ Cardinality(S) <= Cardinality(Requests)
    BY <1>1, FS_Subset, FS_CardinalityType
  <1>4. ASSUME NEW S \in SUBSET Requests PROVE Cardinality(S) = 0 <=> S = {}
    BY <1>3, FS_EmptySet
  <1>5. ASSUME NEW S \in SUBSET Requests, NEW T \in SUBSET S PROVE Cardinality(T) <= Cardinality(S)
    BY <1>3, FS_Subset
  <1>6. ASSUME NEW S \in SUBSET Requests, NEW r \in S PROVE Cardinality(S \ {r}) = Cardinality(S) - 1
    BY <1>3, FS_RemoveElement
  <1>7. ASSUME NEW S \in SUBSET Requests, NEW r \in Requests, r \notin S
        PROVE  Cardinality(S) < Cardinality(Requests)
    <2>1. S \in SUBSET (Requests \ {r}) /\ Requests \ {r} \in SUBSET Requests
      BY <1>7
    <2>2. Cardinality(S) <= Cardinality(Requests \ {r})
      BY <1>5, <2>1
    <2>3. Cardinality(Requests \ {r}) = Cardinality(Requests) - 1
      BY <1>6
    <2> QED BY <1>2, <1>3, <2>2, <2>3
  <1> QED BY <1>2, <1>3, <1>4, <1>5, <1>6, <1>7

\* Fewer callers that are short are as few.
LEMMA FewerAreFew ==
    ASSUME ShortAreFew, \A k \in Nat : Short(k)' \subseteq Short(k)
    PROVE  ShortAreFew'
  <1> SUFFICES ASSUME NEW k \in Nat, Short(k)' # {} PROVE Cardinality(Short(k)') + k < Cardinality(Requests)
    BY DEF ShortAreFew
  <1>1. Short(k) \in SUBSET Requests /\ Short(k)' \in SUBSET Short(k) /\ Short(k) # {}
    BY DEF Short, Waiting
  <1>2. Cardinality(Short(k)') <= Cardinality(Short(k)) /\ Cardinality(Short(k)') \in Nat /\ Cardinality(Short(k)) \in Nat
    BY <1>1, CallersCount
  <1>3. Cardinality(Short(k)) + k < Cardinality(Requests)
    BY <1>1 DEF ShortAreFew
  <1> QED BY <1>2, <1>3, CallersCount

\* The balance is one token below what a caller found that took one at once.
LEMMA TakingKeepsFew ==
    ASSUME LimiterTypeOK, TakeToken, NEW r \in Requests, timer[r] = Off
    PROVE  ShortAreFew'
  <1>1. Balance' = Balance - Unit /\ Balance >= Unit /\ Balance \in Int /\ Unit \in Nat /\ timer' = timer
    BY BalanceMoves, LimiterAssumption DEF TakeToken, HasToken
  <1> SUFFICES ASSUME NEW k \in Nat, Short(k)' # {} PROVE Cardinality(Short(k)') + k < Cardinality(Requests)
    BY DEF ShortAreFew
  <1>2. PICK s \in Requests : timer'[s] # Off /\ Balance' + timer'[s] < Debt(k)
    BY DEF Short, Waiting, Debt
  <1>3. timer'[s] \in Nat
    BY <1>1, <1>2 DEF LimiterTypeOK
  <1>4. Debt(k) > 0 /\ Debt(k) \in Int
    BY <1>1, <1>2, <1>3, DebtGrows
  <1>5. k = 0
    BY <1>4, DebtGrows
  <1>6. Short(k)' \in SUBSET Requests /\ r \notin Short(k)'
    BY <1>1 DEF Short, Waiting
  <1> QED BY <1>5, <1>6, CallersCount

\* A caller that wakes up is the shortest of all; the others are one token shorter
\* without it.
LEMMA WakingKeepsFew ==
    ASSUME LimiterTypeOK, ShortAreFew, NEW r \in Requests, WakeUp(r)
    PROVE  ShortAreFew'
  <1>1. /\ Balance' = Balance - Unit /\ Balance \in Int /\ Unit \in Nat
        /\ timer[r] = 0 /\ timer' = [timer EXCEPT ![r] = Off]
    BY BalanceMoves, LimiterAssumption DEF WakeUp
  <1> SUFFICES ASSUME NEW k \in Nat, Short(k)' # {} PROVE Cardinality(Short(k)') + k < Cardinality(Requests)
    BY DEF ShortAreFew
  <1>2. Short(k)' \in SUBSET Requests /\ r \notin Short(k)'
    BY <1>1 DEF Short, Waiting, LimiterTypeOK
  <1>3. CASE k = 0
    BY <1>2, <1>3, CallersCount
  <1>4. CASE k # 0
    <2>1. PICK m \in Nat : k = m + 1
      BY <1>4
    <2>2. Debt(m) \in Int /\ Debt(k) = Debt(m) - Unit
      BY <2>1, DebtGrows
    <2>3. ASSUME NEW s \in Short(k)' PROVE s \in Short(m) /\ timer[s] \in Nat /\ Balance + timer[s] < Debt(m)
      <3>1. s \in Requests /\ s # r /\ timer'[s] = timer[s] /\ timer[s] \in Nat /\ timer[s] # Off
        BY <1>1, <1>2, <2>3 DEF Short, Waiting, LimiterTypeOK
      <3>2. Balance' + timer'[s] < Debt(k)
        BY <2>3 DEF Short, Debt
      <3>3. Balance + timer[s] < Debt(m)
        BY <1>1, <2>2, <3>1, <3>2
      <3> QED BY <3>1, <3>3 DEF Short, Waiting
    <2>4. r \in Short(m)
      <3>1. PICK s \in Short(k)' : TRUE
        OBVIOUS
      <3>2. Balance + timer[r] < Debt(m)
        BY <1>1, <2>2, <2>3, <3>1
      <3> QED BY <1>1, <3>2 DEF Short, Waiting, Off
    <2>5. Short(k)' \in SUBSET (Short(m) \ {r})
      BY <1>2, <2>3
    <2>6. Short(m) \in SUBSET Requests /\ Short(m) \ {r} \in SUBSET Requests
      BY DEF Short, Waiting
    <2>7. Cardinality(Short(k)') <= Cardinality(Short(m)) - 1
      BY <2>4, <2>5, <2>6, CallersCount
    <2>8. Cardinality(Short(m)) + m < Cardinality(Requests)
      BY <2>4 DEF ShortAreFew
    <2> QED BY <1>2, <2>1, <2>6, <2>7, <2>8, CallersCount
  <1> QED BY <1>3, <1>4

\* A caller that goes to sleep will not be short.
LEMMA SleepingKeepsFew ==
    ASSUME LimiterTypeOK, ShortAreFew, NEW r \in Requests, Sleep(r)
    PROVE  ShortAreFew'
  <1>1. Balance' = Balance /\ Balance \in Int /\ Unit \in Nat /\ timer' = [timer EXCEPT ![r] = Unit - Balance]
    BY BalanceMoves, LimiterAssumption DEF Sleep, WaitMs
  <1>2. ASSUME NEW k \in Nat, NEW s \in Short(k)' PROVE s \in Short(k)
    <2>1. s \in Requests /\ timer'[s] # Off /\ Balance' + timer'[s] < Debt(k)
      BY <1>2 DEF Short, Waiting, Debt
    <2>2. s # r
      BY <1>1, <2>1, DebtGrows DEF LimiterTypeOK
    <2> QED BY <1>1, <2>1, <2>2 DEF Short, Waiting, LimiterTypeOK
  <1> QED BY <1>2, FewerAreFew

\* Time makes nobody shorter.
LEMMA TimeKeepsFew ==
    ASSUME LimiterTypeOK, ShortAreFew, Tick
    PROVE  ShortAreFew'
  <1>1. /\ Balance \in Int /\ Balance <= Full
        /\ Balance < Full => Balance' = Balance + 1
        /\ Balance = Full => Balance' = Full
    BY BalanceMoves
  <1>2. ASSUME NEW k \in Nat, NEW s \in Short(k)' PROVE s \in Short(k)
    <2>1. s \in Requests /\ timer'[s] # Off /\ Balance' + timer'[s] < Debt(k) /\ Debt(k) <= Unit /\ Debt(k) \in Int
      BY <1>2, DebtGrows DEF Short, Waiting, Debt
    <2>2. /\ timer[s] \in Nat \cup {Off}
          /\ timer'[s] = IF timer[s] > 0 THEN timer[s] - 1 ELSE timer[s]
      BY <2>1 DEF Tick, LimiterTypeOK
    <2>3. timer[s] \in Nat /\ timer'[s] \in Nat /\ timer[s] <= timer'[s] + 1
      BY <2>1, <2>2 DEF Off
    <2>4. Balance < Full
      BY <1>1, <2>1, <2>3, FullHolds, LimiterAssumption
    <2>5. Balance + timer[s] < Debt(k)
      BY <1>1, <2>1, <2>3, <2>4
    <2> QED BY <2>1, <2>3, <2>5 DEF Short, Waiting, Off
  <1> QED BY <1>2, FewerAreFew

\* The same callers with the same balance, or fewer.
LEMMA StillKeepsFew ==
    ASSUME LimiterTypeOK, ShortAreFew, Balance' = Balance,
           \A s \in Requests : timer'[s] = timer[s] \/ timer'[s] = Off
    PROVE  ShortAreFew'
  <1>1. ASSUME NEW k \in Nat, NEW s \in Short(k)' PROVE s \in Short(k)
    BY <1>1 DEF Short, Waiting, Debt
  <1> QED BY <1>1, FewerAreFew

-----------------------------------------------------------------------------
(* One step of the limiter                                                 *)

\* The bound lies below an empty bucket when there is a caller.
LEMMA BoundIsLow ==
    /\ Unit - Cardinality(Requests) * Unit \in Int
    /\ Unit - Cardinality(Requests) * Unit <= Full
    /\ \A r \in Requests : Unit - Cardinality(Requests) * Unit <= 0
  <1>1. Cardinality(Requests) \in Nat
    BY CallersCount
  <1>2. Debt(Cardinality(Requests)) = Unit - Cardinality(Requests) * Unit
    BY DEF Debt
  <1>3. ASSUME NEW r \in Requests PROVE Cardinality(Requests) # 0
    BY CallersCount
  <1> QED BY <1>1, <1>2, <1>3, DebtGrows, FullHolds, LimiterAssumption

\* Taking a token that is there, or one that was waited for, keeps the bound; so does
\* a refill.
LEMMA BoundIsKept ==
    ASSUME LimiterTypeOK, ShortAreFew, DebtBounded, NEW r \in Requests
    PROVE  /\ TakeToken => DebtBounded'
           /\ WakeUp(r) => DebtBounded'
           /\ Refill => DebtBounded'
  <1> DEFINE Bound == Unit - Cardinality(Requests) * Unit
  <1>1. Bound \in Int /\ Bound <= Full /\ Bound <= 0
    BY BoundIsLow
  <1>2. tokens >= Bound /\ tokens \in Int /\ Full \in Nat /\ Unit \in Nat
    BY FullHolds, LimiterAssumption DEF DebtBounded, LimiterTypeOK
  <1>3. DebtBounded' <=> tokens' >= Bound
    BY DEF DebtBounded
  <1>4. ASSUME TakeToken PROVE DebtBounded'
    <2>1. tokens' = Balance - Unit /\ Balance >= Unit /\ Balance \in Int
      BY <1>4, BalanceMoves DEF TakeToken, HasToken
    <2> QED BY <1>1, <1>2, <1>3, <2>1
  <1>5. ASSUME WakeUp(r) PROVE DebtBounded'
    <2>1. tokens' = Balance - Unit /\ timer[r] = 0 /\ Balance \in Int
      BY <1>5, BalanceMoves DEF WakeUp
    <2>2. PICK m \in Nat : Cardinality(Requests) = m + 1
      <3>1. Cardinality(Requests) \in Nat \ {0}
        BY CallersCount
      <3>2. Cardinality(Requests) - 1 \in Nat /\ Cardinality(Requests) = (Cardinality(Requests) - 1) + 1
        BY <3>1
      <3> QED BY <3>2
    <2>3. Debt(m + 1) = Bound
      BY <2>2 DEF Debt
    <2>4. Bound = Debt(m) - Unit /\ Debt(m) \in Int
      BY <2>3, DebtGrows
    <2>5. Balance >= Debt(m)
      <3> SUFFICES ASSUME Balance < Debt(m) PROVE FALSE
        BY <2>1, <2>4
      <3>1. r \in Short(m) /\ Short(m) \in SUBSET Requests
        BY <2>1 DEF Short, Waiting, Off
      <3>2. Cardinality(Short(m)) \in Nat /\ Cardinality(Short(m)) # 0
        BY <3>1, CallersCount
      <3>3. Cardinality(Short(m)) + m < Cardinality(Requests)
        BY <3>1 DEF ShortAreFew
      <3> QED BY <2>2, <3>2, <3>3
    <2> QED BY <1>1, <1>2, <1>3, <2>1, <2>4, <2>5
  <1>6. ASSUME Refill PROVE DebtBounded'
    <2>1. tokens' = Balance /\ (Balance >= tokens \/ Balance = Full) /\ Balance \in Int
      BY <1>6, BalanceMoves
    <2> QED BY <1>1, <1>2, <1>3, <2>1
  <1> QED BY <1>4, <1>5, <1>6

LEMMA DebtInit == ApiInit => DebtIInv
  <1> SUFFICES ASSUME ApiInit PROVE DebtIInv
    OBVIOUS
  <1>1. ApiTyped
    BY ApiInitTyped
  <1>2. ShortAreFew
    BY DEF ApiInit, LimiterInit, ShortAreFew, Short, Waiting
  <1>3. DebtBounded
    BY BoundIsLow, FullHolds DEF ApiInit, LimiterInit, DebtBounded
  <1> QED BY <1>1, <1>2, <1>3 DEF DebtIInv

LEMMA DebtNext == DebtIInv /\ [ApiNext]_apiVars => DebtIInv'
  <1> SUFFICES ASSUME DebtIInv, [ApiNext]_apiVars PROVE DebtIInv'
    OBVIOUS
  <1> USE DEF DebtIInv
  <1>t. ApiTyped'
    BY ApiNextTyped
  <1>a. LimiterTypeOK
    BY DEF ApiTyped, ApiTypeOK
  <1>1. ASSUME NEW r \in Requests, at[r] \in {"idle", "backoff"}, TakeToken PROVE (ShortAreFew /\ DebtBounded)'
    <2>1. timer[r] = Off
      BY <1>1 DEF ApiTyped, TimersWait
    <2> QED BY <1>1, <1>a, <2>1, TakingKeepsFew, BoundIsKept
  <1>2. ASSUME NEW r \in Requests, Sleep(r) PROVE (ShortAreFew /\ DebtBounded)'
    BY <1>2, <1>a, SleepingKeepsFew, BoundIsKept DEF Sleep
  <1>3. ASSUME NEW r \in Requests, Refill, UNCHANGED timer PROVE (ShortAreFew /\ DebtBounded)'
    BY <1>3, <1>a, BalanceMoves, StillKeepsFew, BoundIsKept
  <1>4. ASSUME NEW r \in Requests, WakeUp(r) PROVE (ShortAreFew /\ DebtBounded)'
    BY <1>4, <1>a, WakingKeepsFew, BoundIsKept
  <1>5. ASSUME UNCHANGED limiterVars PROVE (ShortAreFew /\ DebtBounded)'
    <2>1. Balance' = Balance /\ timer' = timer /\ tokens' = tokens
      BY <1>5 DEF limiterVars, Balance
    <2> QED BY <1>a, <2>1, StillKeepsFew DEF DebtBounded
  <1>6. ASSUME NEW r \in Requests, ClearTimer(r) PROVE (ShortAreFew /\ DebtBounded)'
    <2>1. Balance' = Balance /\ tokens' = tokens /\ \A s \in Requests : timer'[s] = timer[s] \/ timer'[s] = Off
      BY <1>6, <1>a DEF ClearTimer, Balance, LimiterTypeOK
    <2> QED BY <1>a, <2>1, StillKeepsFew DEF DebtBounded
  <1>7. ASSUME Tick PROVE (ShortAreFew /\ DebtBounded)'
    BY <1>7, <1>a, TimeKeepsFew DEF Tick, DebtBounded
  <1>8. ASSUME NEW r \in Requests, ApiRequest(r) PROVE DebtIInv'
    BY <1>8, <1>t, <1>1, <1>2, <1>3 DEF ApiRequest
  <1>9. ASSUME NEW r \in Requests, Abort(r) PROVE DebtIInv'
    BY <1>9, <1>t, <1>5, <1>6 DEF Abort
  <1>10. ASSUME NEW r \in Requests, RequestStep(r) PROVE DebtIInv'
    <2>1. CASE Acquired(r)
      BY <2>1, <1>t, <1>4 DEF Acquired
    <2>2. CASE Delayed(r)
      BY <2>2, <1>t, <1>1, <1>2 DEF Delayed
    <2>3. CASE FetchEnded(r)
      BY <2>3, <1>t, <1>5 DEF FetchEnded, Responds, Retries, GivesUp, FetchEnds
    <2>4. CASE BodyRead(r) \/ Audited(r) \/ Reported(r)
      BY <2>4, <1>t, <1>5 DEF BodyRead, Audited, Reported
    <2> QED BY <1>10, <2>1, <2>2, <2>3, <2>4 DEF RequestStep
  <1>11. CASE Elapses
    BY <1>11, <1>t, <1>7 DEF Elapses
  <1>12. CASE UNCHANGED apiVars
    BY <1>12, <1>t, <1>5 DEF apiVars
  <1> QED BY <1>8, <1>9, <1>10, <1>11, <1>12 DEF ApiNext

\* However many callers wait on one balance, they overdraw it by at most one token
\* for each of them but one.
THEOREM DebtStaysBounded == ApiSpec => []DebtBounded
  <1>1. DebtIInv => DebtBounded
    BY DEF DebtIInv
  <1> QED BY <1>1, DebtInit, DebtNext, PTL DEF ApiSpec

-----------------------------------------------------------------------------
(* The audit log                                                             *)

\* The logs anybody has: the stored one, the history page's, those of appends.
Logs == ({audit, entries} \cup {copy[a] : a \in Appends}) \ {NoLog}

\* What is true of a log, of the appends that are over (past) and of the entries
\* that may be missing: it has them in their order, each once, and of the last
\* MaxAudit all others.
LogSound(log, past, missing) ==
    /\ \A j \in DOMAIN log : Contains(past, log[j])
    /\ \A j, k \in DOMAIN log : log[j] = log[k] => j = k
    /\ \A j \in DOMAIN log, i \in DOMAIN past : log[j] = past[i] => Len(log) - j <= Len(past) - i
    /\ \A i \in DOMAIN past : Len(past) - i < MaxAudit /\ past[i] \notin missing => Contains(log, past[i])

AuditIInv ==
    /\ AuditTypeOK
    /\ \A i, j \in DOMAIN written : written[i] = written[j] => i = j
    /\ \A a \in Appends : copy[a] # NoLog => ~Contains(written, a)
    /\ \A log \in Logs : LogSound(log, written, overlapped \cup deleted)

LEMMA TrimmedLog ==
    ASSUME NEW log \in Seq(Appends)
    PROVE  LET d == IF Len(log) > MaxAudit THEN Len(log) - MaxAudit ELSE 0
           IN  /\ trimAuditLog(log) \in Seq(Appends) /\ Len(trimAuditLog(log)) = Len(log) - d
               /\ \A j \in 1 .. Len(log) - d : trimAuditLog(log)[j] = log[j + d]
  <1> DEFINE d == IF Len(log) > MaxAudit THEN Len(log) - MaxAudit ELSE 0
  <1>1. Len(log) \in Nat /\ d \in 0 .. Len(log) /\ d + 1 \in Int /\ Len(log) \in Int
    BY AuditAssumption, LenProperties
  <1>2. trimAuditLog(log) = SubSeq(log, d + 1, Len(log))
    BY <1>1, AuditAssumption DEF trimAuditLog
  <1>3. \A i \in d + 1 .. Len(log) : log[i] \in Appends
    BY <1>1, ElementOfSeq
  <1> HIDE DEF d
  <1>4. /\ SubSeq(log, d + 1, Len(log)) \in Seq(Appends)
        /\ Len(SubSeq(log, d + 1, Len(log))) = IF d + 1 <= Len(log) THEN Len(log) - (d + 1) + 1 ELSE 0
        /\ \A i \in 1 .. Len(log) - (d + 1) + 1 : SubSeq(log, d + 1, Len(log))[i] = log[d + 1 + i - 1]
    BY <1>1, <1>3, SubSeqProperties
  <1>5. /\ trimAuditLog(log) \in Seq(Appends) /\ Len(trimAuditLog(log)) = Len(log) - d
        /\ \A j \in 1 .. Len(log) - d : trimAuditLog(log)[j] = log[j + d]
    BY <1>1, <1>2, <1>4
  <1> QED BY <1>5 DEF d

LEMMA RemovedFromLog ==
    ASSUME NEW log \in Seq(Appends), NEW i \in 1 .. Len(log)
    PROVE  /\ RemoveAt(log, i) \in Seq(Appends) /\ Len(RemoveAt(log, i)) = Len(log) - 1
           /\ \A j \in 1 .. Len(log) - 1 : RemoveAt(log, i)[j] = IF j < i THEN log[j] ELSE log[j + 1]
  <1>1. Len(log) \in Nat /\ \A k \in 1 .. Len(log) : log[k] \in Appends
    BY LenProperties, ElementOfSeq
  <1> DEFINE s == SubSeq(log, 1, i - 1)
             t == SubSeq(log, i + 1, Len(log))
  <1>2. /\ s \in Seq(Appends) /\ Len(s) = IF 1 <= i - 1 THEN (i - 1) - 1 + 1 ELSE 0
        /\ \A k \in 1 .. (i - 1) - 1 + 1 : s[k] = log[1 + k - 1]
    BY <1>1, SubSeqProperties, 1 \in Int, i - 1 \in Int, \A k \in 1 .. i - 1 : log[k] \in Appends
  <1>3. /\ t \in Seq(Appends) /\ Len(t) = IF i + 1 <= Len(log) THEN Len(log) - (i + 1) + 1 ELSE 0
        /\ \A k \in 1 .. Len(log) - (i + 1) + 1 : t[k] = log[i + 1 + k - 1]
    BY <1>1, SubSeqProperties, i + 1 \in Int, Len(log) \in Int, \A k \in i + 1 .. Len(log) : log[k] \in Appends
  <1> HIDE DEF s, t
  <1>4. /\ s \o t \in Seq(Appends) /\ Len(s \o t) = Len(s) + Len(t)
        /\ \A k \in 1 .. Len(s) + Len(t) : (s \o t)[k] = IF k <= Len(s) THEN s[k] ELSE t[k - Len(s)]
    BY <1>2, <1>3, ConcatProperties
  <1>5. Len(s) = i - 1 /\ Len(t) = Len(log) - i
    BY <1>1, <1>2, <1>3
  <1>6. \A j \in 1 .. Len(log) - 1 : (s \o t)[j] = IF j < i THEN log[j] ELSE log[j + 1]
    BY <1>1, <1>2, <1>3, <1>4, <1>5
  <1>7. Len(s \o t) = Len(log) - 1
    BY <1>1, <1>4, <1>5
  <1> QED BY <1>4, <1>6, <1>7 DEF RemoveAt, s, t

LEMMA AppendedLog ==
    ASSUME NEW log \in Seq(Appends), NEW a \in Appends
    PROVE  /\ Append(log, a) \in Seq(Appends) /\ Len(Append(log, a)) = Len(log) + 1 /\ Len(log) \in Nat
           /\ \A i \in 1 .. Len(log) : Append(log, a)[i] = log[i]
           /\ Append(log, a)[Len(log) + 1] = a
           /\ DOMAIN log = 1 .. Len(log) /\ DOMAIN Append(log, a) = 1 .. Len(log) + 1
  BY AppendProperties, LenProperties

\* A log that is not written to misses what is appended meanwhile.
LEMMA LogFallsBehind ==
    ASSUME NEW log \in Seq(Appends), NEW past \in Seq(Appends), NEW missing, NEW a \in Appends,
           LogSound(log, past, missing), ~Contains(past, a)
    PROVE  LogSound(log, Append(past, a), missing \cup {a})
  <1> DEFINE n == Len(past)
             new == Append(past, a)
  <1>1. /\ n \in Nat /\ DOMAIN past = 1 .. n /\ DOMAIN new = 1 .. n + 1 /\ Len(new) = n + 1
        /\ \A i \in 1 .. n : new[i] = past[i]
        /\ new[n + 1] = a
    BY AppendedLog
  <1>2. DOMAIN log = 1 .. Len(log) /\ Len(log) \in Nat
    BY LenProperties
  <1> HIDE DEF new, n
  <1>3. n = Len(past)
    BY DEF n
  <1>4. \A j \in DOMAIN log : Contains(new, log[j]) /\ log[j] # a
    BY <1>1, <1>2, <1>3 DEF LogSound, Contains
  <1>5. \A j \in DOMAIN log, i \in DOMAIN new : log[j] = new[i] => Len(log) - j <= Len(new) - i
    <2> TAKE j \in DOMAIN log, i \in DOMAIN new
    <2> HAVE log[j] = new[i]
    <2>1. i # n + 1
      BY <1>1, <1>4
    <2>2. i \in 1 .. n /\ log[j] = past[i]
      BY <1>1, <2>1
    <2>3. Len(log) - j <= n - i
      BY <1>1, <1>3, <2>2 DEF LogSound
    <2> QED BY <1>1, <1>2, <2>2, <2>3
  <1>6. ASSUME NEW i \in DOMAIN new, Len(new) - i < MaxAudit, new[i] \notin missing \cup {a}
        PROVE  Contains(log, new[i])
    <2>1. i \in 1 .. n /\ new[i] = past[i]
      BY <1>1, <1>6
    <2>2. n - i < MaxAudit
      BY <1>1, <1>6, <2>1, AuditAssumption
    <2> QED BY <1>1, <1>3, <1>6, <2>1, <2>2 DEF LogSound
  <1>7. \A j, k \in DOMAIN log : log[j] = log[k] => j = k
    BY DEF LogSound
  <1> QED BY <1>4, <1>5, <1>6, <1>7 DEF LogSound, new

\* The log that is written back has the new entry and, of the others, the newest.
LEMMA LogIsWritten ==
    ASSUME NEW log \in Seq(Appends), NEW past \in Seq(Appends), NEW missing, NEW a \in Appends,
           LogSound(log, past, missing), ~Contains(past, a)
    PROVE  LogSound(trimAuditLog(Append(log, a)), Append(past, a), missing)
  <1> DEFINE n == Len(past)
             m == Len(log)
             new == Append(past, a)
             all == Append(log, a)
             kept == trimAuditLog(all)
             d == IF Len(all) > MaxAudit THEN Len(all) - MaxAudit ELSE 0
  <1>1. /\ n \in Nat /\ DOMAIN past = 1 .. n /\ DOMAIN new = 1 .. n + 1 /\ Len(new) = n + 1
        /\ \A i \in 1 .. n : new[i] = past[i]
        /\ new[n + 1] = a
    BY AppendedLog
  <1>2. /\ m \in Nat /\ DOMAIN log = 1 .. m /\ DOMAIN all = 1 .. m + 1 /\ Len(all) = m + 1
        /\ \A i \in 1 .. m : all[i] = log[i]
        /\ all[m + 1] = a /\ all \in Seq(Appends)
    BY AppendedLog
  <1>3. /\ kept \in Seq(Appends) /\ Len(kept) = Len(all) - d
        /\ \A j \in 1 .. Len(all) - d : kept[j] = all[j + d]
    BY <1>2, TrimmedLog
  <1>4. d \in 0 .. m + 1 /\ (d > 0 => m + 1 - d = MaxAudit) /\ d <= m
    BY <1>2, AuditAssumption
  <1>5. /\ n = Len(past) /\ m = Len(log)
        /\ \A j \in 1 .. m : Contains(past, log[j])
        /\ \A j, k \in 1 .. m : log[j] = log[k] => j = k
        /\ \A j \in 1 .. m, i \in 1 .. n : log[j] = past[i] => m - j <= n - i
        /\ \A i \in 1 .. n : n - i < MaxAudit /\ past[i] \notin missing => Contains(log, past[i])
    BY <1>1, <1>2 DEF LogSound
  <1> HIDE DEF n, m, new, all, kept, d
  <1>6. DOMAIN kept = 1 .. m + 1 - d /\ Len(kept) = m + 1 - d
    <2>1. Len(kept) = m + 1 - d
      BY <1>2, <1>3, <1>4
    <2>2. DOMAIN kept = 1 .. Len(kept)
      BY <1>3, LenProperties
    <2> QED BY <2>1, <2>2
  <1>7. \A j \in 1 .. m + 1 - d : j + d \in 1 .. m + 1 /\ kept[j] = all[j + d]
    BY <1>2, <1>3, <1>4
  <1>8. \A i \in 1 .. n : past[i] # a
    BY <1>5 DEF Contains
  <1>9. \A j \in 1 .. m : log[j] # a
    BY <1>5, <1>8 DEF Contains
  <1>10. \A j \in 1 .. m + 1 : Contains(new, all[j])
    <2> TAKE j \in 1 .. m + 1
    <2>1. CASE j = m + 1
      <3>1. n + 1 \in 1 .. Len(new) /\ new[n + 1] = all[j]
        BY <1>1, <1>2, <2>1
      <3> QED BY <3>1 DEF Contains
    <2>2. CASE j # m + 1
      <3>1. j \in 1 .. m /\ all[j] = log[j]
        BY <1>2, <2>2
      <3>2. PICK i \in 1 .. n : past[i] = log[j]
        BY <1>5, <3>1 DEF Contains
      <3>3. i \in 1 .. Len(new) /\ new[i] = all[j]
        BY <1>1, <3>1, <3>2
      <3> QED BY <3>3 DEF Contains
    <2> QED BY <2>1, <2>2
  <1>11. \A j, k \in 1 .. m + 1 : all[j] = all[k] => j = k
    BY <1>2, <1>5, <1>9
  <1>12. \A j \in 1 .. m + 1, i \in 1 .. n + 1 : all[j] = new[i] => (m + 1) - j <= (n + 1) - i
    <2> TAKE j \in 1 .. m + 1, i \in 1 .. n + 1
    <2> HAVE all[j] = new[i]
    <2>1. CASE j = m + 1
      BY <1>1, <1>2, <2>1
    <2>2. CASE j # m + 1
      <3>1. j \in 1 .. m /\ all[j] = log[j]
        BY <1>2, <2>2
      <3>2. i # n + 1
        BY <1>1, <1>9, <3>1
      <3>3. i \in 1 .. n /\ new[i] = past[i]
        BY <1>1, <3>2
      <3>4. m - j <= n - i
        BY <1>5, <3>1, <3>3
      <3> QED BY <1>1, <1>2, <3>1, <3>3, <3>4
    <2> QED BY <2>1, <2>2
  <1>13. \A j \in DOMAIN kept : Contains(new, kept[j])
    BY <1>6, <1>7, <1>10
  <1>14. \A j, k \in DOMAIN kept : kept[j] = kept[k] => j = k
    <2> TAKE j, k \in DOMAIN kept
    <2> HAVE kept[j] = kept[k]
    <2>1. j + d = k + d
      BY <1>6, <1>7, <1>11
    <2> QED BY <1>2, <1>4, <1>6, <2>1
  <1>15. \A j \in DOMAIN kept, i \in DOMAIN new : kept[j] = new[i] => Len(kept) - j <= Len(new) - i
    <2> TAKE j \in DOMAIN kept, i \in DOMAIN new
    <2> HAVE kept[j] = new[i]
    <2>1. (m + 1) - (j + d) <= (n + 1) - i
      BY <1>1, <1>6, <1>7, <1>12
    <2> QED BY <1>1, <1>2, <1>4, <1>6, <2>1
  <1>16. ASSUME NEW i \in DOMAIN new, Len(new) - i < MaxAudit, new[i] \notin missing
         PROVE  Contains(kept, new[i])
    <2>1. \E j \in 1 .. m + 1 : all[j] = new[i]
      <3>1. CASE i = n + 1
        BY <1>1, <1>2, <3>1
      <3>2. CASE i # n + 1
        <4>1. i \in 1 .. n /\ new[i] = past[i]
          BY <1>1, <3>2
        <4>2. n - i < MaxAudit
          BY <1>1, <1>16, <4>1, AuditAssumption
        <4>3. Contains(log, past[i])
          BY <1>5, <1>16, <4>1, <4>2
        <4>4. PICK j \in 1 .. m : log[j] = past[i]
          BY <1>5, <4>3 DEF Contains
        <4>5. j \in 1 .. m + 1 /\ all[j] = new[i]
          BY <1>2, <4>1, <4>4
        <4> QED BY <4>5
      <3> QED BY <3>1, <3>2
    <2>2. PICK j \in 1 .. m + 1 : all[j] = new[i]
      BY <2>1
    <2>3. (m + 1) - j < MaxAudit
      BY <1>1, <1>2, <1>12, <1>16, <2>2, AuditAssumption
    <2>4. j - d \in 1 .. m + 1 - d
      BY <1>2, <1>4, <2>2, <2>3, AuditAssumption
    <2>5. kept[j - d] = all[(j - d) + d] /\ (j - d) + d = j
      BY <1>2, <1>4, <1>7, <2>4
    <2> QED BY <1>6, <2>2, <2>4, <2>5 DEF Contains
  <1> QED BY <1>13, <1>14, <1>15, <1>16 DEF LogSound, new, all, kept

\* A log without an entry misses that one.
LEMMA LogLosesOne ==
    ASSUME NEW log \in Seq(Appends), NEW past \in Seq(Appends), NEW missing, NEW i \in DOMAIN log,
           LogSound(log, past, missing)
    PROVE  LogSound(RemoveAt(log, i), past, missing \cup {log[i]})
  <1> DEFINE m == Len(log)
             new == RemoveAt(log, i)
  <1>1. m \in Nat /\ DOMAIN log = 1 .. m /\ i \in 1 .. m
    BY SMTT(30), LenProperties
  <1>2. /\ new \in Seq(Appends) /\ Len(new) = m - 1
        /\ \A j \in 1 .. m - 1 : new[j] = IF j < i THEN log[j] ELSE log[j + 1]
    BY <1>1, RemovedFromLog
  <1>3. DOMAIN new = 1 .. m - 1
    BY <1>2, LenProperties
  <1>4. m = Len(log) /\ DOMAIN past = 1 .. Len(past) /\ Len(past) \in Nat
    BY LenProperties
  <1> HIDE DEF m, new
  <1>5. \A j \in DOMAIN new : Contains(past, new[j])
    <2> TAKE j \in DOMAIN new
    <2>1. j \in DOMAIN log /\ j + 1 \in DOMAIN log /\ new[j] \in {log[j], log[j + 1]}
      BY <1>1, <1>2, <1>3
    <2> QED BY <2>1 DEF LogSound
  <1>6. \A j, k \in DOMAIN new : new[j] = new[k] => j = k
    <2> TAKE j, k \in DOMAIN new
    <2> HAVE new[j] = new[k]
    <2> DEFINE old(x) == IF x < i THEN x ELSE x + 1
    <2>1. old(j) \in DOMAIN log /\ old(k) \in DOMAIN log /\ new[j] = log[old(j)] /\ new[k] = log[old(k)]
      BY <1>1, <1>2, <1>3
    <2>2. old(j) = old(k)
      BY <2>1 DEF LogSound
    <2> QED BY <1>1, <1>3, <2>2
  <1>7. \A j \in DOMAIN new, k \in DOMAIN past : new[j] = past[k] => Len(new) - j <= Len(past) - k
    <2> TAKE j \in DOMAIN new, k \in DOMAIN past
    <2> HAVE new[j] = past[k]
    <2>1. CASE j < i
      <3>1. j \in DOMAIN log /\ log[j] = past[k]
        BY <1>1, <1>2, <1>3, <2>1
      <3>2. m - j <= Len(past) - k
        BY <1>4, <3>1 DEF LogSound
      <3> QED BY <1>1, <1>2, <1>3, <1>4, <3>2
    <2>2. CASE ~(j < i)
      <3>1. j + 1 \in DOMAIN log /\ log[j + 1] = past[k]
        BY <1>1, <1>2, <1>3, <2>2
      <3>2. m - (j + 1) <= Len(past) - k
        BY <1>4, <3>1 DEF LogSound
      <3> QED BY <1>1, <1>2, <1>3, <1>4, <3>2
    <2> QED BY <2>1, <2>2
  <1>8. ASSUME NEW k \in DOMAIN past, Len(past) - k < MaxAudit, past[k] \notin missing \cup {log[i]}
        PROVE  Contains(new, past[k])
    <2>1. Contains(log, past[k])
      BY <1>8 DEF LogSound
    <2>2. PICK j \in 1 .. m : log[j] = past[k]
      BY <1>4, <2>1 DEF Contains
    <2>3. j # i
      BY <1>8, <2>2
    <2>4. CASE j < i
      <3>1. j \in 1 .. m - 1 /\ new[j] = past[k]
        BY <1>1, <1>2, <2>2, <2>4
      <3> QED BY <1>2, <3>1 DEF Contains
    <2>5. CASE j > i
      <3>1. j - 1 \in 1 .. m - 1 /\ ~(j - 1 < i) /\ (j - 1) + 1 = j
        BY <1>1, <2>5
      <3>2. new[j - 1] = past[k]
        BY <1>2, <2>2, <3>1
      <3> QED BY <1>2, <3>1, <3>2 DEF Contains
    <2> QED BY <1>1, <2>2, <2>3, <2>4, <2>5
  <1> QED BY <1>5, <1>6, <1>7, <1>8 DEF LogSound, new

LEMMA LogMissesMore ==
    ASSUME NEW log, NEW past, NEW missing, NEW more, LogSound(log, past, missing), missing \subseteq more
    PROVE  LogSound(log, past, more)
  BY DEF LogSound

LEMMA AuditIInvInit == AuditInit => AuditIInv
  <1> SUFFICES ASSUME AuditInit PROVE AuditIInv
    OBVIOUS
  <1>1. <<>> \in Seq(Appends) /\ Len(<<>>) = 0
    BY EmptySeq
  <1>2. Logs \subseteq {<<>>}
    BY DEF AuditInit, Logs
  <1>3. LogSound(<<>>, written, overlapped \cup deleted)
    BY DEF AuditInit, LogSound
  <1> QED BY <1>1, <1>2, <1>3 DEF AuditInit, AuditIInv, AuditTypeOK

\* A log that somebody has is one.
LEMMA LogsAreLogs ==
    ASSUME AuditTypeOK
    PROVE  /\ Logs \subseteq Seq(Appends)
           /\ audit \in Logs
           /\ \A a \in Appends : copy[a] # NoLog => copy[a] \in Logs
           /\ entries # NoLog => entries \in Logs
  BY AuditAssumption DEF AuditTypeOK, Logs

\* A step after which nobody has a log that was not there, and nothing is written.
LEMMA NoLogIsNew ==
    ASSUME AuditIInv, AuditTypeOK', Logs' \subseteq Logs, UNCHANGED <<written, overlapped, deleted>>,
           \A a \in Appends : copy'[a] # NoLog => copy[a] # NoLog \/ ~Contains(written, a)
    PROVE  AuditIInv'
  <1>1. \A log \in Logs' : LogSound(log, written', (overlapped \cup deleted)')
    BY DEF AuditIInv
  <1>2. \A a \in Appends : copy'[a] # NoLog => ~Contains(written', a)
    BY DEF AuditIInv
  <1>3. \A i, j \in DOMAIN written' : written'[i] = written'[j] => i = j
    BY DEF AuditIInv
  <1> QED BY <1>1, <1>2, <1>3 DEF AuditIInv

LEMMA ReadAudit ==
    ASSUME AuditIInv, NEW a \in Appends, AuditRead(a)
    PROVE  AuditIInv'
  <1>1. AuditTypeOK'
    BY DEF AuditRead, AuditIInv, AuditTypeOK
  <1>2. Logs' \subseteq Logs
    BY <1>1 DEF AuditRead, AuditIInv, AuditTypeOK, Logs
  <1>3. \A b \in Appends : copy'[b] # NoLog => copy[b] # NoLog \/ ~Contains(written, b)
    BY DEF AuditRead, AuditIInv, AuditTypeOK
  <1> QED BY <1>1, <1>2, <1>3, NoLogIsNew DEF AuditRead

LEMMA LostAudit ==
    ASSUME AuditIInv, NEW a \in Appends, AppendLost(a)
    PROVE  AuditIInv'
  <1>1. AuditTypeOK'
    BY DEF AppendLost, AuditIInv, AuditTypeOK
  <1>2. Logs' \subseteq Logs
    BY <1>1 DEF AppendLost, AuditIInv, AuditTypeOK, Logs
  <1>3. \A b \in Appends : copy'[b] # NoLog => copy[b] # NoLog
    BY DEF AppendLost, AuditIInv, AuditTypeOK
  <1> QED BY <1>1, <1>2, <1>3, NoLogIsNew DEF AppendLost

LEMMA HistoryPageAudit ==
    ASSUME AuditIInv, HistoryOpens \/ HistoryCloses
    PROVE  AuditIInv'
  <1>1. AuditTypeOK'
    BY DEF HistoryOpens, HistoryCloses, AuditIInv, AuditTypeOK
  <1>2. Logs' \subseteq Logs
    BY DEF HistoryOpens, HistoryCloses, AuditIInv, AuditTypeOK, Logs
  <1>3. \A b \in Appends : copy'[b] # NoLog => copy[b] # NoLog
    BY DEF HistoryOpens, HistoryCloses
  <1> QED BY <1>1, <1>2, <1>3, NoLogIsNew DEF HistoryOpens, HistoryCloses

LEMMA AppendAudit ==
    ASSUME AuditIInv, NEW a \in Appends, appendAuditEntry(a)
    PROVE  AuditIInv'
  <1> DEFINE missing == overlapped \cup deleted
  <1>1. /\ copy[a] \in Seq(Appends) /\ copy[a] \in Logs /\ written \in Seq(Appends)
        /\ ~Contains(written, a) /\ LogSound(copy[a], written, missing)
    <2>1. AuditTypeOK /\ copy[a] # NoLog
      BY DEF appendAuditEntry, AuditIInv
    <2>2. copy[a] \in Logs /\ copy[a] \in Seq(Appends)
      BY <2>1, LogsAreLogs
    <2>3. written \in Seq(Appends)
      BY <2>1 DEF AuditTypeOK
    <2> QED BY <2>1, <2>2, <2>3 DEF AuditIInv
  <1>2. /\ Append(copy[a], a) \in Seq(Appends) /\ Append(written, a) \in Seq(Appends)
        /\ DOMAIN written = 1 .. Len(written) /\ Len(written) \in Nat
        /\ DOMAIN written' = 1 .. Len(written) + 1
        /\ \A i \in 1 .. Len(written) : written'[i] = written[i]
        /\ written'[Len(written) + 1] = a
    BY <1>1, AppendedLog DEF appendAuditEntry
  <1>3. AuditTypeOK'
    <2>1. audit' \in Seq(Appends)
      BY <1>2, TrimmedLog DEF appendAuditEntry
    <2>2. copy' \in [Appends -> Seq(Appends) \cup {NoLog}]
      BY DEF appendAuditEntry, AuditIInv, AuditTypeOK
    <2>3. overlapped' \subseteq Appends
      BY DEF appendAuditEntry, AuditIInv, AuditTypeOK
    <2> QED BY <1>2, <2>1, <2>2, <2>3 DEF appendAuditEntry, AuditIInv, AuditTypeOK
  <1>4. \A i, j \in DOMAIN written' : written'[i] = written'[j] => i = j
    <2>1. \A i \in 1 .. Len(written) : written[i] # a
      BY <1>1 DEF Contains
    <2>2. \A i, j \in 1 .. Len(written) : written[i] = written[j] => i = j
      BY <1>2 DEF AuditIInv
    <2> QED BY <1>2, <2>1, <2>2
  <1>5. \A b \in Appends : copy'[b] # NoLog => ~Contains(written', b)
    <2> SUFFICES ASSUME NEW b \in Appends, copy'[b] # NoLog, NEW i \in 1 .. Len(written'), written'[i] = b
                 PROVE  FALSE
      BY DEF Contains
    <2>1. b # a /\ copy[b] # NoLog
      BY DEF appendAuditEntry, AuditIInv, AuditTypeOK
    <2>2. ~Contains(written, b)
      BY <2>1 DEF AuditIInv
    <2>3. i \in 1 .. Len(written) + 1
      BY <1>1, AppendedLog DEF appendAuditEntry
    <2>4. i \in 1 .. Len(written) /\ written[i] = b
      BY <1>2, <2>1, <2>3
    <2> QED BY <2>2, <2>4 DEF Contains
  <1>6. missing \subseteq (overlapped \cup deleted)' /\ deleted' = deleted
    BY DEF appendAuditEntry
  <1>7. LogSound(audit', written', (overlapped \cup deleted)')
    <2>1. LogSound(trimAuditLog(Append(copy[a], a)), Append(written, a), missing)
      BY <1>1, LogIsWritten
    <2> QED BY <1>6, <2>1, LogMissesMore DEF appendAuditEntry
  <1>8. ASSUME NEW log \in Logs', log # audit'
        PROVE  LogSound(log, written', (overlapped \cup deleted)')
    <2>1. \/ log = entries /\ entries # NoLog
          \/ \E b \in Appends \ {a} : log = copy[b] /\ copy[b] # NoLog
      BY <1>8 DEF Logs, appendAuditEntry, AuditIInv, AuditTypeOK
    <2>2. log \in Logs /\ log \in Seq(Appends)
      <3>1. AuditTypeOK
        BY DEF AuditIInv
      <3>2. log \in Logs
        BY <2>1, <3>1, LogsAreLogs
      <3> QED BY <3>1, <3>2, LogsAreLogs
    <2>3. (overlapped \cup deleted)' = missing \cup {a}
      BY <2>1 DEF appendAuditEntry
    <2>4. LogSound(log, written, missing)
      BY <2>2 DEF AuditIInv
    <2>5. LogSound(log, Append(written, a), missing \cup {a})
      BY <1>1, <2>2, <2>4, LogFallsBehind
    <2> QED BY <2>3, <2>5 DEF appendAuditEntry
  <1> QED BY <1>3, <1>4, <1>5, <1>7, <1>8 DEF AuditIInv

LEMMA DeleteAudit ==
    ASSUME AuditIInv, NEW e \in Appends, handleDelete(e)
    PROVE  AuditIInv'
  <1> DEFINE missing == overlapped \cup deleted
  <1>0. AuditTypeOK /\ entries # NoLog
    BY DEF handleDelete, AuditIInv
  <1>1. entries \in Logs /\ entries \in Seq(Appends) /\ written \in Seq(Appends)
    <2>1. entries \in Logs /\ entries \in Seq(Appends)
      BY <1>0, LogsAreLogs
    <2> QED BY <1>0, <2>1 DEF AuditTypeOK
  <1>2. PICK i \in DOMAIN entries : entries[i] = e /\ entries' = RemoveAt(entries, i)
    BY DEF handleDelete
  <1>3. i \in 1 .. Len(entries)
    BY <1>1, LenProperties
  <1>4. entries' \in Seq(Appends) /\ audit' = entries'
    BY <1>1, <1>2, <1>3, RemovedFromLog DEF handleDelete
  <1>5. AuditTypeOK'
    BY <1>4 DEF handleDelete, AuditIInv, AuditTypeOK
  <1>6. (overlapped \cup deleted)' = missing \cup {e} /\ written' = written
    BY DEF handleDelete
  <1>7. LogSound(entries', written', (overlapped \cup deleted)')
    <2>1. LogSound(entries, written, missing)
      BY <1>1 DEF AuditIInv
    <2>2. LogSound(RemoveAt(entries, i), written, missing \cup {entries[i]})
      BY <1>1, <2>1, LogLosesOne
    <2> QED BY <1>2, <1>6, <2>2
  <1>8. ASSUME NEW log \in Logs', log # entries'
        PROVE  LogSound(log, written', (overlapped \cup deleted)')
    <2>1. log \in Logs
      BY <1>4, <1>8 DEF Logs, handleDelete
    <2>2. LogSound(log, written, missing)
      BY <2>1 DEF AuditIInv
    <2> QED BY <1>6, <2>2, LogMissesMore
  <1>9. \A i1, j \in DOMAIN written' : written'[i1] = written'[j] => i1 = j
    BY <1>6 DEF AuditIInv
  <1>10. \A a \in Appends : copy'[a] # NoLog => ~Contains(written', a)
    BY <1>6 DEF AuditIInv, handleDelete
  <1> QED BY <1>5, <1>7, <1>8, <1>9, <1>10 DEF AuditIInv

LEMMA AuditIInvNext == AuditIInv /\ [AuditNext]_auditVars => AuditIInv'
  <1> SUFFICES ASSUME AuditIInv, [AuditNext]_auditVars PROVE AuditIInv'
    OBVIOUS
  <1>1. CASE UNCHANGED auditVars
    BY <1>1 DEF auditVars, AuditIInv, AuditTypeOK, Logs
  <1>2. ASSUME NEW a \in Appends, AuditRead(a) \/ appendAuditEntry(a) \/ AppendLost(a) \/ handleDelete(a)
        PROVE  AuditIInv'
    BY <1>2, ReadAudit, AppendAudit, LostAudit, DeleteAudit
  <1> QED BY <1>1, <1>2, HistoryPageAudit DEF AuditNext

\* Of the audit log (appendAuditEntry, RunHistoryPage's handleDelete): whatever
\* reads and writes of any number of appends and of the history page cross, and
\* whichever of them are cut off, the log keeps of the last MaxAudit entries each
\* one that was neither deleted nor written while somebody held an older copy.
THEOREM AuditLogIsKept == AuditSpec => []AuditKept
  <1>1. AuditIInv => AuditKept
    BY LogsAreLogs DEF AuditIInv, AuditKept, LogSound
  <1> QED BY <1>1, AuditIInvInit, AuditIInvNext, PTL DEF AuditSpec

-----------------------------------------------------------------------------
(* Test transactions and the API tokens they are sent with                   *)

TxPlaces == {"idle", "confirm", "select", "sendStored", "create", "rename", "store",
             "send", "audit", "suspend", "delete", "over", "gone"}
RunRecords ==
    [kind : Kinds \cup {"none"}, at : TxPlaces, attempts : 0 .. MaxAttempts - 1, token : Tokens \cup {NoToken},
     sent : 0 .. Bodies, own : BOOLEAN, unclean : BOOLEAN]
TokenStates == [Tokens -> {"none", "active", "suspended", "deleted"}]
Counts == [1 .. Bodies -> Nat]

TxTyped ==
    /\ apiToken \in TokenStates
    /\ vault \subseteq Tokens /\ orphans \subseteq Tokens
    /\ run \in [Runs -> RunRecords]
    /\ accepted \in [Runs -> Counts]

\* A run that was not answered, or was not asked yet, has no token of its own, ...
Unowned == {"idle", "confirm", "select", "sendStored", "create"}
\* ... and only the vault's run stores one.
RunSound(x) ==
    /\ x.at \in Unowned => ~x.own
    /\ x.at = "store" => x.kind = "vaultCreate"
    /\ x.own => x.token \in Tokens
    /\ x.at \in {"sendStored", "rename", "store", "send", "audit", "suspend", "delete"} => x.token \in Tokens
    /\ x.at \in {"idle", "confirm", "select", "sendStored", "create", "rename", "store"} => x.sent = 0
    /\ x.at \in {"send", "audit"} => x.sent < Bodies

\* The token of a run that is over is deleted, or the API did not carry that out;
\* a deleted token stays so.
TokenGone(x, state, lost) ==
    x.at = "over" /\ x.own /\ x.kind # "vaultCreate" /\ x.token \notin lost
        => state[x.token] = "deleted" \/ x.unclean

\* What comes next was not processed yet.
Unprocessed(x, counts) ==
    /\ \A b \in 1 .. Bodies : counts[b] <= 1
    /\ x.at \in {"idle", "confirm", "select", "sendStored", "create", "rename", "store", "send"}
           => \A b \in 1 .. Bodies : b > x.sent => counts[b] = 0
    /\ x.at = "audit" => \A b \in 1 .. Bodies : b > x.sent + 1 => counts[b] = 0

RunsSound ==
    \A r \in Runs : RunSound(run[r]) /\ TokenGone(run[r], apiToken, orphans) /\ Unprocessed(run[r], accepted[r])

TxIInv == TxTyped /\ RunsSound

LEMMA TxInitSound == TxInit => TxIInv
  <1> SUFFICES ASSUME TxInit PROVE TxIInv
    OBVIOUS
  <1>1. NewRun \in RunRecords
    <2>1. 0 \in 0 .. MaxAttempts - 1 /\ 0 \in 0 .. Bodies
      BY TransactionAssumption
    <2> QED BY <2>1 DEF NewRun, RunRecords, TxPlaces, Kinds, Batches, NoToken
  <1>2. TxTyped
    BY <1>1 DEF TxInit, TxTyped, TokenStates, Counts
  <1>3. RunSound(NewRun) /\ TokenGone(NewRun, apiToken, orphans)
    BY DEF NewRun, RunSound, TokenGone, Unowned
  <1>4. ASSUME NEW r \in Runs PROVE Unprocessed(NewRun, accepted[r])
    BY DEF NewRun, Unprocessed, TxInit
  <1>5. \A r \in Runs : run[r] = NewRun
    BY DEF TxInit
  <1> QED BY <1>2, <1>3, <1>4, <1>5 DEF TxIInv, RunsSound

\* What a run has at hand for its next step.
LEMMA RunAtHand ==
    ASSUME TxIInv, NEW r \in Runs
    PROVE  /\ run[r] \in RunRecords /\ accepted[r] \in Counts
           /\ RunSound(run[r]) /\ TokenGone(run[r], apiToken, orphans) /\ Unprocessed(run[r], accepted[r])
           /\ apiToken \in TokenStates /\ vault \subseteq Tokens /\ orphans \subseteq Tokens
  BY DEF TxIInv, TxTyped, RunsSound

\* The tokens of the API and of the vault may change: deleted ones stay so.
TokensKept ==
    /\ apiToken' \in TokenStates /\ \A t \in Tokens : apiToken[t] = "deleted" => apiToken'[t] = "deleted"
    /\ vault' \subseteq Tokens /\ orphans' \subseteq Tokens /\ orphans \subseteq orphans'

LEMMA OthersGone ==
    ASSUME TxIInv, TokensKept, NEW r \in Runs PROVE TokenGone(run[r], apiToken', orphans')
  <1>1. /\ run[r].own => run[r].token \in Tokens
        /\ TokenGone(run[r], apiToken, orphans)
    BY RunAtHand DEF RunSound
  <1> QED BY <1>1 DEF TokensKept, TokenGone

LEMMA RunBecomes ==
    ASSUME TxIInv, TokensKept, NEW r \in Runs, NEW x \in RunRecords, run' = [run EXCEPT ![r] = x],
           NEW counts \in Counts, accepted' = [accepted EXCEPT ![r] = counts],
           RunSound(x), TokenGone(x, apiToken', orphans'), Unprocessed(x, counts)
    PROVE  TxIInv'
  <1>1. /\ run \in [Runs -> RunRecords] /\ accepted \in [Runs -> Counts]
    BY DEF TxIInv, TxTyped
  <1>2. TxTyped'
    BY <1>1 DEF TxTyped, TokensKept
  <1>3. ASSUME NEW q \in Runs
        PROVE  RunSound(run'[q]) /\ TokenGone(run'[q], apiToken', orphans') /\ Unprocessed(run'[q], accepted'[q])
    <2>1. CASE q = r
      BY <1>1, <2>1
    <2>2. CASE q # r
      <3>1. run'[q] = run[q] /\ accepted'[q] = accepted[q]
        BY <1>1, <2>2
      <3> QED BY <3>1, OthersGone, RunAtHand
    <2> QED BY <2>1, <2>2
  <1>4. RunsSound'
    BY <1>3 DEF RunsSound, RunSound, TokenGone, Unprocessed
  <1> QED BY <1>2, <1>4 DEF TxIInv

LEMMA TokensUnchanged ==
    ASSUME TxIInv, UNCHANGED <<apiToken, vault, orphans>> PROVE TokensKept
  BY DEF TxIInv, TxTyped, TokensKept

\* A run moves on, and nothing of it is processed.
LEMMA RunGoesOn ==
    ASSUME TxIInv, TokensKept, NEW r \in Runs, NEW x \in RunRecords, run' = [run EXCEPT ![r] = x],
           UNCHANGED accepted, RunSound(x), TokenGone(x, apiToken', orphans'),
           \/ x.sent = run[r].sent /\ run[r].at \notin {"audit", "suspend", "delete", "over", "gone"}
           \/ x.at \in {"suspend", "delete", "over", "gone"}
    PROVE  TxIInv'
  <1>1. accepted[r] \in Counts /\ accepted' = [accepted EXCEPT ![r] = accepted[r]]
    BY DEF TxIInv, TxTyped
  <1>2. Unprocessed(run[r], accepted[r]) /\ run[r] \in RunRecords
    BY RunAtHand
  <1>3. \A b \in 1 .. Bodies : accepted[r][b] <= 1
    BY <1>2 DEF Unprocessed
  <1>4. CASE x.at \in {"suspend", "delete", "over", "gone"}
    BY <1>1, <1>3, <1>4, RunBecomes DEF Unprocessed
  <1>5. CASE x.at # "audit" /\ x.sent = run[r].sent /\ run[r].at \notin {"audit", "suspend", "delete", "over", "gone"}
    <2>1. \A b \in 1 .. Bodies : b > x.sent => accepted[r][b] = 0
      BY <1>2, <1>5 DEF Unprocessed, RunRecords, TxPlaces
    <2>2. Unprocessed(x, accepted[r])
      BY <1>3, <1>5, <2>1 DEF Unprocessed
    <2> QED BY <1>1, <2>2, RunBecomes
  <1>6. CASE x.at = "audit" /\ x.sent = run[r].sent /\ run[r].at \notin {"audit", "suspend", "delete", "over", "gone"}
    <2>1. \A b \in 1 .. Bodies : b > x.sent => accepted[r][b] = 0
      BY <1>2, <1>6 DEF Unprocessed, RunRecords, TxPlaces
    <2>2. x.sent \in Nat
      BY TransactionAssumption DEF RunRecords
    <2>3. \A b \in 1 .. Bodies : b > x.sent + 1 => accepted[r][b] = 0
      BY <2>1, <2>2
    <2>4. Unprocessed(x, accepted[r])
      BY <1>3, <1>6, <2>3 DEF Unprocessed
    <2> QED BY <1>1, <2>4, RunBecomes
  <1> QED BY <1>4, <1>5, <1>6

\* A run moves to a place where it keeps what it has.
LEMMA RunMovesOn ==
    ASSUME TxIInv, TokensKept, NEW r \in Runs, NEW place \in TxPlaces, RunMoves(r, place), UNCHANGED accepted,
           RunSound([run[r] EXCEPT !.at = place]),
           place = "over" => TokenGone([run[r] EXCEPT !.at = place], apiToken', orphans'),
           \/ run[r].at \notin {"audit", "suspend", "delete", "over", "gone"}
           \/ place \in {"suspend", "delete", "over", "gone"}
    PROVE  TxIInv'
  <1> DEFINE x == [run[r] EXCEPT !.at = place]
  <1>1. x \in RunRecords /\ x.at = place /\ x.sent = run[r].sent
    BY RunAtHand DEF RunRecords
  <1>2. run' = [run EXCEPT ![r] = x]
    BY DEF RunMoves
  <1>3. RunSound(x)
    OBVIOUS
  <1>4. TokenGone(x, apiToken', orphans')
    <2>1. CASE place = "over"
      BY <2>1
    <2>2. CASE place # "over"
      BY <1>1, <2>2 DEF TokenGone
    <2> QED BY <2>1, <2>2
  <1> HIDE DEF x
  <1> QED BY <1>1, <1>2, <1>3, <1>4, RunGoesOn

\* The fields of a run that moves.
LEMMA RunMoved ==
    ASSUME TxIInv, NEW r \in Runs, NEW place \in TxPlaces
    PROVE  LET x == [run[r] EXCEPT !.at = place] IN
               /\ x.at = place /\ x.kind = run[r].kind /\ x.token = run[r].token /\ x.sent = run[r].sent
               /\ x.own = run[r].own /\ x.unclean = run[r].unclean
  BY RunAtHand DEF RunRecords

-----------------------------------------------------------------------------
(* The choice of a token                                                     *)

LEMMA TxBeginsSound ==
    ASSUME TxIInv, NEW r \in Runs, TxBegins(r) \/ VaultRuns(r) \/ TokenRevoked(r) PROVE TxIInv'
  <1>1. /\ run[r].at = "idle" /\ UNCHANGED accepted
        /\ run[r] \in RunRecords /\ RunSound(run[r])
    BY RunAtHand DEF TxBegins, VaultRuns, TokenRevoked, RunAt
  <1>2. TokensKept
    BY TokensUnchanged DEF TxBegins, VaultRuns, TokenRevoked
  <1>3. ASSUME NEW k \in Kinds, NEW place \in {"confirm", "create"}, run' = [run EXCEPT ![r].kind = k, ![r].at = place]
        PROVE  TxIInv'
    <2> DEFINE x == [run[r] EXCEPT !.kind = k, !.at = place]
    <2>1. /\ x \in RunRecords /\ x.at = place /\ x.kind = k /\ x.token = run[r].token /\ x.sent = run[r].sent
          /\ x.own = run[r].own
      BY <1>1 DEF RunRecords, TxPlaces
    <2>2. run' = [run EXCEPT ![r] = x]
      BY <1>3
    <2> HIDE DEF x
    <2>3. RunSound(x) /\ TokenGone(x, apiToken', orphans')
      BY <1>1, <2>1 DEF RunSound, TokenGone, Unowned
    <2> QED BY <1>1, <1>2, <2>1, <2>2, <2>3, RunGoesOn
  <1>4. CASE TxBegins(r)
    BY <1>3, <1>4 DEF TxBegins, Kinds, Batches
  <1>5. CASE VaultRuns(r)
    BY <1>3, <1>5 DEF VaultRuns, Kinds
  <1>6. CASE TokenRevoked(r)
    <2>1. PICK t \in Tokens : run' = [run EXCEPT ![r].kind = "revoke", ![r].at = "suspend", ![r].token = t]
      BY <1>6 DEF TokenRevoked
    <2> DEFINE x == [run[r] EXCEPT !.kind = "revoke", !.at = "suspend", !.token = t]
    <2>2. x \in RunRecords /\ x.at = "suspend" /\ x.kind = "revoke" /\ x.token = t /\ x.own = run[r].own
      BY <1>1 DEF RunRecords, TxPlaces, Kinds
    <2>3. run' = [run EXCEPT ![r] = x]
      BY <2>1
    <2> HIDE DEF x
    <2>4. RunSound(x) /\ TokenGone(x, apiToken', orphans')
      BY <1>1, <2>2 DEF RunSound, TokenGone, Unowned
    <2> QED BY <1>1, <1>2, <2>2, <2>3, <2>4, RunGoesOn
  <1> QED BY <1>4, <1>5, <1>6

\* Before a token is made the run may be given up, or go on to one of these places.
LEMMA EarlyMove ==
    ASSUME TxIInv, NEW r \in Runs, run[r].at \in {"confirm", "select", "sendStored", "create"},
           NEW place \in {"over", "gone", "select", "create"}, RunMoves(r, place),
           TokensKept, UNCHANGED accepted
    PROVE  TxIInv'
  <1>1. place \in TxPlaces
    BY DEF TxPlaces
  <1>2. ~run[r].own /\ run[r].sent = 0
    BY RunAtHand DEF RunSound, Unowned
  <1>3. RunSound([run[r] EXCEPT !.at = place]) /\ TokenGone([run[r] EXCEPT !.at = place], apiToken', orphans')
    BY <1>1, <1>2, RunMoved DEF RunSound, TokenGone, Unowned
  <1> QED BY <1>1, <1>3, RunMovesOn

LEMMA TxConfirmedSound == ASSUME TxIInv, NEW r \in Runs, TxConfirmed(r) PROVE TxIInv'
  <1>1. run[r].at = "confirm" /\ UNCHANGED accepted /\ TokensKept
    BY TokensUnchanged DEF TxConfirmed, RunAt
  <1>2. \E place \in {"over", "select", "create"} : RunMoves(r, place)
    BY DEF TxConfirmed
  <1> QED BY <1>1, <1>2, EarlyMove

LEMMA TokenSelectedSound == ASSUME TxIInv, NEW r \in Runs, TokenSelected(r) PROVE TxIInv'
  <1>1. run[r].at = "select" /\ UNCHANGED accepted /\ TokensKept
    BY TokensUnchanged DEF TokenSelected, RunAt
  <1>2. CASE \E place \in {"over", "create"} : RunMoves(r, place)
    BY <1>1, <1>2, EarlyMove
  <1>3. CASE \E t \in vault : run' = [run EXCEPT ![r].token = t, ![r].at = "sendStored"]
    <2>1. PICK t \in vault : run' = [run EXCEPT ![r].token = t, ![r].at = "sendStored"]
      BY <1>3
    <2> DEFINE x == [run[r] EXCEPT !.token = t, !.at = "sendStored"]
    <2>2. run[r] \in RunRecords /\ RunSound(run[r]) /\ t \in Tokens
      BY <2>1, RunAtHand
    <2>3. x \in RunRecords /\ x.at = "sendStored" /\ x.token = t /\ x.own = run[r].own /\ x.sent = run[r].sent
      BY <2>2 DEF RunRecords, TxPlaces
    <2>4. run' = [run EXCEPT ![r] = x]
      BY <2>1
    <2> HIDE DEF x
    <2>5. x.sent = 0 /\ x.sent < Bodies /\ ~x.own
      BY <1>1, <2>2, <2>3, TransactionAssumption DEF RunSound, Unowned
    <2>6. RunSound(x) /\ TokenGone(x, apiToken', orphans')
      BY <2>2, <2>3, <2>5 DEF RunSound, TokenGone, Unowned
    <2> QED BY <1>1, <2>3, <2>4, <2>6, RunGoesOn
  <1> QED BY <1>2, <1>3 DEF TokenSelected

-----------------------------------------------------------------------------
(* What is sent                                                              *)

\* A transaction that was not processed yet is, and the run moves on.
LEMMA ProcessedMoves ==
    ASSUME TxIInv, NEW r \in Runs, run[r].at \in {"sendStored", "send"}, Processed(r), TokensKept,
           NEW place \in {"over", "suspend", "audit"}, RunMoves(r, place),
           place = "over" => run[r].at = "sendStored",
           place # "over" => run[r].at = "send"
    PROVE  TxIInv'
  <1> DEFINE x == [run[r] EXCEPT !.at = place]
             n == run[r].sent + 1
             counts == [accepted[r] EXCEPT ![n] = accepted[r][n] + 1]
  <1>1. run[r] \in RunRecords /\ RunSound(run[r]) /\ accepted[r] \in Counts /\ Unprocessed(run[r], accepted[r])
    BY RunAtHand
  <1>2. /\ place \in TxPlaces
        /\ x.at = place /\ x.kind = run[r].kind /\ x.token = run[r].token /\ x.sent = run[r].sent /\ x.own = run[r].own
    BY RunMoved DEF TxPlaces
  <1>3. x \in RunRecords
    BY <1>1, <1>2 DEF RunRecords
  <1>4. run[r].sent \in Nat /\ run[r].sent < Bodies /\ n \in 1 .. Bodies /\ n > run[r].sent
    <2>1. run[r].sent \in 0 .. Bodies /\ Bodies \in Nat \ {0}
      BY <1>1, TransactionAssumption DEF RunRecords
    <2>2. run[r].sent < Bodies
      <3>1. CASE run[r].at = "send"
        BY <1>1, <3>1 DEF RunSound
      <3>2. CASE run[r].at = "sendStored"
        BY <1>1, <2>1, <3>2 DEF RunSound
      <3> QED BY <3>1, <3>2
    <2> QED BY <2>1, <2>2
  <1>5. run' = [run EXCEPT ![r] = x] /\ accepted' = [accepted EXCEPT ![r] = counts]
    BY DEF RunMoves, Processed
  <1>6. /\ \A b \in 1 .. Bodies : accepted[r][b] \in Nat /\ accepted[r][b] <= 1
        /\ \A b \in 1 .. Bodies : b > run[r].sent => accepted[r][b] = 0
    BY <1>1 DEF Unprocessed, Counts
  <1>7. /\ counts \in Counts
        /\ counts[n] = 1 /\ \A b \in 1 .. Bodies : b # n => counts[b] = accepted[r][b]
    <2>1. accepted[r][n] = 0
      BY <1>4, <1>6
    <2>2. counts = [accepted[r] EXCEPT ![n] = 1]
      BY <2>1
    <2>3. n \in 1 .. Bodies
      BY <1>4
    <2> HIDE DEF n, counts
    <2> QED BY <1>1, <2>2, <2>3 DEF Counts
  <1>8. RunSound(x)
    <2>1. run[r].token \in Tokens
      BY <1>1 DEF RunSound
    <2>2. x.at = "audit" => x.sent < Bodies
      BY <1>2, <1>4
    <2>3. x.at \in {"over", "suspend", "audit"}
      BY <1>2
    <2> HIDE DEF x
    <2> QED BY <1>2, <2>1, <2>2, <2>3 DEF RunSound, Unowned
  <1>9. TokenGone(x, apiToken', orphans')
    <2>1. run[r].at = "sendStored" => ~run[r].own
      BY <1>1 DEF RunSound, Unowned
    <2>2. x.at = "over" => ~x.own
      BY <1>2, <2>1
    <2> HIDE DEF x
    <2> QED BY <2>2 DEF TokenGone
  <1> HIDE DEF x, counts
  <1>10. \A b \in 1 .. Bodies : counts[b] <= 1
    BY <1>6, <1>7
  <1>11. \A b \in 1 .. Bodies : b > run[r].sent + 1 => counts[b] = 0
    BY <1>4, <1>6, <1>7
  <1>12. Unprocessed(x, counts)
    BY <1>2, <1>10, <1>11 DEF Unprocessed
  <1> QED BY <1>3, <1>5, <1>7, <1>8, <1>9, <1>12, RunBecomes

LEMMA SentStoredSound == ASSUME TxIInv, NEW r \in Runs, SentStored(r) PROVE TxIInv'
  <1>1. run[r].at = "sendStored" /\ TokensKept
    BY TokensUnchanged DEF SentStored, RunAt
  <1>2. CASE Processed(r) /\ RunMoves(r, "over")
    BY <1>1, <1>2, ProcessedMoves
  <1>3. CASE UNCHANGED accepted /\ RunMoves(r, "over")
    BY <1>1, <1>3, EarlyMove
  <1>4. CASE UNCHANGED accepted /\ run' = [run EXCEPT ![r].at = "create", ![r].token = NoToken]
    <2> DEFINE x == [run[r] EXCEPT !.at = "create", !.token = NoToken]
    <2>1. run[r] \in RunRecords /\ RunSound(run[r])
      BY RunAtHand
    <2>2. x \in RunRecords /\ x.at = "create" /\ x.own = run[r].own /\ x.sent = run[r].sent
      BY <2>1 DEF RunRecords, TxPlaces
    <2>3. run' = [run EXCEPT ![r] = x]
      BY <1>4
    <2> HIDE DEF x
    <2>4. RunSound(x) /\ TokenGone(x, apiToken', orphans')
      BY <1>1, <2>1, <2>2 DEF RunSound, TokenGone, Unowned
    <2> QED BY <1>1, <1>4, <2>2, <2>3, <2>4, RunGoesOn
  <1> QED BY <1>2, <1>3, <1>4 DEF SentStored, Unanswered

LEMMA SentSound == ASSUME TxIInv, NEW r \in Runs, Sent(r) PROVE TxIInv'
  <1>1. run[r].at = "send" /\ TokensKept
    BY TokensUnchanged DEF Sent, RunAt
  <1>2. ASSUME NEW place \in {"suspend", "audit"}, Processed(r), RunMoves(r, place) PROVE TxIInv'
    BY <1>1, <1>2, ProcessedMoves
  <1>3. ASSUME NEW place \in {"suspend", "audit"}, UNCHANGED accepted, RunMoves(r, place) PROVE TxIInv'
    <2>1. place \in TxPlaces /\ RunSound(run[r])
      BY RunAtHand DEF TxPlaces
    <2>2. RunSound([run[r] EXCEPT !.at = place])
      BY <1>1, <2>1, RunMoved DEF RunSound, Unowned
    <2> QED BY <1>1, <1>3, <2>1, <2>2, RunMovesOn
  <1> QED BY <1>2, <1>3 DEF Sent, Unanswered

LEMMA SendAuditedSound == ASSUME TxIInv, NEW r \in Runs, SendAudited(r) PROVE TxIInv'
  <1> DEFINE place == IF run[r].sent + 1 < Total(r) THEN "send" ELSE "suspend"
             x == [run[r] EXCEPT !.sent = run[r].sent + 1, !.at = place]
  <1>1. /\ run[r].at = "audit" /\ TokensKept /\ UNCHANGED accepted
        /\ run[r] \in RunRecords /\ RunSound(run[r]) /\ accepted[r] \in Counts /\ Unprocessed(run[r], accepted[r])
    BY TokensUnchanged, RunAtHand DEF SendAudited, RunAt
  <1>2. run' = [run EXCEPT ![r] = x]
    BY DEF SendAudited
  <1>3. run[r].sent \in Nat /\ run[r].sent + 1 \in 0 .. Bodies /\ Total(r) \in Nat /\ Total(r) <= Bodies
    <2>1. run[r].sent \in 0 .. Bodies /\ Bodies \in Nat \ {0} /\ run[r].sent < Bodies
      BY <1>1, TransactionAssumption DEF RunRecords, RunSound
    <2> QED BY <2>1 DEF Total
  <1>4. place \in {"send", "suspend"} /\ (place = "send" => run[r].sent + 1 < Bodies)
    <2>1. CASE run[r].sent + 1 < Total(r)
      <3>1. run[r].sent + 1 < Bodies
        BY <1>3, <2>1, TransactionAssumption
      <3> QED BY <2>1, <3>1
    <2>2. CASE ~(run[r].sent + 1 < Total(r))
      BY <2>2
    <2> QED BY <2>1, <2>2
  <1> HIDE DEF place
  <1>5. /\ x \in RunRecords /\ x.at = place /\ x.token = run[r].token /\ x.sent = run[r].sent + 1
        /\ x.own = run[r].own
    BY <1>1, <1>3, <1>4 DEF RunRecords, TxPlaces
  <1> HIDE DEF x
  <1>6. RunSound(x) /\ TokenGone(x, apiToken', orphans')
    BY <1>1, <1>4, <1>5 DEF RunSound, TokenGone, Unowned
  <1>7. accepted' = [accepted EXCEPT ![r] = accepted[r]]
    BY <1>1 DEF TxIInv, TxTyped
  <1>8. Unprocessed(x, accepted[r])
    BY <1>1, <1>4, <1>5 DEF Unprocessed
  <1> QED BY <1>1, <1>2, <1>5, <1>6, <1>7, <1>8, RunBecomes

-----------------------------------------------------------------------------
(* The API tokens                                                            *)

LEMMA TokenCreatedSound == ASSUME TxIInv, NEW r \in Runs, TokenCreated(r) PROVE TxIInv'
  <1>1. /\ run[r].at = "create" /\ UNCHANGED <<vault, accepted>>
        /\ run[r] \in RunRecords /\ RunSound(run[r]) /\ ~run[r].own /\ run[r].sent = 0
        /\ apiToken \in TokenStates /\ vault \subseteq Tokens /\ orphans \subseteq Tokens
    BY RunAtHand DEF TokenCreated, RunAt, RunSound, Unowned
  <1>2. PICK made \in {NoToken} \cup {t \in Tokens : apiToken[t] = "none" /\
                                        \A u \in Tokens : u < t => apiToken[u] # "none"} :
            /\ apiToken' = IF made = NoToken THEN apiToken ELSE [apiToken EXCEPT ![made] = "active"]
            /\ \/ /\ made # NoToken
                  /\ run' = [run EXCEPT ![r].token = made, ![r].own = TRUE,
                                        ![r].at = IF run[r].kind \in {"vaultCreate", "vaultRun"}
                                                  THEN "rename" ELSE "send"]
                  /\ UNCHANGED orphans
               \/ /\ orphans' = orphans \cup ({made} \ {NoToken})
                  /\ \/ RunMoves(r, "over")
                     \/ /\ run[r].attempts + 1 < MaxAttempts
                        /\ run' = [run EXCEPT ![r].attempts = @ + 1]
    BY DEF TokenCreated
  <1>3. made # NoToken => made \in Tokens /\ apiToken[made] = "none"
    BY <1>2
  <1>4. apiToken' \in TokenStates /\ \A t \in Tokens : apiToken[t] = "deleted" => apiToken'[t] = "deleted"
    BY <1>1, <1>2, <1>3 DEF TokenStates
  <1>5. TokensKept
    BY <1>1, <1>2, <1>3, <1>4 DEF TokensKept
  <1>6. CASE /\ made # NoToken
             /\ run' = [run EXCEPT ![r].token = made, ![r].own = TRUE,
                                   ![r].at = IF run[r].kind \in {"vaultCreate", "vaultRun"} THEN "rename" ELSE "send"]
    <2> DEFINE place == IF run[r].kind \in {"vaultCreate", "vaultRun"} THEN "rename" ELSE "send"
               x == [run[r] EXCEPT !.token = made, !.own = TRUE, !.at = place]
    <2>1. place \in {"rename", "send"}
      OBVIOUS
    <2>2. run' = [run EXCEPT ![r] = x]
      BY <1>6
    <2> HIDE DEF place
    <2>3. x \in RunRecords /\ x.at = place /\ x.token = made /\ x.own = TRUE /\ x.sent = run[r].sent
      BY <1>1, <1>3, <1>6, <2>1 DEF RunRecords, TxPlaces
    <2> HIDE DEF x
    <2>4. x.sent = 0 /\ x.sent < Bodies
      BY <1>1, <2>3, TransactionAssumption
    <2>5. RunSound(x) /\ TokenGone(x, apiToken', orphans')
      BY <1>3, <1>6, <2>1, <2>3, <2>4 DEF RunSound, TokenGone, Unowned
    <2> QED BY <1>1, <1>5, <2>2, <2>3, <2>5, RunGoesOn
  <1>7. CASE RunMoves(r, "over")
    BY <1>1, <1>5, <1>7, EarlyMove
  <1>8. CASE run[r].attempts + 1 < MaxAttempts /\ run' = [run EXCEPT ![r].attempts = @ + 1]
    <2> DEFINE x == [run[r] EXCEPT !.attempts = run[r].attempts + 1]
    <2>1. run[r].attempts + 1 \in 0 .. MaxAttempts - 1
      BY <1>1, <1>8, TransactionAssumption DEF RunRecords
    <2>2. x \in RunRecords /\ x.at = "create" /\ x.own = run[r].own /\ x.sent = run[r].sent
      BY <1>1, <2>1 DEF RunRecords
    <2>3. run' = [run EXCEPT ![r] = x]
      BY <1>8
    <2> HIDE DEF x
    <2>4. RunSound(x) /\ TokenGone(x, apiToken', orphans')
      BY <1>1, <2>2 DEF RunSound, TokenGone, Unowned
    <2> QED BY <1>1, <1>5, <2>2, <2>3, <2>4, RunGoesOn
  <1> QED BY <1>2, <1>6, <1>7, <1>8

LEMMA TokenRenamedSound == ASSUME TxIInv, NEW r \in Runs, TokenRenamed(r) PROVE TxIInv'
  <1>1. /\ run[r].at = "rename" /\ UNCHANGED <<apiToken, vault, accepted>>
        /\ run[r] \in RunRecords /\ RunSound(run[r]) /\ run[r].token \in Tokens /\ run[r].sent = 0
        /\ apiToken \in TokenStates /\ vault \subseteq Tokens /\ orphans \subseteq Tokens
    BY RunAtHand DEF TokenRenamed, RunAt, RunSound
  <1>2. orphans' = orphans \/ orphans' = orphans \cup {run[r].token}
    BY DEF TokenRenamed
  <1>3. TokensKept
    BY <1>1, <1>2 DEF TokensKept
  <1>4. CASE RunMoves(r, "over") /\ orphans' = orphans \cup {run[r].token}
    <2>1. "over" \in TxPlaces
      BY DEF TxPlaces
    <2>2. RunSound([run[r] EXCEPT !.at = "over"]) /\ TokenGone([run[r] EXCEPT !.at = "over"], apiToken', orphans')
      BY <1>1, <1>4, <2>1, RunMoved DEF RunSound, TokenGone, Unowned
    <2> QED BY <1>1, <1>3, <1>4, <2>1, <2>2, RunMovesOn
  <1>5. CASE RunMoves(r, "store") /\ run[r].kind = "vaultCreate"
    <2>1. "store" \in TxPlaces
      BY DEF TxPlaces
    <2>2. RunSound([run[r] EXCEPT !.at = "store"])
      BY <1>1, <1>5, <2>1, RunMoved DEF RunSound, Unowned
    <2> QED BY <1>1, <1>3, <1>5, <2>1, <2>2, RunMovesOn
  <1>6. CASE RunMoves(r, "send")
    <2>1. "send" \in TxPlaces /\ 0 < Bodies
      BY TransactionAssumption DEF TxPlaces
    <2>2. RunSound([run[r] EXCEPT !.at = "send"])
      BY <1>1, <2>1, RunMoved DEF RunSound, Unowned
    <2> QED BY <1>1, <1>3, <1>6, <2>1, <2>2, RunMovesOn
  <1> QED BY <1>4, <1>5, <1>6 DEF TokenRenamed

LEMMA TokenStoredSound == ASSUME TxIInv, NEW r \in Runs, TokenStored(r) PROVE TxIInv'
  <1>1. /\ run[r].at = "store" /\ UNCHANGED <<apiToken, accepted>> /\ RunMoves(r, "over")
        /\ run[r] \in RunRecords /\ RunSound(run[r]) /\ run[r].token \in Tokens /\ run[r].kind = "vaultCreate"
        /\ apiToken \in TokenStates /\ vault \subseteq Tokens /\ orphans \subseteq Tokens
    BY RunAtHand DEF TokenStored, RunAt, RunSound
  <1>2. TokensKept
    BY <1>1 DEF TokensKept, TokenStored
  <1>3. "over" \in TxPlaces
    BY DEF TxPlaces
  <1>4. RunSound([run[r] EXCEPT !.at = "over"]) /\ TokenGone([run[r] EXCEPT !.at = "over"], apiToken', orphans')
    BY <1>1, <1>3, RunMoved DEF RunSound, TokenGone, Unowned
  <1> QED BY <1>1, <1>2, <1>3, <1>4, RunMovesOn

LEMMA RowDeletedSound == ASSUME TxIInv, RowDeleted PROVE TxIInv'
  BY DEF RowDeleted, TxIInv, TxTyped, RunsSound, RunSound, TokenGone, Unprocessed

LEMMA RemoteSound == ASSUME TxIInv, NEW r \in Runs, RemoteTokenAction(r) PROVE TxIInv'
  <1>1. /\ run[r].at = "idle" /\ UNCHANGED <<vault, accepted, orphans>>
        /\ run[r] \in RunRecords /\ RunSound(run[r]) /\ ~run[r].own
        /\ apiToken \in TokenStates /\ vault \subseteq Tokens /\ orphans \subseteq Tokens
    BY RunAtHand DEF RemoteTokenAction, RunAt, RunSound, Unowned
  <1>2. PICK t \in Tokens, state \in {"active", "suspended", "deleted"} :
            apiToken[t] \notin {"none", "deleted", state} /\ apiToken' = [apiToken EXCEPT ![t] = state]
    BY DEF RemoteTokenAction
  <1>3. TokensKept
    BY <1>1, <1>2 DEF TokensKept, TokenStates
  <1> DEFINE x == [run[r] EXCEPT !.kind = "remote", !.at = "over"]
  <1>4. x \in RunRecords /\ x.at = "over" /\ x.own = run[r].own
    BY <1>1 DEF RunRecords, TxPlaces, Kinds
  <1>5. run' = [run EXCEPT ![r] = x]
    BY DEF RemoteTokenAction
  <1> HIDE DEF x
  <1>6. RunSound(x) /\ TokenGone(x, apiToken', orphans')
    BY <1>1, <1>4 DEF RunSound, TokenGone, Unowned
  <1> QED BY <1>1, <1>3, <1>4, <1>5, <1>6, RunGoesOn

\* The cleanup: a step of it that the API did not carry out is told.
LEMMA CleanupMoves ==
    ASSUME TxIInv, TokensKept, UNCHANGED accepted, NEW r \in Runs, run[r].at \in {"suspend", "delete"},
           NEW place \in {"delete", "over"}, NEW unclean \in BOOLEAN,
           run' = [run EXCEPT ![r] = [run[r] EXCEPT !.unclean = unclean, !.at = place]],
           place = "over" => unclean \/ apiToken'[run[r].token] = "deleted"
    PROVE  TxIInv'
  <1> DEFINE x == [run[r] EXCEPT !.unclean = unclean, !.at = place]
  <1>1. run[r] \in RunRecords /\ RunSound(run[r])
    BY RunAtHand
  <1>2. /\ x \in RunRecords /\ x.at = place /\ x.own = run[r].own /\ x.token = run[r].token /\ x.kind = run[r].kind
        /\ x.sent = run[r].sent /\ x.unclean = unclean
    BY <1>1 DEF RunRecords, TxPlaces
  <1>3. run' = [run EXCEPT ![r] = x]
    OBVIOUS
  <1> HIDE DEF x
  <1>4. RunSound(x) /\ TokenGone(x, apiToken', orphans')
    BY <1>1, <1>2 DEF RunSound, TokenGone, Unowned
  <1>5. x.at \in {"suspend", "delete", "over", "gone"}
    BY <1>2
  <1> QED BY <1>2, <1>3, <1>4, <1>5, RunGoesOn

LEMMA TokenSuspendedSound == ASSUME TxIInv, NEW r \in Runs, TokenSuspended(r) PROVE TxIInv'
  <1>1. /\ run[r].at = "suspend" /\ UNCHANGED <<vault, accepted, orphans>>
        /\ run[r] \in RunRecords /\ RunSound(run[r]) /\ run[r].token \in Tokens /\ run[r].unclean \in BOOLEAN
        /\ apiToken \in TokenStates /\ vault \subseteq Tokens /\ orphans \subseteq Tokens
    BY RunAtHand DEF TokenSuspended, RunAt, RunSound, RunRecords
  <1>2. CASE /\ apiToken' = [apiToken EXCEPT ![run[r].token] = IF @ = "deleted" THEN @ ELSE "suspended"]
             /\ RunMoves(r, "delete")
    <2>1. TokensKept
      BY <1>1, <1>2 DEF TokensKept, TokenStates
    <2>2. run' = [run EXCEPT ![r] = [run[r] EXCEPT !.unclean = run[r].unclean, !.at = "delete"]]
      BY <1>1, <1>2 DEF RunMoves, RunRecords
    <2> QED BY <1>1, <2>1, <2>2, CleanupMoves
  <1>3. CASE /\ apiToken' = apiToken
             /\ \E next \in {"delete", "over"} : run' = [run EXCEPT ![r].unclean = TRUE, ![r].at = next]
    <2>1. TokensKept
      BY <1>1, <1>3 DEF TokensKept
    <2>2. PICK next \in {"delete", "over"} : run' = [run EXCEPT ![r].unclean = TRUE, ![r].at = next]
      BY <1>3
    <2>3. run' = [run EXCEPT ![r] = [run[r] EXCEPT !.unclean = TRUE, !.at = next]]
      BY <2>2
    <2> QED BY <1>1, <2>1, <2>3, CleanupMoves
  <1> QED BY <1>2, <1>3 DEF TokenSuspended

LEMMA TokenDeletedSound == ASSUME TxIInv, NEW r \in Runs, TokenDeleted(r) PROVE TxIInv'
  <1>1. /\ run[r].at = "delete" /\ UNCHANGED <<vault, accepted, orphans>>
        /\ run[r] \in RunRecords /\ RunSound(run[r]) /\ run[r].token \in Tokens /\ run[r].unclean \in BOOLEAN
        /\ apiToken \in TokenStates /\ vault \subseteq Tokens /\ orphans \subseteq Tokens
    BY RunAtHand DEF TokenDeleted, RunAt, RunSound, RunRecords
  <1>2. CASE apiToken' = [apiToken EXCEPT ![run[r].token] = "deleted"] /\ RunMoves(r, "over")
    <2>1. TokensKept /\ apiToken'[run[r].token] = "deleted"
      BY <1>1, <1>2 DEF TokensKept, TokenStates
    <2>2. run' = [run EXCEPT ![r] = [run[r] EXCEPT !.unclean = run[r].unclean, !.at = "over"]]
      BY <1>1, <1>2 DEF RunMoves, RunRecords
    <2> QED BY <1>1, <2>1, <2>2, CleanupMoves
  <1>3. CASE apiToken' = apiToken /\ run' = [run EXCEPT ![r].at = "over", ![r].unclean = TRUE]
    <2>1. TokensKept
      BY <1>1, <1>3 DEF TokensKept
    <2>2. run' = [run EXCEPT ![r] = [run[r] EXCEPT !.unclean = TRUE, !.at = "over"]]
      BY <1>1, <1>3 DEF RunRecords
    <2> QED BY <1>1, <2>1, <2>2, CleanupMoves
  <1> QED BY <1>2, <1>3 DEF TokenDeleted

LEMMA TxCutOffSound == ASSUME TxIInv, NEW r \in Runs, TxCutOff(r) PROVE TxIInv'
  <1> DEFINE x == [NewRun EXCEPT !.kind = run[r].kind, !.at = "gone"]
  <1>1. UNCHANGED accepted /\ TokensKept /\ run' = [run EXCEPT ![r] = x] /\ run[r] \in RunRecords
    BY TokensUnchanged, RunAtHand DEF TxCutOff
  <1>2. x \in RunRecords /\ x.at = "gone" /\ ~x.own
    <2>1. 0 \in 0 .. MaxAttempts - 1 /\ 0 \in 0 .. Bodies
      BY TransactionAssumption
    <2> QED BY <1>1, <2>1 DEF NewRun, RunRecords, TxPlaces, NoToken
  <1> HIDE DEF x
  <1>3. RunSound(x) /\ TokenGone(x, apiToken', orphans')
    BY <1>2 DEF RunSound, TokenGone, Unowned
  <1> QED BY <1>1, <1>2, <1>3, RunGoesOn

-----------------------------------------------------------------------------

LEMMA TxStaysSound == ASSUME TxIInv, [TxNext]_txVars PROVE TxIInv'
  <1>1. ASSUME NEW r \in Runs, TxStep(r) PROVE TxIInv'
    BY <1>1, TokenSelectedSound, SentStoredSound, SentSound, SendAuditedSound, TokenCreatedSound,
       TokenRenamedSound, TokenStoredSound, TokenSuspendedSound, TokenDeletedSound DEF TxStep
  <1>2. CASE UNCHANGED txVars
    BY <1>2 DEF txVars, TxIInv, TxTyped, RunsSound, RunSound, TokenGone, Unprocessed
  <1> QED BY <1>1, <1>2, TxBeginsSound, TxConfirmedSound, RemoteSound, TxCutOffSound, RowDeletedSound DEF TxNext

\* Whatever number of test transactions and of actions on their tokens run at once,
\* however answers are lost: no run leaves its token behind unless the API did not
\* delete it, and none is charged twice (send-test-transaction.ts).  A token becomes
\* a run's own only with the answer to its creation, and what a run sends next has
\* not been processed before.
THEOREM TestsLeaveNothing == TxSpec => []LeavesNothingBehind
  <1>1. TxIInv => LeavesNothingBehind
    <2>1. TxIInv => TemporaryTokenDeleted
      BY DEF TxIInv, RunsSound, TokenGone, TemporaryTokenDeleted, RunAt
    <2>2. TxIInv => ProcessedOnce
      BY DEF TxIInv, RunsSound, Unprocessed, ProcessedOnce
    <2> QED BY <2>1, <2>2 DEF LeavesNothingBehind
  <1> QED BY <1>1, TxInitSound, TxStaysSound, PTL DEF TxSpec

-----------------------------------------------------------------------------
(* Type correctness of the other parts                                      *)

\* The log, its copies and its ghosts are logs and sets of entries.
THEOREM AuditIsTyped == AuditSpec => []AuditTypeOK
  <1>1. AuditIInv => AuditTypeOK
    BY DEF AuditIInv
  <1> QED BY <1>1, AuditIInvInit, AuditIInvNext, PTL DEF AuditSpec

\* A run stays below its attempts and its batch, at a place of the code.
THEOREM TestsAreTyped == TxSpec => []TxTypeOK
  <1>1. TxIInv => TxTypeOK
    BY DEF TxIInv, TxTyped, RunRecords, TokenStates, Counts, TxPlaces, TxTypeOK
  <1> QED BY <1>1, TxInitSound, TxStaysSound, PTL DEF TxSpec
=============================================================================
