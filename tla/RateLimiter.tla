----------------------------- MODULE RateLimiter -----------------------------
(***************************************************************************)
(* The token bucket of src/src/lib/rate-limiter.ts.  Time is counted in    *)
(* ticks, a token is refilled in Unit ticks, and the balance is kept in    *)
(* ticks: maxTokens is Capacity * Unit and a tick refills 1.               *)
(***************************************************************************)
EXTENDS Integers, FiniteSets

CONSTANTS
    Requests,   \* the callers of acquire()
    Capacity,   \* requestsPerSecond
    Unit        \* ticks in which one token is refilled

ASSUME LimiterAssumption ==
    /\ IsFiniteSet(Requests)
    /\ Capacity \in Nat \ {0}
    /\ Unit \in Nat \ {0}

VARIABLES
    tokens,     \* balance at the last refill; waiters may overdraw it
    idle,       \* ticks since lastRefill, as far as they matter
    timer       \* ticks left of each caller's setTimeout, or Off

limiterVars == <<tokens, idle, timer>>

Full == Capacity * Unit
Off  == -1

LimiterInit ==
    /\ tokens = Full
    /\ idle = 0
    /\ timer = [r \in Requests |-> Off]

\* refill(): what tokens becomes now.
Balance == IF tokens + idle < Full THEN tokens + idle ELSE Full
Refill  == tokens' = Balance /\ idle' = 0
Consume == tokens' = Balance - Unit /\ idle' = 0

\* acquire() with a token at hand returns at once, ...
HasToken  == Balance >= Unit
TakeToken == HasToken /\ Consume /\ UNCHANGED timer

\* Mutant of WaitMs: the wait for one token, without the overdraft.
WaitOneToken == Unit

\* ... and otherwise sleeps until its own token is due.  The balance stays as
\* it is: the next caller computes its wait from the same one.
WaitMs == Unit - Balance

Sleep(r) ==
    /\ ~HasToken
    /\ timer' = [timer EXCEPT ![r] = WaitMs]
    /\ Refill

\* The timer has fired: the token is taken without looking at the balance.
WakeUp(r) ==
    /\ timer[r] = 0
    /\ timer' = [timer EXCEPT ![r] = Off]
    /\ Consume

\* The signal is aborted: the timer is cleared and no token is taken.
ClearTimer(r) == timer' = [timer EXCEPT ![r] = Off] /\ UNCHANGED <<tokens, idle>>

\* A timer may fire late, so time goes on past it.
Tick ==
    /\ Balance < Full \/ \E r \in Requests : timer[r] > 0
    /\ idle' = IF Balance < Full THEN idle + 1 ELSE idle
    /\ timer' = [r \in Requests |-> IF timer[r] > 0 THEN timer[r] - 1 ELSE timer[r]]
    /\ UNCHANGED tokens

LimiterTypeOK ==
    /\ tokens \in Int /\ tokens <= Full
    /\ idle \in Nat
    /\ timer \in [Requests -> Nat \cup {Off}]

\* However the callers' waits overlap, the balance is overdrawn by at most one
\* token for each caller but one: waiters share one balance, but a caller that
\* looks after an overdraft waits it off.
DebtBounded == tokens >= Unit - Cardinality(Requests) * Unit
=============================================================================
