--------------------------- MODULE TestTransaction ---------------------------
(***************************************************************************)
(* Test transactions and the API tokens they are sent with:                *)
(* src/src/tools/send-test-transaction.ts (the tools), the token vault of  *)
(* sidepanel/views/ConnectionsPage.tsx and lib/transaction-client.ts.  An  *)
(* API token lives at the Web API; a run learns of it only from the answer *)
(* of its creation, which apiRequest repeats when it gets none.            *)
(***************************************************************************)
EXTENDS Naturals, FiniteSets

CONSTANTS
    Runs,       \* calls of the tools and of the vault's handlers
    Bodies,     \* transactions of a batch
    MaxTokens,  \* bound on the tokens created at the Web API
    MaxAttempts \* MAX_RETRIES + 1

ASSUME TransactionAssumption ==
    MaxTokens \in Nat /\ MaxAttempts \in Nat \ {0} /\ Bodies \in Nat \ {0}

VARIABLES
    apiToken,   \* per token: "none" yet, "active", "suspended" or "deleted" at the API
    vault,      \* the tokens whose bearer value is stored
    run,        \* per run: kind, place, attempts of the creation, token it knows, ...
    accepted,   \* history: per run and body, the times the gateway processed it
    orphans     \* history: tokens whose creation was not answered in full

txVars == <<apiToken, vault, run, accepted, orphans>>

Tokens  == 1 .. MaxTokens
NoToken == 0
Batches == {"temporary", "batch"}
Kinds   == Batches \cup {"stored", "auto", "vaultCreate", "vaultRun", "revoke", "remote"}

NewRun == [kind |-> "none", at |-> "idle", attempts |-> 0, token |-> NoToken, sent |-> 0,
           own |-> FALSE, unclean |-> FALSE]

TxInit ==
    /\ apiToken = [t \in Tokens |-> "none"]
    /\ vault = {}
    /\ run = [r \in Runs |-> NewRun]
    /\ accepted = [r \in Runs |-> [b \in 1 .. Bodies |-> 0]]
    /\ orphans = {}

RunAt(r, place)   == run[r].at = place
RunMoves(r, place) == run' = [run EXCEPT ![r].at = place]
Total(r)       == IF run[r].kind = "batch" THEN Bodies ELSE 1

-----------------------------------------------------------------------------
(* The confirmation and the choice of a token.                             *)

\* The tools ask first (unless confirmed before), and are for UAT only.
TxBegins(r) ==
    /\ RunAt(r, "idle")
    /\ \E k \in Batches \cup {"stored", "auto"} :
          run' = [run EXCEPT ![r].kind = k, ![r].at = "confirm"]
    /\ UNCHANGED <<apiToken, vault, accepted, orphans>>

\* The vault's buttons do not ask: a token is made to be kept or to be used once, ...
VaultRuns(r) ==
    /\ RunAt(r, "idle")
    /\ \E k \in {"vaultCreate", "vaultRun"} :
          run' = [run EXCEPT ![r].kind = k, ![r].at = "create"]
    /\ UNCHANGED <<apiToken, vault, accepted, orphans>>

\* ... or revoked and deleted.
TokenRevoked(r) ==
    /\ RunAt(r, "idle")
    /\ \E t \in Tokens :
          /\ apiToken[t] \in {"active", "suspended"}
          /\ run' = [run EXCEPT ![r].kind = "revoke", ![r].at = "suspend", ![r].token = t]
    /\ UNCHANGED <<apiToken, vault, accepted, orphans>>

TxConfirmed(r) ==
    /\ RunAt(r, "confirm")
    /\ \/ RunMoves(r, "over")
       \/ RunMoves(r, IF run[r].kind \in {"stored", "auto"} THEN "select" ELSE "create")
    /\ UNCHANGED <<apiToken, vault, accepted, orphans>>

\* selectStoredTransactionToken: a row of the vault, whatever has become of its
\* token; several rows that match are an error.  Mode auto goes on without one
\* if it knows the merchant.
TokenSelected(r) ==
    /\ RunAt(r, "select")
    /\ \/ \E t \in vault : run' = [run EXCEPT ![r].token = t, ![r].at = "sendStored"]
       \/ RunMoves(r, "over")
       \/ run[r].kind = "auto" /\ RunMoves(r, "create")
    /\ UNCHANGED <<apiToken, vault, accepted, orphans>>

-----------------------------------------------------------------------------
(* sendExampleTransaction: one fetch, never repeated.                      *)

\* Mutants of Unanswered: the transaction is repeated like other API requests;
\* the token is cleaned up after a success only.
Repeats(r, place)       == UNCHANGED run
EndsUncleaned(r, place) == RunMoves(r, "over")

\* No answer: the run fails, and cleans up if it made a token.
Unanswered(r, place) ==
    RunMoves(r, IF place = "sendStored" THEN "over" ELSE "suspend")

Processed(r) == accepted' = [accepted EXCEPT ![r][run[r].sent + 1] = @ + 1]

\* The gateway refuses a token that is not active; mode auto then makes one, if
\* it knows the merchant.
SentStored(r) ==
    /\ RunAt(r, "sendStored")
    /\ \/ apiToken[run[r].token] = "active" /\ Processed(r) /\ RunMoves(r, "over")
       \/ apiToken[run[r].token] = "active" /\ Processed(r) /\ Unanswered(r, "sendStored")
       \/ UNCHANGED accepted /\ Unanswered(r, "sendStored")
       \/ /\ apiToken[run[r].token] # "active"
          /\ \/ RunMoves(r, "over")
             \/ run[r].kind = "auto" /\ run' = [run EXCEPT ![r].at = "create", ![r].token = NoToken]
          /\ UNCHANGED accepted
    /\ UNCHANGED <<apiToken, vault, orphans>>

\* ... with the temporary token, for each body in turn.
Sent(r) ==
    /\ RunAt(r, "send")
    /\ \/ (IF apiToken[run[r].token] = "active" THEN Processed(r) ELSE UNCHANGED accepted)
          /\ RunMoves(r, "audit")
       \/ apiToken[run[r].token] = "active" /\ Processed(r) /\ Unanswered(r, "send")
       \/ UNCHANGED accepted /\ Unanswered(r, "send")
    /\ UNCHANGED <<apiToken, vault, orphans>>

\* auditTransactionSend, and the pause between two bodies; the vault's run has
\* neither.
SendAudited(r) ==
    /\ RunAt(r, "audit")
    /\ run' = [run EXCEPT ![r].sent = @ + 1,
                          ![r].at = IF run[r].sent + 1 < Total(r) THEN "send" ELSE "suspend"]
    /\ UNCHANGED <<apiToken, vault, accepted, orphans>>

-----------------------------------------------------------------------------
(* The API tokens.                                                         *)

\* The POST reaches the Web API or not, and is answered, repeated or given up.
\* An answer without a bearer token fails the run although a token was made.
TokenCreated(r) ==
    /\ RunAt(r, "create")
    /\ \E made \in {NoToken} \cup {t \in Tokens : apiToken[t] = "none" /\
                                       \A u \in Tokens : u < t => apiToken[u] # "none"} :
          /\ apiToken' = IF made = NoToken THEN apiToken ELSE [apiToken EXCEPT ![made] = "active"]
          /\ \/ /\ made # NoToken
                /\ run' = [run EXCEPT ![r].token = made, ![r].own = TRUE,
                                      ![r].at = IF run[r].kind \in {"vaultCreate", "vaultRun"}
                                                THEN "rename" ELSE "send"]
                /\ UNCHANGED orphans
             \/ /\ orphans' = orphans \cup ({made} \ {NoToken})
                /\ \/ RunMoves(r, "over")
                   \/ /\ run[r].attempts + 1 < MaxAttempts
                      /\ run' = [run EXCEPT ![r].attempts = @ + 1]
    /\ UNCHANGED <<vault, accepted>>

\* createApiToken of the vault gives the token its alias; an error it is told
\* of is ignored, a request without an answer ends the handler.
TokenRenamed(r) ==
    /\ RunAt(r, "rename")
    /\ \/ RunMoves(r, IF run[r].kind = "vaultCreate" THEN "store" ELSE "send") /\ UNCHANGED orphans
       \/ RunMoves(r, "over") /\ orphans' = orphans \cup {run[r].token}
    /\ UNCHANGED <<apiToken, vault, accepted>>

\* saveTransactionToken; with a PIN that is not the vault's the bearer value of
\* the new token is gone.
TokenStored(r) ==
    /\ RunAt(r, "store")
    /\ \/ vault' = vault \cup {run[r].token} /\ UNCHANGED orphans
       \/ orphans' = orphans \cup {run[r].token} /\ UNCHANGED vault
    /\ RunMoves(r, "over")
    /\ UNCHANGED <<apiToken, accepted>>

\* The vault's row is deleted; the API's token is not.
RowDeleted ==
    /\ \E t \in vault : vault' = vault \ {t}
    /\ UNCHANGED <<apiToken, run, accepted, orphans>>

\* The vault's other buttons: a token is suspended, activated or deleted.
RemoteTokenAction(r) ==
    /\ RunAt(r, "idle")
    /\ \E t \in Tokens, state \in {"active", "suspended", "deleted"} :
          /\ apiToken[t] \notin {"none", "deleted", state}
          /\ apiToken' = [apiToken EXCEPT ![t] = state]
    /\ run' = [run EXCEPT ![r].kind = "remote", ![r].at = "over"]
    /\ UNCHANGED <<vault, accepted, orphans>>

\* finally: suspended, ...
TokenSuspended(r) ==
    /\ RunAt(r, "suspend")
    /\ \/ /\ apiToken' = [apiToken EXCEPT ![run[r].token] = IF @ = "deleted" THEN @ ELSE "suspended"]
          /\ RunMoves(r, "delete")
       \/ /\ apiToken' = apiToken
          /\ \E next \in {"delete"} \cup (IF run[r].kind = "revoke" THEN {"over"} ELSE {}) :
                run' = [run EXCEPT ![r].unclean = TRUE, ![r].at = next]
    /\ UNCHANGED <<vault, accepted, orphans>>

\* ... and deleted, whether it was suspended or not.  A deletion that fails is
\* in cleanup.errors of the answer.
TokenDeleted(r) ==
    /\ RunAt(r, "delete")
    /\ \/ apiToken' = [apiToken EXCEPT ![run[r].token] = "deleted"] /\ RunMoves(r, "over")
       \/ /\ apiToken' = apiToken
          /\ run' = [run EXCEPT ![r].at = "over", ![r].unclean = TRUE]
    /\ UNCHANGED <<vault, accepted, orphans>>

\* The panel is closed, or the worker stopped: what the run knew is gone with it.
TxCutOff(r) ==
    /\ run[r].at \notin {"idle", "over", "gone"}
    /\ run' = [run EXCEPT ![r] = [NewRun EXCEPT !.kind = run[r].kind, !.at = "gone"]]
    /\ UNCHANGED <<apiToken, vault, accepted, orphans>>

TxStep(r) ==
    \/ TokenSelected(r) \/ SentStored(r) \/ Sent(r) \/ SendAudited(r)
    \/ TokenCreated(r) \/ TokenRenamed(r) \/ TokenStored(r) \/ TokenSuspended(r) \/ TokenDeleted(r)

TxNext ==
    \/ \E r \in Runs : TxBegins(r) \/ VaultRuns(r) \/ TokenRevoked(r) \/ TxConfirmed(r)
                     \/ RemoteTokenAction(r) \/ TxStep(r) \/ TxCutOff(r)
    \/ RowDeleted

TxSpec == TxInit /\ [][TxNext]_txVars

-----------------------------------------------------------------------------
TxTypeOK ==
    /\ apiToken \in [Tokens -> {"none", "active", "suspended", "deleted"}]
    /\ vault \subseteq Tokens /\ orphans \subseteq Tokens
    /\ \A r \in Runs :
          /\ run[r].kind \in Kinds \cup {"none"}
          /\ run[r].at \in {"idle", "confirm", "select", "sendStored", "create", "rename", "store",
                            "send", "audit", "suspend", "delete", "over", "gone"}
          /\ run[r].attempts \in 0 .. MaxAttempts - 1 /\ run[r].token \in Tokens \cup {NoToken}
          /\ run[r].sent \in 0 .. Bodies /\ run[r].own \in BOOLEAN /\ run[r].unclean \in BOOLEAN
    /\ accepted \in [Runs -> [1 .. Bodies -> Nat]]

\* However a run ends, with a transaction that failed, a batch broken off or
\* another run that was faster with the deletion, the token it was given is
\* deleted at the API by then, unless the API did not carry that out.
TemporaryTokenDeleted ==
    \A r \in Runs :
        /\ RunAt(r, "over") /\ run[r].own /\ run[r].kind # "vaultCreate"
        /\ run[r].token \notin orphans
        => apiToken[run[r].token] = "deleted" \/ run[r].unclean

\* The gateway processes a transaction at most once, however many tokens are
\* tried and however many answers are lost.
ProcessedOnce == \A r \in Runs, b \in 1 .. Bodies : accepted[r][b] <= 1

\* Neither a token nor a second charge is left by a run of test transactions.
LeavesNothingBehind == TemporaryTokenDeleted /\ ProcessedOnce

\* "... create a temporary Merchant token, send the transaction to a Channel,
\* then suspend and delete the token before returning" (README.md:501): a
\* creation that is repeated for want of an answer leaves a token behind.
NoTokenLeft ==
    (\A r \in Runs : run[r].at \in {"idle", "over"} /\ run[r].kind \in Batches \cup {"none"}
                     /\ ~run[r].unclean)
        => \A t \in Tokens : apiToken[t] \in {"none", "deleted"}
=============================================================================
