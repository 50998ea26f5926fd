----------------------------- MODULE Credentials -----------------------------
(***************************************************************************)
(* The secrets of the extension: src/src/lib/storage.ts, llm-storage.ts    *)
(* and gateway/gateway-storage.ts, with the side panels that use them      *)
(* (App.tsx, PinEntryPage.tsx, ConnectionsPage.tsx, useCredentialStore).   *)
(* Each secret is encrypted with the PIN given when it was saved and kept  *)
(* in chrome.storage.local; the decrypted copy is in storage.session,      *)
(* which a restart of the browser empties.  A panel does one operation at  *)
(* a time, one storage request after the other; every window has a panel.  *)
(***************************************************************************)
EXTENDS Naturals, Sequences, FiniteSets

CONSTANTS
    Panels,
    Pins,
    NoPin,      \* nothing is stored
    MaxEdits    \* bound on the user's operations

ASSUME CredentialAssumption == NoPin \notin Pins /\ MaxEdits \in Nat

Envs    == {"uat", "prod"}
NoEnv   == "none"
\* The order of unlockWithPin; all but the last two must decrypt.
Order   == <<"uat", "prod", "tokens", "llm", "gateway">>
Secrets == {Order[i] : i \in DOMAIN Order}
Strict  == {"uat", "prod", "tokens"}

VARIABLES
    blob,       \* per secret, the PIN its stored ciphertext needs
    session,    \* the secrets that are decrypted in this session
    active,     \* the active environment, in local and in session storage
    view,       \* per panel: "closed", the PIN entry or the "main" pages
    op,         \* per panel: the operation it is in
    edits,
    opened,     \* history: the session began with nothing to unlock, or was unlocked
    clicked,    \* history: the environment the user chose last
    met,        \* history: per panel, the environments its operation shares with another's
    tangled,    \* history: environments that such an operation, or one cut off, was the
                \* last to change
    astray      \* history: a removal met another operation or was cut off, and the user
                \* has chosen no environment since

credVars    == <<blob, session, active, view, op, edits, opened, clicked, met, tangled, astray>>
meetingVars == <<met, tangled, astray>>
historyVars == <<opened, clicked, meetingVars>>

Rest == [does |-> "rest", on |-> {}, pin |-> NoPin, left |-> <<>>, any |-> FALSE,
         read |-> [s \in Secrets |-> NoPin], next |-> NoEnv]

Stored(s)            == blob[s] # NoPin
hasStoredCredentials == \E s \in Secrets \ {"gateway"} : Stored(s)
isSessionUnlocked    == session \cap Envs # {}

\* checkState: what the App shows.
checkState == IF hasStoredCredentials /\ ~isSessionUnlocked THEN "gate" ELSE "main"

\* getActiveEnv, with what it stores.
Fallback(envs) == IF "uat" \in envs THEN "uat" ELSE IF "prod" \in envs THEN "prod" ELSE NoEnv
getActiveEnv ==
    IF active.session # NoEnv THEN active
    ELSE IF active.local \in session THEN [active EXCEPT !.session = active.local]
    ELSE IF Fallback(session) # NoEnv
         THEN [local |-> Fallback(session), session |-> Fallback(session)]
    ELSE active

\* The browser starts, with whatever earlier sessions have saved.
CredInit ==
    /\ blob \in [Secrets -> Pins \cup {NoPin}]
    /\ session = {}
    /\ active \in [local : {s \in Envs : Stored(s)} \cup (IF \E s \in Envs : Stored(s) THEN {} ELSE {NoEnv}),
                   session : {NoEnv}]
    /\ view = [p \in Panels |-> "closed"]
    /\ op = [p \in Panels |-> Rest]
    /\ edits = 0
    /\ opened = ~hasStoredCredentials /\ clicked = active.local
    /\ met = [p \in Panels |-> {}] /\ tangled = {} /\ astray = FALSE

-----------------------------------------------------------------------------
Busy(p)       == op[p].does # "rest"
Becomes(p, o) == op' = [op EXCEPT ![p] = o]
OpGoes(p, step) == op' = [op EXCEPT ![p].does = step]
OpEnds(p)       == op' = [op EXCEPT ![p] = Rest]

\* The environments whose ciphertext and opened copy an operation still works on.
Touches(o) ==
    IF o.does \in {"read", "decrypt", "unlocked"} THEN Envs
    ELSE IF o.does \in {"store", "cache", "remove", "evict"} THEN o.on \cap Envs ELSE {}

\* It removes an environment, and may replace the active one.
Forgets(o) ==
    \/ o.does \in {"remove", "evict"} /\ o.on \cap Envs # {}
    \/ o.does \in {"remaining", "replace"}

\* The user starts an operation, in the middle of other panels' or not.
Starts(p, o) ==
    /\ ~Busy(p) /\ edits < MaxEdits
    /\ edits' = edits + 1
    /\ Becomes(p, o)
    /\ met' = [q \in Panels |->
                 IF q = p THEN {e \in Touches(o) : \E w \in Panels \ {p} : e \in Touches(op[w])}
                 ELSE met[q] \cup (Touches(o) \cap Touches(op[q]))]
    /\ astray' = (astray \/ \E q \in Panels \ {p} : Busy(q) /\ (Forgets(o) \/ Forgets(op[q])))
    /\ UNCHANGED <<blob, session, active, view, opened, clicked, tangled>>

\* An operation is done with its environments: one that was alone leaves them in order.
Settles(p) ==
    /\ tangled' = (tangled \ op[p].on) \cup met[p]
    /\ met' = [met EXCEPT ![p] = {}]
    /\ UNCHANGED astray

\* saveCredentials, saveTransactionToken and deleteTransactionToken,
\* saveLlmProviderSettings, saveGatewayToken.
SaveStarts(p) ==
    /\ view[p] = "main"
    /\ \E s \in Secrets, pin \in Pins :
          Starts(p, [Rest EXCEPT !.does = IF s = "tokens" THEN "load" ELSE "store",
                                 !.on = {s}, !.pin = pin])

\* loadTransactionTokensForWrite: the rows are decrypted first, if there are any.
TokensLoaded(p) ==
    /\ op[p].does = "load"
    /\ IF blob["tokens"] \in {NoPin, op[p].pin} THEN OpGoes(p, "store") ELSE OpEnds(p)
    /\ UNCHANGED <<blob, session, active, view, edits, historyVars>>

BlobStored(p) ==
    /\ op[p].does = "store"
    /\ blob' = [s \in Secrets |-> IF s \in op[p].on THEN op[p].pin ELSE blob[s]]
    /\ OpGoes(p, "cache")
    /\ UNCHANGED <<session, active, view, edits, historyVars>>

\* handleSave of the credential form goes on to setActiveEnv.
SessionStored(p) ==
    /\ op[p].does = "cache"
    /\ session' = session \cup op[p].on
    /\ IF op[p].on \subseteq Envs THEN OpGoes(p, "choose") ELSE OpEnds(p)
    /\ Settles(p)
    /\ UNCHANGED <<blob, active, view, edits, opened, clicked>>

\* setActiveEnv, after a save or for a click on an environment.
EnvClicked(p) ==
    /\ view[p] = "main"
    /\ \E env \in Envs : Starts(p, [Rest EXCEPT !.does = "choose", !.on = {env}])

setActiveEnv(p) ==
    /\ op[p].does = "choose"
    /\ \E env \in op[p].on :
          /\ active' = [local |-> env, session |-> env]
          /\ clicked' = env
    /\ OpGoes(p, "check")
    /\ astray' = (astray /\ \E q \in Panels : Forgets(op[q]))
    /\ UNCHANGED <<blob, session, view, edits, opened, met, tangled>>

\* onChanged and onUnlocked call checkState.
StateChecked(p) ==
    /\ op[p].does = "check"
    /\ view' = [view EXCEPT ![p] = checkState]
    /\ active' = getActiveEnv
    /\ OpEnds(p)
    /\ UNCHANGED <<blob, session, edits, historyVars>>

-----------------------------------------------------------------------------
(* unlockWithPin.                                                          *)

UnlockStarts(p) ==
    /\ view[p] = "gate"
    /\ \E pin \in Pins : Starts(p, [Rest EXCEPT !.does = "read", !.pin = pin, !.left = Order])

\* Both environments' ciphertexts are read at once, every other one in turn.
BlobRead(p) ==
    /\ op[p].does = "read"
    /\ LET next == Head(op[p].left)
           read == IF next = "uat" THEN Envs ELSE {next}
       IN  Becomes(p, [op[p] EXCEPT !.does = "decrypt",
                           !.read = [s \in Secrets |-> IF s \in read THEN blob[s] ELSE @[s]]])
    /\ UNCHANGED <<blob, session, active, view, edits, historyVars>>

\* What comes after each secret.
StepAfter(s) == CASE s = "uat" -> "decrypt" [] s = "gateway" -> "unlocked" [] OTHER -> "read"
Proceed(p, any) == Becomes(p, [op[p] EXCEPT !.left = Tail(@), !.does = StepAfter(Head(op[p].left)), !.any = any])

\* A key of the chat that does not decrypt is removed, a gateway token is locked.
\* Done for every secret it is a mutant of Failed.
PassedOver(p, s) ==
    /\ session' = session \ {s}
    /\ blob' = IF s = "llm" THEN [blob EXCEPT ![s] = NoPin] ELSE blob
    /\ Proceed(p, op[p].any)
    /\ UNCHANGED meetingVars

\* "Incorrect PIN": what was decrypted so far stays in the session.
Failed(p, s) ==
    IF s \in Strict THEN OpEnds(p) /\ Settles(p) /\ UNCHANGED <<blob, session>>
    ELSE PassedOver(p, s)

\* The next secret is decrypted and put into the session.
Decrypted(p) ==
    /\ op[p].does = "decrypt"
    /\ LET s     == Head(op[p].left)
           saved == op[p].read[s] # NoPin
       IN  IF saved /\ op[p].read[s] # op[p].pin
           THEN Failed(p, s)
           ELSE /\ session' = IF saved THEN session \cup {s} ELSE session
                /\ Proceed(p, op[p].any \/ (saved /\ s \in Strict))
                /\ UNCHANGED <<blob, meetingVars>>
    /\ UNCHANGED <<active, view, edits, opened, clicked>>

\* The end: with nothing decrypted but a key or a gateway token, "Incorrect PIN".
Unlocked(p) ==
    /\ op[p].does = "unlocked"
    /\ IF op[p].any
       THEN active' = getActiveEnv /\ opened' = TRUE /\ OpGoes(p, "check")
       ELSE UNCHANGED <<active, opened>> /\ OpEnds(p)
    /\ Settles(p)
    /\ UNCHANGED <<blob, session, view, edits, clicked>>

-----------------------------------------------------------------------------
(* forgetCredentials, of one environment or (Reset PIN) of both;           *)
(* forgetLlmProviderSettings and forgetGatewayToken.                       *)

ForgetStarts(p) ==
    \/ /\ view[p] = "main"
       /\ \E s \in Secrets \ {"tokens"} : Starts(p, [Rest EXCEPT !.does = "remove", !.on = {s}])
    \/ view[p] = "gate" /\ Starts(p, [Rest EXCEPT !.does = "remove", !.on = Envs])

BlobRemoved(p) ==
    /\ op[p].does = "remove"
    /\ blob' = [s \in Secrets |-> IF s \in op[p].on THEN NoPin ELSE blob[s]]
    /\ OpGoes(p, "evict")
    /\ UNCHANGED <<session, active, view, edits, historyVars>>

SessionRemoved(p) ==
    /\ op[p].does = "evict"
    /\ session' = session \ op[p].on
    /\ IF op[p].on \subseteq Envs THEN OpGoes(p, "remaining") ELSE OpEnds(p)
    /\ Settles(p)
    /\ UNCHANGED <<blob, active, view, edits, opened, clicked>>

\* Mutant of Successor: the first environment, stored or not.
AnyOther(p) == Fallback(Envs \ op[p].on)

Successor(p) == Fallback({env \in Envs \ op[p].on : Stored(env)})

\* If the active environment was forgotten, another one that is stored by now
\* takes its place, ...
RemainingRead(p) ==
    /\ op[p].does = "remaining"
    /\ IF active.local \in op[p].on
       THEN Becomes(p, [op[p] EXCEPT !.does = "replace", !.next = Successor(p)])
       ELSE OpGoes(p, "check")
    /\ clicked' = IF clicked \in op[p].on THEN NoEnv ELSE clicked
    /\ UNCHANGED <<blob, session, active, view, edits, opened, meetingVars>>

\* ... in a request of its own.
ActiveReplaced(p) ==
    /\ op[p].does = "replace"
    /\ active' = [local |-> op[p].next, session |-> op[p].next]
    /\ OpGoes(p, "check")
    /\ UNCHANGED <<blob, session, view, edits, historyVars>>

-----------------------------------------------------------------------------
PanelOpens(p) ==
    /\ view[p] = "closed"
    /\ view' = [view EXCEPT ![p] = checkState]
    /\ active' = getActiveEnv
    /\ UNCHANGED <<blob, session, op, edits, historyVars>>

PanelCloses(p) ==
    /\ view[p] # "closed"
    /\ view' = [view EXCEPT ![p] = "closed"]
    /\ tangled' = tangled \cup met[p]
                 \cup (IF op[p].does \in {"cache", "evict"} THEN op[p].on \cap Envs ELSE {})
    /\ met' = [met EXCEPT ![p] = {}]
    /\ astray' = (astray \/ Forgets(op[p]))
    /\ OpEnds(p)
    /\ UNCHANGED <<blob, session, active, edits, opened, clicked>>

BrowserRestarts ==
    /\ edits < MaxEdits /\ edits' = edits + 1
    /\ session' = {}
    /\ active' = [active EXCEPT !.session = NoEnv]
    /\ view' = [p \in Panels |-> "closed"]
    /\ op' = [p \in Panels |-> Rest]
    /\ opened' = ~hasStoredCredentials
    /\ met' = [p \in Panels |-> {}] /\ tangled' = {} /\ astray' = FALSE
    /\ UNCHANGED <<blob, clicked>>

OpStep(p) ==
    \/ TokensLoaded(p) \/ BlobStored(p) \/ SessionStored(p) \/ setActiveEnv(p) \/ StateChecked(p)
    \/ BlobRead(p) \/ Decrypted(p) \/ Unlocked(p)
    \/ BlobRemoved(p) \/ SessionRemoved(p) \/ RemainingRead(p) \/ ActiveReplaced(p)

CredNext ==
    \/ \E p \in Panels : \/ SaveStarts(p) \/ EnvClicked(p) \/ UnlockStarts(p) \/ ForgetStarts(p)
                         \/ OpStep(p) \/ PanelOpens(p) \/ PanelCloses(p)
    \/ BrowserRestarts

CredSpec == CredInit /\ [][CredNext]_credVars

-----------------------------------------------------------------------------
CredTypeOK ==
    /\ blob \in [Secrets -> Pins \cup {NoPin}]
    /\ session \subseteq Secrets
    /\ active.local \in Envs \cup {NoEnv} /\ active.session \in {active.local, NoEnv}
    /\ view \in [Panels -> {"closed", "gate", "main"}]
    /\ \A p \in Panels :
          /\ op[p].does \in {"rest", "load", "store", "cache", "choose", "check", "read", "decrypt",
                             "unlocked", "remove", "evict", "remaining", "replace"}
          /\ op[p].on \subseteq Secrets /\ op[p].pin \in Pins \cup {NoPin} /\ op[p].any \in BOOLEAN
          /\ op[p].read \in [Secrets -> Pins \cup {NoPin}] /\ op[p].next \in Envs \cup {NoEnv}
    /\ edits \in 0 .. MaxEdits
    /\ opened \in BOOLEAN /\ clicked \in Envs \cup {NoEnv}
    /\ met \in [Panels -> SUBSET Envs] /\ tangled \subseteq Envs /\ astray \in BOOLEAN

\* No operation works on the environment, and the last one that did was alone
\* with it from its beginning to its end.
Clear(e) == e \notin tangled /\ \A p \in Panels : e \notin Touches(op[p])

\* Once a session is unlocked, the API credentials in it are those stored: none
\* is left locked by a PIN that opened another one, none outlives its removal.
\* Operations on the other environment, by whatever panels and at whatever
\* moments, do no harm, and the next lone save or removal, or a restart of the
\* browser, puts right what two operations on one environment made of it.
OpenedIsWhole == opened => \A e \in Envs : Clear(e) => (Stored(e) <=> e \in session)

\* The active environment is one the user chose and did not remove, or one with
\* stored credentials: unless a removal that met another operation has had the
\* last word on it.
ActiveIsStored ==
    /\ active.session # NoEnv /\ Clear(active.session)
    /\ ~astray /\ \A p \in Panels : ~Forgets(op[p])
    => Stored(active.session) \/ clicked = active.session

\* Panels that save, remove and unlock at the same time leave the opened copies
\* and the active environment in keeping with what is stored.
SessionMatchesVault == OpenedIsWhole /\ ActiveIsStored

\* "Remove all credentials for an environment (both encrypted and session)"
\* (storage.ts:256): when nobody works on it any more, none is opened that is
\* not stored.  A save by another panel, with its two requests around the
\* removal, leaves the opened copy behind.
RemovedIsGone ==
    \A e \in session \cap Envs : (\A p \in Panels : e \notin Touches(op[p])) => Stored(e)

\* "This will erase all saved credentials" (PinEntryPage.tsx:80), so that a user
\* who does not know the PIN gets in again.  Transaction tokens and the key of
\* the chat survive, and with them the PIN entry.
ResetOpensGate ==
    [][\A p \in Panels : op[p].on = Envs /\ op[p].does = "check" /\ op'[p].does = "rest" /\ tangled = {}
          => view'[p] # "gate"]_credVars
=============================================================================
