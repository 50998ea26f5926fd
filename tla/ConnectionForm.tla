---------------------------- MODULE ConnectionForm ----------------------------
(***************************************************************************)
(* The Connections page of a side panel (ConnectionsPage.tsx) and the      *)
(* connection check of its Home page (HomePage.tsx, useConnectionStatus):  *)
(* the environment buttons, the credential form and the token vault below, *)
(* each hydrated when the environment changes and each with an operation   *)
(* under way that goes on whatever is selected meanwhile.  Other windows   *)
(* have the page as well, and choose, save and remove on theirs.  How      *)
(* secrets are encrypted and unlocked is Credentials; here the session is  *)
(* unlocked.                                                               *)
(***************************************************************************)
EXTENDS Naturals

CONSTANTS
    MaxSteps    \* bound on what the user does

ASSUME FormAssumption == MaxSteps \in Nat

FormEnvs == {"uat", "prod"}
OtherThan(e) == IF e = "uat" THEN "prod" ELSE "uat"

VARIABLES
    saved,      \* per environment: for which one the stored credentials were typed
    chosen,     \* the active environment of storage
    shownPage,  \* "home", "connections", and how far its first reading is
    selected,   \* the button that is lit
    flags,      \* the environments marked as saved
    form,       \* the credential form, see Empty
    formOp,     \* its operation: save, delete or test
    shownVault, \* the token vault: whose rows and whose list of the API it shows
    vaultOp,    \* its operation
    home,       \* the check of the Home page
    steps,
    early,      \* history: an operation began before this page had read what it is about
    moved,      \* history: environments saved or removed elsewhere since the page was opened
    misplaced     \* history: what was last set for another environment than the lit one,
                \* see Puts

beyondVars == <<early, moved, misplaced>>
formVars   == <<saved, chosen, shownPage, selected, flags, form, formOp, shownVault, vaultOp, home, steps, beyondVars>>

\* The fields of the form, the rows and the list of the vault; the active environment,
\* by this page or by another window; an environment's credentials, typed too early.
Facets == {"form", "rows", "list", "active", "window", "typed"}
Actives == {"active", "window"}

\* of: for which environment the fields are; stored: whose credentials savedCreds
\* holds; tested: which environment's credentials testResult is about; typed: the
\* password and the PIN are given; hydrating: the effect has not set the fields yet.
Empty(e) == [of |-> e, stored |-> "none", tested |-> "none", typed |-> FALSE, hydrating |-> TRUE]
NoVault == [rows |-> "none", listed |-> "none", hydrating |-> TRUE]
NoOp == [does |-> "rest", on |-> "uat", of |-> "uat"]
NoCheck == [step |-> "away", on |-> "none"]

Saved(e) == saved[e] # "none"

FormInit ==
    /\ saved \in [FormEnvs -> FormEnvs \cup {"none"}] /\ \A e \in FormEnvs : saved[e] \in {e, "none"}
    /\ chosen = IF Saved("uat") THEN "uat" ELSE IF Saved("prod") THEN "prod" ELSE "none"
    /\ shownPage = "home" /\ home = [NoCheck EXCEPT !.step = "opening"]
    /\ selected = "uat" /\ flags = {}
    /\ form = Empty("uat") /\ formOp = NoOp /\ shownVault = NoVault /\ vaultOp = NoOp
    /\ steps = 0 /\ early = FALSE /\ moved = {} /\ misplaced = {}

-----------------------------------------------------------------------------
(* Pages.                                                                  *)

UserActs == steps < MaxSteps /\ steps' = steps + 1
UnderWay == formOp # NoOp \/ vaultOp # NoOp

\* getActiveEnv: the first stored environment, if none is active.
ActiveNow ==
    IF chosen # "none" THEN chosen
    ELSE IF Saved("uat") THEN "uat" ELSE IF Saved("prod") THEN "prod" ELSE "none"

\* A facet is set for an environment; it is misplaced as long as another one is lit.
Puts(facet, e) == misplaced' = IF e = selected THEN misplaced \ {facet} ELSE misplaced \cup {facet}

\* The page starts from nothing.
ConnectionsOpened ==
    /\ shownPage = "home" /\ UserActs
    /\ shownPage' = "opening" /\ home' = NoCheck
    /\ selected' = "uat" /\ flags' = {}
    /\ form' = Empty("uat") /\ shownVault' = NoVault
    /\ early' = FALSE /\ moved' = {} /\ misplaced' = misplaced \cap {"typed"}
    /\ UNCHANGED <<saved, chosen, formOp, vaultOp>>

SelectsKeepingList(e) ==
    /\ selected' = e
    /\ IF e = selected THEN UNCHANGED <<form, shownVault>>
       ELSE /\ form' = [form EXCEPT !.hydrating = TRUE]
            /\ shownVault' = [shownVault EXCEPT !.hydrating = TRUE]

\* Another environment is selected: both effects run again, and what the former
\* ones have not set yet is dropped.
Selects(e) ==
    /\ selected' = e
    /\ IF e = selected THEN UNCHANGED <<form, shownVault>>
       ELSE /\ form' = [form EXCEPT !.hydrating = TRUE]
            /\ shownVault' = NoVault

\* The first effect of the page: the two getCredentials, then getActiveEnv.
ConnectionsLoaded ==
    /\ shownPage = "opening" /\ shownPage' = "connections"
    /\ flags' = {e \in FormEnvs : Saved(e)}
    /\ Selects(IF ActiveNow = "none" THEN selected ELSE ActiveNow)
    /\ chosen' = ActiveNow
    /\ misplaced' = misplaced \ (Actives \cup IF selected' = selected THEN {} ELSE {"list"})
    /\ UNCHANGED <<saved, formOp, vaultOp, home, steps, early, moved>>

ButtonClicked(e) ==
    /\ shownPage # "home" /\ UserActs
    /\ Selects(e) /\ chosen' = e
    /\ early' = (early \/ shownPage = "opening")
    /\ misplaced' = misplaced \ (Actives \cup IF e = selected THEN {} ELSE {"list"})
    /\ UNCHANGED <<saved, shownPage, flags, formOp, vaultOp, home, moved>>

FormHydrated ==
    /\ shownPage # "home" /\ form.hydrating
    /\ form' = [of |-> selected, stored |-> IF Saved(selected) THEN selected ELSE "none",
                tested |-> "none", typed |-> FALSE, hydrating |-> FALSE]
    /\ Puts("form", selected)
    /\ UNCHANGED <<saved, chosen, shownPage, selected, flags, formOp, shownVault, vaultOp, home, steps, early, moved>>

VaultHydrated ==
    /\ shownPage # "home" /\ shownVault.hydrating
    /\ shownVault' = [shownVault EXCEPT !.rows = selected, !.hydrating = FALSE]
    /\ Puts("rows", selected)
    /\ UNCHANGED <<saved, chosen, shownPage, selected, flags, form, formOp, vaultOp, home, steps, early, moved>>

-----------------------------------------------------------------------------
(* The credential form.  busy disables its buttons.                        *)

\* The user fills the form for the environment whose button is lit.
FormTyped ==
    /\ shownPage # "home" /\ ~form.typed
    /\ form' = [form EXCEPT !.typed = TRUE, !.of = selected]
    /\ UserActs
    /\ UNCHANGED <<saved, chosen, shownPage, selected, flags, formOp, shownVault, vaultOp, home, beyondVars>>

FormBegins(does) ==
    /\ shownPage # "home" /\ formOp = NoOp /\ UserActs
    /\ formOp' = [does |-> does, on |-> selected, of |-> form.of]
    /\ early' = (early \/ shownPage = "opening" \/ form.hydrating)
    /\ UNCHANGED <<moved, misplaced>>

SavePressed ==
    /\ form.typed /\ FormBegins("saving")
    /\ UNCHANGED <<saved, chosen, shownPage, selected, flags, form, shownVault, vaultOp, home>>

CredentialsSaved ==
    /\ formOp.does = "saving" /\ formOp' = [formOp EXCEPT !.does = "activating"]
    /\ saved' = [saved EXCEPT ![formOp.on] = formOp.of]
    /\ form' = [form EXCEPT !.stored = formOp.on]
    /\ moved' = moved \ {formOp.on}
    /\ misplaced' = misplaced \cup (IF formOp.on = selected THEN {} ELSE {"form"})
                          \cup (IF early THEN {"typed"} ELSE {})
    /\ UNCHANGED <<chosen, shownPage, selected, flags, shownVault, vaultOp, home, steps, early>>

EnvActivated ==
    /\ formOp.does = "activating" /\ formOp' = NoOp
    /\ chosen' = formOp.on
    /\ form' = [form EXCEPT !.typed = FALSE]
    /\ flags' = flags \cup {formOp.on}
    /\ misplaced' = IF formOp.on = selected THEN misplaced \ Actives ELSE misplaced \cup {"active"}
    /\ UNCHANGED <<saved, shownPage, selected, shownVault, vaultOp, home, steps, early, moved>>

\* Encryption or storage fails.
SaveFailed ==
    /\ formOp.does = "saving" /\ formOp' = NoOp
    /\ UNCHANGED <<saved, chosen, shownPage, selected, flags, form, shownVault, vaultOp, home, steps, beyondVars>>

DeletePressed ==
    /\ selected \in flags /\ FormBegins("deleting")
    /\ UNCHANGED <<saved, chosen, shownPage, selected, flags, form, shownVault, vaultOp, home>>

\* forgetCredentials chooses the other environment, if it has credentials.
Forgotten(e) ==
    /\ saved' = [saved EXCEPT ![e] = "none"]
    /\ chosen' = IF chosen # e THEN chosen ELSE IF Saved(OtherThan(e)) THEN OtherThan(e) ELSE "none"

CredentialsDeleted ==
    LET e == formOp.on IN
    /\ formOp.does = "deleting" /\ formOp' = NoOp
    /\ Forgotten(e)
    /\ form' = [Empty(e) EXCEPT !.hydrating = form.hydrating]
    /\ flags' = flags \ {e} /\ moved' = moved \ {e}
    /\ misplaced' = misplaced \cup (IF e = selected THEN {} ELSE {"form"})
    /\ UNCHANGED <<shownPage, selected, shownVault, vaultOp, home, steps, early>>

\* Fields that are empty are taken from savedCreds.
TestPressed ==
    /\ form.typed \/ form.stored # "none"
    /\ FormBegins("testing")
    /\ form' = [form EXCEPT !.tested = "none"]
    /\ UNCHANGED <<saved, chosen, shownPage, selected, flags, shownVault, vaultOp, home>>

TestAnswered ==
    /\ formOp.does = "testing" /\ formOp' = NoOp
    /\ form' = [form EXCEPT !.tested = formOp.of]
    /\ misplaced' = misplaced \cup (IF formOp.of = selected THEN {} ELSE {"form"})
    /\ UNCHANGED <<saved, chosen, shownPage, selected, flags, shownVault, vaultOp, home, steps, early, moved>>

-----------------------------------------------------------------------------
(* The token vault.                                                        *)

VaultPressed(does) ==
    /\ shownPage # "home" /\ vaultOp = NoOp /\ UserActs
    /\ vaultOp' = [NoOp EXCEPT !.does = does, !.on = selected]
    /\ UNCHANGED <<saved, chosen, shownPage, selected, flags, form, formOp, shownVault, home, beyondVars>>

\* A row was saved or deleted, then refresh(); or the list of the API was read; or
\* the operation failed before.
VaultDone(ok) ==
    /\ vaultOp # NoOp /\ vaultOp' = NoOp
    /\ IF ~ok THEN UNCHANGED <<shownVault, misplaced>>
       ELSE IF vaultOp.does = "listing"
       THEN shownVault' = [shownVault EXCEPT !.listed = vaultOp.on] /\ Puts("list", vaultOp.on)
       ELSE shownVault' = [shownVault EXCEPT !.rows = vaultOp.on] /\ Puts("rows", vaultOp.on)
    /\ UNCHANGED <<saved, chosen, shownPage, selected, flags, form, formOp, home, steps, early, moved>>

-----------------------------------------------------------------------------
(* The Home page: useCredentialStore reads once, then one probe runs.      *)

\* What the Connections page left under way goes on, and shows nothing any more: it
\* is as if another window had begun it.
HomeOpened ==
    /\ shownPage # "home" /\ UserActs
    /\ shownPage' = "home" /\ home' = [NoCheck EXCEPT !.step = "opening"]
    /\ formOp' = NoOp /\ vaultOp' = NoOp
    /\ UNCHANGED <<saved, chosen, selected, flags, form, shownVault, beyondVars>>

\* Nothing is unlocked, or there is no active environment: idle.
HomeChecked ==
    /\ home.step = "opening"
    /\ chosen' = ActiveNow
    /\ home' = IF ActiveNow = "none" \/ \A e \in FormEnvs : ~Saved(e) THEN [NoCheck EXCEPT !.step = "idle"]
               ELSE [step |-> "checking", on |-> ActiveNow]
    /\ misplaced' = misplaced \ Actives
    /\ UNCHANGED <<saved, shownPage, selected, flags, form, formOp, shownVault, vaultOp, steps, early, moved>>

\* getCredentials: none for this environment, or the probe is sent.
ProbeBegins ==
    /\ home.step = "checking"
    /\ home' = [home EXCEPT !.step = IF Saved(home.on) THEN "probing" ELSE "fail"]
    /\ UNCHANGED <<saved, chosen, shownPage, selected, flags, form, formOp, shownVault, vaultOp, steps, beyondVars>>

ProbeAnswered(ok) ==
    /\ home.step = "probing"
    /\ home' = [home EXCEPT !.step = IF ok THEN "ok" ELSE "fail"]
    /\ UNCHANGED <<saved, chosen, shownPage, selected, flags, form, formOp, shownVault, vaultOp, steps, beyondVars>>

\* retry probes the environment the hook read when the page was opened.
Retried ==
    /\ home.step = "fail" /\ UserActs
    /\ home' = [home EXCEPT !.step = "checking"]
    /\ UNCHANGED <<saved, chosen, shownPage, selected, flags, form, formOp, shownVault, vaultOp, beyondVars>>

-----------------------------------------------------------------------------
(* Another window, or what a page that was left still had under way, one   *)
(* storage request after the other.                                        *)

ChosenElsewhere(e) ==
    /\ e # chosen /\ UserActs
    /\ chosen' = e
    /\ misplaced' = misplaced \cup {"window"}
    /\ UNCHANGED <<saved, shownPage, selected, flags, form, formOp, shownVault, vaultOp, home, early, moved>>

\* setActiveEnv follows, as ChosenElsewhere.
SavedElsewhere(e, of) ==
    /\ UserActs
    /\ saved' = [saved EXCEPT ![e] = of]
    /\ moved' = moved \cup {e}
    /\ misplaced' = misplaced \cup (IF chosen = e THEN {} ELSE {"window"}) \cup (IF of = e THEN {} ELSE {"typed"})
    /\ UNCHANGED <<chosen, shownPage, selected, flags, form, formOp, shownVault, vaultOp, home, early>>

RemovedElsewhere(e) ==
    /\ Saved(e) /\ UserActs
    /\ Forgotten(e)
    /\ moved' = moved \cup {e}
    /\ misplaced' = misplaced \cup (IF chosen = e THEN {"window"} ELSE {})
    /\ UNCHANGED <<shownPage, selected, flags, form, formOp, shownVault, vaultOp, home, early>>

FormNext ==
    \/ ConnectionsOpened \/ ConnectionsLoaded \/ FormHydrated \/ VaultHydrated
    \/ \E e \in FormEnvs : ButtonClicked(e) \/ ChosenElsewhere(e) \/ RemovedElsewhere(e)
    \/ \E e, of \in FormEnvs : SavedElsewhere(e, of)
    \/ FormTyped \/ SavePressed \/ CredentialsSaved \/ EnvActivated \/ SaveFailed
    \/ DeletePressed \/ CredentialsDeleted \/ TestPressed \/ TestAnswered
    \/ \E does \in {"listing", "storing"} : VaultPressed(does)
    \/ \E ok \in BOOLEAN : VaultDone(ok) \/ ProbeAnswered(ok)
    \/ HomeOpened \/ HomeChecked \/ ProbeBegins \/ Retried

FormSpec == FormInit /\ [][FormNext]_formVars

-----------------------------------------------------------------------------
(* Properties.                                                             *)

\* Every variable has its type.
FormTypeOK ==
    LET some == FormEnvs \cup {"none"} IN
    /\ saved \in [FormEnvs -> some] /\ chosen \in some
    /\ shownPage \in {"home", "opening", "connections"} /\ selected \in FormEnvs /\ flags \in SUBSET FormEnvs
    /\ form \in [of : FormEnvs, stored : some, tested : some, typed : BOOLEAN, hydrating : BOOLEAN]
    /\ formOp \in [does : {"rest", "saving", "activating", "deleting", "testing"}, on : FormEnvs, of : FormEnvs]
    /\ shownVault \in [rows : some, listed : some, hydrating : BOOLEAN]
    /\ vaultOp \in [does : {"rest", "listing", "storing"}, on : FormEnvs, of : FormEnvs]
    /\ home \in [step : {"away", "opening", "idle", "checking", "probing", "ok", "fail"}, on : some]
    /\ steps \in 0..MaxSteps /\ early \in BOOLEAN /\ moved \in SUBSET FormEnvs /\ misplaced \in SUBSET Facets

AtRest == shownPage = "connections" /\ ~form.hydrating /\ ~shownVault.hydrating /\ ~UnderWay

\* A page at rest shows what is stored, whatever was switched, saved, tested, removed
\* or left while something else was under way.  Its marks are those of the stored
\* credentials, but for what another window has changed since the page was opened;
\* the fields, the saved credentials, the result of the test, the rows and the list
\* are those of the lit environment, except where an operation begun for the other
\* one has ended since they were last read: the next switch puts that right.  The
\* lit environment is the active one, or has no credentials, unless a save that
\* began before the switch or another window has changed the active one since.  What
\* is saved was typed for its environment, and the Home page checks the active one.
FormIsSelected ==
    /\ AtRest /\ ~early =>
          /\ \A e \in FormEnvs \ moved : e \in flags <=> Saved(e)
          /\ "form" \notin misplaced =>
                /\ form.of = selected /\ {form.stored, form.tested} \subseteq {"none", selected}
                /\ selected \in moved \/ (form.stored = selected <=> Saved(selected))
          /\ misplaced \cap Actives = {} => chosen = selected \/ ~Saved(selected)
    /\ AtRest => /\ "rows" \notin misplaced => shownVault.rows = selected
                 /\ "list" \notin misplaced => shownVault.listed \in {"none", selected}
    /\ "typed" \notin misplaced => \A e \in FormEnvs : saved[e] \in {e, "none"}
    /\ home.on # "none" /\ misplaced \cap Actives = {} => home.on = chosen

\* Not so: who switches while an operation is under way sees the other
\* environment's credentials, test or tokens under the lit button.
ShowsTheLit == AtRest /\ ~early => {form.stored, form.tested} \subseteq {"none", selected} /\ shownVault.rows = selected

\* Not so: a save that ends after the switch makes its own environment active again.
LitIsActive == AtRest /\ ~early /\ "window" \notin misplaced => chosen = selected \/ ~Saved(selected)

\* Not so: the marks, "(saved)" (ConnectionsPage.tsx:111), are read once, when the page
\* is opened; another window's save or removal does not reach them.
MarksAreStored == AtRest /\ ~early => flags = {e \in FormEnvs : Saved(e)}

\* Not so: fields that were typed before the form was hydrated for the environment
\* just selected are saved under it.
SavedAsTyped == \A e \in FormEnvs : saved[e] \in {e, "none"}
=============================================================================
