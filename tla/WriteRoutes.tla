------------------------------ MODULE WriteRoutes ------------------------------
(***************************************************************************)
(* Which request a call of sdk.entities, sdk.contacts or                   *)
(* sdk.merchantAccounts becomes.  A Job sends it through the handlers      *)
(* manage-entity, manage-contact and manage-merchant-account; the panel    *)
(* through the typed tools of the manifest (executeTypedTool), after the   *)
(* user has seen a preview; a plan sends nothing.  Whether a Job may write *)
(* to that entity at all is WorkflowSdk; the request is then ApiClient's.  *)
(***************************************************************************)
EXTENDS Naturals, FiniteSets

VARIABLES
    routeCall,  \* the call under way, or the last one
    routeStage, \* "idle", "asked" (beforeWrite), "sent", "returned", "thrown"
    preview,    \* what beforeWrite was told
    request     \* what was handed to apiRequest

routeVars == <<routeCall, routeStage, preview, request>>

RouteLevels == {"psp", "division", "merchant", "channel"}

OnEntity == {"contacts.list", "contacts.create", "accounts.list", "accounts.create", "accounts.attach",
             "entities.get", "entities.listChildren", "entities.create", "entities.edit", "entities.delete"}
OnBoth == {"contacts.attach", "contacts.detach", "accounts.attach"}
OnObject == {"contacts.get", "contacts.edit", "contacts.delete", "contacts.lock", "contacts.unlock",
             "contacts.resetPassword", "accounts.get", "accounts.edit", "accounts.delete", "accounts.detach",
             "accounts.threeDCheck"}
RouteMethods == OnEntity \cup OnBoth \cup OnObject

WithFields == {"contacts.create", "contacts.edit", "entities.create", "entities.edit", "accounts.create", "accounts.edit"}

ContactWrites == {"contacts.create", "contacts.edit", "contacts.delete", "contacts.attach", "contacts.detach",
                  "contacts.lock", "contacts.unlock", "contacts.resetPassword"}
AccountWrites == {"accounts.create", "accounts.edit", "accounts.delete", "accounts.attach", "accounts.detach",
                  "accounts.threeDCheck"}
RouteReads == {"contacts.list", "contacts.get", "accounts.list", "accounts.get", "entities.get", "entities.listChildren"}

\* The writes that tell beforeWrite.
RouteAnnounced == RouteMethods \ (RouteReads \cup {"accounts.threeDCheck"})

\* The fields of a call by what the checks make of them: "core" and "rest" are
\* those the manifest requires ("rest" only of a merchant account), "stray" is in
\* no list; merchantId is the account's own number at its institute.
FieldKinds == {"core", "rest", "merchantId", "stray"}

\* given: of the arguments, those that are not empty; level and child are the
\* types of the entity and of the one to create; form is how the arguments of
\* accounts.create come; password is given to resetPassword only.
RouteCalls ==
    {c \in [host : {"job", "panel", "plan"}, method : RouteMethods, level : RouteLevels, child : RouteLevels \ {"psp"},
            given : SUBSET {"entity", "object", "fields"}, fields : SUBSET FieldKinds,
            form : {"positional", "flat", "nested"}, password : BOOLEAN] :
        /\ c.method \notin OnEntity \cup OnBoth => c.level = "merchant"
        /\ c.method \notin {"entities.create", "entities.listChildren"} => c.child = "channel"
        /\ c.method \notin OnEntity \cup OnBoth => "entity" \notin c.given
        /\ c.method \notin OnObject \cup OnBoth => "object" \notin c.given
        /\ c.method \notin WithFields => "fields" \notin c.given
        /\ c.method \in {"accounts.create", "accounts.edit"} => "fields" \in c.given
        /\ "fields" \notin c.given => c.fields = {}
        /\ c.method \notin {"accounts.create", "accounts.edit"} => "rest" \notin c.fields
        /\ c.method # "accounts.create" => c.form = "positional"
        /\ c.method # "contacts.resetPassword" => ~c.password}

Nothing == [none |-> TRUE]

RouteInit ==
    /\ routeCall = [host |-> "job", method |-> "contacts.get", level |-> "merchant", child |-> "channel",
               given |-> {}, fields |-> {}, form |-> "positional", password |-> FALSE]
    /\ routeStage = "idle" /\ preview = Nothing /\ request = Nothing

-----------------------------------------------------------------------------
(* The handlers of src/tools.  id is where the last id of the path comes   *)
(* from: the entity, the contact or account, or the field merchantId.      *)

Verb(m) ==
    IF m \in RouteReads THEN "GET"
    ELSE IF m \in {"contacts.delete", "contacts.detach", "entities.delete", "accounts.delete", "accounts.detach"}
    THEN "DELETE" ELSE "POST"

Needed(m) ==
    (IF m \in OnEntity \cup OnBoth THEN {"entity"} ELSE {})
    \cup (IF m \in OnObject \cup OnBoth THEN {"object"} ELSE {})
    \cup (IF m \in WithFields THEN {"fields"} ELSE {})

Body(c) == IF c.method \in WithFields THEN c.fields ELSE {}

\* The request of a call whose arguments are all given.
Req(c, level, body, audited) ==
    IF ~(Needed(c.method) \subseteq c.given) THEN Nothing
    ELSE [method |-> c.method, verb |-> Verb(c.method), body |-> body, audited |-> audited,
          level  |-> IF c.method \in OnObject THEN "none" ELSE level,
          id     |-> IF c.method \in OnObject THEN "object" ELSE "entity"]

HandledRead(c) == Req(c, c.level, {}, FALSE)

ContactWrite(c) ==
    Req(c, c.level, Body(c) \cup (IF c.password THEN {"password"} ELSE {}), c.method # "contacts.edit")

\* A PSP has no endpoint of its own.
EntityRead(c) ==
    IF c.method = "entities.get" /\ c.level = "psp" THEN Nothing
    ELSE Req(c, c.level, {}, c.method = "entities.get")

\* The path of a new entity is that of its type's parent (CREATABLE).
ParentLevel(child) ==
    CASE child = "division" -> "psp" [] child = "merchant" -> "division" [] child = "channel" -> "merchant"

EntityWrite(c) ==
    Req(c, IF c.method = "entities.create" THEN ParentLevel(c.child) ELSE c.level, Body(c), TRUE)

AccountWrite(c) ==
    Req(c, c.level, Body(c), c.method \notin {"accounts.delete", "accounts.threeDCheck"})

Handled(c) ==
    CASE c.method \in {"entities.get", "entities.listChildren"} -> EntityRead(c)
      [] c.method \in RouteReads \ {"entities.get", "entities.listChildren"} -> HandledRead(c)
      [] c.method \in {"entities.create", "entities.edit", "entities.delete"} -> EntityWrite(c)
      [] c.method \in AccountWrites -> AccountWrite(c)
      [] c.method \in ContactWrites -> ContactWrite(c)

-----------------------------------------------------------------------------
(* executeTypedTool and the manifest.                                      *)

\* The levels of a tool that has one operation for each; {} is the operation
\* without a parent.
Variants(c) ==
    CASE c.method = "contacts.create" -> {"psp", "division", "merchant"}
      [] c.method \in {"entities.edit", "entities.delete"} -> {"division", "merchant", "channel"}
      [] c.method = "entities.create" -> {ParentLevel(c.child)}
      [] c.method \in {"contacts.detach", "accounts.create", "accounts.attach"} -> RouteLevels
      [] OTHER -> {}

\* The first in the manifest, for a level that has none.
Picked(c) ==
    IF Variants(c) = {} THEN "none"
    ELSE IF Cardinality(Variants(c)) = 1 THEN CHOOSE v \in Variants(c) : TRUE
    ELSE IF c.level \in Variants(c) THEN c.level
    ELSE IF c.method = "contacts.create" THEN "psp" ELSE "division"

\* Where the id of the entity in the path comes from.  A parameter of the path's
\* own name, which a merchant's is merchantId, goes before parentId, and parentId
\* is taken only of a tool with several operations.
PathId(c) ==
    IF Picked(c) = "none" THEN "object"
    ELSE IF Picked(c) = "merchant" /\ "merchantId" \in c.fields THEN "merchantId"
    ELSE IF Cardinality(Variants(c)) > 1 /\ Picked(c) = c.level /\ "entity" \in c.given THEN "entity"
    ELSE "missing"

KnownFields(c) ==
    {"core", "rest"}
    \cup (IF c.method \in {"accounts.create", "accounts.edit"} \/ Picked(c) = "merchant" THEN {"merchantId"} ELSE {})

RequiredFields(c) ==
    IF c.method \in {"accounts.create", "accounts.edit"} THEN {"core", "rest"}
    ELSE IF c.method \in WithFields THEN {"core"} ELSE {}

Typed(c) ==
    IF \/ PathId(c) = "missing"
       \/ "object" \in Needed(c.method) \ c.given
       \/ ~(c.fields \subseteq KnownFields(c))
       \/ ~(RequiredFields(c) \subseteq c.fields)
    THEN Nothing
    ELSE [method  |-> c.method,
          verb    |-> Verb(c.method),
          level   |-> Picked(c),
          id      |-> PathId(c),
          body    |-> IF c.method \in {"accounts.create", "accounts.edit"} THEN Body(c)
                      ELSE Body(c) \ {"merchantId"},
          audited |-> TRUE]

\* No tool is generated for attaching a contact.
Request(c) == IF c.host = "panel" /\ c.method # "contacts.attach" THEN Typed(c) ELSE Handled(c)

-----------------------------------------------------------------------------
(* The namespaces.                                                         *)

\* The arguments of accounts.create: of an object its merchantId is not a field,
\* and stands for the entity if there is none.
Normalised(c) ==
    IF c.method # "accounts.create" \/ c.form = "positional" THEN c
    ELSE [c EXCEPT !.fields = @ \ {"merchantId"},
                   !.given = IF "merchantId" \in c.fields /\ c.form = "flat" THEN @ \cup {"entity"} ELSE @]

\* assertLiveContract and the part of assertManifestFields that it lets through.
MeetsContract(c) ==
    CASE c.method = "accounts.create" -> {"core", "merchantId"} \subseteq c.fields
      [] c.method = "accounts.attach" -> "object" \in c.given
      [] OTHER -> TRUE

Accepts(c) ==
    (c.method = "accounts.create" \/ (c.method = "accounts.edit" /\ c.host = "job")) => "stray" \notin c.fields

Preview(c) ==
    [verb  |-> Verb(c.method),
     level |-> IF c.method \in OnObject THEN "none" ELSE c.level,
     id    |-> IF c.method \in OnObject THEN "object" ELSE "entity"]

\* The list contract and assertOperationSucceeded throw; the other calls hand the
\* script an error as their result.
ThrowsItsError(m) == m \in RouteAnnounced \cup {"contacts.list", "accounts.list", "entities.listChildren"}

RouteEnds(c, r) ==
    /\ request' = r
    /\ routeStage' = IF r # Nothing THEN "sent" ELSE IF ThrowsItsError(c.method) THEN "thrown" ELSE "returned"

Called(c) == routeCall' = c

Asks(c) == request' = Nothing /\ preview' = Preview(c) /\ routeStage' = "asked"

Reads(c) ==
    /\ c.method \in RouteReads \cup {"accounts.threeDCheck"}
    /\ Called(c) /\ preview' = Nothing /\ RouteEnds(c, Handled(c))

WritesContact(c) == c.method \in ContactWrites /\ Called(c) /\ Asks(c)

WritesEntity(c) == c.method \in {"entities.create", "entities.edit", "entities.delete"} /\ Called(c) /\ Asks(c)

WritesAccount(c) ==
    /\ c.method \in AccountWrites \ {"accounts.threeDCheck"}
    /\ LET n == Normalised(c) IN
        /\ Called(n)
        /\ \/ Accepts(n) /\ MeetsContract(n) /\ Asks(n)
           \/ /\ ~(Accepts(n) /\ MeetsContract(n)) \/ (n.host = "job" /\ n.method = "accounts.create")
              /\ routeStage' = "thrown" /\ preview' = Nothing /\ request' = Nothing

\* The panel's user cancels, or a Job's gate throws.
PreviewRefused ==
    /\ routeStage = "asked" /\ routeCall.host # "plan"
    /\ routeStage' = "thrown"
    /\ UNCHANGED <<routeCall, preview, request>>

PreviewAcceptedAttachUnplanned ==
    /\ routeStage = "asked"
    /\ IF routeCall.host = "plan" /\ routeCall.method # "contacts.attach"
       THEN routeStage' = "returned" /\ UNCHANGED request
       ELSE RouteEnds(routeCall, Request(routeCall))
    /\ UNCHANGED <<routeCall, preview>>

PreviewAccepted ==
    /\ routeStage = "asked"
    /\ IF routeCall.host = "plan"
       THEN routeStage' = "returned" /\ UNCHANGED request
       ELSE RouteEnds(routeCall, Request(routeCall))
    /\ UNCHANGED <<routeCall, preview>>

\* The answer of the API.
RouteAnswered(ok) ==
    /\ routeStage = "sent"
    /\ routeStage' = IF ok \/ ~ThrowsItsError(routeCall.method) THEN "returned" ELSE "thrown"
    /\ UNCHANGED <<routeCall, preview, request>>

RouteNext ==
    \/ routeStage = "idle" /\ \E c \in RouteCalls : Reads(c) \/ WritesContact(c) \/ WritesEntity(c) \/ WritesAccount(c)
    \/ PreviewRefused
    \/ PreviewAccepted
    \/ \E ok \in BOOLEAN : RouteAnswered(ok)

RouteSpec == RouteInit /\ [][RouteNext]_routeVars

RouteTypeOK ==
    /\ routeCall \in RouteCalls
    /\ routeStage \in {"idle", "asked", "sent", "returned", "thrown"}
-----------------------------------------------------------------------------
(* Properties.                                                             *)

\* The two ways in which the entity of the request is not the one of the preview:
\* the merchant is named by the account's own number, and the parent of a new
\* entity is of the type its child's must be.
Redirected(c) ==
    \/ /\ c.host = "panel" /\ "merchantId" \in c.fields
       /\ "merchant" = IF c.method = "entities.create" THEN ParentLevel(c.child) ELSE c.level
    \/ c.method = "entities.create" /\ c.level # ParentLevel(c.child)

\* What the user agrees to is what is sent: same verb, same entity.
SentAsPreviewed ==
    (request # Nothing /\ routeCall.method \in RouteAnnounced) =>
        /\ preview # Nothing /\ request.verb = preview.verb
        /\ ~Redirected(routeCall) => request.level = preview.level /\ request.id = preview.id

\* A plan changes nothing, and a write that the script takes for done was sent.
NothingPretended ==
    routeCall.method \in RouteAnnounced =>
        /\ routeCall.host = "plan" => request = Nothing
        /\ (routeStage = "returned" /\ routeCall.host # "plan") => request # Nothing

\* The panel and a Job send the same request for the same call, but for a password.
TransportsAgree ==
    (routeCall.host = "panel" /\ request # Nothing /\ ~Redirected(routeCall)) =>
        LET r == Handled(routeCall) IN
            /\ r # Nothing /\ r.verb = request.verb
            /\ r.level = request.level /\ r.id = request.id /\ r.body \ {"password"} = request.body \ {"password"}

\* A call of sdk.entities, sdk.contacts or sdk.merchantAccounts does what its
\* preview says and what the other way would do (executeEntityWrite,
\* executeContactWrite, executeMerchantWrite).
RoutesAreSound == SentAsPreviewed /\ NothingPretended /\ TransportsAgree

\* Not so: README.md:435 has "API mutations are audit-logged by api-client.ts.", and
\* a Job's edit of a contact and its deletion of an account are not, nor is the
\* check of an account's enrolment.
MutationsAudited == (request # Nothing /\ request.verb # "GET") => request.audited

\* Not so: a merchant account that the panel creates on a merchant is posted to the
\* merchant that the account's merchantId names (resolveParentAlias keeps a
\* parameter of the path's name), whichever merchant the preview showed.
SeenIsSent ==
    (request # Nothing /\ routeCall.method = "accounts.create") =>
        request.level = preview.level /\ request.id = preview.id

\* Not so: sdk.entities.create of the panel is never sent to the entity it names,
\* its tools have one operation each and parentId is not expanded for them.
CreatesEntities ==
    (routeStage = "asked" /\ routeCall.host = "panel" /\ routeCall.method = "entities.create"
        /\ routeCall.level = ParentLevel(routeCall.child)
        /\ routeCall.given = {"entity", "fields"} /\ routeCall.fields = {"core"}) => Request(routeCall) # Nothing

\* Not so: live-contracts.ts:7-8 has "so the chat tab and reviewed Jobs reject the same
\* shapes", and the panel rejects an account without every field the manifest requires.
RejectedAlike ==
    (routeStage = "sent" /\ routeCall.host = "job" /\ routeCall.method \in {"accounts.create", "accounts.attach"}) =>
        Request([routeCall EXCEPT !.host = "panel"]) # Nothing
=============================================================================
