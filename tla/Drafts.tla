--------------------------------- MODULE Drafts ---------------------------------
(***************************************************************************)
(* How a workflow script gets from a model to a run: the draft of the chat *)
(* with its one redraft, the review card and its Start, the tool           *)
(* execute_workflow, and the checks on the way (staticWorkflowPreflight,   *)
(* the runtime selection, the guard of the sdk object and the contracts of *)
(* its calls).  The waits of the tool are in ToolCalls, the run of a Job   *)
(* is in JobExecutor.                                                      *)
(***************************************************************************)
EXTENDS Naturals

CONSTANTS
    MaxDrafts,      \* answers of the model
    MaxMoves,       \* changes of the environment or of the page
    Codes           \* the mistakes that a script may have together

VARIABLES
    drafting,   \* "idle", "first", "second" (an answer is awaited), "starting"
    draft,      \* the draft under way: where it was asked, and its first script
    answers,    \* the answers of the model so far
    review,     \* the card
    scene,      \* the environment and the entity of the page, and the moves so far
    launch      \* the last script that was started, see NoLaunch

draftVars == <<drafting, draft, answers, review, scene, launch>>

\* What may be wrong in a script: a forbidden, unknown or missing field of
\* merchantAccounts.create, no currency or brand for attach, a label where an
\* institute's id belongs, a setting in quotes, one that is unknown or has a wrong
\* value, a member that sdk has not, reflection over sdk; and how it is written: with
\* the dotted name of the call, bare keys and literal values, five arguments of
\* attach; veiled by a key in quotes or computed, an argument left out, blank or in an
\* object, an index or another name; or in a comment only.
Mistakes == {"forbidden", "unknown", "required", "currency", "label", "quoted", "setting", "member", "reflection"}
Wordings == {"plain", "veiled", "comment"}
Defects == [what : Mistakes, how : Wordings]

ASSUME DraftsAssumption == MaxDrafts \in Nat /\ MaxMoves \in Nat /\ Codes \subseteq SUBSET Defects

\* form "calls" is a JSON object of declared calls, in which sdk is not used; "bad"
\* is an answer that is no draft.
Scripts ==
    {[form |-> "code", defects |-> d] : d \in Codes}
    \cup {[form |-> "calls", defects |-> {}]}
BadDraft == [form |-> "bad", defects |-> {}]
NoScript == [form |-> "none", defects |-> {}]

Scenes == [env : {"uat", "live"}, about : {"entity1", "entity2"}]
NoCard == [script |-> NoScript, at |-> [env |-> "uat", about |-> "entity1"], blocker |-> FALSE]

\* start: the card as it was when Start was pressed, for a run of the chat.
NoLaunch == [by |-> "none", script |-> NoScript, at |-> NoCard.at, start |-> NoCard,
          runtime |-> "none", end |-> "none"]

NoDraft == [at |-> NoCard.at, first |-> NoScript]

DraftsInit ==
    /\ drafting = "idle" /\ review = NoCard /\ launch = NoLaunch
    /\ scene = [at |-> NoCard.at, moves |-> 0]
    /\ draft = NoDraft /\ answers = 0

-----------------------------------------------------------------------------
(* The checks.                                                             *)

\* findSdkContractHits, on the script without its strings and comments.
MemberHits(s) == {d \in s.defects : d.what \in {"member", "reflection"} /\ d.how = "plain"}

\* findForbiddenKeysInArgs, on the text of a call as it stands: a bare key and a colon.
ForbiddenHits(s) == {d \in s.defects : d.what = "forbidden" /\ d.how # "veiled"}

\* CONTRACT_CHECKS, on that text as well: of attach only an empty literal as the fourth
\* or fifth of five arguments, of create only the literal of clearingInstituteId, and
\* the literals of two settings.
ContractHits(s) ==
    {d \in s.defects : \/ d.what = "currency" /\ d.how = "plain"
                       \/ d.what \in {"label", "quoted"} /\ d.how # "veiled"}

Flagged(s) == MemberHits(s) \cup ForbiddenHits(s) \cup ContractHits(s)

\* The guard of the sdk object, assertManifestFields and assertLiveContract of its calls,
\* and the flattening of settings.  A label is looked up, a literal in quotes coerced.
Halts(d) == d.how # "comment" /\ d.what \in {"forbidden", "unknown", "required", "currency", "setting", "member"}

\* A JSON object is no function body.
ScriptRefused(s) == s.form = "calls" \/ \E d \in s.defects : Halts(d)

\* computeActualRuntime; how is "run", "dryRun" or "planOnly".
RuntimeOf(s, how, handoff) ==
    IF s.form = "calls" THEN "declarative_workflow"
    ELSE IF how # "run" \/ ~handoff THEN "inline_sandbox"
    ELSE "long_job"

-----------------------------------------------------------------------------
(* Drafting.                                                               *)

DraftBegins == draft' = [NoDraft EXCEPT !.at = scene.at]

DraftAsked ==
    /\ drafting = "idle" /\ answers < MaxDrafts
    /\ drafting' = "first" /\ DraftBegins
    /\ UNCHANGED <<answers, review, scene, launch>>

CardShown(s, blocked) == review' = [script |-> s, at |-> draft.at, blocker |-> blocked]

\* An answer that is no draft leaves the card that may be there.
FirstAnswered(s) ==
    /\ drafting = "first"
    /\ answers' = answers + 1
    /\ IF s # BadDraft /\ Flagged(s) # {} THEN drafting' = "second" /\ draft' = [draft EXCEPT !.first = s]
       ELSE drafting' = "idle" /\ draft' = NoDraft
    /\ IF s # BadDraft /\ Flagged(s) = {} THEN CardShown(s, FALSE) ELSE UNCHANGED review
    /\ UNCHANGED <<scene, launch>>

SecondAnsweredUnblocked(s) ==
    /\ drafting = "second" /\ drafting' = "idle"
    /\ draft' = NoDraft /\ answers' = answers + 1
    /\ IF s = BadDraft THEN CardShown(draft.first, FALSE) ELSE CardShown(s, Flagged(s) # {})
    /\ UNCHANGED <<scene, launch>>

\* The redraft is the second and last; one that fails leaves the first with its hits.
SecondAnswered(s) ==
    /\ drafting = "second" /\ drafting' = "idle"
    /\ draft' = NoDraft /\ answers' = answers + 1
    /\ IF s = BadDraft THEN CardShown(draft.first, TRUE) ELSE CardShown(s, Flagged(s) # {})
    /\ UNCHANGED <<scene, launch>>

\* The card is dropped before handleDraftJob looks whether a turn of the chat is
\* under way, and then nothing is drafted.
Redraft(busy) ==
    /\ drafting = "idle" /\ review.blocker /\ answers < MaxDrafts
    /\ review' = NoCard
    /\ IF busy THEN UNCHANGED <<drafting, draft>> ELSE drafting' = "first" /\ DraftBegins
    /\ UNCHANGED <<answers, scene, launch>>

CardCancelled ==
    /\ drafting = "idle" /\ review # NoCard
    /\ review' = NoCard
    /\ UNCHANGED <<drafting, draft, answers, scene, launch>>

-----------------------------------------------------------------------------
(* Starting.                                                               *)

\* handleStartReviewedJob up to the request to the service worker.  What was started
\* before is followed no longer.
StartPressed ==
    /\ drafting = "idle" /\ review # NoCard
    /\ Flagged(review.script) = {} /\ review.at.env = scene.at.env
    /\ drafting' = "starting"
    /\ launch' = [NoLaunch EXCEPT !.start = review]
    /\ UNCHANGED <<draft, answers, review, scene>>

\* swStartJob checks the script again.  The job runs as one of the service worker,
\* whatever runtime its draft names.
JobStarted ==
    LET start == launch.start IN
    /\ drafting = "starting" /\ drafting' = "idle"
    /\ Flagged(start.script) = {}
    /\ launch' = [launch EXCEPT !.by = "card", !.script = start.script, !.at = start.at,
                                !.runtime = "long_job", !.end = "running"]
    /\ review' = NoCard
    /\ UNCHANGED <<draft, answers, scene>>

\* No credentials, a slot that is taken, or no answer of the service worker.
StartRefused ==
    /\ drafting = "starting" /\ drafting' = "idle"
    /\ launch' = NoLaunch
    /\ UNCHANGED <<draft, answers, review, scene>>

\* execute_workflow: a runtime that was asked for must be the one that is computed.
ToolSubmits(s, asked, how, handoff) ==
    LET runtime == RuntimeOf(s, how, handoff) IN
    /\ launch = NoLaunch
    /\ Flagged(s) = {} /\ asked \in {"none", runtime}
    /\ launch' = [NoLaunch EXCEPT !.by = "tool", !.script = s, !.at = scene.at, !.runtime = runtime,
                                     !.end = IF how = "run" THEN "running"
                                             ELSE IF how = "planOnly" /\ s.form = "code" THEN "unplanned"
                                             ELSE "done"]
    /\ UNCHANGED <<drafting, draft, answers, review, scene>>

\* The script stops at its first call that is refused.
LaunchEnds ==
    /\ launch.end = "running"
    /\ launch' = [launch EXCEPT !.end =
           IF launch.runtime # "declarative_workflow" /\ ScriptRefused(launch.script) THEN "refused" ELSE "done"]
    /\ UNCHANGED <<drafting, draft, answers, review, scene>>

\* The user selects another connection, or looks at another page.
SceneMoved(p) ==
    /\ scene.moves < MaxMoves /\ p # scene.at
    /\ scene' = [at |-> p, moves |-> scene.moves + 1]
    /\ UNCHANGED <<drafting, draft, answers, review, launch>>

RuntimesAsked == {"none", "inline_sandbox", "long_job", "declarative_workflow"}

DraftsNext ==
    \/ DraftAsked
    \/ \E s \in Scripts \cup {BadDraft} : FirstAnswered(s) \/ SecondAnswered(s)
    \/ \E busy \in BOOLEAN : Redraft(busy)
    \/ CardCancelled \/ StartPressed \/ JobStarted \/ StartRefused \/ LaunchEnds
    \/ \E s \in Scripts, asked \in RuntimesAsked, how \in {"run", "dryRun", "planOnly"}, handoff \in BOOLEAN :
          ToolSubmits(s, asked, how, handoff)
    \/ \E p \in Scenes : SceneMoved(p)

DraftsSpec == DraftsInit /\ [][DraftsNext]_draftVars

-----------------------------------------------------------------------------
(* Properties.                                                             *)

Reviews == [script : Scripts \cup {NoScript}, at : Scenes, blocker : BOOLEAN]

\* Every variable has its type.
DraftsTypeOK ==
    /\ drafting \in {"idle", "first", "second", "starting"}
    /\ draft \in [at : Scenes, first : Scripts \cup {NoScript}] /\ answers \in 0..(MaxDrafts + 1)
    /\ review \in Reviews
    /\ scene \in [at : Scenes, moves : 0..MaxMoves]
    /\ launch \in [by : {"none", "card", "tool"}, script : Scripts \cup {NoScript}, at : Scenes, start : Reviews,
                   runtime : {"none"} \cup RuntimesAsked, end : {"none", "running", "refused", "unplanned", "done"}]

\* What the text of a call does not tell the checks.
Untold == {d \in Defects : d.how = "veiled" \/ d.what \in {"unknown", "required", "setting"}}

RunsHaveNoHits == launch.by # "none" => Flagged(launch.script) = {}

OnlyUntoldStops ==
    launch.end = "refused" =>
        \/ launch.by = "card" /\ launch.script.form = "calls"
        \/ LET fatal == {d \in launch.script.defects : Halts(d)} IN fatal # {} /\ fatal \subseteq Untold

CardTellsHits == review # NoCard => (review.blocker <=> Flagged(review.script) # {})

JobIsOfTheCard ==
    /\ launch.by = "card" => launch.script = launch.start.script /\ launch.at = launch.start.at
    /\ drafting = "starting" => launch.start = review

\* A script that runs has no hits, whether it came by the card or by the tool, and
\* what stops it then is only what is veiled, or a field or setting that no check looks
\* for, or that a job was made of declared calls; the card says
\* of its script whether it has hits, also when the redraft failed; a job of the
\* card runs the script that was on the card when Start was pressed, in the
\* environment and for the entity it was drafted for, whatever the user selected
\* since.
DraftsAreSound == RunsHaveNoHits /\ OnlyUntoldStops /\ CardTellsHits /\ JobIsOfTheCard

\* A blocker names something that would stop the script.  Not so: a field in a
\* comment within a call is one.
NoFalseAlarm == review.blocker => \E d \in Flagged(review.script) : d.how # "comment"

\* "missing currency on MA attach is blocked before any write"
\* (workflow-static-preflight.ts:56).  Not so: attach with four arguments, or with an
\* object, passes the checks, and what the script wrote before it stays.
CurrencyIsBlocked ==
    launch.by # "none" => \A d \in launch.script.defects : d.what = "currency" => d.how = "comment"

\* Declared calls are never a job.  Not so: the card starts any draft as one.
DeclarativeIsNoJob == launch.script.form = "calls" => launch.runtime # "long_job"
=============================================================================
