----------------------------- MODULE DraftsProofs -----------------------------
(* What holds of Drafts for every number of answers and of moves; of ChatTurn, *)
(* the turns of the chat the drafts come from, for any length of its history;  *)
(* of ChatContext, the context a turn is sent with, for any pages; and of      *)
(* JobPanels, the jobs that the chat starts and the other panels follow, for   *)
(* any windows, jobs and stops of the worker.                                  *)
EXTENDS Drafts, ChatTurn, ChatContext, JobPanels, SequenceTheorems, TLAPS

-----------------------------------------------------------------------------
(* Scripts                                                                 *)

\* Answers that are drafts are told from those that are not, and from none.
LEMMA DraftsAreScripts ==
    /\ \A s \in Scripts : s.form \in {"code", "calls"}
    /\ BadDraft \notin Scripts /\ NoScript \notin Scripts
  <1>1. ASSUME NEW s \in Scripts PROVE s.form \in {"code", "calls"}
    BY DEF Scripts
  <1>2. BadDraft.form = "bad" /\ NoScript.form = "none"
    BY DEF BadDraft, NoScript
  <1> QED BY <1>1, <1>2

\* What stops a script that had no hits is what the checks are not told.
LEMMA RefusedWasUntold ==
    ASSUME NEW s \in Scripts, Flagged(s) = {}, ScriptRefused(s), s.form # "calls"
    PROVE  LET fatal == {d \in s.defects : Halts(d)} IN fatal # {} /\ fatal \subseteq Untold
  <1>1. PICK c \in Codes : s = [form |-> "code", defects |-> c]
    BY DEF Scripts
  <1>2. s.defects \subseteq Defects
    BY <1>1, DraftsAssumption
  <1>3. PICK d \in s.defects : Halts(d)
    BY DEF ScriptRefused
  <1>4. ASSUME NEW e \in s.defects, Halts(e) PROVE e \in Untold
    <2>1. e.how \in {"plain", "veiled"}
      BY <1>2, <1>4 DEF Defects, Wordings, Halts
    <2>2. e.how = "plain" => e.what \notin {"member", "forbidden", "currency"}
      BY DEF Flagged, MemberHits, ForbiddenHits, ContractHits
    <2> QED BY <1>2, <1>4, <2>1, <2>2 DEF Halts, Untold
  <1> QED BY <1>3, <1>4

-----------------------------------------------------------------------------
(* Type correctness                                                        *)

SomeScript == Scripts \cup {NoScript}
DraftRecords == [at : Scenes, first : SomeScript]
LaunchRecords ==
    [by : {"none", "card", "tool"}, script : SomeScript, at : Scenes, start : Reviews,
     runtime : {"none"} \cup RuntimesAsked, end : {"none", "running", "refused", "unplanned", "done"}]

\* The records that stand for nothing are records.
LEMMA NothingTyped == NoCard \in Reviews /\ NoDraft \in DraftRecords /\ NoLaunch \in LaunchRecords /\ NoCard.at \in Scenes
  <1>1. NoCard.at \in Scenes
    BY DEF NoCard, Scenes
  <1>2. NoCard \in Reviews
    BY <1>1 DEF NoCard, Reviews
  <1>3. NoDraft \in DraftRecords
    BY <1>1 DEF NoDraft, DraftRecords, SomeScript
  <1>4. NoLaunch \in LaunchRecords
    BY <1>1, <1>2 DEF NoLaunch, LaunchRecords, SomeScript
  <1> QED BY <1>1, <1>2, <1>3, <1>4

\* The answers that are still to come are within the bound.
AnswersBounded ==
    /\ drafting = "first" => answers < MaxDrafts
    /\ drafting = "second" => answers <= MaxDrafts /\ draft.first \in Scripts

DraftsTyped ==
    /\ drafting \in {"idle", "first", "second", "starting"}
    /\ draft \in DraftRecords /\ answers \in 0..(MaxDrafts + 1)
    /\ review \in Reviews
    /\ scene \in [at : Scenes, moves : 0..MaxMoves]
    /\ launch \in LaunchRecords
    /\ AnswersBounded

USE DEF draftVars

LEMMA DraftsInitTyped == DraftsInit => DraftsTyped
  BY DraftsAssumption, NothingTyped DEF DraftsInit, DraftsTyped, AnswersBounded, DraftsAssumption

LEMMA DraftsNextTyped == DraftsTyped /\ [DraftsNext]_draftVars => DraftsTyped'
  <1> SUFFICES ASSUME DraftsTyped, [DraftsNext]_draftVars PROVE DraftsTyped'
    OBVIOUS
  <1> USE DraftsAssumption, NothingTyped DEF DraftsAssumption, DraftsTyped, AnswersBounded
  <1>0. ASSUME NEW s \in SomeScript, NEW b \in BOOLEAN, CardShown(s, b) PROVE review' \in Reviews
    <2>1. draft.at \in Scenes
      BY DEF DraftRecords
    <2> QED BY <1>0, <2>1 DEF CardShown, Reviews, SomeScript
  <1>1. ASSUME DraftBegins PROVE draft' \in DraftRecords
    <2>1. scene.at \in Scenes
      OBVIOUS
    <2> QED BY <1>1, <2>1 DEF DraftBegins, DraftRecords
  <1>2. CASE DraftAsked
    BY <1>1, <1>2 DEF DraftAsked
  <1>3. ASSUME NEW s \in Scripts \cup {BadDraft}, FirstAnswered(s) PROVE DraftsTyped'
    <2>1. s # BadDraft => s \in Scripts /\ s \in SomeScript
      BY DEF SomeScript
    <2>2. review' \in Reviews
      BY <1>0, <1>3, <2>1 DEF FirstAnswered
    <2>3. draft' \in DraftRecords /\ drafting' \in {"idle", "second"}
      BY <1>3, <2>1 DEF FirstAnswered, DraftRecords
    <2>4. drafting' = "second" => draft'.first \in Scripts
      BY <1>3, <2>1 DEF FirstAnswered, DraftRecords
    <2>5. answers' \in 0..(MaxDrafts + 1) /\ answers' <= MaxDrafts
      BY <1>3 DEF FirstAnswered
    <2> QED BY <1>3, <2>2, <2>3, <2>4, <2>5 DEF FirstAnswered
  <1>4. ASSUME NEW s \in Scripts \cup {BadDraft}, SecondAnswered(s) PROVE DraftsTyped'
    <2>1. s # BadDraft => s \in SomeScript
      BY DEF SomeScript
    <2>2. draft.first \in SomeScript
      BY DEF DraftRecords
    <2>3. (Flagged(s) # {}) \in BOOLEAN
      OBVIOUS
    <2>4. review' \in Reviews
      BY <1>0, <1>4, <2>1, <2>2, <2>3 DEF SecondAnswered
    <2>5. answers' \in 0..(MaxDrafts + 1)
      BY <1>4 DEF SecondAnswered
    <2> QED BY <1>4, <2>4, <2>5 DEF SecondAnswered
  <1>5. ASSUME NEW busy \in BOOLEAN, Redraft(busy) PROVE DraftsTyped'
    BY <1>1, <1>5 DEF Redraft
  <1>6. CASE CardCancelled
    BY <1>6 DEF CardCancelled
  <1>7. CASE StartPressed
    <2>1. launch' \in LaunchRecords
      BY <1>7 DEF StartPressed, LaunchRecords
    <2> QED BY <1>7, <2>1 DEF StartPressed
  <1>8. CASE JobStarted
    <2>1. launch.start.script \in SomeScript /\ launch.start.at \in Scenes
      BY DEF LaunchRecords, Reviews, SomeScript
    <2>2. launch' \in LaunchRecords
      BY <1>8, <2>1 DEF JobStarted, LaunchRecords, RuntimesAsked
    <2> QED BY <1>8, <2>2 DEF JobStarted
  <1>9. CASE StartRefused
    BY <1>9 DEF StartRefused
  <1>10. CASE LaunchEnds
    <2>1. launch' \in LaunchRecords
      BY <1>10 DEF LaunchEnds, LaunchRecords
    <2> QED BY <1>10, <2>1 DEF LaunchEnds
  <1>11. ASSUME NEW s \in Scripts, NEW asked \in RuntimesAsked, NEW how \in {"run", "dryRun", "planOnly"},
                NEW handoff \in BOOLEAN, ToolSubmits(s, asked, how, handoff)
         PROVE  DraftsTyped'
    <2>1. RuntimeOf(s, how, handoff) \in RuntimesAsked
      BY DEF RuntimeOf, RuntimesAsked
    <2>2. s \in SomeScript /\ scene.at \in Scenes
      BY DEF SomeScript
    <2>3. launch' \in LaunchRecords
      BY <1>11, <2>1, <2>2 DEF ToolSubmits, LaunchRecords
    <2> QED BY <1>11, <2>3 DEF ToolSubmits
  <1>12. ASSUME NEW p \in Scenes, SceneMoved(p) PROVE DraftsTyped'
    BY <1>12 DEF SceneMoved
  <1>13. CASE UNCHANGED draftVars
    BY <1>13
  <1> QED
    BY <1>2, <1>3, <1>4, <1>5, <1>6, <1>7, <1>8, <1>9, <1>10, <1>11, <1>12, <1>13 DEF DraftsNext

\* Every variable keeps its type, and the bound on the model's answers is kept.
THEOREM DraftsAreTyped == DraftsSpec => []DraftsTypeOK
  <1>1. DraftsTyped => DraftsTypeOK
    BY DEF DraftsTyped, DraftsTypeOK, DraftRecords, LaunchRecords, SomeScript
  <1> QED BY <1>1, DraftsInitTyped, DraftsNextTyped, PTL DEF DraftsSpec

-----------------------------------------------------------------------------
(* The drafts are sound                                                    *)

\* A redraft is asked for a first draft that has hits.
RedraftHasHits == drafting = "second" => Flagged(draft.first) # {}

\* The card that is being started is still shown, and nothing runs yet.
StartIsShown == drafting = "starting" => review # NoCard /\ launch.by = "none" /\ launch.end = "none"

\* What runs is a script: declared calls of the tool run as such, and the rest of
\* what the tool started runs in the panel or as a job.
RunsAsComputed ==
    /\ review # NoCard => review.script \in Scripts
    /\ launch.by # "none" => launch.script \in Scripts
    /\ launch.end # "none" => launch.by # "none"
    /\ launch.by = "tool" /\ launch.script.form = "calls" => launch.runtime = "declarative_workflow"

DraftsIInv == DraftsTyped /\ RedraftHasHits /\ StartIsShown /\ RunsAsComputed /\ DraftsAreSound

LEMMA DraftsInitSound == DraftsInit => DraftsIInv
  <1> SUFFICES ASSUME DraftsInit PROVE DraftsIInv
    OBVIOUS
  <1>1. drafting = "idle" /\ review = NoCard /\ launch.by = "none" /\ launch.end = "none"
    BY DEF DraftsInit, NoLaunch
  <1>2. DraftsTyped
    BY DraftsInitTyped
  <1> QED BY <1>1, <1>2 DEF DraftsIInv, RedraftHasHits, StartIsShown, RunsAsComputed, DraftsAreSound,
        RunsHaveNoHits, OnlyUntoldStops, CardTellsHits, JobIsOfTheCard

\* A card on which an answer was put says whether its script has hits.
LEMMA CardIsTrue ==
    ASSUME NEW s \in Scripts, NEW b \in BOOLEAN, b <=> Flagged(s) # {}, CardShown(s, b)
    PROVE  review'.script \in Scripts /\ (review'.blocker <=> Flagged(review'.script) # {})
  BY DEF CardShown

\* A script that is stopped had what its text does not tell, or was no script.
LEMMA EndIsSound ==
    ASSUME DraftsIInv, LaunchEnds
    PROVE  DraftsAreSound'
  <1> USE DEF DraftsIInv, DraftsAreSound
  <1>1. launch.by # "none" /\ launch.end = "running" /\ launch.script \in Scripts
    BY DEF LaunchEnds, RunsAsComputed
  <1>2. Flagged(launch.script) = {}
    BY <1>1 DEF RunsHaveNoHits
  <1>3. /\ launch'.by = launch.by /\ launch'.script = launch.script /\ launch'.at = launch.at
        /\ launch'.start = launch.start /\ launch'.runtime = launch.runtime
        /\ launch'.end \in {"refused", "done"}
    BY DEF LaunchEnds, DraftsTyped, LaunchRecords
  <1>4. launch'.end = "refused" => launch.runtime # "declarative_workflow" /\ ScriptRefused(launch.script)
    BY DEF LaunchEnds, DraftsTyped, LaunchRecords
  <1>5. launch.by \in {"card", "tool"}
    BY <1>1 DEF DraftsTyped, LaunchRecords
  <1>6. ASSUME launch'.end = "refused"
        PROVE  \/ launch'.by = "card" /\ launch'.script.form = "calls"
               \/ LET fatal == {d \in launch'.script.defects : Halts(d)} IN fatal # {} /\ fatal \subseteq Untold
    <2>1. CASE launch.script.form = "calls"
      BY <1>3, <1>4, <1>5, <1>6, <2>1 DEF RunsAsComputed
    <2>2. CASE launch.script.form # "calls"
      <3>1. LET fatal == {d \in launch.script.defects : Halts(d)} IN fatal # {} /\ fatal \subseteq Untold
        BY <1>1, <1>2, <1>4, <1>6, <2>2, RefusedWasUntold
      <3> QED BY <1>3, <3>1
    <2> QED BY <2>1, <2>2
  <1>7. drafting' = drafting /\ review' = review /\ drafting # "starting"
    BY <1>1 DEF LaunchEnds, StartIsShown
  <1>8. RunsHaveNoHits'
    BY <1>2, <1>3 DEF RunsHaveNoHits
  <1>9. OnlyUntoldStops'
    BY <1>6 DEF OnlyUntoldStops
  <1>10. CardTellsHits' /\ JobIsOfTheCard'
    BY <1>3, <1>7 DEF CardTellsHits, JobIsOfTheCard
  <1> QED BY <1>8, <1>9, <1>10

\* A step that starts and ends nothing leaves what is said of the run.
LEMMA RunKept ==
    ASSUME DraftsIInv, UNCHANGED launch
    PROVE  /\ RunsHaveNoHits' /\ OnlyUntoldStops'
           /\ launch'.by = "card" => launch'.script = launch'.start.script /\ launch'.at = launch'.start.at
           /\ launch'.by # "none" => launch'.script \in Scripts
           /\ launch'.end # "none" => launch'.by # "none"
           /\ launch'.by = "tool" /\ launch'.script.form = "calls" => launch'.runtime = "declarative_workflow"
  BY DEF DraftsIInv, DraftsAreSound, RunsHaveNoHits, OnlyUntoldStops, JobIsOfTheCard, RunsAsComputed

LEMMA DraftsNextSound == DraftsIInv /\ [DraftsNext]_draftVars => DraftsIInv'
  <1> SUFFICES ASSUME DraftsIInv, [DraftsNext]_draftVars PROVE DraftsIInv'
    OBVIOUS
  <1>0. DraftsTyped'
    BY DraftsNextTyped DEF DraftsIInv
  <1> USE DEF DraftsIInv
  <1> DEFINE Rest == RedraftHasHits' /\ StartIsShown' /\ RunsAsComputed' /\ DraftsAreSound'
  <1> USE DEF RedraftHasHits, StartIsShown, RunsAsComputed, DraftsAreSound, CardTellsHits, JobIsOfTheCard
  <1>2. CASE DraftAsked
    BY <1>0, <1>2, RunKept DEF DraftAsked
  <1>3. ASSUME NEW s \in Scripts \cup {BadDraft}, FirstAnswered(s) PROVE Rest
    <2>1. launch' = launch /\ drafting' \in {"idle", "second"}
      BY <1>3 DEF FirstAnswered
    <2>2. CASE s # BadDraft /\ Flagged(s) = {}
      <3>1. s \in Scripts /\ CardShown(s, FALSE) /\ drafting' = "idle"
        BY <1>3, <2>2 DEF FirstAnswered
      <3>2. review'.script \in Scripts /\ (review'.blocker <=> Flagged(review'.script) # {})
        BY <2>2, <3>1, CardIsTrue
      <3> QED BY <2>1, <3>1, <3>2, RunKept
    <2>3. CASE ~(s # BadDraft /\ Flagged(s) = {})
      <3>1. review' = review
        BY <1>3, <2>3 DEF FirstAnswered
      <3>2. drafting' = "second" => Flagged(draft'.first) # {}
        BY <1>3 DEF FirstAnswered, DraftsTyped, DraftRecords
      <3> QED BY <2>1, <3>1, <3>2, RunKept
    <2> QED BY <2>2, <2>3
  <1>4. ASSUME NEW s \in Scripts \cup {BadDraft}, SecondAnswered(s) PROVE Rest
    <2>1. launch' = launch /\ drafting' = "idle"
      BY <1>4 DEF SecondAnswered
    <2>2. review'.script \in Scripts /\ (review'.blocker <=> Flagged(review'.script) # {})
      <3>1. CASE s = BadDraft
        <4>1. draft.first \in Scripts /\ Flagged(draft.first) # {} /\ CardShown(draft.first, TRUE)
          BY <1>4, <3>1 DEF SecondAnswered, DraftsTyped, AnswersBounded
        <4> QED BY <4>1, CardIsTrue
      <3>2. CASE s # BadDraft
        <4>1. s \in Scripts /\ CardShown(s, Flagged(s) # {})
          BY <1>4, <3>2 DEF SecondAnswered
        <4> QED BY <4>1, CardIsTrue
      <3> QED BY <3>1, <3>2
    <2> QED BY <2>1, <2>2, RunKept
  <1>5. ASSUME NEW busy \in BOOLEAN, Redraft(busy) PROVE Rest
    BY <1>5, RunKept DEF Redraft
  <1>6. CASE CardCancelled
    BY <1>0, <1>6, RunKept DEF CardCancelled
  <1>7. CASE StartPressed
    <2>1. launch'.by = "none" /\ launch'.end = "none" /\ launch'.start = review /\ review' = review
      BY <1>7 DEF StartPressed, NoLaunch
    <2>2. review # NoCard /\ drafting' = "starting"
      BY <1>7 DEF StartPressed
    <2> QED BY <1>0, <2>1, <2>2 DEF RunsHaveNoHits, OnlyUntoldStops
  <1>8. CASE JobStarted
    <2>1. launch.start = review /\ review # NoCard /\ review.script \in Scripts
      BY <1>8 DEF JobStarted, DraftsAreSound
    <2>2. /\ launch'.by = "card" /\ launch'.script = launch'.start.script /\ launch'.at = launch'.start.at
          /\ launch'.end = "running" /\ launch'.script = launch.start.script
      BY <1>8 DEF JobStarted, DraftsTyped, LaunchRecords
    <2>3. drafting' = "idle" /\ review' = NoCard /\ Flagged(launch'.script) = {}
      BY <1>8, <2>2 DEF JobStarted
    <2> QED BY <1>0, <2>1, <2>2, <2>3 DEF RunsHaveNoHits, OnlyUntoldStops
  <1>9. CASE StartRefused
    <2>1. launch'.by = "none" /\ launch'.end = "none" /\ review' = review /\ drafting' = "idle"
      BY <1>9 DEF StartRefused, NoLaunch
    <2> QED BY <1>0, <2>1 DEF RunsHaveNoHits, OnlyUntoldStops
  <1>10. CASE LaunchEnds
    <2>1. DraftsAreSound'
      BY <1>10, EndIsSound
    <2>2. /\ drafting' = drafting /\ draft' = draft /\ review' = review /\ launch.end = "running"
          /\ launch'.by = launch.by /\ launch'.script = launch.script /\ launch'.runtime = launch.runtime
      BY <1>10 DEF LaunchEnds, DraftsTyped, LaunchRecords
    <2> QED BY <1>0, <2>1, <2>2
  <1>11. ASSUME NEW s \in Scripts, NEW asked \in RuntimesAsked, NEW how \in {"run", "dryRun", "planOnly"},
                NEW handoff \in BOOLEAN, ToolSubmits(s, asked, how, handoff)
         PROVE  Rest
    <2>1. /\ launch'.by = "tool" /\ launch'.script = s /\ launch'.runtime = RuntimeOf(s, how, handoff)
          /\ drafting' = drafting /\ review' = review /\ draft' = draft
      BY <1>11 DEF ToolSubmits, NoLaunch
    <2>2. Flagged(s) = {} /\ launch = NoLaunch
      BY <1>11 DEF ToolSubmits
    <2>3. drafting # "starting"
      <3>1. drafting = "starting" => NoCard # review /\ NoLaunch.start = review
        BY <2>2 DEF RunsHaveNoHits, OnlyUntoldStops
      <3> QED BY <3>1 DEF NoLaunch
    <2>4. launch'.end # "refused"
      BY <1>11 DEF ToolSubmits, NoLaunch
    <2>6. s.form = "calls" => RuntimeOf(s, how, handoff) = "declarative_workflow"
      BY DEF RuntimeOf
    <2> QED BY <2>1, <2>2, <2>3, <2>4, <2>6 DEF RunsHaveNoHits, OnlyUntoldStops
  <1>12. ASSUME NEW p \in Scenes, SceneMoved(p) PROVE Rest
    BY <1>12, RunKept DEF SceneMoved
  <1>13. CASE UNCHANGED draftVars
    BY <1>0, <1>13, RunKept
  <1> QED
    BY <1>0, <1>2, <1>3, <1>4, <1>5, <1>6, <1>7, <1>8, <1>9, <1>10, <1>11, <1>12, <1>13 DEF DraftsNext

\* A script that runs has no hits, what stops it is what its text does not tell, the
\* card says what is true of its script, and a job is started of the card that was
\* shown: for every number of drafts and of moves (handleDraftJob,
\* handleStartReviewedJob, execute_workflow).
THEOREM DraftsStaySound == DraftsSpec => []DraftsAreSound
  <1>1. DraftsIInv => DraftsAreSound
    BY DEF DraftsIInv
  <1> QED BY <1>1, DraftsInitSound, DraftsNextSound, PTL DEF DraftsSpec

-----------------------------------------------------------------------------
(* The turns of the chat and their histories                                 *)

\* Results only behind their calls, but for the first entry, and ...
ResultsFollow(h) == \A i \in DOMAIN h : h[i] = "results" => i = 1 \/ h[i - 1] = "calls"
\* ... calls only before their results, but perhaps for the last entry.
CallsPrecede(h) == \A i \in DOMAIN h : h[i] = "calls" => i = Len(h) \/ h[i + 1] = "results"
\* Every call is answered.
NothingOpen(h) == h # <<>> => h[Len(h)] # "calls"

\* A history that a turn leaves, or is sent with; the exception is a refused workflow.
Complete(h, exception) ==
    /\ h \in Seq(Entries) /\ ResultsFollow(h)
    /\ ~exception => CallsPrecede(h) /\ NothingOpen(h)
\* The history of a turn whose calls are being answered.
Opened(h, exception) ==
    /\ h \in Seq(Entries) /\ ResultsFollow(h)
    /\ h # <<>> /\ h[Len(h)] = "calls"
    /\ ~exception => CallsPrecede(h)

ChatPages ==
    [mounted : BOOLEAN, loaded : BOOLEAN, shows : SUBSET Modes, history : Seq(Entries), busy : BOOLEAN,
     switch : [step : {"none", "read", "set", "show"}, mode : Modes, on : BOOLEAN], news : SUBSET Modes]

TurnPlaces == {"unsent", "preflight", "model", "tool", "policy", "control", "run", "over"}

ChatTurns ==
    [of : SUBSET Pages, live : BOOLEAN, at : TurnPlaces, modes : SUBSET Modes, log : Seq(Entries),
     round : Nat, todo : Nat, tool : Tools \cup {"none"}]

ChatTyped ==
    /\ modes \subseteq Modes /\ refused \in BOOLEAN
    /\ page \in [Pages -> ChatPages]
    /\ turn \in [Turns -> ChatTurns]

HistoriesWhole ==
    /\ Complete(chatStored, refused)
    /\ \A p \in Pages : Complete(page[p].history, refused)

TurnSound(u, e) ==
    IF u.at \in {"tool", "policy", "control", "run"} THEN Opened(u.log, e) ELSE Complete(u.log, e)

TurnsSound == \A t \in Turns : TurnSound(turn[t], refused)

ChatIInv == ChatTyped /\ HistoriesWhole /\ TurnsSound

-----------------------------------------------------------------------------
(* Histories                                                                 *)

LEMMA EmptyWhole == \A e \in BOOLEAN : Complete(<<>>, e)
  BY DEF Complete, ResultsFollow, CallsPrecede, NothingOpen

\* An entry that is neither calls nor results leaves a whole history whole, ...
LEMMA SaysWhole ==
    ASSUME NEW h, NEW e \in BOOLEAN, NEW x \in {"user", "text"}, Complete(h, e)
    PROVE  Complete(Append(h, x), e)
  <1> DEFINE a == Append(h, x)
  <1>1. h \in Seq(Entries) /\ x \in Entries /\ Len(h) \in Nat /\ DOMAIN h = 1 .. Len(h)
    BY DEF Complete, Entries
  <1>2. /\ a \in Seq(Entries) /\ Len(a) = Len(h) + 1
        /\ \A i \in 1 .. Len(h) : a[i] = h[i]
        /\ a[Len(h) + 1] = x
    BY <1>1, AppendProperties
  <1>3. DOMAIN a = 1 .. Len(h) + 1
    BY <1>2
  <1> HIDE DEF a
  <1>4. ResultsFollow(a)
    BY <1>1, <1>2, <1>3 DEF Complete, ResultsFollow
  <1>5. ~e => CallsPrecede(a) /\ NothingOpen(a)
    BY <1>1, <1>2, <1>3 DEF Complete, CallsPrecede, NothingOpen
  <1> QED BY <1>2, <1>4, <1>5 DEF Complete, a

\* ... calls open it, ...
LEMMA CallsOpen ==
    ASSUME NEW h, NEW e \in BOOLEAN, Complete(h, e)
    PROVE  Opened(Append(h, "calls"), e)
  <1> DEFINE a == Append(h, "calls")
  <1>1. h \in Seq(Entries) /\ "calls" \in Entries /\ Len(h) \in Nat /\ DOMAIN h = 1 .. Len(h)
    BY DEF Complete, Entries
  <1>2. /\ a \in Seq(Entries) /\ Len(a) = Len(h) + 1 /\ a # <<>>
        /\ \A i \in 1 .. Len(h) : a[i] = h[i]
        /\ a[Len(h) + 1] = "calls"
    BY <1>1, AppendProperties
  <1>3. DOMAIN a = 1 .. Len(h) + 1
    BY <1>2
  <1> HIDE DEF a
  <1>4. ResultsFollow(a)
    BY <1>1, <1>2, <1>3 DEF Complete, ResultsFollow
  <1>5. ~e => CallsPrecede(a)
    BY <1>1, <1>2, <1>3 DEF Complete, CallsPrecede, NothingOpen
  <1> QED BY <1>2, <1>4, <1>5 DEF Opened, a

\* ... and their results close it.
LEMMA ResultsClose ==
    ASSUME NEW h, NEW e \in BOOLEAN, Opened(h, e)
    PROVE  Complete(Append(h, "results"), e)
  <1> DEFINE a == Append(h, "results")
  <1>1. h \in Seq(Entries) /\ "results" \in Entries /\ Len(h) \in Nat /\ DOMAIN h = 1 .. Len(h) /\ h # <<>>
    BY DEF Opened, Entries
  <1>2. /\ a \in Seq(Entries) /\ Len(a) = Len(h) + 1
        /\ \A i \in 1 .. Len(h) : a[i] = h[i]
        /\ a[Len(h) + 1] = "results"
    BY <1>1, AppendProperties
  <1>3. DOMAIN a = 1 .. Len(h) + 1 /\ Len(h) >= 1
    BY <1>1, <1>2, EmptySeq
  <1> HIDE DEF a
  <1>4. ResultsFollow(a)
    BY <1>1, <1>2, <1>3 DEF Opened, ResultsFollow
  <1>5. ~e => CallsPrecede(a) /\ NothingOpen(a)
    BY <1>1, <1>2, <1>3 DEF Opened, CallsPrecede, NothingOpen
  <1> QED BY <1>2, <1>4, <1>5 DEF Complete, a

\* The end of a history that is stored: its first entry may be results.
LEMMA SliceWhole ==
    ASSUME NEW h, NEW e \in BOOLEAN, Complete(h, e)
    PROVE  Complete(Slice(h), e)
  <1> DEFINE m == IF Len(h) > Kept THEN Len(h) - Kept + 1 ELSE 1
             s == SubSeq(h, m, Len(h))
  <1>1. h \in Seq(Entries) /\ Len(h) \in Nat /\ DOMAIN h = 1 .. Len(h)
    BY DEF Complete
  <1>2. Kept \in Nat \ {0}
    BY ChatAssumption DEF ChatAssumption
  <1>3. m \in Int /\ 1 <= m /\ m <= Len(h) + 1
    BY <1>1, <1>2
  <1> HIDE DEF m
  <1>4. \A i \in m .. Len(h) : h[i] \in Entries
    BY <1>1, <1>3, ElementOfSeq
  <1>5. /\ s \in Seq(Entries)
        /\ Len(s) = IF m <= Len(h) THEN Len(h) - m + 1 ELSE 0
        /\ \A i \in 1 .. Len(h) - m + 1 : s[i] = h[m + i - 1]
    BY <1>1, <1>3, <1>4, SubSeqProperties
  <1> HIDE DEF s
  <1>6. Len(s) = Len(h) - m + 1 /\ DOMAIN s = 1 .. Len(s)
    BY <1>1, <1>3, <1>5
  <1>7. ResultsFollow(s)
    <2> SUFFICES ASSUME NEW i \in DOMAIN s, s[i] = "results", i # 1
                 PROVE  s[i - 1] = "calls"
      BY DEF ResultsFollow
    <2> DEFINE k == m + i - 1
    <2>3. i \in 2 .. Len(h) - m + 1 /\ s[i] = h[k]
      BY SMTT(30), <1>1, <1>3, <1>5, <1>6
    <2>1. /\ k \in 2 .. Len(h) /\ k # 1 /\ s[i] = h[k]
          /\ i - 1 \in 1 .. Len(h) - m + 1 /\ m + (i - 1) - 1 = k - 1
      BY SMTT(30), <1>1, <1>3, <2>3
    <2>2. s[i - 1] = h[k - 1]
      BY <1>5, <2>1
    <2> HIDE DEF k
    <2>4. k \in DOMAIN h /\ h[k] = "results"
      BY <1>1, <2>1
    <2>5. k = 1 \/ h[k - 1] = "calls"
      BY <2>4 DEF Complete, ResultsFollow
    <2> QED BY <2>1, <2>2, <2>5
  <1>8. ~e => CallsPrecede(s)
    <2> SUFFICES ASSUME ~e, NEW i \in DOMAIN s, s[i] = "calls", i # Len(s)
                 PROVE  s[i + 1] = "results"
      BY DEF CallsPrecede
    <2> DEFINE k == m + i - 1
    <2>1. /\ k \in 1 .. Len(h) /\ k # Len(h) /\ s[i] = h[k]
          /\ i + 1 \in 1 .. Len(h) - m + 1 /\ m + (i + 1) - 1 = k + 1
      BY SMTT(30), <1>1, <1>3, <1>5, <1>6
    <2>2. s[i + 1] = h[k + 1]
      BY <1>5, <2>1
    <2> HIDE DEF k
    <2> QED BY <1>1, <2>1, <2>2 DEF Complete, CallsPrecede
  <1>9. ~e => NothingOpen(s)
    <2> SUFFICES ASSUME ~e, s # <<>> PROVE s[Len(s)] # "calls"
      BY DEF NothingOpen
    <2>1. Len(s) \in Nat \ {0}
      BY <1>5, EmptySeq
    <2>2. Len(h) >= 1 /\ s[Len(s)] = h[Len(h)]
      BY <1>1, <1>3, <1>5, <1>6, <2>1
    <2> QED BY <1>1, <2>2 DEF Complete, NothingOpen
  <1>10. Slice(h) = s
    BY DEF Slice, m, s
  <1> QED BY <1>5, <1>7, <1>8, <1>9, <1>10 DEF Complete

\* A refused workflow leaves an open history, which is then an exception.
LEMMA OpenIsException ==
    ASSUME NEW h, NEW e \in BOOLEAN, Opened(h, e)
    PROVE  Complete(h, TRUE)
  BY DEF Opened, Complete

LEMMA ExceptionStays ==
    \A h : /\ Complete(h, FALSE) => Complete(h, TRUE)
           /\ Opened(h, FALSE) => Opened(h, TRUE)
  BY DEF Opened, Complete

-----------------------------------------------------------------------------
(* What the steps of a turn have in common                                   *)

LEMMA UnsentTyped ==
    /\ Unsent \in ChatTurns /\ Unsent.at = "unsent" /\ Unsent.log = <<>> /\ Unsent.tool = "none"
    /\ Unmounted \in ChatPages /\ Unmounted.history = <<>>
    /\ NoSwitch \in [step : {"none", "read", "set", "show"}, mode : Modes, on : BOOLEAN]
  BY DEF Unsent, Unmounted, NoSwitch, ChatTurns, ChatPages, TurnPlaces, Modes

LEMMA ChatInitSound == ChatInit => ChatIInv
  <1> SUFFICES ASSUME ChatInit PROVE ChatIInv
    OBVIOUS
  <1>1. turn \in [Turns -> ChatTurns] /\ page \in [Pages -> ChatPages]
    BY UnsentTyped DEF ChatInit
  <1>2. refused \in BOOLEAN /\ modes \subseteq Modes
    BY DEF ChatInit
  <1>3. TurnsSound
    BY UnsentTyped, EmptyWhole, <1>2 DEF ChatInit, TurnsSound, TurnSound
  <1>4. HistoriesWhole
    BY UnsentTyped, EmptyWhole, <1>2 DEF ChatInit, HistoriesWhole
  <1> QED BY <1>1, <1>2, <1>3, <1>4 DEF ChatIInv, ChatTyped

\* One turn changes, and a refused workflow excuses more.
LEMMA TurnBecomes ==
    ASSUME ChatIInv, NEW t \in Turns, NEW u \in ChatTurns, turn' = [turn EXCEPT ![t] = u],
           refused' \in {refused, TRUE}, TurnSound(u, refused')
    PROVE  turn' \in [Turns -> ChatTurns] /\ turn'[t] = u /\ TurnsSound'
  <1>1. turn \in [Turns -> ChatTurns] /\ refused \in BOOLEAN /\ TurnsSound
    BY DEF ChatIInv, ChatTyped
  <1>2. \A s \in Turns : TurnSound(turn[s], refused')
    BY <1>1, ExceptionStays DEF TurnsSound, TurnSound
  <1> QED BY <1>1, <1>2 DEF TurnsSound

\* The pages keep their histories, or take one that is whole.
LEMMA PagesBecome ==
    ASSUME ChatIInv, refused' \in {refused, TRUE}, page' \in [Pages -> ChatPages],
           NEW log, Complete(log, refused'),
           \A p \in Pages : page'[p].history \in {page[p].history, log},
           chatStored' = chatStored \/ Complete(chatStored', refused')
    PROVE  HistoriesWhole'
  <1>1. refused \in BOOLEAN /\ HistoriesWhole
    BY DEF ChatIInv, ChatTyped
  <1>2. Complete(chatStored, refused') /\ \A p \in Pages : Complete(page[p].history, refused')
    BY <1>1, ExceptionStays DEF HistoriesWhole
  <1> QED BY <1>2 DEF HistoriesWhole

LEMMA PageFreedTyped ==
    ASSUME NEW r \in ChatPages, NEW h \in Seq(Entries)
    PROVE  /\ [r EXCEPT !.busy = FALSE] \in ChatPages
           /\ [r EXCEPT !.busy = FALSE].history = r.history
           /\ [r EXCEPT !.busy = FALSE, !.history = h] \in ChatPages
           /\ [r EXCEPT !.busy = FALSE, !.history = h].history = h
  BY DEF ChatPages

\* Nothing but a page's other fields changes.
LEMMA PagesChange ==
    ASSUME ChatIInv, page' \in [Pages -> ChatPages], modes' \subseteq Modes,
           \A p \in Pages : page'[p].history \in {page[p].history, chatStored, <<>>},
           chatStored' \in {chatStored, <<>>}, UNCHANGED <<turn, refused>>
    PROVE  ChatIInv'
  <1>1. ChatTyped'
    BY DEF ChatIInv, ChatTyped
  <1>2. TurnsSound'
    BY DEF ChatIInv, TurnsSound
  <1>3. HistoriesWhole'
    BY EmptyWhole DEF ChatIInv, ChatTyped, HistoriesWhole
  <1> QED BY <1>1, <1>2, <1>3 DEF ChatIInv

\* A turn takes its next step, its page and the stored history stay.
LEMMA TurnGoesOn ==
    ASSUME ChatIInv, NEW t \in Turns, NEW u \in ChatTurns, turn' = [turn EXCEPT ![t] = u],
           TurnSound(u, refused), UNCHANGED <<modes, page, chatStored, refused>>
    PROVE  ChatIInv'
  <1>1. turn' \in [Turns -> ChatTurns] /\ TurnsSound'
    BY TurnBecomes
  <1>2. ChatTyped' /\ HistoriesWhole'
    BY <1>1 DEF ChatIInv, ChatTyped, HistoriesWhole
  <1> QED BY <1>1, <1>2 DEF ChatIInv

LEMMA TurnOver ==
    ASSUME ChatIInv, NEW t \in Turns, turn' = [turn EXCEPT ![t] = [Unsent EXCEPT !.at = "over"]],
           refused' \in {refused, TRUE}
    PROVE  turn' \in [Turns -> ChatTurns] /\ TurnsSound'
  <1> DEFINE u == [Unsent EXCEPT !.at = "over"]
  <1>1. u \in ChatTurns /\ u.at = "over" /\ u.log = <<>>
    <2>1. "over" \in TurnPlaces
      BY DEF TurnPlaces
    <2> QED BY <2>1, UnsentTyped DEF ChatTurns
  <1> HIDE DEF u
  <1>2. refused' \in BOOLEAN
    BY DEF ChatIInv, ChatTyped
  <1>3. TurnSound(u, refused')
    BY <1>1, <1>2, EmptyWhole DEF TurnSound
  <1> QED BY <1>1, <1>3, TurnBecomes DEF u

LEMMA EarlyEndSound ==
    ASSUME ChatIInv, NEW t \in Turns, EndsEarly(t), UNCHANGED <<modes, refused>>
    PROVE  ChatIInv'
  <1>1. turn' \in [Turns -> ChatTurns] /\ TurnsSound'
    BY TurnOver DEF EndsEarly
  <1>2. page \in [Pages -> ChatPages]
    BY DEF ChatIInv, ChatTyped
  <1>3. page' \in [Pages -> ChatPages] /\ \A p \in Pages : page'[p].history = page[p].history
    <2>1. page' = [p \in Pages |-> IF turn[t].live /\ p \in turn[t].of
                                   THEN [page[p] EXCEPT !.busy = FALSE] ELSE page[p]]
      BY DEF EndsEarly
    <2>2. \A p \in Pages : page'[p] \in ChatPages /\ page'[p].history = page[p].history
      BY <1>2, <2>1, PageFreedTyped, EmptySeq
    <2> QED BY <2>1, <2>2
  <1>4. ChatTyped'
    BY <1>1, <1>3 DEF ChatIInv, ChatTyped
  <1>5. HistoriesWhole'
    BY <1>3 DEF ChatIInv, HistoriesWhole, EndsEarly
  <1> QED BY <1>1, <1>4, <1>5 DEF ChatIInv

LEMMA EndSound ==
    ASSUME ChatIInv, NEW t \in Turns, NEW log, TurnEnds(t, log), modes' = modes,
           refused' \in {refused, TRUE}, Complete(log, refused')
    PROVE  ChatIInv'
  <1>1. turn' \in [Turns -> ChatTurns] /\ TurnsSound'
    BY TurnOver DEF TurnEnds
  <1>2. page \in [Pages -> ChatPages] /\ log \in Seq(Entries) /\ refused' \in BOOLEAN
    BY DEF ChatIInv, ChatTyped, Complete
  <1>3. page' \in [Pages -> ChatPages] /\ \A p \in Pages : page'[p].history \in {page[p].history, log}
    <2>1. page' = [p \in Pages |-> IF turn[t].live /\ p \in turn[t].of
                                   THEN [page[p] EXCEPT !.busy = FALSE, !.history = log] ELSE page[p]]
      BY DEF TurnEnds
    <2>2. \A p \in Pages : page'[p] \in ChatPages /\ page'[p].history \in {page[p].history, log}
      BY <1>2, <2>1, PageFreedTyped
    <2> QED BY <2>1, <2>2
  <1>4. chatStored' = chatStored \/ Complete(chatStored', refused')
    BY <1>2, SliceWhole DEF TurnEnds
  <1>5. HistoriesWhole'
    BY <1>3, <1>4, PagesBecome
  <1>6. ChatTyped'
    BY <1>1, <1>2, <1>3 DEF ChatIInv, ChatTyped
  <1> QED BY <1>1, <1>5, <1>6 DEF ChatIInv

-----------------------------------------------------------------------------
(* The steps of a turn                                                       *)

LEMMA SendSound ==
    ASSUME ChatIInv, NEW p \in Pages, NEW t \in Turns, handleSend(p, t)
    PROVE  ChatIInv'
  <1> DEFINE u == [Unsent EXCEPT !.of = {p}, !.live = TRUE, !.at = "preflight",
                                 !.modes = page[p].shows, !.log = page[p].history]
  <1>1. page[p] \in ChatPages /\ Complete(page[p].history, refused)
    BY DEF ChatIInv, ChatTyped, HistoriesWhole
  <1>2. u \in ChatTurns /\ u.at = "preflight" /\ u.log = page[p].history
    BY <1>1, UnsentTyped DEF ChatTurns, ChatPages, TurnPlaces
  <1>3. /\ turn' = [turn EXCEPT ![t] = u] /\ page' = [page EXCEPT ![p].busy = TRUE]
        /\ UNCHANGED <<modes, chatStored, refused>>
    BY DEF handleSend
  <1> HIDE DEF u
  <1>4. TurnSound(u, refused)
    BY <1>1, <1>2 DEF TurnSound
  <1>5. turn' \in [Turns -> ChatTurns] /\ TurnsSound'
    BY <1>2, <1>3, <1>4, TurnBecomes
  <1>6. page' \in [Pages -> ChatPages] /\ \A q \in Pages : page'[q].history = page[q].history
    BY <1>3 DEF ChatIInv, ChatTyped, ChatPages
  <1>7. ChatTyped' /\ HistoriesWhole'
    BY <1>3, <1>5, <1>6 DEF ChatIInv, ChatTyped, HistoriesWhole
  <1> QED BY <1>5, <1>7 DEF ChatIInv

LEMMA PreflightSound ==
    ASSUME ChatIInv, NEW t \in Turns, Preflighted(t)
    PROVE  ChatIInv'
  <1>1. CASE EndsEarly(t)
    BY <1>1, EarlyEndSound DEF Preflighted
  <1>2. CASE turn' = [turn EXCEPT ![t].at = "model", ![t].log = Append(@, "user")]
             /\ UNCHANGED <<page, chatStored>>
    <2> DEFINE l == Append(turn[t].log, "user")
               u == [turn[t] EXCEPT !.at = "model", !.log = l]
    <2>1. turn[t] \in ChatTurns /\ turn \in [Turns -> ChatTurns] /\ refused \in BOOLEAN
      BY DEF ChatIInv, ChatTyped
    <2>2. Complete(turn[t].log, refused)
      BY DEF ChatIInv, TurnsSound, TurnSound, Preflighted, TurnAt
    <2>3. Complete(l, refused) /\ l \in Seq(Entries)
      BY <2>1, <2>2, SaysWhole DEF Complete
    <2>4. turn' = [turn EXCEPT ![t] = u]
      BY <1>2, <2>1
    <2> HIDE DEF l
    <2>5. u \in ChatTurns /\ u.at = "model" /\ u.log = l
      BY <2>1, <2>3 DEF ChatTurns, TurnPlaces
    <2> HIDE DEF u
    <2>6. TurnSound(u, refused)
      BY <2>3, <2>5 DEF TurnSound
    <2> QED BY <1>2, <2>4, <2>5, <2>6, TurnGoesOn DEF Preflighted
  <1> QED BY <1>1, <1>2 DEF Preflighted

LEMMA GeneratedSound ==
    ASSUME ChatIInv, NEW t \in Turns, Generated(t)
    PROVE  ChatIInv'
  <1>1. turn[t] \in ChatTurns /\ turn \in [Turns -> ChatTurns] /\ refused \in BOOLEAN
    BY DEF ChatIInv, ChatTyped
  <1>2. Complete(turn[t].log, refused)
    BY DEF ChatIInv, TurnsSound, TurnSound, Generated, TurnAt
  <1>3. CASE EndsEarly(t)
    BY <1>3, EarlyEndSound DEF Generated
  <1>4. CASE TurnEnds(t, Append(turn[t].log, "text"))
    <2>1. Complete(Append(turn[t].log, "text"), refused)
      BY <1>1, <1>2, SaysWhole
    <2> QED BY <1>4, <2>1, EndSound DEF Generated
  <1>5. ASSUME NEW n \in 1 .. MaxCalls,
               turn' = [turn EXCEPT ![t].at = "tool", ![t].log = Append(@, "calls"), ![t].todo = n],
               UNCHANGED <<page, chatStored>>
        PROVE  ChatIInv'
    <2> DEFINE l == Append(turn[t].log, "calls")
               u == [turn[t] EXCEPT !.at = "tool", !.log = l, !.todo = n]
    <2>1. Opened(l, refused) /\ l \in Seq(Entries)
      BY <1>1, <1>2, CallsOpen DEF Opened
    <2>2. turn' = [turn EXCEPT ![t] = u]
      BY <1>1, <1>5
    <2>5. n \in Nat
      BY ChatAssumption DEF ChatAssumption
    <2> HIDE DEF l
    <2>3. u \in ChatTurns /\ u.at = "tool" /\ u.log = l
      BY <1>1, <2>1, <2>5 DEF ChatTurns, TurnPlaces
    <2> HIDE DEF u
    <2>4. TurnSound(u, refused)
      BY <2>1, <2>3 DEF TurnSound
    <2> QED BY <1>5, <2>2, <2>3, <2>4, TurnGoesOn DEF Generated
  <1> QED BY <1>3, <1>4, <1>5 DEF Generated

\* While the calls of a round are being answered, nothing is added.
LEMMA OpenTurnSound ==
    ASSUME ChatIInv, NEW t \in Turns, NEW u \in ChatTurns, turn' = [turn EXCEPT ![t] = u],
           {turn[t].at, u.at} \subseteq {"tool", "policy", "control", "run"}, u.log = turn[t].log,
           UNCHANGED <<modes, page, chatStored, refused>>
    PROVE  ChatIInv'
  <1>1. TurnSound(u, refused)
    BY DEF ChatIInv, TurnsSound, TurnSound
  <1> QED BY <1>1, TurnGoesOn

LEMMA ToolCalledSound ==
    ASSUME ChatIInv, NEW t \in Turns, ToolCalled(t)
    PROVE  ChatIInv'
  <1>1. turn[t] \in ChatTurns /\ turn \in [Turns -> ChatTurns] /\ turn[t].at = "tool"
        /\ UNCHANGED <<modes, refused>>
    BY DEF ChatIInv, ChatTyped, ToolCalled, TurnAt
  <1>2. CASE EndsEarly(t)
    BY <1>1, <1>2, EarlyEndSound
  <1>3. ASSUME NEW tool \in Tools, turn' = [turn EXCEPT ![t].at = "policy", ![t].tool = tool],
               UNCHANGED <<page, chatStored>>
        PROVE  ChatIInv'
    <2> DEFINE u == [turn[t] EXCEPT !.at = "policy", !.tool = tool]
    <2>1. u \in ChatTurns /\ u.at = "policy" /\ u.log = turn[t].log
      BY <1>1 DEF ChatTurns, TurnPlaces
    <2>2. turn' = [turn EXCEPT ![t] = u]
      BY <1>1, <1>3
    <2> HIDE DEF u
    <2>3. {turn[t].at, u.at} \subseteq {"tool", "policy", "control", "run"}
      BY <1>1, <2>1
    <2>4. UNCHANGED <<modes, page, chatStored, refused>>
      BY <1>1, <1>3
    <2> QED BY <2>1, <2>2, <2>3, <2>4, OpenTurnSound
  <1> QED BY <1>2, <1>3 DEF ToolCalled

LEMMA GoesSound ==
    ASSUME ChatIInv, NEW t \in Turns, NEW place \in {"control", "run"}, TurnGoes(t, place),
           turn[t].at \in {"policy", "control"}, UNCHANGED <<modes, page, chatStored, refused>>
    PROVE  ChatIInv'
  <1> DEFINE u == [turn[t] EXCEPT !.at = place]
  <1>1. turn[t] \in ChatTurns /\ turn \in [Turns -> ChatTurns]
    BY DEF ChatIInv, ChatTyped
  <1>2. u \in ChatTurns /\ u.at = place /\ u.log = turn[t].log
    BY <1>1 DEF ChatTurns, TurnPlaces
  <1>3. turn' = [turn EXCEPT ![t] = u]
    BY <1>1 DEF TurnGoes
  <1> HIDE DEF u
  <1>4. {turn[t].at, u.at} \subseteq {"tool", "policy", "control", "run"}
    BY <1>2
  <1> QED BY <1>2, <1>3, <1>4, OpenTurnSound

LEMMA PolicySound ==
    ASSUME ChatIInv, NEW t \in Turns, PolicyAnswered(t)
    PROVE  ChatIInv'
  <1>1. CASE EndsEarly(t)
    BY <1>1, EarlyEndSound DEF PolicyAnswered
  <1>2. CASE TurnGoes(t, IF turn[t].tool = "token" THEN "control" ELSE "run") /\ UNCHANGED <<page, chatStored>>
    <2>1. turn[t].at = "policy" /\ UNCHANGED <<modes, page, chatStored, refused>>
      BY <1>2 DEF PolicyAnswered, TurnAt
    <2>2. TurnGoes(t, "control") \/ TurnGoes(t, "run")
      BY <1>2
    <2> QED BY <2>1, <2>2, GoesSound
  <1> QED BY <1>1, <1>2 DEF PolicyAnswered

LEMMA ControlSound ==
    ASSUME ChatIInv, NEW t \in Turns, ControlChecked(t)
    PROVE  ChatIInv'
  <1>1. CASE EndsEarly(t)
    BY <1>1, EarlyEndSound DEF ControlChecked
  <1>2. CASE TurnGoes(t, "run") /\ UNCHANGED <<page, chatStored>>
    BY <1>2, GoesSound DEF ControlChecked, TurnAt
  <1> QED BY <1>1, <1>2 DEF ControlChecked

LEMMA NextCallSound ==
    ASSUME ChatIInv, NEW t \in Turns, turn[t].at = "run", NextCall(t), UNCHANGED <<modes, refused>>
    PROVE  ChatIInv'
  <1>1. /\ turn[t] \in ChatTurns /\ turn \in [Turns -> ChatTurns] /\ refused \in BOOLEAN
        /\ Opened(turn[t].log, refused)
    BY DEF ChatIInv, ChatTyped, TurnsSound, TurnSound
  <1> DEFINE l == Append(turn[t].log, "results")
  <1>2. Complete(l, refused) /\ l \in Seq(Entries)
    BY <1>1, ResultsClose DEF Complete
  <1>3. CASE turn[t].todo > 1
    <2> DEFINE u == [turn[t] EXCEPT !.at = "tool", !.todo = @ - 1]
    <2>3. turn[t].todo - 1 \in Nat
      BY <1>1, <1>3 DEF ChatTurns
    <2>1. u \in ChatTurns /\ u.at = "tool" /\ u.log = turn[t].log
      BY <1>1, <2>3 DEF ChatTurns, TurnPlaces
    <2>4. turn' = [turn EXCEPT ![t].at = "tool", ![t].todo = @ - 1] /\ UNCHANGED <<page, chatStored>>
      BY <1>3 DEF NextCall
    <2>2. turn' = [turn EXCEPT ![t] = u]
      BY <1>1, <2>4
    <2> HIDE DEF u
    <2> QED BY <2>1, <2>2, <2>4, OpenTurnSound
  <1>4. CASE TurnEnds(t, l)
    BY <1>2, <1>4, EndSound
  <1>5. CASE /\ turn' = [turn EXCEPT ![t].at = "model", ![t].todo = 0, ![t].round = @ + 1,
                                     ![t].tool = "none", ![t].log = Append(@, "results")]
             /\ UNCHANGED <<page, chatStored>>
    <2> DEFINE u == [turn[t] EXCEPT !.at = "model", !.todo = 0, !.round = @ + 1, !.tool = "none", !.log = l]
    <2>1. turn' = [turn EXCEPT ![t] = u]
      BY <1>1, <1>5
    <2> HIDE DEF l
    <2>4. turn[t].round + 1 \in Nat
      BY <1>1 DEF ChatTurns
    <2>2. u \in ChatTurns /\ u.at = "model" /\ u.log = l
      BY <1>1, <1>2, <2>4 DEF ChatTurns, TurnPlaces
    <2> HIDE DEF u
    <2>3. TurnSound(u, refused)
      BY <1>2, <2>2 DEF TurnSound
    <2> QED BY <1>5, <2>1, <2>2, <2>3, TurnGoesOn
  <1> QED BY <1>3, <1>4, <1>5 DEF NextCall

LEMMA ToolRanSound ==
    ASSUME ChatIInv, NEW t \in Turns, ToolRan(t)
    PROVE  ChatIInv'
  <1>1. turn[t].at = "run" /\ modes' = modes
    BY DEF ToolRan, TurnAt
  <1>2. CASE EndsEarly(t) /\ UNCHANGED refused
    BY <1>1, <1>2, EarlyEndSound
  <1>3. CASE NextCall(t) /\ UNCHANGED refused
    BY <1>1, <1>3, NextCallSound
  <1>4. CASE TurnEnds(t, turn[t].log) /\ refused' = TRUE
    <2>1. Opened(turn[t].log, refused) /\ refused \in BOOLEAN
      BY <1>1 DEF ChatIInv, ChatTyped, TurnsSound, TurnSound
    <2>2. Complete(turn[t].log, refused')
      BY <1>4, <2>1, OpenIsException
    <2> QED BY <1>1, <1>4, <2>2, EndSound
  <1> QED BY <1>2, <1>3, <1>4 DEF ToolRan

-----------------------------------------------------------------------------
(* The steps of the pages                                                    *)

\* Every page is changed by itself, none of them its history.
LEMMA PageSound ==
    ASSUME ChatIInv, NEW p \in Pages, NEW r \in ChatPages, page' = [page EXCEPT ![p] = r],
           r.history \in {page[p].history, chatStored, <<>>}, modes' \subseteq Modes,
           chatStored' \in {chatStored, <<>>}, UNCHANGED <<turn, refused>>
    PROVE  ChatIInv'
  <1>1. page \in [Pages -> ChatPages]
    BY DEF ChatIInv, ChatTyped
  <1>2. page' \in [Pages -> ChatPages] /\ \A q \in Pages : page'[q].history \in {page[q].history, chatStored, <<>>}
    BY <1>1
  <1> QED BY <1>2, PagesChange

LEMMA MountsSound ==
    ASSUME ChatIInv, NEW p \in Pages, PageMounts(p)
    PROVE  ChatIInv'
  <1> DEFINE r == [page[p] EXCEPT !.mounted = TRUE]
  <1>1. page[p] \in ChatPages /\ page \in [Pages -> ChatPages] /\ modes \subseteq Modes
    BY DEF ChatIInv, ChatTyped
  <1>2. r \in ChatPages /\ r.history = page[p].history
    BY <1>1 DEF ChatPages
  <1>3. page' = [page EXCEPT ![p] = r] /\ UNCHANGED <<modes, chatStored, turn, refused>>
    BY <1>1 DEF PageMounts
  <1> HIDE DEF r
  <1> QED BY <1>1, <1>2, <1>3, PageSound

LEMMA LoadedSound ==
    ASSUME ChatIInv, NEW p \in Pages, ChatLoaded(p)
    PROVE  ChatIInv'
  <1> DEFINE shown == Effective(modes)
             r == [page[p] EXCEPT !.loaded = TRUE, !.shows = shown, !.history = chatStored]
  <1>1. page[p] \in ChatPages /\ page \in [Pages -> ChatPages] /\ modes \subseteq Modes
        /\ chatStored \in Seq(Entries)
    BY DEF ChatIInv, ChatTyped, HistoriesWhole, Complete
  <1>2. shown \subseteq Modes
    BY <1>1 DEF Effective
  <1>3. page' = [page EXCEPT ![p] = r] /\ UNCHANGED <<modes, chatStored, turn, refused>>
    BY <1>1 DEF ChatLoaded
  <1> HIDE DEF shown
  <1>4. r \in ChatPages /\ r.history = chatStored
    BY <1>1, <1>2 DEF ChatPages
  <1> HIDE DEF r
  <1> QED BY <1>1, <1>3, <1>4, PageSound

LEMMA HeardSound ==
    ASSUME ChatIInv, NEW p \in Pages, ModesHeard(p)
    PROVE  ChatIInv'
  <1> DEFINE shown == (page[p].shows \ page[p].news) \cup (modes \cap page[p].news)
             r == [page[p] EXCEPT !.shows = shown, !.news = {}]
  <1>1. page[p] \in ChatPages /\ page \in [Pages -> ChatPages] /\ modes \subseteq Modes
    BY DEF ChatIInv, ChatTyped
  <1>2. shown \subseteq Modes
    BY <1>1 DEF ChatPages
  <1>3. page' = [page EXCEPT ![p] = r] /\ UNCHANGED <<modes, chatStored, turn, refused>>
    BY <1>1 DEF ModesHeard
  <1> HIDE DEF shown
  <1>4. r \in ChatPages /\ r.history = page[p].history
    BY <1>1, <1>2 DEF ChatPages
  <1> HIDE DEF r
  <1> QED BY <1>1, <1>3, <1>4, PageSound

LEMMA UnmountsSound ==
    ASSUME ChatIInv, NEW p \in Pages, PageUnmounts(p)
    PROVE  ChatIInv'
  <1>1. page \in [Pages -> ChatPages] /\ turn \in [Turns -> ChatTurns] /\ refused \in BOOLEAN
    BY DEF ChatIInv, ChatTyped
  <1>2. /\ page' = [page EXCEPT ![p] = Unmounted]
        /\ turn' = [t \in Turns |-> IF p \in turn[t].of THEN [turn[t] EXCEPT !.live = FALSE] ELSE turn[t]]
        /\ UNCHANGED <<modes, chatStored, refused>>
    BY DEF PageUnmounts
  <1>3. page' \in [Pages -> ChatPages] /\ \A q \in Pages : page'[q].history \in {page[q].history, <<>>}
    BY <1>1, <1>2, UnsentTyped
  <1>4. \A t \in Turns : turn'[t] \in ChatTurns /\ turn'[t].at = turn[t].at /\ turn'[t].log = turn[t].log
    BY <1>1, <1>2 DEF ChatTurns
  <1>5. turn' \in [Turns -> ChatTurns]
    BY <1>2, <1>4
  <1>6. TurnsSound'
    BY <1>2, <1>4 DEF ChatIInv, TurnsSound, TurnSound
  <1>7. HistoriesWhole'
    BY <1>1, <1>2, <1>3, EmptyWhole DEF ChatIInv, HistoriesWhole
  <1>8. ChatTyped'
    BY <1>2, <1>3, <1>5 DEF ChatIInv, ChatTyped
  <1> QED BY <1>6, <1>7, <1>8 DEF ChatIInv

Switches == [step : {"none", "read", "set", "show"}, mode : Modes, on : BOOLEAN]

LEMMA SwitchTyped ==
    ASSUME NEW r \in ChatPages, NEW s \in Switches
    PROVE  /\ [r EXCEPT !.switch = s] \in ChatPages
           /\ [r EXCEPT !.switch = s].history = r.history
  BY DEF ChatPages, Switches

LEMMA StartsSound ==
    ASSUME ChatIInv, NEW p \in Pages, SwitchStarts(p)
    PROVE  ChatIInv'
  <1>1. page[p] \in ChatPages /\ page \in [Pages -> ChatPages] /\ modes \subseteq Modes
    BY DEF ChatIInv, ChatTyped
  <1>2. PICK m \in Modes :
            LET on == m \notin page[p].shows
            IN  page' = [page EXCEPT ![p].switch =
                            [step |-> IF on /\ m # "writes" THEN "read" ELSE "set", mode |-> m, on |-> on]]
    BY DEF SwitchStarts
  <1> DEFINE s == [step |-> IF m \notin page[p].shows /\ m # "writes" THEN "read" ELSE "set", mode |-> m,
                   on |-> m \notin page[p].shows]
             r == [page[p] EXCEPT !.switch = s]
  <1>3. s \in Switches
    BY DEF Switches
  <1>4. page' = [page EXCEPT ![p] = r] /\ UNCHANGED <<modes, chatStored, turn, refused>>
    BY <1>1, <1>2 DEF SwitchStarts
  <1> HIDE DEF s
  <1>5. r \in ChatPages /\ r.history = page[p].history
    BY <1>1, <1>3, SwitchTyped
  <1> HIDE DEF r
  <1> QED BY <1>1, <1>4, <1>5, PageSound

LEMMA SwitchReadSound ==
    ASSUME ChatIInv, NEW p \in Pages, SwitchRead(p)
    PROVE  ChatIInv'
  <1> DEFINE s == IF "writes" \in modes THEN [page[p].switch EXCEPT !.step = "set"] ELSE NoSwitch
             r == [page[p] EXCEPT !.switch = s]
  <1>1. page[p] \in ChatPages /\ page \in [Pages -> ChatPages] /\ modes \subseteq Modes
    BY DEF ChatIInv, ChatTyped
  <1>2. page[p].switch \in Switches
    BY <1>1 DEF ChatPages, Switches
  <1>3. s \in Switches
    BY <1>2, UnsentTyped DEF Switches
  <1>4. page' = [page EXCEPT ![p] = r] /\ UNCHANGED <<modes, chatStored, turn, refused>>
    BY <1>1 DEF SwitchRead
  <1> HIDE DEF s
  <1>5. r \in ChatPages /\ r.history = page[p].history
    BY <1>1, <1>3, SwitchTyped
  <1> HIDE DEF r
  <1> QED BY <1>1, <1>4, <1>5, PageSound

LEMMA ToggledTyped ==
    ASSUME NEW p \in Pages, page[p] \in ChatPages, NEW set \in SUBSET Modes
    PROVE  Toggled(p, set) \in SUBSET Modes
  BY DEF Toggled, ChatPages

LEMMA SwitchStoredSound ==
    ASSUME ChatIInv, NEW p \in Pages, SwitchStored(p)
    PROVE  ChatIInv'
  <1>1. page \in [Pages -> ChatPages] /\ modes \in SUBSET Modes
    BY DEF ChatIInv, ChatTyped
  <1>2. modes' \in SUBSET Modes
    BY <1>1, ToggledTyped DEF SwitchStored
  <1> DEFINE changed == (modes \ modes') \cup (modes' \ modes)
             turned(q) == IF q = p THEN [page[q].switch EXCEPT !.step = "show"] ELSE page[q].switch
             heard(q)  == IF page[q].mounted THEN page[q].news \cup changed ELSE page[q].news
  <1>3. page' = [q \in Pages |-> [page[q] EXCEPT !.switch = turned(q), !.news = heard(q)]]
    BY DEF SwitchStored
  <1>4. changed \subseteq Modes
    BY <1>1, <1>2
  <1> HIDE DEF changed
  <1>5. \A q \in Pages : turned(q) \in Switches /\ heard(q) \in SUBSET Modes
    BY <1>1, <1>4 DEF ChatPages, Switches
  <1> HIDE DEF turned, heard
  <1>6. \A q \in Pages : page'[q] \in ChatPages /\ page'[q].history = page[q].history
    <2> SUFFICES ASSUME NEW q \in Pages
                 PROVE  page'[q] \in ChatPages /\ page'[q].history = page[q].history
      OBVIOUS
    <2>1. page[q] \in ChatPages /\ turned(q) \in Switches /\ heard(q) \in SUBSET Modes
      BY <1>1, <1>5
    <2>2. page'[q] = [page[q] EXCEPT !.switch = turned(q), !.news = heard(q)]
      BY <1>3
    <2> QED BY <2>1, <2>2 DEF ChatPages, Switches
  <1>7. page' \in [Pages -> ChatPages]
    BY <1>3, <1>6
  <1>8. UNCHANGED <<chatStored, turn, refused>>
    BY DEF SwitchStored
  <1> QED BY <1>2, <1>6, <1>7, <1>8, PagesChange

LEMMA SwitchedSound ==
    ASSUME ChatIInv, NEW p \in Pages, Switched(p)
    PROVE  ChatIInv'
  <1>1. page[p] \in ChatPages /\ page \in [Pages -> ChatPages] /\ modes \subseteq Modes
    BY DEF ChatIInv, ChatTyped
  <1> DEFINE shown == Toggled(p, page[p].shows)
             r == [page[p] EXCEPT !.switch = NoSwitch, !.history = <<>>, !.shows = shown]
  <1>2. shown \in SUBSET Modes /\ <<>> \in Seq(Entries)
    BY <1>1, ToggledTyped, EmptySeq DEF ChatPages
  <1>3. page' = [page EXCEPT ![p] = r] /\ chatStored' = <<>> /\ UNCHANGED <<modes, turn, refused>>
    BY <1>1 DEF Switched
  <1> HIDE DEF shown
  <1>4. r \in ChatPages /\ r.history = <<>>
    BY <1>1, <1>2, UnsentTyped DEF ChatPages
  <1> HIDE DEF r
  <1> QED BY <1>1, <1>3, <1>4, PageSound

LEMMA ChatNextSound == ChatIInv /\ [ChatNext]_chatVars => ChatIInv'
  <1> SUFFICES ASSUME ChatIInv, [ChatNext]_chatVars PROVE ChatIInv'
    OBVIOUS
  <1>1. CASE UNCHANGED chatVars
    BY <1>1 DEF chatVars, ChatIInv, ChatTyped, HistoriesWhole, TurnsSound
  <1>2. ASSUME NEW p \in Pages,
               \/ PageMounts(p) \/ ChatLoaded(p) \/ PageUnmounts(p) \/ ModesHeard(p)
               \/ SwitchStarts(p) \/ SwitchRead(p) \/ SwitchStored(p) \/ Switched(p)
        PROVE  ChatIInv'
    BY <1>2, MountsSound, LoadedSound, UnmountsSound, HeardSound, StartsSound, SwitchReadSound,
       SwitchStoredSound, SwitchedSound
  <1>3. ASSUME NEW t \in Turns, TurnStep(t) PROVE ChatIInv'
    BY <1>3, PreflightSound, GeneratedSound, ToolCalledSound, PolicySound, ControlSound, ToolRanSound
       DEF TurnStep
  <1> QED BY <1>1, <1>2, <1>3, SendSound DEF ChatNext

-----------------------------------------------------------------------------
(* The theorems                                                              *)

\* Every call of a tool is answered in the history of a later request to the
\* model, however turns end, pages are unmounted and modes switched; a workflow
\* that a contract refused is the exception (runGeminiTurn, handleSend).
THEOREM ChatCallsAreAnswered == ChatSpec => []CallsAnswered
  <1>1. ChatIInv => CallsAnswered
    <2> SUFFICES ASSUME ChatIInv, NEW t \in Turns, TurnAt(t, "model"), NEW i \in DOMAIN turn[t].log
                 PROVE  /\ turn[t].log[i] = "calls" /\ ~refused
                              => i < Len(turn[t].log) /\ turn[t].log[i + 1] = "results"
                        /\ turn[t].log[i] = "results" => i = 1 \/ turn[t].log[i - 1] = "calls"
      BY DEF CallsAnswered
    <2>1. Complete(turn[t].log, refused)
      BY DEF ChatIInv, TurnsSound, TurnSound, TurnAt
    <2>2. turn[t].log \in Seq(Entries) /\ i \in 1 .. Len(turn[t].log) /\ Len(turn[t].log) \in Nat
      BY <2>1 DEF Complete
    <2>3. turn[t].log # <<>>
      BY SMTT(30), <2>2
    <2> QED BY <2>1, <2>2, <2>3 DEF Complete, ResultsFollow, CallsPrecede, NothingOpen
  <1> QED BY <1>1, ChatInitSound, ChatNextSound, PTL DEF ChatSpec

-----------------------------------------------------------------------------
(* The context of the chat                                                   *)

Named == Merchants \cup Channels \cup {NoEntity}
Contexts == [entity : Named, confidence : 0 .. 100, ids : [Levels -> Named]]
ReportRecords == [step : {"none", "get", "set", "clear"}, of : Sites \cup {Blank}, read : Contexts]

ContextTyped ==
    /\ site \in [Frames -> Sites \cup {Blank}] /\ last \in [Frames -> Sites \cup {Blank}]
    /\ report \in [Frames -> ReportRecords]
    /\ context \in Contexts
    /\ loads \in 0 .. MaxLoads /\ best \in 0 .. 100 /\ blurred \in BOOLEAN

\* A report that the worker merges is of a page with an entity.
MergesAnEntity ==
    \A f \in Frames : report[f].step \in {"get", "set"} => report[f].of \in Sites

\* With one report at a time, what a report has read is what is stored, and it is
\* not better than the report.
OneReport ==
    ~blurred =>
        /\ \A f, g \in Frames : report[f].step # "none" /\ report[g].step # "none" => f = g
        /\ \A f \in Frames : report[f].step = "set" =>
              report[f].read = context /\ shouldReplaceChatContext(context, report[f].of)

ContextIInv == ContextTyped /\ MergesAnEntity /\ OneReport /\ BestReportKept /\ IdsFitEntity

LEMMA NoContextIs ==
    /\ NoContext \in Contexts /\ NoContext.confidence = 0
    /\ NoReport \in ReportRecords /\ NoReport.step = "none"
  BY DEF NoContext, NoReport, Contexts, ReportRecords, Named, NoIds

\* What a page tells is within its type, and what it is merged to fits it.
LEMMA SiteTells ==
    ASSUME NEW p \in Sites
    PROVE  /\ p.entity \in Merchants \cup Channels
           /\ Confidence(p) \in 60 .. 100
           /\ LevelOf(p.entity) \in Levels
           /\ IdsOf(p) \in [Levels -> Named]
  <1>1. p \in [entity : Merchants \cup Channels,
               via : {"path", "edit", "query", "script", "form", "print", "anchor"}]
    BY ContextAssumption DEF ContextAssumption
  <1>2. Confidence(p) \in 60 .. 100
    BY <1>1 DEF Confidence
  <1>3. LevelOf(p.entity) \in Levels
    BY DEF LevelOf, Levels
  <1>4. \A c \in Channels : MerchantOf[c] \in Merchants
    BY ContextAssumption DEF ContextAssumption
  <1> QED BY <1>1, <1>2, <1>3, <1>4 DEF IdsOf, Named

LEMMA MergeFits ==
    ASSUME NEW current \in Contexts, NEW p \in Sites
    PROVE  LET m == mergeChatContext(current, p) IN
           /\ m \in Contexts /\ m.entity = p.entity /\ m.confidence = Confidence(p)
           /\ m.ids[LevelOf(p.entity)] = p.entity
           /\ p.entity \in Merchants => m.ids["channel"] = NoEntity
  <1> DEFINE ids == [l \in Levels |-> IF IdsOf(p)[l] # NoEntity THEN IdsOf(p)[l] ELSE current.ids[l]]
             pruned == pruneIdsForCurrentEntity(ids, p.entity)
             m == mergeChatContext(current, p)
  <1>1. current.ids \in [Levels -> Named]
    BY DEF Contexts
  <1>2. ids \in [Levels -> Named]
    BY <1>1, SiteTells
  <1>3. p.entity \in Named /\ NoEntity \in Named
    BY SiteTells DEF Named
  <1>4. pruned = [l \in Levels |-> IF l = LevelOf(p.entity) THEN p.entity
                                   ELSE IF l = "channel" THEN NoEntity ELSE ids[l]]
    BY DEF pruneIdsForCurrentEntity
  <1>5. m = [entity |-> p.entity, confidence |-> Confidence(p), ids |-> pruned]
    BY DEF mergeChatContext
  <1> HIDE DEF ids, pruned, m
  <1>6. pruned \in [Levels -> Named] /\ pruned[LevelOf(p.entity)] = p.entity
    BY <1>2, <1>3, <1>4, SiteTells
  <1>7. Confidence(p) \in 0 .. 100
    BY SiteTells
  <1>8. m \in Contexts /\ m.entity = p.entity /\ m.confidence = Confidence(p) /\ m.ids = pruned
    BY <1>3, <1>5, <1>6, <1>7 DEF Contexts
  <1>9. p.entity \in Merchants => LevelOf(p.entity) = "merchant" /\ pruned["channel"] = NoEntity
    BY <1>4, ContextAssumption DEF LevelOf, Levels, ContextAssumption
  <1> QED BY <1>6, <1>8, <1>9 DEF m

LEMMA ContextInitSound == ContextInit => ContextIInv
  <1> SUFFICES ASSUME ContextInit PROVE ContextIInv
    OBVIOUS
  <1>1. ContextTyped
    <2>1. MaxLoads \in Nat
      BY ContextAssumption DEF ContextAssumption
    <2>2. loads \in 0 .. MaxLoads /\ best \in 0 .. 100
      BY <2>1 DEF ContextInit
    <2>5. blurred \in BOOLEAN
      BY DEF ContextInit
    <2>3. context \in Contexts /\ report \in [Frames -> ReportRecords]
      BY NoContextIs DEF ContextInit
    <2>4. site \in [Frames -> Sites \cup {Blank}] /\ last \in [Frames -> Sites \cup {Blank}]
      BY DEF ContextInit
    <2> QED BY <2>2, <2>3, <2>4, <2>5 DEF ContextTyped
  <1>2. \A f \in Frames : report[f].step = "none"
    BY NoContextIs DEF ContextInit
  <1> QED BY <1>1, <1>2, NoContextIs DEF ContextInit, ContextIInv, MergesAnEntity, OneReport, BestReportKept, IdsFitEntity

-----------------------------------------------------------------------------
(* The steps                                                                 *)

LEMMA PagesKeepContext ==
    ASSUME ContextIInv, NEW f \in Frames, SiteLoaded(f) \/ SiteChanged(f) \/ SameSignature(f)
    PROVE  ContextIInv'
  <1>1. site \in [Frames -> Sites \cup {Blank}] /\ last \in [Frames -> Sites \cup {Blank}] /\ loads \in 0 .. MaxLoads
    BY DEF ContextIInv, ContextTyped
  <1>2. /\ site' \in [Frames -> Sites \cup {Blank}] /\ last' \in [Frames -> Sites \cup {Blank}]
        /\ UNCHANGED <<report, context, best, blurred>>
    BY <1>1 DEF SiteLoaded, SiteChanged, SameSignature
  <1>3. loads' \in 0 .. MaxLoads
    BY <1>1, ContextAssumption DEF SiteLoaded, SiteChanged, SameSignature, ContextAssumption
  <1> QED BY <1>2, <1>3 DEF ContextIInv, ContextTyped, MergesAnEntity, OneReport, BestReportKept, IdsFitEntity

LEMMA ReportsKeepContext ==
    ASSUME ContextIInv, NEW f \in Frames, Reports(f)
    PROVE  ContextIInv'
  <1> DEFINE r == [NoReport EXCEPT !.of = site[f], !.step = IF site[f] = Blank THEN "clear" ELSE "get"]
  <1>1. site[f] \in Sites \cup {Blank}
    BY DEF ContextIInv, ContextTyped
  <1>2. r \in ReportRecords /\ r.of = site[f] /\ r.step \in {"clear", "get"} /\ (r.step = "get" => site[f] # Blank)
    BY <1>1, NoContextIs DEF NoReport, ReportRecords
  <1>3. report' = [report EXCEPT ![f] = r] /\ last' = [last EXCEPT ![f] = site[f]]
        /\ report[f].step = "none" /\ UNCHANGED <<site, context, loads, best>>
        /\ blurred' = (blurred \/ \E g \in Frames \ {f} : report[g].step # "none")
    BY DEF Reports
  <1> HIDE DEF r
  <1>4. report' \in [Frames -> ReportRecords] /\ report'[f] = r /\ \A g \in Frames \ {f} : report'[g] = report[g]
    BY <1>2, <1>3 DEF ContextIInv, ContextTyped
  <1>5. ContextTyped'
    BY <1>1, <1>3, <1>4 DEF ContextIInv, ContextTyped
  <1>6. MergesAnEntity'
    BY <1>1, <1>2, <1>4 DEF ContextIInv, MergesAnEntity
  <1>7. OneReport'
    <2> SUFFICES ASSUME ~blurred'
                 PROVE  /\ \A g, h \in Frames : report'[g].step # "none" /\ report'[h].step # "none" => g = h
                        /\ \A g \in Frames : report'[g].step = "set" =>
                              /\ report'[g].read = context'
                              /\ shouldReplaceChatContext(context', report'[g].of)
      BY DEF OneReport, shouldReplaceChatContext
    <2>1. \A g \in Frames \ {f} : report[g].step = "none"
      BY <1>3
    <2> QED BY <2>1, <1>2, <1>4
  <1>8. BestReportKept' /\ IdsFitEntity'
    BY <1>3 DEF ContextIInv, BestReportKept, IdsFitEntity
  <1> QED BY <1>5, <1>6, <1>7, <1>8 DEF ContextIInv

\* A report is over.
LEMMA ReportOver ==
    ASSUME ContextIInv, NEW f \in Frames, report' = [report EXCEPT ![f] = NoReport]
    PROVE  /\ report' \in [Frames -> ReportRecords] /\ report'[f].step = "none"
           /\ \A g \in Frames \ {f} : report'[g] = report[g]
           /\ MergesAnEntity'
  <1>1. /\ report' \in [Frames -> ReportRecords] /\ report'[f] = NoReport
        /\ \A g \in Frames \ {f} : report'[g] = report[g]
    BY NoContextIs DEF ContextIInv, ContextTyped
  <1> QED BY <1>1, NoContextIs DEF ContextIInv, MergesAnEntity

LEMMA ClearKeepsContext ==
    ASSUME ContextIInv, NEW f \in Frames, ClearTab(f)
    PROVE  ContextIInv'
  <1>1. /\ report' = [report EXCEPT ![f] = NoReport] /\ context' = NoContext /\ best' = 0
        /\ blurred' = \E g \in Frames \ {f} : report[g].step # "none"
        /\ UNCHANGED <<site, last, loads>>
    BY DEF ClearTab
  <1>2. ContextTyped'
    BY <1>1, ReportOver, NoContextIs DEF ContextIInv, ContextTyped
  <1>3. ~blurred' => \A g \in Frames : report'[g].step = "none"
    BY <1>1, ReportOver
  <1>4. OneReport'
    BY <1>3 DEF OneReport
  <1> QED BY <1>1, <1>2, <1>4, ReportOver, NoContextIs DEF ContextIInv, BestReportKept, IdsFitEntity

LEMMA ReadKeepsContext ==
    ASSUME ContextIInv, NEW f \in Frames, ContextRead(f)
    PROVE  ContextIInv'
  <1>1. report[f].of \in Sites /\ report[f].step = "get" /\ UNCHANGED <<site, last, context, loads, blurred>>
    BY DEF ContextIInv, MergesAnEntity, ContextRead
  <1>2. Confidence(report[f].of) \in 60 .. 100 /\ context.confidence \in 0 .. 100 /\ best \in 0 .. 100
    BY <1>1, SiteTells DEF ContextIInv, ContextTyped, Contexts
  <1>3. IdsFitEntity'
    BY <1>1 DEF ContextIInv, IdsFitEntity
  <1>4. CASE shouldReplaceChatContext(context, report[f].of)
    <2> DEFINE r == [report[f] EXCEPT !.step = "set", !.read = context]
    <2>1. report' = [report EXCEPT ![f] = r] /\ best' = best
      <3>1. report' = [report EXCEPT ![f].step = "set", ![f].read = context] /\ best' = best
        BY <1>4 DEF ContextRead
      <3>2. report \in [Frames -> ReportRecords]
        BY DEF ContextIInv, ContextTyped
      <3> QED BY <3>1, <3>2 DEF ReportRecords
    <2>2. r \in ReportRecords /\ r.step = "set" /\ r.read = context /\ r.of = report[f].of
      BY DEF ContextIInv, ContextTyped, ReportRecords
    <2> HIDE DEF r
    <2>3. report' \in [Frames -> ReportRecords] /\ report'[f] = r /\ \A g \in Frames \ {f} : report'[g] = report[g]
      BY <2>1, <2>2 DEF ContextIInv, ContextTyped
    <2>4. ContextTyped' /\ MergesAnEntity' /\ BestReportKept'
      BY <1>1, <2>1, <2>2, <2>3 DEF ContextIInv, ContextTyped, MergesAnEntity, BestReportKept
    <2>5. OneReport'
      <3> SUFFICES ASSUME ~blurred
                   PROVE  /\ \A g, h \in Frames : report'[g].step # "none" /\ report'[h].step # "none" => g = h
                          /\ \A g \in Frames : report'[g].step = "set" =>
                                /\ report'[g].read = context
                                /\ shouldReplaceChatContext(context, report'[g].of)
        BY <1>1 DEF OneReport, shouldReplaceChatContext
      <3>1. \A g \in Frames : report[g].step # "none" => g = f
        BY <1>1 DEF ContextIInv, OneReport
      <3>2. \A g \in Frames \ {f} : report'[g].step = "none"
        BY <2>3, <3>1
      <3> QED BY <1>4, <2>2, <2>3, <3>2
    <2> QED BY <1>3, <2>4, <2>5 DEF ContextIInv
  <1>5. CASE ~shouldReplaceChatContext(context, report[f].of)
    <2>1. /\ report' = [report EXCEPT ![f] = NoReport]
          /\ best' = IF best > Confidence(report[f].of) THEN best ELSE Confidence(report[f].of)
      BY <1>5 DEF ContextRead
    <2>2. Confidence(report[f].of) < context.confidence
      BY <1>2, <1>5 DEF shouldReplaceChatContext
    <2>3. ContextTyped'
      <3>1. best' \in 0 .. 100
        BY <1>2, <2>1
      <3>2. report' \in [Frames -> ReportRecords]
        BY <2>1, ReportOver
      <3> QED BY <1>1, <3>1, <3>2 DEF ContextIInv, ContextTyped
    <2>4. BestReportKept'
      BY <1>1, <1>2, <2>1, <2>2 DEF ContextIInv, BestReportKept
    <2>5. OneReport'
      <3> SUFFICES ASSUME ~blurred
                   PROVE  \A g \in Frames : report'[g].step = "none"
        BY <1>1 DEF OneReport
      <3> QED BY <1>1, <2>1, ReportOver DEF ContextIInv, OneReport
    <2> QED BY <1>3, <2>1, <2>3, <2>4, <2>5, ReportOver DEF ContextIInv
  <1> QED BY <1>4, <1>5

LEMMA StoreKeepsContext ==
    ASSUME ContextIInv, NEW f \in Frames, ContextStored(f)
    PROVE  ContextIInv'
  <1> DEFINE p == report[f].of
             m == mergeChatContext(report[f].read, p)
  <1>1. p \in Sites /\ report[f].step = "set" /\ report[f].read \in Contexts
    BY DEF ContextIInv, ContextTyped, ReportRecords, MergesAnEntity, ContextStored
  <1>2. /\ report' = [report EXCEPT ![f] = NoReport] /\ context' = m
        /\ best' = IF best > Confidence(p) THEN best ELSE Confidence(p)
        /\ UNCHANGED <<site, last, loads, blurred>>
    BY DEF ContextStored
  <1>3. Confidence(p) \in 60 .. 100 /\ context.confidence \in 0 .. 100 /\ best \in 0 .. 100
    BY <1>1, SiteTells DEF ContextIInv, ContextTyped, Contexts
  <1>4. /\ m \in Contexts /\ m.entity = p.entity /\ m.confidence = Confidence(p)
        /\ m.ids[LevelOf(p.entity)] = p.entity
        /\ p.entity \in Merchants => m.ids["channel"] = NoEntity
    BY <1>1, MergeFits
  <1> HIDE DEF m
  <1>5. ContextTyped'
    <2>1. best' \in 0 .. 100
      BY <1>2, <1>3
    <2>2. report' \in [Frames -> ReportRecords] /\ context' \in Contexts
      BY <1>2, <1>4, ReportOver
    <2> QED BY <1>2, <2>1, <2>2 DEF ContextIInv, ContextTyped
  <1>6. IdsFitEntity'
    BY <1>2, <1>4 DEF IdsFitEntity
  <1>7. OneReport' /\ BestReportKept'
    <2> SUFFICES ASSUME ~blurred
                 PROVE  (\A g \in Frames : report'[g].step = "none") /\ best' = Confidence(p)
      BY <1>2, <1>4 DEF OneReport, BestReportKept
    <2>1. \A g \in Frames : report'[g].step = "none"
      BY <1>1, <1>2, ReportOver DEF ContextIInv, OneReport
    <2>2. shouldReplaceChatContext(context, p)
      BY <1>1 DEF ContextIInv, OneReport
    <2>3. context.confidence = best
      BY DEF ContextIInv, BestReportKept
    <2>4. Confidence(p) >= best
      BY <1>3, <2>2, <2>3, NoContextIs DEF shouldReplaceChatContext
    <2> QED BY <1>2, <1>3, <2>1, <2>4
  <1> QED BY <1>2, <1>5, <1>6, <1>7, ReportOver DEF ContextIInv

LEMMA ContextNextSound == ContextIInv /\ [ContextNext]_contextVars => ContextIInv'
  <1> SUFFICES ASSUME ContextIInv, [ContextNext]_contextVars PROVE ContextIInv'
    OBVIOUS
  <1>1. CASE UNCHANGED contextVars
    BY <1>1 DEF contextVars, ContextIInv, ContextTyped, MergesAnEntity, OneReport, BestReportKept, IdsFitEntity
  <1>2. CASE ContextNext
    BY <1>2, PagesKeepContext, ReportsKeepContext, ClearKeepsContext, ReadKeepsContext, StoreKeepsContext
       DEF ContextNext
  <1> QED BY <1>1, <1>2

\* The record of a tab has the best confidence that any frame reported since one
\* last had no entity, unless reports overlapped, and always names its own entity
\* and nothing below it (upsertChatContext, mergeChatContext).
THEOREM ContextStaysSound == ContextSpec => []ContextIsSound
  <1>1. ContextIInv => ContextIsSound
    BY DEF ContextIInv, ContextIsSound
  <1> QED BY <1>1, ContextInitSound, ContextNextSound, PTL DEF ContextSpec

-----------------------------------------------------------------------------
(* Jobs as the side panels see them                                          *)

JobRecords == [state : JobStates, env : Connections, runs : Connections]
JobLists == [JobIds -> JobStates]
Clicks ==
    [step : {"none", "model", "env", "creds", "asked", "answered", "fresh"},
     kind : {"none", "draft", "start", "resume", "pause", "cancel", "cancelById"},
     job : JobIds \cup {NoJob}, env : Connections, tries : Nat, answer : JobIds \cup {NoJob},
     made : Nat, seenEnv : SUBSET Connections, gone : BOOLEAN]
SidePanels ==
    [active : JobIds \cup {NoJob}, port : BOOLEAN, jobs : JobLists, watched : SUBSET JobIds,
     told : JobLists, review : [on : BOOLEAN, env : Connections, blocked : BOOLEAN], click : Clicks]

PanelTyped ==
    /\ job \in [JobIds -> JobRecords]
    /\ slot \in JobIds \cup {NoJob} /\ connection \in Connections
    /\ panel \in [Windows -> SidePanels]
    /\ news \in [Windows -> Seq(JobLists)]
    /\ ask \in [Windows -> [1 .. MaxAsks -> JobIds \cup {NoJob, Asked, Unasked}]]

\* The last that a panel will hear of the jobs is how they are stored.
NewsIsLatest == \A w \in Windows : news[w] # <<>> => news[w][Len(news[w])] = States(job)

\* From the click on Start to the reading of the environment the active one is
\* among those seen; what the worker is asked for, and answers, are jobs.
ClickSound(c) ==
    /\ c.kind = "start" /\ c.step = "env" => connection \in c.seenEnv
    /\ c.kind = "start" /\ c.step \in {"creds", "asked", "answered", "fresh"} => c.env \in c.seenEnv
    /\ c.step = "fresh" => c.answer \in JobIds
    /\ c.kind \in {"resume", "cancelById"} => c.job \in JobIds
ClicksSound == \A w \in Windows : ClickSound(panel[w].click)

PanelIInv == PanelTyped /\ NewsIsLatest /\ FinalAnnounced /\ ClicksSound

LEMMA PanelInitSound == PanelInit => PanelIInv
  <1> SUFFICES ASSUME PanelInit PROVE PanelIInv
    OBVIOUS
  <1>1. NoClick \in Clicks /\ NoReview \in [on : BOOLEAN, env : Connections, blocked : BOOLEAN]
    BY DEF NoClick, NoReview, Clicks, Connections
  <1>2. [j \in JobIds |-> "none"] \in JobLists
    BY DEF JobLists, JobStates
  <1> DEFINE p == Fresh(NotTold)
  <1>3. p \in SidePanels /\ p.click = NoClick /\ p.watched = {}
    BY <1>1, <1>2 DEF SidePanels, Fresh, NotTold
  <1>4. panel = [w \in Windows |-> p]
    BY DEF PanelInit
  <1> HIDE DEF p
  <1>5. panel \in [Windows -> SidePanels]
    BY <1>3, <1>4
  <1>6. news \in [Windows -> Seq(JobLists)] /\ \A w \in Windows : news[w] = <<>>
    BY DEF PanelInit
  <1>7. job \in [JobIds -> JobRecords] /\ slot \in JobIds \cup {NoJob} /\ connection \in Connections
    BY DEF PanelInit, JobRecords, JobStates, Connections
  <1>8. ask \in [Windows -> [1 .. MaxAsks -> JobIds \cup {NoJob, Asked, Unasked}]]
    BY DEF PanelInit
  <1>9. ClicksSound
    BY <1>3, <1>4 DEF ClicksSound, ClickSound, NoClick
  <1>10. FinalAnnounced /\ NewsIsLatest
    BY <1>3, <1>4, <1>6 DEF FinalAnnounced, NewsIsLatest
  <1> QED BY <1>5, <1>6, <1>7, <1>8, <1>9, <1>10 DEF PanelIInv, PanelTyped

-----------------------------------------------------------------------------

\* A step of one panel is one of its record.
LEMMA PanelBecomes ==
    ASSUME PanelIInv, NEW w \in Windows, NEW p \in SidePanels, panel' = [panel EXCEPT ![w] = p],
           ClickSound(p.click), UNCHANGED connection
    PROVE  panel' \in [Windows -> SidePanels] /\ ClicksSound'
  <1>1. panel \in [Windows -> SidePanels]
    BY DEF PanelIInv, PanelTyped
  <1>2. /\ panel' \in [Windows -> SidePanels] /\ panel'[w] = p
        /\ \A v \in Windows \ {w} : panel'[v] = panel[v]
    BY <1>1
  <1>3. \A v \in Windows : ClickSound(panel'[v].click)
    BY <1>2 DEF PanelIInv, ClicksSound
  <1> QED BY <1>2, <1>3 DEF ClicksSound, ClickSound

\* A panel keeps what it has told while it hears nothing.
LEMMA JobsKept ==
    ASSUME PanelIInv, UNCHANGED <<job, news>>,
           \A w \in Windows : panel'[w].watched = panel[w].watched /\ panel'[w].told = panel[w].told
    PROVE  /\ job' \in [JobIds -> JobRecords] /\ news' \in [Windows -> Seq(JobLists)]
           /\ NewsIsLatest' /\ FinalAnnounced'
  <1>1. job' = job /\ news' = news
    OBVIOUS
  <1>2. States(job)' = States(job)
    BY <1>1 DEF States
  <1>3. NewsIsLatest'
    BY <1>1, <1>2 DEF PanelIInv, NewsIsLatest
  <1>4. FinalAnnounced'
    BY <1>1 DEF PanelIInv, FinalAnnounced
  <1> QED BY <1>1, <1>3, <1>4 DEF PanelIInv, PanelTyped

\* What is stored will be heard of.
LEMMA JobsHeard ==
    ASSUME PanelIInv, NEW jobs \in [JobIds -> JobRecords], JobsStored(jobs)
    PROVE  /\ job' \in [JobIds -> JobRecords] /\ news' \in [Windows -> Seq(JobLists)]
           /\ NewsIsLatest' /\ FinalAnnounced'
  <1>1. States(jobs) \in JobLists
    BY DEF States, JobLists, JobRecords
  <1>2. news \in [Windows -> Seq(JobLists)]
    BY DEF PanelIInv, PanelTyped
  <1>3. ASSUME NEW w \in Windows
        PROVE  /\ news'[w] \in Seq(JobLists) /\ news'[w] # <<>>
               /\ news'[w][Len(news'[w])] = States(jobs)
    <2>1. news[w] \in Seq(JobLists) /\ news'[w] = Append(news[w], States(jobs))
      BY <1>2 DEF JobsStored
    <2> HIDE DEF States
    <2> QED BY <1>1, <2>1, AppendProperties
  <1>4. news' = [w \in Windows |-> news'[w]]
    BY DEF JobsStored
  <1>5. States(jobs) = States(job)'
    BY DEF States, JobsStored
  <1>6. news' \in [Windows -> Seq(JobLists)]
    BY <1>3, <1>4
  <1>7. NewsIsLatest'
    BY <1>3, <1>5 DEF NewsIsLatest
  <1>8. FinalAnnounced'
    BY <1>3 DEF FinalAnnounced
  <1> QED BY <1>6, <1>7, <1>8 DEF JobsStored

-----------------------------------------------------------------------------
(* The worker                                                                *)

LEMMA RunEndsSound == ASSUME PanelIInv, RunEnds PROVE PanelIInv'
  <1>1. /\ job \in [JobIds -> JobRecords] /\ slot \in JobIds
        /\ UNCHANGED <<slot, connection, panel, ask>>
    BY DEF RunEnds, PanelIInv, PanelTyped, countVars
  <1>2. PICK s \in {"completed", "partial", "failed", "paused"} : JobsStored([job EXCEPT ![slot].state = s])
    BY DEF RunEnds
  <1>3. [job EXCEPT ![slot].state = s] \in [JobIds -> JobRecords]
    BY <1>1 DEF JobRecords, JobStates
  <1>4. /\ job' \in [JobIds -> JobRecords] /\ news' \in [Windows -> Seq(JobLists)]
        /\ NewsIsLatest' /\ FinalAnnounced'
    BY <1>2, <1>3, JobsHeard
  <1>5. ClicksSound'
    BY <1>1 DEF PanelIInv, ClicksSound, ClickSound
  <1> QED BY <1>1, <1>4, <1>5 DEF PanelIInv, PanelTyped

LEMMA SlotFreedSound == ASSUME PanelIInv, SlotFreed PROVE PanelIInv'
  <1>1. slot' = NoJob /\ UNCHANGED <<job, connection, panel, news, ask>>
    BY DEF SlotFreed, countVars
  <1>2. job' \in [JobIds -> JobRecords] /\ news' \in [Windows -> Seq(JobLists)] /\ NewsIsLatest' /\ FinalAnnounced'
    BY <1>1, JobsKept
  <1>3. ClicksSound'
    BY <1>1 DEF PanelIInv, ClicksSound, ClickSound
  <1> QED BY <1>1, <1>2, <1>3 DEF PanelIInv, PanelTyped

\* The worker's answer to a request, and what it has stored by then.
AnswerIs(w, j, n) == panel' = [panel EXCEPT ![w].click = [@ EXCEPT !.step = "answered", !.answer = j, !.made = n]]

LEMMA AnsweredSound ==
    ASSUME PanelIInv, NEW w \in Windows, Click(w).step = "asked", NEW j \in JobIds \cup {NoJob}, NEW n \in Nat,
           AnswerIs(w, j, n),
           slot' \in JobIds \cup {NoJob}, UNCHANGED <<connection, ask>>,
           \/ UNCHANGED <<job, news>>
           \/ \E jobs \in [JobIds -> JobRecords] : JobsStored(jobs)
    PROVE  PanelIInv'
  <1> DEFINE c == [panel[w].click EXCEPT !.step = "answered", !.answer = j, !.made = n]
             p == [panel[w] EXCEPT !.click = c]
  <1>1. panel[w] \in SidePanels /\ panel[w].click \in Clicks /\ ClickSound(panel[w].click)
    BY DEF PanelIInv, PanelTyped, SidePanels, ClicksSound
  <1>2. /\ c \in Clicks /\ c.step = "answered" /\ c.kind = panel[w].click.kind /\ c.env = panel[w].click.env
        /\ c.seenEnv = panel[w].click.seenEnv /\ c.job = panel[w].click.job
    BY <1>1 DEF Clicks
  <1>3. ClickSound(c)
    BY <1>1, <1>2 DEF ClickSound, Click
  <1>4. panel' = [panel EXCEPT ![w] = p]
    BY DEF AnswerIs
  <1> HIDE DEF c
  <1>5. /\ p \in SidePanels /\ p.click = c
        /\ p.watched = panel[w].watched /\ p.told = panel[w].told
    BY <1>1, <1>2 DEF SidePanels
  <1> HIDE DEF p
  <1>6. panel' \in [Windows -> SidePanels] /\ ClicksSound'
    BY <1>3, <1>4, <1>5, PanelBecomes
  <1>7. \A v \in Windows : panel'[v].watched = panel[v].watched /\ panel'[v].told = panel[v].told
    BY <1>4, <1>5 DEF PanelIInv, PanelTyped
  <1>8. job' \in [JobIds -> JobRecords] /\ news' \in [Windows -> Seq(JobLists)] /\ NewsIsLatest' /\ FinalAnnounced'
    BY <1>7, JobsKept, JobsHeard
  <1>9. connection' \in Connections /\ ask' \in [Windows -> [1 .. MaxAsks -> JobIds \cup {NoJob, Asked, Unasked}]]
    BY DEF PanelIInv, PanelTyped
  <1> QED BY <1>6, <1>8, <1>9 DEF PanelIInv, PanelTyped

LEMMA ClickServedSound == ASSUME PanelIInv, NEW w \in Windows, ClickServed(w) PROVE PanelIInv'
  <1> DEFINE c == panel[w].click
  <1>1. /\ panel \in [Windows -> SidePanels] /\ c \in Clicks /\ ClickSound(c)
        /\ job \in [JobIds -> JobRecords] /\ slot \in JobIds \cup {NoJob}
        /\ Click(w) = c /\ c.step = "asked" /\ UNCHANGED <<connection, ask>>
    BY DEF PanelIInv, PanelTyped, SidePanels, ClicksSound, ClickServed, countVars, Click
  <1>2. /\ c.made \in Nat /\ c.made + 1 \in Nat /\ c.job \in JobIds \cup {NoJob} /\ c.env \in Connections
        /\ c.kind \in {"resume", "cancelById"} => c.job \in JobIds
    BY <1>1 DEF Clicks, ClickSound
  <1>3. ASSUME NEW j \in JobIds \cup {NoJob}, Answers(w, j), slot' \in JobIds \cup {NoJob},
               \/ UNCHANGED <<job, news>>
               \/ \E jobs \in [JobIds -> JobRecords] : JobsStored(jobs)
        PROVE  PanelIInv'
    <2>1. AnswerIs(w, j, c.made)
      <3> DEFINE d == [c EXCEPT !.step = "answered", !.answer = j]
                 e == [c EXCEPT !.step = "answered", !.answer = j, !.made = c.made]
      <3>1. d = e
        BY <1>1 DEF Clicks
      <3>2. panel[w] \in SidePanels
        BY <1>1
      <3>3. panel' = [panel EXCEPT ![w] = [panel[w] EXCEPT !.click = d]]
        BY <1>1, <1>3, <3>2 DEF Answers, SidePanels, Clicks
      <3>4. panel' = [panel EXCEPT ![w] = [panel[w] EXCEPT !.click = e]]
        BY <3>1, <3>3
      <3> QED BY <3>4 DEF AnswerIs
    <2> QED BY <1>1, <1>2, <1>3, <2>1, AnsweredSound
  <1>4. ASSUME NEW j \in JobIds, NEW s \in JobStates PROVE [job EXCEPT ![j].state = s] \in [JobIds -> JobRecords]
    BY <1>1 DEF JobRecords
  <1>5. CASE StartServed(w)
    <2>1. CASE slot # NoJob /\ Answers(w, NoJob) /\ UNCHANGED <<job, slot, news>>
      BY <1>1, <1>3, <2>1
    <2>2. CASE slot = NoJob /\ ~(slot # NoJob /\ Answers(w, NoJob) /\ UNCHANGED <<job, slot, news>>)
      <3> DEFINE jobs(j) == [job EXCEPT ![j] = [state |-> "running", env |-> c.env, runs |-> c.env]]
      <3>1. PICK j \in JobIds :
                /\ slot' = j /\ JobsStored(jobs(j))
                /\ panel' = [panel EXCEPT ![w].click.step = "answered", ![w].click.answer = j,
                                          ![w].click.made = @ + 1]
        BY <1>1, <1>5, <2>2 DEF StartServed
      <3>2. jobs(j) \in [JobIds -> JobRecords]
        BY <1>1, <1>2 DEF JobRecords, JobStates
      <3>3. AnswerIs(w, j, c.made + 1)
        BY <1>1, <3>1 DEF SidePanels, Clicks, AnswerIs
      <3> HIDE DEF jobs
      <3> QED BY <1>1, <1>2, <3>1, <3>2, <3>3, AnsweredSound
    <2> QED BY <1>5, <2>1, <2>2 DEF StartServed
  <1>6. CASE c.kind = "resume" /\ ResumeServed(w)
    <2>1. c.job \in JobIds
      BY <1>2, <1>6
    <2>2. CASE slot # NoJob \/ job[c.job].state \notin {"paused", "failed"}
      BY <1>1, <1>3, <1>6, <2>2 DEF ResumeServed
    <2>3. CASE ~(slot # NoJob \/ job[c.job].state \notin {"paused", "failed"})
      <3> DEFINE jobs == [job EXCEPT ![c.job].state = "running", ![c.job].runs = c.env]
      <3>1. slot' = c.job /\ JobsStored(jobs) /\ Answers(w, c.job)
        BY <1>1, <1>6, <2>3 DEF ResumeServed
      <3>2. [job[c.job] EXCEPT !.state = "running", !.runs = c.env] \in JobRecords
        BY <1>1, <1>2, <2>1 DEF JobRecords, JobStates
      <3>3. jobs = [job EXCEPT ![c.job] = [job[c.job] EXCEPT !.state = "running", !.runs = c.env]]
        BY <1>1, <2>1
      <3>4. jobs \in [JobIds -> JobRecords]
        BY <1>1, <3>2, <3>3
      <3> HIDE DEF jobs
      <3> QED BY <1>3, <2>1, <3>1, <3>4
    <2> QED BY <2>2, <2>3
  <1>7. ASSUME NEW s \in {"paused", "cancelled"}, StopServed(w, s) PROVE PanelIInv'
    <2> DEFINE j == IF c.kind = "cancelById" THEN c.job ELSE slot
    <2>1. /\ Answers(w, c.job) /\ slot' \in JobIds \cup {NoJob} /\ j \in JobIds \cup {NoJob}
          /\ IF j = NoJob \/ (s = "paused" /\ job[j].state # "running") THEN UNCHANGED <<job, news>>
             ELSE JobsStored([job EXCEPT ![j].state = s])
      BY <1>1, <1>2, <1>7 DEF StopServed
    <2> HIDE DEF j
    <2>2. \/ UNCHANGED <<job, news>>
          \/ j \in JobIds /\ JobsStored([job EXCEPT ![j].state = s])
      BY <2>1
    <2>3. \/ UNCHANGED <<job, news>>
          \/ \E jobs \in [JobIds -> JobRecords] : JobsStored(jobs)
      BY <1>4, <2>2 DEF JobStates
    <2> QED BY <1>2, <1>3, <2>1, <2>3
  <1>8. \/ StartServed(w)
        \/ c.kind = "resume" /\ ResumeServed(w)
        \/ StopServed(w, "paused") \/ StopServed(w, "cancelled")
    BY <1>1 DEF ClickServed, Clicks
  <1> QED BY <1>5, <1>6, <1>7, <1>8

LEMMA AskServedSound == ASSUME PanelIInv, NEW w \in Windows, AskServed(w) PROVE PanelIInv'
  <1>1. /\ UNCHANGED <<job, slot, connection, panel, news>>
        /\ ask \in [Windows -> [1 .. MaxAsks -> JobIds \cup {NoJob, Asked, Unasked}]]
        /\ slot \in JobIds \cup {NoJob}
    BY DEF AskServed, countVars, PanelIInv, PanelTyped
  <1>2. PICK i \in 1 .. MaxAsks : ask' = [ask EXCEPT ![w][i] = slot]
    BY DEF AskServed
  <1>3. ask' \in [Windows -> [1 .. MaxAsks -> JobIds \cup {NoJob, Asked, Unasked}]]
    BY <1>1, <1>2
  <1>4. job' \in [JobIds -> JobRecords] /\ news' \in [Windows -> Seq(JobLists)] /\ NewsIsLatest' /\ FinalAnnounced'
    BY <1>1, JobsKept
  <1>5. ClicksSound'
    BY <1>1 DEF PanelIInv, ClicksSound, ClickSound
  <1> QED BY <1>1, <1>3, <1>4, <1>5 DEF PanelIInv, PanelTyped

LEMMA WorkerStopsSound == ASSUME PanelIInv, WorkerStops PROVE PanelIInv'
  <1>1. /\ panel \in [Windows -> SidePanels] /\ job \in [JobIds -> JobRecords]
        /\ slot' = NoJob /\ UNCHANGED <<connection, ask>>
    BY DEF WorkerStops, PanelIInv, PanelTyped
  <1> DEFINE c(w) == IF panel[w].click.step # "answered" THEN panel[w].click
                     ELSE IF panel[w].click.tries + 1 = MaxTries THEN NoClick
                     ELSE [panel[w].click EXCEPT !.step = "asked", !.tries = panel[w].click.tries + 1]
             p(w) == [panel[w] EXCEPT !.port = FALSE, !.click = c(w)]
  <1>2. panel' = [w \in Windows |-> p(w)]
    BY DEF WorkerStops
  <1>3. ASSUME NEW w \in Windows PROVE c(w) \in Clicks /\ ClickSound(c(w))
    <2>1. panel[w].click \in Clicks /\ ClickSound(panel[w].click)
      <3>1. panel[w] \in SidePanels
        BY <1>1
      <3>2. ClickSound(panel[w].click)
        BY DEF PanelIInv, ClicksSound
      <3> QED BY <3>1, <3>2 DEF SidePanels
    <2>2. NoClick \in Clicks /\ ClickSound(NoClick)
      <3>1. NoClick \in Clicks
        BY DEF NoClick, Clicks, Connections
      <3>2. ClickSound(NoClick)
        BY DEF NoClick, ClickSound
      <3> QED BY <3>1, <3>2
    <2> DEFINE again == [panel[w].click EXCEPT !.step = "asked", !.tries = panel[w].click.tries + 1]
    <2>3. CASE panel[w].click.step = "answered"
      <3>1. again \in Clicks
        <4>1. panel[w].click.tries + 1 \in Nat
          BY <2>1 DEF Clicks
        <4> QED BY <2>1, <4>1 DEF Clicks
      <3>2. /\ again.step = "asked" /\ again.kind = panel[w].click.kind /\ again.env = panel[w].click.env
            /\ again.seenEnv = panel[w].click.seenEnv /\ again.job = panel[w].click.job
        BY <2>1 DEF Clicks
      <3> HIDE DEF again
      <3>3. ClickSound(again)
        BY <2>1, <2>3, <3>2 DEF ClickSound
      <3> QED BY <2>2, <2>3, <3>1, <3>3 DEF again
    <2> QED BY <2>1, <2>3
  <1> HIDE DEF c
  <1>4. ASSUME NEW w \in Windows
        PROVE  /\ p(w) \in SidePanels /\ p(w).click = c(w)
               /\ p(w).watched = panel[w].watched /\ p(w).told = panel[w].told
    BY <1>1, <1>3 DEF SidePanels
  <1> HIDE DEF p
  <1>5. panel' \in [Windows -> SidePanels]
    BY <1>2, <1>4
  <1>6. ClicksSound'
    BY <1>1, <1>2, <1>3, <1>4 DEF ClicksSound, ClickSound
  <1>7. \A w \in Windows : panel'[w].watched = panel[w].watched /\ panel'[w].told = panel[w].told
    BY <1>2, <1>4
  <1> DEFINE jobs == [j \in JobIds |-> IF job[j].state = "running" THEN [job[j] EXCEPT !.state = "paused"] ELSE job[j]]
  <1>8. jobs \in [JobIds -> JobRecords]
    BY <1>1 DEF JobRecords, JobStates
  <1>9. UNCHANGED <<job, news>> \/ JobsStored(jobs)
    BY DEF WorkerStops
  <1> HIDE DEF jobs
  <1>10. job' \in [JobIds -> JobRecords] /\ news' \in [Windows -> Seq(JobLists)] /\ NewsIsLatest' /\ FinalAnnounced'
    BY <1>7, <1>8, <1>9, JobsKept, JobsHeard
  <1>11. connection' \in Connections /\ ask' \in [Windows -> [1 .. MaxAsks -> JobIds \cup {NoJob, Asked, Unasked}]]
    BY <1>1 DEF PanelIInv, PanelTyped
  <1> QED BY <1>1, <1>5, <1>6, <1>10, <1>11 DEF PanelIInv, PanelTyped

-----------------------------------------------------------------------------
(* The runner, the chat and the Jobs tab                                     *)

LEMMA PanelActs ==
    ASSUME PanelIInv, NEW w \in Windows, NEW p \in SidePanels, panel' = [panel EXCEPT ![w] = p],
           ClickSound(p.click), p.watched = panel[w].watched, p.told = panel[w].told,
           UNCHANGED <<job, slot, connection, news>>,
           ask' \in [Windows -> [1 .. MaxAsks -> JobIds \cup {NoJob, Asked, Unasked}]]
    PROVE  PanelIInv'
  <1>1. panel' \in [Windows -> SidePanels] /\ ClicksSound'
    BY PanelBecomes
  <1>2. \A v \in Windows : panel'[v].watched = panel[v].watched /\ panel'[v].told = panel[v].told
    BY DEF PanelIInv, PanelTyped
  <1>3. job' \in [JobIds -> JobRecords] /\ news' \in [Windows -> Seq(JobLists)] /\ NewsIsLatest' /\ FinalAnnounced'
    BY <1>2, JobsKept
  <1>4. connection' \in Connections /\ slot' \in JobIds \cup {NoJob}
    BY DEF PanelIInv, PanelTyped
  <1> QED BY <1>1, <1>3, <1>4 DEF PanelIInv, PanelTyped

\* A click that begins or goes on.
LEMMA ClickGoesOn ==
    ASSUME PanelIInv, NEW w \in Windows, NEW c \in Clicks, ClickSound(c),
           NEW port \in BOOLEAN, NEW on \in [on : BOOLEAN, env : Connections, blocked : BOOLEAN],
           NEW a \in JobIds \cup {NoJob},
           panel' = [panel EXCEPT ![w] = [panel[w] EXCEPT !.click = c, !.port = port, !.review = on, !.active = a]],
           UNCHANGED <<job, slot, connection, news, ask>>
    PROVE  PanelIInv'
  <1> DEFINE p == [panel[w] EXCEPT !.click = c, !.port = port, !.review = on, !.active = a]
  <1>1. panel[w] \in SidePanels
    BY DEF PanelIInv, PanelTyped
  <1>2. p \in SidePanels /\ p.click = c /\ p.watched = panel[w].watched /\ p.told = panel[w].told
    BY <1>1 DEF SidePanels
  <1>3. panel' = [panel EXCEPT ![w] = p]
    OBVIOUS
  <1>4. ask' \in [Windows -> [1 .. MaxAsks -> JobIds \cup {NoJob, Asked, Unasked}]]
    BY DEF PanelIInv, PanelTyped
  <1> HIDE DEF p
  <1> QED BY <1>2, <1>3, <1>4, PanelActs

LEMMA SyncPolledSound == ASSUME PanelIInv, NEW w \in Windows, SyncPolled(w) PROVE PanelIInv'
  <1>1. /\ UNCHANGED <<job, slot, connection, panel, news>>
        /\ ask \in [Windows -> [1 .. MaxAsks -> JobIds \cup {NoJob, Asked, Unasked}]]
    BY DEF SyncPolled, countVars, PanelIInv, PanelTyped
  <1>2. PICK i \in 1 .. MaxAsks : ask' = [ask EXCEPT ![w][i] = Asked]
    BY DEF SyncPolled
  <1>3. ask' \in [Windows -> [1 .. MaxAsks -> JobIds \cup {NoJob, Asked, Unasked}]]
    BY <1>1, <1>2
  <1>4. job' \in [JobIds -> JobRecords] /\ news' \in [Windows -> Seq(JobLists)] /\ NewsIsLatest' /\ FinalAnnounced'
    BY <1>1, JobsKept
  <1>5. ClicksSound'
    BY <1>1 DEF PanelIInv, ClicksSound, ClickSound
  <1> QED BY <1>1, <1>3, <1>4, <1>5 DEF PanelIInv, PanelTyped

LEMMA SyncedSound == ASSUME PanelIInv, NEW w \in Windows, Synced(w) PROVE PanelIInv'
  <1>1. /\ panel[w] \in SidePanels /\ ClickSound(panel[w].click)
        /\ ask \in [Windows -> [1 .. MaxAsks -> JobIds \cup {NoJob, Asked, Unasked}]]
        /\ UNCHANGED <<job, slot, connection, news>>
    BY DEF Synced, countVars, PanelIInv, PanelTyped, ClicksSound
  <1>2. PICK i \in 1 .. MaxAsks :
            /\ ask[w][i] >= NoJob
            /\ panel' = [panel EXCEPT ![w].active = ask[w][i]]
            /\ ask' = [ask EXCEPT ![w][i] = Unasked]
    BY DEF Synced
  <1>3. ask[w][i] \in JobIds \cup {NoJob}
    <2>1. ask[w][i] \in JobIds \cup {NoJob, Asked, Unasked}
      BY <1>1
    <2>2. Asked # NoJob /\ ~(Asked >= NoJob) /\ ~(Unasked >= NoJob)
      BY DEF NoJob, Asked, Unasked
    <2> QED BY <1>2, <2>1, <2>2
  <1>4. ask' \in [Windows -> [1 .. MaxAsks -> JobIds \cup {NoJob, Asked, Unasked}]]
    BY <1>1, <1>2
  <1> DEFINE p == [panel[w] EXCEPT !.active = ask[w][i]]
  <1>5. p \in SidePanels /\ p.click = panel[w].click /\ p.watched = panel[w].watched /\ p.told = panel[w].told
    BY <1>1, <1>3 DEF SidePanels
  <1>6. panel' = [panel EXCEPT ![w] = p]
    BY <1>2
  <1> HIDE DEF p
  <1> QED BY <1>1, <1>4, <1>5, <1>6, PanelActs

\* Of two panels, or of one, what is heard last is what is stored.
LEMMA NewsHeardSound == ASSUME PanelIInv, NEW w \in Windows, NewsHeard(w) PROVE PanelIInv'
  <1> DEFINE states == Head(news[w])
             port == /\ panel[w].port
                     /\ ~(/\ panel[w].active # NoJob
                          /\ states[panel[w].active] \in {"completed", "failed", "paused", "cancelled"})
             p == [panel[w] EXCEPT !.jobs = states, !.told = Announced(w, states), !.port = port]
  <1>1. /\ panel \in [Windows -> SidePanels] /\ panel[w] \in SidePanels /\ ClickSound(panel[w].click)
        /\ news \in [Windows -> Seq(JobLists)] /\ news[w] # <<>>
        /\ ask \in [Windows -> [1 .. MaxAsks -> JobIds \cup {NoJob, Asked, Unasked}]]
        /\ UNCHANGED <<job, slot, connection>> /\ news' = [news EXCEPT ![w] = Tail(@)]
    BY DEF NewsHeard, countVars, PanelIInv, PanelTyped, ClicksSound
  <1>2. /\ states \in JobLists /\ Tail(news[w]) \in Seq(JobLists)
        /\ Tail(news[w]) = <<>> => states = news[w][Len(news[w])]
        /\ Tail(news[w]) # <<>> => Tail(news[w])[Len(Tail(news[w]))] = news[w][Len(news[w])]
    <2>1. news[w] \in Seq(JobLists) /\ news[w] # <<>>
      BY <1>1
    <2>2. states \in JobLists /\ Tail(news[w]) \in Seq(JobLists)
      BY <2>1, HeadTailProperties
    <2>3. Len(Tail(news[w])) = Len(news[w]) - 1 /\ Len(news[w]) \in Nat \ {0}
      BY <2>1, HeadTailProperties, EmptySeq, LenProperties
    <2>4. \A i \in 1 .. Len(Tail(news[w])) : Tail(news[w])[i] = news[w][i + 1]
      BY <2>1, HeadTailProperties
    <2>5. states = news[w][1]
      BY <2>1
    <2>6. Tail(news[w]) = <<>> => Len(news[w]) = 1
      <3>1. Tail(news[w]) = <<>> => Len(Tail(news[w])) = 0
        BY <2>2, EmptySeq
      <3> QED BY <2>3, <3>1
    <2>7. Tail(news[w]) # <<>> => Len(Tail(news[w])) \in 1 .. Len(Tail(news[w]))
      BY <2>2, <2>3, EmptySeq
    <2> QED BY <2>2, <2>3, <2>4, <2>5, <2>6, <2>7
  <1>3. panel' = [panel EXCEPT ![w] = p]
    BY DEF NewsHeard
  <1>4. \/ \E i \in 1 .. MaxAsks : ask' = [ask EXCEPT ![w][i] = Asked]
        \/ UNCHANGED ask
    BY DEF NewsHeard
  <1>5. ask' \in [Windows -> [1 .. MaxAsks -> JobIds \cup {NoJob, Asked, Unasked}]]
    <2>1. CASE UNCHANGED ask
      BY <1>1, <2>1
    <2>2. CASE \E i \in 1 .. MaxAsks : ask' = [ask EXCEPT ![w][i] = Asked]
      BY <1>1, <2>2
    <2> QED BY <1>4, <2>1, <2>2
  <1> DEFINE told == Announced(w, states)
  <1>6. told \in JobLists
    BY <1>1, <1>2 DEF Announced, JobLists, SidePanels
  <1>7. port \in BOOLEAN
    OBVIOUS
  <1>8. \A j \in panel[w].watched : states[j] \in notifyStates => told[j] = states[j]
    BY <1>1 DEF Announced, SidePanels
  <1> HIDE DEF states, port
  <1> HIDE DEF told
  <1>9. p = [panel[w] EXCEPT !.jobs = states, !.told = told, !.port = port]
    BY DEF told
  <1> HIDE DEF p
  <1>10. p \in SidePanels /\ p.click = panel[w].click /\ p.watched = panel[w].watched /\ p.told = told
    BY <1>1, <1>2, <1>6, <1>7, <1>9 DEF SidePanels
  <1>11. panel' \in [Windows -> SidePanels] /\ ClicksSound'
    BY <1>1, <1>3, <1>10, PanelBecomes
  <1>12. news' \in [Windows -> Seq(JobLists)] /\ news'[w] = Tail(news[w]) /\ \A v \in Windows \ {w} : news'[v] = news[v]
    BY <1>1, <1>2
  <1>13. States(job)' = States(job) /\ job' = job
    BY <1>1 DEF States
  <1>14. news[w][Len(news[w])] = States(job)
    BY <1>1 DEF PanelIInv, NewsIsLatest
  <1>15. NewsIsLatest'
    <2> SUFFICES ASSUME NEW v \in Windows, news'[v] # <<>> PROVE news'[v][Len(news'[v])] = States(job)'
      BY DEF NewsIsLatest
    <2>1. CASE v = w
      BY <1>2, <1>12, <1>13, <1>14, <2>1
    <2>2. CASE v # w
      BY <1>12, <1>13, <2>2 DEF PanelIInv, NewsIsLatest
    <2> QED BY <2>1, <2>2
  <1>16. FinalAnnounced'
    <2> SUFFICES ASSUME NEW v \in Windows, news'[v] = <<>>, NEW j \in panel'[v].watched, job'[j].state \in notifyStates
                 PROVE  panel'[v].told[j] = job'[j].state
      BY DEF FinalAnnounced
    <2>1. CASE v = w
      <3>1. panel'[w] = p
        BY <1>1, <1>3
      <3>2. states = States(job) /\ j \in panel[w].watched /\ j \in JobIds
        BY <1>1, <1>2, <1>10, <1>12, <1>14, <2>1, <3>1 DEF SidePanels
      <3>3. states[j] = job[j].state
        BY <3>2 DEF States
      <3> QED BY <1>8, <1>10, <1>13, <2>1, <3>1, <3>2, <3>3
    <2>2. CASE v # w
      <3>1. panel'[v] = panel[v]
        BY <1>1, <1>3, <2>2
      <3> QED BY <1>12, <1>13, <2>2, <3>1 DEF PanelIInv, FinalAnnounced
    <2> QED BY <2>1, <2>2
  <1>17. job' \in [JobIds -> JobRecords] /\ slot' \in JobIds \cup {NoJob} /\ connection' \in Connections
    BY <1>1 DEF PanelIInv, PanelTyped
  <1> QED BY <1>5, <1>11, <1>12, <1>15, <1>16, <1>17 DEF PanelIInv, PanelTyped

\* What a panel has at hand for its next step.
LEMMA PanelAtHand ==
    ASSUME PanelIInv, NEW w \in Windows
    PROVE  /\ panel[w] \in SidePanels /\ panel[w].click \in Clicks /\ ClickSound(panel[w].click)
           /\ panel[w].port \in BOOLEAN /\ panel[w].active \in JobIds \cup {NoJob}
           /\ panel[w].review \in [on : BOOLEAN, env : Connections, blocked : BOOLEAN]
           /\ connection \in Connections
  <1>1. panel[w] \in SidePanels /\ connection \in Connections
    BY DEF PanelIInv, PanelTyped
  <1>2. ClickSound(panel[w].click)
    BY DEF PanelIInv, ClicksSound
  <1> QED BY <1>1, <1>2 DEF SidePanels

LEMMA ClickChanges ==
    ASSUME PanelIInv, NEW w \in Windows, NEW c \in Clicks, ClickSound(c), panel' = [panel EXCEPT ![w].click = c],
           UNCHANGED <<job, slot, connection, news, ask>>
    PROVE  PanelIInv'
  <1> DEFINE p == [panel[w] EXCEPT !.click = c]
  <1>1. p \in SidePanels /\ p.click = c /\ p.watched = panel[w].watched /\ p.told = panel[w].told
    BY PanelAtHand DEF SidePanels
  <1>2. panel' = [panel EXCEPT ![w] = p]
    OBVIOUS
  <1>3. ask' \in [Windows -> [1 .. MaxAsks -> JobIds \cup {NoJob, Asked, Unasked}]]
    BY DEF PanelIInv, PanelTyped
  <1> HIDE DEF p
  <1> QED BY <1>1, <1>2, <1>3, PanelActs

LEMMA NoClickSound == NoClick \in Clicks /\ ClickSound(NoClick)
  <1>1. NoClick \in Clicks
    BY DEF NoClick, Clicks, Connections
  <1>2. ClickSound(NoClick)
    BY DEF NoClick, ClickSound
  <1> QED BY <1>1, <1>2

\* A click that begins, with the environment that is active then.
LEMMA ClickBegins ==
    ASSUME PanelIInv, NEW w \in Windows, NEW c \in Clicks, Begins(w, c), c.step # "fresh",
           c.kind = "start" => c.step = "env" /\ connection \in c.seenEnv,
           c.kind \in {"resume", "cancelById"} => c.job \in JobIds
    PROVE  PanelIInv'
  <1>1. panel' = [panel EXCEPT ![w].click = c] /\ UNCHANGED <<job, slot, connection, news, ask>>
    BY DEF Begins
  <1>2. ClickSound(c)
    BY DEF ClickSound
  <1> QED BY <1>1, <1>2, ClickChanges

LEMMA ClicksBegin ==
    ASSUME PanelIInv, NEW w \in Windows,
           \/ DraftClicked(w) \/ StartClicked(w) \/ ResumeClicked(w) \/ StopClicked(w) \/ DiscardClicked(w)
    PROVE  PanelIInv'
  <1>1. /\ panel[w].active \in JobIds \cup {NoJob} /\ connection \in Connections
        /\ panel[w].review.env \in Connections
    BY PanelAtHand
  <1>2. CASE DraftClicked(w)
    <2> DEFINE c == [NoClick EXCEPT !.step = "model", !.kind = "draft", !.env = connection]
    <2>1. c \in Clicks /\ c.step = "model" /\ c.kind = "draft"
      BY <1>1 DEF NoClick, Clicks
    <2>2. Begins(w, c)
      BY <1>2 DEF DraftClicked
    <2> HIDE DEF c
    <2> QED BY <2>1, <2>2, ClickBegins
  <1>3. CASE StartClicked(w)
    <2> DEFINE c == [NoClick EXCEPT !.step = "env", !.kind = "start", !.env = panel[w].review.env,
                                    !.seenEnv = {connection}]
    <2>1. c \in Clicks /\ c.step = "env" /\ c.kind = "start" /\ connection \in c.seenEnv
      BY <1>1 DEF NoClick, Clicks
    <2>2. Begins(w, c)
      BY <1>3 DEF StartClicked
    <2> HIDE DEF c
    <2> QED BY <2>1, <2>2, ClickBegins
  <1>4. ASSUME NEW k \in {"pause", "cancel", "cancelById"}, NEW j \in JobIds \cup {NoJob},
               k = "cancelById" => j \in JobIds,
               Begins(w, [NoClick EXCEPT !.step = "asked", !.kind = k, !.job = j])
        PROVE  PanelIInv'
    <2> DEFINE c == [NoClick EXCEPT !.step = "asked", !.kind = k, !.job = j]
    <2>1. c \in Clicks /\ c.step = "asked" /\ c.kind = k /\ c.job = j
      BY DEF NoClick, Clicks, Connections
    <2>2. Begins(w, c)
      BY <1>4
    <2> HIDE DEF c
    <2> QED BY <1>4, <2>1, <2>2, ClickBegins
  <1>5. CASE ResumeClicked(w)
    <2>1. PICK j \in JobIds : Begins(w, [NoClick EXCEPT !.step = "env", !.kind = "resume", !.job = j])
      BY <1>5 DEF ResumeClicked
    <2> DEFINE c == [NoClick EXCEPT !.step = "env", !.kind = "resume", !.job = j]
    <2>2. c \in Clicks /\ c.step = "env" /\ c.kind = "resume" /\ c.job = j
      BY DEF NoClick, Clicks, Connections
    <2>3. Begins(w, c)
      BY <2>1
    <2> HIDE DEF c
    <2> QED BY <2>2, <2>3, ClickBegins
  <1>6. CASE StopClicked(w)
    BY <1>1, <1>4, <1>6 DEF StopClicked
  <1>7. CASE DiscardClicked(w)
    BY <1>4, <1>7 DEF DiscardClicked
  <1> QED BY <1>2, <1>3, <1>5, <1>6, <1>7

LEMMA DraftSound ==
    ASSUME PanelIInv, NEW w \in Windows, Drafted(w) \/ ReviewCancelled(w) PROVE PanelIInv'
  <1>1. UNCHANGED <<job, slot, connection, news, ask>>
    BY DEF Drafted, ReviewCancelled, countVars
  <1>2. CASE panel' = [panel EXCEPT ![w].click = NoClick]
    BY <1>1, <1>2, NoClickSound, ClickChanges
  <1>3. ASSUME NEW on \in [on : BOOLEAN, env : Connections, blocked : BOOLEAN], NEW c \in {NoClick, panel[w].click},
               panel' = [panel EXCEPT ![w].click = c, ![w].review = on]
        PROVE  PanelIInv'
    <2>1. c \in Clicks /\ ClickSound(c)
      BY NoClickSound, PanelAtHand
    <2>2. panel' = [panel EXCEPT ![w] = [panel[w] EXCEPT !.click = c, !.port = panel[w].port, !.review = on,
                                                         !.active = panel[w].active]]
      BY <1>3, PanelAtHand DEF SidePanels
    <2> QED BY <1>1, <2>1, <2>2, PanelAtHand, ClickGoesOn
  <1>4. CASE Drafted(w)
    <2>1. CASE ClickOver(w)
      BY <1>2, <2>1 DEF ClickOver
    <2>2. CASE ~ClickOver(w)
      <3>1. PICK firstOk, secondOk \in BOOLEAN :
             /\ ~Click(w).gone
             /\ panel' = [panel EXCEPT
                   ![w].click = NoClick,
                   ![w].review = [on |-> TRUE, env |-> Click(w).env, blocked |-> ~firstOk /\ ~secondOk]]
        BY <1>4, <2>2 DEF Drafted
      <3>2. Click(w).env \in Connections
        BY PanelAtHand DEF Click, Clicks
      <3>3. (~firstOk /\ ~secondOk) \in BOOLEAN
        OBVIOUS
      <3>4. [on |-> TRUE, env |-> Click(w).env, blocked |-> ~firstOk /\ ~secondOk]
                \in [on : BOOLEAN, env : Connections, blocked : BOOLEAN]
        BY <3>2, <3>3
      <3> QED BY <1>3, <3>1, <3>4
    <2> QED BY <2>1, <2>2
  <1>5. CASE ReviewCancelled(w)
    <2>1. panel' = [panel EXCEPT ![w].review = NoReview]
      BY <1>5 DEF ReviewCancelled
    <2>2. panel' = [panel EXCEPT ![w].click = panel[w].click, ![w].review = NoReview]
      BY <2>1, PanelAtHand DEF SidePanels
    <2>3. NoReview \in [on : BOOLEAN, env : Connections, blocked : BOOLEAN]
      BY DEF NoReview, Connections
    <2> QED BY <1>3, <2>2, <2>3
  <1> QED BY <1>4, <1>5

LEMMA EnvReadSound == ASSUME PanelIInv, NEW w \in Windows, EnvRead(w) PROVE PanelIInv'
  <1>1. UNCHANGED <<job, slot, connection, news, ask>> /\ panel[w].click.step = "env"
    BY DEF EnvRead, countVars, Click
  <1>2. CASE panel' = [panel EXCEPT ![w].click = NoClick]
    BY <1>1, <1>2, NoClickSound, ClickChanges
  <1>3. CASE Click(w).kind = "start" /\ connection = Click(w).env
    <2> DEFINE c == [panel[w].click EXCEPT !.step = "creds"]
    <2>1. /\ c \in Clicks /\ c.step = "creds" /\ c.kind = panel[w].click.kind /\ c.env = panel[w].click.env
          /\ c.seenEnv = panel[w].click.seenEnv /\ c.job = panel[w].click.job
      BY PanelAtHand DEF Clicks
    <2>2. panel' = [panel EXCEPT ![w].click = c]
      BY <1>3 DEF EnvRead, Steps
    <2> HIDE DEF c
    <2>3. ClickSound(c)
      BY <1>1, <1>3, <2>1, PanelAtHand DEF ClickSound, Click
    <2> QED BY <1>1, <2>1, <2>2, <2>3, ClickChanges
  <1>4. CASE Click(w).kind # "start"
    <2> DEFINE c == [panel[w].click EXCEPT !.step = "creds", !.env = connection]
    <2>1. /\ c \in Clicks /\ c.step = "creds" /\ c.kind = panel[w].click.kind
          /\ c.job = panel[w].click.job
      BY PanelAtHand DEF Clicks
    <2>2. panel' = [panel EXCEPT ![w].click = c]
      <3>1. panel' = [panel EXCEPT ![w].click.step = "creds", ![w].click.env = connection]
        BY <1>4 DEF EnvRead
      <3>2. panel \in [Windows -> SidePanels]
        BY DEF PanelIInv, PanelTyped
      <3> QED BY <3>1, <3>2 DEF SidePanels, Clicks
    <2> HIDE DEF c
    <2>3. ClickSound(c)
      BY <1>1, <1>4, <2>1, PanelAtHand DEF ClickSound, Click
    <2> QED BY <1>1, <2>1, <2>2, <2>3, ClickChanges
  <1> QED BY <1>2, <1>3, <1>4 DEF EnvRead, ClickOver

LEMMA CredsReadSound == ASSUME PanelIInv, NEW w \in Windows, CredsRead(w) PROVE PanelIInv'
  <1>1. UNCHANGED <<job, slot, connection, news, ask>> /\ panel[w].click.step = "creds"
    BY DEF CredsRead, countVars, Click
  <1>2. CASE panel' = [panel EXCEPT ![w].click = NoClick]
    BY <1>1, <1>2, NoClickSound, ClickChanges
  <1>3. CASE panel' = [panel EXCEPT ![w].click.step = "asked", ![w].port = @ \/ Click(w).kind = "start"]
    <2> DEFINE c == [panel[w].click EXCEPT !.step = "asked"]
               port == panel[w].port \/ Click(w).kind = "start"
    <2>1. /\ c \in Clicks /\ c.step = "asked" /\ c.kind = panel[w].click.kind /\ c.env = panel[w].click.env
          /\ c.seenEnv = panel[w].click.seenEnv /\ c.job = panel[w].click.job
      BY PanelAtHand DEF Clicks
    <2>2. panel' = [panel EXCEPT ![w].click = c, ![w].port = port]
      BY <1>3
    <2>3. port \in BOOLEAN
      OBVIOUS
    <2> HIDE DEF c, port
    <2>4. panel' = [panel EXCEPT ![w] = [panel[w] EXCEPT !.click = c, !.port = port, !.review = panel[w].review,
                                                         !.active = panel[w].active]]
      BY <2>2, PanelAtHand DEF SidePanels
    <2>5. ClickSound(c)
      BY <1>1, <2>1, PanelAtHand DEF ClickSound
    <2> QED BY <1>1, <2>1, <2>3, <2>4, <2>5, PanelAtHand, ClickGoesOn
  <1> QED BY <1>2, <1>3 DEF CredsRead, ClickOver

LEMMA StartedSound == ASSUME PanelIInv, NEW w \in Windows, Started(w) PROVE PanelIInv'
  <1>1. /\ UNCHANGED <<job, slot, connection, news, ask>>
        /\ panel[w].click.step = "answered" /\ panel[w].click.kind = "start"
    BY DEF Started, countVars, Click
  <1>2. CASE Click(w).answer = NoJob
    <2>1. panel' = [panel EXCEPT ![w] = [panel[w] EXCEPT !.click = NoClick, !.port = FALSE, !.review = panel[w].review,
                                                         !.active = panel[w].active]]
      BY <1>2, PanelAtHand DEF Started, SidePanels
    <2> QED BY <1>1, <2>1, PanelAtHand, NoClickSound, ClickGoesOn
  <1>3. CASE Click(w).answer # NoJob
    <2> DEFINE c == [panel[w].click EXCEPT !.step = "fresh"]
    <2>1. /\ c \in Clicks /\ c.step = "fresh" /\ c.kind = panel[w].click.kind /\ c.env = panel[w].click.env
          /\ c.seenEnv = panel[w].click.seenEnv /\ c.job = panel[w].click.job /\ c.answer = panel[w].click.answer
      BY PanelAtHand DEF Clicks
    <2>2. panel' = [panel EXCEPT ![w].click = c, ![w].active = Click(w).answer]
      BY <1>3 DEF Started
    <2>3. Click(w).answer \in JobIds /\ Click(w).answer = panel[w].click.answer
      BY <1>3, PanelAtHand DEF Click, Clicks
    <2> HIDE DEF c
    <2>4. panel' = [panel EXCEPT ![w] = [panel[w] EXCEPT !.click = c, !.port = panel[w].port, !.review = panel[w].review,
                                                         !.active = Click(w).answer]]
      BY <2>2, PanelAtHand DEF SidePanels
    <2>5. ClickSound(c)
      BY <1>1, <2>1, <2>3, PanelAtHand DEF ClickSound
    <2> QED BY <1>1, <2>1, <2>3, <2>4, <2>5, PanelAtHand, ClickGoesOn
  <1> QED BY <1>2, <1>3

LEMMA TabAnswered ==
    ASSUME PanelIInv, NEW w \in Windows, Resumed(w) \/ Stopped(w) PROVE PanelIInv'
  <1>1. UNCHANGED <<job, slot, connection, news, ask>>
    BY DEF Resumed, Stopped, countVars
  <1>2. CASE panel' = [panel EXCEPT ![w].click = NoClick]
    BY <1>1, <1>2, NoClickSound, ClickChanges
  <1>3. ASSUME NEW a \in JobIds \cup {NoJob}, NEW port \in BOOLEAN,
               panel' = [panel EXCEPT ![w] = [@ EXCEPT !.click = NoClick, !.active = a, !.port = port]]
        PROVE  PanelIInv'
    <2>1. panel' = [panel EXCEPT ![w] = [panel[w] EXCEPT !.click = NoClick, !.port = port, !.review = panel[w].review,
                                                         !.active = a]]
      BY <1>3, PanelAtHand DEF SidePanels
    <2> QED BY <1>1, <2>1, PanelAtHand, NoClickSound, ClickGoesOn
  <1>4. CASE Resumed(w)
    <2>1. Click(w).job \in JobIds
      BY <1>4, PanelAtHand DEF Resumed, Click, ClickSound
    <2> QED BY <1>2, <1>3, <1>4, <2>1 DEF Resumed
  <1>5. CASE Stopped(w)
    BY <1>2, <1>3, <1>5 DEF Stopped
  <1> QED BY <1>4, <1>5

\* The job that was started is watched from the state it is in now.
LEMMA FreshReadSound == ASSUME PanelIInv, NEW w \in Windows, FreshRead(w) PROVE PanelIInv'
  <1>0. CASE Click(w).gone
    <2> DEFINE q == [panel[w] EXCEPT !.click = NoClick, !.jobs = States(job)]
    <2>1. /\ UNCHANGED <<job, slot, connection, news, ask>> /\ panel[w] \in SidePanels
          /\ job \in [JobIds -> JobRecords] /\ panel' = [panel EXCEPT ![w] = q]
          /\ ask \in [Windows -> [1 .. MaxAsks -> JobIds \cup {NoJob, Asked, Unasked}]]
      BY <1>0 DEF FreshRead, countVars, PanelIInv, PanelTyped
    <2>2. States(job) \in JobLists
      BY <2>1 DEF States, JobLists, JobRecords
    <2>3. q \in SidePanels /\ q.click = NoClick /\ q.watched = panel[w].watched /\ q.told = panel[w].told
      BY <2>1, <2>2, NoClickSound DEF SidePanels
    <2> HIDE DEF q
    <2> QED BY <2>1, <2>3, NoClickSound, PanelActs
  <1> SUFFICES ASSUME ~Click(w).gone PROVE PanelIInv'
    BY <1>0
  <1> DEFINE j == panel[w].click.answer
             p == [panel[w] EXCEPT !.click = NoClick, !.review = NoReview, !.jobs = States(job),
                                   !.watched = @ \cup {j}, !.told = [@ EXCEPT ![j] = job[j].state]]
  <1>1. /\ UNCHANGED <<job, slot, connection, news, ask>> /\ panel[w].click.step = "fresh"
        /\ panel \in [Windows -> SidePanels] /\ panel[w] \in SidePanels /\ job \in [JobIds -> JobRecords]
    BY DEF FreshRead, countVars, Click, PanelIInv, PanelTyped
  <1>2. j \in JobIds
    BY <1>1, PanelAtHand DEF ClickSound
  <1>3. States(job) \in JobLists /\ job[j].state \in JobStates
    BY <1>1, <1>2 DEF States, JobLists, JobRecords
  <1>4. panel' = [panel EXCEPT ![w] = p]
    BY <1>1 DEF FreshRead, Click, SidePanels
  <1> DEFINE told == [panel[w].told EXCEPT ![j] = job[j].state]
             watched == panel[w].watched \cup {j}
  <1>5. told \in JobLists /\ watched \in SUBSET JobIds
    BY <1>1, <1>2, <1>3 DEF JobLists, SidePanels
  <1>6. told[j] = job[j].state /\ \A i \in JobIds \ {j} : told[i] = panel[w].told[i]
    BY <1>1, <1>2 DEF JobLists, SidePanels
  <1>7. \A i \in watched : i \in JobIds /\ (i # j => i \in panel[w].watched)
    BY <1>5
  <1>8. NoReview \in [on : BOOLEAN, env : Connections, blocked : BOOLEAN]
    BY DEF NoReview, Connections
  <1>9. p = [panel[w] EXCEPT !.click = NoClick, !.review = NoReview, !.jobs = States(job), !.watched = watched, !.told = told]
    OBVIOUS
  <1> HIDE DEF p, told, watched, j
  <1>10. p \in SidePanels /\ p.click = NoClick /\ p.watched = watched /\ p.told = told
    BY <1>1, <1>3, <1>5, <1>8, <1>9, NoClickSound DEF SidePanels
  <1>11. panel' \in [Windows -> SidePanels] /\ ClicksSound'
    BY <1>1, <1>4, <1>10, NoClickSound, PanelBecomes
  <1>12. panel'[w] = p /\ \A v \in Windows \ {w} : panel'[v] = panel[v]
    BY <1>1, <1>4
  <1>13. FinalAnnounced'
    <2> SUFFICES ASSUME NEW v \in Windows, news'[v] = <<>>, NEW i \in panel'[v].watched, job'[i].state \in notifyStates
                 PROVE  panel'[v].told[i] = job'[i].state
      BY DEF FinalAnnounced
    <2>1. job' = job /\ news' = news
      BY <1>1
    <2>2. CASE v # w
      BY <1>12, <2>1, <2>2 DEF PanelIInv, FinalAnnounced
    <2>3. CASE v = w /\ i = j
      BY <1>6, <1>10, <1>12, <2>1, <2>3
    <2>4. CASE v = w /\ i # j
      <3>1. i \in watched /\ told[i] = panel[w].told[i] /\ i \in panel[w].watched
        BY <1>6, <1>7, <1>10, <1>12, <2>4
      <3> QED BY <1>10, <1>12, <2>1, <2>4, <3>1 DEF PanelIInv, FinalAnnounced
    <2> QED BY <2>2, <2>3, <2>4
  <1>14. NewsIsLatest'
    <2>1. job' = job /\ news' = news /\ States(job)' = States(job)
      BY <1>1 DEF States
    <2> QED BY <2>1 DEF PanelIInv, NewsIsLatest
  <1>15. /\ job' \in [JobIds -> JobRecords] /\ slot' \in JobIds \cup {NoJob} /\ connection' \in Connections
         /\ news' \in [Windows -> Seq(JobLists)]
         /\ ask' \in [Windows -> [1 .. MaxAsks -> JobIds \cup {NoJob, Asked, Unasked}]]
    BY <1>1 DEF PanelIInv, PanelTyped
  <1> QED BY <1>11, <1>13, <1>14, <1>15 DEF PanelIInv, PanelTyped

\* A panel that follows no job has nothing to tell.
LEMMA PanelForgets ==
    ASSUME PanelIInv, NEW w \in Windows, NEW p \in SidePanels, panel' = [panel EXCEPT ![w] = p],
           ClickSound(p.click), p.watched = {}, UNCHANGED <<job, slot, connection>>,
           NEW heard \in {news[w], <<>>}, news' = [news EXCEPT ![w] = heard],
           ask' \in [Windows -> [1 .. MaxAsks -> JobIds \cup {NoJob, Asked, Unasked}]]
    PROVE  PanelIInv'
  <1>1. panel' \in [Windows -> SidePanels] /\ ClicksSound'
    BY PanelBecomes
  <1>2. /\ news \in [Windows -> Seq(JobLists)] /\ << >> \in Seq(JobLists)
        /\ panel \in [Windows -> SidePanels]
    BY DEF PanelIInv, PanelTyped
  <1>3. heard \in Seq(JobLists)
    BY <1>2
  <1>4. /\ news' \in [Windows -> Seq(JobLists)] /\ news'[w] = heard
        /\ \A v \in Windows \ {w} : news'[v] = news[v]
    BY <1>2, <1>3
  <1>5. States(job)' = States(job) /\ job' = job
    BY DEF States
  <1>6. NewsIsLatest'
    BY <1>4, <1>5 DEF PanelIInv, NewsIsLatest
  <1>7. panel'[w] = p /\ \A v \in Windows \ {w} : panel'[v] = panel[v]
    BY <1>2
  <1>8. FinalAnnounced'
    BY <1>4, <1>5, <1>7 DEF PanelIInv, FinalAnnounced
  <1>9. job' \in [JobIds -> JobRecords] /\ slot' \in JobIds \cup {NoJob} /\ connection' \in Connections
    BY DEF PanelIInv, PanelTyped
  <1> QED BY <1>1, <1>4, <1>6, <1>8, <1>9 DEF PanelIInv, PanelTyped

LEMMA ChatUnmountsSound == ASSUME PanelIInv, NEW w \in Windows, ChatUnmounts(w) PROVE PanelIInv'
  <1> DEFINE c == panel[w].click
             orphan == [c EXCEPT !.gone = c.gone \/ c.kind \in {"draft", "start"}]
             p == [panel[w] EXCEPT !.watched = {}, !.told = NotTold, !.review = NoReview, !.click = orphan]
  <1>1. /\ panel[w] \in SidePanels /\ c \in Clicks /\ ClickSound(c)
    BY PanelAtHand
  <1>2. /\ orphan \in Clicks /\ orphan.step = c.step /\ orphan.kind = c.kind /\ orphan.env = c.env
        /\ orphan.seenEnv = c.seenEnv /\ orphan.job = c.job /\ orphan.answer = c.answer
    <2>1. (c.gone \/ c.kind \in {"draft", "start"}) \in BOOLEAN
      OBVIOUS
    <2> QED BY <1>1, <2>1 DEF Clicks
  <1>3. panel' = [panel EXCEPT ![w] = p] /\ UNCHANGED <<job, slot, connection, news, ask>>
    BY DEF ChatUnmounts, Click
  <1> HIDE DEF orphan, c
  <1>4. ClickSound(orphan)
    BY <1>1, <1>2 DEF ClickSound
  <1>5. NotTold \in JobLists /\ NoReview \in [on : BOOLEAN, env : Connections, blocked : BOOLEAN]
    BY DEF NotTold, JobLists, JobStates, NoReview, Connections
  <1>6. p \in SidePanels /\ p.watched = {} /\ p.click = orphan
    BY <1>1, <1>2, <1>5 DEF SidePanels
  <1>7. /\ news' = [news EXCEPT ![w] = news[w]]
        /\ ask' \in [Windows -> [1 .. MaxAsks -> JobIds \cup {NoJob, Asked, Unasked}]]
    BY <1>3 DEF PanelIInv, PanelTyped
  <1> HIDE DEF p
  <1> QED BY <1>3, <1>4, <1>6, <1>7, PanelForgets

LEMMA PanelReopensSound == ASSUME PanelIInv, NEW w \in Windows, PanelReopens(w) PROVE PanelIInv'
  <1> DEFINE p == Fresh(States(job))
  <1>1. /\ panel' = [panel EXCEPT ![w] = p] /\ UNCHANGED <<job, slot, connection>>
        /\ news' = [news EXCEPT ![w] = <<>>]
        /\ ask' = [ask EXCEPT ![w] = [i \in 1 .. MaxAsks |-> Unasked]]
    BY DEF PanelReopens
  <1>2. States(job) \in JobLists /\ NotTold \in JobLists
    BY DEF States, JobLists, JobRecords, NotTold, JobStates, PanelIInv, PanelTyped
  <1>3. NoReview \in [on : BOOLEAN, env : Connections, blocked : BOOLEAN]
    BY DEF NoReview, Connections
  <1>4. p \in SidePanels /\ p.watched = {} /\ p.click = NoClick
    BY <1>2, <1>3, NoClickSound DEF Fresh, SidePanels
  <1>5. ask' \in [Windows -> [1 .. MaxAsks -> JobIds \cup {NoJob, Asked, Unasked}]]
    BY <1>1 DEF PanelIInv, PanelTyped
  <1> HIDE DEF p
  <1> QED BY <1>1, <1>4, <1>5, NoClickSound, PanelForgets

LEMMA EnvSwitchedSound == ASSUME PanelIInv, EnvSwitched PROVE PanelIInv'
  <1>1. PICK env \in Connections \ {connection} :
            /\ connection' = env
            /\ panel' = [w \in Windows |-> IF Click(w).kind = "start"
                            THEN [panel[w] EXCEPT !.click.seenEnv = @ \cup {env}] ELSE panel[w]]
    BY DEF EnvSwitched
  <1>2. UNCHANGED <<job, slot, news, ask>>
    BY DEF EnvSwitched
  <1>3. ASSUME NEW w \in Windows
        PROVE  /\ panel'[w] \in SidePanels /\ ClickSound(panel[w].click)'
               /\ panel'[w].watched = panel[w].watched /\ panel'[w].told = panel[w].told
    <2> DEFINE c == [panel[w].click EXCEPT !.seenEnv = panel[w].click.seenEnv \cup {env}]
    <2>1. CASE Click(w).kind = "start"
      <3>1. /\ c \in Clicks /\ c.seenEnv = panel[w].click.seenEnv \cup {env}
            /\ c.step = panel[w].click.step /\ c.kind = panel[w].click.kind /\ c.env = panel[w].click.env
            /\ c.job = panel[w].click.job /\ c.answer = panel[w].click.answer
        BY <1>1, PanelAtHand DEF Clicks
      <3>2. panel'[w] = [panel[w] EXCEPT !.click = c]
        BY <1>1, <2>1, PanelAtHand DEF SidePanels, Clicks
      <3> HIDE DEF c
      <3>3. /\ panel'[w] \in SidePanels /\ panel'[w].click = c
            /\ panel'[w].watched = panel[w].watched /\ panel'[w].told = panel[w].told
        BY <3>1, <3>2, PanelAtHand DEF SidePanels
      <3>4. connection' = env
        BY <1>1
      <3>5. ClickSound(panel[w].click)'
        BY <3>1, <3>3, <3>4, PanelAtHand DEF ClickSound
      <3> QED BY <3>3, <3>5
    <2>2. CASE Click(w).kind # "start"
      <3>1. panel'[w] = panel[w] /\ panel[w].click.kind # "start"
        BY <1>1, <2>2 DEF Click
      <3> QED BY <3>1, PanelAtHand DEF ClickSound
    <2> QED BY <2>1, <2>2
  <1>4. panel' = [w \in Windows |-> panel'[w]]
    BY <1>1
  <1>5. panel' \in [Windows -> SidePanels]
    BY <1>3, <1>4
  <1>6. ClicksSound'
    BY <1>3 DEF ClicksSound
  <1>7. job' \in [JobIds -> JobRecords] /\ news' \in [Windows -> Seq(JobLists)] /\ NewsIsLatest' /\ FinalAnnounced'
    BY <1>2, <1>3, JobsKept
  <1>8. /\ slot' \in JobIds \cup {NoJob} /\ connection' \in Connections
        /\ ask' \in [Windows -> [1 .. MaxAsks -> JobIds \cup {NoJob, Asked, Unasked}]]
    BY <1>1, <1>2 DEF PanelIInv, PanelTyped
  <1> QED BY <1>5, <1>6, <1>7, <1>8 DEF PanelIInv, PanelTyped

-----------------------------------------------------------------------------

LEMMA PanelUnchanged == ASSUME PanelIInv, UNCHANGED panelVars PROVE PanelIInv'
  <1>1. UNCHANGED <<job, slot, connection, panel, news, ask>>
    BY DEF panelVars
  <1>2. job' \in [JobIds -> JobRecords] /\ news' \in [Windows -> Seq(JobLists)] /\ NewsIsLatest' /\ FinalAnnounced'
    BY <1>1, JobsKept
  <1>3. ClicksSound'
    BY <1>1 DEF PanelIInv, ClicksSound, ClickSound
  <1> QED BY <1>1, <1>2, <1>3 DEF PanelIInv, PanelTyped

LEMMA PanelsStaySound == ASSUME PanelIInv, [PanelNext]_panelVars PROVE PanelIInv'
  <1>1. ASSUME NEW w \in Windows, PanelStep(w) PROVE PanelIInv'
    BY <1>1, ClickServedSound, AskServedSound, SyncedSound, NewsHeardSound, DraftSound, EnvReadSound,
       CredsReadSound, StartedSound, FreshReadSound, TabAnswered DEF PanelStep
  <1>2. CASE RunEnds \/ SlotFreed \/ WorkerStops \/ EnvSwitched
    BY <1>2, RunEndsSound, SlotFreedSound, WorkerStopsSound, EnvSwitchedSound
  <1>3. ASSUME NEW w \in Windows, SyncPolled(w) \/ ReviewCancelled(w) PROVE PanelIInv'
    BY <1>3, SyncPolledSound, DraftSound
  <1>5. ASSUME NEW w \in Windows, ChatUnmounts(w) \/ PanelReopens(w) PROVE PanelIInv'
    BY <1>5, ChatUnmountsSound, PanelReopensSound
  <1>4. CASE UNCHANGED panelVars
    BY <1>4, PanelUnchanged
  <1> QED BY <1>1, <1>2, <1>3, <1>4, <1>5, ClicksBegin DEF PanelNext

\* What the user of the chat approved is what runs, and a chat page that has heard
\* all news has told the end of every job it follows, that is, has started since it
\* was mounted (handleStartReviewedJob and the notices of ChatPage.tsx): in any
\* number of windows, whatever is clicked in the others, whenever the worker stops
\* and pages and panels go and come back.  As long as a panel has news to hear, the
\* last of them is what is stored.
THEOREM ChatTellsOfItsJobs == PanelSpec => []ChatFollowsJob
  <1>1. PanelIInv => ChatFollowsJob
    <2>1. PanelIInv => StartsAsReviewed
      BY DEF PanelIInv, ClicksSound, ClickSound, StartsAsReviewed, Click
    <2> QED BY <2>1 DEF PanelIInv, ChatFollowsJob
  <1> QED BY <1>1, PanelInitSound, PanelsStaySound, PTL DEF PanelSpec

-----------------------------------------------------------------------------
(* Type correctness of the other parts                                      *)

\* The stored context, the pages and what is read of it are those of the code.
THEOREM ContextIsTyped == ContextSpec => []ContextTypeOK
  <1>1. ContextIInv => ContextTypeOK
    BY DEF ContextIInv, ContextTyped, Contexts, Named, ReportRecords, ContextTypeOK
  <1> QED BY <1>1, ContextInitSound, ContextNextSound, PTL DEF ContextSpec

LEMMA SliceIsShort == ASSUME NEW h \in Seq(Entries) PROVE Len(Slice(h)) <= Kept /\ Len(Slice(h)) \in Nat
  <1> DEFINE a == IF Len(h) > Kept THEN Len(h) - Kept + 1 ELSE 1
  <1>1. Len(h) \in Nat /\ Kept \in Nat \ {0}
    BY ChatAssumption, LenProperties
  <1>2. a \in 1 .. Len(h) + 1
    BY <1>1
  <1>3. Slice(h) = SubSeq(h, a, Len(h))
    BY DEF Slice
  <1> HIDE DEF a
  <1>4. Len(SubSeq(h, a, Len(h))) = IF a <= Len(h) THEN Len(h) - a + 1 ELSE 0
    BY <1>1, <1>2, SubSeqProperties
  <1> QED BY <1>1, <1>2, <1>3, <1>4 DEF a

\* What the invariant leaves open of the types.
ChatRest ==
    /\ Len(chatStored) <= Kept /\ switches \in 0 .. MaxSwitches
    /\ \A t \in Turns : turn[t].round \in 0 .. MaxRounds - 1 /\ turn[t].todo \in 0 .. MaxCalls

TurnsShort == \A t \in Turns : turn[t].round \in 0 .. MaxRounds - 1 /\ turn[t].todo \in 0 .. MaxCalls

LEMMA TurnEndsShort ==
    ASSUME ChatIInv, ChatRest, NEW t \in Turns, NEW log \in Seq(Entries), TurnEnds(t, log)
    PROVE  TurnsShort' /\ Len(chatStored') <= Kept
  <1>1. turn \in [Turns -> ChatTurns] /\ 0 \in 0 .. MaxRounds - 1 /\ 0 \in 0 .. MaxCalls
    BY ChatAssumption DEF ChatIInv, ChatTyped
  <1> QED BY <1>1, SliceIsShort DEF TurnEnds, Unsent, ChatRest, TurnsShort

LEMMA EndsEarlyShort ==
    ASSUME ChatIInv, ChatRest, NEW t \in Turns, EndsEarly(t)
    PROVE  TurnsShort' /\ Len(chatStored') <= Kept
  <1>1. turn \in [Turns -> ChatTurns] /\ 0 \in 0 .. MaxRounds - 1 /\ 0 \in 0 .. MaxCalls
    BY ChatAssumption DEF ChatIInv, ChatTyped
  <1> QED BY <1>1 DEF EndsEarly, Unsent, ChatRest, TurnsShort

LEMMA ChatRestStays == ASSUME ChatIInv, ChatRest, [ChatNext]_chatVars PROVE ChatRest'
  <1> USE ChatAssumption
  <1>1. /\ turn \in [Turns -> ChatTurns] /\ switches \in 0 .. MaxSwitches /\ MaxSwitches \in Nat
        /\ \A t \in Turns : turn[t] \in ChatTurns /\ turn[t].log \in Seq(Entries)
        /\ 0 \in 0 .. MaxRounds - 1 /\ 0 \in 0 .. MaxCalls /\ Len(<<>>) <= Kept
    BY SMTT(30) DEF ChatIInv, ChatTyped, ChatTurns, ChatRest
  <1>2. ASSUME TurnsShort', Len(chatStored') <= Kept, switches' = switches PROVE ChatRest'
    BY SMTT(30), <1>2 DEF TurnsShort, ChatRest
  <1>3. ASSUME NEW p \in Pages, PageMounts(p) \/ ChatLoaded(p) \/ ModesHeard(p) \/ SwitchRead(p) \/ SwitchStored(p)
        PROVE  ChatRest'
    BY <1>3 DEF PageMounts, ChatLoaded, ModesHeard, SwitchRead, SwitchStored, ChatRest
  <1>4. ASSUME NEW p \in Pages, PageUnmounts(p) PROVE ChatRest'
    BY <1>1, <1>4 DEF PageUnmounts, ChatTurns, ChatRest
  <1>5. ASSUME NEW p \in Pages, SwitchStarts(p) PROVE ChatRest'
    <2>1. switches' \in 0 .. MaxSwitches
      BY <1>1, <1>5 DEF SwitchStarts
    <2> QED BY <1>5, <2>1 DEF SwitchStarts, ChatRest
  <1>6. ASSUME NEW p \in Pages, Switched(p) PROVE ChatRest'
    BY <1>1, <1>6 DEF Switched, ChatRest
  <1>7. ASSUME NEW p \in Pages, NEW t \in Turns, handleSend(p, t) PROVE ChatRest'
    BY <1>1, <1>7 DEF handleSend, Unsent, ChatRest
  <1>8. ASSUME NEW t \in Turns, Preflighted(t) PROVE ChatRest'
    <2>1. CASE EndsEarly(t)
      BY <1>2, <1>8, <2>1, EndsEarlyShort DEF Preflighted
    <2>2. CASE turn' = [turn EXCEPT ![t].at = "model", ![t].log = Append(@, "user")] /\ UNCHANGED <<page, chatStored>>
      BY <1>1, <1>8, <2>2 DEF Preflighted, ChatTurns, ChatRest
    <2> QED BY <1>8, <2>1, <2>2 DEF Preflighted
  <1>9. ASSUME NEW t \in Turns, Generated(t) PROVE ChatRest'
    <2>1. CASE EndsEarly(t)
      BY <1>2, <1>9, <2>1, EndsEarlyShort DEF Generated
    <2>2. CASE TurnEnds(t, Append(turn[t].log, "text"))
      <3>1. Append(turn[t].log, "text") \in Seq(Entries)
        BY <1>1, AppendProperties DEF Entries
      <3> QED BY <1>2, <1>9, <2>2, <3>1, TurnEndsShort DEF Generated
    <2>3. CASE \E n \in 1 .. MaxCalls :
                  /\ turn' = [turn EXCEPT ![t].at = "tool", ![t].log = Append(@, "calls"), ![t].todo = n]
                  /\ UNCHANGED <<page, chatStored>>
      <3>1. PICK n \in 1 .. MaxCalls :
               turn' = [turn EXCEPT ![t].at = "tool", ![t].log = Append(@, "calls"), ![t].todo = n]
        BY <2>3
      <3>2. n \in 0 .. MaxCalls
        OBVIOUS
      <3>3. \A u \in Turns : /\ turn'[u].round = turn[u].round
                             /\ turn'[u].todo = IF u = t THEN n ELSE turn[u].todo
        BY <1>1, <3>1 DEF ChatTurns
      <3>4. UNCHANGED <<chatStored, switches>>
        BY <1>9, <2>3 DEF Generated
      <3> QED BY <3>2, <3>3, <3>4 DEF ChatRest
    <2> QED BY <1>9, <2>1, <2>2, <2>3 DEF Generated
  <1>10. ASSUME NEW t \in Turns, ToolCalled(t) \/ PolicyAnswered(t) \/ ControlChecked(t) PROVE ChatRest'
    <2>1. CASE EndsEarly(t)
      BY <1>2, <1>10, <2>1, EndsEarlyShort DEF ToolCalled, PolicyAnswered, ControlChecked
    <2>2. CASE ~EndsEarly(t)
      <3>1. UNCHANGED <<chatStored, switches>>
        BY <1>10, <2>2 DEF ToolCalled, PolicyAnswered, ControlChecked
      <3>2. \A u \in Turns : turn'[u].round = turn[u].round /\ turn'[u].todo = turn[u].todo
        <4>1. \/ \E tool \in Tools : turn' = [turn EXCEPT ![t].at = "policy", ![t].tool = tool]
              \/ \E place : turn' = [turn EXCEPT ![t].at = place]
          BY <1>10, <2>2 DEF ToolCalled, PolicyAnswered, ControlChecked, TurnGoes
        <4>2. ASSUME NEW tool, turn' = [turn EXCEPT ![t].at = "policy", ![t].tool = tool], NEW u \in Turns
              PROVE  turn'[u].round = turn[u].round /\ turn'[u].todo = turn[u].todo
          BY <1>1, <4>2 DEF ChatTurns
        <4>3. ASSUME NEW place, turn' = [turn EXCEPT ![t].at = place], NEW u \in Turns
              PROVE  turn'[u].round = turn[u].round /\ turn'[u].todo = turn[u].todo
          BY <1>1, <4>3 DEF ChatTurns
        <4> QED BY <4>1, <4>2, <4>3
      <3> QED BY <3>1, <3>2 DEF ChatRest
    <2> QED BY <2>1, <2>2
  <1>11. ASSUME NEW t \in Turns, ToolRan(t) PROVE ChatRest'
    <2>1. CASE EndsEarly(t)
      BY <1>2, <1>11, <2>1, EndsEarlyShort DEF ToolRan
    <2>2. CASE TurnEnds(t, turn[t].log)
      BY <1>1, <1>2, <1>11, <2>2, TurnEndsShort DEF ToolRan
    <2>3. CASE NextCall(t)
      <3>1. /\ turn[t].todo \in 0 .. MaxCalls /\ turn[t].round \in 0 .. MaxRounds - 1
            /\ MaxRounds \in Nat \ {0} /\ MaxCalls \in Nat \ {0}
        BY DEF ChatRest
      <3>2. CASE turn[t].todo > 1
        <4>1. turn[t].todo - 1 \in 0 .. MaxCalls
          BY <3>1, <3>2
        <4>2. \A u \in Turns : /\ turn'[u].round = turn[u].round
                               /\ turn'[u].todo = IF u = t THEN turn[t].todo - 1 ELSE turn[u].todo
          BY <1>1, <2>3, <3>2 DEF NextCall, ChatTurns
        <4>3. UNCHANGED <<chatStored, switches>>
          BY <1>11, <2>3, <3>2 DEF ToolRan, NextCall
        <4> QED BY <4>1, <4>2, <4>3 DEF ChatRest
      <3>3. CASE ~(turn[t].todo > 1) /\ turn[t].round + 1 = MaxRounds
        <4>1. Append(turn[t].log, "results") \in Seq(Entries)
          BY <1>1, AppendProperties DEF Entries
        <4> QED BY <1>2, <1>11, <2>3, <3>3, <4>1, TurnEndsShort DEF ToolRan, NextCall
      <3>4. CASE ~(turn[t].todo > 1) /\ turn[t].round + 1 # MaxRounds
        <4>1. turn[t].round + 1 \in 0 .. MaxRounds - 1
          BY <3>1, <3>4
        <4>2. \A u \in Turns : /\ turn'[u].round = IF u = t THEN turn[t].round + 1 ELSE turn[u].round
                               /\ turn'[u].todo = IF u = t THEN 0 ELSE turn[u].todo
          BY SMTT(30), <1>1, <2>3, <3>4 DEF NextCall, ChatTurns
        <4>3. UNCHANGED <<chatStored, switches>>
          BY <1>11, <2>3, <3>4 DEF ToolRan, NextCall
        <4> QED BY <1>1, <4>1, <4>2, <4>3 DEF ChatRest
      <3> QED BY <3>2, <3>3, <3>4
    <2> QED BY <1>11, <2>1, <2>2, <2>3 DEF ToolRan
  <1>12. CASE UNCHANGED chatVars
    BY <1>12 DEF chatVars, ChatRest
  <1> QED BY <1>3, <1>4, <1>5, <1>6, <1>7, <1>8, <1>9, <1>10, <1>11, <1>12 DEF ChatNext, TurnStep

\* The stored history is cut, a turn stays below its rounds and calls.
THEOREM ChatIsTyped == ChatSpec => []ChatTypeOK
  <1>1. ChatInit => ChatRest
    BY ChatAssumption DEF ChatInit, Unsent, ChatRest
  <1>2. ChatIInv /\ ChatRest => ChatTypeOK
    <2> SUFFICES ASSUME ChatIInv, ChatRest PROVE ChatTypeOK
      OBVIOUS
    <2>1. (\A p \in Pages : page[p] \in ChatPages) /\ \A t \in Turns : turn[t] \in ChatTurns
      BY DEF ChatIInv, ChatTyped
    <2>2. chatStored \in Seq(Entries)
      BY DEF ChatIInv, HistoriesWhole, Complete
    <2>3. \A p \in Pages :
            /\ {page[p].mounted, page[p].loaded, page[p].busy} \subseteq BOOLEAN
            /\ page[p].shows \subseteq Modes /\ page[p].news \subseteq Modes
            /\ page[p].history \in Seq(Entries)
            /\ page[p].switch \in [step : {"none", "read", "set", "show"}, mode : Modes, on : BOOLEAN]
      BY <2>1 DEF ChatPages
    <2>4. \A t \in Turns :
            /\ turn[t].of \subseteq Pages /\ turn[t].live \in BOOLEAN
            /\ turn[t].at \in {"unsent", "preflight", "model", "tool", "policy", "control", "run", "over"}
            /\ turn[t].modes \subseteq Modes /\ turn[t].log \in Seq(Entries)
            /\ turn[t].round \in 0 .. MaxRounds - 1 /\ turn[t].todo \in 0 .. MaxCalls
            /\ turn[t].tool \in Tools \cup {"none"}
      BY <2>1 DEF ChatTurns, TurnPlaces, ChatRest
    <2> QED BY <2>2, <2>3, <2>4 DEF ChatIInv, ChatTyped, ChatRest, ChatTypeOK
  <1> QED BY <1>1, <1>2, ChatInitSound, ChatNextSound, ChatRestStays, PTL DEF ChatSpec

\* A job is made at most once by each attempt of a click.
TriesCounted(c) ==
    /\ c.tries \in 0 .. MaxTries - 1 /\ c.made \in 0 .. c.tries + 1
    /\ c.step \notin {"answered", "fresh"} => c.made <= c.tries

\* What the invariant leaves open of the types.
PanelRest ==
    /\ clicks \in 0 .. MaxClicks /\ stops \in 0 .. MaxStops
    /\ \A w \in Windows : TriesCounted(Click(w))

LEMMA PanelRestStays == ASSUME PanelIInv, PanelRest, [PanelNext]_panelVars PROVE PanelRest'
  <1> USE PanelAssumption
  <1>1. /\ panel \in [Windows -> SidePanels] /\ \A w \in Windows : panel[w] \in SidePanels /\ Click(w) \in Clicks
        /\ \A w \in Windows : panel[w].click \in Clicks /\ TriesCounted(panel[w].click)
        /\ clicks \in 0 .. MaxClicks /\ stops \in 0 .. MaxStops
    BY DEF PanelIInv, PanelTyped, SidePanels, Click, PanelRest
  <1>2. NoClick \in Clicks /\ TriesCounted(NoClick) /\ NoClick.tries = 0 /\ NoClick.made = 0
    BY DEF NoClick, Clicks, TriesCounted, Connections, NoJob
  \* A click that goes on to a step that does not lead back to the request.
  <1>3. ASSUME UNCHANGED countVars, \A w \in Windows : TriesCounted(panel'[w].click) PROVE PanelRest'
    BY <1>1, <1>3 DEF countVars, PanelRest, Click
  <1>4. CASE RunEnds \/ SlotFreed \/ \E w \in Windows : AskServed(w) \/ Synced(w) \/ NewsHeard(w) \/ SyncPolled(w) \/ ReviewCancelled(w)
    <2>1. CASE RunEnds \/ SlotFreed \/ \E w \in Windows : AskServed(w) \/ SyncPolled(w)
      <3>1. UNCHANGED <<countVars, panel>>
        BY <2>1 DEF RunEnds, SlotFreed, AskServed, SyncPolled
      <3> QED BY <1>1, <1>3, <3>1
    <2>2. ASSUME NEW w \in Windows, Synced(w) PROVE PanelRest'
      <3>1. UNCHANGED countVars /\ \A x \in Windows : panel'[x].click = panel[x].click
        BY <1>1, <2>2 DEF Synced, SidePanels
      <3> QED BY <1>1, <1>3, <3>1
    <2>3. ASSUME NEW w \in Windows, NewsHeard(w) PROVE PanelRest'
      <3>1. PICK states, told, open : panel' = [panel EXCEPT ![w].jobs = states, ![w].told = told, ![w].port = open]
        BY <2>3 DEF NewsHeard
      <3>2. \A x \in Windows : panel'[x].click = panel[x].click
        BY <1>1, <3>1 DEF SidePanels
      <3>3. UNCHANGED countVars
        BY <2>3 DEF NewsHeard
      <3> QED BY <1>1, <1>3, <3>2, <3>3
    <2>4. ASSUME NEW w \in Windows, ReviewCancelled(w) PROVE PanelRest'
      <3>1. UNCHANGED countVars /\ \A x \in Windows : panel'[x].click = panel[x].click
        BY <1>1, <2>4 DEF ReviewCancelled, SidePanels
      <3> QED BY <1>1, <1>3, <3>1
    <2> QED BY <1>4, <2>1, <2>2, <2>3, <2>4
  <1>5. ASSUME NEW w \in Windows, NEW c, Begins(w, c), c.tries = 0, c.made = 0 PROVE PanelRest'
    <2>1. clicks' \in 0 .. MaxClicks /\ stops' = stops
      BY <1>1, <1>5 DEF Begins
    <2>2. \A x \in Windows : panel'[x].click = IF x = w THEN c ELSE panel[x].click
      BY <1>1, <1>5 DEF Begins, SidePanels
    <2>3. TriesCounted(c)
      BY <1>5 DEF TriesCounted
    <2> QED BY <1>1, <2>1, <2>2, <2>3 DEF PanelRest, Click
  <1>6. ASSUME NEW w \in Windows,
               DraftClicked(w) \/ StartClicked(w) \/ ResumeClicked(w) \/ StopClicked(w) \/ DiscardClicked(w)
        PROVE  PanelRest'
    <2>1. CASE DraftClicked(w)
      <3> DEFINE c == [NoClick EXCEPT !.step = "model", !.kind = "draft", !.env = connection]
      <3>1. c.tries = 0 /\ c.made = 0
        BY DEF NoClick
      <3>2. Begins(w, c)
        BY <2>1 DEF DraftClicked
      <3> HIDE DEF c
      <3> QED BY <1>5, <3>1, <3>2
    <2>2. CASE StartClicked(w)
      <3> DEFINE c == [NoClick EXCEPT !.step = "env", !.kind = "start", !.env = panel[w].review.env,
                                      !.seenEnv = {connection}]
      <3>1. c.tries = 0 /\ c.made = 0
        BY DEF NoClick
      <3>2. Begins(w, c)
        BY <2>2 DEF StartClicked
      <3> HIDE DEF c
      <3> QED BY <1>5, <3>1, <3>2
    <2>3. ASSUME NEW step, NEW kind, NEW j,
                 Begins(w, [NoClick EXCEPT !.step = step, !.kind = kind, !.job = j])
          PROVE  PanelRest'
      <3> DEFINE c == [NoClick EXCEPT !.step = step, !.kind = kind, !.job = j]
      <3>1. c.tries = 0 /\ c.made = 0
        BY DEF NoClick
      <3>2. Begins(w, c)
        BY <2>3
      <3> HIDE DEF c
      <3> QED BY <1>5, <3>1, <3>2
    <2>4. CASE ResumeClicked(w)
      BY <2>3, <2>4 DEF ResumeClicked
    <2>5. CASE StopClicked(w)
      BY <2>3, <2>5 DEF StopClicked
    <2>6. CASE DiscardClicked(w)
      BY <2>3, <2>6 DEF DiscardClicked
    <2> QED BY <1>6, <2>1, <2>2, <2>4, <2>5, <2>6
  \* A click that is over, or goes on with what it has counted.
  <1>7. ASSUME NEW w \in Windows, UNCHANGED countVars, \A x \in Windows \ {w} : panel'[x].click = panel[x].click,
               \/ panel'[w].click = NoClick
               \/ /\ panel'[w].click.tries = panel[w].click.tries /\ panel'[w].click.made = panel[w].click.made
                  /\ panel'[w].click.step \notin {"answered", "fresh"} => panel[w].click.step \notin {"answered", "fresh"}
        PROVE  PanelRest'
    <2>1. TriesCounted(panel'[w].click)
      BY <1>1, <1>2, <1>7 DEF TriesCounted
    <2> QED BY <1>1, <1>3, <1>7, <2>1
  <1>8. ASSUME NEW w \in Windows, Drafted(w) PROVE PanelRest'
    <2>1. UNCHANGED countVars /\ \A x \in Windows : panel'[x].click = IF x = w THEN NoClick ELSE panel[x].click
      BY <1>1, <1>8 DEF Drafted, ClickOver, SidePanels
    <2> QED BY <1>7, <2>1
  <1>9. ASSUME NEW w \in Windows, EnvRead(w) PROVE PanelRest'
    <2>1. UNCHANGED countVars /\ Click(w).step = "env"
      BY <1>9 DEF EnvRead
    <2>2. \A x \in Windows \ {w} : panel'[x].click = panel[x].click
      BY <1>1, <1>9 DEF EnvRead, Steps, ClickOver, SidePanels
    <2>3. \/ panel'[w].click = NoClick
          \/ panel'[w].click.tries = panel[w].click.tries /\ panel'[w].click.made = panel[w].click.made
      BY <1>1, <1>9 DEF EnvRead, Steps, ClickOver, SidePanels, Clicks
    <2> QED BY <1>7, <2>1, <2>2, <2>3 DEF Click
  <1>10. ASSUME NEW w \in Windows, CredsRead(w) PROVE PanelRest'
    <2>1. UNCHANGED countVars /\ Click(w).step = "creds"
      BY <1>10 DEF CredsRead
    <2>2. \A x \in Windows \ {w} : panel'[x].click = panel[x].click
      BY <1>1, <1>10 DEF CredsRead, ClickOver, SidePanels
    <2>3. \/ panel'[w].click = NoClick
          \/ panel'[w].click.tries = panel[w].click.tries /\ panel'[w].click.made = panel[w].click.made
      BY <1>1, <1>10 DEF CredsRead, ClickOver, SidePanels, Clicks
    <2> QED BY <1>7, <2>1, <2>2, <2>3 DEF Click
  <1>11. ASSUME NEW w \in Windows, Started(w) PROVE PanelRest'
    <2>1. UNCHANGED countVars
      BY <1>11 DEF Started
    <2>2. \A x \in Windows \ {w} : panel'[x].click = panel[x].click
      BY <1>1, <1>11 DEF Started, SidePanels
    <2>3. \/ panel'[w].click = NoClick
          \/ /\ panel'[w].click.tries = panel[w].click.tries /\ panel'[w].click.made = panel[w].click.made
             /\ panel'[w].click.step = "fresh"
      BY <1>1, <1>11 DEF Started, SidePanels, Clicks
    <2> QED BY <1>7, <2>1, <2>2, <2>3
  <1>12. ASSUME NEW w \in Windows, FreshRead(w) \/ Resumed(w) \/ Stopped(w) PROVE PanelRest'
    <2>1. UNCHANGED countVars /\ \A x \in Windows : panel'[x].click = IF x = w THEN NoClick ELSE panel[x].click
      BY SMTT(30), <1>1, <1>12 DEF FreshRead, Resumed, Stopped, SidePanels
    <2> QED BY <1>7, <2>1
  <1>13. ASSUME NEW w \in Windows, ClickServed(w) PROVE PanelRest'
    <2>1. UNCHANGED countVars /\ panel[w].click.step = "asked"
      BY SMTT(30), <1>13 DEF ClickServed, Click
    <2>2. \/ \E j : Answers(w, j)
          \/ \E j \in JobIds : panel' = [panel EXCEPT ![w].click.step = "answered", ![w].click.answer = j,
                                                     ![w].click.made = @ + 1]
      BY <1>13 DEF ClickServed, StartServed, ResumeServed, StopServed
    <2>3. ASSUME NEW j, Answers(w, j) PROVE PanelRest'
      <3>1. \A x \in Windows \ {w} : panel'[x].click = panel[x].click
        BY <1>1, <2>3 DEF Answers, SidePanels
      <3>2. /\ panel'[w].click.tries = panel[w].click.tries /\ panel'[w].click.made = panel[w].click.made
            /\ panel'[w].click.step = "answered"
        BY <1>1, <2>3 DEF Answers, SidePanels, Clicks
      <3> QED BY <1>7, <2>1, <3>1, <3>2
    <2>4. ASSUME NEW j \in JobIds, panel' = [panel EXCEPT ![w].click.step = "answered", ![w].click.answer = j,
                                                          ![w].click.made = @ + 1]
          PROVE  PanelRest'
      <3>1. \A x \in Windows \ {w} : panel'[x].click = panel[x].click
        BY <1>1, <2>4 DEF SidePanels
      <3>2. /\ panel'[w].click.tries = panel[w].click.tries /\ panel'[w].click.made = panel[w].click.made + 1
            /\ panel'[w].click.step = "answered"
        BY <1>1, <2>4 DEF SidePanels, Clicks
      <3>3. TriesCounted(panel'[w].click)
        BY <1>1, <2>1, <3>2 DEF TriesCounted
      <3> QED BY <1>1, <1>3, <2>1, <3>1, <3>3
    <2> QED BY <2>2, <2>3, <2>4
  <1>14. CASE WorkerStops
    <2> DEFINE asksAgain(c) == IF c.step # "answered" THEN c
                               ELSE IF c.tries + 1 = MaxTries THEN NoClick
                               ELSE [c EXCEPT !.step = "asked", !.tries = c.tries + 1]
    <2>1. panel' = [w \in Windows |-> [panel[w] EXCEPT !.port = FALSE, !.click = asksAgain(panel[w].click)]]
      BY <1>14 DEF WorkerStops
    <2>2. clicks' = clicks /\ stops' \in 0 .. MaxStops
      <3>1. clicks' = clicks /\ stops < MaxStops /\ stops' = stops + 1
        BY <1>14 DEF WorkerStops
      <3> QED BY <1>1, <3>1
    <2>3. ASSUME NEW w \in Windows PROVE TriesCounted(panel'[w].click)
      <3> DEFINE c == panel[w].click
      <3>1. c \in Clicks /\ TriesCounted(c)
        BY <1>1
      <3>2. panel'[w].click = asksAgain(c)
        BY <1>1, <2>1 DEF SidePanels
      <3> HIDE DEF c
      <3>3. CASE c.step = "answered" /\ c.tries + 1 # MaxTries
        <4> DEFINE n == [c EXCEPT !.step = "asked", !.tries = c.tries + 1]
        <4>1. n.step = "asked" /\ n.tries = c.tries + 1 /\ n.made = c.made
          BY <3>1 DEF Clicks
        <4>2. asksAgain(c) = n
          BY <3>3
        <4> HIDE DEF n
        <4>3. TriesCounted(n)
          BY <3>1, <3>3, <4>1 DEF TriesCounted
        <4> QED BY <3>2, <4>2, <4>3
      <3> QED BY <1>2, <3>1, <3>2, <3>3
    <2> QED BY <1>1, <2>2, <2>3 DEF PanelRest, Click
  <1>15. CASE EnvSwitched
    <2>1. clicks' = clicks /\ stops' \in 0 .. MaxStops
      BY <1>1, <1>15 DEF EnvSwitched
    <2>2. PICK env \in Connections :
             panel' = [w \in Windows |-> IF Click(w).kind = "start"
                          THEN [panel[w] EXCEPT !.click.seenEnv = @ \cup {env}] ELSE panel[w]]
      BY <1>15 DEF EnvSwitched
    <2>3. ASSUME NEW w \in Windows PROVE TriesCounted(panel'[w].click)
      <3>1. /\ panel'[w].click.tries = panel[w].click.tries /\ panel'[w].click.made = panel[w].click.made
            /\ panel'[w].click.step = panel[w].click.step
        BY <1>1, <2>2 DEF SidePanels, Clicks
      <3> QED BY <1>1, <3>1 DEF TriesCounted
    <2> QED BY <1>1, <2>1, <2>3 DEF PanelRest, Click
  <1>16. CASE UNCHANGED panelVars
    BY <1>16 DEF panelVars, PanelRest, Click
  <1>17. ASSUME NEW w \in Windows, ChatUnmounts(w) \/ PanelReopens(w) PROVE PanelRest'
    <2>1. clicks' = clicks /\ stops' \in 0 .. MaxStops
      BY <1>1, <1>17 DEF ChatUnmounts, PanelReopens
    <2>2. \A x \in Windows \ {w} : panel'[x].click = panel[x].click
      BY <1>1, <1>17 DEF ChatUnmounts, PanelReopens
    <2>3. TriesCounted(panel'[w].click)
      <3>1. CASE ChatUnmounts(w)
        <4> DEFINE c == panel[w].click
                   orphan == [c EXCEPT !.gone = c.gone \/ c.kind \in {"draft", "start"}]
        <4>1. c \in Clicks /\ TriesCounted(c) /\ panel'[w].click = orphan
          BY <1>1, <3>1 DEF ChatUnmounts, Click, SidePanels
        <4>2. orphan.tries = c.tries /\ orphan.made = c.made /\ orphan.step = c.step
          BY <4>1 DEF Clicks
        <4> HIDE DEF orphan, c
        <4> QED BY <4>1, <4>2 DEF TriesCounted
      <3>2. CASE PanelReopens(w)
        BY <1>1, <1>2, <3>2 DEF PanelReopens, Fresh
      <3> QED BY <1>17, <3>1, <3>2
    <2> QED BY <1>1, <2>1, <2>2, <2>3 DEF PanelRest, Click
  <1> QED BY <1>4, <1>6, <1>8, <1>9, <1>10, <1>11, <1>12, <1>13, <1>14, <1>15, <1>16, <1>17 DEF PanelNext, PanelStep

\* The panels, their clicks and the worker's jobs are those of the code, within
\* the bounds.
THEOREM PanelsAreTyped == PanelSpec => []PanelTypeOK
  <1>1. PanelInit => PanelRest
    BY PanelAssumption DEF PanelInit, Fresh, NoClick, PanelRest, Click, TriesCounted
  <1>2. PanelIInv /\ PanelRest => PanelTypeOK
    <2> SUFFICES ASSUME PanelIInv, PanelRest, NEW w \in Windows
                 PROVE  /\ panel[w].active \in JobIds \cup {NoJob} /\ panel[w].port \in BOOLEAN
                        /\ panel[w].jobs \in [JobIds -> JobStates] /\ panel[w].told \in [JobIds -> JobStates]
                        /\ panel[w].watched \subseteq JobIds
                        /\ panel[w].review \in [on : BOOLEAN, env : Connections, blocked : BOOLEAN]
                        /\ Click(w).step \in {"none", "model", "env", "creds", "asked", "answered", "fresh"}
                        /\ Click(w).gone \in BOOLEAN
                        /\ Click(w).tries \in 0 .. MaxTries - 1 /\ Click(w).made \in 0 .. MaxTries
                        /\ news[w] \in Seq([JobIds -> JobStates])
                        /\ ask[w] \in [1 .. MaxAsks -> JobIds \cup {NoJob, Asked, Unasked}]
      BY DEF PanelIInv, PanelTyped, PanelRest, PanelTypeOK, JobRecords
    <2>1. panel[w] \in SidePanels /\ Click(w) \in Clicks
      BY DEF PanelIInv, PanelTyped, SidePanels, Click
    <2>2. Click(w).tries \in 0 .. MaxTries - 1 /\ Click(w).made \in 0 .. MaxTries
      BY <2>1, PanelAssumption DEF PanelRest, TriesCounted, Clicks
    <2> QED BY <2>1, <2>2 DEF PanelIInv, PanelTyped, SidePanels, JobLists, Clicks
  <1> QED BY <1>1, <1>2, PanelInitSound, PanelsStaySound, PanelRestStays, PTL DEF PanelSpec
=============================================================================
