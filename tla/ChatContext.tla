----------------------------- MODULE ChatContext -----------------------------
(***************************************************************************)
(* The dashboard context of the chat: the content script that finds the    *)
(* entity of a page (content/context-scraper.ts), one in every frame of a  *)
(* tab, and the record of the tab that the worker keeps in storage.session *)
(* (src/src/chat/context-store.ts).                                        *)
(***************************************************************************)
EXTENDS Naturals, FiniteSets

CONSTANTS
    Frames,
    Sites,      \* pages with an entity: [entity, via], via naming how it is found
    Blank,      \* a page without one
    Merchants, Channels,
    MerchantOf, \* the merchant of each channel
    NoEntity,
    MaxLoads    \* bound on the pages loaded

ASSUME ContextAssumption ==
    /\ MerchantOf \in [Channels -> Merchants]
    /\ NoEntity \notin Merchants \cup Channels
    /\ Merchants \cap Channels = {} /\ MaxLoads \in Nat
    /\ Sites \subseteq [entity : Merchants \cup Channels,
                        via : {"path", "edit", "query", "script", "form", "print", "anchor"}]
    /\ Blank \notin Sites

VARIABLES
    site,       \* per frame, its page
    last,       \* per frame, lastSignature: the page it reported last, Blank for none
    report,     \* per frame, the worker's handling of its report
    context,    \* the stored record
    loads,
    best,       \* history: the highest confidence stored or rejected since the last clear
    blurred     \* history: reports overlapped since then

contextVars == <<site, last, report, context, loads, best, blurred>>

Levels    == {"merchant", "channel"}
NoIds     == [l \in Levels |-> NoEntity]
NoContext == [entity |-> NoEntity, confidence |-> 0, ids |-> NoIds]
NoReport  == [step |-> "none", of |-> Blank, read |-> NoContext]

ContextInit ==
    /\ site = [f \in Frames |-> Blank]
    /\ last = [f \in Frames |-> Blank]
    /\ report = [f \in Frames |-> NoReport]
    /\ context = NoContext
    /\ loads = 0 /\ best = 0 /\ blurred = FALSE

-----------------------------------------------------------------------------
(* What a page tells of itself.                                            *)

LevelOf(e) == IF e \in Channels THEN "channel" ELSE "merchant"

Confidence(p) ==
    CASE p.via \in {"path", "edit"}  -> 100
      [] p.via = "script"            -> 95
      [] p.via \in {"query", "form"} -> 90
      [] p.via = "print"             -> 80
      [] OTHER                       -> 60

\* A query names the parents as well, an edit page nothing but the entity.
IdsOf(p) ==
    [l \in Levels |->
        IF p.via = "edit" THEN NoEntity
        ELSE IF l = LevelOf(p.entity) THEN p.entity
        ELSE IF p.via = "query" /\ p.entity \in Channels THEN MerchantOf[p.entity] ELSE NoEntity]

\* The browser loads a page, and with it the script anew.
SiteLoaded(f) ==
    /\ loads < MaxLoads /\ loads' = loads + 1
    /\ \E p \in Sites \cup {Blank} : site' = [site EXCEPT ![f] = p]
    /\ last' = [last EXCEPT ![f] = Blank]
    /\ UNCHANGED <<report, context, best, blurred>>

\* The page changes itself: pushState, popstate, a mutation, a click.
SiteChanged(f) ==
    /\ loads < MaxLoads /\ loads' = loads + 1
    /\ \E p \in (Sites \cup {Blank}) \ {site[f]} : site' = [site EXCEPT ![f] = p]
    /\ UNCHANGED <<last, report, context, best, blurred>>

\* The pages that are found by their address differ in the signature of a report only
\* by the entity, the section and the name.
SourceOf(p) == IF p.via \in {"path", "edit", "query", "print"} THEN "url" ELSE p.via

\* The section and the name are the same as well: nothing is reported.
SameSignature(f) ==
    /\ report[f].step = "none" /\ site[f] # last[f] /\ Blank \notin {site[f], last[f]}
    /\ site[f].entity = last[f].entity /\ SourceOf(site[f]) = SourceOf(last[f])
    /\ last' = [last EXCEPT ![f] = site[f]]
    /\ UNCHANGED <<site, report, context, loads, best, blurred>>

\* reportContext, 250 ms after the last of these: what was reported before is
\* not reported again, and a page without an entity only after one with.
Reports(f) ==
    /\ report[f].step = "none" /\ site[f] # last[f]
    /\ last' = [last EXCEPT ![f] = site[f]]
    /\ report' = [report EXCEPT ![f] = [NoReport EXCEPT !.of = site[f],
                                            !.step = IF site[f] = Blank THEN "clear" ELSE "get"]]
    /\ blurred' = (blurred \/ \E g \in Frames \ {f} : report[g].step # "none")
    /\ UNCHANGED <<site, context, loads, best>>

-----------------------------------------------------------------------------
(* The worker.                                                             *)

ClearTab(f) ==
    /\ report[f].step = "clear"
    /\ context' = NoContext
    /\ report' = [report EXCEPT ![f] = NoReport]
    /\ best' = 0 /\ blurred' = \E g \in Frames \ {f} : report[g].step # "none"
    /\ UNCHANGED <<site, last, loads>>

\* Mutant of shouldReplaceChatContext: the latest report counts.
ReplacesAlways(current, p) == TRUE

\* Of the same confidence, the later one.
shouldReplaceChatContext(current, p) ==
    current = NoContext \/ Confidence(p) >= current.confidence

\* Mutant of pruneIdsForCurrentEntity: keeps the ids below the entity.
KeepIds(ids, e) == [ids EXCEPT ![LevelOf(e)] = e]

pruneIdsForCurrentEntity(ids, e) ==
    [l \in Levels |-> IF l = LevelOf(e) THEN e
                      ELSE IF l = "channel" THEN NoEntity ELSE ids[l]]

mergeChatContext(current, p) ==
    LET ids == [l \in Levels |-> IF IdsOf(p)[l] # NoEntity THEN IdsOf(p)[l] ELSE current.ids[l]]
    IN  [entity |-> p.entity, confidence |-> Confidence(p),
         ids |-> pruneIdsForCurrentEntity(ids, p.entity)]

\* upsertChatContext: the record is read, ...
ContextRead(f) ==
    /\ report[f].step = "get"
    /\ IF shouldReplaceChatContext(context, report[f].of)
       THEN report' = [report EXCEPT ![f].step = "set", ![f].read = context] /\ UNCHANGED best
       ELSE /\ report' = [report EXCEPT ![f] = NoReport]
            /\ best' = IF best > Confidence(report[f].of) THEN best ELSE Confidence(report[f].of)
    /\ UNCHANGED <<site, last, context, loads, blurred>>

\* ... and written, merged with what was read.
ContextStored(f) ==
    /\ report[f].step = "set"
    /\ context' = mergeChatContext(report[f].read, report[f].of)
    /\ report' = [report EXCEPT ![f] = NoReport]
    /\ best' = IF best > Confidence(report[f].of) THEN best ELSE Confidence(report[f].of)
    /\ UNCHANGED <<site, last, loads, blurred>>

ContextNext ==
    \E f \in Frames : \/ SiteLoaded(f) \/ SiteChanged(f) \/ SameSignature(f) \/ Reports(f)
                      \/ ClearTab(f) \/ ContextRead(f) \/ ContextStored(f)

ContextSpec == ContextInit /\ [][ContextNext]_contextVars

-----------------------------------------------------------------------------
ContextTypeOK ==
    /\ site \in [Frames -> Sites \cup {Blank}] /\ last \in [Frames -> Sites \cup {Blank}]
    /\ \A f \in Frames : /\ report[f].step \in {"none", "get", "set", "clear"}
                         /\ report[f].of \in Sites \cup {Blank}
    /\ context.entity \in Merchants \cup Channels \cup {NoEntity}
    /\ context.ids \in [Levels -> Merchants \cup Channels \cup {NoEntity}]
    /\ loads \in 0 .. MaxLoads /\ best \in 0 .. 100 /\ blurred \in BOOLEAN

\* Frames that do not report at the same time keep the best: the stored context
\* has the highest confidence any of them reported since one last found that its
\* page has no entity.
BestReportKept == ~blurred => context.confidence = best

\* The context names its own entity and nothing below it, whatever the record it
\* was merged with named and however reports overlap.
IdsFitEntity ==
    context # NoContext =>
        /\ context.ids[LevelOf(context.entity)] = context.entity
        /\ context.entity \in Merchants => context.ids["channel"] = NoEntity

\* What the chat is told of the tab is the best report, and consistent in itself.
ContextIsSound == BestReportKept /\ IdsFitEntity

\* "Merchant derived from current Channel context" (context-store.ts:257): the
\* merchant of a channel that was left is taken for the new channel's.
MerchantFits ==
    context.entity \in Channels /\ context.ids["merchant"] # NoEntity
        => context.ids["merchant"] = MerchantOf[context.entity]

\* The context of a tab with one frame is its page's once that is reported: not
\* after a page found with less confidence, nor after one without an entity.
FollowsPage ==
    \A f \in Frames :
        Frames = {f} /\ report[f].step = "none" /\ site[f] = last[f]
            => context.entity = IF site[f] = Blank THEN NoEntity ELSE site[f].entity
=============================================================================
