------------------------------- MODULE Settings -------------------------------
(***************************************************************************)
(* manage_settings, src/src/tools/manage-settings.ts.  The gateway API     *)
(* reads a setting of a merchant or channel only, and says nothing when    *)
(* it is inherited: the tool climbs to the parents itself, and keeps what  *)
(* it has read for the other entities and keys of the call, while others   *)
(* change the settings.                                                    *)
(***************************************************************************)
EXTENDS FiniteSets, Naturals, Sequences

CONSTANTS
    Platforms,      \* merchants and channels
    Division,       \* what is above them: its settings cannot be read
    NoPlatform,
    ParentOf,
    SettingKeys,
    MaxDepth,       \* MAX_INHERITANCE_DEPTH
    MaxValueChanges \* by others, per call

ASSUME SettingsAssumption ==
    /\ ParentOf \in [Platforms -> Platforms \cup {Division, NoPlatform}]
    /\ IsFiniteSet(Platforms) /\ IsFiniteSet(SettingKeys)
    /\ MaxDepth \in Nat \ {0} /\ MaxValueChanges \in Nat

VARIABLES
    settings,   \* of every platform and key, in the gateway
    moments,    \* ghost: what settings has been since the call began
    foreign,
    lookup      \* the call, see NewLookup

settingsVars == <<settings, moments, foreign, lookup>>

Places == Platforms \X SettingKeys

SettingValues == {"unset", "default", "special"}

NewLookup ==
    [action  |-> "none",
     stage   |-> "idle",
     todo    |-> <<>>,      \* of <<platform, key>>
     at      |-> NoPlatform,
     path    |-> <<>>,      \* resolutionPath
     reads   |-> {},        \* the two maps of the ResolutionCache
     parents |-> {},
     answers |-> {}]

SettingsInit ==
    /\ settings \in [Places -> SettingValues]
    /\ moments = {settings}
    /\ foreign = 0 /\ lookup = NewLookup

-----------------------------------------------------------------------------
(* Reading.                                                                *)

Place(l) == Head(l.todo)
Wanted(l) == Place(l)[2]

\* The next key, or entity, of the call.
Proceeds(l) ==
    IF l.todo = <<>> THEN [l EXCEPT !.stage = "over", !.at = NoPlatform, !.path = <<>>]
    ELSE [l EXCEPT !.stage = IF l.action = "set" THEN "post" ELSE "read",
                   !.at = Place(l)[1], !.path = <<Place(l)[1]>>]

\* What the call does with an effective value, or with "unknown" for none.
\* list_non_default leaves the answers that are the default out of its report.
Answered(l, v) ==
    Proceeds([l EXCEPT !.todo = Tail(@),
                       !.answers = @ \cup {[place |-> Place(l), value |-> v, path |-> l.path]}])

Begun(action, todo) == [NewLookup EXCEPT !.action = action, !.todo = todo]

\* get, batch_get of several entities, list_non_default of several keys, set and
\* batch_set: the pairs are gone through in their order.
Orders ==
    [1 .. 1 -> Places]
    \cup {s \in [1 .. Cardinality(Platforms) - 1 -> Places] :
            \A i, j \in DOMAIN s : i # j => s[i][1] # s[j][1] /\ s[i][2] = s[j][2]}
    \cup {s \in [1 .. Cardinality(SettingKeys) -> Places] :
            \A i, j \in DOMAIN s : i # j => s[i][1] = s[j][1] /\ s[i][2] # s[j][2]}

SettingsCalled ==
    /\ lookup.stage = "idle"
    /\ \E action \in {"get", "set"}, todo \in Orders :
        /\ action = "set" => \A i, j \in DOMAIN todo : todo[i][1] = todo[j][1]
        /\ lookup' = Proceeds(Begun(action, todo))
    /\ UNCHANGED <<settings, moments, foreign>>

\* The cache goes with the call.
CallReturned ==
    /\ lookup.stage = "over" /\ lookup' = NewLookup
    /\ moments' = {settings} /\ foreign' = 0
    /\ UNCHANGED settings

\* Mutant of Cached: every setting is read anew.
Uncached(l) == {}

Cached(l) == {r \in l.reads : r.place = <<l.at, Wanted(l)>>}

\* readSettingValue and what resolveEffectiveSetting makes of it.  A failed read
\* is kept as well.
SettingRead ==
    LET l == lookup
        place == <<l.at, Wanted(l)>>
        answers == IF Cached(l) # {} THEN Cached(l)
                   ELSE [place : {place}, value : {settings[place], "failed"}]
    IN  /\ l.stage = "read"
        /\ \E r \in answers :
            LET kept == [l EXCEPT !.reads = @ \cup {r}]
            IN  lookup' = CASE r.value = "unset"  -> [kept EXCEPT !.stage = "parent"]
                            [] r.value = "failed" -> Answered(kept, "unknown")
                            [] OTHER              -> Answered(kept, r.value)
        /\ UNCHANGED <<settings, moments, foreign>>

\* getParentInfo: a lookup that fails is kept as no parent.
ParentFound ==
    LET l == lookup
        known == {r \in l.parents : r.of = l.at}
        answers == IF known # {} THEN known ELSE [of : {l.at}, is : {ParentOf[l.at], NoPlatform}]
    IN  /\ l.stage = "parent"
        /\ \E r \in answers :
            LET kept == [l EXCEPT !.parents = @ \cup {r}]
            IN  lookup' = IF r.is \notin Platforms \/ Len(l.path) = MaxDepth
                          THEN Answered(kept, "unknown")
                          ELSE [kept EXCEPT !.stage = "read", !.at = r.is, !.path = Append(@, r.is)]
        /\ UNCHANGED <<settings, moments, foreign>>

-----------------------------------------------------------------------------
(* Writing.                                                                *)

TakesValue(x, v) ==
    /\ settings' = [settings EXCEPT ![x] = v]
    /\ moments' = moments \cup {settings'}

\* batchSet goes on when a key is refused.
SettingPosted ==
    /\ lookup.stage = "post"
    /\ \/ \E v \in {"default", "special"} :
            TakesValue(Place(lookup), v) /\ lookup' = Answered(lookup, v)
       \/ lookup' = Answered(lookup, "unknown") /\ UNCHANGED <<settings, moments>>
    /\ UNCHANGED foreign

\* A request that throws ends the call, with it go the reports of the keys before.
\* Whether the one that timed out had its effect nobody knows.
CallThrows ==
    /\ lookup.stage \in {"read", "parent", "post"}
    /\ lookup' = [NewLookup EXCEPT !.stage = "over", !.reads = lookup.reads]
    /\ \/ lookup.stage = "post" /\ TakesValue(Place(lookup), "special")
       \/ UNCHANGED <<settings, moments>>
    /\ UNCHANGED foreign

OthersChange ==
    /\ lookup.stage \notin {"idle", "over"}
    /\ foreign < MaxValueChanges /\ foreign' = foreign + 1
    /\ \E x \in Places, v \in SettingValues : v # settings[x] /\ TakesValue(x, v)
    /\ UNCHANGED lookup

SettingsNext ==
    \/ SettingsCalled \/ SettingRead \/ ParentFound
    \/ SettingPosted \/ CallThrows \/ CallReturned \/ OthersChange

SettingsSpec == SettingsInit /\ [][SettingsNext]_settingsVars

-----------------------------------------------------------------------------

SettingsTypeOK ==
    /\ settings \in [Places -> SettingValues] /\ moments \in SUBSET [Places -> SettingValues]
    /\ foreign \in 0 .. MaxValueChanges
    /\ lookup.stage \in {"idle", "read", "parent", "post", "over"}
    /\ lookup.at \in Platforms \cup {NoPlatform} /\ Len(lookup.path) <= MaxDepth
    /\ \A a \in lookup.answers : a.place \in Places /\ a.value \in SettingValues \cup {"unknown"}

had == [x \in Places |-> {s[x] : s \in moments}]

\* What an answer says held in s: the entity it came from had the value, and those
\* below had none.
Held(s, a) ==
    LET top == Len(a.path)
    IN  /\ s[<<a.path[top], a.place[2]>>] = a.value
        /\ \A i \in 1 .. top - 1 : s[<<a.path[i], a.place[2]>>] = "unset"

\* At most one entity of the chain of an answer has changed since the call began.
OneMoved(a) ==
    \E k \in 1 .. Len(a.path) : \A i \in 1 .. Len(a.path) :
        i # k => \A s, t \in moments : s[<<a.path[i], a.place[2]>>] = t[<<a.path[i], a.place[2]>>]

\* Each entity of the chain of an answer was, at some time of the call, as the answer
\* says; and the answer was the effective value at one moment of the call, unless
\* two entities of the chain have changed under it.  Of a key that was set the answer
\* says that the value was there.
AnswersWereTrue ==
    \A a \in lookup.answers :
        LET from(i) == had[<<a.path[i], a.place[2]>>]
            top == Len(a.path)
        IN  a.value # "unknown" =>
                /\ a.value \in from(top) /\ \A i \in 1 .. top - 1 : "unset" \in from(i)
                /\ OneMoved(a) => \E s \in moments : Held(s, a)

\* Two entities of a call that inherit a setting from the same parent are told
\* the same, although it is changed in the middle of the call.
SiblingsAgree ==
    \A a, b \in lookup.answers :
        /\ a.value # "unknown" /\ b.value # "unknown"
        /\ a.place[2] = b.place[2]
        /\ a.path[Len(a.path)] = b.path[Len(b.path)]
        => a.value = b.value

\* Both, for single reads, lists of entities and listings of what differs.
AnswersAreSound == AnswersWereTrue /\ SiblingsAgree

\* Not so: the chain is read one entity after the other, and an answer may put
\* together what two of them were at different moments.
EffectiveAtOnce == \A a \in lookup.answers : a.value # "unknown" => \E s \in moments : Held(s, a)
=============================================================================
