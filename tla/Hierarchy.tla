------------------------------- MODULE Hierarchy ------------------------------
(***************************************************************************)
(* get_hierarchy, src/src/tools/get-hierarchy.ts: the tree below an entity *)
(* is listed node by node, first child first, down to a depth, while       *)
(* others create, disable and delete entities.                             *)
(***************************************************************************)
EXTENDS FiniteSets, Naturals, Sequences

CONSTANTS
    Entities,
    NoEntityAbove,
    UnderOf,        \* the parent of each: division, merchant and channel below PSP
    PspRoots,       \* the entities that are PSPs
    MaxTreeChanges

ASSUME HierarchyAssumption ==
    /\ UnderOf \in [Entities -> Entities \cup {NoEntityAbove}] /\ PspRoots \subseteq Entities
    /\ IsFiniteSet(Entities) /\ NoEntityAbove \notin Entities
    /\ \E rank \in [Entities -> 0 .. 3] :     \* PSP, division, merchant, channel
          \A e \in Entities : UnderOf[e] # NoEntityAbove => rank[e] = rank[UnderOf[e]] + 1
    /\ MaxTreeChanges \in Nat

VARIABLES
    entity,     \* "gone", "enabled" or "disabled", in the gateway
    stood,      \* ghost: all that each has been since the call began
    treeChanges,
    walk        \* the call, see NewWalk

treeVars == <<entity, stood, treeChanges, walk>>

EntityStates == {"gone", "enabled", "disabled"}

NewWalk ==
    [stage    |-> "idle",
     root     |-> NoEntityAbove,
     depth    |-> 1,
     disabled |-> FALSE,    \* includeDisabled
     todo     |-> <<>>,     \* the calls of buildHierarchyChildren still to be made
     tree     |-> {},
     hidden   |-> 0,        \* hiddenDisabled
     failed   |-> {}]       \* ghost: the nodes whose listing was not ok

TreeInit ==
    /\ entity \in [Entities -> EntityStates]
    /\ stood = [e \in Entities |-> {entity[e]}]
    /\ treeChanges = 0 /\ walk = NewWalk

Below(e) == {x \in Entities : UnderOf[x] = e}

\* The listings in the order of the API.
OrdersOf(S) == {s \in [1 .. Cardinality(S) -> S] : \A i, j \in DOMAIN s : i # j => s[i] # s[j]}

-----------------------------------------------------------------------------

\* The depth is cut to 1 .. 3.
Cut(depth) == IF depth < 1 THEN 1 ELSE IF depth > 3 THEN 3 ELSE depth

\* A PSP is not fetched.  estimateOnly, and a call without a root, end at once.
\* A call leaves nothing behind for the next one, and one is enough.
HierarchyAsked ==
    /\ walk.stage = "idle"
    /\ \E root \in Entities, depth \in 0 .. 4, disabled \in BOOLEAN :
        walk' = [NewWalk EXCEPT !.root = root, !.depth = Cut(depth), !.disabled = disabled,
                                !.stage = IF root \in PspRoots THEN "listing" ELSE "root",
                                !.tree = {root}, !.todo = <<[node |-> root, left |-> Cut(depth)]>>]
    /\ stood' = [e \in Entities |-> {entity[e]}] /\ treeChanges' = 0
    /\ UNCHANGED entity

NoTree(w) == [w EXCEPT !.stage = "over", !.tree = {}, !.todo = <<>>]

RootFetched ==
    /\ walk.stage = "root"
    /\ \/ entity[walk.root] # "gone" /\ walk' = [walk EXCEPT !.stage = "listing"]
       \/ walk' = NoTree(walk)
    /\ UNCHANGED <<entity, stood, treeChanges>>

\* Mutant of Deeper: the last level but one is the last.
DeeperByTwo(nodes, left) == IF left <= 2 THEN <<>> ELSE [i \in DOMAIN nodes |-> [node |-> nodes[i], left |-> left - 1]]

Deeper(nodes, left) == IF left <= 1 THEN <<>> ELSE [i \in DOMAIN nodes |-> [node |-> nodes[i], left |-> left - 1]]

\* Mutant of Visible: whatever has an id is shown.
AllOf(listed) == listed

\* splitDisabledNodes
Visible(listed) == IF walk.disabled THEN listed ELSE {e \in listed : entity[e] = "enabled"}

\* fetchChildren: a listing that is not ok is one of no children.
ChildrenListed ==
    LET call == Head(walk.todo)
        listed == {e \in Below(call.node) : entity[e] # "gone"}
    IN  /\ walk.stage = "listing" /\ walk.todo # <<>>
        /\ \/ \E nodes \in OrdersOf(Visible(listed)) :
                walk' = [walk EXCEPT !.tree = @ \cup Visible(listed),
                                     !.hidden = @ + Cardinality(listed \ Visible(listed)),
                                     !.todo = Deeper(nodes, call.left) \o Tail(@)]
           \/ walk' = [walk EXCEPT !.failed = @ \cup {call.node}, !.todo = Tail(@)]
        /\ UNCHANGED <<entity, stood, treeChanges>>

HierarchyAnswered ==
    /\ walk.stage = "listing" /\ walk.todo = <<>>
    /\ walk' = [walk EXCEPT !.stage = "over"]
    /\ UNCHANGED <<entity, stood, treeChanges>>

HierarchyThrows ==
    /\ walk.stage \in {"root", "listing"} /\ walk' = NoTree(walk)
    /\ UNCHANGED <<entity, stood, treeChanges>>

EntityChanges ==
    /\ walk.stage \in {"root", "listing"}
    /\ treeChanges < MaxTreeChanges /\ treeChanges' = treeChanges + 1
    /\ \E e \in Entities, s \in EntityStates :
        /\ s # entity[e]
        /\ entity' = [entity EXCEPT ![e] = s] /\ stood' = [stood EXCEPT ![e] = @ \cup {s}]
    /\ UNCHANGED walk

TreeNext ==
    \/ HierarchyAsked \/ RootFetched \/ ChildrenListed
    \/ HierarchyAnswered \/ HierarchyThrows \/ EntityChanges

TreeSpec == TreeInit /\ [][TreeNext]_treeVars

-----------------------------------------------------------------------------

TreeTypeOK ==
    /\ entity \in [Entities -> EntityStates] /\ stood \in [Entities -> SUBSET EntityStates]
    /\ treeChanges \in 0 .. MaxTreeChanges
    /\ walk.stage \in {"idle", "root", "listing", "over"} /\ walk.depth \in 1 .. 3
    /\ walk.tree \subseteq Entities /\ walk.hidden \in 0 .. Cardinality(Entities)

\* What is shown hangs together and was there, enabled unless disabled ones were
\* asked for, at some time of the call; and no more is counted as hidden than was
\* disabled.
TreeWasThere ==
    /\ \A e \in walk.tree \ {walk.root} :
        /\ UnderOf[e] \in walk.tree
        /\ "enabled" \in stood[e] \/ (walk.disabled /\ "disabled" \in stood[e])
    /\ walk.hidden <= Cardinality({e \in Entities : "disabled" \in stood[e]})

\* The ways down from the root of the call, to the depth that was asked for.
Ways ==
    {s \in UNION {[1 .. n -> Entities] : n \in 1 .. walk.depth} :
        \A i \in DOMAIN s : UnderOf[s[i]] = IF i = 1 THEN walk.root ELSE s[i - 1]}

\* What stands still while the call runs.
Stable(s) == \A i \in DOMAIN s : stood[s[i]] = {"enabled"}

Answer == walk.stage = "over" /\ walk.tree # {}

\* What stands still while the call runs, below what does, down to the asked
\* depth, is shown, unless a listing on the way to it failed.
StableIsShown ==
    Answer => \A s \in Ways :
        Stable(s) /\ (\A i \in DOMAIN s : UnderOf[s[i]] \notin walk.failed)
        => s[Len(s)] \in walk.tree

\* The tree that is answered shows nothing that was not there, and all that was.
TreeIsSound == TreeWasThere /\ StableIsShown

\* Not so: a listing that failed is not told from one without children.
FullTree == Answer => \A s \in Ways : Stable(s) => s[Len(s)] \in walk.tree
=============================================================================
