------------------------- MODULE ConfirmFlowProofs -------------------------
(* What holds of ConfirmFlow for every number of calls, local writes,      *)
(* scripts, openings of the side panel and stops of the worker.            *)
EXTENDS ConfirmFlow, SequenceTheorems, TLAPS

USE DEF sessionVars, swVars, panelVars, localVars, userVars, grantVars

-----------------------------------------------------------------------------
(* Queues of storage operations                                            *)

LEMMA AppendTyped ==
    ASSUME NEW S, NEW s \in Seq(S), NEW e \in S
    PROVE  /\ Append(s, e) \in Seq(S)
           /\ DOMAIN Append(s, e) = 1..(Len(s) + 1)
           /\ \A i \in 1..Len(s) : Append(s, e)[i] = s[i]
           /\ Append(s, e)[Len(s) + 1] = e
  BY AppendProperties

LEMMA TailTyped ==
    ASSUME NEW S, NEW s \in Seq(S), s # <<>>
    PROVE  /\ Tail(s) \in Seq(S) /\ Head(s) \in S
           /\ Head(s) = s[1] /\ 1 \in DOMAIN s
           /\ \A i \in DOMAIN Tail(s) : i + 1 \in DOMAIN s /\ Tail(s)[i] = s[i + 1]
  BY HeadTailProperties

\* Unmounting the dialog changes marks, no operation.
LEMMA UnmountedTyped ==
    ASSUME NEW s \in Seq(PanelOp)
    PROVE  /\ Unmounted(s) \in Seq(PanelOp) /\ DOMAIN Unmounted(s) = DOMAIN s
           /\ \A i \in DOMAIN s : /\ Unmounted(s)[i].op = s[i].op
                                  /\ Unmounted(s)[i].call = s[i].call
                                  /\ Unmounted(s)[i].choice = s[i].choice
  <1>1. DOMAIN s = 1..Len(s) /\ Len(s) \in Nat
    OBVIOUS
  <1>2. ASSUME NEW i \in DOMAIN s
        PROVE  /\ [s[i] EXCEPT !.mounted = FALSE] \in PanelOp
               /\ [s[i] EXCEPT !.mounted = FALSE].op = s[i].op
               /\ [s[i] EXCEPT !.mounted = FALSE].call = s[i].call
               /\ [s[i] EXCEPT !.mounted = FALSE].choice = s[i].choice
    <2>1. s[i] \in PanelOp
      BY <1>1
    <2> QED BY <2>1 DEF PanelOp
  <1>3. Unmounted(s) \in [1..Len(s) -> PanelOp]
    BY <1>1, <1>2 DEF Unmounted
  <1>4. Unmounted(s) \in Seq(PanelOp)
    BY <1>1, <1>3
  <1> QED BY <1>2, <1>4 DEF Unmounted

-----------------------------------------------------------------------------
(* Type correctness                                                        *)

\* What a call's step does to its place and to the queue of the worker.
LEMMA GoesOnTyped ==
    ASSUME TypeOK, NEW c \in Calls, swq # <<>>, NEW next \in CallStates, GoesOn(c, next)
    PROVE  swq' \in Seq(Calls) /\ st' \in [Calls -> CallStates]
  <1>1. Tail(swq) \in Seq(Calls)
    BY TailTyped DEF TypeOK
  <1>2. swq' \in Seq(Calls)
    BY <1>1, AppendTyped DEF GoesOn
  <1> QED BY <1>2 DEF GoesOn, TypeOK

LEMMA InitTyped == Init => TypeOK
  <1>1. << >> \in Seq(Calls) /\ << >> \in Seq(PanelOp)
    OBVIOUS
  <1>2. Init => asks \in [Locals -> {"idle", "asking", "confirmed", "waved", "cancelled", "gone"}]
    BY DEF Init
  <1>3. Init => st \in [Calls -> CallStates] /\ choice \in [Calls -> Choices \cup {None}]
    BY DEF Init, CallStates
  <1>4. Init => sc \in [Scripts -> {"idle", "running", "over", "gone"}]
    BY DEF Init
  <1>5. Init => ready \in BOOLEAN /\ hasScope \in BOOLEAN
    BY DEF Init
  <1>6. Init => /\ stops \in Nat /\ turns \in Nat /\ notices \in Nat
                /\ panel \in {"closed", "gated", "open"}
                /\ agreed \subseteq Calls \cup Locals /\ viewed \subseteq Calls \cup Locals
                /\ grants \subseteq Scripts \cup {None} /\ strays \subseteq Locals
    BY DEF Init
  <1>7. Init => /\ swq = <<>> /\ ops = <<>> /\ request = None /\ response = None
                /\ remotePending = None /\ pendingState = None /\ scope = None /\ auto = None
    BY DEF Init
  <1> QED BY <1>1, <1>2, <1>3, <1>4, <1>5, <1>6, <1>7 DEF TypeOK

LEMMA SwStepTyped ==
    ASSUME TypeOK, NEW c \in Calls, SwStep(c)
    PROVE  TypeOK'
  <1> USE DEF Served, CallStates, Waiting, InFlight, LetThrough
  <1>1. CASE IsReady(c)
    <2>1. swq' \in Seq(Calls) /\ st' \in [Calls -> CallStates]
      BY <1>1, GoesOnTyped DEF IsReady
    <2> QED BY <1>1, <2>1 DEF IsReady, TypeOK
  <1>2. CASE Cleared(c)
    <2>1. swq' \in Seq(Calls) /\ st' \in [Calls -> CallStates]
      BY <1>2, GoesOnTyped DEF Cleared
    <2> QED BY <1>2, <2>1 DEF Cleared, Notify, TypeOK
  <1>3. CASE RequestSet(c)
    <2>1. swq' \in Seq(Calls) /\ st' \in [Calls -> CallStates]
      BY <1>3, GoesOnTyped DEF RequestSet
    <2> QED BY <1>3, <2>1 DEF RequestSet, Notify, TypeOK
  <1>4. CASE Looked(c)
    <2>1. swq' \in Seq(Calls) /\ st' \in [Calls -> CallStates]
      BY <1>4, GoesOnTyped DEF Looked
    <2>2. choice' \in [Calls -> Choices \cup {None}]
      <3>1. Names(response, c) => response.choice \in Choices
        BY DEF Names, TypeOK, Response
      <3> QED BY <1>4, <3>1 DEF Looked, TypeOK
    <2> QED BY <1>4, <2>1, <2>2 DEF Looked, TypeOK
  <1>5. CASE WaitTimedOut(c)
    <2>1. swq' \in Seq(Calls)
      BY <1>5, AppendTyped DEF WaitTimedOut, TypeOK
    <2> QED BY <1>5, <2>1 DEF WaitTimedOut, TypeOK
  <1>6. CASE Closed(c)
    <2>1. swq' \in Seq(Calls) /\ st' \in [Calls -> CallStates]
      BY <1>6, GoesOnTyped DEF Closed, Outcome
    <2> QED BY <1>6, <2>1 DEF Closed, Notify, TypeOK
  <1>7. CASE ExecuteConfirmed(c) \/ ToolEnded(c)
    BY <1>7 DEF ExecuteConfirmed, ToolEnded, TypeOK
  <1> QED BY <1>1, <1>2, <1>3, <1>4, <1>5, <1>6, <1>7 DEF SwStep

LEMMA CallerTyped ==
    ASSUME TypeOK, NEW c \in Calls, ExecuteTool(c) \/ \E yes \in BOOLEAN : PageAsked(c, yes)
    PROVE  TypeOK'
  <1> USE DEF CallStates, Waiting, InFlight
  <1>1. CASE ExecuteTool(c)
    <2>1. swq' \in Seq(Calls)
      BY <1>1, AppendTyped DEF ExecuteTool, TypeOK
    <2> QED BY <1>1, <2>1 DEF ExecuteTool, TypeOK
  <1>2. CASE \E yes \in BOOLEAN : PageAsked(c, yes)
    BY <1>2 DEF PageAsked, TypeOK
  <1> QED BY <1>1, <1>2

LEMMA StopTyped ==
    ASSUME TypeOK, NEW n \in 0..Len(swq), SwStops(n)
    PROVE  TypeOK'
  <1>1. \A i \in 1..n : swq[i] \in Calls
    BY DEF TypeOK
  <1>2. request' \in Calls \cup {None} /\ response' \in Response \cup {None}
    BY <1>1 DEF SwStops, TypeOK
  <1>3. st' \in [Calls -> CallStates]
    BY DEF SwStops, TypeOK, CallStates, LetThrough
  <1>4. swq' \in Seq(Calls)
    BY DEF SwStops
  <1>5. /\ stops' \in Nat /\ notices' \in Nat
    BY DEF SwStops, Notify, TypeOK
  <1>6. UNCHANGED <<ready, choice, panel, turns, ops, remotePending, localVars, userVars>>
    BY DEF SwStops
  <1> QED BY <1>2, <1>3, <1>4, <1>5, <1>6 DEF TypeOK

LEMMA PanelStepTyped ==
    ASSUME TypeOK, PanelStep
    PROVE  TypeOK'
  <1>1. ops # <<>> => Tail(ops) \in Seq(PanelOp) /\ Head(ops) \in PanelOp
    BY TailTyped DEF TypeOK
  <1>2. CASE ReadySet
    BY <1>1, <1>2 DEF ReadySet, TypeOK
  <1>3. CASE RequestGot
    BY <1>1, <1>3 DEF RequestGot, TypeOK
  <1>4. CASE ResponseSent
    <2> DEFINE resp == [call |-> Head(ops).call, choice |-> Head(ops).choice]
    <2>1. resp \in Response
      BY <1>1, <1>4 DEF ResponseSent, PanelOp, Response
    <2>2. /\ st' \in [Calls -> CallStates] /\ choice' \in [Calls -> Choices \cup {None}]
          /\ swq' \in Seq(Calls)
      <3>1. CASE \E c \in Calls : /\ st' = [st EXCEPT ![c] = "closing"]
                                  /\ choice' = [choice EXCEPT ![c] = resp.choice]
                                  /\ swq' = Append(swq, c)
        BY <2>1, <3>1, AppendTyped DEF TypeOK, Response, CallStates, Waiting, InFlight
      <3>2. CASE UNCHANGED <<st, choice, swq>>
        BY <3>2 DEF TypeOK
      <3> QED BY <1>4, <3>1, <3>2 DEF ResponseSent
    <2> QED BY <1>1, <1>4, <2>1, <2>2 DEF ResponseSent, TypeOK
  <1>5. CASE Noticed
    <2>1. GetRequest \in PanelOp
      BY DEF GetRequest, PanelOp
    <2>2. ops' \in Seq(PanelOp)
      BY <1>5, <2>1, AppendTyped DEF Noticed, TypeOK
    <2> QED BY <1>5, <2>2 DEF Noticed, TypeOK
  <1> QED BY <1>2, <1>3, <1>4, <1>5 DEF PanelStep

LEMMA PanelTurnTyped ==
    ASSUME TypeOK, PanelTurn
    PROVE  TypeOK'
  <1>1. CASE PanelOpens \/ DialogMounts
    <2>1. SetReady \in PanelOp /\ GetRequest \in PanelOp
      BY DEF SetReady, GetRequest, PanelOp
    <2>2. /\ Append(ops, SetReady) \in Seq(PanelOp)
          /\ Append(ops, GetRequest) \in Seq(PanelOp)
      BY <2>1, AppendTyped DEF TypeOK
    <2>3. ops' \in Seq(PanelOp)
      BY <1>1, <2>2 DEF PanelOpens, DialogMounts
    <2> QED BY <1>1, <2>3 DEF PanelOpens, DialogMounts, TypeOK
  <1>2. CASE DialogUnmounts
    <2>1. ops' \in Seq(PanelOp)
      BY <1>2, UnmountedTyped DEF DialogUnmounts, TypeOK
    <2> QED BY <1>2, <2>1 DEF DialogUnmounts, TypeOK
  <1>3. CASE PanelCloses
    <2>1. << >> \in Seq(PanelOp) /\ Unmounted(ops) \in Seq(PanelOp)
      BY UnmountedTyped DEF TypeOK
    <2>2. ops' \in Seq(PanelOp)
      BY <1>3, <2>1 DEF PanelCloses
    <2>3. /\ asks' \in [Locals -> {"idle", "asking", "confirmed", "waved", "cancelled", "gone"}]
          /\ sc' \in [Scripts -> {"idle", "running", "over", "gone"}]
      BY <1>3 DEF PanelCloses, TypeOK
    <2>4. /\ panel' = "closed" /\ turns' = turns + 1 /\ notices' = 0 /\ remotePending' = None
          /\ pendingState' = None /\ scope' = None /\ auto' = None
          /\ grants' = {} /\ UNCHANGED <<sessionVars, swVars, agreed, viewed, strays>>
      BY <1>3 DEF PanelCloses
    <2>5. hasScope' \in BOOLEAN
      BY <1>3 DEF PanelCloses
    <2> QED BY <2>2, <2>3, <2>4, <2>5 DEF TypeOK
  <1> QED BY <1>1, <1>2, <1>3 DEF PanelTurn

LEMMA LocalStepTyped ==
    ASSUME TypeOK, LocalStep
    PROVE  TypeOK'
  <1>1. CASE \E l \in Locals : requestConfirm(l) \/ AutoConfirmed(l)
    BY <1>1 DEF requestConfirm, AutoConfirmed, TypeOK
  <1>2. CASE \E l \in Locals, yes \in BOOLEAN : NativeConfirm(l, yes)
    BY <1>2 DEF NativeConfirm, TypeOK
  <1>3. CASE \E s \in Scripts : beginScope(s) \/ endScope(s)
    BY <1>3 DEF beginScope, endScope, TypeOK
  <1> QED BY <1>1, <1>2, <1>3 DEF LocalStep

LEMMA ClickTyped ==
    ASSUME TypeOK, Click
    PROVE  TypeOK'
  <1>1. ASSUME NEW how \in Choices, ClickRemote(how) PROVE TypeOK'
    <2>1. Respond(remotePending, how) \in PanelOp
      BY <1>1 DEF ClickRemote, Respond, PanelOp, TypeOK
    <2>2. ops' \in Seq(PanelOp)
      BY <1>1, <2>1, AppendTyped DEF ClickRemote, TypeOK
    <2>3. agreed' \subseteq Calls \cup Locals /\ viewed' \subseteq Calls \cup Locals
      BY <1>1 DEF ClickRemote, Approval, Answered, Displayed, TypeOK
    <2> QED BY <1>1, <2>2, <2>3 DEF ClickRemote, TypeOK
  <1>2. ASSUME NEW how \in Choices, ClickLocal(how) PROVE TypeOK'
    <2>1. agreed' \subseteq Calls \cup Locals /\ viewed' \subseteq Calls \cup Locals
      BY <1>2 DEF ClickLocal, Approval, Answered, Displayed, TypeOK
    <2>2. pendingState \in Locals /\ Author[pendingState] \in Scripts \cup {None}
      BY <1>2, ConfirmAssumption DEF ClickLocal, TypeOK
    <2>3. grants' \subseteq Scripts \cup {None} /\ strays' = strays
      BY <1>2, <2>2 DEF ClickLocal, Grants, TypeOK
    <2>4. /\ asks' = [asks EXCEPT ![pendingState] = IF how = "cancel" THEN "cancelled" ELSE "confirmed"]
          /\ auto' = IF how = "confirm_all" /\ scope # None THEN scope ELSE auto
          /\ pendingState' = None /\ hasScope' = FALSE
          /\ UNCHANGED <<sessionVars, swVars, panelVars, scope, sc>>
      BY <1>2 DEF ClickLocal
    <2> QED BY <2>1, <2>3, <2>4 DEF TypeOK
  <1> QED BY <1>1, <1>2 DEF Click

\* Every variable of the confirmation flow keeps its type.
THEOREM TypesHold == Spec => []TypeOK
  <1>1. TypeOK /\ [Next]_vars => TypeOK'
    <2> SUFFICES ASSUME TypeOK, [Next]_vars PROVE TypeOK'
      OBVIOUS
    <2>1. CASE UNCHANGED vars
      BY <2>1 DEF vars, TypeOK
    <2>2. CASE Next
      BY <2>2, SwStepTyped, CallerTyped, StopTyped, PanelStepTyped, PanelTurnTyped,
         LocalStepTyped, ClickTyped DEF Next
    <2> QED BY <2>1, <2>2
  <1> QED BY <1>1, InitTyped, PTL DEF Spec

-----------------------------------------------------------------------------
(* Answers are meant for the call they reach                               *)

Flow == TypeOK /\ AnswersAreMeant

LEMMA InitMeant == Init => AnswersAreMeant
  BY DEF Init, AnswersAreMeant, Blanket

\* Steps that touch neither the panel's queue nor what was agreed.
LEMMA QuietMeant ==
    ASSUME Flow, UNCHANGED <<ops, agreed, pendingState>>,
           response' \in {response, None},
           \A c \in Calls : choice'[c] = choice[c] \/ (Names(response, c) /\ choice'[c] = response.choice),
           \A c \in Calls : st'[c] = "resent" => st[c] = "resent",
           pendingState # None => asks'[pendingState] = asks[pendingState],
           UNCHANGED <<scope, auto, grants>>
    PROVE  AnswersAreMeant'
  <1>1. (\A i \in DOMAIN ops : Meant(ops[i]))'
    BY DEF Flow, AnswersAreMeant, Meant
  <1>2. (response # None /\ response.choice # "cancel" => response.call \in agreed)'
    BY DEF Flow, AnswersAreMeant
  <1>3. \A c \in Calls : choice'[c] \notin {None, "cancel"} => c \in agreed'
    BY DEF Flow, AnswersAreMeant, Names
  <1>4. \A c \in Calls : st'[c] = "resent" => c \in agreed'
    BY DEF Flow, AnswersAreMeant
  <1>5. (pendingState # None => asks[pendingState] = "asking")'
    BY DEF Flow, AnswersAreMeant
  <1>6. (Blanket => grants # {})'
    BY DEF Flow, AnswersAreMeant, Blanket
  <1> QED BY <1>1, <1>2, <1>3, <1>4, <1>5, <1>6 DEF AnswersAreMeant

LEMMA SwStepMeant ==
    ASSUME Flow, NEW c \in Calls, SwStep(c)
    PROVE  AnswersAreMeant'
  <1>1. UNCHANGED <<ops, agreed, pendingState, asks, scope, auto, grants>> /\ response' \in {response, None}
    BY DEF SwStep, IsReady, Cleared, RequestSet, Looked, WaitTimedOut, Closed, ExecuteConfirmed, ToolEnded
  <1>2. ASSUME NEW d \in Calls
        PROVE  choice'[d] = choice[d] \/ (Names(response, d) /\ choice'[d] = response.choice)
    BY DEF SwStep, IsReady, Cleared, RequestSet, Looked, WaitTimedOut, Closed, ExecuteConfirmed,
           ToolEnded, Flow, TypeOK
  <1>3. ASSUME NEW d \in Calls, st'[d] = "resent" PROVE st[d] = "resent"
    BY <1>3 DEF SwStep, IsReady, Cleared, RequestSet, Looked, WaitTimedOut, Closed, ExecuteConfirmed,
           ToolEnded, GoesOn, Outcome, Flow, TypeOK
  <1> QED BY <1>1, <1>2, <1>3, QuietMeant

LEMMA CallerMeant ==
    ASSUME Flow, NEW c \in Calls, ExecuteTool(c) \/ \E yes \in BOOLEAN : PageAsked(c, yes)
    PROVE  AnswersAreMeant'
  <1>1. CASE ExecuteTool(c)
    BY <1>1, QuietMeant DEF ExecuteTool, Flow, TypeOK
  <1>2. CASE \E yes \in BOOLEAN : PageAsked(c, yes)
    <2>1. /\ UNCHANGED <<ops, response, choice, pendingState, asks, scope, auto, grants>>
          /\ agreed \subseteq agreed'
      BY <1>2 DEF PageAsked
    <2>2. \A d \in Calls : st'[d] = "resent" => d \in agreed'
      BY <1>2 DEF PageAsked, Flow, TypeOK, AnswersAreMeant
    <2> QED BY <2>1, <2>2 DEF Flow, AnswersAreMeant, Meant, Blanket
  <1> QED BY <1>1, <1>2

LEMMA StopMeant ==
    ASSUME Flow, NEW n \in 0..Len(swq), SwStops(n)
    PROVE  AnswersAreMeant'
  <1>1. UNCHANGED <<ops, agreed, pendingState, asks, choice, scope, auto, grants>> /\ response' \in {response, None}
    BY DEF SwStops
  <1>2. \A c \in Calls : st'[c] = "resent" => st[c] = "resent"
    BY DEF SwStops
  <1> QED BY <1>1, <1>2, QuietMeant

\* The panel's queue after its oldest operation was served or one was added.
LEMMA QueueMeant ==
    ASSUME Flow
    PROVE  /\ ops # <<>> => Meant(Head(ops)) /\ \A i \in DOMAIN Tail(ops) : Meant(Tail(ops)[i])
           /\ \A i \in DOMAIN Unmounted(ops) : Meant(Unmounted(ops)[i])
           /\ \A o \in PanelOp : o.op # "respond" =>
                  \A i \in DOMAIN Append(ops, o) : Meant(Append(ops, o)[i])
  <1>1. ops \in Seq(PanelOp)
    BY DEF Flow, TypeOK
  <1>2. \A i \in DOMAIN ops : Meant(ops[i])
    BY DEF Flow, AnswersAreMeant
  <1>3. ops # <<>> => Meant(Head(ops)) /\ \A i \in DOMAIN Tail(ops) : Meant(Tail(ops)[i])
    BY <1>1, <1>2, TailTyped
  <1>4. \A i \in DOMAIN Unmounted(ops) : Meant(Unmounted(ops)[i])
    BY <1>1, <1>2, UnmountedTyped DEF Meant
  <1>5. ASSUME NEW o \in PanelOp, o.op # "respond", NEW i \in DOMAIN Append(ops, o)
        PROVE  Meant(Append(ops, o)[i])
    <2>1. DOMAIN ops = 1..Len(ops) /\ Len(ops) \in Nat
      BY <1>1
    <2>2. CASE i \in 1..Len(ops)
      BY <1>1, <1>2, <2>1, <2>2, AppendTyped
    <2>3. CASE i = Len(ops) + 1
      BY <1>1, <1>5, <2>3, AppendTyped DEF Meant
    <2>4. i \in 1..(Len(ops) + 1)
      BY <1>1, <1>5, AppendTyped
    <2> QED BY <2>1, <2>2, <2>3, <2>4
  <1> QED BY <1>3, <1>4, <1>5

LEMMA PanelMeant ==
    ASSUME Flow, PanelStep \/ PanelTurn
    PROVE  AnswersAreMeant'
  <1>1. UNCHANGED agreed
    BY DEF PanelStep, PanelTurn, ReadySet, RequestGot, ResponseSent, Noticed, PanelOpens,
           DialogMounts, DialogUnmounts, PanelCloses
  <1>2. (\A i \in DOMAIN ops : Meant(ops[i]))'
    <2>1. SetReady \in PanelOp /\ GetRequest \in PanelOp
          /\ SetReady.op # "respond" /\ GetRequest.op # "respond"
      BY DEF SetReady, GetRequest, PanelOp
    <2>2. \/ ops # <<>> /\ ops' = Tail(ops)
          \/ ops' = Append(ops, SetReady) \/ ops' = Append(ops, GetRequest)
          \/ ops' = Unmounted(ops) \/ ops' = <<>>
      BY DEF PanelStep, PanelTurn, ReadySet, RequestGot, ResponseSent, Noticed, PanelOpens,
             DialogMounts, DialogUnmounts, PanelCloses
    <2>3. \A i \in DOMAIN ops' : Meant(ops'[i])
      <3>1. CASE ops' = <<>>
        BY <3>1
      <3>2. CASE ops' # <<>>
        BY <2>1, <2>2, <3>2, QueueMeant
      <3> QED BY <3>1, <3>2
    <2> QED BY <1>1, <2>3 DEF Meant
  <1>3. CASE ResponseSent
    <2>1. Head(ops) \in PanelOp /\ Meant(Head(ops))
      BY <1>3, TailTyped, QueueMeant DEF ResponseSent, Flow, TypeOK
    <2>2. (response # None /\ response.choice # "cancel" => response.call \in agreed)'
      BY <1>1, <1>3, <2>1 DEF ResponseSent, Meant
    <2>3. ASSUME NEW c \in Calls, choice'[c] \notin {None, "cancel"} PROVE c \in agreed'
      BY <1>1, <1>3, <2>1, <2>3 DEF ResponseSent, Listener, Meant, Flow, TypeOK, AnswersAreMeant
    <2>4. ASSUME NEW c \in Calls, st'[c] = "resent" PROVE c \in agreed'
      BY <1>1, <1>3, <2>4 DEF ResponseSent, Flow, TypeOK, AnswersAreMeant
    <2>5. UNCHANGED <<pendingState, asks, scope, auto, grants>>
      BY <1>3 DEF ResponseSent
    <2> QED BY <1>1, <1>2, <2>2, <2>3, <2>4, <2>5 DEF Flow, AnswersAreMeant, Meant, Blanket
  <1>4. CASE ~ResponseSent
    <2>1. UNCHANGED <<response, st, choice>>
      BY <1>4 DEF PanelStep, PanelTurn, ReadySet, RequestGot, Noticed, PanelOpens,
                  DialogMounts, DialogUnmounts, PanelCloses
    <2>2. (pendingState # None => asks[pendingState] = "asking")'
      BY <1>4 DEF PanelStep, PanelTurn, ReadySet, RequestGot, Noticed, PanelOpens,
                  DialogMounts, DialogUnmounts, PanelCloses, Flow, AnswersAreMeant
    <2>3. (Blanket => grants # {})'
      <3>1. CASE PanelCloses
        BY <3>1 DEF PanelCloses, Blanket
      <3>2. CASE ~PanelCloses
        BY <1>4, <3>2 DEF PanelStep, PanelTurn, ReadySet, RequestGot, Noticed, PanelOpens,
                  DialogMounts, DialogUnmounts, Blanket, Flow, AnswersAreMeant
      <3> QED BY <3>1, <3>2
    <2> QED BY <1>1, <1>2, <2>1, <2>2, <2>3 DEF Flow, AnswersAreMeant, Meant
  <1> QED BY <1>3, <1>4

LEMMA LocalMeant ==
    ASSUME Flow, LocalStep
    PROVE  AnswersAreMeant'
  <1>1. UNCHANGED <<ops, response, choice, st>> /\ agreed \subseteq agreed'
    BY DEF LocalStep, requestConfirm, AutoConfirmed, NativeConfirm, beginScope, endScope
  <1>2. (pendingState # None => asks[pendingState] = "asking")'
    BY DEF LocalStep, requestConfirm, AutoConfirmed, NativeConfirm, beginScope, endScope, CanAsk,
           Flow, TypeOK, AnswersAreMeant
  <1>3. (Blanket => grants # {})'
    <2>1. CASE \E s \in Scripts : beginScope(s) \/ endScope(s)
      BY <2>1, ConfirmAssumption DEF beginScope, endScope, Blanket
    <2>2. CASE ~(\E s \in Scripts : beginScope(s) \/ endScope(s))
      BY <2>2 DEF LocalStep, requestConfirm, AutoConfirmed, NativeConfirm, Blanket, Flow, AnswersAreMeant
    <2> QED BY <2>1, <2>2
  <1> QED BY <1>1, <1>2, <1>3 DEF Flow, AnswersAreMeant, Meant

LEMMA ClickMeant ==
    ASSUME Flow, Click
    PROVE  AnswersAreMeant'
  <1>1. ASSUME NEW how \in Choices, ClickRemote(how) PROVE AnswersAreMeant'
    <2> DEFINE o == Respond(remotePending, how)
    <2>1. /\ ops \in Seq(PanelOp) /\ o \in PanelOp
          /\ o.choice = how /\ o.call = remotePending
      BY <1>1 DEF ClickRemote, Respond, PanelOp, Flow, TypeOK
    <2>2. agreed \subseteq agreed' /\ (how # "cancel" => remotePending \in agreed')
      BY <1>1 DEF ClickRemote, Approval, Answered
    <2>3. ASSUME NEW i \in DOMAIN ops' PROVE Meant(ops[i])'
      <3>1. DOMAIN ops = 1..Len(ops) /\ Len(ops) \in Nat /\ ops' = Append(ops, o)
        BY <1>1, <2>1 DEF ClickRemote
      <3>2. i \in 1..(Len(ops) + 1)
        BY <2>1, <2>3, <3>1, AppendTyped
      <3>3. CASE i \in 1..Len(ops)
        BY <2>1, <2>2, <3>1, <3>3, AppendTyped DEF Meant, Flow, AnswersAreMeant
      <3>4. CASE i = Len(ops) + 1
        BY <2>1, <2>2, <3>1, <3>4, AppendTyped DEF Meant
      <3> QED BY <3>1, <3>2, <3>3, <3>4
    <2>4. UNCHANGED <<response, choice, st, pendingState, asks, scope, auto, grants>>
      BY <1>1 DEF ClickRemote
    <2>5. (\A i \in DOMAIN ops : Meant(ops[i]))'
      BY <2>3
    <2> QED BY <2>2, <2>4, <2>5 DEF Flow, AnswersAreMeant, Blanket
  <1>2. ASSUME NEW how \in Choices, ClickLocal(how) PROVE AnswersAreMeant'
    <2>1. /\ UNCHANGED <<ops, response, choice, st>> /\ agreed \subseteq agreed'
          /\ pendingState' = None
      BY <1>2 DEF ClickLocal, Approval
    <2>2. (Blanket => grants # {})'
      BY <1>2 DEF ClickLocal, Grants, Blanket, Flow, AnswersAreMeant
    <2> QED BY <2>1, <2>2 DEF Flow, AnswersAreMeant, Meant
  <1> QED BY <1>1, <1>2 DEF Click

\* No answer reaches a WebMCP call it was not given to.
THEOREM AnswersStayMeant == Spec => []AnswersAreMeant
  <1>1. Flow /\ [Next]_vars => AnswersAreMeant'
    <2> SUFFICES ASSUME Flow, [Next]_vars PROVE AnswersAreMeant'
      OBVIOUS
    <2>1. CASE UNCHANGED vars
      BY <2>1 DEF vars, Flow, AnswersAreMeant, Meant, Blanket
    <2>2. CASE Next
      BY <2>2, SwStepMeant, CallerMeant, StopMeant, PanelMeant, LocalMeant, ClickMeant DEF Next
    <2> QED BY <2>1, <2>2
  <1> QED BY <1>1, InitMeant, TypesHold, PTL DEF Spec, Flow

-----------------------------------------------------------------------------
(* Every write that runs was agreed to                                     *)

LetIn == {"confirmed", "waved"}

\* A step that lets nobody through and takes nobody back.
LEMMA RanStays ==
    ASSUME \A c \in Calls : st'[c] \in LetThrough <=> st[c] \in LetThrough,
           \A l \in Locals : asks'[l] \in LetIn <=> asks[l] \in LetIn,
           UNCHANGED strays
    PROVE  Ran' = Ran
  BY DEF Ran, LetIn

\* A step that may let one write through.
LEMMA CallRuns ==
    ASSUME NEW c \in Calls, UNCHANGED <<asks, strays>>, st'[c] \in LetThrough,
           \A d \in Calls \ {c} : st'[d] \in LetThrough <=> st[d] \in LetThrough
    PROVE  Ran' = Ran \cup {c}
  BY DEF Ran, LetIn

LEMMA LocalRuns ==
    ASSUME NEW l \in Locals, UNCHANGED <<st, strays>>, asks'[l] \in LetIn,
           \A k \in Locals \ {l} : asks'[k] \in LetIn <=> asks[k] \in LetIn
    PROVE  Ran' \in {Ran, Ran \cup {l}}
  <1>1. CASE l \in strays
    BY <1>1 DEF Ran, LetIn
  <1>2. CASE l \notin strays
    BY <1>2 DEF Ran, LetIn
  <1> QED BY <1>1, <1>2

\* A stray write is not counted.
LEMMA StrayRuns ==
    ASSUME NEW l \in Locals, UNCHANGED st, strays' = strays \cup {l}, asks[l] \notin LetIn,
           \A k \in Locals \ {l} : asks'[k] \in LetIn <=> asks[k] \in LetIn
    PROVE  Ran' = Ran
  BY DEF Ran, LetIn

\* A stutter of Consent.
LEMMA Silent ==
    ASSUME UNCHANGED <<agreed, grants, strays>>,
           \A c \in Calls : st'[c] \in LetThrough <=> st[c] \in LetThrough,
           \A l \in Locals : asks'[l] \in LetIn <=> asks[l] \in LetIn
    PROVE  [C!Next]_(C!consentVars)
  BY RanStays DEF C!consentVars

LEMMA SwStepConsents ==
    ASSUME Flow, NEW c \in Calls, SwStep(c)
    PROVE  [C!Next]_(C!consentVars)
  <1> USE DEF SwStep, IsReady, Cleared, RequestSet, Looked, WaitTimedOut, Closed, ExecuteConfirmed,
              ToolEnded, GoesOn, Served
  <1>1. UNCHANGED <<agreed, grants, strays, asks>>
    OBVIOUS
  <1>3. \A d \in Calls \ {c} : st'[d] = st[d]
    BY DEF Flow, TypeOK
  <1>4. st[c] \in LetThrough => st'[c] \in LetThrough
    BY DEF Flow, TypeOK, LetThrough
  <1>5. CASE st'[c] \in LetThrough /\ st[c] \notin LetThrough
    <2>1. c \in agreed
      <3>1. Closed(c) \/ ExecuteConfirmed(c)
        BY <1>5 DEF Flow, TypeOK, LetThrough
      <3>2. Closed(c) => choice[c] \notin {None, "cancel"}
        BY <1>5 DEF Flow, TypeOK, LetThrough, Outcome
      <3> QED BY <3>1, <3>2 DEF Flow, AnswersAreMeant
    <2>2. Ran' = Ran \cup {c}
      BY <1>1, <1>3, <1>5, CallRuns
    <2> QED BY <1>1, <2>1, <2>2 DEF C!Next, C!Run, C!Writes
  <1>6. CASE st'[c] \in LetThrough <=> st[c] \in LetThrough
    BY <1>1, <1>3, <1>6, Silent
  <1> QED BY <1>4, <1>5, <1>6

LEMMA CallerConsents ==
    ASSUME Flow, NEW c \in Calls, ExecuteTool(c) \/ \E yes \in BOOLEAN : PageAsked(c, yes)
    PROVE  [C!Next]_(C!consentVars)
  <1>1. UNCHANGED <<grants, strays, asks>>
    BY DEF ExecuteTool, PageAsked
  <1>3. \A d \in Calls : st'[d] \in LetThrough <=> st[d] \in LetThrough
    BY DEF ExecuteTool, PageAsked, LetThrough, Flow, TypeOK
  <1>4. Ran' = Ran
    BY <1>1, <1>3, RanStays
  <1>5. agreed' = agreed \/ agreed' = agreed \cup {c}
    BY DEF ExecuteTool, PageAsked
  <1> QED BY <1>1, <1>4, <1>5 DEF C!consentVars, C!Next, C!Approve, C!Writes

LEMMA StopConsents ==
    ASSUME Flow, NEW n \in 0..Len(swq), SwStops(n)
    PROVE  [C!Next]_(C!consentVars)
  <1>1. UNCHANGED <<agreed, grants, strays, asks>>
    BY DEF SwStops
  <1>3. \A c \in Calls : st'[c] \in LetThrough <=> st[c] \in LetThrough
    BY DEF SwStops, LetThrough, Waiting, InFlight
  <1> QED BY <1>1, <1>3, Silent

LEMMA PanelConsents ==
    ASSUME Flow, PanelStep \/ PanelTurn
    PROVE  [C!Next]_(C!consentVars)
  <1>1. UNCHANGED agreed
    BY DEF PanelStep, PanelTurn, ReadySet, RequestGot, ResponseSent, Noticed, PanelOpens,
           DialogMounts, DialogUnmounts, PanelCloses
  <1>2. \A c \in Calls : st'[c] \in LetThrough <=> st[c] \in LetThrough
    <2>1. CASE ResponseSent
      BY <2>1 DEF ResponseSent, Listener, LetThrough, Flow, TypeOK
    <2>2. CASE ~ResponseSent
      BY <2>2 DEF PanelStep, PanelTurn, ReadySet, RequestGot, Noticed, PanelOpens,
                  DialogMounts, DialogUnmounts, PanelCloses
    <2> QED BY <2>1, <2>2
  <1>3. CASE PanelCloses
    <2>1. \A l \in Locals : asks'[l] \in LetIn <=> asks[l] \in LetIn
      BY <1>3 DEF PanelCloses, LetIn
    <2>2. grants' = {} /\ UNCHANGED strays
      BY <1>3 DEF PanelCloses
    <2>3. Ran' = Ran
      BY <1>2, <2>1, <2>2, RanStays
    <2> QED BY <1>1, <2>2, <2>3 DEF C!Next, C!Revoke
  <1>4. CASE ~PanelCloses
    <2>1. UNCHANGED <<asks, grants, strays>>
      BY <1>4 DEF PanelStep, PanelTurn, ReadySet, RequestGot, ResponseSent, Noticed, PanelOpens,
                  DialogMounts, DialogUnmounts
    <2> QED BY <1>1, <1>2, <2>1, Silent
  <1> QED BY <1>3, <1>4

LEMMA LocalConsents ==
    ASSUME Flow, LocalStep
    PROVE  [C!Next]_(C!consentVars)
  <1>1. UNCHANGED st
    BY DEF LocalStep, requestConfirm, AutoConfirmed, NativeConfirm, beginScope, endScope
  <1>2. ASSUME NEW l \in Locals, requestConfirm(l) PROVE [C!Next]_(C!consentVars)
    <2>1. UNCHANGED <<agreed, grants, strays>>
      BY <1>2 DEF requestConfirm
    <2>2. \A k \in Locals : asks'[k] \in LetIn <=> asks[k] \in LetIn
      BY <1>2 DEF requestConfirm, CanAsk, LetIn, Flow, TypeOK
    <2> QED BY <1>1, <2>1, <2>2, Silent
  <1>3. ASSUME NEW l \in Locals, AutoConfirmed(l) PROVE [C!Next]_(C!consentVars)
    <2>1. UNCHANGED <<agreed, grants>> /\ grants # {} /\ asks' = [asks EXCEPT ![l] = "waved"]
          /\ asks[l] = "idle"
      BY <1>3 DEF AutoConfirmed, CanAsk, Flow, AnswersAreMeant
    <2>2. CASE Stray(l)
      <3>1. strays' = strays \cup {l}
        BY <1>3, <2>2 DEF AutoConfirmed
      <3>2. asks[l] \notin LetIn /\ \A k \in Locals \ {l} : asks'[k] = asks[k]
        BY <2>1 DEF LetIn, Flow, TypeOK
      <3>3. Ran' = Ran
        BY <1>1, <3>1, <3>2, StrayRuns
      <3> QED BY <2>1, <3>3 DEF C!consentVars
    <2>3. CASE ~Stray(l)
      <3>1. UNCHANGED strays
        BY <1>3, <2>3 DEF AutoConfirmed
      <3>2. asks'[l] \in LetIn /\ \A k \in Locals \ {l} : asks'[k] = asks[k]
        BY <2>1 DEF LetIn, Flow, TypeOK
      <3>3. Ran' \in {Ran, Ran \cup {l}}
        BY <1>1, <3>1, <3>2, LocalRuns
      <3>4. Author[l] \in grants \ {None} /\ Author[l] \in Scripts \cup {None}
        BY <2>1, <2>3, ConfirmAssumption DEF Stray
      <3>5. C!Of(l) \cap (grants \ {None}) # {}
        BY <3>4 DEF C!Of
      <3> QED BY <2>1, <3>3, <3>5 DEF C!consentVars, C!Next, C!Run, C!Writes
    <2> QED BY <2>2, <2>3
  <1>4. ASSUME NEW l \in Locals, NEW yes \in BOOLEAN, NativeConfirm(l, yes)
        PROVE  [C!Next]_(C!consentVars)
    <2>1. UNCHANGED <<grants, strays>>
      BY <1>4 DEF NativeConfirm
    <2>2. CASE yes
      <3>1. Ran' \in {Ran, Ran \cup {l}}
        <4>1. asks'[l] \in LetIn /\ \A k \in Locals \ {l} : asks'[k] = asks[k]
          BY <1>4, <2>2 DEF NativeConfirm, LetIn, Flow, TypeOK
        <4> QED BY <1>1, <2>1, <4>1, LocalRuns
      <3>2. agreed' = agreed \cup {l}
        BY <1>4, <2>2 DEF NativeConfirm
      <3> QED BY <2>1, <3>1, <3>2 DEF C!Next, C!Approve, C!Writes
    <2>3. CASE ~yes
      <3>1. \A k \in Locals : asks'[k] \in LetIn <=> asks[k] \in LetIn
        BY <1>4, <2>3 DEF NativeConfirm, CanAsk, LetIn, Flow, TypeOK
      <3>2. UNCHANGED agreed
        BY <1>4, <2>3 DEF NativeConfirm
      <3> QED BY <1>1, <2>1, <3>1, <3>2, Silent
    <2> QED BY <2>2, <2>3
  <1>5. ASSUME NEW s \in Scripts, beginScope(s) \/ endScope(s) PROVE [C!Next]_(C!consentVars)
    <2>1. UNCHANGED <<agreed, asks, strays>>
      BY <1>5 DEF beginScope, endScope
    <2>2. grants' = {}
      BY <1>5 DEF beginScope, endScope
    <2>3. Ran' = Ran
      BY <1>1, <2>1, RanStays
    <2> QED BY <2>1, <2>2, <2>3 DEF C!Next, C!Revoke
  <1> QED BY <1>2, <1>3, <1>4, <1>5 DEF LocalStep

LEMMA ClickConsents ==
    ASSUME Flow, Click
    PROVE  [C!Next]_(C!consentVars)
  <1>1. ASSUME NEW how \in Choices, ClickRemote(how) PROVE [C!Next]_(C!consentVars)
    <2>1. UNCHANGED <<st, asks, grants, strays>> /\ remotePending \in Calls
      BY <1>1 DEF ClickRemote, Flow, TypeOK
    <2>2. Ran' = Ran
      BY <2>1, RanStays
    <2>3. agreed' = agreed \/ agreed' = agreed \cup {remotePending}
      BY <1>1 DEF ClickRemote, Approval, Answered
    <2> QED BY <2>1, <2>2, <2>3 DEF C!consentVars, C!Next, C!Approve, C!Writes
  <1>2. ASSUME NEW how \in Choices, ClickLocal(how) PROVE [C!Next]_(C!consentVars)
    <2>1. /\ pendingState \in Locals /\ asks[pendingState] = "asking" /\ UNCHANGED st
          /\ asks' = [asks EXCEPT ![pendingState] = IF how = "cancel" THEN "cancelled" ELSE "confirmed"]
      BY <1>2 DEF ClickLocal, Flow, TypeOK, AnswersAreMeant
    <2>4. UNCHANGED strays
      BY <1>2 DEF ClickLocal, Grants
    <2>2. CASE how = "cancel"
      <3>1. UNCHANGED <<agreed, grants>>
        BY <1>2, <2>2 DEF ClickLocal, Approval, Grants
      <3>3. \A k \in Locals : asks'[k] \in LetIn <=> asks[k] \in LetIn
        BY <2>1, <2>2 DEF LetIn, Flow, TypeOK
      <3> QED BY <2>1, <2>4, <3>1, <3>3, Silent
    <2>3. CASE how # "cancel"
      <3>1. agreed' = agreed \cup {pendingState}
        BY <1>2, <2>3 DEF ClickLocal, Approval, Answered
      <3>2. grants' = grants \/ grants' = grants \cup {Author[pendingState]}
        BY <1>2 DEF ClickLocal, Grants
      <3>4. Author[pendingState] \in Scripts \cup {None} /\ None \notin Scripts
        BY <2>1, ConfirmAssumption
      <3>5. grants' \ {None} \in {grants \ {None}, (grants \ {None}) \cup C!Of(pendingState)}
        BY <2>1, <3>2, <3>4 DEF C!Of
      <3>3. Ran' \in {Ran, Ran \cup {pendingState}}
        <4>1. /\ asks'[pendingState] \in LetIn
              /\ \A k \in Locals \ {pendingState} : asks'[k] = asks[k]
          BY <2>1, <2>3 DEF LetIn, Flow, TypeOK
        <4> QED BY <2>1, <2>4, <4>1, LocalRuns
      <3> QED BY <2>1, <3>1, <3>5, <3>3 DEF C!Next, C!Approve, C!Writes
    <2> QED BY <2>2, <2>3
  <1> QED BY <1>1, <1>2 DEF Click

\* The whole flow, with its replaced requests, time-outs, reopened panels and
\* stopped workers, implements the consent it promises, but for the writes waved
\* through on another script's "confirm all" (ScopeIsKept).
THEOREM FlowImplementsConsent == Spec => ImplementsConsent
  <1>1. Init => C!Init
    <2>1. Init => Ran = {} /\ grants \ {None} = {} /\ agreed = {}
      BY DEF Init, Ran, LetThrough
    <2> QED BY <2>1 DEF C!Init
  <1>2. Flow /\ [Next]_vars => [C!Next]_(C!consentVars)
    <2> SUFFICES ASSUME Flow, [Next]_vars PROVE [C!Next]_(C!consentVars)
      OBVIOUS
    <2>1. CASE UNCHANGED vars
      BY <2>1, Silent DEF vars
    <2>2. CASE Next
      BY <2>2, SwStepConsents, CallerConsents, StopConsents, PanelConsents, LocalConsents,
         ClickConsents DEF Next
    <2> QED BY <2>1, <2>2
  <1> QED BY <1>1, <1>2, TypesHold, AnswersStayMeant, PTL DEF Spec, Flow, ImplementsConsent, C!Spec

-----------------------------------------------------------------------------
(* A lone request is shown                                                 *)

Alone(c) == \A d \in Calls \ {c} : st[d] = "idle"

Early == {"idle", "asked", "clearing", "setting"}
Posted == {"looking", "waiting"}

\* A read of the request is under way, and the dialog will take what it finds.
Reading == \E i \in DOMAIN ops : ops[i].op = "get" /\ ops[i].mounted

OpsOf(cs) == {o \in PanelOp : o.op = "respond" => o.call \in cs}

\* While c is the only call there ever was: before its request is stored there is
\* none to see or to answer; once it is, an open dialog shows it, is about to read
\* it, has been told to, or has answered it already.
Followed(c) ==
    /\ st[c] \in Early => /\ request = None /\ response = None /\ remotePending = None
                          /\ ops \in Seq(OpsOf({}))
    /\ st[c] \in Posted => /\ request = c /\ remotePending \in {None, c}
                           /\ ops \in Seq(OpsOf({c}))
                           /\ response # None => st[c] = "looking" /\ response.call = c
                           /\ panel = "open" => remotePending = c \/ notices > 0
                                                \/ response # None \/ Reading

LoneFollowed == \A c \in Calls : Alone(c) => Followed(c)

LEMMA OpsKept ==
    ASSUME NEW cs, ops \in Seq(OpsOf(cs))
    PROVE  /\ ops # <<>> => Head(ops) \in OpsOf(cs) /\ Tail(ops) \in Seq(OpsOf(cs))
           /\ Unmounted(ops) \in Seq(OpsOf(cs))
           /\ \A o \in OpsOf(cs) : Append(ops, o) \in Seq(OpsOf(cs))
           /\ GetRequest \in OpsOf(cs) /\ SetReady \in OpsOf(cs)
  <1>1. ops # <<>> => Head(ops) \in OpsOf(cs) /\ Tail(ops) \in Seq(OpsOf(cs))
    BY TailTyped
  <1>2. Unmounted(ops) \in Seq(OpsOf(cs))
    <2>1. DOMAIN ops = 1..Len(ops) /\ Len(ops) \in Nat
      OBVIOUS
    <2>2. \A i \in DOMAIN ops : ops[i] \in OpsOf(cs)
      BY <2>1
    <2>3. ops \in Seq(PanelOp)
      BY <2>1, <2>2 DEF OpsOf
    <2>4. /\ Unmounted(ops) \in Seq(PanelOp) /\ DOMAIN Unmounted(ops) = DOMAIN ops
          /\ \A i \in DOMAIN ops : /\ Unmounted(ops)[i].op = ops[i].op
                                   /\ Unmounted(ops)[i].call = ops[i].call
      BY <2>3, UnmountedTyped
    <2>5. \A i \in DOMAIN ops : Unmounted(ops)[i] \in PanelOp
      BY <2>1, <2>4
    <2>6. \A i \in DOMAIN ops : Unmounted(ops)[i] \in OpsOf(cs)
      BY <2>2, <2>4, <2>5 DEF OpsOf
    <2>7. Unmounted(ops) = [i \in 1..Len(ops) |-> Unmounted(ops)[i]]
      BY <2>1 DEF Unmounted
    <2> QED BY <2>1, <2>6, <2>7
  <1>3. \A o \in OpsOf(cs) : Append(ops, o) \in Seq(OpsOf(cs))
    BY AppendTyped
  <1>4. GetRequest \in OpsOf(cs) /\ SetReady \in OpsOf(cs)
    BY DEF GetRequest, SetReady, OpsOf, PanelOp
  <1> QED BY <1>1, <1>2, <1>3, <1>4

LEMMA ReadingKept ==
    ASSUME TypeOK
    PROVE  /\ ops' = Append(ops, GetRequest) => Reading'
           /\ \A o \in PanelOp : Reading /\ ops' = Append(ops, o) => Reading'
           /\ Reading /\ ops # <<>> /\ ops' = Tail(ops) =>
                 Reading' \/ (Head(ops).op = "get" /\ Head(ops).mounted)
  <1>1. ops \in Seq(PanelOp) /\ DOMAIN ops = 1..Len(ops) /\ Len(ops) \in Nat
    BY DEF TypeOK
  <1>2. GetRequest \in PanelOp /\ GetRequest.op = "get" /\ GetRequest.mounted
    BY DEF GetRequest, PanelOp
  <1>3. ASSUME ops' = Append(ops, GetRequest) PROVE Reading'
    <2>1. Len(ops) + 1 \in DOMAIN ops' /\ ops'[Len(ops) + 1] = GetRequest
      BY <1>1, <1>2, <1>3, AppendTyped
    <2> QED BY <1>2, <2>1 DEF Reading
  <1>4. ASSUME NEW o \in PanelOp, Reading, ops' = Append(ops, o) PROVE Reading'
    <2>1. PICK i \in DOMAIN ops : ops[i].op = "get" /\ ops[i].mounted
      BY <1>4 DEF Reading
    <2>2. i \in DOMAIN ops' /\ ops'[i] = ops[i]
      BY <1>1, <1>4, <2>1, AppendTyped
    <2> QED BY <2>1, <2>2 DEF Reading
  <1>5. ASSUME Reading, ops # <<>>, ops' = Tail(ops), ~(Head(ops).op = "get" /\ Head(ops).mounted)
        PROVE  Reading'
    <2>1. PICK i \in DOMAIN ops : ops[i].op = "get" /\ ops[i].mounted
      BY <1>5 DEF Reading
    <2>2. i # 1 /\ i \in 2..Len(ops)
      BY <1>1, <1>5, <2>1, TailTyped
    <2>3. i - 1 \in DOMAIN Tail(ops) /\ Tail(ops)[i - 1] = ops[i]
      BY <1>1, <1>5, <2>2, HeadTailProperties
    <2> QED BY <1>5, <2>1, <2>3 DEF Reading
  <1> QED BY <1>3, <1>4, <1>5

\* A step of the worker's or the page's side of a call: of c itself, or of none.
LEMMA WorkerFollowed ==
    ASSUME TypeOK, NEW c \in Calls, Alone(c), Alone(c)', Followed(c),
           NEW d \in Calls, ExecuteTool(d) \/ SwStep(d) \/ \E yes \in BOOLEAN : PageAsked(d, yes)
    PROVE  Followed(c)'
  <1> USE DEF Early, Posted
  <1>1. d = c
    <2>1. CASE ExecuteTool(d)
      BY <2>1 DEF ExecuteTool, Alone, TypeOK
    <2>2. CASE SwStep(d) \/ \E yes \in BOOLEAN : PageAsked(d, yes)
      BY <2>2 DEF SwStep, IsReady, Cleared, RequestSet, Looked, WaitTimedOut, Closed,
         ExecuteConfirmed, ToolEnded, PageAsked, Served, Alone
    <2> QED BY <2>1, <2>2
  <1>2. UNCHANGED <<panel, ops, remotePending>>
    BY DEF ExecuteTool, SwStep, IsReady, Cleared, RequestSet, Looked, WaitTimedOut, Closed,
       ExecuteConfirmed, ToolEnded, PageAsked
  <1>3. Reading' = Reading
    BY <1>2 DEF Reading
  <1>4. CASE ExecuteTool(d)
    BY <1>1, <1>2, <1>4 DEF ExecuteTool, Followed, TypeOK
  <1>5. CASE IsReady(d)
    BY <1>1, <1>2, <1>5 DEF IsReady, Served, GoesOn, Followed, TypeOK
  <1>6. CASE Cleared(d)
    BY <1>1, <1>2, <1>6 DEF Cleared, Served, GoesOn, Followed, TypeOK
  <1>7. CASE RequestSet(d)
    <2>1. /\ st[c] = "setting" /\ st' = [st EXCEPT ![c] = "looking"]
          /\ request' = c /\ UNCHANGED <<response, panel>>
          /\ notices' = IF panel = "open" /\ c # request THEN notices + 1 ELSE notices
      BY <1>1, <1>7 DEF RequestSet, Served, GoesOn, Notify
    <2>2. request = None /\ response = None /\ remotePending = None /\ ops \in Seq(OpsOf({}))
      BY <2>1 DEF Followed
    <2>3. panel = "open" => notices' > 0
      BY <2>1, <2>2, ConfirmAssumption DEF TypeOK
    <2>4. ops \in Seq(OpsOf({c}))
      <3>1. OpsOf({}) \subseteq OpsOf({c})
        BY DEF OpsOf
      <3>2. Len(ops) \in Nat /\ ops \in [1..Len(ops) -> OpsOf({})]
        BY <2>2, LenProperties
      <3>3. ops \in [1..Len(ops) -> OpsOf({c})]
        BY <3>1, <3>2
      <3> QED BY <3>2, <3>3, SeqDef
    <2>5. st'[c] = "looking"
      BY <2>1 DEF TypeOK
    <2> QED BY <1>2, <2>1, <2>2, <2>3, <2>4, <2>5 DEF Followed
  <1>8. CASE Looked(d)
    <2>1. /\ st[c] = "looking" /\ UNCHANGED <<sessionVars, notices>>
          /\ \/ st' = [st EXCEPT ![c] = "closing"]
             \/ st' = [st EXCEPT ![c] = "waiting"] /\ ~Names(response, c)
      BY <1>1, <1>8 DEF Looked, Served, GoesOn
    <2>2. st'[c] = "closing" \/ (st'[c] = "waiting" /\ ~Names(response, c))
      BY <2>1 DEF TypeOK
    <2> QED BY <1>2, <1>3, <2>1, <2>2 DEF Followed, Names
  <1>9. CASE WaitTimedOut(d) \/ Closed(d) \/ ExecuteConfirmed(d) \/ ToolEnded(d)
             \/ \E yes \in BOOLEAN : PageAsked(d, yes)
    <2>1. st'[c] \notin Early \cup Posted
      BY <1>1, <1>9 DEF WaitTimedOut, Closed, Outcome, GoesOn, ExecuteConfirmed, ToolEnded, PageAsked,
         TypeOK
    <2> QED BY <2>1 DEF Followed
  <1> QED BY <1>4, <1>5, <1>6, <1>7, <1>8, <1>9 DEF SwStep

LEMMA StopFollowed ==
    ASSUME TypeOK, NEW c \in Calls, Alone(c), Followed(c), NEW n \in 0..Len(swq), SwStops(n)
    PROVE  Followed(c)'
  <1>1. st'[c] \in Early \cup Posted => st[c] = "idle" /\ st'[c] = "idle"
    BY DEF SwStops, Early, Posted, Waiting, InFlight, TypeOK
  <1>2. CASE st[c] = "idle"
    <2>1. \A i \in 1..n : swq[i] \in Calls /\ st[swq[i]] = "idle"
      BY <1>2 DEF TypeOK, Alone
    <2>2. UNCHANGED <<request, response>>
      BY <2>1 DEF SwStops
    <2> QED BY <1>1, <1>2, <2>2 DEF SwStops, Followed, Early, Posted
  <1> QED BY <1>1, <1>2 DEF Followed, Early, Posted

LEMMA PanelStepFollowed ==
    ASSUME TypeOK, NEW c \in Calls, Alone(c), Followed(c), PanelStep
    PROVE  Followed(c)'
  <1> USE DEF Early, Posted
  <1>0. UNCHANGED <<request, panel>>
    BY DEF PanelStep, ReadySet, RequestGot, ResponseSent, Noticed
  <1>1. CASE ReadySet \/ Noticed
    <2>1. UNCHANGED <<request, response, remotePending, st, panel>>
      BY <1>1 DEF ReadySet, Noticed
    <2>2. \A cs : ops \in Seq(OpsOf(cs)) => ops' \in Seq(OpsOf(cs))
      BY <1>1, OpsKept DEF ReadySet, Noticed
    <2>3. notices > 0 \/ Reading => notices' > 0 \/ Reading'
      BY <1>1, ReadingKept DEF ReadySet, Noticed
    <2> QED BY <2>1, <2>2, <2>3 DEF Followed
  <1>2. CASE RequestGot
    <2>1. /\ ops # <<>> /\ Head(ops).op = "get" /\ ops' = Tail(ops)
          /\ remotePending' = IF Head(ops).mounted THEN request ELSE remotePending
          /\ UNCHANGED <<response, st, notices>>
      BY <1>2 DEF RequestGot
    <2>2. \A cs : ops \in Seq(OpsOf(cs)) => ops' \in Seq(OpsOf(cs))
      BY <2>1, OpsKept
    <2>3. Reading /\ ~Head(ops).mounted => Reading'
      BY <2>1, ReadingKept
    <2> QED BY <1>0, <2>1, <2>2, <2>3 DEF Followed
  <1>3. CASE ResponseSent
    <2> DEFINE resp == [call |-> Head(ops).call, choice |-> Head(ops).choice]
    <2>1. /\ ops # <<>> /\ Head(ops).op = "respond" /\ ops' = Tail(ops)
          /\ response' = resp
          /\ remotePending' \in {remotePending, None} /\ UNCHANGED notices
          /\ \/ \E d \in Calls : Listener(d, resp) /\ st' = [st EXCEPT ![d] = "closing"]
             \/ (\A d \in Calls : ~Listener(d, resp)) /\ UNCHANGED st
      BY <1>3 DEF ResponseSent
    <2>2. st[c] \notin Early
      <3>1. ops \notin Seq(OpsOf({}))
        BY <2>1, OpsKept DEF OpsOf
      <3> QED BY <3>1 DEF Followed
    <2>3. st'[c] = "closing" \/ (st'[c] = st[c] /\ ~Listener(c, resp))
      BY <2>1 DEF Listener, Alone, TypeOK
    <2>4. CASE st[c] \in Posted /\ st'[c] = st[c] /\ ~Listener(c, resp)
      <3>1. ops \in Seq(OpsOf({c}))
        BY <2>4 DEF Followed
      <3>2. Head(ops) \in OpsOf({c}) /\ ops' \in Seq(OpsOf({c}))
        BY <2>1, <3>1, OpsKept
      <3>3. resp.call = c
        BY <2>1, <3>2 DEF OpsOf
      <3>4. st[c] = "looking"
        BY <2>4, <3>3 DEF Listener
      <3>5. response' # None
        <4>1. Head(ops) \in PanelOp
          BY <2>1, TailTyped DEF TypeOK
        <4>2. resp \in Response
          BY <2>1, <4>1 DEF PanelOp, Response
        <4> QED BY <2>1, <4>2, NoneAssumption
      <3> QED BY <1>0, <2>1, <2>4, <3>2, <3>3, <3>4, <3>5 DEF Followed
    <2> QED BY <2>2, <2>3, <2>4 DEF Followed
  <1> QED BY <1>1, <1>2, <1>3 DEF PanelStep

LEMMA PanelTurnFollowed ==
    ASSUME TypeOK, NEW c \in Calls, Followed(c), PanelTurn
    PROVE  Followed(c)'
  <1>1. UNCHANGED <<request, response, st>>
    BY DEF PanelTurn, PanelOpens, DialogMounts, DialogUnmounts, PanelCloses
  <1>2. \A cs : ops \in Seq(OpsOf(cs)) => ops' \in Seq(OpsOf(cs))
    <2>1. ASSUME NEW cs, ops \in Seq(OpsOf(cs)) PROVE ops' \in Seq(OpsOf(cs))
      <3>1. << >> \in Seq(OpsOf(cs))
        OBVIOUS
      <3> QED BY <2>1, <3>1, OpsKept DEF PanelTurn, PanelOpens, DialogMounts, DialogUnmounts, PanelCloses
    <2> QED BY <2>1
  <1>3. remotePending' \in {remotePending, None}
    BY DEF PanelTurn, PanelOpens, DialogMounts, DialogUnmounts, PanelCloses
  <1>4. panel' = "open" => Reading'
    BY ReadingKept DEF PanelTurn, PanelOpens, DialogMounts, DialogUnmounts, PanelCloses
  <1> QED BY <1>1, <1>2, <1>3, <1>4 DEF Followed

LEMMA RestFollowed ==
    ASSUME TypeOK, NEW c \in Calls, Followed(c), LocalStep \/ Click
    PROVE  Followed(c)'
  <1>1. UNCHANGED <<sessionVars, st, panel, notices, remotePending>>
    BY DEF LocalStep, requestConfirm, AutoConfirmed, NativeConfirm, beginScope, endScope,
       Click, ClickRemote, ClickLocal
  <1>2. CASE UNCHANGED ops
    BY <1>1, <1>2 DEF Followed, Reading
  <1>3. ASSUME NEW how \in Choices, ClickRemote(how) PROVE Followed(c)'
    <2>1. /\ remotePending # None /\ remotePending \in Calls
          /\ ops' = Append(ops, Respond(remotePending, how))
      BY <1>3 DEF ClickRemote, TypeOK
    <2>2. Respond(remotePending, how) \in PanelOp /\ Respond(remotePending, how).call = remotePending
      BY <2>1 DEF Respond, PanelOp
    <2>3. CASE st[c] \in Posted
      <3>1. remotePending = c /\ ops \in Seq(OpsOf({c}))
        BY <2>1, <2>3 DEF Followed
      <3>2. ops' \in Seq(OpsOf({c}))
        BY <2>1, <2>2, <3>1, OpsKept DEF OpsOf
      <3> QED BY <1>1, <2>3, <3>1, <3>2 DEF Followed, Posted, Early
    <2>4. CASE st[c] \notin Posted
      BY <1>1, <2>1, <2>4 DEF Followed
    <2> QED BY <2>3, <2>4
  <1>4. UNCHANGED ops \/ \E how \in Choices : ClickRemote(how)
    BY DEF LocalStep, requestConfirm, AutoConfirmed, NativeConfirm, beginScope, endScope, Click, ClickLocal
  <1> QED BY <1>2, <1>3, <1>4

\* A call that has begun does not become one that has not.
LEMMA AloneBefore ==
    ASSUME TypeOK, NEW c \in Calls, Alone(c)', Next
    PROVE  Alone(c)
  <1> SUFFICES ASSUME NEW d \in Calls \ {c}, st[d] # "idle" PROVE st'[d] # "idle"
    BY DEF Alone
  <1>1. CASE \E b \in Calls : ExecuteTool(b) \/ SwStep(b)
    BY <1>1 DEF ExecuteTool, SwStep, IsReady, Cleared, RequestSet, Looked, WaitTimedOut, Closed, GoesOn,
       Outcome, ExecuteConfirmed, ToolEnded, TypeOK
  <1>2. CASE \E b \in Calls, yes \in BOOLEAN : PageAsked(b, yes)
    BY <1>2 DEF PageAsked, TypeOK
  <1>3. CASE \E n \in 0..Len(swq) : SwStops(n)
    BY <1>3 DEF SwStops
  <1>4. CASE PanelStep
    BY <1>4 DEF PanelStep, ReadySet, RequestGot, ResponseSent, Noticed, TypeOK
  <1>5. CASE PanelTurn \/ LocalStep \/ Click
    BY <1>5 DEF PanelTurn, PanelOpens, DialogMounts, DialogUnmounts, PanelCloses, LocalStep, requestConfirm,
       AutoConfirmed, NativeConfirm, beginScope, endScope, Click, ClickRemote, ClickLocal
  <1> QED BY <1>1, <1>2, <1>3, <1>4, <1>5 DEF Next

\* Once the open side panel has caught up, its buttons answer the call that waits,
\* unless a second call came with its own request: no opening, mounting or
\* unmounting of the dialog, no late read and no click loses it.  The dialog shows
\* that call unless a write of the side panel's own covers it.
THEOREM LoneRequestIsShown == Spec => []RequestIsShown
  <1>1. Init => LoneFollowed
    <2>1. \A cs : << >> \in Seq(OpsOf(cs))
      OBVIOUS
    <2> QED BY <2>1 DEF Init, LoneFollowed, Followed, Posted
  <1>2. TypeOK /\ LoneFollowed /\ [Next]_vars => LoneFollowed'
    <2> SUFFICES ASSUME TypeOK, LoneFollowed, [Next]_vars, NEW c \in Calls, Alone(c)'
                 PROVE  Followed(c)'
      BY DEF LoneFollowed
    <2>1. CASE UNCHANGED vars
      BY <2>1 DEF vars, LoneFollowed, Alone, Followed, Reading
    <2>2. CASE Next
      <3>1. Alone(c) /\ Followed(c)
        BY <2>2, AloneBefore DEF LoneFollowed
      <3> QED BY <2>2, <3>1, WorkerFollowed, StopFollowed, PanelStepFollowed, PanelTurnFollowed,
                 RestFollowed DEF Next
    <2> QED BY <2>1, <2>2
  <1>3. TypeOK /\ LoneFollowed => RequestIsShown
    BY ConfirmAssumption
       DEF LoneFollowed, Followed, Alone, Posted, Reading, RequestIsShown, Answered, Displayed, TypeOK
  <1> QED BY <1>1, <1>2, <1>3, TypesHold, PTL DEF Spec
=============================================================================
