-------------------------- MODULE CredentialsProofs --------------------------
(* What holds of Credentials, the stored secrets and their opened copies, for  *)
(* any panels, PINs and environments; of GatewayForm, the gateway section of   *)
(* the Connections page, for any sections and settings; and of ConnectionForm, *)
(* the form of the credentials on that page, for any environments.             *)
EXTENDS Credentials, GatewayForm, ConnectionForm, TLAPS

-----------------------------------------------------------------------------
(* The stored secrets and their opened copies                                *)

OpSteps == {"rest", "load", "store", "cache", "choose", "check", "read", "decrypt",
          "unlocked", "remove", "evict", "remaining", "replace"}

\* What unlockWithPin has still to do.
FromProd   == <<"prod", "tokens", "llm", "gateway">>
FromTokens == <<"tokens", "llm", "gateway">>
FromLlm    == <<"llm", "gateway">>
FromGw     == <<"gateway">>
Lefts      == {Order, FromProd, FromTokens, FromLlm, FromGw, <<>>}

Ops == [does : OpSteps, on : SUBSET Secrets, pin : Pins \cup {NoPin}, left : Lefts, any : BOOLEAN,
        read : [Secrets -> Pins \cup {NoPin}], next : Envs \cup {NoEnv}]

CredTyped ==
    /\ blob \in [Secrets -> Pins \cup {NoPin}]
    /\ session \subseteq Secrets
    /\ active \in [local : Envs \cup {NoEnv}, session : Envs \cup {NoEnv}]
    /\ active.session \in {active.local, NoEnv}
    /\ op \in [Panels -> Ops]
    /\ opened \in BOOLEAN
    /\ met \in [Panels -> SUBSET Envs] /\ tangled \subseteq Envs /\ astray \in BOOLEAN

\* What a panel's operation is about, at each of its steps.
OpsTyped ==
    \A p \in Panels :
        /\ op[p].does \in {"load", "store"} => op[p].pin # NoPin
        /\ op[p].does \in {"choose", "remaining"} => op[p].on \subseteq Envs
        /\ op[p].does = "load" => op[p].on \cap Envs = {}
        /\ op[p].does \in {"read", "decrypt", "unlocked"} => op[p].on = {}
        /\ op[p].does = "read" => op[p].left \notin {FromProd, <<>>}
        /\ op[p].does = "decrypt" => op[p].left # <<>>
        /\ op[p].does = "unlocked" => op[p].left = <<>>
        /\ op[p].does \in {"remove", "evict"} =>
              op[p].on # {} /\ (op[p].on \subseteq Envs \/ op[p].on \cap Envs = {})

\* Two operations on one environment have met there, and nowhere else: the last
\* that worked on it was alone with it, and so is the one that does, if any.
Meets      == \A p, q \in Panels : p # q => Touches(op[p]) \cap Touches(op[q]) \subseteq met[p]
MetTouched == \A p \in Panels : met[p] \subseteq Touches(op[p])
Free(e)    == e \notin tangled /\ \A p \in Panels : e \notin met[p]

\* What is opened is stored, except for what is being removed, ...
OpenedIsStored ==
    \A e \in session \cap Envs : Free(e) =>
        Stored(e) \/ \E p \in Panels : op[p].does = "evict" /\ e \in op[p].on

HalfDone ==
    \A p \in Panels, e \in Envs : e \notin met[p] =>
        /\ op[p].does = "evict" /\ e \in op[p].on => ~Stored(e)
        /\ op[p].does = "cache" /\ e \in op[p].on => Stored(e)

\* ... of an opened session what is stored is opened, except for what is being saved, ...
StoredIsOpened ==
    opened => \A e \in Envs : Free(e) /\ Stored(e) =>
        e \in session \/ \E p \in Panels : op[p].does = "cache" /\ e \in op[p].on

\* ... an unlock opens what is stored, one environment after the other, ...
Passed(p) ==
    IF op[p].left = Order THEN {} ELSE IF op[p].left = FromProd THEN {"uat"} ELSE Envs
UnlockOpens ==
    \A p \in Panels : op[p].does \in {"read", "decrypt", "unlocked"} =>
        \A e \in Envs \ met[p] :
            /\ e \in Passed(p) /\ Stored(e) => e \in session
            /\ op[p].does = "decrypt" /\ op[p].left \in {Order, FromProd} => op[p].read[e] = blob[e]

\* ... a removal is alone, or the active environment astray, ...
LoneForget ==
    ~astray => \A p \in Panels : Forgets(op[p]) => \A q \in Panels \ {p} : ~Busy(q)

\* ... and the active environment is stored or chosen, or about to be replaced
\* by one that is stored.
Replacing ==
    ~astray => \A p \in Panels : op[p].does = "replace" /\ op[p].next # NoEnv => Stored(op[p].next)
ActiveIsKnown ==
    active.session # NoEnv /\ ~astray /\ Free(active.session) =>
        \/ Stored(active.session) \/ clicked = active.session
        \/ \E p \in Panels : \/ op[p].does \in {"evict", "remaining"} /\ active.session \in op[p].on
                             \/ op[p].does = "replace"

InOrder ==
    /\ Meets /\ MetTouched /\ OpenedIsStored /\ HalfDone /\ StoredIsOpened
    /\ UnlockOpens /\ LoneForget /\ Replacing /\ ActiveIsKnown

CredIInv == CredTyped /\ OpsTyped /\ InOrder

LEMMA OrderIs == Order = <<"uat", "prod", "tokens", "llm", "gateway">> /\ Secrets = {"uat", "prod", "tokens", "llm", "gateway"}
  <1>1. DOMAIN Order = 1 .. 5
    BY DEF Order
  <1>2. Secrets = {Order[1], Order[2], Order[3], Order[4], Order[5]}
    BY <1>1, 1 .. 5 = {1, 2, 3, 4, 5} DEF Secrets
  <1> QED BY <1>2 DEF Order

LEMMA EnvsAreSecrets == Envs \subseteq Secrets /\ NoEnv \notin Envs
  BY OrderIs DEF Envs, NoEnv

LEMMA OrderSteps ==
    /\ Head(Order) = "uat" /\ Tail(Order) = FromProd
    /\ Head(FromProd) = "prod" /\ Tail(FromProd) = FromTokens
    /\ Head(FromTokens) = "tokens" /\ Tail(FromTokens) = FromLlm
    /\ Head(FromLlm) = "llm" /\ Tail(FromLlm) = FromGw
    /\ Head(FromGw) = "gateway" /\ Tail(FromGw) = <<>>
    /\ Order # FromProd /\ Order # FromTokens /\ Order # FromLlm /\ Order # FromGw /\ Order # <<>>
    /\ FromProd # FromTokens /\ FromProd # FromLlm /\ FromProd # FromGw /\ FromProd # <<>>
    /\ FromTokens # FromLlm /\ FromTokens # FromGw /\ FromTokens # <<>>
    /\ FromLlm # FromGw /\ FromLlm # <<>> /\ FromGw # <<>>
  BY DEF Order, FromProd, FromTokens, FromLlm, FromGw

LEMMA RestTyped == Rest \in Ops /\ Rest.does = "rest"
  BY DEF Rest, Ops, OpSteps, Lefts

LEMMA BecomesTyped ==
    ASSUME CredTyped, NEW p \in Panels, NEW o \in Ops, Becomes(p, o)
    PROVE  /\ op' \in [Panels -> Ops]
           /\ op'[p] = o
           /\ \A q \in Panels \ {p} : op'[q] = op[q]
  BY DEF CredTyped, Becomes

LEMMA EndsTyped ==
    ASSUME CredTyped, NEW p \in Panels, OpEnds(p)
    PROVE  /\ op' \in [Panels -> Ops]
           /\ op'[p].does = "rest"
           /\ \A q \in Panels \ {p} : op'[q] = op[q]
  BY RestTyped DEF CredTyped, OpEnds

LEMMA GoesTyped ==
    ASSUME CredTyped, NEW p \in Panels, NEW st \in OpSteps, OpGoes(p, st)
    PROVE  /\ op' \in [Panels -> Ops]
           /\ op'[p].does = st /\ op'[p].on = op[p].on /\ op'[p].pin = op[p].pin
           /\ op'[p].left = op[p].left /\ op'[p].any = op[p].any /\ op'[p].read = op[p].read
           /\ op'[p].next = op[p].next
           /\ \A q \in Panels \ {p} : op'[q] = op[q]
  <1>1. op[p] \in Ops
    BY DEF CredTyped
  <1> DEFINE o == [op[p] EXCEPT !.does = st]
  <1>2. /\ o \in Ops
        /\ o.does = st /\ o.on = op[p].on /\ o.pin = op[p].pin
        /\ o.left = op[p].left /\ o.any = op[p].any /\ o.read = op[p].read /\ o.next = op[p].next
    BY <1>1 DEF Ops
  <1>3. op' = [op EXCEPT ![p] = o]
    BY <1>1 DEF OpGoes
  <1> HIDE DEF o
  <1> QED BY <1>2, <1>3 DEF CredTyped

\* getActiveEnv keeps the environment that is active, or takes one that is opened.
LEMMA ActiveEnvTyped ==
    ASSUME CredTyped
    PROVE  /\ getActiveEnv \in [local : Envs \cup {NoEnv}, session : Envs \cup {NoEnv}]
           /\ getActiveEnv.session \in {getActiveEnv.local, NoEnv}
           /\ \/ getActiveEnv = active
              \/ getActiveEnv.session \in session \cap Envs
  <1>1. active \in [local : Envs \cup {NoEnv}, session : Envs \cup {NoEnv}]
    BY DEF CredTyped
  <1>2. Fallback(session) \in {NoEnv} \cup (session \cap Envs)
    BY DEF Fallback, Envs
  <1>3. CASE active.session # NoEnv
    BY <1>1, <1>3 DEF CredTyped, getActiveEnv
  <1>4. CASE active.session = NoEnv /\ active.local \in session
    <2>1. active.local \in Envs
      BY <1>1, <1>4, OrderIs DEF CredTyped, NoEnv
    <2>2. getActiveEnv = [active EXCEPT !.session = active.local]
      BY <1>4 DEF getActiveEnv
    <2> QED BY <1>1, <1>4, <2>1, <2>2
  <1>5. CASE active.session = NoEnv /\ active.local \notin session
    <2>1. CASE Fallback(session) # NoEnv
      <3>1. getActiveEnv = [local |-> Fallback(session), session |-> Fallback(session)]
        BY <1>5, <2>1 DEF getActiveEnv
      <3> QED BY <1>2, <2>1, <3>1
    <2>2. CASE Fallback(session) = NoEnv
      BY <1>1, <1>5, <2>2 DEF CredTyped, getActiveEnv
    <2> QED BY <2>1, <2>2
  <1> QED BY <1>3, <1>4, <1>5

-----------------------------------------------------------------------------
(* Steps                                                                       *)

\* A panel's step that leaves the meetings of its operation as they are, ...
LEMMA OpGoesOn ==
    ASSUME InOrder, NEW p \in Panels, op[p].does # "rest",
           \A q \in Panels \ {p} : op'[q] = op[q],
           UNCHANGED <<met, tangled, astray>>,
           Touches(op'[p]) = Touches(op[p]), Forgets(op'[p]) => Forgets(op[p])
    PROVE  /\ Meets' /\ MetTouched' /\ LoneForget'
           /\ \A e \in Envs : Free(e)' <=> Free(e)
  <1>1. \A q \in Panels : Touches(op[q])' = Touches(op[q])
    <2>1. \A q \in Panels \ {p} : Touches(op'[q]) = Touches(op[q])
      OBVIOUS
    <2> QED BY <2>1 DEF Touches
  <1>2. Meets' /\ MetTouched'
    BY <1>1 DEF InOrder, Meets, MetTouched
  <1>3. LoneForget'
    BY DEF InOrder, LoneForget, Busy, Forgets
  <1> QED BY <1>2, <1>3 DEF Free

\* ... and one that ends them.
LEMMA OpSettles ==
    ASSUME CredTyped, InOrder, NEW p \in Panels, op[p].does # "rest",
           \A q \in Panels \ {p} : op'[q] = op[q], Settles(p),
           Touches(op'[p]) = {}, Forgets(op'[p]) => Forgets(op[p])
    PROVE  /\ Meets' /\ MetTouched' /\ LoneForget'
           /\ \A e \in Envs : Free(e)' => e \notin met[p] /\ (Free(e) \/ e \in op[p].on)
           /\ \A q \in Panels \ {p} : met'[q] = met[q]
           /\ met' \in [Panels -> SUBSET Envs] /\ tangled' \subseteq Envs /\ astray' = astray
  <1>1. /\ met' = [met EXCEPT ![p] = {}] /\ met \in [Panels -> SUBSET Envs] /\ tangled \subseteq Envs
        /\ tangled' = (tangled \ op[p].on) \cup met[p] /\ astray' = astray
    BY DEF Settles, CredTyped
  <1>2. met'[p] = {} /\ \A q \in Panels \ {p} : met'[q] = met[q]
    BY <1>1
  <1>3. Meets'
    <2> SUFFICES ASSUME NEW a \in Panels, NEW b \in Panels, a # b
                 PROVE  Touches(op'[a]) \cap Touches(op'[b]) \subseteq met'[a]
      BY DEF Meets
    <2>1. CASE a = p \/ b = p
      BY <2>1
    <2>2. CASE a # p /\ b # p
      BY <1>2, <2>2 DEF InOrder, Meets
    <2> QED BY <2>1, <2>2
  <1>4. MetTouched'
    <2>1. \A q \in Panels : met'[q] \subseteq Touches(op'[q])
      BY <1>2 DEF InOrder, MetTouched
    <2> QED BY <2>1 DEF MetTouched
  <1>5. LoneForget'
    BY <1>1 DEF InOrder, LoneForget, Busy, Forgets
  <1>6. \A e \in Envs : Free(e)' => e \notin met[p] /\ (Free(e) \/ e \in op[p].on)
    BY <1>1, <1>2 DEF Free
  <1> QED BY <1>1, <1>2, <1>3, <1>4, <1>5, <1>6

\* What p works on alone, no other panel works on.
LEMMA OthersElsewhere ==
    ASSUME InOrder, NEW p \in Panels, NEW q \in Panels \ {p}, NEW e \in Envs,
           e \in Touches(op[p]), e \in Touches(op[q])
    PROVE  e \in met[p] /\ e \in met[q]
  BY DEF InOrder, Meets

\* A step that begins an operation.
LEMMA StartSound ==
    ASSUME CredIInv, NEW p \in Panels, NEW o \in Ops, Starts(p, o),
           o.does \in {"load", "store", "choose", "read", "remove"},
           o.does = "load" => o.on \cap Envs = {},
           o.does \in {"load", "store"} => o.pin # NoPin,
           o.does = "choose" => o.on \subseteq Envs,
           o.does = "read" => o.left = Order /\ o.on = {},
           o.does = "remove" => o.on # {} /\ (o.on \subseteq Envs \/ o.on \cap Envs = {})
    PROVE  CredIInv'
  <1>1. /\ CredTyped /\ InOrder /\ op[p].does = "rest"
        /\ UNCHANGED <<blob, session, active, opened, clicked, tangled>>
        /\ met' = [q \in Panels |->
                     IF q = p THEN {e \in Touches(o) : \E w \in Panels \ {p} : e \in Touches(op[w])}
                     ELSE met[q] \cup (Touches(o) \cap Touches(op[q]))]
        /\ astray' = (astray \/ \E q \in Panels \ {p} : Busy(q) /\ (Forgets(o) \/ Forgets(op[q])))
    BY DEF Starts, Busy, CredIInv
  <1>2. /\ op' \in [Panels -> Ops] /\ op'[p] = o
        /\ \A q \in Panels \ {p} : op'[q] = op[q]
    BY <1>1, BecomesTyped DEF Starts
  <1>3. Touches(o) \subseteq Envs
    BY DEF Touches
  <1>4. /\ met'[p] = {e \in Touches(o) : \E w \in Panels \ {p} : e \in Touches(op[w])}
        /\ \A q \in Panels \ {p} : met'[q] = met[q] \cup (Touches(o) \cap Touches(op[q]))
    BY <1>1
  <1>5. met' \in [Panels -> SUBSET Envs]
    <2>1. \A q \in Panels : met'[q] \subseteq Envs
      BY <1>1, <1>3, <1>4 DEF CredTyped
    <2> QED BY <1>1, <2>1
  <1>6. CredTyped'
    <2>1. astray' \in BOOLEAN
      BY <1>1
    <2> QED BY <1>1, <1>2, <1>5, <2>1 DEF CredTyped
  <1>7. OpsTyped'
    <2>1. o.does = "read" => o.left \notin {FromProd, <<>>}
      BY OrderSteps
    <2> QED BY <1>2, <2>1 DEF CredIInv, OpsTyped
  <1>8. Touches(op[p]) = {} /\ ~Forgets(op[p])
    BY <1>1 DEF Touches, Forgets
  <1>9. \A q \in Panels : met[q] \subseteq met'[q]
    BY <1>1, <1>4, <1>8 DEF InOrder, MetTouched
  <1>10. Meets' /\ MetTouched'
    <2>1. ASSUME NEW a \in Panels, NEW b \in Panels, a # b
          PROVE  Touches(op'[a]) \cap Touches(op'[b]) \subseteq met'[a]
      <3>1. CASE a = p
        BY <1>2, <1>4, <2>1, <3>1
      <3>2. CASE a # p /\ b = p
        BY <1>2, <1>4, <3>2
      <3>3. CASE a # p /\ b # p
        BY <1>1, <1>2, <1>9, <2>1, <3>3 DEF InOrder, Meets
      <3> QED BY <3>1, <3>2, <3>3
    <2>2. \A a \in Panels : met'[a] \subseteq Touches(op'[a])
      BY <1>1, <1>2, <1>4 DEF InOrder, MetTouched
    <2> QED BY <2>1, <2>2 DEF Meets, MetTouched
  <1>11. \A e \in Envs : Free(e)' => Free(e)
    BY <1>1, <1>9 DEF Free
  <1>12. LoneForget' /\ Replacing'
    <2>1. LoneForget'
      <3> SUFFICES ASSUME ~astray', NEW a \in Panels, Forgets(op'[a]), NEW b \in Panels \ {a}
                   PROVE  op'[b].does = "rest"
        BY DEF LoneForget, Busy
      <3>1. ~astray /\ \A q \in Panels \ {p} : op[q].does = "rest" \/ (~Forgets(o) /\ ~Forgets(op[q]))
        BY <1>1 DEF Busy
      <3>2. CASE a = p
        BY <1>2, <3>1, <3>2
      <3>3. CASE a # p
        <4>1. op[a].does # "rest" /\ Forgets(op[a])
          BY <1>2, <3>3 DEF Forgets
        <4> QED BY <3>1, <3>3, <4>1
      <3> QED BY <3>2, <3>3
    <2>2. \A q \in Panels : op'[q].does = "replace" => op[q].does = "replace" /\ op'[q] = op[q]
      BY <1>2
    <2>3. astray => astray'
      BY <1>1
    <2> QED BY <1>1, <2>1, <2>2, <2>3 DEF InOrder, Replacing, Stored
  <1>13. \A q \in Panels : /\ op'[q].does \in {"evict", "remaining", "cache", "decrypt", "unlocked"} => op'[q] = op[q]
                           /\ op[q].does \in {"evict", "remaining", "cache", "replace"} => op'[q] = op[q]
    BY <1>1, <1>2
  <1>14. OpenedIsStored' /\ HalfDone' /\ StoredIsOpened'
    BY <1>1, <1>9, <1>11, <1>13 DEF InOrder, OpenedIsStored, HalfDone, StoredIsOpened, Stored
  <1>15. ActiveIsKnown'
    <2>1. active.session # NoEnv => active.session \in Envs
      BY <1>1 DEF CredTyped
    <2> QED BY <1>1, <1>11, <1>13, <2>1 DEF InOrder, ActiveIsKnown, Stored
  <1>16. UnlockOpens'
    <2> SUFFICES ASSUME NEW q \in Panels, op'[q].does \in {"read", "decrypt", "unlocked"}, NEW e \in Envs \ met'[q]
                 PROVE  /\ e \in Passed(q)' /\ Stored(e)' => e \in session'
                        /\ op'[q].does = "decrypt" /\ op'[q].left \in {Order, FromProd} => op'[q].read[e] = blob'[e]
      BY DEF UnlockOpens
    <2>1. CASE q = p
      BY <1>2, <2>1 DEF Passed
    <2>2. CASE q # p
      <3>1. op'[q] = op[q] /\ e \in Envs \ met[q]
        BY <1>2, <1>9, <2>2
      <3> QED BY <1>1, <3>1 DEF InOrder, UnlockOpens, Passed, Stored
    <2> QED BY <2>1, <2>2
  <1> QED BY <1>6, <1>7, <1>10, <1>12, <1>14, <1>15, <1>16 DEF CredIInv, InOrder

LEMMA FormStartsSound ==
    ASSUME CredIInv, NEW p \in Panels,
           SaveStarts(p) \/ EnvClicked(p) \/ UnlockStarts(p) \/ ForgetStarts(p)
    PROVE  CredIInv'
  <1> USE DEF OpSteps, Lefts
  <1>1. CASE SaveStarts(p)
    <2>1. PICK s \in Secrets, pin \in Pins :
             Starts(p, [Rest EXCEPT !.does = IF s = "tokens" THEN "load" ELSE "store", !.on = {s}, !.pin = pin])
      BY <1>1 DEF SaveStarts
    <2> DEFINE d == IF s = "tokens" THEN "load" ELSE "store"
               o == [Rest EXCEPT !.does = d, !.on = {s}, !.pin = pin]
    <2>2. o \in Ops /\ o.does = d /\ o.pin = pin /\ o.on = {s}
      BY DEF Rest, Ops
    <2>3. pin # NoPin
      BY CredentialAssumption
    <2>4. Starts(p, o)
      BY <2>1
    <2>5. d \in {"load", "store"} /\ (d = "load" => {s} \cap Envs = {})
      BY DEF Envs
    <2> HIDE DEF o, d
    <2> QED BY <2>2, <2>3, <2>4, <2>5, StartSound
  <1>2. CASE EnvClicked(p)
    <2>1. PICK env \in Envs : Starts(p, [Rest EXCEPT !.does = "choose", !.on = {env}])
      BY <1>2 DEF EnvClicked
    <2> DEFINE o == [Rest EXCEPT !.does = "choose", !.on = {env}]
    <2>2. o \in Ops /\ o.does = "choose" /\ o.on = {env}
      BY EnvsAreSecrets DEF Rest, Ops
    <2>3. Starts(p, o)
      BY <2>1
    <2> HIDE DEF o
    <2> QED BY <2>2, <2>3, StartSound
  <1>3. CASE UnlockStarts(p)
    <2>1. PICK pin \in Pins : Starts(p, [Rest EXCEPT !.does = "read", !.pin = pin, !.left = Order])
      BY <1>3 DEF UnlockStarts
    <2> DEFINE o == [Rest EXCEPT !.does = "read", !.pin = pin, !.left = Order]
    <2>2. o \in Ops /\ o.does = "read" /\ o.left = Order /\ o.on = {}
      BY DEF Rest, Ops
    <2>3. Starts(p, o)
      BY <2>1
    <2> HIDE DEF o
    <2> QED BY <2>2, <2>3, StartSound
  <1>4. CASE ForgetStarts(p)
    <2>1. PICK on \in SUBSET Secrets :
             /\ Starts(p, [Rest EXCEPT !.does = "remove", !.on = on])
             /\ on # {} /\ (on \subseteq Envs \/ on \cap Envs = {})
      <3>1. \A s \in Secrets : {s} \subseteq Envs \/ {s} \cap Envs = {}
        OBVIOUS
      <3> QED BY <1>4, <3>1, EnvsAreSecrets DEF ForgetStarts, Envs
    <2> DEFINE o == [Rest EXCEPT !.does = "remove", !.on = on]
    <2>2. o \in Ops /\ o.does = "remove" /\ o.on = on
      BY DEF Rest, Ops
    <2>3. Starts(p, o)
      BY <2>1
    <2> HIDE DEF o
    <2> QED BY <2>1, <2>2, <2>3, StartSound
  <1> QED BY <1>1, <1>2, <1>3, <1>4

\* A step that only looks at the state, or ends an operation that works on nothing, or both.
LEMMA LookSound ==
    ASSUME CredIInv, UNCHANGED <<blob, session, opened, clicked, met, tangled, astray>>,
           active' = active \/ active' = getActiveEnv,
           op' \in [Panels -> Ops],
           \A q \in Panels :
              \/ op'[q] = op[q]
              \/ op[q].does \in {"rest", "check", "load"} /\ op'[q].does = "rest"
              \/ /\ op[q].does = "load" /\ op'[q].does = "store"
                 /\ op'[q].on = op[q].on /\ op'[q].pin = op[q].pin
    PROVE  CredIInv'
  <1>1. CredTyped /\ InOrder /\ OpsTyped
    BY DEF CredIInv
  <1>2. CredTyped'
    BY <1>1, ActiveEnvTyped DEF CredTyped
  <1>3. OpsTyped'
    BY DEF CredIInv, OpsTyped
  <1>4. \A q \in Panels : Touches(op'[q]) = Touches(op[q]) /\ (Forgets(op'[q]) => op'[q] = op[q])
    BY <1>1 DEF OpsTyped, Touches, Forgets
  <1>5. Meets' /\ MetTouched' /\ \A e \in Envs : Free(e)' <=> Free(e)
    BY <1>1, <1>4 DEF InOrder, Meets, MetTouched, Free
  <1>6. LoneForget'
    BY <1>1, <1>4 DEF InOrder, LoneForget, Busy
  <1>7. \A q \in Panels :
           /\ op'[q].does \in {"evict", "cache", "read", "decrypt", "unlocked", "replace"} => op'[q] = op[q]
           /\ op[q].does \in {"evict", "cache", "remaining", "replace"} => op'[q] = op[q]
    OBVIOUS
  <1>8. Replacing' /\ HalfDone'
    BY <1>1, <1>7 DEF InOrder, Replacing, HalfDone, Stored
  <1>9. UnlockOpens'
    BY <1>1, <1>7 DEF InOrder, UnlockOpens, Stored, Passed
  <1>10. OpenedIsStored' /\ StoredIsOpened'
    BY <1>1, <1>5, <1>7 DEF InOrder, OpenedIsStored, StoredIsOpened, Stored
  <1>11. ActiveIsKnown'
    <2>1. active.session # NoEnv => active.session \in Envs
      BY <1>1 DEF CredTyped
    <2>2. CASE active' = active
      BY <1>1, <1>5, <1>7, <2>1, <2>2 DEF InOrder, ActiveIsKnown, Stored
    <2>3. CASE active'.session \in session \cap Envs
      BY <1>1, <1>5, <1>7, <2>3 DEF InOrder, OpenedIsStored, ActiveIsKnown, Stored
    <2> QED BY <1>1, <2>2, <2>3, ActiveEnvTyped
  <1> QED BY <1>2, <1>3, <1>5, <1>6, <1>8, <1>9, <1>10, <1>11 DEF CredIInv, InOrder

LEMMA TokensLoadedSound ==
    ASSUME CredIInv, NEW p \in Panels, TokensLoaded(p)
    PROVE  CredIInv'
  <1>1. CredTyped /\ op[p].does = "load" /\ UNCHANGED <<blob, session, active, opened, clicked, met, tangled, astray>>
    BY DEF TokensLoaded, historyVars, meetingVars, CredIInv
  <1>2. /\ op' \in [Panels -> Ops] /\ op'[p].does \in {"store", "rest"}
        /\ op'[p].does = "store" => op'[p].pin = op[p].pin /\ op'[p].on = op[p].on
        /\ \A q \in Panels \ {p} : op'[q] = op[q]
    BY <1>1, GoesTyped, EndsTyped, "store" \in OpSteps DEF TokensLoaded, OpSteps
  <1> QED BY <1>1, <1>2, LookSound

LEMMA StateCheckedSound ==
    ASSUME CredIInv, NEW p \in Panels, StateChecked(p)
    PROVE  CredIInv'
  <1>1. CredTyped
    BY DEF CredIInv
  <1>2. /\ op' \in [Panels -> Ops]
        /\ op[p].does = "check" /\ op'[p].does = "rest" /\ \A q \in Panels \ {p} : op'[q] = op[q]
    BY <1>1, EndsTyped DEF StateChecked
  <1> QED BY <1>2, LookSound DEF StateChecked, historyVars, meetingVars

LEMMA BlobStoredSound ==
    ASSUME CredIInv, NEW p \in Panels, BlobStored(p)
    PROVE  CredIInv'
  <1>1. /\ CredTyped /\ OpsTyped /\ InOrder /\ op[p].does = "store"
        /\ UNCHANGED <<session, active, opened, clicked, met, tangled, astray>>
        /\ blob' = [s \in Secrets |-> IF s \in op[p].on THEN op[p].pin ELSE blob[s]]
    BY DEF BlobStored, historyVars, meetingVars, CredIInv
  <1>2. /\ op' \in [Panels -> Ops] /\ op'[p].does = "cache" /\ op'[p].on = op[p].on
        /\ \A q \in Panels \ {p} : op'[q] = op[q]
    BY <1>1, GoesTyped, "cache" \in OpSteps DEF BlobStored, OpSteps
  <1>3. op[p].pin \in Pins /\ op[p].pin # NoPin
    BY <1>1 DEF OpsTyped, CredTyped, Ops
  <1>4. /\ blob' \in [Secrets -> Pins \cup {NoPin}]
        /\ \A s \in Secrets : /\ s \notin op[p].on => blob'[s] = blob[s]
                              /\ s \in op[p].on => blob'[s] # NoPin
    BY <1>1, <1>3 DEF CredTyped
  <1>5. CredTyped' /\ OpsTyped'
    BY <1>1, <1>2, <1>4 DEF CredTyped, OpsTyped
  <1>6. /\ Meets' /\ MetTouched' /\ LoneForget'
        /\ \A e \in Envs : Free(e)' <=> Free(e)
    <2>1. Touches(op'[p]) = Touches(op[p]) /\ ~Forgets(op'[p])
      BY <1>1, <1>2 DEF Touches, Forgets
    <2> QED BY <1>1, <1>2, <2>1, OpGoesOn
  <1>7. \A e \in Envs : /\ Stored(e) => Stored(e)'
                        /\ Stored(e)' => Stored(e) \/ e \in op[p].on
                        /\ e \in op[p].on => Stored(e)'
    BY <1>4, EnvsAreSecrets DEF Stored
  <1>8. \A q \in Panels \ {p}, e \in Envs : e \in Touches(op[q]) /\ e \notin met[q] => blob'[e] = blob[e]
    <2> SUFFICES ASSUME NEW q \in Panels \ {p}, NEW e \in Envs, e \in Touches(op[q]), e \notin met[q],
                        e \in op[p].on
                 PROVE  FALSE
      BY <1>4, EnvsAreSecrets
    <2>1. e \in Touches(op[p])
      BY <1>1 DEF Touches
    <2> QED BY <1>1, <2>1, OthersElsewhere
  <1>9. HalfDone'
    <2> SUFFICES ASSUME NEW q \in Panels, NEW e \in Envs, e \notin met[q]
                 PROVE  /\ op'[q].does = "evict" /\ e \in op'[q].on => ~Stored(e)'
                        /\ op'[q].does = "cache" /\ e \in op'[q].on => Stored(e)'
      BY <1>1 DEF HalfDone
    <2>1. CASE q = p
      BY <1>2, <1>7, <2>1
    <2>2. CASE q # p
      <3>1. op'[q].does \in {"evict", "cache"} /\ e \in op'[q].on => e \in Touches(op[q])
        BY <1>2, <2>2 DEF Touches
      <3> QED BY <1>1, <1>2, <1>8, <2>2, <3>1 DEF InOrder, HalfDone, Stored
    <2> QED BY <2>1, <2>2
  <1>10. OpenedIsStored' /\ StoredIsOpened'
    BY <1>1, <1>2, <1>6, <1>7 DEF InOrder, OpenedIsStored, StoredIsOpened
  <1>11. UnlockOpens'
    <2> SUFFICES ASSUME NEW q \in Panels, op'[q].does \in {"read", "decrypt", "unlocked"}, NEW e \in Envs \ met[q]
                 PROVE  /\ e \in Passed(q)' /\ Stored(e)' => e \in session'
                        /\ op'[q].does = "decrypt" /\ op'[q].left \in {Order, FromProd} => op'[q].read[e] = blob'[e]
      BY <1>1 DEF UnlockOpens
    <2>1. q # p /\ op'[q] = op[q]
      BY <1>2
    <2>2. blob'[e] = blob[e]
      BY <1>8, <2>1 DEF Touches
    <2> QED BY <1>1, <2>1, <2>2 DEF InOrder, UnlockOpens, Passed, Stored
  <1>12. Replacing'
    <2>1. \A q \in Panels : op'[q].does = "replace" => op'[q] = op[q] /\ op[q].next \in Envs \cup {NoEnv}
      BY <1>1, <1>2 DEF CredTyped, Ops
    <2> QED BY <1>1, <1>7, <2>1 DEF InOrder, Replacing
  <1>13. ActiveIsKnown'
    <2>1. active.session # NoEnv => active.session \in Envs
      BY <1>1 DEF CredTyped
    <2> QED BY <1>1, <1>2, <1>6, <1>7, <2>1 DEF InOrder, ActiveIsKnown
  <1> QED BY <1>5, <1>6, <1>9, <1>10, <1>11, <1>12, <1>13 DEF CredIInv, InOrder

LEMMA SessionStoredSound ==
    ASSUME CredIInv, NEW p \in Panels, SessionStored(p)
    PROVE  CredIInv'
  <1>1. /\ CredTyped /\ OpsTyped /\ InOrder /\ op[p].does = "cache"
        /\ UNCHANGED <<blob, active, opened, clicked>>
        /\ session' = session \cup op[p].on /\ Settles(p)
    BY DEF SessionStored, CredIInv
  <1>2. /\ op' \in [Panels -> Ops] /\ op'[p].does \in {"choose", "rest"}
        /\ op'[p].does = "choose" => op'[p].on \subseteq Envs
        /\ \A q \in Panels \ {p} : op'[q] = op[q]
    BY <1>1, GoesTyped, EndsTyped, "choose" \in OpSteps DEF SessionStored, OpSteps
  <1>3. /\ Meets' /\ MetTouched' /\ LoneForget'
        /\ \A e \in Envs : Free(e)' => e \notin met[p] /\ (Free(e) \/ e \in op[p].on)
        /\ \A q \in Panels \ {p} : met'[q] = met[q]
        /\ met' \in [Panels -> SUBSET Envs] /\ tangled' \subseteq Envs /\ astray' = astray
    <2>1. Touches(op'[p]) = {} /\ ~Forgets(op'[p])
      BY <1>2 DEF Touches, Forgets
    <2> QED BY <1>1, <1>2, <2>1, OpSettles
  <1>4. op[p].on \subseteq Secrets
    BY <1>1 DEF CredTyped, Ops
  <1>5. CredTyped' /\ OpsTyped'
    <2>1. CredTyped'
      BY <1>1, <1>2, <1>3, <1>4 DEF CredTyped
    <2> QED BY <1>1, <1>2, <2>1 DEF OpsTyped
  <1>6. OpenedIsStored' /\ HalfDone' /\ StoredIsOpened'
    <2>1. \A e \in Envs : e \in op[p].on /\ e \notin met[p] => Stored(e)
      BY <1>1 DEF InOrder, HalfDone
    <2>2. OpenedIsStored'
      BY <1>1, <1>2, <1>3, <2>1 DEF InOrder, OpenedIsStored, Stored
    <2>3. HalfDone'
      BY <1>1, <1>2, <1>3 DEF InOrder, HalfDone, Stored
    <2>4. StoredIsOpened'
      BY <1>1, <1>2, <1>3 DEF InOrder, StoredIsOpened, Stored
    <2> QED BY <2>2, <2>3, <2>4
  <1>7. UnlockOpens'
    BY <1>1, <1>2, <1>3 DEF InOrder, UnlockOpens, Passed, Stored
  <1>8. Replacing'
    BY <1>1, <1>2, <1>3 DEF InOrder, Replacing, Stored
  <1>9. ActiveIsKnown'
    <2>1. active.session # NoEnv => active.session \in Envs
      BY <1>1 DEF CredTyped
    <2> QED BY <1>1, <1>2, <1>3, <2>1 DEF InOrder, ActiveIsKnown, HalfDone, Stored
  <1> QED BY <1>3, <1>5, <1>6, <1>7, <1>8, <1>9 DEF CredIInv, InOrder

LEMMA setActiveEnvSound ==
    ASSUME CredIInv, NEW p \in Panels, setActiveEnv(p)
    PROVE  CredIInv'
  <1>1. /\ CredTyped /\ OpsTyped /\ InOrder /\ op[p].does = "choose"
        /\ UNCHANGED <<blob, session, opened, met, tangled>>
        /\ astray' = (astray /\ \E q \in Panels : Forgets(op[q]))
    BY DEF setActiveEnv, CredIInv
  <1>2. /\ op' \in [Panels -> Ops] /\ op'[p].does = "check"
        /\ \A q \in Panels \ {p} : op'[q] = op[q]
    BY <1>1, GoesTyped, "check" \in OpSteps DEF setActiveEnv, OpSteps
  <1>3. PICK env \in op[p].on : active' = [local |-> env, session |-> env] /\ clicked' = env
    BY DEF setActiveEnv
  <1>4. env \in Envs
    BY <1>1, <1>3 DEF OpsTyped
  <1>5. CredTyped'
    BY <1>1, <1>2, <1>3, <1>4 DEF CredTyped
  <1>6. OpsTyped'
    BY <1>1, <1>2 DEF OpsTyped
  <1>7. \A q \in Panels : Touches(op'[q]) = Touches(op[q]) /\ (Forgets(op'[q]) => op'[q] = op[q])
    BY <1>1, <1>2 DEF Touches, Forgets
  <1>8. Meets' /\ MetTouched' /\ \A e \in Envs : Free(e)' <=> Free(e)
    BY <1>1, <1>7 DEF InOrder, Meets, MetTouched, Free
  <1>9. LoneForget'
    BY <1>1, <1>2, <1>7 DEF InOrder, LoneForget, Busy
  <1>10. Replacing'
    <2>1. \A q \in Panels : op'[q].does = "replace" => op'[q] = op[q] /\ Forgets(op[q])
      BY <1>2 DEF Forgets
    <2> QED BY <1>1, <2>1 DEF InOrder, Replacing, Stored
  <1>11. OpenedIsStored' /\ StoredIsOpened' /\ HalfDone'
    BY <1>1, <1>2, <1>8 DEF InOrder, OpenedIsStored, StoredIsOpened, HalfDone, Stored
  <1>12. UnlockOpens'
    BY <1>1, <1>2 DEF InOrder, UnlockOpens, Passed, Stored
  <1>13. ActiveIsKnown'
    BY <1>3 DEF ActiveIsKnown
  <1> QED BY <1>5, <1>6, <1>8, <1>9, <1>10, <1>11, <1>12, <1>13 DEF CredIInv, InOrder

LEMMA BlobReadSound ==
    ASSUME CredIInv, NEW p \in Panels, BlobRead(p)
    PROVE  CredIInv'
  <1> DEFINE next == Head(op[p].left)
             read == IF next = "uat" THEN Envs ELSE {next}
             taken == [s \in Secrets |-> IF s \in read THEN blob[s] ELSE op[p].read[s]]
             o == [op[p] EXCEPT !.does = "decrypt", !.read = taken]
  <1>1. /\ CredTyped /\ OpsTyped /\ InOrder /\ op[p].does = "read"
        /\ UNCHANGED <<blob, session, active, opened, clicked, met, tangled, astray>>
    BY DEF BlobRead, historyVars, meetingVars, CredIInv
  <1>2. op[p] \in Ops
    BY <1>1 DEF CredTyped
  <1>3. taken \in [Secrets -> Pins \cup {NoPin}] /\ (next = "uat" => \A e \in Envs : taken[e] = blob[e])
    BY <1>1, <1>2, EnvsAreSecrets DEF CredTyped, Ops
  <1>4. Becomes(p, o)
    BY <1>2 DEF BlobRead, Ops
  <1> HIDE DEF taken
  <1>5. o \in Ops /\ o.does = "decrypt" /\ o.left = op[p].left /\ o.read = taken /\ o.on = op[p].on
    BY <1>2, <1>3 DEF Ops, OpSteps
  <1> HIDE DEF o
  <1>6. op' \in [Panels -> Ops] /\ op'[p] = o /\ \A q \in Panels \ {p} : op'[q] = op[q]
    BY <1>1, <1>4, <1>5, BecomesTyped
  <1>7. op[p].left \notin {FromProd, <<>>} /\ op[p].on = {}
    BY <1>1 DEF OpsTyped
  <1>8. CredTyped'
    BY <1>1, <1>6 DEF CredTyped
  <1>9. OpsTyped'
    BY <1>1, <1>5, <1>6, <1>7 DEF OpsTyped
  <1>10. /\ Meets' /\ MetTouched' /\ LoneForget'
         /\ \A e \in Envs : Free(e)' <=> Free(e)
    <2>1. Touches(op'[p]) = Touches(op[p]) /\ ~Forgets(op'[p])
      BY <1>1, <1>5, <1>6 DEF Touches, Forgets
    <2> QED BY <1>1, <1>6, <2>1, OpGoesOn
  <1>11. OpenedIsStored' /\ StoredIsOpened' /\ HalfDone'
    BY <1>1, <1>5, <1>6, <1>10 DEF InOrder, OpenedIsStored, StoredIsOpened, HalfDone, Stored
  <1>12. Replacing' /\ ActiveIsKnown'
    <2>1. active.session # NoEnv => active.session \in Envs
      BY <1>1 DEF CredTyped
    <2> QED BY <1>1, <1>5, <1>6, <1>10, <2>1 DEF InOrder, Replacing, ActiveIsKnown, Stored
  <1>13. UnlockOpens'
    <2> SUFFICES ASSUME NEW q \in Panels, op'[q].does \in {"read", "decrypt", "unlocked"}, NEW e \in Envs \ met[q]
                 PROVE  /\ e \in Passed(q)' /\ Stored(e)' => e \in session'
                        /\ op'[q].does = "decrypt" /\ op'[q].left \in {Order, FromProd} => op'[q].read[e] = blob'[e]
      BY <1>1 DEF UnlockOpens
    <2>1. CASE q # p
      BY <1>1, <1>6, <2>1 DEF InOrder, UnlockOpens, Passed, Stored
    <2>2. CASE q = p
      <3>1. e \in Passed(p) /\ Stored(e) => e \in session
        BY <1>1, <2>2 DEF InOrder, UnlockOpens
      <3>2. Passed(p)' = Passed(p) /\ (Stored(e)' <=> Stored(e))
        BY <1>1, <1>5, <1>6 DEF Passed, Stored
      <3>3. op[p].left = Order => o.read[e] = blob[e]
        BY <1>3, <1>5, OrderSteps
      <3> QED BY <1>1, <1>5, <1>6, <1>7, <2>2, <3>1, <3>2, <3>3
    <2> QED BY <2>1, <2>2
  <1> QED BY <1>8, <1>9, <1>10, <1>11, <1>12, <1>13 DEF CredIInv, InOrder

\* The next secret's turn.
LEMMA ProceedTyped ==
    ASSUME CredTyped, NEW p \in Panels, op[p].left # <<>>, NEW any \in BOOLEAN, Proceed(p, any)
    PROVE  /\ op' \in [Panels -> Ops]
           /\ op'[p].read = op[p].read /\ op'[p].on = op[p].on
           /\ \A q \in Panels \ {p} : op'[q] = op[q]
           /\ \/ op[p].left = Order /\ op'[p].left = FromProd /\ op'[p].does = "decrypt"
              \/ op[p].left = FromProd /\ op'[p].left = FromTokens /\ op'[p].does = "read"
              \/ op[p].left = FromTokens /\ op'[p].left = FromLlm /\ op'[p].does = "read"
              \/ op[p].left = FromLlm /\ op'[p].left = FromGw /\ op'[p].does = "read"
              \/ op[p].left = FromGw /\ op'[p].left = <<>> /\ op'[p].does = "unlocked"
  <1> DEFINE l == Tail(op[p].left)
             d == StepAfter(Head(op[p].left))
             o == [op[p] EXCEPT !.left = l, !.does = d, !.any = any]
  <1>1. op[p] \in Ops
    BY DEF CredTyped
  <1>2. \/ op[p].left = Order /\ l = FromProd /\ d = "decrypt"
        \/ op[p].left = FromProd /\ l = FromTokens /\ d = "read"
        \/ op[p].left = FromTokens /\ l = FromLlm /\ d = "read"
        \/ op[p].left = FromLlm /\ l = FromGw /\ d = "read"
        \/ op[p].left = FromGw /\ l = <<>> /\ d = "unlocked"
    <2>1. op[p].left \in {Order, FromProd, FromTokens, FromLlm, FromGw}
      BY <1>1 DEF Ops, Lefts
    <2> QED BY <2>1, OrderSteps DEF StepAfter
  <1>3. Becomes(p, o)
    BY <1>1 DEF Proceed, Ops
  <1> HIDE DEF l, d
  <1>4. l \in Lefts /\ d \in OpSteps
    BY <1>2 DEF Lefts, OpSteps
  <1>5. o \in Ops /\ o.left = l /\ o.does = d /\ o.read = op[p].read /\ o.on = op[p].on
    BY <1>1, <1>4 DEF Ops
  <1> HIDE DEF o
  <1>6. op' \in [Panels -> Ops] /\ op'[p] = o /\ \A q \in Panels \ {p} : op'[q] = op[q]
    BY <1>3, <1>5, BecomesTyped
  <1> QED BY <1>2, <1>5, <1>6

\* A secret that is not an environment's passes.
LEMMA OtherPasses ==
    ASSUME CredIInv, NEW p \in Panels, op[p].does = "decrypt",
           UNCHANGED <<active, opened, clicked, met, tangled, astray>>,
           NEW any \in BOOLEAN, Proceed(p, any), op[p].left \notin {Order, FromProd},
           blob' \in [Secrets -> Pins \cup {NoPin}], \A e \in Envs : blob'[e] = blob[e],
           session' \subseteq Secrets, session' \cap Envs = session \cap Envs
    PROVE  CredIInv'
  <1>1. CredTyped /\ OpsTyped /\ InOrder /\ op[p].left # <<>> /\ op[p].on = {}
    BY DEF CredIInv, OpsTyped
  <1>2. /\ op' \in [Panels -> Ops] /\ \A q \in Panels \ {p} : op'[q] = op[q]
        /\ op'[p].does \in {"read", "unlocked"} /\ op'[p].left \notin {Order, FromProd}
        /\ op'[p].does = "read" => op'[p].left # <<>>
        /\ op'[p].does = "unlocked" => op'[p].left = <<>>
        /\ op'[p].on = op[p].on
    BY <1>1, ProceedTyped, OrderSteps
  <1>3. CredTyped'
    BY <1>1, <1>2 DEF CredTyped
  <1>4. OpsTyped'
    BY <1>1, <1>2 DEF OpsTyped
  <1>5. /\ Meets' /\ MetTouched' /\ LoneForget'
        /\ \A e \in Envs : Free(e)' <=> Free(e)
    <2>1. Touches(op'[p]) = Touches(op[p]) /\ ~Forgets(op'[p])
      BY <1>2 DEF Touches, Forgets
    <2> QED BY <1>1, <1>2, <2>1, OpGoesOn
  <1>6. \A e \in Envs : (Stored(e)' <=> Stored(e)) /\ (e \in session' <=> e \in session)
    BY DEF Stored
  <1>7. OpenedIsStored' /\ StoredIsOpened' /\ HalfDone'
    BY <1>1, <1>2, <1>5, <1>6 DEF InOrder, OpenedIsStored, StoredIsOpened, HalfDone
  <1>8. Replacing' /\ ActiveIsKnown'
    <2>1. active.session # NoEnv => active.session \in Envs
      BY <1>1 DEF CredTyped
    <2>2. \A q \in Panels : op'[q].does = "replace" => op'[q] = op[q] /\ op[q].next \in Envs \cup {NoEnv}
      BY <1>1, <1>2 DEF CredTyped, Ops
    <2> QED BY <1>1, <1>2, <1>5, <1>6, <2>1, <2>2 DEF InOrder, Replacing, ActiveIsKnown
  <1>9. UnlockOpens'
    <2> SUFFICES ASSUME NEW q \in Panels, op'[q].does \in {"read", "decrypt", "unlocked"}, NEW e \in Envs \ met[q]
                 PROVE  /\ e \in Passed(q)' /\ Stored(e)' => e \in session'
                        /\ op'[q].does = "decrypt" /\ op'[q].left \in {Order, FromProd} => op'[q].read[e] = blob'[e]
      BY DEF UnlockOpens
    <2>1. CASE q # p
      BY <1>1, <1>2, <1>6, <2>1 DEF InOrder, UnlockOpens, Passed
    <2>2. CASE q = p
      <3>1. Passed(p) = Envs
        BY DEF Passed
      <3>2. Stored(e) => e \in session
        BY <1>1, <2>2, <3>1 DEF InOrder, UnlockOpens
      <3> QED BY <1>2, <1>6, <2>2, <3>2
    <2> QED BY <2>1, <2>2
  <1> QED BY <1>3, <1>4, <1>5, <1>7, <1>8, <1>9 DEF CredIInv, InOrder

\* An environment's passes, and is opened if it is stored.
LEMMA EnvPasses ==
    ASSUME CredIInv, NEW p \in Panels, op[p].does = "decrypt",
           UNCHANGED <<blob, active, opened, clicked, met, tangled, astray>>,
           NEW any \in BOOLEAN, Proceed(p, any), op[p].left \in {Order, FromProd},
           NEW e0, e0 = Head(op[p].left),
           session' = IF op[p].read[e0] # NoPin THEN session \cup {e0} ELSE session
    PROVE  CredIInv'
  <1>1. /\ CredTyped /\ OpsTyped /\ InOrder /\ op[p].left # <<>> /\ op[p].on = {} /\ e0 \in Envs
        /\ op[p].left = Order => e0 = "uat"
        /\ op[p].left = FromProd => e0 = "prod"
    BY OrderSteps DEF CredIInv, OpsTyped, Envs
  <1>2. /\ op' \in [Panels -> Ops] /\ \A q \in Panels \ {p} : op'[q] = op[q]
        /\ op'[p].read = op[p].read /\ op'[p].on = op[p].on
        /\ op'[p].does \in {"read", "decrypt"}
        /\ op[p].left = Order => op'[p].left = FromProd /\ op'[p].does = "decrypt"
        /\ op[p].left = FromProd => op'[p].left = FromTokens /\ op'[p].does = "read"
    BY <1>1, ProceedTyped, OrderSteps
  <1>3. CredTyped'
    <2>1. session' \subseteq Secrets
      BY <1>1, EnvsAreSecrets DEF CredTyped
    <2> QED BY <1>1, <1>2, <2>1 DEF CredTyped
  <1>4. OpsTyped'
    <2>1. op'[p].left \notin {<<>>} /\ (op'[p].does = "read" => op'[p].left \notin {FromProd, <<>>})
      BY <1>2, OrderSteps
    <2> QED BY <1>1, <1>2, <2>1 DEF OpsTyped
  <1>5. /\ Meets' /\ MetTouched' /\ LoneForget'
        /\ \A e \in Envs : Free(e)' <=> Free(e)
    <2>1. Touches(op'[p]) = Touches(op[p]) /\ ~Forgets(op'[p])
      BY <1>2 DEF Touches, Forgets
    <2> QED BY <1>1, <1>2, <2>1, OpGoesOn
  <1>6. \A e \in Envs \ met[p] : op[p].read[e] = blob[e] /\ (e \in Passed(p) /\ Stored(e) => e \in session)
    BY <1>1 DEF InOrder, UnlockOpens
  <1>7. e0 \notin met[p] => session' = IF Stored(e0) THEN session \cup {e0} ELSE session
    BY <1>1, <1>6 DEF Stored
  <1>8. session \subseteq session' /\ session' \subseteq session \cup {e0}
    OBVIOUS
  <1>9. OpenedIsStored'
    <2> SUFFICES ASSUME NEW e \in session' \cap Envs, Free(e)
                 PROVE  Stored(e) \/ \E q \in Panels : op'[q].does = "evict" /\ e \in op'[q].on
      BY <1>5 DEF OpenedIsStored, Stored
    <2>1. CASE e \in session
      BY <1>1, <1>2, <2>1 DEF InOrder, OpenedIsStored
    <2>2. CASE e \notin session
      <3>1. e = e0 /\ e0 \notin met[p]
        BY <1>8, <2>2 DEF Free
      <3> QED BY <1>7, <2>2, <3>1
    <2> QED BY <2>1, <2>2
  <1>10. StoredIsOpened' /\ HalfDone'
    BY <1>1, <1>2, <1>5, <1>8 DEF InOrder, StoredIsOpened, HalfDone, Stored
  <1>11. Replacing' /\ ActiveIsKnown'
    <2>1. active.session # NoEnv => active.session \in Envs
      BY <1>1 DEF CredTyped
    <2> QED BY <1>1, <1>2, <1>5, <2>1 DEF InOrder, Replacing, ActiveIsKnown, Stored
  <1>12. UnlockOpens'
    <2> SUFFICES ASSUME NEW q \in Panels, op'[q].does \in {"read", "decrypt", "unlocked"}, NEW e \in Envs \ met[q]
                 PROVE  /\ e \in Passed(q)' /\ Stored(e) => e \in session'
                        /\ op'[q].does = "decrypt" /\ op'[q].left \in {Order, FromProd} => op'[q].read[e] = blob[e]
      BY DEF UnlockOpens, Stored
    <2>1. CASE q # p
      BY <1>1, <1>2, <1>8, <2>1 DEF InOrder, UnlockOpens, Passed
    <2>2. CASE q = p
      <3>1. Passed(p)' \subseteq Passed(p) \cup {e0}
        <4>1. CASE op[p].left = Order
          BY <1>1, <1>2, <4>1, OrderSteps DEF Passed
        <4>2. CASE op[p].left = FromProd
          BY <1>1, <1>2, <4>2, OrderSteps DEF Passed, Envs
        <4> QED BY <4>1, <4>2
      <3> QED BY <1>2, <1>6, <1>7, <1>8, <2>2, <3>1
    <2> QED BY <2>1, <2>2
  <1> QED BY <1>3, <1>4, <1>5, <1>9, <1>10, <1>11, <1>12 DEF CredIInv, InOrder

\* An unlock that ends as it stands: what was opened stays so.
LEMMA UnlockGivesUp ==
    ASSUME CredIInv, NEW p \in Panels, op[p].does \in {"decrypt", "unlocked"}, OpEnds(p), Settles(p),
           UNCHANGED <<blob, session, active, opened, clicked>>
    PROVE  CredIInv'
  <1>1. CredTyped /\ OpsTyped /\ InOrder /\ op[p].on = {}
    BY DEF CredIInv, OpsTyped
  <1>2. op' \in [Panels -> Ops] /\ op'[p].does = "rest" /\ \A q \in Panels \ {p} : op'[q] = op[q]
    BY <1>1, EndsTyped
  <1>3. /\ Meets' /\ MetTouched' /\ LoneForget'
        /\ \A e \in Envs : Free(e)' => e \notin met[p] /\ (Free(e) \/ e \in op[p].on)
        /\ \A q \in Panels \ {p} : met'[q] = met[q]
        /\ met' \in [Panels -> SUBSET Envs] /\ tangled' \subseteq Envs /\ astray' = astray
    <2>1. Touches(op'[p]) = {} /\ ~Forgets(op'[p])
      BY <1>2 DEF Touches, Forgets
    <2> QED BY <1>1, <1>2, <2>1, OpSettles
  <1>4. CredTyped' /\ OpsTyped'
    BY <1>1, <1>2, <1>3 DEF CredTyped, OpsTyped
  <1>5. OpenedIsStored' /\ StoredIsOpened' /\ HalfDone'
    BY <1>1, <1>2, <1>3 DEF InOrder, OpenedIsStored, StoredIsOpened, HalfDone, Stored
  <1>6. UnlockOpens'
    BY <1>1, <1>2, <1>3 DEF InOrder, UnlockOpens, Passed, Stored
  <1>7. Replacing' /\ ActiveIsKnown'
    <2>1. active.session # NoEnv => active.session \in Envs
      BY <1>1 DEF CredTyped
    <2> QED BY <1>1, <1>2, <1>3, <2>1 DEF InOrder, Replacing, ActiveIsKnown, Stored
  <1> QED BY <1>3, <1>4, <1>5, <1>6, <1>7 DEF CredIInv, InOrder

LEMMA DecryptedSound ==
    ASSUME CredIInv, NEW p \in Panels, Decrypted(p)
    PROVE  CredIInv'
  <1> DEFINE s == Head(op[p].left)
             stored == op[p].read[s] # NoPin
             any == op[p].any \/ (stored /\ s \in Strict)
  <1>1. /\ CredTyped /\ op[p].does = "decrypt" /\ op[p].left # <<>> /\ op[p] \in Ops
        /\ UNCHANGED <<active, opened, clicked>>
    BY DEF Decrypted, CredIInv, OpsTyped, CredTyped
  <1>2. op[p].any \in BOOLEAN /\ any \in BOOLEAN
    BY <1>1 DEF Ops
  <1>3. op[p].left \in {Order, FromProd} => s \in Strict
    BY OrderSteps DEF Strict
  <1>4. op[p].left \notin {Order, FromProd} => s \in Secrets \ Envs
    <2>1. op[p].left \in Lefts
      BY <1>1 DEF Ops
    <2> QED BY <1>1, <2>1, OrderSteps, OrderIs DEF Lefts, Envs
  <1>5. CASE stored /\ op[p].read[s] # op[p].pin
    <2>1. Failed(p, s)
      BY <1>5 DEF Decrypted
    <2>2. CASE s \in Strict
      BY <1>1, <2>1, <2>2, UnlockGivesUp DEF Failed
    <2>3. CASE s \notin Strict
      <3>1. /\ Proceed(p, op[p].any) /\ session' = session \ {s}
            /\ blob' = IF s = "llm" THEN [blob EXCEPT ![s] = NoPin] ELSE blob
            /\ UNCHANGED <<met, tangled, astray>>
        BY <2>1, <2>3 DEF Failed, PassedOver, meetingVars
      <3>2. s \in Secrets \ Envs
        BY <1>3, <1>4, <2>3
      <3>3. blob' \in [Secrets -> Pins \cup {NoPin}] /\ \A e \in Envs : blob'[e] = blob[e]
        BY <1>1, <3>1, <3>2, EnvsAreSecrets DEF CredTyped
      <3>4. session' \subseteq Secrets /\ session' \cap Envs = session \cap Envs
        BY <1>1, <3>1, <3>2 DEF CredTyped
      <3>5. op[p].left \notin {Order, FromProd}
        BY <1>3, <2>3
      <3> HIDE DEF s
      <3> QED BY <1>1, <1>2, <3>1, <3>3, <3>4, <3>5, OtherPasses
    <2> QED BY <2>2, <2>3
  <1>6. CASE ~(stored /\ op[p].read[s] # op[p].pin)
    <2>1. /\ session' = IF stored THEN session \cup {s} ELSE session
          /\ Proceed(p, any) /\ UNCHANGED <<blob, met, tangled, astray>>
      BY <1>6 DEF Decrypted, meetingVars
    <2> HIDE DEF any
    <2>2. CASE op[p].left \in {Order, FromProd}
      BY <1>1, <1>2, <2>1, <2>2, EnvPasses
    <2>3. CASE op[p].left \notin {Order, FromProd}
      <3>1. session' \subseteq Secrets /\ session' \cap Envs = session \cap Envs
        BY <1>1, <1>4, <2>1, <2>3 DEF CredTyped
      <3>2. blob' \in [Secrets -> Pins \cup {NoPin}] /\ \A e \in Envs : blob'[e] = blob[e]
        BY <1>1, <2>1 DEF CredTyped
      <3> QED BY <1>1, <1>2, <2>1, <2>3, <3>1, <3>2, OtherPasses
    <2> QED BY <2>2, <2>3
  <1> QED BY <1>5, <1>6

LEMMA UnlockedSound ==
    ASSUME CredIInv, NEW p \in Panels, Unlocked(p)
    PROVE  CredIInv'
  <1>1. /\ CredTyped /\ OpsTyped /\ InOrder /\ op[p].does = "unlocked" /\ op[p].on = {} /\ op[p].left = <<>>
        /\ UNCHANGED <<blob, session, clicked>> /\ Settles(p)
    BY DEF Unlocked, CredIInv, OpsTyped
  <1>2. CASE ~op[p].any
    BY <1>1, <1>2, UnlockGivesUp DEF Unlocked
  <1>3. CASE op[p].any
    <2>1. active' = getActiveEnv /\ opened' = TRUE /\ OpGoes(p, "check")
      BY <1>3 DEF Unlocked
    <2>2. /\ op' \in [Panels -> Ops] /\ op'[p].does = "check"
          /\ \A q \in Panels \ {p} : op'[q] = op[q]
      BY <1>1, <2>1, GoesTyped, "check" \in OpSteps DEF OpSteps
    <2>3. /\ Meets' /\ MetTouched' /\ LoneForget'
          /\ \A e \in Envs : Free(e)' => e \notin met[p] /\ (Free(e) \/ e \in op[p].on)
          /\ \A q \in Panels \ {p} : met'[q] = met[q]
          /\ met' \in [Panels -> SUBSET Envs] /\ tangled' \subseteq Envs /\ astray' = astray
      <3>1. Touches(op'[p]) = {} /\ ~Forgets(op'[p])
        BY <2>2 DEF Touches, Forgets
      <3> QED BY <1>1, <2>2, <3>1, OpSettles
    <2>4. CredTyped' /\ OpsTyped'
      <3>1. CredTyped'
        BY <1>1, <2>1, <2>2, <2>3, ActiveEnvTyped DEF CredTyped
      <3> QED BY <1>1, <2>2, <3>1 DEF OpsTyped
    <2>5. OpenedIsStored' /\ HalfDone'
      BY <1>1, <2>2, <2>3 DEF InOrder, OpenedIsStored, HalfDone, Stored
    <2>6. StoredIsOpened'
      <3>1. Passed(p) = Envs
        BY <1>1, OrderSteps DEF Passed
      <3>2. \A e \in Envs \ met[p] : Stored(e) => e \in session
        BY <1>1, <3>1 DEF InOrder, UnlockOpens
      <3> QED BY <1>1, <2>3, <3>2 DEF StoredIsOpened, Stored
    <2>7. UnlockOpens' /\ Replacing'
      BY <1>1, <2>2, <2>3 DEF InOrder, UnlockOpens, Replacing, Passed, Stored
    <2>8. ActiveIsKnown'
      <3>1. active.session # NoEnv => active.session \in Envs
        BY <1>1 DEF CredTyped
      <3>2. CASE active' = active
        BY <1>1, <2>2, <2>3, <3>1, <3>2 DEF InOrder, ActiveIsKnown, Stored
      <3>3. CASE active'.session \in session \cap Envs
        BY <1>1, <2>2, <2>3, <3>3 DEF InOrder, OpenedIsStored, ActiveIsKnown, Stored
      <3> QED BY <1>1, <2>1, <3>2, <3>3, ActiveEnvTyped
    <2> QED BY <2>3, <2>4, <2>5, <2>6, <2>7, <2>8 DEF CredIInv, InOrder
  <1> QED BY <1>2, <1>3

LEMMA BlobRemovedSound ==
    ASSUME CredIInv, NEW p \in Panels, BlobRemoved(p)
    PROVE  CredIInv'
  <1>1. /\ CredTyped /\ OpsTyped /\ InOrder /\ op[p].does = "remove"
        /\ UNCHANGED <<session, active, opened, clicked, met, tangled, astray>>
        /\ blob' = [s \in Secrets |-> IF s \in op[p].on THEN NoPin ELSE blob[s]]
    BY DEF BlobRemoved, historyVars, meetingVars, CredIInv
  <1>2. /\ op' \in [Panels -> Ops] /\ op'[p].does = "evict" /\ op'[p].on = op[p].on
        /\ \A q \in Panels \ {p} : op'[q] = op[q]
    BY <1>1, GoesTyped, "evict" \in OpSteps DEF BlobRemoved, OpSteps
  <1>3. /\ blob' \in [Secrets -> Pins \cup {NoPin}]
        /\ \A e \in Envs : blob'[e] = IF e \in op[p].on THEN NoPin ELSE blob[e]
    BY <1>1, EnvsAreSecrets DEF CredTyped
  <1>4. CredTyped'
    BY <1>1, <1>2, <1>3 DEF CredTyped
  <1>5. OpsTyped'
    BY <1>1, <1>2 DEF OpsTyped
  <1>6. /\ Meets' /\ MetTouched' /\ LoneForget'
        /\ \A e \in Envs : Free(e)' <=> Free(e)
    <2>1. Touches(op'[p]) = Touches(op[p]) /\ (Forgets(op'[p]) => Forgets(op[p]))
      BY <1>1, <1>2 DEF Touches, Forgets
    <2> QED BY <1>1, <1>2, <2>1, OpGoesOn
  <1>7. \A e \in Envs : Stored(e)' <=> Stored(e) /\ e \notin op[p].on
    BY <1>3 DEF Stored
  <1>8. \A q \in Panels \ {p}, e \in Envs : e \in Touches(op[q]) /\ e \notin met[q] => blob'[e] = blob[e]
    <2> SUFFICES ASSUME NEW q \in Panels \ {p}, NEW e \in Envs, e \in Touches(op[q]), e \notin met[q],
                        e \in op[p].on
                 PROVE  FALSE
      BY <1>3
    <2>1. e \in Touches(op[p])
      BY <1>1 DEF Touches
    <2> QED BY <1>1, <2>1, OthersElsewhere
  <1>9. HalfDone'
    <2> SUFFICES ASSUME NEW q \in Panels, NEW e \in Envs, e \notin met[q]
                 PROVE  /\ op'[q].does = "evict" /\ e \in op'[q].on => ~Stored(e)'
                        /\ op'[q].does = "cache" /\ e \in op'[q].on => Stored(e)'
      BY <1>1 DEF HalfDone
    <2>1. CASE q = p
      BY <1>2, <1>7, <2>1
    <2>2. CASE q # p
      <3>1. op'[q].does \in {"evict", "cache"} /\ e \in op'[q].on => e \in Touches(op[q])
        BY <1>2, <2>2 DEF Touches
      <3> QED BY <1>1, <1>2, <1>8, <2>2, <3>1 DEF InOrder, HalfDone, Stored
    <2> QED BY <2>1, <2>2
  <1>10. OpenedIsStored'
    <2>1. ASSUME NEW e \in session \cap Envs, Free(e)
          PROVE  Stored(e)' \/ \E q \in Panels : op'[q].does = "evict" /\ e \in op'[q].on
      <3>1. CASE e \in op[p].on
        BY <1>2, <3>1
      <3>2. CASE e \notin op[p].on
        BY <1>1, <1>2, <1>7, <2>1, <3>2 DEF InOrder, OpenedIsStored
      <3> QED BY <3>1, <3>2
    <2> QED BY <1>1, <1>6, <2>1 DEF OpenedIsStored
  <1>11. StoredIsOpened'
    BY <1>1, <1>2, <1>6, <1>7 DEF InOrder, StoredIsOpened
  <1>12. UnlockOpens'
    <2> SUFFICES ASSUME NEW q \in Panels, op'[q].does \in {"read", "decrypt", "unlocked"}, NEW e \in Envs \ met[q]
                 PROVE  /\ e \in Passed(q)' /\ Stored(e)' => e \in session'
                        /\ op'[q].does = "decrypt" /\ op'[q].left \in {Order, FromProd} => op'[q].read[e] = blob'[e]
      BY <1>1 DEF UnlockOpens
    <2>1. q # p /\ op'[q] = op[q]
      BY <1>2
    <2>2. blob'[e] = blob[e]
      BY <1>8, <2>1 DEF Touches
    <2> QED BY <1>1, <2>1, <2>2 DEF InOrder, UnlockOpens, Passed, Stored
  <1>13. Replacing'
    <2>1. ASSUME ~astray, NEW q \in Panels, op'[q].does = "replace" PROVE FALSE
      <3>1. q # p /\ op[q].does = "replace"
        BY <1>2, <2>1
      <3> QED BY <1>1, <2>1, <3>1 DEF InOrder, LoneForget, Forgets, Busy
    <2> QED BY <1>1, <2>1 DEF Replacing
  <1>14. ActiveIsKnown'
    <2>1. active.session # NoEnv => active.session \in Envs
      BY <1>1 DEF CredTyped
    <2>2. CASE active.session \in op[p].on
      BY <1>1, <1>2, <2>2 DEF ActiveIsKnown
    <2>3. CASE active.session \notin op[p].on
      BY <1>1, <1>2, <1>6, <1>7, <2>1, <2>3 DEF InOrder, ActiveIsKnown
    <2> QED BY <2>2, <2>3
  <1> QED BY <1>4, <1>5, <1>6, <1>9, <1>10, <1>11, <1>12, <1>13, <1>14 DEF CredIInv, InOrder

LEMMA SessionRemovedSound ==
    ASSUME CredIInv, NEW p \in Panels, SessionRemoved(p)
    PROVE  CredIInv'
  <1>1. /\ CredTyped /\ OpsTyped /\ InOrder /\ op[p].does = "evict"
        /\ UNCHANGED <<blob, active, opened, clicked>>
        /\ session' = session \ op[p].on /\ Settles(p)
    BY DEF SessionRemoved, CredIInv
  <1>2. /\ op' \in [Panels -> Ops]
        /\ \/ op'[p].does = "remaining" /\ op'[p].on = op[p].on /\ op[p].on \subseteq Envs
           \/ op'[p].does = "rest" /\ op[p].on \cap Envs = {}
        /\ \A q \in Panels \ {p} : op'[q] = op[q]
    <2>1. CASE op[p].on \subseteq Envs
      BY <1>1, <2>1, GoesTyped, "remaining" \in OpSteps DEF SessionRemoved, OpSteps
    <2>2. CASE ~(op[p].on \subseteq Envs)
      <3>1. op[p].on \cap Envs = {}
        BY <1>1, <2>2 DEF OpsTyped
      <3> QED BY <1>1, <2>2, <3>1, EndsTyped DEF SessionRemoved
    <2> QED BY <2>1, <2>2
  <1>3. /\ Meets' /\ MetTouched' /\ LoneForget'
        /\ \A e \in Envs : Free(e)' => e \notin met[p] /\ (Free(e) \/ e \in op[p].on)
        /\ \A q \in Panels \ {p} : met'[q] = met[q]
        /\ met' \in [Panels -> SUBSET Envs] /\ tangled' \subseteq Envs /\ astray' = astray
    <2>1. Touches(op'[p]) = {}
      BY <1>2 DEF Touches
    <2>2. Forgets(op'[p]) => Forgets(op[p])
      BY <1>1, <1>2 DEF OpsTyped, Forgets
    <2> QED BY <1>1, <1>2, <2>1, <2>2, OpSettles
  <1>4. CredTyped' /\ OpsTyped'
    <2>1. CredTyped'
      BY <1>1, <1>2, <1>3 DEF CredTyped
    <2> QED BY <1>1, <1>2, <2>1 DEF OpsTyped
  <1>5. OpenedIsStored'
    BY <1>1, <1>2, <1>3 DEF InOrder, OpenedIsStored, Stored
  <1>6. HalfDone'
    BY <1>1, <1>2, <1>3 DEF InOrder, HalfDone, Stored
  <1>7. StoredIsOpened'
    <2> SUFFICES ASSUME opened, NEW e \in Envs, Free(e)', Stored(e)
                 PROVE  e \in session' \/ \E q \in Panels : op'[q].does = "cache" /\ e \in op'[q].on
      BY <1>1 DEF StoredIsOpened, Stored
    <2>1. e \notin met[p] /\ (Free(e) \/ e \in op[p].on)
      BY <1>3
    <2>2. e \notin op[p].on
      BY <1>1, <2>1 DEF InOrder, HalfDone
    <2> QED BY <1>1, <1>2, <2>1, <2>2 DEF InOrder, StoredIsOpened
  <1>8. UnlockOpens'
    <2> SUFFICES ASSUME NEW q \in Panels, op'[q].does \in {"read", "decrypt", "unlocked"}, NEW e \in Envs \ met'[q]
                 PROVE  /\ e \in Passed(q)' /\ Stored(e) => e \in session'
                        /\ op'[q].does = "decrypt" /\ op'[q].left \in {Order, FromProd} => op'[q].read[e] = blob[e]
      BY <1>1 DEF UnlockOpens, Stored
    <2>1. q # p /\ op'[q] = op[q] /\ e \notin met[q]
      BY <1>2, <1>3
    <2>2. e \notin op[p].on
      <3>1. e \in Touches(op[q])
        BY <2>1 DEF Touches
      <3>2. e \in op[p].on => e \in Touches(op[p])
        BY <1>1 DEF Touches
      <3> QED BY <1>1, <2>1, <3>1, <3>2, OthersElsewhere
    <2> QED BY <1>1, <2>1, <2>2 DEF InOrder, UnlockOpens, Passed
  <1>9. Replacing'
    BY <1>1, <1>2, <1>3 DEF InOrder, Replacing, Stored
  <1>10. ActiveIsKnown'
    <2>1. active.session # NoEnv => active.session \in Envs
      BY <1>1 DEF CredTyped
    <2>2. CASE active.session \in op[p].on
      BY <1>1, <1>2, <2>1, <2>2 DEF ActiveIsKnown
    <2>3. CASE active.session \notin op[p].on
      BY <1>1, <1>2, <1>3, <2>1, <2>3 DEF InOrder, ActiveIsKnown, Stored
    <2> QED BY <2>2, <2>3
  <1> QED BY <1>3, <1>4, <1>5, <1>6, <1>7, <1>8, <1>9, <1>10 DEF CredIInv, InOrder

LEMMA RemainingReadSound ==
    ASSUME CredIInv, NEW p \in Panels, RemainingRead(p)
    PROVE  CredIInv'
  <1> DEFINE o == [op[p] EXCEPT !.does = "replace", !.next = Successor(p)]
  <1>1. /\ CredTyped /\ OpsTyped /\ InOrder /\ op[p].does = "remaining" /\ op[p] \in Ops
        /\ UNCHANGED <<blob, session, active, opened, met, tangled, astray>>
        /\ clicked' = IF clicked \in op[p].on THEN NoEnv ELSE clicked
    BY DEF RemainingRead, CredIInv, meetingVars, CredTyped
  <1>2. Successor(p) = NoEnv \/ (Successor(p) \in Envs /\ Stored(Successor(p)))
    BY DEF Successor, Fallback
  <1>3. /\ op' \in [Panels -> Ops]
        /\ \/ op'[p].does = "replace" /\ op'[p].next = Successor(p)
           \/ op'[p].does = "check" /\ active.local \notin op[p].on
        /\ \A q \in Panels \ {p} : op'[q] = op[q]
    <2>1. CASE active.local \in op[p].on
      <3>1. Becomes(p, o)
        BY <2>1 DEF RemainingRead
      <3>2. o \in Ops /\ o.does = "replace" /\ o.next = Successor(p)
        BY <1>1, <1>2 DEF Ops, OpSteps
      <3> HIDE DEF o
      <3> QED BY <1>1, <3>1, <3>2, BecomesTyped
    <2>2. CASE active.local \notin op[p].on
      BY <1>1, <2>2, GoesTyped, "check" \in OpSteps DEF RemainingRead, OpSteps
    <2> QED BY <2>1, <2>2
  <1>4. CredTyped'
    BY <1>1, <1>3 DEF CredTyped
  <1>5. OpsTyped'
    BY <1>1, <1>3 DEF OpsTyped
  <1>6. /\ Meets' /\ MetTouched' /\ LoneForget'
        /\ \A e \in Envs : Free(e)' <=> Free(e)
    <2>1. Touches(op'[p]) = Touches(op[p]) /\ Forgets(op[p])
      BY <1>1, <1>3 DEF Touches, Forgets
    <2> QED BY <1>1, <1>3, <2>1, OpGoesOn
  <1>7. OpenedIsStored' /\ StoredIsOpened' /\ HalfDone'
    BY <1>1, <1>3, <1>6 DEF InOrder, OpenedIsStored, StoredIsOpened, HalfDone, Stored
  <1>8. UnlockOpens'
    BY <1>1, <1>3 DEF InOrder, UnlockOpens, Passed, Stored
  <1>9. Replacing'
    BY <1>1, <1>2, <1>3 DEF InOrder, Replacing, Stored
  <1>10. ActiveIsKnown'
    <2> SUFFICES ASSUME active.session # NoEnv, ~astray, Free(active.session), op'[p].does # "replace"
                 PROVE  \/ Stored(active.session) \/ clicked' = active.session
                        \/ \E q \in Panels : \/ op'[q].does \in {"evict", "remaining"} /\ active.session \in op'[q].on
                                             \/ op'[q].does = "replace"
      <3>1. active.session # NoEnv => active.session \in Envs
        BY <1>1 DEF CredTyped
      <3> QED BY <1>1, <1>6, <3>1 DEF ActiveIsKnown, Stored
    <2>1. active.session \notin op[p].on
      BY <1>1, <1>3 DEF CredTyped
    <2>2. clicked = active.session => clicked' = active.session
      BY <1>1, <2>1
    <2> QED BY <1>1, <1>3, <2>1, <2>2 DEF InOrder, ActiveIsKnown
  <1> QED BY <1>4, <1>5, <1>6, <1>7, <1>8, <1>9, <1>10 DEF CredIInv, InOrder

LEMMA ActiveReplacedSound ==
    ASSUME CredIInv, NEW p \in Panels, ActiveReplaced(p)
    PROVE  CredIInv'
  <1>1. /\ CredTyped /\ OpsTyped /\ InOrder /\ op[p].does = "replace" /\ op[p].next \in Envs \cup {NoEnv}
        /\ UNCHANGED <<blob, session, opened, clicked, met, tangled, astray>>
        /\ active' = [local |-> op[p].next, session |-> op[p].next]
    BY DEF ActiveReplaced, CredIInv, historyVars, meetingVars, CredTyped, Ops
  <1>2. /\ op' \in [Panels -> Ops] /\ op'[p].does = "check"
        /\ \A q \in Panels \ {p} : op'[q] = op[q]
    BY <1>1, GoesTyped, "check" \in OpSteps DEF ActiveReplaced, OpSteps
  <1>3. CredTyped'
    BY <1>1, <1>2 DEF CredTyped
  <1>4. OpsTyped'
    BY <1>1, <1>2 DEF OpsTyped
  <1>5. /\ Meets' /\ MetTouched' /\ LoneForget'
        /\ \A e \in Envs : Free(e)' <=> Free(e)
    <2>1. Touches(op'[p]) = Touches(op[p]) /\ ~Forgets(op'[p])
      BY <1>1, <1>2 DEF Touches, Forgets
    <2> QED BY <1>1, <1>2, <2>1, OpGoesOn
  <1>6. OpenedIsStored' /\ StoredIsOpened' /\ HalfDone'
    BY <1>1, <1>2, <1>5 DEF InOrder, OpenedIsStored, StoredIsOpened, HalfDone, Stored
  <1>7. UnlockOpens' /\ Replacing'
    BY <1>1, <1>2 DEF InOrder, UnlockOpens, Replacing, Passed, Stored
  <1>8. ActiveIsKnown'
    <2>1. active'.session = op[p].next
      BY <1>1
    <2> QED BY <1>1, <2>1 DEF InOrder, Replacing, ActiveIsKnown, Stored
  <1> QED BY <1>3, <1>4, <1>5, <1>6, <1>7, <1>8 DEF CredIInv, InOrder

\* A panel that is closed cuts its operation off.
LEMMA PanelClosesSound ==
    ASSUME CredIInv, NEW p \in Panels, PanelCloses(p)
    PROVE  CredIInv'
  <1>1. /\ CredTyped /\ OpsTyped /\ InOrder
        /\ UNCHANGED <<blob, session, active, opened, clicked>>
        /\ met' = [met EXCEPT ![p] = {}]
        /\ tangled' = tangled \cup met[p]
                     \cup (IF op[p].does \in {"cache", "evict"} THEN op[p].on \cap Envs ELSE {})
        /\ astray' = (astray \/ Forgets(op[p]))
    BY DEF PanelCloses, CredIInv
  <1>2. op' \in [Panels -> Ops] /\ op'[p].does = "rest" /\ \A q \in Panels \ {p} : op'[q] = op[q]
    BY <1>1, EndsTyped DEF PanelCloses
  <1>3. /\ met' \in [Panels -> SUBSET Envs] /\ met'[p] = {}
        /\ \A q \in Panels \ {p} : met'[q] = met[q]
    BY <1>1 DEF CredTyped
  <1>4. CredTyped' /\ OpsTyped'
    <2>1. tangled' \subseteq Envs /\ astray' \in BOOLEAN
      BY <1>1 DEF CredTyped, Forgets
    <2>2. CredTyped'
      BY <1>1, <1>2, <1>3, <2>1 DEF CredTyped
    <2> QED BY <1>1, <1>2, <2>2 DEF OpsTyped
  <1>5. Touches(op'[p]) = {} /\ ~Forgets(op'[p])
    BY <1>2 DEF Touches, Forgets
  <1>6. Meets'
    <2> SUFFICES ASSUME NEW a \in Panels, NEW b \in Panels, a # b
                 PROVE  Touches(op'[a]) \cap Touches(op'[b]) \subseteq met'[a]
      BY DEF Meets
    <2>1. CASE a = p \/ b = p
      BY <1>5, <2>1
    <2>2. CASE a # p /\ b # p
      BY <1>1, <1>2, <1>3, <2>2 DEF InOrder, Meets
    <2> QED BY <2>1, <2>2
  <1>7. MetTouched' /\ LoneForget'
    <2>1. \A q \in Panels : met'[q] \subseteq Touches(op'[q])
      BY <1>1, <1>2, <1>3 DEF InOrder, MetTouched
    <2>2. LoneForget'
      BY <1>1, <1>2, <1>5 DEF InOrder, LoneForget, Busy
    <2> QED BY <2>1, <2>2 DEF MetTouched
  <1>8. \A e \in Envs : Free(e)' => /\ Free(e)
                                    /\ op[p].does \in {"cache", "evict"} => e \notin op[p].on
    <2> SUFFICES ASSUME NEW e \in Envs, Free(e)'
                 PROVE  Free(e) /\ (op[p].does \in {"cache", "evict"} => e \notin op[p].on)
      OBVIOUS
    <2>1. e \notin tangled' /\ \A q \in Panels : e \notin met'[q]
      BY DEF Free
    <2>2. e \notin met[p] /\ e \notin tangled /\ (op[p].does \in {"cache", "evict"} => e \notin op[p].on)
      BY <1>1, <2>1
    <2> QED BY <1>3, <2>1, <2>2 DEF Free
  <1>9. OpenedIsStored' /\ StoredIsOpened' /\ HalfDone'
    <2>1. OpenedIsStored'
      BY <1>1, <1>2, <1>8 DEF InOrder, OpenedIsStored, Stored
    <2>2. StoredIsOpened'
      BY <1>1, <1>2, <1>8 DEF InOrder, StoredIsOpened, Stored
    <2>3. HalfDone'
      BY <1>1, <1>2, <1>3 DEF InOrder, HalfDone, Stored
    <2> QED BY <2>1, <2>2, <2>3
  <1>10. UnlockOpens' /\ Replacing'
    <2>1. UnlockOpens'
      BY <1>1, <1>2, <1>3 DEF InOrder, UnlockOpens, Passed, Stored
    <2>2. Replacing'
      BY <1>1, <1>2 DEF InOrder, Replacing, Stored
    <2> QED BY <2>1, <2>2
  <1>11. ActiveIsKnown'
    <2> SUFFICES ASSUME active.session # NoEnv, ~astray', Free(active.session)'
                 PROVE  \/ Stored(active.session) \/ clicked = active.session
                        \/ \E q \in Panels : \/ op'[q].does \in {"evict", "remaining"} /\ active.session \in op'[q].on
                                             \/ op'[q].does = "replace"
      BY <1>1 DEF ActiveIsKnown, Stored, Free
    <2>1. active.session \in Envs /\ Free(active.session) /\ ~astray
      BY <1>1, <1>8 DEF CredTyped
    <2>2. ~(op[p].does \in {"evict", "remaining"} /\ active.session \in op[p].on) /\ op[p].does # "replace"
      BY <1>1, <2>1 DEF Forgets
    <2> QED BY <1>1, <1>2, <2>1, <2>2 DEF InOrder, ActiveIsKnown
  <1> QED BY <1>4, <1>6, <1>7, <1>9, <1>10, <1>11 DEF CredIInv, InOrder

LEMMA PanelSound ==
    ASSUME CredIInv, NEW p \in Panels, PanelOpens(p) \/ PanelCloses(p)
    PROVE  CredIInv'
  <1>1. CASE PanelOpens(p)
    <2>1. op' = op /\ op' \in [Panels -> Ops]
      BY <1>1 DEF PanelOpens, CredTyped, CredIInv
    <2> QED BY <1>1, <2>1, LookSound DEF PanelOpens, historyVars, meetingVars
  <1> QED BY <1>1, PanelClosesSound

\* With no operation under way and nothing opened, everything is in order.
LEMMA AllAtRest ==
    ASSUME op \in [Panels -> Ops], \A q \in Panels : op[q].does = "rest" /\ met[q] = {},
           session = {}, active.session = NoEnv, opened => ~hasStoredCredentials
    PROVE  OpsTyped /\ InOrder
  <1>1. \A q \in Panels : Touches(op[q]) = {} /\ ~Forgets(op[q])
    BY DEF Touches, Forgets
  <1>2. OpsTyped /\ Meets /\ MetTouched /\ LoneForget
    BY <1>1 DEF OpsTyped, Meets, MetTouched, LoneForget
  <1>3. OpenedIsStored /\ HalfDone /\ UnlockOpens /\ Replacing /\ ActiveIsKnown
    BY DEF OpenedIsStored, HalfDone, UnlockOpens, Replacing, ActiveIsKnown
  <1>4. StoredIsOpened
    <2>1. \A e \in Envs : e \in Secrets \ {"gateway"}
      BY EnvsAreSecrets DEF Envs
    <2> QED BY <2>1 DEF StoredIsOpened, hasStoredCredentials
  <1> QED BY <1>2, <1>3, <1>4 DEF InOrder

LEMMA RestartSound ==
    ASSUME CredIInv, BrowserRestarts
    PROVE  CredIInv'
  <1>1. /\ CredTyped /\ session' = {} /\ opened' = ~hasStoredCredentials /\ UNCHANGED <<blob, clicked>>
        /\ met' = [p \in Panels |-> {}] /\ tangled' = {} /\ astray' = FALSE
        /\ active' = [active EXCEPT !.session = NoEnv]
    BY DEF BrowserRestarts, CredIInv
  <1>2. op' \in [Panels -> Ops] /\ \A q \in Panels : op'[q].does = "rest" /\ met'[q] = {}
    BY <1>1, RestTyped DEF BrowserRestarts
  <1>3. active' \in [local : Envs \cup {NoEnv}, session : Envs \cup {NoEnv}] /\ active'.session = NoEnv
    BY <1>1 DEF CredTyped
  <1>4. CredTyped'
    <2>1. opened' \in BOOLEAN /\ astray' \in BOOLEAN /\ met' \in [Panels -> SUBSET Envs] /\ tangled' \subseteq Envs
      BY <1>1 DEF hasStoredCredentials
    <2> QED BY <1>1, <1>2, <1>3, <2>1 DEF CredTyped
  <1>5. OpsTyped' /\ Meets' /\ MetTouched' /\ LoneForget'
    <2>1. \A q \in Panels : Touches(op'[q]) = {} /\ ~Forgets(op'[q])
      BY <1>2 DEF Touches, Forgets
    <2> QED BY <1>2, <2>1 DEF OpsTyped, Meets, MetTouched, LoneForget
  <1>6. OpenedIsStored' /\ HalfDone' /\ UnlockOpens' /\ Replacing' /\ ActiveIsKnown'
    BY <1>1, <1>2, <1>3 DEF OpenedIsStored, HalfDone, UnlockOpens, Replacing, ActiveIsKnown
  <1>7. StoredIsOpened'
    <2>1. \A e \in Envs : e \in Secrets \ {"gateway"}
      BY EnvsAreSecrets DEF Envs
    <2> QED BY <1>1, <2>1 DEF StoredIsOpened, hasStoredCredentials, Stored
  <1> QED BY <1>4, <1>5, <1>6, <1>7 DEF CredIInv, InOrder

LEMMA CredIInvInit == CredInit => CredIInv
  <1> SUFFICES ASSUME CredInit PROVE CredIInv
    OBVIOUS
  <1>1. op \in [Panels -> Ops] /\ \A q \in Panels : op[q].does = "rest" /\ met[q] = {}
    BY RestTyped DEF CredInit
  <1>2. active \in [local : Envs \cup {NoEnv}, session : Envs \cup {NoEnv}] /\ active.session = NoEnv
    BY DEF CredInit
  <1>3. CredTyped
    <2>1. opened \in BOOLEAN /\ astray \in BOOLEAN /\ met \in [Panels -> SUBSET Envs] /\ tangled \subseteq Envs
      BY DEF CredInit, hasStoredCredentials
    <2> QED BY <1>1, <1>2, <2>1 DEF CredInit, CredTyped
  <1>4. OpsTyped /\ InOrder
    <2>1. session = {} /\ (opened => ~hasStoredCredentials)
      BY DEF CredInit
    <2> QED BY <1>1, <1>2, <2>1, AllAtRest
  <1> QED BY <1>3, <1>4 DEF CredIInv

LEMMA CredIInvNext == CredIInv /\ [CredNext]_credVars => CredIInv'
  <1> SUFFICES ASSUME CredIInv, [CredNext]_credVars PROVE CredIInv'
    OBVIOUS
  <1>1. CASE UNCHANGED credVars
    <2>1. \A q \in Panels : op'[q] = op[q]
      BY <1>1 DEF credVars
    <2>2. op' \in [Panels -> Ops]
      BY <1>1 DEF credVars, CredIInv, CredTyped
    <2> QED BY <1>1, <2>1, <2>2, LookSound DEF credVars
  <1>2. ASSUME NEW p \in Panels, OpStep(p) PROVE CredIInv'
    BY <1>2, TokensLoadedSound, BlobStoredSound, SessionStoredSound, setActiveEnvSound, StateCheckedSound,
       BlobReadSound, DecryptedSound, UnlockedSound, BlobRemovedSound, SessionRemovedSound, RemainingReadSound,
       ActiveReplacedSound
       DEF OpStep
  <1> QED BY <1>1, <1>2, FormStartsSound, PanelSound, RestartSound DEF CredNext

\* Of the stored secrets (storage.ts with the panels that use it): for any number of
\* panels and of PINs, and any interleaving of what they do, the opened credentials of an
\* environment that nobody works on, and that the last operation had for itself, are those
\* stored; and the active environment is a stored one or the user's choice, unless a
\* removal met another operation.
THEOREM SessionKeepsToVault == CredSpec => []SessionMatchesVault
  <1>1. ASSUME CredIInv PROVE OpenedIsWhole
    <2> SUFFICES ASSUME opened, NEW e \in Envs, Clear(e)
                 PROVE  Stored(e) <=> e \in session
      BY DEF OpenedIsWhole
    <2>1. CredTyped /\ InOrder
      BY <1>1 DEF CredIInv
    <2>2. Free(e) /\ \A q \in Panels : ~(op[q].does \in {"evict", "cache"} /\ e \in op[q].on)
      BY <2>1 DEF Clear, Free, InOrder, MetTouched, Touches
    <2> QED BY <2>1, <2>2 DEF InOrder, OpenedIsStored, StoredIsOpened
  <1>2. ASSUME CredIInv PROVE ActiveIsStored
    <2> SUFFICES ASSUME active.session # NoEnv, Clear(active.session), ~astray,
                        \A p \in Panels : ~Forgets(op[p])
                 PROVE  Stored(active.session) \/ clicked = active.session
      BY DEF ActiveIsStored
    <2>1. CredTyped /\ InOrder
      BY <1>2 DEF CredIInv
    <2>2. active.session \in Envs
      BY <2>1 DEF CredTyped
    <2>3. Free(active.session)
      BY <2>1 DEF Clear, Free, InOrder, MetTouched
    <2>4. \A p \in Panels : /\ op[p].does \notin {"remaining", "replace"}
                            /\ op[p].does = "evict" => active.session \notin op[p].on
      BY <2>2 DEF Forgets
    <2> QED BY <2>1, <2>3, <2>4 DEF InOrder, ActiveIsKnown
  <1>3. CredIInv => SessionMatchesVault
    BY <1>1, <1>2 DEF SessionMatchesVault
  <1> QED BY <1>3, CredIInvInit, CredIInvNext, PTL DEF CredSpec

-----------------------------------------------------------------------------
(* The gateway section of the Connections page                               *)

Tasks ==
    [does : {"rest", "hydrate", "show", "settings", "encrypted", "session", "forget", "lock",
             "ask", "asked", "telemetry", "status", "write"},
     left : SUBSET {"local", "session", "invalid"}, cfg : Configs, token : Bearers \cup {NoBearer},
     status : {"none", "has", "ok", "degraded", "failed"}, read : StoredSettings]

GwFormTyped ==
    /\ gwStored \in StoredSettings
    /\ bearer \in [stored : Bearers \cup {NoBearer}, session : Bearers \cup {NoBearer}, invalid : BOOLEAN]
    /\ thread \in [Threads -> Tasks]

\* What each thread may be doing.
Roles ==
    \A t \in Threads :
        /\ thread[t].does \in {"ask", "telemetry", "status", "write"} => t[2] = "test"
        /\ thread[t].does \in {"asked", "lock"} => t[2] \in {"test", "call"}
        /\ thread[t].does = "forget" => thread[t].left \in {{"local", "session"}, {"local"}, {"session"}}
        /\ thread[t].does \in {"lock", "status", "write"} => thread[t].status \in {"ok", "degraded", "failed"}

Works(task) == task.does \in {"encrypted", "session", "forget"}
\* The tokens of the two storages differ until the second half of a work is done.
Halfway(task) == task.does = "session" \/ (task.does = "forget" /\ "local" \notin task.left)

\* One change of the token at a time: its second half makes them agree again.
TokensAgree ==
    crossing # "works" =>
        /\ \A t, u \in Threads : Works(thread[t]) /\ Works(thread[u]) => t = u
        /\ \A t \in Threads : thread[t].does = "session" => bearer.stored = thread[t].token
        /\ \A t \in Threads : thread[t].does = "forget" /\ "session" \notin thread[t].left => bearer.session = NoBearer
        /\ (\A t \in Threads : ~Halfway(thread[t])) => bearer.session \in {NoBearer, bearer.stored}

Tests(t) == t[2] = "test" /\ thread[t].does \in {"telemetry", "asked", "lock", "status", "write"}

\* One thread at a time: a test works with the stored settings throughout.
FindingsAgree ==
    crossing = "no" =>
        /\ \A t, u \in Threads :
              thread[t].does \notin {"rest", "hydrate", "show"} /\ thread[u].does # "rest" => t = u
        /\ \A t \in Threads : Tests(t) => thread[t].cfg = gwStored.cfg
        /\ \A t \in Threads : thread[t].does = "write" => thread[t].read = gwStored
        /\ gwStored.status # "none" => gwStored.about = gwStored.cfg

GwFormIInv == GwFormTyped /\ Roles /\ TokensAgree /\ FindingsAgree

\* What a task in its thread may be, and what it must be to work with the stored settings.
RoleOf(t, task) ==
    /\ task.does \in {"ask", "telemetry", "status", "write"} => t[2] = "test"
    /\ task.does \in {"asked", "lock"} => t[2] \in {"test", "call"}
    /\ task.does = "forget" => task.left \in {{"local", "session"}, {"local"}, {"session"}}
    /\ task.does \in {"lock", "status", "write"} => task.status \in {"ok", "degraded", "failed"}

IsOfSettings(t, task, settings) ==
    /\ t[2] = "test" /\ task.does \in {"telemetry", "asked", "lock", "status", "write"} => task.cfg = settings.cfg
    /\ task.does = "write" => task.read = settings

Idle == {"rest", "hydrate", "show"}

-----------------------------------------------------------------------------
(* A thread takes a step                                                     *)

LEMMA NoTaskTyped ==
    /\ NoTask \in Tasks /\ NoTask.does = "rest" /\ NoTask.token = NoBearer /\ NoTask.left = {}
    /\ Untested \in StoredSettings /\ Untested.status = "none"
  BY DEF NoTask, Tasks, Untested, StoredSettings, Default, Configs

LEMMA TaskBecomes ==
    ASSUME GwFormTyped, NEW t \in Threads, NEW k \in Tasks, thread' = [thread EXCEPT ![t] = k]
    PROVE  /\ thread' \in [Threads -> Tasks] /\ thread'[t] = k
           /\ \A u \in Threads \ {t} : thread'[u] = thread[u]
  BY DEF GwFormTyped

LEMMA RolesKept ==
    ASSUME GwFormTyped, Roles, NEW t \in Threads, NEW k \in Tasks, thread' = [thread EXCEPT ![t] = k], RoleOf(t, k)
    PROVE  Roles'
  BY TaskBecomes DEF Roles, RoleOf

\* A thread that works with the settings goes on; nothing but the settings changes.
LEMMA FindingsKept ==
    ASSUME GwFormTyped, FindingsAgree, NEW t \in Threads, NEW k \in Tasks, thread' = [thread EXCEPT ![t] = k],
           crossing' = crossing, thread[t].does # "rest",
           k.does \in Idle \/ thread[t].does \notin Idle,
           crossing = "no" => IsOfSettings(t, k, gwStored'),
           gwStored' = gwStored \/ thread[t].does \notin Idle,
           crossing = "no" /\ gwStored'.status # "none" => gwStored'.about = gwStored'.cfg
    PROVE  FindingsAgree'
  <1> SUFFICES ASSUME crossing = "no" PROVE FindingsAgree'
    BY DEF FindingsAgree
  <1>1. /\ \A u, v \in Threads : thread[u].does \notin Idle /\ thread[v].does # "rest" => u = v
        /\ \A u \in Threads : IsOfSettings(u, thread[u], gwStored)
    BY DEF FindingsAgree, IsOfSettings, Idle, Tests
  <1>2. \A u, v \in Threads : thread'[u].does \notin Idle /\ thread'[v].does # "rest" => u = v
    <2> SUFFICES ASSUME NEW u \in Threads, NEW v \in Threads, thread'[u].does \notin Idle, thread'[v].does # "rest"
                 PROVE  u = v
      OBVIOUS
    <2>1. thread[u].does \notin Idle
      BY TaskBecomes
    <2>2. thread[v].does # "rest"
      BY TaskBecomes
    <2> QED BY <1>1, <2>1, <2>2
  <1>3. \A u \in Threads : IsOfSettings(u, thread'[u], gwStored')
    <2>1. CASE gwStored' = gwStored
      BY <1>1, <2>1, TaskBecomes
    <2>2. CASE thread[t].does \notin Idle
      <3>1. \A u \in Threads \ {t} : thread'[u].does = "rest"
        BY <1>1, <2>2, TaskBecomes
      <3>2. \A u \in Threads \ {t} : IsOfSettings(u, thread'[u], gwStored')
        BY <3>1 DEF IsOfSettings
      <3> QED BY <3>2, TaskBecomes
    <2> QED BY <2>1, <2>2
  <1> QED BY <1>2, <1>3 DEF FindingsAgree, IsOfSettings, Idle, Tests

\* A thread that has nothing to do with tokens leaves them.
LEMMA BearersKept ==
    ASSUME GwFormTyped, TokensAgree, NEW t \in Threads, NEW k \in Tasks, thread' = [thread EXCEPT ![t] = k],
           crossing' = crossing, ~Works(thread[t]), ~Works(k),
           bearer'.stored = bearer.stored, bearer'.session \in {bearer.session, NoBearer}
    PROVE  TokensAgree'
  <1> SUFFICES ASSUME crossing # "works" PROVE TokensAgree'
    BY DEF TokensAgree
  <1>1. \A u \in Threads : Works(thread'[u]) => u # t /\ thread'[u] = thread[u]
    BY TaskBecomes
  <1>2. \A u, v \in Threads : Works(thread'[u]) /\ Works(thread'[v]) => u = v
    BY <1>1 DEF TokensAgree
  <1>3. \A u \in Threads : thread'[u].does = "session" => bearer'.stored = thread'[u].token
    BY <1>1 DEF TokensAgree, Works
  <1>4. \A u \in Threads : thread'[u].does = "forget" /\ "session" \notin thread'[u].left => bearer'.session = NoBearer
    BY <1>1 DEF TokensAgree, Works
  <1>5. (\A u \in Threads : ~Halfway(thread'[u])) => bearer'.session \in {NoBearer, bearer'.stored}
    <2> SUFFICES ASSUME \A u \in Threads : ~Halfway(thread'[u])
                 PROVE  bearer'.session \in {NoBearer, bearer'.stored}
      OBVIOUS
    <2>1. \A u \in Threads : ~Halfway(thread[u])
      BY TaskBecomes DEF Halfway, Works
    <2> QED BY <2>1 DEF TokensAgree
  <1> QED BY <1>2, <1>3, <1>4, <1>5 DEF TokensAgree

\* A step that leaves settings and tokens alone.
LEMMA QuietStep ==
    ASSUME GwFormIInv, NEW t \in Threads, NEW k \in Tasks, thread' = [thread EXCEPT ![t] = k],
           UNCHANGED <<gwStored, bearer, crossing>>, thread[t].does # "rest", ~Works(thread[t]), ~Works(k),
           k.does \in Idle \/ thread[t].does \notin Idle, RoleOf(t, k),
           crossing = "no" => IsOfSettings(t, k, gwStored)
    PROVE  GwFormIInv'
  <1>1. GwFormTyped /\ Roles /\ TokensAgree /\ FindingsAgree
    BY DEF GwFormIInv
  <1>2. GwFormTyped'
    BY <1>1, TaskBecomes DEF GwFormTyped
  <1>3. Roles'
    BY <1>1, RolesKept
  <1>4. TokensAgree'
    BY <1>1, BearersKept
  <1>5. crossing = "no" /\ gwStored.status # "none" => gwStored.about = gwStored.cfg
    BY <1>1 DEF FindingsAgree
  <1>6. FindingsAgree'
    BY <1>1, <1>5, FindingsKept
  <1> QED BY <1>2, <1>3, <1>4, <1>6 DEF GwFormIInv

\* A thread begins.
LEMMA BeginStep ==
    ASSUME GwFormIInv, NEW t \in Threads, NEW k \in Tasks, HookBegins(t, k), RoleOf(t, k),
           Works(k) => t[2] = "work", ~Halfway(k), k.does = "forget" => k.left = {"local", "session"},
           k.does \notin {"telemetry", "lock", "status", "write"}, k.does = "asked" => t[2] # "test"
    PROVE  GwFormIInv'
  <1>1. GwFormTyped /\ Roles /\ TokensAgree /\ FindingsAgree
    BY DEF GwFormIInv
  <1>2. /\ thread' = [thread EXCEPT ![t] = k] /\ UNCHANGED <<gwStored, bearer>> /\ thread[t].does = "rest"
        /\ crossing' = IF Resting THEN crossing
                       ELSE IF t[2] = "work" /\ WorkUnderWay THEN "works"
                       ELSE IF crossing = "no" THEN "tests" ELSE crossing
    BY DEF HookBegins
  <1>3. GwFormTyped'
    BY <1>1, <1>2, TaskBecomes DEF GwFormTyped
  <1>4. Roles'
    BY <1>1, <1>2, RolesKept
  <1>5. TokensAgree'
    <2> SUFFICES ASSUME crossing' # "works" PROVE TokensAgree'
      BY DEF TokensAgree
    <2>1. crossing # "works" /\ (Works(k) => \A u \in Threads : ~Works(thread[u]))
      BY <1>2 DEF Resting, WorkUnderWay, Works
    <2>2. \A u, v \in Threads : Works(thread'[u]) /\ Works(thread'[v]) => u = v
      BY <1>1, <1>2, <2>1, TaskBecomes DEF TokensAgree
    <2>3. \A u \in Threads : thread'[u].does = "session" => bearer'.stored = thread'[u].token
      BY <1>1, <1>2, <2>1, TaskBecomes DEF TokensAgree, Halfway
    <2>4. \A u \in Threads : thread'[u].does = "forget" /\ "session" \notin thread'[u].left => bearer'.session = NoBearer
      BY <1>1, <1>2, <2>1, TaskBecomes DEF TokensAgree
    <2>5. (\A u \in Threads : ~Halfway(thread'[u])) => bearer'.session \in {NoBearer, bearer'.stored}
      <3>1. (\A u \in Threads : ~Halfway(thread'[u])) => \A u \in Threads : ~Halfway(thread[u])
        BY <1>1, <1>2, TaskBecomes DEF Halfway
      <3> QED BY <1>1, <1>2, <2>1, <3>1 DEF TokensAgree
    <2> QED BY <2>2, <2>3, <2>4, <2>5 DEF TokensAgree
  <1>6. FindingsAgree'
    <2> SUFFICES ASSUME crossing' = "no" PROVE FindingsAgree'
      BY DEF FindingsAgree
    <2>1. crossing = "no" /\ \A u \in Threads : thread[u].does = "rest"
      BY <1>2 DEF Resting
    <2>2. \A u \in Threads \ {t} : thread'[u].does = "rest"
      BY <1>1, <1>2, <2>1, TaskBecomes
    <2>3. thread'[t] = k
      BY <1>1, <1>2, TaskBecomes
    <2>4. gwStored'.status # "none" => gwStored'.about = gwStored'.cfg
      BY <1>1, <1>2, <2>1 DEF FindingsAgree
    <2> QED BY <2>2, <2>3, <2>4 DEF FindingsAgree, Tests
  <1> QED BY <1>3, <1>4, <1>5, <1>6 DEF GwFormIInv

\* A thread that works with the settings writes them.
LEMMA SettingsStep ==
    ASSUME GwFormIInv, NEW t \in Threads, NEW k \in Tasks, thread' = [thread EXCEPT ![t] = k],
           UNCHANGED <<bearer, crossing>>, thread[t].does \in {"settings", "write"}, k.does \in {"rest", "hydrate"},
           gwStored' \in StoredSettings,
           crossing = "no" /\ gwStored'.status # "none" => gwStored'.about = gwStored'.cfg
    PROVE  GwFormIInv'
  <1>1. GwFormTyped /\ Roles /\ TokensAgree /\ FindingsAgree
    BY DEF GwFormIInv
  <1>2. GwFormTyped'
    BY <1>1, TaskBecomes DEF GwFormTyped
  <1>3. Roles'
    BY <1>1, RolesKept DEF RoleOf
  <1>4. TokensAgree'
    BY <1>1, BearersKept DEF Works
  <1>5. FindingsAgree'
    BY <1>1, FindingsKept DEF IsOfSettings, Idle
  <1> QED BY <1>2, <1>3, <1>4, <1>5 DEF GwFormIInv

\* A thread that works with the tokens writes one of them.
LEMMA WorkStep ==
    ASSUME GwFormIInv, NEW t \in Threads, NEW k \in Tasks, thread' = [thread EXCEPT ![t] = k],
           UNCHANGED <<gwStored, crossing>>, Works(thread[t]), k.does \in {"session", "hydrate"},
           bearer' \in [stored : Bearers \cup {NoBearer}, session : Bearers \cup {NoBearer}, invalid : BOOLEAN],
           TokensAgree'
    PROVE  GwFormIInv'
  <1>1. GwFormTyped /\ Roles /\ FindingsAgree
    BY DEF GwFormIInv
  <1>2. GwFormTyped'
    BY <1>1, TaskBecomes DEF GwFormTyped
  <1>3. Roles'
    BY <1>1, RolesKept DEF RoleOf
  <1>4. crossing = "no" /\ gwStored.status # "none" => gwStored.about = gwStored.cfg
    BY <1>1 DEF FindingsAgree
  <1>5. FindingsAgree'
    BY <1>1, <1>4, FindingsKept DEF IsOfSettings, Idle, Works
  <1> QED BY <1>2, <1>3, <1>5 DEF GwFormIInv

-----------------------------------------------------------------------------
(* The steps                                                                 *)

LEMMA ReadSound ==
    ASSUME GwFormIInv, NEW t \in Threads, HydrateRead(t) \/ StatusRead(t)
    PROVE  GwFormIInv'
  <1>1. /\ thread[t] \in Tasks /\ thread \in [Threads -> Tasks] /\ gwStored \in StoredSettings
        /\ bearer.session \in Bearers \cup {NoBearer}
    BY DEF GwFormIInv, GwFormTyped
  <1>2. CASE HydrateRead(t)
    <2> DEFINE k == [thread[t] EXCEPT !.does = "show", !.read = gwStored, !.token = bearer.session,
                                      !.left = IF bearer.invalid THEN {"invalid"} ELSE {},
                                      !.status = IF bearer.stored = NoBearer THEN "none" ELSE "has"]
    <2>1. thread' = [thread EXCEPT ![t] = k] /\ UNCHANGED <<gwStored, bearer, crossing>> /\ thread[t].does = "hydrate"
      BY <1>1, <1>2 DEF HydrateRead
    <2>2. k \in Tasks /\ k.does = "show"
      BY <1>1 DEF Tasks
    <2> HIDE DEF k
    <2> QED BY <2>1, <2>2, QuietStep DEF Works, Idle, RoleOf, IsOfSettings
  <1>3. CASE StatusRead(t)
    <2> DEFINE k == [thread[t] EXCEPT !.does = "write", !.read = gwStored]
    <2>1. thread' = [thread EXCEPT ![t] = k] /\ UNCHANGED <<gwStored, bearer, crossing>> /\ thread[t].does = "status"
      BY <1>1, <1>3 DEF StatusRead
    <2>2. k \in Tasks /\ k.does = "write" /\ k.read = gwStored /\ k.cfg = thread[t].cfg
          /\ k.status = thread[t].status
      BY <1>1 DEF Tasks
    <2> HIDE DEF k
    <2>3. RoleOf(t, k)
      BY <2>1, <2>2 DEF GwFormIInv, Roles, RoleOf
    <2>4. crossing = "no" => IsOfSettings(t, k, gwStored)
      BY <2>1, <2>2 DEF GwFormIInv, FindingsAgree, IsOfSettings, Tests
    <2> QED BY <2>1, <2>2, <2>3, <2>4, QuietStep DEF Works, Idle
  <1> QED BY <1>2, <1>3

LEMMA ShownSound ==
    ASSUME GwFormIInv, NEW t \in Threads, HydrateShown(t)
    PROVE  GwFormIInv'
  <1>1. thread' = [thread EXCEPT ![t] = NoTask] /\ UNCHANGED <<gwStored, bearer, crossing>> /\ thread[t].does = "show"
    BY DEF HydrateShown
  <1> QED BY <1>1, NoTaskTyped, QuietStep DEF Works, Idle, RoleOf, IsOfSettings

\* A test, or the worker, goes on with the settings it has; or asks with those that are stored.
LEMMA TestStep ==
    ASSUME GwFormIInv, NEW t \in Threads, NEW k \in Tasks, thread' = [thread EXCEPT ![t] = k],
           UNCHANGED <<gwStored, bearer, crossing>>,
           \/ thread[t].does = "ask" /\ k.cfg = gwStored.cfg
           \/ thread[t].does \in {"asked", "telemetry"} /\ k.cfg = thread[t].cfg,
           k.does \in {"asked", "telemetry", "status", "lock"}, RoleOf(t, k)
    PROVE  GwFormIInv'
  <1>1. crossing = "no" => IsOfSettings(t, k, gwStored)
    BY DEF GwFormIInv, FindingsAgree, IsOfSettings, Tests
  <1> QED BY <1>1, QuietStep DEF Works, Idle

LEMMA PolicyAskedSound ==
    ASSUME GwFormIInv, NEW t \in Threads, PolicyAsked(t)
    PROVE  GwFormIInv'
  <1>1. /\ thread[t] \in Tasks /\ thread \in [Threads -> Tasks] /\ gwStored.cfg \in Configs
        /\ bearer.session \in Bearers \cup {NoBearer}
    BY DEF GwFormIInv, GwFormTyped, StoredSettings
  <1>2. thread[t].does = "ask" /\ UNCHANGED <<gwStored, bearer, crossing>>
    BY DEF PolicyAsked
  <1> DEFINE k == IF ~gwStored.cfg.enabled THEN [thread[t] EXCEPT !.does = "telemetry", !.cfg = gwStored.cfg]
                  ELSE IF bearer.session = NoBearer
                       THEN [thread[t] EXCEPT !.does = "status", !.status = "failed", !.cfg = gwStored.cfg]
                       ELSE [thread[t] EXCEPT !.does = "asked", !.cfg = gwStored.cfg, !.token = bearer.session]
  <1>3. thread' = [thread EXCEPT ![t] = k]
    BY <1>1 DEF PolicyAsked
  <1>4. /\ k \in Tasks /\ k.does \in {"telemetry", "status", "asked"} /\ k.cfg = gwStored.cfg
        /\ k.does = "status" => k.status = "failed"
    BY <1>1 DEF Tasks
  <1> HIDE DEF k
  <1>5. RoleOf(t, k)
    BY <1>2, <1>4 DEF GwFormIInv, Roles, RoleOf
  <1> QED BY <1>2, <1>3, <1>4, <1>5, TestStep

LEMMA FormAnsweredSound ==
    ASSUME GwFormIInv, NEW t \in Threads, HooksAnswered(t)
    PROVE  GwFormIInv'
  <1>1. thread[t] \in Tasks /\ thread \in [Threads -> Tasks] /\ t[2] \in {"test", "call"}
    BY DEF GwFormIInv, GwFormTyped, Roles, HooksAnswered
  <1>2. thread[t].does = "asked" /\ UNCHANGED <<gwStored, bearer, crossing>>
    BY DEF HooksAnswered
  <1>3. CASE t[2] = "test" /\ Continues(t, "telemetry")
    <2> DEFINE k == [thread[t] EXCEPT !.does = "telemetry"]
    <2>1. thread' = [thread EXCEPT ![t] = k] /\ k \in Tasks /\ k.does = "telemetry" /\ k.cfg = thread[t].cfg
      BY <1>1, <1>3 DEF Tasks, Continues
    <2> HIDE DEF k
    <2> QED BY <1>2, <1>3, <2>1, TestStep DEF RoleOf
  <1>4. CASE t[2] = "test" /\ ProbeEnds(t, "failed")
    <2> DEFINE k == [thread[t] EXCEPT !.does = "status", !.status = "failed"]
    <2>1. thread' = [thread EXCEPT ![t] = k] /\ k \in Tasks /\ k.does = "status" /\ k.cfg = thread[t].cfg
          /\ k.status = "failed"
      BY <1>1, <1>4 DEF Tasks, ProbeEnds
    <2> HIDE DEF k
    <2> QED BY <1>2, <1>4, <2>1, TestStep DEF RoleOf
  <1>5. CASE thread' = [thread EXCEPT ![t] = NoTask]
    BY <1>2, <1>5, NoTaskTyped, QuietStep DEF Works, Idle, RoleOf, IsOfSettings
  <1>6. CASE thread' = [thread EXCEPT ![t].does = "lock", ![t].left = {"local", "session"}, ![t].status = "failed"]
    <2> DEFINE k == [thread[t] EXCEPT !.does = "lock", !.left = {"local", "session"}, !.status = "failed"]
    <2>1. thread' = [thread EXCEPT ![t] = k]
      BY <1>1, <1>6
    <2>2. k \in Tasks /\ k.does = "lock" /\ k.cfg = thread[t].cfg /\ k.status = "failed"
      BY <1>1 DEF Tasks
    <2> HIDE DEF k
    <2> QED BY <1>1, <1>2, <2>1, <2>2, TestStep DEF RoleOf
  <1> QED BY <1>3, <1>4, <1>5, <1>6 DEF HooksAnswered

LEMMA TelemetrySound ==
    ASSUME GwFormIInv, NEW t \in Threads, TelemetrySent(t)
    PROVE  GwFormIInv'
  <1>1. /\ thread[t] \in Tasks /\ thread \in [Threads -> Tasks] /\ t[2] = "test"
        /\ thread[t].does = "telemetry" /\ UNCHANGED <<gwStored, bearer, crossing>>
    BY DEF GwFormIInv, GwFormTyped, Roles, TelemetrySent
  <1>2. PICK status \in {"ok", "degraded"} : ProbeEnds(t, status)
    BY DEF TelemetrySent
  <1> DEFINE k == [thread[t] EXCEPT !.does = "status", !.status = status]
  <1>3. thread' = [thread EXCEPT ![t] = k] /\ k \in Tasks /\ k.does = "status" /\ k.cfg = thread[t].cfg
        /\ k.status = status
    BY <1>1, <1>2 DEF Tasks, ProbeEnds
  <1> HIDE DEF k
  <1> QED BY <1>1, <1>3, TestStep DEF RoleOf

\* What a test found is written with the settings it worked with; a save drops it.
LEMMA StatusSound ==
    ASSUME GwFormIInv, NEW t \in Threads, StatusWritten(t)
    PROVE  GwFormIInv'
  <1> DEFINE k == [thread[t] EXCEPT !.does = "hydrate"]
             s == [thread[t].read EXCEPT !.status = thread[t].status, !.about = thread[t].cfg]
  <1>1. /\ thread[t] \in Tasks /\ thread \in [Threads -> Tasks] /\ thread[t].read \in StoredSettings
        /\ thread[t].cfg \in Configs /\ t[2] = "test" /\ thread[t].does = "write"
        /\ thread[t].status \in {"ok", "degraded", "failed"}
    BY DEF GwFormIInv, GwFormTyped, Roles, StatusWritten, Tasks
  <1>2. thread' = [thread EXCEPT ![t] = k] /\ k \in Tasks /\ k.does = "hydrate"
    BY <1>1 DEF Tasks, StatusWritten, Continues
  <1>3. gwStored' = s /\ UNCHANGED <<bearer, crossing>>
    BY DEF StatusWritten
  <1>4. s.cfg = thread[t].read.cfg /\ s.about = thread[t].cfg /\ s \in StoredSettings
    BY <1>1 DEF StoredSettings
  <1> HIDE DEF k, s
  <1>5. crossing = "no" => s.about = s.cfg
    BY <1>1, <1>4 DEF GwFormIInv, FindingsAgree, Tests
  <1> QED BY <1>1, <1>2, <1>3, <1>4, <1>5, SettingsStep

LEMMA SettingsSound ==
    ASSUME GwFormIInv, NEW t \in Threads, SettingsWritten(t)
    PROVE  GwFormIInv'
  <1> DEFINE s == [Untested EXCEPT !.cfg = thread[t].cfg]
  <1>1. thread' = [thread EXCEPT ![t] = NoTask] /\ UNCHANGED <<bearer, crossing>> /\ thread[t].does = "settings"
    BY DEF SettingsWritten
  <1>2. CASE UNCHANGED gwStored
    BY <1>1, <1>2, NoTaskTyped, QuietStep DEF Works, Idle, RoleOf, IsOfSettings
  <1>3. CASE gwStored' = s
    <2>1. thread[t].cfg \in Configs
      BY DEF GwFormIInv, GwFormTyped, Tasks
    <2>2. s \in StoredSettings /\ s.status = "none"
      BY <2>1, NoTaskTyped DEF StoredSettings
    <2> HIDE DEF s
    <2> QED BY <1>1, <1>3, <2>2, NoTaskTyped, SettingsStep
  <1> QED BY <1>2, <1>3 DEF SettingsWritten

-----------------------------------------------------------------------------
(* The two halves of a change of the token                                   *)

LEMMA TokenWrittenSound ==
    ASSUME GwFormIInv, NEW t \in Threads, TokenWritten(t)
    PROVE  GwFormIInv'
  <1> DEFINE k == [thread[t] EXCEPT !.does = "session"]
  <1>1. /\ thread[t] \in Tasks /\ thread \in [Threads -> Tasks] /\ thread[t].token \in Bearers \cup {NoBearer}
        /\ bearer \in [stored : Bearers \cup {NoBearer}, session : Bearers \cup {NoBearer}, invalid : BOOLEAN]
    BY DEF GwFormIInv, GwFormTyped, Tasks
  <1>2. /\ thread' = [thread EXCEPT ![t] = k] /\ k \in Tasks /\ k.does = "session"
        /\ k.token = thread[t].token
    BY <1>1 DEF Tasks, TokenWritten, Continues
  <1>3. thread[t].does = "encrypted" /\ UNCHANGED <<gwStored, crossing>>
    BY DEF TokenWritten
  <1>4. /\ bearer' \in [stored : Bearers \cup {NoBearer}, session : Bearers \cup {NoBearer}, invalid : BOOLEAN]
        /\ bearer'.stored = thread[t].token
    BY <1>1 DEF TokenWritten
  <1> HIDE DEF k
  <1>5. GwFormTyped /\ TokensAgree
    BY DEF GwFormIInv
  <1>6. TokensAgree'
    <2> SUFFICES ASSUME crossing # "works" PROVE TokensAgree'
      BY <1>3 DEF TokensAgree
    <2>1. \A u \in Threads \ {t} : ~Works(thread'[u]) /\ ~Halfway(thread'[u])
      BY <1>2, <1>3, <1>5, TaskBecomes DEF TokensAgree, Works, Halfway
    <2>2. thread'[t] = k
      BY <1>2, <1>5, TaskBecomes
    <2> QED BY <1>2, <1>4, <2>1, <2>2 DEF TokensAgree, Works, Halfway
  <1>7. Works(thread[t])
    BY <1>3 DEF Works
  <1> QED BY <1>2, <1>3, <1>4, <1>6, <1>7, WorkStep

LEMMA TokenOpenedSound ==
    ASSUME GwFormIInv, NEW t \in Threads, TokenOpened(t)
    PROVE  GwFormIInv'
  <1> DEFINE k == [thread[t] EXCEPT !.does = "hydrate"]
  <1>1. /\ thread[t] \in Tasks /\ thread \in [Threads -> Tasks] /\ thread[t].token \in Bearers \cup {NoBearer}
        /\ bearer \in [stored : Bearers \cup {NoBearer}, session : Bearers \cup {NoBearer}, invalid : BOOLEAN]
    BY DEF GwFormIInv, GwFormTyped, Tasks
  <1>2. thread' = [thread EXCEPT ![t] = k] /\ k \in Tasks /\ k.does = "hydrate"
    BY <1>1 DEF Tasks, TokenOpened, Continues
  <1>3. thread[t].does = "session" /\ UNCHANGED <<gwStored, crossing>>
    BY DEF TokenOpened
  <1>4. /\ bearer' \in [stored : Bearers \cup {NoBearer}, session : Bearers \cup {NoBearer}, invalid : BOOLEAN]
        /\ bearer'.stored = bearer.stored /\ bearer'.session = thread[t].token
    BY <1>1 DEF TokenOpened
  <1> HIDE DEF k
  <1>5. GwFormTyped /\ TokensAgree
    BY DEF GwFormIInv
  <1>6. TokensAgree'
    <2> SUFFICES ASSUME crossing # "works" PROVE TokensAgree'
      BY <1>3 DEF TokensAgree
    <2>1. \A u \in Threads : ~Works(thread'[u]) /\ ~Halfway(thread'[u])
      BY <1>2, <1>3, <1>5, TaskBecomes DEF TokensAgree, Works, Halfway
    <2>2. bearer'.session = bearer'.stored
      BY <1>3, <1>4, <1>5 DEF TokensAgree
    <2> QED BY <2>1, <2>2 DEF TokensAgree, Works, Halfway
  <1>7. Works(thread[t])
    BY <1>3 DEF Works
  <1> QED BY <1>2, <1>3, <1>4, <1>6, <1>7, WorkStep

\* One of the two requests of a removal, or of the lock of a rejected token.
LEMMA RequestSound ==
    ASSUME GwFormIInv, NEW t \in Threads, NEW r \in {"local", "session"}, RequestDone(t, r)
    PROVE  GwFormIInv'
  <1> DEFINE does == IF thread[t].left # {r} THEN thread[t].does
                     ELSE IF thread[t].does = "forget" THEN "hydrate"
                     ELSE IF t[1] = "worker" THEN "rest" ELSE "status"
             k == [thread[t] EXCEPT !.left = thread[t].left \ {r}, !.does = does]
  <1>1. /\ thread[t] \in Tasks /\ thread \in [Threads -> Tasks]
        /\ bearer \in [stored : Bearers \cup {NoBearer}, session : Bearers \cup {NoBearer}, invalid : BOOLEAN]
    BY DEF GwFormIInv, GwFormTyped
  <1>2. thread[t].does \in {"forget", "lock"} /\ r \in thread[t].left /\ UNCHANGED <<gwStored, crossing>>
    BY DEF RequestDone
  <1>3. thread' = [thread EXCEPT ![t] = k]
    BY <1>1 DEF RequestDone
  <1>4. does \in {thread[t].does, "hydrate", "rest", "status"}
    OBVIOUS
  <1>5. k \in Tasks /\ k.does = does /\ k.left = thread[t].left \ {r} /\ k.status = thread[t].status /\ k.cfg = thread[t].cfg
    <2>1. does \in {"forget", "lock", "hydrate", "rest", "status"}
      BY <1>2, <1>4
    <2> HIDE DEF does
    <2> QED BY <1>1, <2>1 DEF Tasks
  <1>6. /\ bearer' \in [stored : Bearers \cup {NoBearer}, session : Bearers \cup {NoBearer}, invalid : BOOLEAN]
        /\ r = "session" => bearer'.session = NoBearer /\ bearer'.stored = bearer.stored
        /\ r = "local" => bearer'.session = bearer.session
        /\ r = "local" /\ thread[t].does = "forget" => bearer'.stored = NoBearer
        /\ r = "local" /\ thread[t].does = "lock" => bearer'.stored = bearer.stored
    BY <1>1, <1>2 DEF RequestDone
  <1>7. GwFormTyped /\ TokensAgree /\ Roles
    BY DEF GwFormIInv
  <1>8. t[1] = "worker" \/ t[2] # "call"
    BY DEF Threads
  <1>9. CASE thread[t].does = "lock"
    <2>1. /\ does \in {"lock", "rest", "status"} /\ (does = "status" => t[1] # "worker")
          /\ bearer'.stored = bearer.stored /\ bearer'.session \in {bearer.session, NoBearer}
      BY <1>2, <1>6, <1>9
    <2> HIDE DEF does, k
    <2>2. RoleOf(t, k)
      BY <1>5, <1>7, <1>8, <1>9, <2>1 DEF Roles, RoleOf
    <2>3. TokensAgree'
      BY <1>2, <1>3, <1>5, <1>7, <1>9, <2>1, BearersKept DEF Works
    <2>4. /\ crossing = "no" => IsOfSettings(t, k, gwStored)
          /\ crossing = "no" /\ gwStored.status # "none" => gwStored.about = gwStored.cfg
      BY <1>5, <1>9, <2>1 DEF GwFormIInv, FindingsAgree, IsOfSettings, Tests
    <2>5. FindingsAgree'
      BY <1>2, <1>3, <1>5, <1>7, <1>9, <2>4, FindingsKept DEF GwFormIInv, Idle
    <2>6. GwFormTyped' /\ Roles'
      BY <1>2, <1>3, <1>5, <1>6, <1>7, <2>2, TaskBecomes, RolesKept DEF GwFormTyped
    <2> QED BY <2>3, <2>5, <2>6 DEF GwFormIInv
  <1>10. CASE thread[t].does = "forget"
    <2>1. /\ does \in {"forget", "hydrate"}
          /\ does = "forget" <=> thread[t].left # {r}
          /\ thread[t].left \in {{"local", "session"}, {"local"}, {"session"}}
      BY <1>7, <1>10 DEF Roles
    <2> HIDE DEF does, k
    <2>2. RoleOf(t, k)
      BY <1>2, <1>5, <2>1 DEF RoleOf
    <2>3. TokensAgree'
      <3> SUFFICES ASSUME crossing # "works" PROVE TokensAgree'
        BY <1>2 DEF TokensAgree
      <3>1. \A u \in Threads \ {t} : ~Works(thread'[u]) /\ ~Halfway(thread'[u])
        BY <1>3, <1>5, <1>7, <1>10, TaskBecomes DEF TokensAgree, Works, Halfway
      <3>2. thread'[t] = k
        BY <1>3, <1>5, <1>7, TaskBecomes
      <3>3. \A u, v \in Threads : Works(thread'[u]) /\ Works(thread'[v]) => u = v
        BY <3>1
      <3>4. \A u \in Threads : thread'[u].does # "session"
        BY <1>5, <2>1, <3>1, <3>2 DEF Works
      <3>5. k.does = "forget" /\ "session" \notin k.left => bearer'.session = NoBearer
        BY <1>5, <1>6, <1>7, <1>10 DEF TokensAgree
      <3>6. ~Halfway(k) => bearer'.session \in {NoBearer, bearer'.stored}
        <4>1. CASE r = "session"
          BY <1>6, <4>1
        <4>2. CASE r = "local"
          <5>1. CASE thread[t].left = {"local"}
            <6>1. bearer.session = NoBearer
              BY <1>7, <1>10, <5>1 DEF TokensAgree
            <6> QED BY <1>6, <4>2, <6>1
          <5>2. CASE thread[t].left = {"local", "session"}
            BY <1>5, <2>1, <4>2, <5>2 DEF Halfway
          <5> QED BY <1>2, <2>1, <4>2, <5>1, <5>2
        <4> QED BY <4>1, <4>2
      <3>7. \A u \in Threads : thread'[u].does = "forget" => u = t
        BY <3>1 DEF Works
      <3> QED BY <3>2, <3>3, <3>4, <3>5, <3>6, <3>7 DEF TokensAgree
    <2>4. crossing = "no" /\ gwStored.status # "none" => gwStored.about = gwStored.cfg
      BY DEF GwFormIInv, FindingsAgree
    <2>5. FindingsAgree'
      BY <1>2, <1>3, <1>5, <1>7, <1>10, <2>1, <2>4, FindingsKept DEF GwFormIInv, Idle, IsOfSettings
    <2>6. GwFormTyped' /\ Roles'
      BY <1>2, <1>3, <1>5, <1>6, <1>7, <2>2, TaskBecomes, RolesKept DEF GwFormTyped
    <2> QED BY <2>3, <2>5, <2>6 DEF GwFormIInv
  <1> QED BY <1>2, <1>9, <1>10

-----------------------------------------------------------------------------
(* What the users and the worker begin                                       *)

LEMMA PressedSound ==
    ASSUME GwFormIInv, NEW g \in Sections,
           \/ \E cfg \in Configs : SettingsPressed(g, cfg)
           \/ \E b \in Bearers : TokenPressed(g, b)
           \/ ForgetPressed(g)
    PROVE  GwFormIInv'
  <1>1. <<g, "work">> \in Threads /\ <<g, "work">>[2] = "work"
    BY DEF Threads
  <1>2. ASSUME NEW cfg \in Configs, SettingsPressed(g, cfg) PROVE GwFormIInv'
    <2> DEFINE k == [NoTask EXCEPT !.does = "settings", !.cfg = cfg]
    <2>1. HookBegins(<<g, "work">>, k)
      BY <1>2 DEF SettingsPressed
    <2>2. k \in Tasks /\ k.does = "settings"
      BY NoTaskTyped DEF Tasks
    <2> HIDE DEF k
    <2> QED BY <1>1, <2>1, <2>2, BeginStep DEF Works, Halfway, RoleOf
  <1>3. ASSUME NEW b \in Bearers, TokenPressed(g, b) PROVE GwFormIInv'
    <2> DEFINE k == [NoTask EXCEPT !.does = "encrypted", !.token = b]
    <2>1. HookBegins(<<g, "work">>, k)
      BY <1>3 DEF TokenPressed
    <2>2. k \in Tasks /\ k.does = "encrypted"
      BY NoTaskTyped DEF Tasks
    <2> HIDE DEF k
    <2> QED BY <1>1, <2>1, <2>2, BeginStep DEF Works, Halfway, RoleOf
  <1>4. CASE ForgetPressed(g)
    <2> DEFINE k == [NoTask EXCEPT !.does = "forget", !.left = {"local", "session"}]
    <2>1. HookBegins(<<g, "work">>, k) /\ k.does = "forget" /\ k.left = {"local", "session"}
      BY <1>4, NoTaskTyped DEF ForgetPressed, Tasks
    <2>2. k \in Tasks
      BY NoTaskTyped DEF Tasks
    <2> HIDE DEF k
    <2> QED BY <1>1, <2>1, <2>2, BeginStep DEF Works, Halfway, RoleOf
  <1> QED BY <1>2, <1>3, <1>4

LEMMA GatewayTestPressedSound ==
    ASSUME GwFormIInv, NEW g \in Sections, GatewayTestPressed(g)
    PROVE  GwFormIInv'
  <1> DEFINE k == [NoTask EXCEPT !.does = "ask"]
  <1>1. <<g, "test">> \in Threads /\ <<g, "test">>[2] = "test"
    BY DEF Threads
  <1>2. HookBegins(<<g, "test">>, k) /\ k \in Tasks /\ k.does = "ask"
    BY NoTaskTyped DEF GatewayTestPressed, Tasks
  <1> HIDE DEF k
  <1> QED BY <1>1, <1>2, BeginStep DEF Works, Halfway, RoleOf

LEMMA WorkerSound ==
    ASSUME GwFormIInv, WorkerAsks
    PROVE  GwFormIInv'
  <1> DEFINE k == [NoTask EXCEPT !.does = "asked", !.token = bearer.session]
             t == <<"worker", "call">>
  <1>1. t \in Threads /\ t[2] = "call"
    BY DEF Threads
  <1>2. bearer.session \in Bearers \cup {NoBearer}
    BY DEF GwFormIInv, GwFormTyped
  <1>3. HookBegins(t, k) /\ k \in Tasks /\ k.does = "asked"
    BY <1>2, NoTaskTyped DEF WorkerAsks, Tasks
  <1> HIDE DEF k, t
  <1> QED BY <1>1, <1>3, BeginStep DEF Works, Halfway, RoleOf

-----------------------------------------------------------------------------
(* The theorem                                                               *)

LEMMA GwFormInitSound == GatewayFormInit => GwFormIInv
  <1> SUFFICES ASSUME GatewayFormInit PROVE GwFormIInv
    OBVIOUS
  <1> DEFINE hydrates == [NoTask EXCEPT !.does = "hydrate"]
  <1>1. hydrates \in Tasks /\ hydrates.does = "hydrate"
    BY NoTaskTyped DEF Tasks
  <1>2. [NoTask EXCEPT !.does = "rest"] = NoTask
    BY DEF NoTask
  <1>3. thread = [t \in Threads |-> IF t[2] = "mount" THEN hydrates ELSE NoTask]
    <2>1. \A t \in Threads : thread[t] = IF t[2] = "mount" THEN hydrates ELSE NoTask
      BY <1>2 DEF GatewayFormInit
    <2> QED BY <2>1 DEF GatewayFormInit
  <1> HIDE DEF hydrates
  <1>4. thread \in [Threads -> Tasks] /\ \A t \in Threads : thread[t].does \in {"hydrate", "rest"}
    BY <1>1, <1>3, NoTaskTyped
  <1>5. gwStored \in StoredSettings /\ gwStored.status = "none"
    <2>1. PICK cfg \in {Default, [Default EXCEPT !.enabled = TRUE]} : gwStored = [Untested EXCEPT !.cfg = cfg]
      BY DEF GatewayFormInit
    <2>3. Default \in Configs /\ [Default EXCEPT !.enabled = TRUE] \in Configs
      BY DEF Default, Configs
    <2>2. cfg \in Configs
      BY <2>3
    <2> QED BY <2>1, <2>2, NoTaskTyped DEF StoredSettings
  <1>6. /\ bearer \in [stored : Bearers \cup {NoBearer}, session : Bearers \cup {NoBearer}, invalid : BOOLEAN]
        /\ bearer.session \in {NoBearer, bearer.stored}
    BY DEF GatewayFormInit
  <1>7. GwFormTyped /\ Roles
    BY <1>4, <1>5, <1>6 DEF GwFormTyped, Roles
  <1>8. TokensAgree
    BY <1>4, <1>6 DEF TokensAgree, Works
  <1>9. FindingsAgree
    BY <1>4, <1>5 DEF FindingsAgree, Tests
  <1> QED BY <1>7, <1>8, <1>9 DEF GwFormIInv

LEMMA GwFormNextSound == GwFormIInv /\ [GatewayFormNext]_gwFormVars => GwFormIInv'
  <1> SUFFICES ASSUME GwFormIInv, [GatewayFormNext]_gwFormVars PROVE GwFormIInv'
    OBVIOUS
  <1>1. CASE UNCHANGED gwFormVars
    BY <1>1 DEF gwFormVars, GwFormIInv, GwFormTyped, Roles, TokensAgree, FindingsAgree, Tests
  <1>2. CASE GatewayFormNext
    BY <1>2, ReadSound, ShownSound, SettingsSound, TokenWrittenSound, TokenOpenedSound, PolicyAskedSound,
       FormAnsweredSound, TelemetrySound, StatusSound, RequestSound, PressedSound, GatewayTestPressedSound, WorkerSound
       DEF GatewayFormNext
  <1> QED BY <1>1, <1>2

\* Between two changes of the token the session has the stored one or none, however
\* tests and rejected tokens come between; and what a test found is about the stored
\* settings, if nothing overlapped (saveGatewayToken, saveGatewayProbeStatus).
THEOREM GatewayFormStaysSound == GatewayFormSpec => []GatewayFormIsSound
  <1>1. GwFormIInv => GatewayFormIsSound
    <2> SUFFICES ASSUME GwFormIInv PROVE GatewayFormIsSound
      OBVIOUS
    <2>1. crossing # "works" /\ ~WorkUnderWay => bearer.session \in {NoBearer, bearer.stored}
      BY DEF GwFormIInv, TokensAgree, WorkUnderWay, Halfway
    <2>2. crossing = "no" /\ gwStored.status # "none" => gwStored.about = gwStored.cfg
      BY DEF GwFormIInv, FindingsAgree
    <2> QED BY <2>1, <2>2 DEF GatewayFormIsSound
  <1> QED BY <1>1, GwFormInitSound, GwFormNextSound, PTL DEF GatewayFormSpec

-----------------------------------------------------------------------------
(* The Connections page                                                      *)

\* What is under way is of the page that is shown, and of an environment of its own.
OpIsHere ==
    /\ formOp.does = "rest" <=> formOp = NoOp
    /\ ~early /\ formOp # NoOp => shownPage = "connections"
    /\ shownPage = "home" => formOp = NoOp /\ vaultOp = NoOp

\* The marks are those of the stored credentials, but for the one being stored and what
\* changed elsewhere; ...
FlagsAreSaved ==
    shownPage = "connections" /\ ~early =>
        \A e \in FormEnvs \ moved :
            Saved(e) <=> e \in flags \/ (formOp.does = "activating" /\ formOp.on = e)

\* ... what is saved was typed for its environment; ...
TypedForOwn ==
    /\ shownPage # "home" /\ form.typed /\ ~form.hydrating => form.of = selected
    /\ "typed" \notin misplaced => \A e \in FormEnvs : saved[e] \in {e, "none"}
    /\ ~early /\ formOp.does \in {"saving", "activating"} => formOp.of = formOp.on

\* ... the fields are those of the lit environment unless misplaced, ...
FieldsOfSelected ==
    shownPage # "home" /\ ~early /\ ~form.hydrating /\ "form" \notin misplaced =>
        /\ form.of = selected /\ form.stored \in {"none", selected} /\ form.tested \in {"none", selected}
        /\ selected \in moved \/ (form.stored = selected <=> Saved(selected))

\* ... and so are the rows and the list, ...
TokensOfSelected ==
    shownPage # "home" =>
        /\ ~shownVault.hydrating /\ "rows" \notin misplaced => shownVault.rows = selected
        /\ "list" \notin misplaced => shownVault.listed \in {"none", selected}

\* ... which is the active one, if it has credentials; and the Home page checks the
\* active one.
ActiveIsLit ==
    /\ shownPage # "home" => home = NoCheck
    /\ "active" \notin misplaced /\ "window" \notin misplaced =>
        /\ home.on \in {"none", chosen}
        /\ shownPage = "connections" /\ ~early =>
              \/ chosen = selected \/ ~Saved(selected)
              \/ formOp.does = "activating" /\ formOp.on = selected

FormIInv ==
    /\ FormTypeOK /\ OpIsHere /\ FlagsAreSaved /\ TypedForOwn
    /\ FieldsOfSelected /\ TokensOfSelected /\ ActiveIsLit

USE DEF FormEnvs, OtherThan, Empty, NoVault, NoOp, NoCheck, Saved, UserActs, UnderWay, Selects, FormBegins,
        Puts, Forgotten, ActiveNow, Facets, Actives, beyondVars

LEMMA ConnectionsOpenedSound ==
    ASSUME FormIInv, ConnectionsOpened
    PROVE  FormIInv'
  <1>1. FormTypeOK'
    <2>1. saved' \in [FormEnvs -> FormEnvs \cup {"none"}] /\ chosen' \in FormEnvs \cup {"none"}
      BY DEF FormIInv, FormTypeOK, ConnectionsOpened
    <2>2. shownPage' \in {"home", "opening", "connections"} /\ selected' \in FormEnvs /\ flags' \in SUBSET FormEnvs
      BY DEF FormIInv, FormTypeOK, ConnectionsOpened
    <2>3. form' \in [of : FormEnvs, stored : FormEnvs \cup {"none"}, tested : FormEnvs \cup {"none"}, typed : BOOLEAN, hydrating : BOOLEAN]
      BY DEF FormIInv, FormTypeOK, ConnectionsOpened
    <2>4. formOp' \in [does : {"rest", "saving", "activating", "deleting", "testing"}, on : FormEnvs, of : FormEnvs]
      BY DEF FormIInv, FormTypeOK, ConnectionsOpened
    <2>5. shownVault' \in [rows : FormEnvs \cup {"none"}, listed : FormEnvs \cup {"none"}, hydrating : BOOLEAN]
      BY DEF FormIInv, FormTypeOK, ConnectionsOpened
    <2>6. vaultOp' \in [does : {"rest", "listing", "storing"}, on : FormEnvs, of : FormEnvs]
      BY DEF FormIInv, FormTypeOK, ConnectionsOpened
    <2>7. home' \in [step : {"away", "opening", "idle", "checking", "probing", "ok", "fail"}, on : FormEnvs \cup {"none"}]
      BY DEF FormIInv, FormTypeOK, ConnectionsOpened
    <2>8. steps' \in 0 .. MaxSteps
      BY FormAssumption DEF FormIInv, FormTypeOK, ConnectionsOpened, FormAssumption
    <2>9. early' \in BOOLEAN
      BY DEF FormIInv, FormTypeOK, ConnectionsOpened
    <2>10. moved' \in SUBSET FormEnvs /\ misplaced' \in SUBSET Facets
      BY DEF FormIInv, FormTypeOK, ConnectionsOpened
    <2> QED BY <2>1, <2>2, <2>3, <2>4, <2>5, <2>6, <2>7, <2>8, <2>9, <2>10 DEF FormTypeOK
  <1>2. OpIsHere'
    BY DEF FormIInv, FormTypeOK, OpIsHere, ConnectionsOpened
  <1>3. FlagsAreSaved'
    BY DEF FormIInv, FormTypeOK, OpIsHere, FlagsAreSaved, ConnectionsOpened
  <1>4. TypedForOwn'
    BY DEF FormIInv, FormTypeOK, OpIsHere, TypedForOwn, ConnectionsOpened
  <1>5. FieldsOfSelected'
    BY DEF FormIInv, FormTypeOK, OpIsHere, TypedForOwn, FieldsOfSelected, ConnectionsOpened
  <1>6. TokensOfSelected'
    BY DEF FormIInv, FormTypeOK, OpIsHere, TokensOfSelected, ConnectionsOpened
  <1>7. ActiveIsLit'
    BY DEF FormIInv, FormTypeOK, OpIsHere, ActiveIsLit, ConnectionsOpened
  <1> QED BY <1>1, <1>2, <1>3, <1>4, <1>5, <1>6, <1>7 DEF FormIInv

LEMMA ConnectionsLoadedSound ==
    ASSUME FormIInv, ConnectionsLoaded
    PROVE  FormIInv'
  <1>1. FormTypeOK'
    <2>1. saved' \in [FormEnvs -> FormEnvs \cup {"none"}] /\ chosen' \in FormEnvs \cup {"none"}
      BY DEF FormIInv, FormTypeOK, ConnectionsLoaded
    <2>2. shownPage' \in {"home", "opening", "connections"} /\ selected' \in FormEnvs /\ flags' \in SUBSET FormEnvs
      BY DEF FormIInv, FormTypeOK, ConnectionsLoaded
    <2>3. form' \in [of : FormEnvs, stored : FormEnvs \cup {"none"}, tested : FormEnvs \cup {"none"}, typed : BOOLEAN, hydrating : BOOLEAN]
      <3>1. form' \in {form, [form EXCEPT !.hydrating = TRUE]}
        BY DEF ConnectionsLoaded
      <3>2. form \in [of : FormEnvs, stored : FormEnvs \cup {"none"}, tested : FormEnvs \cup {"none"}, typed : BOOLEAN, hydrating : BOOLEAN]
        BY DEF FormIInv, FormTypeOK
      <3>3. [form EXCEPT !.hydrating = TRUE] \in [of : FormEnvs, stored : FormEnvs \cup {"none"}, tested : FormEnvs \cup {"none"}, typed : BOOLEAN, hydrating : BOOLEAN]
        BY <3>2
      <3> QED BY <3>1, <3>2, <3>3
    <2>4. formOp' \in [does : {"rest", "saving", "activating", "deleting", "testing"}, on : FormEnvs, of : FormEnvs]
      BY DEF FormIInv, FormTypeOK, ConnectionsLoaded
    <2>5. shownVault' \in [rows : FormEnvs \cup {"none"}, listed : FormEnvs \cup {"none"}, hydrating : BOOLEAN]
      <3>1. shownVault' \in {shownVault, NoVault}
        BY DEF ConnectionsLoaded
      <3>2. shownVault \in [rows : FormEnvs \cup {"none"}, listed : FormEnvs \cup {"none"}, hydrating : BOOLEAN]
        BY DEF FormIInv, FormTypeOK
      <3>3. NoVault \in [rows : FormEnvs \cup {"none"}, listed : FormEnvs \cup {"none"}, hydrating : BOOLEAN]
        OBVIOUS
      <3> QED BY <3>1, <3>2, <3>3
    <2>6. vaultOp' \in [does : {"rest", "listing", "storing"}, on : FormEnvs, of : FormEnvs]
      BY DEF FormIInv, FormTypeOK, ConnectionsLoaded
    <2>7. home' \in [step : {"away", "opening", "idle", "checking", "probing", "ok", "fail"}, on : FormEnvs \cup {"none"}]
      BY DEF FormIInv, FormTypeOK, ConnectionsLoaded
    <2>8. steps' \in 0 .. MaxSteps
      BY FormAssumption DEF FormIInv, FormTypeOK, ConnectionsLoaded, FormAssumption
    <2>9. early' \in BOOLEAN
      BY DEF FormIInv, FormTypeOK, ConnectionsLoaded
    <2>10. moved' \in SUBSET FormEnvs /\ misplaced' \in SUBSET Facets
      BY DEF FormIInv, FormTypeOK, ConnectionsLoaded
    <2> QED BY <2>1, <2>2, <2>3, <2>4, <2>5, <2>6, <2>7, <2>8, <2>9, <2>10 DEF FormTypeOK
  <1>2. OpIsHere'
    BY DEF FormIInv, FormTypeOK, OpIsHere, ConnectionsLoaded
  <1>3. FlagsAreSaved'
    BY DEF FormIInv, FormTypeOK, OpIsHere, FlagsAreSaved, ConnectionsLoaded
  <1>4. TypedForOwn'
    BY DEF FormIInv, FormTypeOK, OpIsHere, TypedForOwn, ConnectionsLoaded
  <1>5. FieldsOfSelected'
    BY DEF FormIInv, FormTypeOK, OpIsHere, TypedForOwn, FieldsOfSelected, ConnectionsLoaded
  <1>6. TokensOfSelected'
    BY DEF FormIInv, FormTypeOK, OpIsHere, TokensOfSelected, ConnectionsLoaded
  <1>7. ActiveIsLit'
    BY DEF FormIInv, FormTypeOK, OpIsHere, ActiveIsLit, ConnectionsLoaded
  <1> QED BY <1>1, <1>2, <1>3, <1>4, <1>5, <1>6, <1>7 DEF FormIInv

LEMMA FormHydratedSound ==
    ASSUME FormIInv, FormHydrated
    PROVE  FormIInv'
  <1>1. FormTypeOK'
    BY FormAssumption DEF FormIInv, FormTypeOK, FormHydrated, FormAssumption
  <1>2. OpIsHere'
    BY DEF FormIInv, FormTypeOK, OpIsHere, FormHydrated
  <1>3. FlagsAreSaved'
    BY DEF FormIInv, FormTypeOK, OpIsHere, FlagsAreSaved, FormHydrated
  <1>4. TypedForOwn'
    BY DEF FormIInv, FormTypeOK, OpIsHere, TypedForOwn, FormHydrated
  <1>5. FieldsOfSelected'
    BY DEF FormIInv, FormTypeOK, OpIsHere, TypedForOwn, FieldsOfSelected, FormHydrated
  <1>6. TokensOfSelected'
    BY DEF FormIInv, FormTypeOK, OpIsHere, TokensOfSelected, FormHydrated
  <1>7. ActiveIsLit'
    BY DEF FormIInv, FormTypeOK, OpIsHere, ActiveIsLit, FormHydrated
  <1> QED BY <1>1, <1>2, <1>3, <1>4, <1>5, <1>6, <1>7 DEF FormIInv

LEMMA VaultHydratedSound ==
    ASSUME FormIInv, VaultHydrated
    PROVE  FormIInv'
  <1>1. FormTypeOK'
    <2>1. saved' \in [FormEnvs -> FormEnvs \cup {"none"}] /\ chosen' \in FormEnvs \cup {"none"}
      BY DEF FormIInv, FormTypeOK, VaultHydrated
    <2>2. shownPage' \in {"home", "opening", "connections"} /\ selected' \in FormEnvs /\ flags' \in SUBSET FormEnvs
      BY DEF FormIInv, FormTypeOK, VaultHydrated
    <2>3. form' \in [of : FormEnvs, stored : FormEnvs \cup {"none"}, tested : FormEnvs \cup {"none"}, typed : BOOLEAN, hydrating : BOOLEAN]
      BY DEF FormIInv, FormTypeOK, VaultHydrated
    <2>4. formOp' \in [does : {"rest", "saving", "activating", "deleting", "testing"}, on : FormEnvs, of : FormEnvs]
      BY DEF FormIInv, FormTypeOK, VaultHydrated
    <2>5. shownVault' \in [rows : FormEnvs \cup {"none"}, listed : FormEnvs \cup {"none"}, hydrating : BOOLEAN]
      BY DEF FormIInv, FormTypeOK, VaultHydrated
    <2>6. vaultOp' \in [does : {"rest", "listing", "storing"}, on : FormEnvs, of : FormEnvs]
      BY DEF FormIInv, FormTypeOK, VaultHydrated
    <2>7. home' \in [step : {"away", "opening", "idle", "checking", "probing", "ok", "fail"}, on : FormEnvs \cup {"none"}]
      BY DEF FormIInv, FormTypeOK, VaultHydrated
    <2>8. steps' \in 0 .. MaxSteps
      BY FormAssumption DEF FormIInv, FormTypeOK, VaultHydrated, FormAssumption
    <2>9. early' \in BOOLEAN
      BY DEF FormIInv, FormTypeOK, VaultHydrated
    <2>10. moved' \in SUBSET FormEnvs /\ misplaced' \in SUBSET Facets
      BY DEF FormIInv, FormTypeOK, VaultHydrated
    <2> QED BY <2>1, <2>2, <2>3, <2>4, <2>5, <2>6, <2>7, <2>8, <2>9, <2>10 DEF FormTypeOK
  <1>2. OpIsHere'
    BY DEF FormIInv, FormTypeOK, OpIsHere, VaultHydrated
  <1>3. FlagsAreSaved'
    BY DEF FormIInv, FormTypeOK, OpIsHere, FlagsAreSaved, VaultHydrated
  <1>4. TypedForOwn'
    BY DEF FormIInv, FormTypeOK, OpIsHere, TypedForOwn, VaultHydrated
  <1>5. FieldsOfSelected'
    BY DEF FormIInv, FormTypeOK, OpIsHere, TypedForOwn, FieldsOfSelected, VaultHydrated
  <1>6. TokensOfSelected'
    BY DEF FormIInv, FormTypeOK, OpIsHere, TokensOfSelected, VaultHydrated
  <1>7. ActiveIsLit'
    BY DEF FormIInv, FormTypeOK, OpIsHere, ActiveIsLit, VaultHydrated
  <1> QED BY <1>1, <1>2, <1>3, <1>4, <1>5, <1>6, <1>7 DEF FormIInv

LEMMA ButtonClickedSound ==
    ASSUME FormIInv, NEW e \in FormEnvs, ButtonClicked(e)
    PROVE  FormIInv'
  <1>1. FormTypeOK'
    <2>1. saved' \in [FormEnvs -> FormEnvs \cup {"none"}] /\ chosen' \in FormEnvs \cup {"none"}
      BY DEF FormIInv, FormTypeOK, ButtonClicked
    <2>2. shownPage' \in {"home", "opening", "connections"} /\ selected' \in FormEnvs /\ flags' \in SUBSET FormEnvs
      BY DEF FormIInv, FormTypeOK, ButtonClicked
    <2>3. form' \in [of : FormEnvs, stored : FormEnvs \cup {"none"}, tested : FormEnvs \cup {"none"}, typed : BOOLEAN, hydrating : BOOLEAN]
      <3>1. form' \in {form, [form EXCEPT !.hydrating = TRUE]}
        BY DEF ButtonClicked
      <3>2. form \in [of : FormEnvs, stored : FormEnvs \cup {"none"}, tested : FormEnvs \cup {"none"}, typed : BOOLEAN, hydrating : BOOLEAN]
        BY DEF FormIInv, FormTypeOK
      <3>3. [form EXCEPT !.hydrating = TRUE] \in [of : FormEnvs, stored : FormEnvs \cup {"none"}, tested : FormEnvs \cup {"none"}, typed : BOOLEAN, hydrating : BOOLEAN]
        BY <3>2
      <3> QED BY <3>1, <3>2, <3>3
    <2>4. formOp' \in [does : {"rest", "saving", "activating", "deleting", "testing"}, on : FormEnvs, of : FormEnvs]
      BY DEF FormIInv, FormTypeOK, ButtonClicked
    <2>5. shownVault' \in [rows : FormEnvs \cup {"none"}, listed : FormEnvs \cup {"none"}, hydrating : BOOLEAN]
      <3>1. shownVault' \in {shownVault, NoVault}
        BY DEF ButtonClicked
      <3>2. shownVault \in [rows : FormEnvs \cup {"none"}, listed : FormEnvs \cup {"none"}, hydrating : BOOLEAN]
        BY DEF FormIInv, FormTypeOK
      <3>3. NoVault \in [rows : FormEnvs \cup {"none"}, listed : FormEnvs \cup {"none"}, hydrating : BOOLEAN]
        OBVIOUS
      <3> QED BY <3>1, <3>2, <3>3
    <2>6. vaultOp' \in [does : {"rest", "listing", "storing"}, on : FormEnvs, of : FormEnvs]
      BY DEF FormIInv, FormTypeOK, ButtonClicked
    <2>7. home' \in [step : {"away", "opening", "idle", "checking", "probing", "ok", "fail"}, on : FormEnvs \cup {"none"}]
      BY DEF FormIInv, FormTypeOK, ButtonClicked
    <2>8. steps' \in 0 .. MaxSteps
      BY FormAssumption DEF FormIInv, FormTypeOK, ButtonClicked, FormAssumption
    <2>9. early' \in BOOLEAN
      BY DEF FormIInv, FormTypeOK, ButtonClicked
    <2>10. moved' \in SUBSET FormEnvs /\ misplaced' \in SUBSET Facets
      BY DEF FormIInv, FormTypeOK, ButtonClicked
    <2> QED BY <2>1, <2>2, <2>3, <2>4, <2>5, <2>6, <2>7, <2>8, <2>9, <2>10 DEF FormTypeOK
  <1>2. OpIsHere'
    BY DEF FormIInv, FormTypeOK, OpIsHere, ButtonClicked
  <1>3. FlagsAreSaved'
    BY DEF FormIInv, FormTypeOK, OpIsHere, FlagsAreSaved, ButtonClicked
  <1>4. TypedForOwn'
    BY DEF FormIInv, FormTypeOK, OpIsHere, TypedForOwn, ButtonClicked
  <1>5. FieldsOfSelected'
    BY DEF FormIInv, FormTypeOK, OpIsHere, TypedForOwn, FieldsOfSelected, ButtonClicked
  <1>6. TokensOfSelected'
    BY DEF FormIInv, FormTypeOK, OpIsHere, TokensOfSelected, ButtonClicked
  <1>7. ActiveIsLit'
    BY DEF FormIInv, FormTypeOK, OpIsHere, ActiveIsLit, ButtonClicked
  <1> QED BY <1>1, <1>2, <1>3, <1>4, <1>5, <1>6, <1>7 DEF FormIInv

LEMMA ChosenElsewhereSound ==
    ASSUME FormIInv, NEW e \in FormEnvs, ChosenElsewhere(e)
    PROVE  FormIInv'
  <1>1. FormTypeOK'
    BY FormAssumption DEF FormIInv, FormTypeOK, ChosenElsewhere, FormAssumption
  <1>2. OpIsHere'
    BY DEF FormIInv, FormTypeOK, OpIsHere, ChosenElsewhere
  <1>3. FlagsAreSaved'
    BY DEF FormIInv, FormTypeOK, OpIsHere, FlagsAreSaved, ChosenElsewhere
  <1>4. TypedForOwn'
    BY DEF FormIInv, FormTypeOK, OpIsHere, TypedForOwn, ChosenElsewhere
  <1>5. FieldsOfSelected'
    BY DEF FormIInv, FormTypeOK, OpIsHere, TypedForOwn, FieldsOfSelected, ChosenElsewhere
  <1>6. TokensOfSelected'
    BY DEF FormIInv, FormTypeOK, OpIsHere, TokensOfSelected, ChosenElsewhere
  <1>7. ActiveIsLit'
    BY DEF FormIInv, FormTypeOK, OpIsHere, ActiveIsLit, ChosenElsewhere
  <1> QED BY <1>1, <1>2, <1>3, <1>4, <1>5, <1>6, <1>7 DEF FormIInv

LEMMA RemovedElsewhereSound ==
    ASSUME FormIInv, NEW e \in FormEnvs, RemovedElsewhere(e)
    PROVE  FormIInv'
  <1>1. FormTypeOK'
    <2>1. saved' \in [FormEnvs -> FormEnvs \cup {"none"}] /\ chosen' \in FormEnvs \cup {"none"}
      BY DEF FormIInv, FormTypeOK, RemovedElsewhere
    <2>2. shownPage' \in {"home", "opening", "connections"} /\ selected' \in FormEnvs /\ flags' \in SUBSET FormEnvs
      BY DEF FormIInv, FormTypeOK, RemovedElsewhere
    <2>3. form' \in [of : FormEnvs, stored : FormEnvs \cup {"none"}, tested : FormEnvs \cup {"none"}, typed : BOOLEAN, hydrating : BOOLEAN]
      BY DEF FormIInv, FormTypeOK, RemovedElsewhere
    <2>4. formOp' \in [does : {"rest", "saving", "activating", "deleting", "testing"}, on : FormEnvs, of : FormEnvs]
      BY DEF FormIInv, FormTypeOK, RemovedElsewhere
    <2>5. shownVault' \in [rows : FormEnvs \cup {"none"}, listed : FormEnvs \cup {"none"}, hydrating : BOOLEAN]
      BY DEF FormIInv, FormTypeOK, RemovedElsewhere
    <2>6. vaultOp' \in [does : {"rest", "listing", "storing"}, on : FormEnvs, of : FormEnvs]
      BY DEF FormIInv, FormTypeOK, RemovedElsewhere
    <2>7. home' \in [step : {"away", "opening", "idle", "checking", "probing", "ok", "fail"}, on : FormEnvs \cup {"none"}]
      BY DEF FormIInv, FormTypeOK, RemovedElsewhere
    <2>8. steps' \in 0 .. MaxSteps
      BY FormAssumption DEF FormIInv, FormTypeOK, RemovedElsewhere, FormAssumption
    <2>9. early' \in BOOLEAN
      BY DEF FormIInv, FormTypeOK, RemovedElsewhere
    <2>10. moved' \in SUBSET FormEnvs /\ misplaced' \in SUBSET Facets
      BY DEF FormIInv, FormTypeOK, RemovedElsewhere
    <2> QED BY <2>1, <2>2, <2>3, <2>4, <2>5, <2>6, <2>7, <2>8, <2>9, <2>10 DEF FormTypeOK
  <1>2. OpIsHere'
    BY DEF FormIInv, FormTypeOK, OpIsHere, RemovedElsewhere
  <1>3. FlagsAreSaved'
    BY DEF FormIInv, FormTypeOK, OpIsHere, FlagsAreSaved, RemovedElsewhere
  <1>4. TypedForOwn'
    BY DEF FormIInv, FormTypeOK, OpIsHere, TypedForOwn, RemovedElsewhere
  <1>5. FieldsOfSelected'
    BY DEF FormIInv, FormTypeOK, OpIsHere, TypedForOwn, FieldsOfSelected, RemovedElsewhere
  <1>6. TokensOfSelected'
    BY DEF FormIInv, FormTypeOK, OpIsHere, TokensOfSelected, RemovedElsewhere
  <1>7. ActiveIsLit'
    BY DEF FormIInv, FormTypeOK, OpIsHere, ActiveIsLit, RemovedElsewhere
  <1> QED BY <1>1, <1>2, <1>3, <1>4, <1>5, <1>6, <1>7 DEF FormIInv

LEMMA SavedElsewhereSound ==
    ASSUME FormIInv, NEW e \in FormEnvs, NEW of \in FormEnvs, SavedElsewhere(e, of)
    PROVE  FormIInv'
  <1>1. FormTypeOK'
    <2>1. saved' \in [FormEnvs -> FormEnvs \cup {"none"}] /\ chosen' \in FormEnvs \cup {"none"}
      BY DEF FormIInv, FormTypeOK, SavedElsewhere
    <2>2. shownPage' \in {"home", "opening", "connections"} /\ selected' \in FormEnvs /\ flags' \in SUBSET FormEnvs
      BY DEF FormIInv, FormTypeOK, SavedElsewhere
    <2>3. form' \in [of : FormEnvs, stored : FormEnvs \cup {"none"}, tested : FormEnvs \cup {"none"}, typed : BOOLEAN, hydrating : BOOLEAN]
      BY DEF FormIInv, FormTypeOK, SavedElsewhere
    <2>4. formOp' \in [does : {"rest", "saving", "activating", "deleting", "testing"}, on : FormEnvs, of : FormEnvs]
      BY DEF FormIInv, FormTypeOK, SavedElsewhere
    <2>5. shownVault' \in [rows : FormEnvs \cup {"none"}, listed : FormEnvs \cup {"none"}, hydrating : BOOLEAN]
      BY DEF FormIInv, FormTypeOK, SavedElsewhere
    <2>6. vaultOp' \in [does : {"rest", "listing", "storing"}, on : FormEnvs, of : FormEnvs]
      BY DEF FormIInv, FormTypeOK, SavedElsewhere
    <2>7. home' \in [step : {"away", "opening", "idle", "checking", "probing", "ok", "fail"}, on : FormEnvs \cup {"none"}]
      BY DEF FormIInv, FormTypeOK, SavedElsewhere
    <2>8. steps' \in 0 .. MaxSteps
      BY FormAssumption DEF FormIInv, FormTypeOK, SavedElsewhere, FormAssumption
    <2>9. early' \in BOOLEAN
      BY DEF FormIInv, FormTypeOK, SavedElsewhere
    <2>10. moved' \in SUBSET FormEnvs /\ misplaced' \in SUBSET Facets
      BY DEF FormIInv, FormTypeOK, SavedElsewhere
    <2> QED BY <2>1, <2>2, <2>3, <2>4, <2>5, <2>6, <2>7, <2>8, <2>9, <2>10 DEF FormTypeOK
  <1>2. OpIsHere'
    BY DEF FormIInv, FormTypeOK, OpIsHere, SavedElsewhere
  <1>3. FlagsAreSaved'
    BY DEF FormIInv, FormTypeOK, OpIsHere, FlagsAreSaved, SavedElsewhere
  <1>4. TypedForOwn'
    BY DEF FormIInv, FormTypeOK, OpIsHere, TypedForOwn, SavedElsewhere
  <1>5. FieldsOfSelected'
    BY DEF FormIInv, FormTypeOK, OpIsHere, TypedForOwn, FieldsOfSelected, SavedElsewhere
  <1>6. TokensOfSelected'
    BY DEF FormIInv, FormTypeOK, OpIsHere, TokensOfSelected, SavedElsewhere
  <1>7. ActiveIsLit'
    BY DEF FormIInv, FormTypeOK, OpIsHere, ActiveIsLit, SavedElsewhere
  <1> QED BY <1>1, <1>2, <1>3, <1>4, <1>5, <1>6, <1>7 DEF FormIInv

LEMMA FormTypedSound ==
    ASSUME FormIInv, FormTyped
    PROVE  FormIInv'
  <1>1. FormTypeOK'
    <2>1. saved' \in [FormEnvs -> FormEnvs \cup {"none"}] /\ chosen' \in FormEnvs \cup {"none"}
      BY DEF FormIInv, FormTypeOK, FormTyped
    <2>2. shownPage' \in {"home", "opening", "connections"} /\ selected' \in FormEnvs /\ flags' \in SUBSET FormEnvs
      BY DEF FormIInv, FormTypeOK, FormTyped
    <2>3. form' \in [of : FormEnvs, stored : FormEnvs \cup {"none"}, tested : FormEnvs \cup {"none"}, typed : BOOLEAN, hydrating : BOOLEAN]
      BY DEF FormIInv, FormTypeOK, FormTyped
    <2>4. formOp' \in [does : {"rest", "saving", "activating", "deleting", "testing"}, on : FormEnvs, of : FormEnvs]
      BY DEF FormIInv, FormTypeOK, FormTyped
    <2>5. shownVault' \in [rows : FormEnvs \cup {"none"}, listed : FormEnvs \cup {"none"}, hydrating : BOOLEAN]
      BY DEF FormIInv, FormTypeOK, FormTyped
    <2>6. vaultOp' \in [does : {"rest", "listing", "storing"}, on : FormEnvs, of : FormEnvs]
      BY DEF FormIInv, FormTypeOK, FormTyped
    <2>7. home' \in [step : {"away", "opening", "idle", "checking", "probing", "ok", "fail"}, on : FormEnvs \cup {"none"}]
      BY DEF FormIInv, FormTypeOK, FormTyped
    <2>8. steps' \in 0 .. MaxSteps
      BY FormAssumption DEF FormIInv, FormTypeOK, FormTyped, FormAssumption
    <2>9. early' \in BOOLEAN
      BY DEF FormIInv, FormTypeOK, FormTyped
    <2>10. moved' \in SUBSET FormEnvs /\ misplaced' \in SUBSET Facets
      BY DEF FormIInv, FormTypeOK, FormTyped
    <2> QED BY <2>1, <2>2, <2>3, <2>4, <2>5, <2>6, <2>7, <2>8, <2>9, <2>10 DEF FormTypeOK
  <1>2. OpIsHere'
    BY DEF FormIInv, FormTypeOK, OpIsHere, FormTyped
  <1>3. FlagsAreSaved'
    BY DEF FormIInv, FormTypeOK, OpIsHere, FlagsAreSaved, FormTyped
  <1>4. TypedForOwn'
    BY DEF FormIInv, FormTypeOK, OpIsHere, TypedForOwn, FormTyped
  <1>5. FieldsOfSelected'
    BY DEF FormIInv, FormTypeOK, OpIsHere, TypedForOwn, FieldsOfSelected, FormTyped
  <1>6. TokensOfSelected'
    BY DEF FormIInv, FormTypeOK, OpIsHere, TokensOfSelected, FormTyped
  <1>7. ActiveIsLit'
    BY DEF FormIInv, FormTypeOK, OpIsHere, ActiveIsLit, FormTyped
  <1> QED BY <1>1, <1>2, <1>3, <1>4, <1>5, <1>6, <1>7 DEF FormIInv

LEMMA SavePressedSound ==
    ASSUME FormIInv, SavePressed
    PROVE  FormIInv'
  <1>1. FormTypeOK'
    BY FormAssumption DEF FormIInv, FormTypeOK, SavePressed, FormAssumption
  <1>2. OpIsHere'
    BY DEF FormIInv, FormTypeOK, OpIsHere, SavePressed
  <1>3. FlagsAreSaved'
    BY DEF FormIInv, FormTypeOK, OpIsHere, FlagsAreSaved, SavePressed
  <1>4. TypedForOwn'
    BY DEF FormIInv, FormTypeOK, OpIsHere, TypedForOwn, SavePressed
  <1>5. FieldsOfSelected'
    BY DEF FormIInv, FormTypeOK, OpIsHere, TypedForOwn, FieldsOfSelected, SavePressed
  <1>6. TokensOfSelected'
    BY DEF FormIInv, FormTypeOK, OpIsHere, TokensOfSelected, SavePressed
  <1>7. ActiveIsLit'
    BY DEF FormIInv, FormTypeOK, OpIsHere, ActiveIsLit, SavePressed
  <1> QED BY <1>1, <1>2, <1>3, <1>4, <1>5, <1>6, <1>7 DEF FormIInv

LEMMA CredentialsSavedSound ==
    ASSUME FormIInv, CredentialsSaved
    PROVE  FormIInv'
  <1>1. FormTypeOK'
    <2>1. saved' \in [FormEnvs -> FormEnvs \cup {"none"}] /\ chosen' \in FormEnvs \cup {"none"}
      BY DEF FormIInv, FormTypeOK, CredentialsSaved
    <2>2. shownPage' \in {"home", "opening", "connections"} /\ selected' \in FormEnvs /\ flags' \in SUBSET FormEnvs
      BY DEF FormIInv, FormTypeOK, CredentialsSaved
    <2>3. form' \in [of : FormEnvs, stored : FormEnvs \cup {"none"}, tested : FormEnvs \cup {"none"}, typed : BOOLEAN, hydrating : BOOLEAN]
      BY DEF FormIInv, FormTypeOK, CredentialsSaved
    <2>4. formOp' \in [does : {"rest", "saving", "activating", "deleting", "testing"}, on : FormEnvs, of : FormEnvs]
      BY DEF FormIInv, FormTypeOK, CredentialsSaved
    <2>5. shownVault' \in [rows : FormEnvs \cup {"none"}, listed : FormEnvs \cup {"none"}, hydrating : BOOLEAN]
      BY DEF FormIInv, FormTypeOK, CredentialsSaved
    <2>6. vaultOp' \in [does : {"rest", "listing", "storing"}, on : FormEnvs, of : FormEnvs]
      BY DEF FormIInv, FormTypeOK, CredentialsSaved
    <2>7. home' \in [step : {"away", "opening", "idle", "checking", "probing", "ok", "fail"}, on : FormEnvs \cup {"none"}]
      BY DEF FormIInv, FormTypeOK, CredentialsSaved
    <2>8. steps' \in 0 .. MaxSteps
      BY FormAssumption DEF FormIInv, FormTypeOK, CredentialsSaved, FormAssumption
    <2>9. early' \in BOOLEAN
      BY DEF FormIInv, FormTypeOK, CredentialsSaved
    <2>10. moved' \in SUBSET FormEnvs /\ misplaced' \in SUBSET Facets
      BY DEF FormIInv, FormTypeOK, CredentialsSaved
    <2> QED BY <2>1, <2>2, <2>3, <2>4, <2>5, <2>6, <2>7, <2>8, <2>9, <2>10 DEF FormTypeOK
  <1>2. OpIsHere'
    BY DEF FormIInv, FormTypeOK, OpIsHere, CredentialsSaved
  <1>3. FlagsAreSaved'
    BY DEF FormIInv, FormTypeOK, OpIsHere, FlagsAreSaved, CredentialsSaved
  <1>4. TypedForOwn'
    BY DEF FormIInv, FormTypeOK, OpIsHere, TypedForOwn, CredentialsSaved
  <1>5. FieldsOfSelected'
    BY DEF FormIInv, FormTypeOK, OpIsHere, TypedForOwn, FieldsOfSelected, CredentialsSaved
  <1>6. TokensOfSelected'
    BY DEF FormIInv, FormTypeOK, OpIsHere, TokensOfSelected, CredentialsSaved
  <1>7. ActiveIsLit'
    BY DEF FormIInv, FormTypeOK, OpIsHere, ActiveIsLit, CredentialsSaved
  <1> QED BY <1>1, <1>2, <1>3, <1>4, <1>5, <1>6, <1>7 DEF FormIInv

LEMMA EnvActivatedSound ==
    ASSUME FormIInv, EnvActivated
    PROVE  FormIInv'
  <1>1. FormTypeOK'
    <2>1. saved' \in [FormEnvs -> FormEnvs \cup {"none"}] /\ chosen' \in FormEnvs \cup {"none"}
      BY DEF FormIInv, FormTypeOK, EnvActivated
    <2>2. shownPage' \in {"home", "opening", "connections"} /\ selected' \in FormEnvs /\ flags' \in SUBSET FormEnvs
      BY DEF FormIInv, FormTypeOK, EnvActivated
    <2>3. form' \in [of : FormEnvs, stored : FormEnvs \cup {"none"}, tested : FormEnvs \cup {"none"}, typed : BOOLEAN, hydrating : BOOLEAN]
      BY DEF FormIInv, FormTypeOK, EnvActivated
    <2>4. formOp' \in [does : {"rest", "saving", "activating", "deleting", "testing"}, on : FormEnvs, of : FormEnvs]
      BY DEF FormIInv, FormTypeOK, EnvActivated
    <2>5. shownVault' \in [rows : FormEnvs \cup {"none"}, listed : FormEnvs \cup {"none"}, hydrating : BOOLEAN]
      BY DEF FormIInv, FormTypeOK, EnvActivated
    <2>6. vaultOp' \in [does : {"rest", "listing", "storing"}, on : FormEnvs, of : FormEnvs]
      BY DEF FormIInv, FormTypeOK, EnvActivated
    <2>7. home' \in [step : {"away", "opening", "idle", "checking", "probing", "ok", "fail"}, on : FormEnvs \cup {"none"}]
      BY DEF FormIInv, FormTypeOK, EnvActivated
    <2>8. steps' \in 0 .. MaxSteps
      BY FormAssumption DEF FormIInv, FormTypeOK, EnvActivated, FormAssumption
    <2>9. early' \in BOOLEAN
      BY DEF FormIInv, FormTypeOK, EnvActivated
    <2>10. moved' \in SUBSET FormEnvs /\ misplaced' \in SUBSET Facets
      BY DEF FormIInv, FormTypeOK, EnvActivated
    <2> QED BY <2>1, <2>2, <2>3, <2>4, <2>5, <2>6, <2>7, <2>8, <2>9, <2>10 DEF FormTypeOK
  <1>2. OpIsHere'
    BY DEF FormIInv, FormTypeOK, OpIsHere, EnvActivated
  <1>3. FlagsAreSaved'
    BY DEF FormIInv, FormTypeOK, OpIsHere, FlagsAreSaved, EnvActivated
  <1>4. TypedForOwn'
    BY DEF FormIInv, FormTypeOK, OpIsHere, TypedForOwn, EnvActivated
  <1>5. FieldsOfSelected'
    BY DEF FormIInv, FormTypeOK, OpIsHere, TypedForOwn, FieldsOfSelected, EnvActivated
  <1>6. TokensOfSelected'
    BY DEF FormIInv, FormTypeOK, OpIsHere, TokensOfSelected, EnvActivated
  <1>7. ActiveIsLit'
    BY DEF FormIInv, FormTypeOK, OpIsHere, ActiveIsLit, EnvActivated
  <1> QED BY <1>1, <1>2, <1>3, <1>4, <1>5, <1>6, <1>7 DEF FormIInv

LEMMA SaveFailedSound ==
    ASSUME FormIInv, SaveFailed
    PROVE  FormIInv'
  <1>1. FormTypeOK'
    BY FormAssumption DEF FormIInv, FormTypeOK, SaveFailed, FormAssumption
  <1>2. OpIsHere'
    BY DEF FormIInv, FormTypeOK, OpIsHere, SaveFailed
  <1>3. FlagsAreSaved'
    BY DEF FormIInv, FormTypeOK, OpIsHere, FlagsAreSaved, SaveFailed
  <1>4. TypedForOwn'
    BY DEF FormIInv, FormTypeOK, OpIsHere, TypedForOwn, SaveFailed
  <1>5. FieldsOfSelected'
    BY DEF FormIInv, FormTypeOK, OpIsHere, TypedForOwn, FieldsOfSelected, SaveFailed
  <1>6. TokensOfSelected'
    BY DEF FormIInv, FormTypeOK, OpIsHere, TokensOfSelected, SaveFailed
  <1>7. ActiveIsLit'
    BY DEF FormIInv, FormTypeOK, OpIsHere, ActiveIsLit, SaveFailed
  <1> QED BY <1>1, <1>2, <1>3, <1>4, <1>5, <1>6, <1>7 DEF FormIInv

LEMMA DeletePressedSound ==
    ASSUME FormIInv, DeletePressed
    PROVE  FormIInv'
  <1>1. FormTypeOK'
    BY FormAssumption DEF FormIInv, FormTypeOK, DeletePressed, FormAssumption
  <1>2. OpIsHere'
    BY DEF FormIInv, FormTypeOK, OpIsHere, DeletePressed
  <1>3. FlagsAreSaved'
    BY DEF FormIInv, FormTypeOK, OpIsHere, FlagsAreSaved, DeletePressed
  <1>4. TypedForOwn'
    BY DEF FormIInv, FormTypeOK, OpIsHere, TypedForOwn, DeletePressed
  <1>5. FieldsOfSelected'
    BY DEF FormIInv, FormTypeOK, OpIsHere, TypedForOwn, FieldsOfSelected, DeletePressed
  <1>6. TokensOfSelected'
    BY DEF FormIInv, FormTypeOK, OpIsHere, TokensOfSelected, DeletePressed
  <1>7. ActiveIsLit'
    BY DEF FormIInv, FormTypeOK, OpIsHere, ActiveIsLit, DeletePressed
  <1> QED BY <1>1, <1>2, <1>3, <1>4, <1>5, <1>6, <1>7 DEF FormIInv

LEMMA CredentialsDeletedSound ==
    ASSUME FormIInv, CredentialsDeleted
    PROVE  FormIInv'
  <1>1. FormTypeOK'
    <2>1. saved' \in [FormEnvs -> FormEnvs \cup {"none"}] /\ chosen' \in FormEnvs \cup {"none"}
      BY DEF FormIInv, FormTypeOK, CredentialsDeleted
    <2>2. shownPage' \in {"home", "opening", "connections"} /\ selected' \in FormEnvs /\ flags' \in SUBSET FormEnvs
      BY DEF FormIInv, FormTypeOK, CredentialsDeleted
    <2>3. form' \in [of : FormEnvs, stored : FormEnvs \cup {"none"}, tested : FormEnvs \cup {"none"}, typed : BOOLEAN, hydrating : BOOLEAN]
      BY DEF FormIInv, FormTypeOK, CredentialsDeleted
    <2>4. formOp' \in [does : {"rest", "saving", "activating", "deleting", "testing"}, on : FormEnvs, of : FormEnvs]
      BY DEF FormIInv, FormTypeOK, CredentialsDeleted
    <2>5. shownVault' \in [rows : FormEnvs \cup {"none"}, listed : FormEnvs \cup {"none"}, hydrating : BOOLEAN]
      BY DEF FormIInv, FormTypeOK, CredentialsDeleted
    <2>6. vaultOp' \in [does : {"rest", "listing", "storing"}, on : FormEnvs, of : FormEnvs]
      BY DEF FormIInv, FormTypeOK, CredentialsDeleted
    <2>7. home' \in [step : {"away", "opening", "idle", "checking", "probing", "ok", "fail"}, on : FormEnvs \cup {"none"}]
      BY DEF FormIInv, FormTypeOK, CredentialsDeleted
    <2>8. steps' \in 0 .. MaxSteps
      BY FormAssumption DEF FormIInv, FormTypeOK, CredentialsDeleted, FormAssumption
    <2>9. early' \in BOOLEAN
      BY DEF FormIInv, FormTypeOK, CredentialsDeleted
    <2>10. moved' \in SUBSET FormEnvs /\ misplaced' \in SUBSET Facets
      BY DEF FormIInv, FormTypeOK, CredentialsDeleted
    <2> QED BY <2>1, <2>2, <2>3, <2>4, <2>5, <2>6, <2>7, <2>8, <2>9, <2>10 DEF FormTypeOK
  <1>2. OpIsHere'
    BY DEF FormIInv, FormTypeOK, OpIsHere, CredentialsDeleted
  <1>3. FlagsAreSaved'
    BY DEF FormIInv, FormTypeOK, OpIsHere, FlagsAreSaved, CredentialsDeleted
  <1>4. TypedForOwn'
    BY DEF FormIInv, FormTypeOK, OpIsHere, TypedForOwn, CredentialsDeleted
  <1>5. FieldsOfSelected'
    BY DEF FormIInv, FormTypeOK, OpIsHere, TypedForOwn, FieldsOfSelected, CredentialsDeleted
  <1>6. TokensOfSelected'
    BY DEF FormIInv, FormTypeOK, OpIsHere, TokensOfSelected, CredentialsDeleted
  <1>7. ActiveIsLit'
    BY DEF FormIInv, FormTypeOK, OpIsHere, ActiveIsLit, CredentialsDeleted
  <1> QED BY <1>1, <1>2, <1>3, <1>4, <1>5, <1>6, <1>7 DEF FormIInv

LEMMA TestPressedSound ==
    ASSUME FormIInv, TestPressed
    PROVE  FormIInv'
  <1>1. FormTypeOK'
    BY FormAssumption DEF FormIInv, FormTypeOK, TestPressed, FormAssumption
  <1>2. OpIsHere'
    BY DEF FormIInv, FormTypeOK, OpIsHere, TestPressed
  <1>3. FlagsAreSaved'
    BY DEF FormIInv, FormTypeOK, OpIsHere, FlagsAreSaved, TestPressed
  <1>4. TypedForOwn'
    BY DEF FormIInv, FormTypeOK, OpIsHere, TypedForOwn, TestPressed
  <1>5. FieldsOfSelected'
    BY DEF FormIInv, FormTypeOK, OpIsHere, TypedForOwn, FieldsOfSelected, TestPressed
  <1>6. TokensOfSelected'
    BY DEF FormIInv, FormTypeOK, OpIsHere, TokensOfSelected, TestPressed
  <1>7. ActiveIsLit'
    BY DEF FormIInv, FormTypeOK, OpIsHere, ActiveIsLit, TestPressed
  <1> QED BY <1>1, <1>2, <1>3, <1>4, <1>5, <1>6, <1>7 DEF FormIInv

LEMMA TestAnsweredSound ==
    ASSUME FormIInv, TestAnswered
    PROVE  FormIInv'
  <1>1. FormTypeOK'
    BY FormAssumption DEF FormIInv, FormTypeOK, TestAnswered, FormAssumption
  <1>2. OpIsHere'
    BY DEF FormIInv, FormTypeOK, OpIsHere, TestAnswered
  <1>3. FlagsAreSaved'
    BY DEF FormIInv, FormTypeOK, OpIsHere, FlagsAreSaved, TestAnswered
  <1>4. TypedForOwn'
    BY DEF FormIInv, FormTypeOK, OpIsHere, TypedForOwn, TestAnswered
  <1>5. FieldsOfSelected'
    BY DEF FormIInv, FormTypeOK, OpIsHere, TypedForOwn, FieldsOfSelected, TestAnswered
  <1>6. TokensOfSelected'
    BY DEF FormIInv, FormTypeOK, OpIsHere, TokensOfSelected, TestAnswered
  <1>7. ActiveIsLit'
    BY DEF FormIInv, FormTypeOK, OpIsHere, ActiveIsLit, TestAnswered
  <1> QED BY <1>1, <1>2, <1>3, <1>4, <1>5, <1>6, <1>7 DEF FormIInv

LEMMA VaultPressedSound ==
    ASSUME FormIInv, NEW does \in {"listing", "storing"}, VaultPressed(does)
    PROVE  FormIInv'
  <1>1. FormTypeOK'
    <2>1. saved' \in [FormEnvs -> FormEnvs \cup {"none"}] /\ chosen' \in FormEnvs \cup {"none"}
      BY DEF FormIInv, FormTypeOK, VaultPressed
    <2>2. shownPage' \in {"home", "opening", "connections"} /\ selected' \in FormEnvs /\ flags' \in SUBSET FormEnvs
      BY DEF FormIInv, FormTypeOK, VaultPressed
    <2>3. form' \in [of : FormEnvs, stored : FormEnvs \cup {"none"}, tested : FormEnvs \cup {"none"}, typed : BOOLEAN, hydrating : BOOLEAN]
      BY DEF FormIInv, FormTypeOK, VaultPressed
    <2>4. formOp' \in [does : {"rest", "saving", "activating", "deleting", "testing"}, on : FormEnvs, of : FormEnvs]
      BY DEF FormIInv, FormTypeOK, VaultPressed
    <2>5. shownVault' \in [rows : FormEnvs \cup {"none"}, listed : FormEnvs \cup {"none"}, hydrating : BOOLEAN]
      BY DEF FormIInv, FormTypeOK, VaultPressed
    <2>6. vaultOp' \in [does : {"rest", "listing", "storing"}, on : FormEnvs, of : FormEnvs]
      BY DEF FormIInv, FormTypeOK, VaultPressed
    <2>7. home' \in [step : {"away", "opening", "idle", "checking", "probing", "ok", "fail"}, on : FormEnvs \cup {"none"}]
      BY DEF FormIInv, FormTypeOK, VaultPressed
    <2>8. steps' \in 0 .. MaxSteps
      BY FormAssumption DEF FormIInv, FormTypeOK, VaultPressed, FormAssumption
    <2>9. early' \in BOOLEAN
      BY DEF FormIInv, FormTypeOK, VaultPressed
    <2>10. moved' \in SUBSET FormEnvs /\ misplaced' \in SUBSET Facets
      BY DEF FormIInv, FormTypeOK, VaultPressed
    <2> QED BY <2>1, <2>2, <2>3, <2>4, <2>5, <2>6, <2>7, <2>8, <2>9, <2>10 DEF FormTypeOK
  <1>2. OpIsHere'
    BY DEF FormIInv, FormTypeOK, OpIsHere, VaultPressed
  <1>3. FlagsAreSaved'
    BY DEF FormIInv, FormTypeOK, OpIsHere, FlagsAreSaved, VaultPressed
  <1>4. TypedForOwn'
    BY DEF FormIInv, FormTypeOK, OpIsHere, TypedForOwn, VaultPressed
  <1>5. FieldsOfSelected'
    BY DEF FormIInv, FormTypeOK, OpIsHere, TypedForOwn, FieldsOfSelected, VaultPressed
  <1>6. TokensOfSelected'
    BY DEF FormIInv, FormTypeOK, OpIsHere, TokensOfSelected, VaultPressed
  <1>7. ActiveIsLit'
    BY DEF FormIInv, FormTypeOK, OpIsHere, ActiveIsLit, VaultPressed
  <1> QED BY <1>1, <1>2, <1>3, <1>4, <1>5, <1>6, <1>7 DEF FormIInv

LEMMA VaultDoneSound ==
    ASSUME FormIInv, NEW ok \in BOOLEAN, VaultDone(ok)
    PROVE  FormIInv'
  <1>1. FormTypeOK'
    BY FormAssumption DEF FormIInv, FormTypeOK, VaultDone, FormAssumption
  <1>2. OpIsHere'
    BY DEF FormIInv, FormTypeOK, OpIsHere, VaultDone
  <1>3. FlagsAreSaved'
    BY DEF FormIInv, FormTypeOK, OpIsHere, FlagsAreSaved, VaultDone
  <1>4. TypedForOwn'
    BY DEF FormIInv, FormTypeOK, OpIsHere, TypedForOwn, VaultDone
  <1>5. FieldsOfSelected'
    BY DEF FormIInv, FormTypeOK, OpIsHere, TypedForOwn, FieldsOfSelected, VaultDone
  <1>6. TokensOfSelected'
    BY DEF FormIInv, FormTypeOK, OpIsHere, TokensOfSelected, VaultDone
  <1>7. ActiveIsLit'
    BY DEF FormIInv, FormTypeOK, OpIsHere, ActiveIsLit, VaultDone
  <1> QED BY <1>1, <1>2, <1>3, <1>4, <1>5, <1>6, <1>7 DEF FormIInv

LEMMA ProbeAnsweredSound ==
    ASSUME FormIInv, NEW ok \in BOOLEAN, ProbeAnswered(ok)
    PROVE  FormIInv'
  <1>1. FormTypeOK'
    BY FormAssumption DEF FormIInv, FormTypeOK, ProbeAnswered, FormAssumption
  <1>2. OpIsHere'
    BY DEF FormIInv, FormTypeOK, OpIsHere, ProbeAnswered
  <1>3. FlagsAreSaved'
    BY DEF FormIInv, FormTypeOK, OpIsHere, FlagsAreSaved, ProbeAnswered
  <1>4. TypedForOwn'
    BY DEF FormIInv, FormTypeOK, OpIsHere, TypedForOwn, ProbeAnswered
  <1>5. FieldsOfSelected'
    BY DEF FormIInv, FormTypeOK, OpIsHere, TypedForOwn, FieldsOfSelected, ProbeAnswered
  <1>6. TokensOfSelected'
    BY DEF FormIInv, FormTypeOK, OpIsHere, TokensOfSelected, ProbeAnswered
  <1>7. ActiveIsLit'
    BY DEF FormIInv, FormTypeOK, OpIsHere, ActiveIsLit, ProbeAnswered
  <1> QED BY <1>1, <1>2, <1>3, <1>4, <1>5, <1>6, <1>7 DEF FormIInv

LEMMA HomeOpenedSound ==
    ASSUME FormIInv, HomeOpened
    PROVE  FormIInv'
  <1>1. FormTypeOK'
    <2>1. saved' \in [FormEnvs -> FormEnvs \cup {"none"}] /\ chosen' \in FormEnvs \cup {"none"}
      BY DEF FormIInv, FormTypeOK, HomeOpened
    <2>2. shownPage' \in {"home", "opening", "connections"} /\ selected' \in FormEnvs /\ flags' \in SUBSET FormEnvs
      BY DEF FormIInv, FormTypeOK, HomeOpened
    <2>3. form' \in [of : FormEnvs, stored : FormEnvs \cup {"none"}, tested : FormEnvs \cup {"none"}, typed : BOOLEAN, hydrating : BOOLEAN]
      BY DEF FormIInv, FormTypeOK, HomeOpened
    <2>4. formOp' \in [does : {"rest", "saving", "activating", "deleting", "testing"}, on : FormEnvs, of : FormEnvs]
      BY DEF FormIInv, FormTypeOK, HomeOpened
    <2>5. shownVault' \in [rows : FormEnvs \cup {"none"}, listed : FormEnvs \cup {"none"}, hydrating : BOOLEAN]
      BY DEF FormIInv, FormTypeOK, HomeOpened
    <2>6. vaultOp' \in [does : {"rest", "listing", "storing"}, on : FormEnvs, of : FormEnvs]
      BY DEF FormIInv, FormTypeOK, HomeOpened
    <2>7. home' \in [step : {"away", "opening", "idle", "checking", "probing", "ok", "fail"}, on : FormEnvs \cup {"none"}]
      BY DEF FormIInv, FormTypeOK, HomeOpened
    <2>8. steps' \in 0 .. MaxSteps
      BY FormAssumption DEF FormIInv, FormTypeOK, HomeOpened, FormAssumption
    <2>9. early' \in BOOLEAN
      BY DEF FormIInv, FormTypeOK, HomeOpened
    <2>10. moved' \in SUBSET FormEnvs /\ misplaced' \in SUBSET Facets
      BY DEF FormIInv, FormTypeOK, HomeOpened
    <2> QED BY <2>1, <2>2, <2>3, <2>4, <2>5, <2>6, <2>7, <2>8, <2>9, <2>10 DEF FormTypeOK
  <1>2. OpIsHere'
    BY DEF FormIInv, FormTypeOK, OpIsHere, HomeOpened
  <1>3. FlagsAreSaved'
    BY DEF FormIInv, FormTypeOK, OpIsHere, FlagsAreSaved, HomeOpened
  <1>4. TypedForOwn'
    BY DEF FormIInv, FormTypeOK, OpIsHere, TypedForOwn, HomeOpened
  <1>5. FieldsOfSelected'
    BY DEF FormIInv, FormTypeOK, OpIsHere, TypedForOwn, FieldsOfSelected, HomeOpened
  <1>6. TokensOfSelected'
    BY DEF FormIInv, FormTypeOK, OpIsHere, TokensOfSelected, HomeOpened
  <1>7. ActiveIsLit'
    BY DEF FormIInv, FormTypeOK, OpIsHere, ActiveIsLit, HomeOpened
  <1> QED BY <1>1, <1>2, <1>3, <1>4, <1>5, <1>6, <1>7 DEF FormIInv

LEMMA HomeCheckedSound ==
    ASSUME FormIInv, HomeChecked
    PROVE  FormIInv'
  <1>1. FormTypeOK'
    BY FormAssumption DEF FormIInv, FormTypeOK, HomeChecked, FormAssumption
  <1>2. OpIsHere'
    BY DEF FormIInv, FormTypeOK, OpIsHere, HomeChecked
  <1>3. FlagsAreSaved'
    BY DEF FormIInv, FormTypeOK, OpIsHere, FlagsAreSaved, HomeChecked
  <1>4. TypedForOwn'
    BY DEF FormIInv, FormTypeOK, OpIsHere, TypedForOwn, HomeChecked
  <1>5. FieldsOfSelected'
    BY DEF FormIInv, FormTypeOK, OpIsHere, TypedForOwn, FieldsOfSelected, HomeChecked
  <1>6. TokensOfSelected'
    BY DEF FormIInv, FormTypeOK, OpIsHere, TokensOfSelected, HomeChecked
  <1>7. ActiveIsLit'
    BY DEF FormIInv, FormTypeOK, OpIsHere, ActiveIsLit, HomeChecked
  <1> QED BY <1>1, <1>2, <1>3, <1>4, <1>5, <1>6, <1>7 DEF FormIInv

LEMMA ProbeBeginsSound ==
    ASSUME FormIInv, ProbeBegins
    PROVE  FormIInv'
  <1>1. FormTypeOK'
    BY FormAssumption DEF FormIInv, FormTypeOK, ProbeBegins, FormAssumption
  <1>2. OpIsHere'
    BY DEF FormIInv, FormTypeOK, OpIsHere, ProbeBegins
  <1>3. FlagsAreSaved'
    BY DEF FormIInv, FormTypeOK, OpIsHere, FlagsAreSaved, ProbeBegins
  <1>4. TypedForOwn'
    BY DEF FormIInv, FormTypeOK, OpIsHere, TypedForOwn, ProbeBegins
  <1>5. FieldsOfSelected'
    BY DEF FormIInv, FormTypeOK, OpIsHere, TypedForOwn, FieldsOfSelected, ProbeBegins
  <1>6. TokensOfSelected'
    BY DEF FormIInv, FormTypeOK, OpIsHere, TokensOfSelected, ProbeBegins
  <1>7. ActiveIsLit'
    BY DEF FormIInv, FormTypeOK, OpIsHere, ActiveIsLit, ProbeBegins
  <1> QED BY <1>1, <1>2, <1>3, <1>4, <1>5, <1>6, <1>7 DEF FormIInv

LEMMA RetriedSound ==
    ASSUME FormIInv, Retried
    PROVE  FormIInv'
  <1>1. FormTypeOK'
    BY FormAssumption DEF FormIInv, FormTypeOK, Retried, FormAssumption
  <1>2. OpIsHere'
    BY DEF FormIInv, FormTypeOK, OpIsHere, Retried
  <1>3. FlagsAreSaved'
    BY DEF FormIInv, FormTypeOK, OpIsHere, FlagsAreSaved, Retried
  <1>4. TypedForOwn'
    BY DEF FormIInv, FormTypeOK, OpIsHere, TypedForOwn, Retried
  <1>5. FieldsOfSelected'
    BY DEF FormIInv, FormTypeOK, OpIsHere, TypedForOwn, FieldsOfSelected, Retried
  <1>6. TokensOfSelected'
    BY DEF FormIInv, FormTypeOK, OpIsHere, TokensOfSelected, Retried
  <1>7. ActiveIsLit'
    BY DEF FormIInv, FormTypeOK, OpIsHere, ActiveIsLit, Retried
  <1> QED BY <1>1, <1>2, <1>3, <1>4, <1>5, <1>6, <1>7 DEF FormIInv

LEMMA FormInitSound == FormInit => FormIInv
  <1> SUFFICES ASSUME FormInit PROVE FormIInv
    OBVIOUS
  <1>1. FormTypeOK
    <2>1. saved \in [FormEnvs -> FormEnvs \cup {"none"}] /\ chosen \in FormEnvs \cup {"none"}
      BY DEF FormInit
    <2>2. shownPage \in {"home", "opening", "connections"} /\ selected \in FormEnvs /\ flags \in SUBSET FormEnvs
      BY DEF FormInit
    <2>3. form \in [of : FormEnvs, stored : FormEnvs \cup {"none"}, tested : FormEnvs \cup {"none"}, typed : BOOLEAN, hydrating : BOOLEAN]
      BY DEF FormInit
    <2>4. formOp \in [does : {"rest", "saving", "activating", "deleting", "testing"}, on : FormEnvs, of : FormEnvs]
      BY DEF FormInit
    <2>5. shownVault \in [rows : FormEnvs \cup {"none"}, listed : FormEnvs \cup {"none"}, hydrating : BOOLEAN]
      BY DEF FormInit
    <2>6. vaultOp \in [does : {"rest", "listing", "storing"}, on : FormEnvs, of : FormEnvs]
      BY DEF FormInit
    <2>7. home \in [step : {"away", "opening", "idle", "checking", "probing", "ok", "fail"}, on : FormEnvs \cup {"none"}]
      BY DEF FormInit
    <2>8. steps \in 0 .. MaxSteps
      BY FormAssumption DEF FormInit, FormAssumption
    <2>9. early \in BOOLEAN
      BY DEF FormInit
    <2>10. moved \in SUBSET FormEnvs /\ misplaced \in SUBSET Facets
      BY DEF FormInit
    <2> QED BY <2>1, <2>2, <2>3, <2>4, <2>5, <2>6, <2>7, <2>8, <2>9, <2>10 DEF FormTypeOK
  <1>2. OpIsHere /\ FlagsAreSaved /\ TypedForOwn
    BY DEF FormInit, OpIsHere, FlagsAreSaved, TypedForOwn
  <1>3. FieldsOfSelected /\ TokensOfSelected /\ ActiveIsLit
    BY DEF FormInit, FieldsOfSelected, TokensOfSelected, ActiveIsLit
  <1> QED BY <1>1, <1>2, <1>3 DEF FormIInv

LEMMA FormNextSound == FormIInv /\ [FormNext]_formVars => FormIInv'
  <1> SUFFICES ASSUME FormIInv, [FormNext]_formVars PROVE FormIInv'
    OBVIOUS
  <1>1. CASE UNCHANGED formVars
    BY <1>1 DEF formVars, FormIInv, FormTypeOK, OpIsHere, FlagsAreSaved, TypedForOwn, FieldsOfSelected, TokensOfSelected, ActiveIsLit
  <1>2. CASE FormNext
    BY <1>2, ConnectionsOpenedSound, ConnectionsLoadedSound, FormHydratedSound, VaultHydratedSound,
       ButtonClickedSound, ChosenElsewhereSound, RemovedElsewhereSound, SavedElsewhereSound,
       FormTypedSound, SavePressedSound, CredentialsSavedSound, EnvActivatedSound,
       SaveFailedSound, DeletePressedSound, CredentialsDeletedSound, TestPressedSound,
       TestAnsweredSound, VaultPressedSound, VaultDoneSound, ProbeAnsweredSound,
       HomeOpenedSound, HomeCheckedSound, ProbeBeginsSound, RetriedSound DEF FormNext
  <1> QED BY <1>1, <1>2

\* A page at rest shows what is stored and the lit environment, part by part, whatever
\* is switched, saved, tested, removed or left under an operation or elsewhere: what
\* an operation of the other environment has set is excepted until it is read again,
\* what changed elsewhere until the page is opened again (ConnectionsPage,
\* TransactionTokenVault, useConnectionStatus).
THEOREM FormShowsSelected == FormSpec => []FormIsSelected
  <1>1. FormIInv => FormIsSelected
    BY DEF FormIInv, FormTypeOK, OpIsHere, FlagsAreSaved, TypedForOwn, FieldsOfSelected, TokensOfSelected,
           ActiveIsLit, FormIsSelected, AtRest
  <1> QED BY <1>1, FormInitSound, FormNextSound, PTL DEF FormSpec

-----------------------------------------------------------------------------
(* Type correctness of the other parts                                      *)

\* The form, what is typed and the tasks of the page are those of the code.
THEOREM FormIsTyped == FormSpec => []FormTypeOK
  <1>1. FormIInv => FormTypeOK
    BY DEF FormIInv
  <1> QED BY <1>1, FormInitSound, FormNextSound, PTL DEF FormSpec

\* What the invariant leaves open of the types.
CredRest ==
    /\ view \in [Panels -> {"closed", "gate", "main"}]
    /\ edits \in 0 .. MaxEdits /\ clicked \in Envs \cup {NoEnv}

LEMMA CredRestStays == CredIInv /\ CredRest /\ [CredNext]_credVars => CredRest'
  <1> SUFFICES ASSUME CredIInv, CredRest, [CredNext]_credVars PROVE CredRest'
    OBVIOUS
  <1> USE CredentialAssumption DEF CredRest, historyVars
  <1>1. edits \in Nat /\ (edits < MaxEdits => edits + 1 \in 0 .. MaxEdits)
    OBVIOUS
  <1>2. checkState \in {"closed", "gate", "main"}
    BY DEF checkState
  <1>3. ASSUME NEW p \in Panels, SaveStarts(p) \/ EnvClicked(p) \/ UnlockStarts(p) \/ ForgetStarts(p)
        PROVE  CredRest'
    BY <1>1, <1>3 DEF SaveStarts, EnvClicked, UnlockStarts, ForgetStarts, Starts
  <1>4. ASSUME NEW p \in Panels, setActiveEnv(p) PROVE CredRest'
    BY <1>4 DEF setActiveEnv, CredIInv, OpsTyped
  <1>5. ASSUME NEW p \in Panels, StateChecked(p) \/ PanelOpens(p) PROVE CredRest'
    BY <1>2, <1>5 DEF StateChecked, PanelOpens
  <1>6. ASSUME NEW p \in Panels, PanelCloses(p) PROVE CredRest'
    BY <1>6 DEF PanelCloses
  <1>7. ASSUME NEW p \in Panels, RemainingRead(p) PROVE CredRest'
    BY <1>7 DEF RemainingRead
  <1>8. ASSUME NEW p \in Panels,
               \/ TokensLoaded(p) \/ BlobStored(p) \/ SessionStored(p) \/ BlobRead(p)
               \/ Decrypted(p) \/ Unlocked(p) \/ BlobRemoved(p) \/ SessionRemoved(p) \/ ActiveReplaced(p)
        PROVE  CredRest'
    BY <1>8 DEF TokensLoaded, BlobStored, SessionStored, BlobRead, Decrypted, Unlocked, BlobRemoved, SessionRemoved,
                ActiveReplaced
  <1>9. CASE BrowserRestarts
    BY <1>1, <1>9 DEF BrowserRestarts
  <1>10. CASE UNCHANGED credVars
    BY <1>10 DEF credVars
  <1> QED BY <1>3, <1>4, <1>5, <1>6, <1>7, <1>8, <1>9, <1>10 DEF CredNext, OpStep

\* The vault, its opened copies and the panels' tasks are those of the code.
THEOREM VaultIsTyped == CredSpec => []CredTypeOK
  <1>1. CredInit => CredRest
    <2> SUFFICES ASSUME CredInit PROVE CredRest
      OBVIOUS
    <2>1. active.local \in Envs \cup {NoEnv}
      BY DEF CredInit
    <2> QED BY <2>1, CredentialAssumption DEF CredInit, CredRest
  <1>2. CredIInv /\ CredRest => CredTypeOK
    <2> SUFFICES ASSUME CredIInv, CredRest PROVE CredTypeOK
      OBVIOUS
    <2>1. \A p \in Panels : op[p] \in Ops
      BY DEF CredIInv, CredTyped
    <2> QED BY <2>1 DEF CredIInv, CredTyped, Ops, OpSteps, CredRest, CredTypeOK
  <1> QED BY <1>1, <1>2, CredIInvInit, CredIInvNext, CredRestStays, PTL DEF CredSpec

GwFormRest ==
    /\ section \in [Sections -> [settings : StoredSettings, has : BOOLEAN, open : BOOLEAN, invalid : BOOLEAN, loaded : BOOLEAN]]
    /\ presses \in 0 .. MaxPresses /\ crossing \in {"no", "tests", "works"}

LEMMA GwFormRestStays == GwFormIInv /\ GwFormRest /\ [GatewayFormNext]_gwFormVars => GwFormRest'
  <1> SUFFICES ASSUME GwFormIInv, GwFormRest, [GatewayFormNext]_gwFormVars PROVE GwFormRest'
    OBVIOUS
  <1> USE GatewayFormAssumption
  <1>1. ASSUME NEW t, NEW begun, HookBegins(t, begun) PROVE GwFormRest'
    <2>1. presses \in Nat /\ presses + 1 \in 0 .. MaxPresses
      BY <1>1 DEF HookBegins, GwFormRest
    <2> QED BY <1>1, <2>1 DEF HookBegins, GwFormRest
  <1>2. ASSUME NEW t \in Threads, HydrateShown(t) PROVE GwFormRest'
    <2>1. thread[t] \in Tasks
      BY DEF GwFormIInv, GwFormTyped
    <2>2. [settings |-> thread[t].read, has |-> thread[t].status = "has", open |-> thread[t].token # NoBearer,
           invalid |-> "invalid" \in thread[t].left, loaded |-> TRUE]
          \in [settings : StoredSettings, has : BOOLEAN, open : BOOLEAN, invalid : BOOLEAN, loaded : BOOLEAN]
      BY <2>1 DEF Tasks
    <2> QED BY <1>2, <2>2 DEF HydrateShown, GwFormRest
  <1>3. ASSUME NEW t \in Threads, SettingsWritten(t) PROVE GwFormRest'
    <2>1. thread[t].cfg \in Configs /\ Default \in Configs
      BY DEF GwFormIInv, GwFormTyped, Tasks, Default, Configs
    <2>2. [Untested EXCEPT !.cfg = thread[t].cfg] \in StoredSettings
      BY <2>1 DEF Untested, StoredSettings
    <2> QED BY <1>3, <2>2 DEF SettingsWritten, GwFormRest
  <1>4. ASSUME NEW t \in Threads,
               \/ HydrateRead(t) \/ TokenWritten(t) \/ TokenOpened(t) \/ PolicyAsked(t) \/ HooksAnswered(t)
               \/ TelemetrySent(t) \/ StatusRead(t) \/ StatusWritten(t) \/ \E r \in {"local", "session"} : RequestDone(t, r)
        PROVE  GwFormRest'
    <2>1. UNCHANGED <<section, presses, crossing>>
      BY <1>4 DEF HydrateRead, TokenWritten, TokenOpened, PolicyAsked, HooksAnswered, TelemetrySent, StatusRead,
                  StatusWritten, RequestDone
    <2> QED BY <2>1 DEF GwFormRest
  <1>5. CASE UNCHANGED gwFormVars
    BY <1>5 DEF gwFormVars, GwFormRest
  <1>6. ASSUME NEW g \in Sections,
               \/ ForgetPressed(g) \/ GatewayTestPressed(g) \/ \E cfg \in Configs : SettingsPressed(g, cfg)
               \/ \E b \in Bearers : TokenPressed(g, b)
        PROVE  GwFormRest'
    BY <1>1, <1>6 DEF ForgetPressed, GatewayTestPressed, SettingsPressed, TokenPressed
  <1>7. CASE WorkerAsks
    BY <1>1, <1>7 DEF WorkerAsks
  <1> QED BY <1>2, <1>3, <1>4, <1>5, <1>6, <1>7 DEF GatewayFormNext

\* The settings, the sections and their tasks are those of the code.
THEOREM GatewayFormIsTyped == GatewayFormSpec => []GatewayFormTypeOK
  <1>1. GatewayFormInit => GwFormRest
    <2>1. Untested \in StoredSettings
      BY DEF Untested, StoredSettings, Default, Configs
    <2> QED BY <2>1, GatewayFormAssumption DEF GatewayFormInit, GwFormRest
  <1>2. GwFormIInv /\ GwFormRest => GatewayFormTypeOK
    BY DEF GwFormIInv, GwFormTyped, Tasks, GwFormRest, GatewayFormTypeOK
  <1> QED BY <1>1, <1>2, GwFormInitSound, GwFormNextSound, GwFormRestStays, PTL DEF GatewayFormSpec
=============================================================================
