---------------------------- MODULE MainWorldProofs ----------------------------
(* What holds of MainWorld for any tools, any calls of the page and any        *)
(* number of polls; and of GatewayPolicy, the worker's side of such a call,    *)
(* for any number of decisions and any size of their cache.                    *)
EXTENDS MainWorld, GatewayPolicy, WellFoundedInduction, TLAPS

-----------------------------------------------------------------------------
(* Type correctness                                                        *)

\* The script polls only after it was injected, and stops at the last poll.
PollsLeft ==
    /\ script = "requested" => polls = 0 /\ ~polling
    /\ polling => polls < MaxPolls

MainTyped == MainTypeOK /\ PollsLeft

\* The calls' half and the registry's half of the types.
CallsTyped ==
    /\ promise \in [PageCalls -> {"none", "pending", "result", "cancelled", "failed", "timeout"}]
    /\ stage \in [PageCalls -> {"none", "called", "asked", "dialog", "confirmed", "done"}]
    /\ posted \in [PageCalls -> {"none", "result", "cancelled", "failed"}]
    /\ ran \in [PageCalls -> 0 .. 1]

RegistryTyped ==
    /\ script \in {"requested", "running", "failed"}
    /\ offered \in BOOLEAN /\ shown \in BOOLEAN /\ registered \in BOOLEAN
    /\ polling \in BOOLEAN /\ watching \in BOOLEAN
    /\ unwanted \subseteq McpTools /\ held \subseteq McpTools /\ polls \in 0 .. MaxPolls
    /\ PollsLeft

LEMMA TypesSplit == MainTyped <=> RegistryTyped /\ CallsTyped
  BY DEF MainTyped, MainTypeOK, RegistryTyped, CallsTyped

LEMMA MainInitTyped == MainInit => MainTyped
  <1> SUFFICES ASSUME MainInit PROVE RegistryTyped /\ CallsTyped
    BY TypesSplit
  <1>1. RegistryTyped
    <2>1. PollsLeft
      BY DEF MainInit, PollsLeft
    <2>2. offered \in BOOLEAN /\ shown \in BOOLEAN /\ registered \in BOOLEAN /\ polling \in BOOLEAN /\ watching \in BOOLEAN
      BY DEF MainInit
    <2>3. polls \in 0 .. MaxPolls /\ held \subseteq McpTools /\ unwanted \subseteq McpTools
      BY MainAssumption DEF MainInit
    <2> QED BY <2>1, <2>2, <2>3 DEF MainInit, RegistryTyped
  <1>2. CallsTyped
    BY DEF MainInit, CallsTyped
  <1> QED BY <1>1, <1>2

LEMMA RegistersTyped == RegistryTyped /\ Registers => RegistryTyped'
  <1> SUFFICES ASSUME RegistryTyped, Registers PROVE RegistryTyped'
    OBVIOUS
  <1> USE MainAssumption DEF RegistryTyped, PollsLeft
  <1>1. ASSUME TryRegister PROVE held' \subseteq McpTools /\ registered' \in BOOLEAN
    BY <1>1 DEF TryRegister
  <1>2. CASE InjectMain
    <2>1. script' = "running" \/ script' = "failed"
      BY <1>2 DEF InjectMain
    <2>2. polls' = 0 /\ 0 < MaxPolls /\ polls' \in 0 .. MaxPolls
      BY <1>2 DEF InjectMain
    <2>3. PollsLeft'
      BY <2>1, <2>2
    <2>4. polling' \in BOOLEAN /\ watching' \in BOOLEAN
      BY <1>2 DEF InjectMain
    <2>5. held' \subseteq McpTools /\ registered' \in BOOLEAN
      BY <1>1, <1>2 DEF InjectMain
    <2> QED BY <1>2, <2>1, <2>2, <2>3, <2>4, <2>5 DEF InjectMain
  <1>3. CASE Poll
    <2>1. polls < MaxPolls /\ polls \in Nat /\ polls' = polls + 1 /\ MaxPolls \in Nat
      BY <1>3 DEF Poll
    <2>2. polls' \in 0 .. MaxPolls
      BY <2>1
    <2>3. polling' => ~(polls' >= MaxPolls)
      BY <1>3 DEF Poll
    <2>4. polling' => polls' < MaxPolls
      BY <2>1, <2>3
    <2>5. script' # "requested"
      BY <1>3 DEF Poll
    <2>6. polling' \in BOOLEAN
      BY <1>3 DEF Poll
    <2>7. PollsLeft'
      BY <2>4, <2>5
    <2> QED BY <1>1, <1>3, <2>2, <2>6, <2>7 DEF Poll
  <1>4. CASE Hide
    BY <1>4 DEF Hide
  <1>5. CASE Show
    BY <1>1, <1>5 DEF Show
  <1>6. CASE BrowserChanges
    BY <1>6 DEF BrowserChanges
  <1> QED BY <1>2, <1>3, <1>4, <1>5, <1>6 DEF Registers

LEMMA CallsKeepTypes == \A c \in PageCalls : CallsTyped /\ Calls(c) => CallsTyped'
  <1> SUFFICES ASSUME NEW c \in PageCalls, CallsTyped, Calls(c) PROVE CallsTyped'
    OBVIOUS
  <1> USE DEF CallsTyped, Put
  <1>1. CASE Execute(c) \/ BridgeReads(c) \/ WorkerRuns(c) \/ AnswerConfirm(c) \/ Confirms(c) \/ CallTimedOut(c)
    BY <1>1 DEF Execute, BridgeReads, WorkerRuns, AnswerConfirm, Confirms, CallTimedOut
  <1>2. CASE AnswerOk(c) \/ AnswerError(c) \/ Declines(c)
    BY <1>2 DEF AnswerOk, AnswerError, Declines, PostsResult
  <1>3. CASE Delivered(c)
    BY <1>3 DEF Delivered
  <1> QED BY <1>1, <1>2, <1>3 DEF Calls

LEMMA MainNextTyped == MainTyped /\ [MainNext]_mainVars => MainTyped'
  <1> SUFFICES ASSUME RegistryTyped, CallsTyped, [MainNext]_mainVars PROVE RegistryTyped' /\ CallsTyped'
    BY TypesSplit, PTL
  <1>1. CASE Registers
    BY <1>1, RegistersTyped DEF Registers, callVars, CallsTyped
  <1>2. ASSUME NEW c \in PageCalls, Calls(c) PROVE RegistryTyped' /\ CallsTyped'
    BY <1>2, CallsKeepTypes DEF Calls, registryVars, RegistryTyped, PollsLeft
  <1>3. CASE UNCHANGED mainVars
    BY <1>3 DEF mainVars, registryVars, callVars, RegistryTyped, PollsLeft, CallsTyped
  <1> QED BY <1>1, <1>2, <1>3 DEF MainNext

\* Every variable keeps its type, and the script polls no more often than it may.
THEOREM MainIsTyped == MainSpec => []MainTypeOK
  <1>1. MainTyped => MainTypeOK
    BY DEF MainTyped
  <1> QED BY <1>1, MainInitTyped, MainNextTyped, PTL DEF MainSpec

-----------------------------------------------------------------------------
(* The page is told what happened                                          *)

\* What a call's dialog, its message to the page and its promise say of the tool.
CallIsTrue(c) ==
    /\ promise[c] = "none" => stage[c] = "none" /\ posted[c] = "none"
    /\ stage[c] = "dialog" => ran[c] = 0
    /\ posted[c] = "result" \/ promise[c] = "result" => ran[c] = 1
    /\ posted[c] = "cancelled" \/ promise[c] = "cancelled" => ran[c] = 0 /\ stage[c] = "done"

MainIInv == CallsTyped /\ \A c \in PageCalls : CallIsTrue(c)

LEMMA MainInitTrue == MainInit => MainIInv
  BY DEF MainInit, MainIInv, CallsTyped, CallIsTrue

\* A step of a call changes nothing of the others.
LEMMA CallsAreApart ==
    ASSUME CallsTyped, NEW c \in PageCalls, Calls(c), NEW d \in PageCalls, d # c
    PROVE  promise'[d] = promise[d] /\ stage'[d] = stage[d] /\ posted'[d] = posted[d] /\ ran'[d] = ran[d]
  BY DEF Calls, Execute, BridgeReads, WorkerRuns, AnswerOk, AnswerError, AnswerConfirm, Confirms,
         Declines, PostsResult, Delivered, CallTimedOut, Put, CallsTyped

LEMMA CallStaysTrue ==
    ASSUME CallsTyped, NEW c \in PageCalls, CallIsTrue(c), Calls(c)
    PROVE  CallIsTrue(c)'
  <1> USE DEF CallsTyped, CallIsTrue, Put
  <1>1. CASE Execute(c)
    BY <1>1 DEF Execute
  <1>2. CASE BridgeReads(c)
    BY <1>2 DEF BridgeReads
  <1>3. CASE WorkerRuns(c)
    BY <1>3 DEF WorkerRuns
  <1>4. CASE AnswerOk(c)
    BY <1>4 DEF AnswerOk, PostsResult
  <1>5. CASE AnswerError(c)
    BY <1>5 DEF AnswerError, PostsResult
  <1>6. CASE AnswerConfirm(c)
    BY <1>6 DEF AnswerConfirm
  <1>7. CASE Confirms(c)
    BY <1>7 DEF Confirms
  <1>8. CASE Declines(c)
    BY <1>8 DEF Declines, PostsResult
  <1>9. CASE Delivered(c)
    BY <1>9 DEF Delivered
  <1>10. CASE CallTimedOut(c)
    BY <1>10 DEF CallTimedOut
  <1> QED BY <1>1, <1>2, <1>3, <1>4, <1>5, <1>6, <1>7, <1>8, <1>9, <1>10 DEF Calls

LEMMA MainNextTrue == MainIInv /\ [MainNext]_mainVars => MainIInv'
  <1> SUFFICES ASSUME MainIInv, [MainNext]_mainVars PROVE MainIInv'
    OBVIOUS
  <1>1. ASSUME UNCHANGED callVars PROVE MainIInv'
    BY <1>1 DEF callVars, MainIInv, CallsTyped, CallIsTrue
  <1>2. ASSUME NEW c \in PageCalls, Calls(c) PROVE MainIInv'
    <2>1. CallsTyped'
      BY <1>2, CallsKeepTypes DEF MainIInv
    <2>2. ASSUME NEW d \in PageCalls PROVE CallIsTrue(d)'
      <3>1. CASE d = c
        BY <1>2, <3>1, CallStaysTrue DEF MainIInv
      <3>2. CASE d # c
        BY <1>2, <3>2, CallsAreApart DEF MainIInv, CallIsTrue
      <3> QED BY <3>1, <3>2
    <2> QED BY <2>1, <2>2 DEF MainIInv
  <1>3. CASE Registers
    BY <1>1, <1>3 DEF Registers
  <1>4. CASE UNCHANGED mainVars
    BY <1>1, <1>4 DEF mainVars
  <1> QED BY <1>2, <1>3, <1>4 DEF MainNext

\* A page is never given a result of a tool that did not run, nor told that the user
\* cancelled a call that has run or will.
THEOREM PageIsToldTruly == MainSpec => []ToldTruly
  <1>1. MainIInv => ToldTruly
    BY DEF MainIInv, CallIsTrue, ToldTruly
  <1> QED BY <1>1, MainInitTrue, MainNextTrue, PTL DEF MainSpec

-----------------------------------------------------------------------------
(* The hooks around a page's call                                            *)

WebPlaces == {"idle", "settings", "token", "asked", "locking", "denied", "gate", "page", "run",
              "telemetry", "over"}

WebRecords ==
    [at : WebPlaces, decision : [id : Nat, from : {"none", "off", "service"}, expires : Nat],
     began : Nat, confirmed : BOOLEAN, before : Nat]

\* While a decision is being made, ...
Undecided == {"settings", "token", "asked", "locking", "denied"}
\* ... and until the tool has run under it.
InUse == Undecided \cup {"gate", "run"}

IdOf(c) == call[c].decision.id

GatewayTyped ==
    /\ clock \in Nat /\ issued \in Nat /\ parent \in Nat
    /\ call \in [WebCalls -> WebRecords]
    /\ known \in [WebCalls -> SUBSET (0 .. issued)]
    /\ \A e \in cache : e.id \in 1 .. issued /\ e.from \in {"off", "service"} /\ e.expires \in Nat
    /\ spent \subseteq 0 .. issued

\* A decision is the call's alone while it is made, and is afterwards found only
\* under the key it was made for.
DecisionsKeyed ==
    /\ \A c \in WebCalls : IdOf(c) \in 0 .. issued
    /\ \A e, f \in cache : e.id = f.id => e.key = f.key
    /\ \A e \in cache, c \in WebCalls : IdOf(c) = e.id => Tool[c] = e.key
    /\ \A c \in WebCalls : call[c].at \in Undecided =>
          /\ IdOf(c) # 0 /\ IdOf(c) \notin spent
          /\ \A e \in cache : e.id # IdOf(c)
          /\ \A d \in WebCalls \ {c} : IdOf(d) # IdOf(c)
    /\ \A c, d \in WebCalls : (IdOf(c) = IdOf(d) /\ IdOf(c) # 0) => Tool[c] = Tool[d]

\* A decision that a call has used up is in no cache, and was none of the calls'
\* that began later.
DecisionsFresh ==
    /\ \A e \in cache : e.id \notin spent
    /\ \A c \in WebCalls : call[c].at \in InUse =>
          /\ IdOf(c) \notin known[c] /\ IdOf(c) # 0
          /\ call[c].decision.expires > call[c].began
    /\ \A c \in WebCalls : call[c].at \in {"gate", "run"} => call[c].decision.from # "none"

\* The running calls are ordered by their beginning.
Ordered ==
    /\ outer \in [WebCalls -> SUBSET WebCalls] /\ unnested \subseteq WebCalls
    /\ \A c, d \in WebCalls : c \in outer[d] => c \in Running /\ d \in Running /\ c # d
    /\ \A c, d \in Running : c # d => c \in outer[d] \/ d \in outer[c]
    /\ \A c, d, e \in WebCalls : (c \in outer[d] /\ d \in outer[e]) => c \in outer[e]

\* d began when c was the last of those that still run.
Follows(d, c) == c \in outer[d] /\ \A e \in WebCalls : ~(c \in outer[e] /\ e \in outer[d])

\* The context of a call that was not crossed is the ambient one, or kept by
\* the call that follows it.
Nested ==
    \A c \in Running \ unnested :
        /\ (\A d \in WebCalls : c \notin outer[d]) => parent = IdOf(c)
        /\ \A d \in WebCalls : Follows(d, c) => call[d].before = IdOf(c)

GatewayIInv == GatewayTyped /\ DecisionsKeyed /\ DecisionsFresh /\ Ordered /\ Nested

\* A step that begins and ends no tool.
LEMMA NestKept ==
    ASSUME Ordered, Nested, UNCHANGED <<parent, outer>>, unnested' \subseteq WebCalls,
           \A d \in WebCalls : (call'[d].at = "run") <=> (call[d].at = "run"),
           \A d \in Running : /\ d \in unnested' <=> d \in unnested
                              /\ IdOf(d)' = IdOf(d) /\ call'[d].before = call[d].before
    PROVE  Ordered' /\ Nested'
  <1>1. Running' = Running
    BY DEF Running
  <1>2. Ordered'
    BY <1>1 DEF Ordered
  <1>3. \A c, d \in WebCalls : Follows(d, c)' <=> Follows(d, c)
    BY DEF Follows
  <1>4. \A c, d \in WebCalls : Follows(d, c) => d \in Running
    BY DEF Follows, Ordered
  <1>5. Nested'
    <2> SUFFICES ASSUME NEW c \in Running' \ unnested'
                 PROVE  /\ (\A d \in WebCalls : c \notin outer'[d]) => parent' = IdOf(c)'
                        /\ \A d \in WebCalls : Follows(d, c)' => call'[d].before = IdOf(c)'
      BY DEF Nested
    <2>1. c \in Running \ unnested /\ c \in WebCalls /\ IdOf(c)' = IdOf(c)
      BY <1>1 DEF Running
    <2>2. (\A d \in WebCalls : c \notin outer[d]) => parent = IdOf(c)
      BY <2>1 DEF Nested
    <2>3. \A d \in WebCalls : Follows(d, c) => call[d].before = IdOf(c)
      BY <2>1 DEF Nested
    <2>4. \A d \in WebCalls : Follows(d, c)' => call'[d].before = IdOf(c)'
      BY <1>3, <1>4, <2>1, <2>3
    <2> QED BY <2>1, <2>2, <2>4
  <1> QED BY <1>2, <1>5

LEMMA GatewayIInvInit == GatewayInit => GatewayIInv
  <1> SUFFICES ASSUME GatewayInit PROVE GatewayIInv
    OBVIOUS
  <1>1. GatewayTyped
    BY DEF GatewayInit, GatewayTyped, WebRecords, WebPlaces, NewCall, NoDecision
  <1>2. \A c \in WebCalls : call[c].at = "idle" /\ IdOf(c) = 0
    BY DEF GatewayInit, IdOf, NewCall, NoDecision
  <1>3. DecisionsKeyed /\ DecisionsFresh
    BY <1>2 DEF GatewayInit, DecisionsKeyed, DecisionsFresh, Undecided, InUse
  <1>4. Running = {} /\ outer = [c \in WebCalls |-> {}] /\ unnested = {}
    BY <1>2 DEF GatewayInit, Running
  <1>5. Ordered /\ Nested
    BY <1>4 DEF Ordered, Nested
  <1> QED BY <1>1, <1>3, <1>5 DEF GatewayIInv

\* A call that only goes on.
LEMMA CallMoved ==
    ASSUME GatewayTyped, NEW c \in WebCalls, NEW p \in WebPlaces, CallMoves(c, p)
    PROVE  /\ call' \in [WebCalls -> WebRecords]
           /\ \A d \in WebCalls : /\ call'[d].decision = call[d].decision /\ call'[d].began = call[d].began
                                  /\ call'[d].at = IF d = c THEN p ELSE call[d].at
  <1>1. call[c] \in WebRecords
    BY DEF GatewayTyped
  <1>2. call' = [call EXCEPT ![c] = [call[c] EXCEPT !.at = p]] /\ [call[c] EXCEPT !.at = p] \in WebRecords
    BY <1>1 DEF CallMoves, WebRecords
  <1>3. [call[c] EXCEPT !.at = p].at = p /\ [call[c] EXCEPT !.at = p].decision = call[c].decision
        /\ [call[c] EXCEPT !.at = p].began = call[c].began
    BY <1>1 DEF WebRecords
  <1> QED BY <1>2, <1>3 DEF GatewayTyped

\* It keeps the invariant where it goes on with its decision as it has it.
LEMMA MoveSound ==
    ASSUME GatewayIInv, NEW c \in WebCalls, NEW p \in WebPlaces, CallMoves(c, p),
           p \in Undecided => call[c].at \in Undecided, p \notin {"gate", "run"},
           call[c].at # "run", cache' \subseteq cache,
           UNCHANGED <<clock, issued, parent, outer, unnested, spent, known>>
    PROVE  GatewayIInv'
  <1>1. /\ call' \in [WebCalls -> WebRecords]
        /\ \A d \in WebCalls : /\ call'[d].decision = call[d].decision /\ call'[d].began = call[d].began
                               /\ call'[d].at = IF d = c THEN p ELSE call[d].at
    BY CallMoved DEF GatewayIInv
  <1>2. GatewayTyped'
    BY <1>1 DEF GatewayIInv, GatewayTyped
  <1>3. \A d \in WebCalls : /\ IdOf(d)' = IdOf(d)
                            /\ call'[d].at \in Undecided => call[d].at \in Undecided
                            /\ call'[d].at \in InUse => call[d].at \in InUse
                            /\ call'[d].at \in {"gate", "run"} => call'[d].at = call[d].at
    BY <1>1 DEF IdOf, InUse
  <1>4. DecisionsKeyed'
    BY <1>3 DEF GatewayIInv, DecisionsKeyed
  <1>5. DecisionsFresh'
    BY <1>1, <1>3 DEF GatewayIInv, DecisionsFresh
  <1>6. Ordered' /\ Nested'
    <2>1. \A d \in WebCalls : call'[d].before = call[d].before
      BY DEF GatewayIInv, GatewayTyped, CallMoves, WebRecords
    <2>2. \A d \in WebCalls : (call'[d].at = "run") <=> (call[d].at = "run")
      BY <1>1
    <2>3. Running \subseteq WebCalls /\ unnested' \subseteq WebCalls
      BY DEF Running, GatewayIInv, Ordered
    <2> QED BY <1>3, <2>1, <2>2, <2>3, NestKept DEF GatewayIInv
  <1> QED BY <1>2, <1>4, <1>5, <1>6 DEF GatewayIInv

\* A call that has answered runs under no decision.
LEMMA WebCallEnded ==
    ASSUME GatewayTyped, NEW c \in WebCalls, CallEnds(c)
    PROVE  /\ call' \in [WebCalls -> WebRecords] /\ call'[c].at = "over" /\ IdOf(c)' = 0
           /\ \A d \in WebCalls \ {c} : call'[d] = call[d] /\ IdOf(d)' = IdOf(d)
  <1> DEFINE n == [NewCall EXCEPT !.at = "over"]
  <1>1. n \in WebRecords /\ n.at = "over" /\ n.decision.id = 0
    BY DEF WebRecords, WebPlaces, NewCall, NoDecision
  <1>2. call' = [call EXCEPT ![c] = n]
    BY DEF CallEnds
  <1> HIDE DEF n
  <1>3. call' \in [WebCalls -> WebRecords] /\ call'[c] = n /\ \A d \in WebCalls \ {c} : call'[d] = call[d]
    BY <1>1, <1>2 DEF GatewayTyped
  <1> QED BY <1>1, <1>3 DEF IdOf

LEMMA WebCallEndSound ==
    ASSUME GatewayIInv, NEW c \in WebCalls, CallEnds(c), call[c].at # "run", cache' \subseteq cache,
           UNCHANGED <<clock, issued, parent, outer, unnested, spent, known>>
    PROVE  GatewayIInv'
  <1>1. /\ call' \in [WebCalls -> WebRecords] /\ call'[c].at = "over" /\ IdOf(c)' = 0
        /\ \A d \in WebCalls \ {c} : call'[d] = call[d] /\ IdOf(d)' = IdOf(d)
    BY WebCallEnded DEF GatewayIInv
  <1>2. GatewayTyped'
    BY <1>1 DEF GatewayIInv, GatewayTyped
  <1>3. \A d \in WebCalls : call'[d].at \in Undecided \cup InUse => d # c
    BY <1>1 DEF Undecided, InUse
  <1>4. DecisionsKeyed'
    <2>1. \A d \in WebCalls : IdOf(d)' \in 0 .. issued' /\ (IdOf(d)' = IdOf(d) \/ IdOf(d)' = 0)
      BY <1>1, <1>2 DEF GatewayIInv, DecisionsKeyed, GatewayTyped
    <2>2. \A e \in cache, d \in WebCalls : IdOf(d)' = e.id => Tool[d] = e.key
      BY <1>1, <1>2, <2>1 DEF GatewayIInv, DecisionsKeyed, GatewayTyped
    <2> QED BY <1>1, <1>3, <2>1, <2>2 DEF GatewayIInv, DecisionsKeyed
  <1>5. DecisionsFresh'
    BY <1>1, <1>3 DEF GatewayIInv, DecisionsFresh, InUse
  <1>6. Ordered' /\ Nested'
    <2>1. \A d \in WebCalls : (call'[d].at = "run") <=> (call[d].at = "run")
      BY <1>1
    <2>2. Running \subseteq WebCalls \ {c} /\ unnested' \subseteq WebCalls
      BY DEF Running, GatewayIInv, Ordered
    <2> QED BY <1>1, <2>1, <2>2, NestKept DEF GatewayIInv
  <1> QED BY <1>2, <1>4, <1>5, <1>6 DEF GatewayIInv

LEMMA PrunedCache ==
    pruneCache(cache) \subseteq {e \in cache : e.expires > clock}
  BY DEF pruneCache, Newest

LEMMA BeginSound ==
    ASSUME GatewayIInv, NEW c \in WebCalls, WebCallBegins(c)
    PROVE  GatewayIInv'
  <1> DEFINE hits == Hits(cache', c)
  <1>1. cache' \subseteq {e \in cache : e.expires > clock}
    BY PrunedCache DEF WebCallBegins
  <1>2. /\ clock \in Nat /\ issued \in Nat /\ issued' \in Nat /\ issued <= issued'
        /\ issued' = issued + (IF hits = {} THEN 1 ELSE 0)
    BY DEF WebCallBegins, GatewayIInv, GatewayTyped
  <1>3. PICK d : /\ d \in IF hits = {} THEN {[id |-> issued', from |-> "none", expires |-> clock + Ttl]}
                          ELSE {[id |-> e.id, from |-> e.from, expires |-> e.expires] : e \in hits}
                 /\ call' = [call EXCEPT ![c] = [at |-> IF hits = {} THEN "settings" ELSE "gate",
                                                 decision |-> d, began |-> clock,
                                                 confirmed |-> CallAt(c, "page"), before |-> 0]]
    BY DEF WebCallBegins
  <1>4. \A e \in hits : e \in cache /\ e.key = Tool[c] /\ e.expires > clock
    BY <1>1 DEF Hits
  <1> HIDE DEF hits
  <1>5. /\ d.id \in 1 .. issued' /\ d.from \in {"none", "off", "service"} /\ d.expires \in Nat /\ d.expires > clock
        /\ d \in [id : Nat, from : {"none", "off", "service"}, expires : Nat]
        /\ d.id \notin spent
        /\ hits # {} => /\ d.from # "none"
                        /\ \E e \in cache : d.id = e.id /\ e.key = Tool[c]
        /\ hits = {} => d.id = issued + 1
    <2>1. CASE hits = {}
      <3>1. clock + Ttl \in Nat /\ clock + Ttl > clock /\ issued' = issued + 1
        BY <1>2, <2>1, GatewayAssumption
      <3>2. d = [id |-> issued', from |-> "none", expires |-> clock + Ttl]
        BY <1>3, <2>1
      <3>3. issued + 1 \notin spent
        BY <1>2 DEF GatewayIInv, GatewayTyped
      <3> QED BY <1>2, <2>1, <3>1, <3>2, <3>3
    <2>2. CASE hits # {}
      <3>1. PICK e \in hits : d = [id |-> e.id, from |-> e.from, expires |-> e.expires]
        BY <1>3, <2>2
      <3>2. e \in cache /\ e.key = Tool[c] /\ e.expires > clock
        BY <1>4, <3>1
      <3>3. e.id \in 1 .. issued /\ e.from \in {"off", "service"} /\ e.expires \in Nat /\ e.id \notin spent
        BY <3>2 DEF GatewayIInv, GatewayTyped, DecisionsFresh
      <3> QED BY <1>2, <2>2, <3>1, <3>2, <3>3
    <2> QED BY <2>1, <2>2
  <1>6. CallAt(c, "page") \in BOOLEAN
    BY DEF CallAt
  <1>7. /\ call' \in [WebCalls -> WebRecords]
        /\ call'[c].decision = d /\ call'[c].began = clock
        /\ call'[c].at = IF hits = {} THEN "settings" ELSE "gate"
        /\ \A b \in WebCalls \ {c} : call'[b] = call[b]
    <2> DEFINE r == [at |-> IF hits = {} THEN "settings" ELSE "gate", decision |-> d, began |-> clock,
                     confirmed |-> CallAt(c, "page"), before |-> 0]
    <2>1. r \in WebRecords
      BY <1>2, <1>5, <1>6 DEF WebRecords, WebPlaces
    <2>2. r.decision = d /\ r.began = clock /\ r.at = IF hits = {} THEN "settings" ELSE "gate"
      OBVIOUS
    <2>3. call' = [call EXCEPT ![c] = r]
      BY <1>3
    <2> HIDE DEF r
    <2> QED BY <2>1, <2>2, <2>3 DEF GatewayIInv, GatewayTyped
  <1>8. /\ known' = [known EXCEPT ![c] = spent] /\ unnested' = unnested \ {c} /\ outer' = outer
        /\ UNCHANGED <<clock, parent, spent>> /\ call[c].at # "run"
    BY DEF WebCallBegins
  <1>9. IdOf(c)' = d.id /\ \A b \in WebCalls \ {c} : IdOf(b)' = IdOf(b)
    BY <1>7 DEF IdOf
  <1>10. GatewayTyped'
    <2>1. known' \in [WebCalls -> SUBSET (0 .. issued')]
      BY <1>2, <1>8 DEF GatewayIInv, GatewayTyped
    <2>2. \A e \in cache' : e.id \in 1 .. issued' /\ e.from \in {"off", "service"} /\ e.expires \in Nat
      BY <1>1, <1>2 DEF GatewayIInv, GatewayTyped
    <2>3. spent' \subseteq 0 .. issued'
      BY <1>2, <1>8 DEF GatewayIInv, GatewayTyped
    <2>4. clock' \in Nat /\ parent' \in Nat
      BY <1>8 DEF GatewayIInv, GatewayTyped
    <2> QED BY <1>2, <1>7, <2>1, <2>2, <2>3, <2>4 DEF GatewayTyped
  <1>11. \A b \in WebCalls \ {c} : IdOf(b) \in 0 .. issued
    BY DEF GatewayIInv, DecisionsKeyed
  <1>12. DecisionsKeyed'
    <2>1. \A b \in WebCalls : IdOf(b)' \in 0 .. issued'
      BY <1>2, <1>5, <1>9, <1>11
    <2>2. ASSUME NEW e \in cache', NEW b \in WebCalls, IdOf(b)' = e.id
          PROVE  Tool[b] = e.key
      <3>1. e \in cache /\ e.id \in 1 .. issued
        BY <1>1 DEF GatewayIInv, GatewayTyped
      <3>2. CASE b # c
        BY <1>9, <2>2, <3>1, <3>2 DEF GatewayIInv, DecisionsKeyed
      <3>3. CASE b = c
        <4>1. hits # {}
          BY <1>2, <1>5, <1>9, <2>2, <3>1, <3>3
        <4>2. PICK f \in cache : d.id = f.id /\ f.key = Tool[c]
          BY <1>5, <4>1
        <4> QED BY <1>9, <2>2, <3>1, <3>3, <4>2 DEF GatewayIInv, DecisionsKeyed
      <3> QED BY <3>2, <3>3
    <2>3. \A e, f \in cache' : e.id = f.id => e.key = f.key
      BY <1>1 DEF GatewayIInv, DecisionsKeyed
    <2>4. ASSUME NEW b \in WebCalls, call'[b].at \in Undecided
          PROVE  /\ IdOf(b)' # 0 /\ IdOf(b)' \notin spent'
                 /\ \A e \in cache' : e.id # IdOf(b)'
                 /\ \A x \in WebCalls \ {b} : IdOf(x)' # IdOf(b)'
      <3>1. CASE b = c
        <4>1. hits = {} /\ IdOf(b)' = issued + 1
          BY <1>5, <1>7, <1>9, <2>4, <3>1 DEF Undecided
        <4>2. \A e \in cache' : e.id # issued + 1
          BY <1>1, <1>2 DEF GatewayIInv, GatewayTyped
        <4>3. \A x \in WebCalls \ {c} : IdOf(x)' # issued + 1
          BY <1>2, <1>9, <1>11
        <4> QED BY <1>2, <1>5, <1>8, <3>1, <4>1, <4>2, <4>3
      <3>2. CASE b # c
        <4>1. call[b].at \in Undecided /\ IdOf(b)' = IdOf(b)
          BY <1>7, <1>9, <2>4, <3>2
        <4>2. /\ IdOf(b) # 0 /\ IdOf(b) \notin spent /\ \A e \in cache : e.id # IdOf(b)
              /\ \A x \in WebCalls \ {b} : IdOf(x) # IdOf(b)
          BY <4>1 DEF GatewayIInv, DecisionsKeyed
        <4>3. d.id # IdOf(b)
          BY <1>2, <1>5, <1>11, <3>2, <4>2
        <4> QED BY <1>1, <1>8, <1>9, <4>1, <4>2, <4>3
      <3> QED BY <3>1, <3>2
    <2>5. ASSUME NEW b \in WebCalls \ {c}, IdOf(b) = d.id PROVE Tool[b] = Tool[c]
      <3>1. CASE hits = {}
        BY <1>2, <1>5, <1>11, <2>5, <3>1
      <3>2. CASE hits # {}
        <4>1. PICK f \in cache : d.id = f.id /\ f.key = Tool[c]
          BY <1>5, <3>2
        <4> QED BY <2>5, <4>1 DEF GatewayIInv, DecisionsKeyed
      <3> QED BY <3>1, <3>2
    <2>6. \A a, b \in WebCalls : (IdOf(a)' = IdOf(b)' /\ IdOf(a)' # 0) => Tool[a] = Tool[b]
      BY <1>9, <2>5 DEF GatewayIInv, DecisionsKeyed
    <2> QED BY <2>1, <2>2, <2>3, <2>4, <2>6 DEF DecisionsKeyed
  <1>13. DecisionsFresh'
    <2>1. \A e \in cache' : e.id \notin spent'
      BY <1>1, <1>8 DEF GatewayIInv, DecisionsFresh
    <2>2. ASSUME NEW b \in WebCalls, call'[b].at \in InUse
          PROVE  /\ IdOf(b)' \notin known'[b] /\ IdOf(b)' # 0
                 /\ call'[b].decision.expires > call'[b].began
      <3>1. CASE b = c
        <4>1. known'[c] = spent
          BY <1>8 DEF GatewayIInv, GatewayTyped
        <4> QED BY <1>5, <1>7, <1>9, <3>1, <4>1
      <3>2. CASE b # c
        <4>1. known'[b] = known[b] /\ call'[b] = call[b] /\ IdOf(b)' = IdOf(b)
          BY <1>7, <1>8, <1>9, <3>2 DEF GatewayIInv, GatewayTyped
        <4> QED BY <2>2, <4>1 DEF GatewayIInv, DecisionsFresh
      <3> QED BY <3>1, <3>2
    <2>3. ASSUME NEW b \in WebCalls, call'[b].at \in {"gate", "run"}
          PROVE  call'[b].decision.from # "none"
      <3>1. CASE b = c
        BY <1>5, <1>7, <2>3, <3>1
      <3>2. CASE b # c
        BY <1>7, <2>3, <3>2 DEF GatewayIInv, DecisionsFresh
      <3> QED BY <3>1, <3>2
    <2> QED BY <2>1, <2>2, <2>3 DEF DecisionsFresh
  <1>14. Ordered' /\ Nested'
    <2>1. \A b \in WebCalls : (call'[b].at = "run") <=> (call[b].at = "run")
      <3>1. call'[c].at # "run" /\ call[c].at # "run"
        BY <1>7, <1>8
      <3>2. \A b \in WebCalls \ {c} : call'[b] = call[b]
        BY <1>7
      <3> QED BY <3>1, <3>2
    <2>2. Running \subseteq WebCalls /\ c \notin Running /\ unnested' \subseteq WebCalls
      BY <1>7, <1>8, <2>1 DEF Running, GatewayIInv, Ordered
    <2>3. \A b \in Running : (b \in unnested' <=> b \in unnested) /\ call'[b].before = call[b].before
      BY <1>7, <1>8, <2>2
    <2>4. \A b \in Running : IdOf(b)' = IdOf(b)
      BY <1>9, <2>2
    <2>5. UNCHANGED <<parent, outer>>
      BY <1>8
    <2> QED BY <2>1, <2>2, <2>3, <2>4, <2>5, NestKept DEF GatewayIInv
  <1> QED BY <1>10, <1>12, <1>13, <1>14 DEF GatewayIInv

\* A decision becomes the cache's.
LEMMA AllowedSound ==
    ASSUME GatewayIInv, NEW c \in WebCalls, NEW source \in {"off", "service"}, Allowed(c, source),
           call[c].at \in Undecided, UNCHANGED <<clock, parent, outer, unnested, spent, known>>
    PROVE  GatewayIInv'
  <1>1. PICK n : cache' = (cache \ Hits(cache, c))
                          \cup {[key |-> Tool[c], id |-> call[c].decision.id, from |-> source,
                                 expires |-> call[c].decision.expires, place |-> n]}
    BY DEF Allowed, CacheSet
  <1>2. call[c] \in WebRecords /\ call \in [WebCalls -> WebRecords]
    BY DEF GatewayIInv, GatewayTyped
  <1>3. /\ call' \in [WebCalls -> WebRecords]
        /\ call'[c].at = "gate" /\ call'[c].decision.from = source /\ call'[c].decision.id = call[c].decision.id
        /\ call'[c].decision.expires = call[c].decision.expires /\ call'[c].began = call[c].began
        /\ \A b \in WebCalls \ {c} : call'[b] = call[b]
    <2> DEFINE d == [call[c].decision EXCEPT !.from = source]
               r == [call[c] EXCEPT !.at = "gate", !.decision = d]
    <2>1. /\ d \in [id : Nat, from : {"none", "off", "service"}, expires : Nat]
          /\ d.from = source /\ d.id = call[c].decision.id /\ d.expires = call[c].decision.expires
      BY <1>2 DEF WebRecords
    <2>2. call' = [call EXCEPT ![c] = r]
      BY <1>2 DEF Allowed, WebRecords
    <2> HIDE DEF d
    <2>3. r \in WebRecords /\ r.at = "gate" /\ r.decision = d /\ r.began = call[c].began
      BY <1>2, <2>1 DEF WebRecords, WebPlaces
    <2> HIDE DEF r
    <2> QED BY <1>2, <2>1, <2>2, <2>3
  <1>4. \A b \in WebCalls : IdOf(b)' = IdOf(b)
    BY <1>3 DEF IdOf
  <1>5. issued' = issued
    BY DEF Allowed
  <1>6. /\ IdOf(c) # 0 /\ IdOf(c) \notin spent /\ \A e \in cache : e.id # IdOf(c)
        /\ \A b \in WebCalls \ {c} : IdOf(b) # IdOf(c)
        /\ IdOf(c) \in 1 .. issued
    BY DEF GatewayIInv, DecisionsKeyed, GatewayTyped
  <1>7. \A e \in cache' :
            \/ e \in cache
            \/ /\ e.key = Tool[c] /\ e.id = IdOf(c) /\ e.from = source
               /\ e.expires = call[c].decision.expires
    BY <1>1 DEF IdOf
  <1>8. GatewayTyped'
    <2>1. call[c].decision.expires \in Nat
      BY <1>2 DEF WebRecords
    <2>2. \A e \in cache' : e.id \in 1 .. issued' /\ e.from \in {"off", "service"} /\ e.expires \in Nat
      BY <1>5, <1>6, <1>7, <2>1 DEF GatewayIInv, GatewayTyped
    <2> QED BY <1>3, <1>5, <2>2 DEF GatewayIInv, GatewayTyped
  <1>9. DecisionsKeyed'
    <2>1. \A e, f \in cache' : e.id = f.id => e.key = f.key
      BY <1>6, <1>7 DEF GatewayIInv, DecisionsKeyed
    <2>2. \A e \in cache', b \in WebCalls : IdOf(b)' = e.id => Tool[b] = e.key
      BY <1>4, <1>6, <1>7 DEF GatewayIInv, DecisionsKeyed
    <2>3. ASSUME NEW b \in WebCalls, call'[b].at \in Undecided
          PROVE  /\ IdOf(b)' # 0 /\ IdOf(b)' \notin spent'
                 /\ \A e \in cache' : e.id # IdOf(b)'
                 /\ \A x \in WebCalls \ {b} : IdOf(x)' # IdOf(b)'
      <3>1. b # c /\ call[b].at \in Undecided
        BY <1>3, <2>3 DEF Undecided
      <3> QED BY <1>4, <1>6, <1>7, <3>1 DEF GatewayIInv, DecisionsKeyed
    <2>4. \A b \in WebCalls : IdOf(b)' \in 0 .. issued'
      BY <1>4, <1>5 DEF GatewayIInv, DecisionsKeyed
    <2>5. \A a, b \in WebCalls : (IdOf(a)' = IdOf(b)' /\ IdOf(a)' # 0) => Tool[a] = Tool[b]
      BY <1>4 DEF GatewayIInv, DecisionsKeyed
    <2> QED BY <2>1, <2>2, <2>3, <2>4, <2>5 DEF DecisionsKeyed
  <1>10. DecisionsFresh'
    <2>1. \A e \in cache' : e.id \notin spent'
      BY <1>6, <1>7 DEF GatewayIInv, DecisionsFresh
    <2>2. \A b \in WebCalls : call'[b].at \in InUse => call[b].at \in InUse
      BY <1>3 DEF InUse
    <2>3. \A b \in WebCalls : /\ call'[b].decision.expires = call[b].decision.expires
                              /\ call'[b].began = call[b].began
      BY <1>3
    <2>4. \A b \in WebCalls : call'[b].at \in {"gate", "run"} => call'[b].decision.from # "none"
      BY <1>3 DEF GatewayIInv, DecisionsFresh
    <2> QED BY <1>4, <2>1, <2>2, <2>3, <2>4 DEF GatewayIInv, DecisionsFresh
  <1>11. Ordered' /\ Nested'
    <2>1. \A b \in WebCalls : (call'[b].at = "run") <=> (call[b].at = "run")
      BY <1>3 DEF Undecided
    <2>2. Running \subseteq WebCalls /\ c \notin Running /\ unnested' \subseteq WebCalls
      BY DEF Running, Undecided, GatewayIInv, Ordered
    <2>3. \A b \in Running : call'[b].before = call[b].before
      BY <1>3, <2>2
    <2> QED BY <1>4, <2>1, <2>2, <2>3, NestKept DEF GatewayIInv
  <1> QED BY <1>8, <1>9, <1>10, <1>11 DEF GatewayIInv

LEMMA ToolBeginsSound ==
    ASSUME GatewayIInv, NEW c \in WebCalls, ToolBegins(c)
    PROVE  GatewayIInv'
  <1>1. call[c] \in WebRecords /\ call \in [WebCalls -> WebRecords] /\ parent \in Nat
    BY DEF GatewayIInv, GatewayTyped
  <1>2. /\ call' \in [WebCalls -> WebRecords]
        /\ call'[c].at = "run" /\ call'[c].decision = call[c].decision /\ call'[c].began = call[c].began
        /\ \A b \in WebCalls \ {c} : call'[b] = call[b]
    <2> DEFINE r == [call[c] EXCEPT !.at = "run", !.before = parent]
    <2>1. call' = [call EXCEPT ![c] = r]
      BY <1>1 DEF ToolBegins, WebRecords
    <2>2. r \in WebRecords /\ r.at = "run" /\ r.decision = call[c].decision /\ r.began = call[c].began
      BY <1>1 DEF WebRecords, WebPlaces
    <2> HIDE DEF r
    <2> QED BY <1>1, <2>1, <2>2
  <1>3. /\ \A b \in WebCalls : IdOf(b)' = IdOf(b) /\ parent' = IdOf(c)
        /\ call[c].at = "gate" /\ UNCHANGED <<clock, cache, issued, spent, known>>
    BY <1>2 DEF ToolBegins, IdOf, CallAt, userVars, cacheVars
  <1>4. GatewayTyped'
    <2>1. parent' \in Nat
      BY <1>1, <1>3 DEF IdOf, WebRecords
    <2> QED BY <1>2, <1>3, <2>1 DEF GatewayIInv, GatewayTyped
  <1>5. \A b \in WebCalls : /\ call'[b].at \in Undecided => call[b].at \in Undecided
                            /\ call'[b].at \in InUse => call[b].at \in InUse
                            /\ call'[b].at \in {"gate", "run"} => call[b].at \in {"gate", "run"}
                            /\ call'[b].decision = call[b].decision /\ call'[b].began = call[b].began
    BY <1>2, <1>3 DEF Undecided, InUse
  <1>6. DecisionsKeyed'
    BY <1>3, <1>5 DEF GatewayIInv, DecisionsKeyed
  <1>7. DecisionsFresh'
    BY <1>3, <1>5 DEF GatewayIInv, DecisionsFresh
  <1>8. /\ Running' = Running \cup {c} /\ c \notin Running /\ Running \subseteq WebCalls
        /\ unnested' = unnested /\ outer' = [outer EXCEPT ![c] = Running]
        /\ call'[c].before = parent
    BY <1>1, <1>2, <1>3 DEF Running, ToolBegins, WebRecords
  <1>9. /\ outer' \in [WebCalls -> SUBSET WebCalls] /\ outer'[c] = Running
        /\ \A d \in WebCalls : d # c => outer'[d] = outer[d]
        /\ \A d \in WebCalls : c \notin outer'[d]
    BY <1>8 DEF GatewayIInv, Ordered
  <1>10. Ordered'
    <2>1. \A a, d \in WebCalls : a \in outer'[d] => a \in Running' /\ d \in Running' /\ a # d
      BY <1>8, <1>9 DEF GatewayIInv, Ordered
    <2>2. \A a, d \in Running' : a # d => a \in outer'[d] \/ d \in outer'[a]
      BY <1>8, <1>9 DEF GatewayIInv, Ordered
    <2>3. \A a, d, e \in WebCalls : (a \in outer'[d] /\ d \in outer'[e]) => a \in outer'[e]
      BY <1>8, <1>9 DEF GatewayIInv, Ordered
    <2> QED BY <1>8, <1>9, <2>1, <2>2, <2>3 DEF GatewayIInv, Ordered
  <1>11. Nested'
    <2> SUFFICES ASSUME NEW a \in Running' \ unnested'
                 PROVE  /\ (\A d \in WebCalls : a \notin outer'[d]) => parent' = IdOf(a)'
                        /\ \A d \in WebCalls : Follows(d, a)' => call'[d].before = IdOf(a)'
      BY DEF Nested
    <2>1. CASE a = c
      BY <1>3, <1>9, <2>1 DEF Follows
    <2>2. CASE a # c
      <3>1. a \in Running \ unnested /\ a \in WebCalls /\ a \in outer'[c] /\ IdOf(a)' = IdOf(a)
        BY <1>3, <1>8, <1>9, <2>2
      <3>2. /\ (\A d \in WebCalls : a \notin outer[d]) => parent = IdOf(a)
            /\ \A d \in WebCalls : Follows(d, a) => call[d].before = IdOf(a)
        BY <3>1 DEF GatewayIInv, Nested
      <3>3. ASSUME NEW d \in WebCalls, Follows(d, a)' PROVE call'[d].before = IdOf(a)'
        <4>1. CASE d = c
          <5>1. \A e \in WebCalls : a \notin outer[e]
            <6> SUFFICES ASSUME NEW e \in WebCalls, a \in outer[e] PROVE FALSE
              OBVIOUS
            <6>1. e \in Running
              BY DEF GatewayIInv, Ordered
            <6>2. e # c /\ a \in outer'[e] /\ e \in outer'[c]
              BY <1>8, <1>9, <6>1
            <6> QED BY <3>3, <4>1, <6>2 DEF Follows
          <5> QED BY <1>8, <3>1, <3>2, <4>1, <5>1
        <4>2. CASE d # c
          <5>1. Follows(d, a)
            BY <1>8, <1>9, <3>3, <4>2 DEF Follows, GatewayIInv, Ordered
          <5> QED BY <1>2, <3>1, <3>2, <4>2, <5>1
        <4> QED BY <4>1, <4>2
      <3> QED BY <3>1, <3>3
    <2> QED BY <2>1, <2>2
  <1> QED BY <1>4, <1>6, <1>7, <1>10, <1>11 DEF GatewayIInv

\* The former context comes back: it is that of the call that began before it,
\* unless another ended in between.
LEMMA ToolOverSound ==
    ASSUME GatewayIInv, NEW c \in WebCalls, ToolOver(c)
    PROVE  GatewayIInv'
  <1>1. /\ call' \in [WebCalls -> WebRecords]
        /\ \A d \in WebCalls : /\ call'[d].decision = call[d].decision /\ call'[d].began = call[d].began
                               /\ call'[d].at = IF d = c THEN "telemetry" ELSE call[d].at
    BY CallMoved, "telemetry" \in WebPlaces DEF GatewayIInv, ToolOver, WebPlaces
  <1>2. /\ parent' = call[c].before /\ call[c].at = "run"
        /\ UNCHANGED <<clock, cache, issued, spent, known>>
    BY DEF ToolOver, CallAt, cacheVars
  <1>3. call[c].before \in Nat
    BY DEF GatewayIInv, GatewayTyped, WebRecords
  <1>4. GatewayTyped'
    BY <1>1, <1>2, <1>3 DEF GatewayIInv, GatewayTyped
  <1>5. \A d \in WebCalls : /\ IdOf(d)' = IdOf(d)
                            /\ call'[d].at \in Undecided => call[d].at \in Undecided
                            /\ call'[d].at \in InUse => call[d].at \in InUse
                            /\ call'[d].at \in {"gate", "run"} => call'[d].at = call[d].at /\ d # c
    BY <1>1 DEF IdOf, InUse, Undecided
  <1>6. DecisionsKeyed'
    BY <1>2, <1>5 DEF GatewayIInv, DecisionsKeyed
  <1>7. DecisionsFresh'
    BY <1>1, <1>2, <1>5 DEF GatewayIInv, DecisionsFresh
  <1>8. /\ Running' = Running \ {c} /\ c \in Running /\ Running \subseteq WebCalls
        /\ unnested' = IF Inner(c) = {} THEN unnested ELSE unnested \cup (Running \ {c})
        /\ outer' = [d \in WebCalls |-> IF d = c THEN {} ELSE outer[d] \ {c}]
        /\ \A d \in WebCalls : call'[d].before = call[d].before
    BY <1>1, <1>2 DEF Running, ToolOver, CallMoves, GatewayIInv, GatewayTyped, WebRecords
  <1>9. Ordered'
    <2>1. \A a, d \in WebCalls : a \in outer'[d] <=> (a \in outer[d] /\ d # c /\ a # c)
      BY <1>8
    <2>2. outer' \in [WebCalls -> SUBSET WebCalls] /\ unnested' \subseteq WebCalls
      BY <1>8 DEF GatewayIInv, Ordered
    <2>3. \A a, d \in WebCalls : a \in outer'[d] => a \in Running' /\ d \in Running' /\ a # d
      BY <1>8, <2>1 DEF GatewayIInv, Ordered
    <2>4. \A a, d \in Running' : a # d => a \in outer'[d] \/ d \in outer'[a]
      BY <1>8, <2>1 DEF GatewayIInv, Ordered
    <2>5. \A a, d, e \in WebCalls : (a \in outer'[d] /\ d \in outer'[e]) => a \in outer'[e]
      BY <2>1 DEF GatewayIInv, Ordered
    <2> QED BY <2>2, <2>3, <2>4, <2>5 DEF Ordered
  <1>10. Nested'
    <2> SUFFICES ASSUME NEW a \in Running' \ unnested'
                 PROVE  /\ (\A d \in WebCalls : a \notin outer'[d]) => parent' = IdOf(a)'
                        /\ \A d \in WebCalls : Follows(d, a)' => call'[d].before = IdOf(a)'
      BY DEF Nested
    <2>1. Inner(c) = {} /\ a \in Running \ unnested /\ a \in WebCalls /\ a # c /\ IdOf(a)' = IdOf(a)
      BY <1>5, <1>8
    <2>2. \A d \in WebCalls : c \notin outer[d]
      BY <2>1 DEF Inner, GatewayIInv, Ordered
    <2>3. a \in outer[c]
      BY <1>8, <2>1, <2>2 DEF GatewayIInv, Ordered
    <2>4. \A d \in WebCalls : Follows(d, a) => call[d].before = IdOf(a)
      BY <2>1 DEF GatewayIInv, Nested
    <2>5. \A b, d \in WebCalls : b \in outer'[d] <=> (b \in outer[d] /\ d # c /\ b # c)
      BY <1>8
    <2>6. ASSUME \A d \in WebCalls : a \notin outer'[d] PROVE parent' = IdOf(a)'
      <3>1. \A e \in WebCalls : ~(a \in outer[e] /\ e \in outer[c])
        <4> SUFFICES ASSUME NEW e \in WebCalls, a \in outer[e], e \in outer[c] PROVE FALSE
          OBVIOUS
        <4>1. e # c
          BY DEF GatewayIInv, Ordered
        <4> QED BY <2>1, <2>5, <2>6, <4>1
      <3>2. Follows(c, a)
        BY <2>3, <3>1 DEF Follows
      <3> QED BY <1>2, <2>1, <2>4, <3>2
    <2>7. ASSUME NEW d \in WebCalls, Follows(d, a)' PROVE call'[d].before = IdOf(a)'
      <3>1. a \in outer[d] /\ d # c
        BY <2>1, <2>5, <2>7 DEF Follows
      <3>2. ASSUME NEW e \in WebCalls, a \in outer[e], e \in outer[d] PROVE FALSE
        <4>1. e # c
          BY <2>2, <3>2
        <4> QED BY <2>1, <2>5, <2>7, <3>1, <3>2, <4>1 DEF Follows
      <3>3. Follows(d, a)
        BY <3>1, <3>2 DEF Follows
      <3> QED BY <1>8, <2>1, <2>4, <3>3
    <2> QED BY <2>6, <2>7
  <1> QED BY <1>4, <1>6, <1>7, <1>9, <1>10 DEF GatewayIInv

\* What is used up goes out of the cache with its key.
LEMMA WebCallOverSound ==
    ASSUME GatewayIInv, NEW c \in WebCalls, WebCallOver(c)
    PROVE  GatewayIInv'
  <1>1. /\ call' \in [WebCalls -> WebRecords] /\ call'[c].at = "over" /\ IdOf(c)' = 0
        /\ \A d \in WebCalls \ {c} : call'[d] = call[d] /\ IdOf(d)' = IdOf(d)
    BY WebCallEnded DEF GatewayIInv, WebCallOver
  <1>2. /\ cache' = cache \ Hits(cache, c) /\ spent' = spent \cup {IdOf(c)} /\ call[c].at = "telemetry"
        /\ UNCHANGED <<clock, issued, parent, outer, unnested, known>>
    BY DEF WebCallOver, Invalidated, CallAt, runVars, IdOf
  <1>3. \A d \in WebCalls : /\ IdOf(d)' = IF d = c THEN 0 ELSE IdOf(d)
                            /\ call'[d].at \in Undecided => call[d].at \in Undecided /\ d # c
                            /\ call'[d].at \in InUse => call[d].at \in InUse /\ d # c
                            /\ call'[d].at \in {"gate", "run"} => call'[d].at = call[d].at /\ d # c
    BY <1>1 DEF InUse, Undecided
  <1>4. \A e \in cache' : e \in cache /\ e.id # IdOf(c)
    BY <1>2 DEF Hits, GatewayIInv, DecisionsKeyed
  <1>5. GatewayTyped'
    <2>1. spent' \subseteq 0 .. issued
      BY <1>2 DEF GatewayIInv, GatewayTyped, DecisionsKeyed
    <2> QED BY <1>1, <1>2, <1>4, <2>1 DEF GatewayIInv, GatewayTyped
  <1>6. DecisionsKeyed'
    <2>1. ASSUME NEW b \in WebCalls, call'[b].at \in Undecided
          PROVE  /\ IdOf(b)' # 0 /\ IdOf(b)' \notin spent'
                 /\ \A e \in cache' : e.id # IdOf(b)'
                 /\ \A x \in WebCalls \ {b} : IdOf(x)' # IdOf(b)'
      <3>1. b # c /\ IdOf(b)' = IdOf(b) /\ IdOf(b) # 0 /\ IdOf(b) # IdOf(c) /\ IdOf(b) \notin spent
            /\ (\A e \in cache : e.id # IdOf(b)) /\ \A x \in WebCalls \ {b} : IdOf(x) # IdOf(b)
        BY <1>3, <2>1 DEF GatewayIInv, DecisionsKeyed
      <3> QED BY <1>2, <1>3, <1>4, <3>1
    <2>2. \A e, f \in cache' : e.id = f.id => e.key = f.key
      BY <1>4 DEF GatewayIInv, DecisionsKeyed
    <2>3. \A e \in cache', b \in WebCalls : IdOf(b)' = e.id => Tool[b] = e.key
      BY <1>3, <1>4, <1>5 DEF GatewayIInv, DecisionsKeyed, GatewayTyped
    <2>4. \A b \in WebCalls : IdOf(b)' \in 0 .. issued'
      BY <1>2, <1>3 DEF GatewayIInv, GatewayTyped, DecisionsKeyed
    <2>5. \A a, b \in WebCalls : (IdOf(a)' = IdOf(b)' /\ IdOf(a)' # 0) => Tool[a] = Tool[b]
      BY <1>3 DEF GatewayIInv, DecisionsKeyed
    <2> QED BY <2>1, <2>2, <2>3, <2>4, <2>5 DEF DecisionsKeyed
  <1>7. DecisionsFresh'
    <2>1. \A e \in cache' : e.id \notin spent'
      BY <1>2, <1>4 DEF GatewayIInv, DecisionsFresh
    <2> QED BY <1>1, <1>2, <1>3, <2>1 DEF GatewayIInv, DecisionsFresh
  <1>8. Ordered' /\ Nested'
    <2>1. \A d \in WebCalls : (call'[d].at = "run") <=> (call[d].at = "run")
      BY <1>1, <1>2
    <2>2. Running \subseteq WebCalls \ {c} /\ unnested' \subseteq WebCalls
      BY <1>2 DEF Running, GatewayIInv, Ordered
    <2> QED BY <1>1, <1>2, <2>1, <2>2, NestKept DEF GatewayIInv
  <1> QED BY <1>5, <1>6, <1>7, <1>8 DEF GatewayIInv

\* The other steps of a call.
LEMMA CallStepSound ==
    ASSUME GatewayIInv, NEW c \in WebCalls, CallStep(c)
    PROVE  GatewayIInv'
  <1>1. CASE SettingsRead(c)
    <2>1. CASE Allowed(c, "off")
      BY <1>1, <2>1, AllowedSound DEF SettingsRead, CallAt, Undecided, runVars
    <2>2. CASE CallMoves(c, "token") /\ UNCHANGED cacheVars
      <3>1. "token" \in WebPlaces /\ call[c].at \in Undecided /\ call[c].at # "run"
        BY <1>1 DEF SettingsRead, CallAt, Undecided, WebPlaces
      <3> QED BY <1>1, <2>2, <3>1, MoveSound DEF SettingsRead, runVars, cacheVars
    <2> QED BY <1>1, <2>1, <2>2 DEF SettingsRead
  <1>2. ASSUME NEW p \in WebPlaces, CallMoves(c, p), p \in Undecided => call[c].at \in Undecided,
               p \notin {"gate", "run"}, call[c].at # "run", cache' \subseteq cache,
               UNCHANGED <<clock, issued, runVars, spent, known>>
        PROVE  GatewayIInv'
    BY <1>2, MoveSound DEF runVars
  <1>9. ASSUME CallEnds(c), call[c].at # "run", cache' \subseteq cache,
               UNCHANGED <<clock, issued, runVars, spent, known>>
        PROVE  GatewayIInv'
    BY <1>9, WebCallEndSound DEF runVars
  <1>3. CASE TokenRead(c)
    <2>1. (CallMoves(c, "asked") \/ CallEnds(c)) /\ UNCHANGED cacheVars
      BY <1>3 DEF TokenRead, Unavailable
    <2>2. call[c].at \in Undecided /\ call[c].at # "run" /\ "asked" \in WebPlaces
      BY <1>3 DEF TokenRead, CallAt, Undecided, WebPlaces
    <2> QED BY <1>2, <1>3, <1>9, <2>1, <2>2 DEF TokenRead, cacheVars
  <1>4. CASE Decided(c)
    <2>1. call[c].at \in Undecided /\ call[c].at # "run" /\ {"denied", "locking"} \subseteq WebPlaces
      BY <1>4 DEF Decided, CallAt, Undecided, WebPlaces
    <2>2. CASE Allowed(c, "service")
      BY <1>4, <2>1, <2>2, AllowedSound DEF Decided, runVars
    <2>3. CASE \E p \in {"denied", "locking"} : CallMoves(c, p) /\ UNCHANGED cacheVars
      BY <1>2, <1>4, <2>1, <2>3 DEF Decided, cacheVars
    <2>4. CASE CallEnds(c) /\ UNCHANGED cacheVars
      BY <1>4, <1>9, <2>1, <2>4 DEF Decided, cacheVars
    <2> QED BY <1>4, <2>2, <2>3, <2>4 DEF Decided, Unavailable
  <1>5. "page" \in WebPlaces /\ "page" \notin Undecided
    BY DEF WebPlaces, Undecided
  <1>6. CASE TokenLocked(c) \/ DenialReported(c)
    BY <1>6, <1>9 DEF TokenLocked, DenialReported, CallAt, cacheVars
  <1>7. CASE BackToPage(c)
    BY <1>2, <1>5, <1>7 DEF BackToPage, CallAt, cacheVars
  <1>8. CASE GateCloses(c)
    <2>1. cache' \subseteq cache
      BY <1>8 DEF GateCloses, Invalidated
    <2> QED BY <1>8, <1>9, <2>1 DEF GateCloses, CallAt
  <1> QED BY <1>1, <1>3, <1>4, <1>6, <1>7, <1>8, ToolBeginsSound, ToolOverSound, WebCallOverSound
          DEF CallStep, PolicyStep

LEMMA GatewayIInvNext == GatewayIInv /\ [GatewayNext]_gatewayVars => GatewayIInv'
  <1> SUFFICES ASSUME GatewayIInv, [GatewayNext]_gatewayVars PROVE GatewayIInv'
    OBVIOUS
  <1> USE DEF GatewayIInv, GatewayTyped, DecisionsKeyed, DecisionsFresh, Ordered, Nested, Follows, Running, IdOf
  <1>1. CASE UNCHANGED gatewayVars
    BY <1>1 DEF gatewayVars, userVars, cacheVars, runVars
  <1>2. CASE SettingsSaved
    BY <1>2 DEF SettingsSaved, cacheVars, runVars
  <1>3. CASE TimePasses
    BY <1>3 DEF TimePasses, userVars, cacheVars, runVars
  <1> QED BY <1>1, <1>2, <1>3, BeginSound, CallStepSound DEF GatewayNext

\* Page calls at once (handleWebMcpExecuteTool with evaluateWebMcpPolicy's cache
\* and runWithGatewayTelemetryContext): however calls overlap, whatever their keys and
\* the cache's limit, a tool runs only on a decision for its own key that had not expired
\* and that no earlier call had used up; and the tool that began last reports under its
\* own id, unless one that had not begun last ended while it ran.
THEOREM CallsAreKeptApart == GatewaySpec => []CallsKeptApart
  <1>1. GatewayIInv => RunsOnFreshDecision
    <2>1. GatewayIInv => \A c \in WebCalls : call[c].at = "run" =>
                            /\ call[c].decision.from # "none"
                            /\ call[c].decision.expires > call[c].began /\ IdOf(c) \notin known[c] /\ IdOf(c) # 0
      BY DEF GatewayIInv, DecisionsFresh, InUse
    <2>2. GatewayIInv => \A c, d \in WebCalls : (call[c].at = "run" /\ IdOf(d) = IdOf(c)) => Tool[d] = Tool[c]
      BY <2>1 DEF GatewayIInv, DecisionsKeyed
    <2> QED BY <2>1, <2>2 DEF RunsOnFreshDecision, CallAt, IdOf
  <1>2. GatewayIInv => OwnTelemetryContext
    BY DEF GatewayIInv, Nested, Ordered, Inner, OwnTelemetryContext, Running, IdOf
  <1>3. GatewayIInv => CallsKeptApart
    BY <1>1, <1>2 DEF CallsKeptApart
  <1> QED BY <1>3, GatewayIInvInit, GatewayIInvNext, PTL DEF GatewaySpec

-----------------------------------------------------------------------------
(* Type correctness of the other parts                                      *)

LEMMA LeastOfSet == ASSUME NEW T \in SUBSET Nat, T # {} PROVE \E x \in T : \A y \in T : x <= y
  <1> DEFINE R == OpToRel(<, Nat)
  <1>1. PICK x \in T : \A y \in T : <<y, x>> \notin R
    BY NatLessThanWellFounded, WFMin
  <1>2. \A y \in T : ~(y < x)
    BY <1>1 DEF OpToRel
  <1> QED BY <1>2

\* The places of the cache are bounded, so one is the last.
PlacesBounded(entries) == \E b \in Nat : \A e \in entries : e.place \in 0 .. b

LEMMA LastPlaceIsLast ==
    ASSUME NEW entries, PlacesBounded(entries)
    PROVE  LastPlace(entries) \in Nat /\ \A e \in entries : e.place \in 0 .. LastPlace(entries)
  <1> DEFINE Bounds == {b \in Nat : \A e \in entries : e.place \in 0 .. b}
             P == {0} \cup {e.place : e \in entries}
  <1>1. PICK m \in Bounds : \A b \in Bounds : m <= b
    BY LeastOfSet DEF PlacesBounded
  <1>2. P \subseteq Nat /\ \A y \in P : y <= m
    BY <1>1
  <1>3. m \in P
    <2> SUFFICES ASSUME m \notin P PROVE FALSE
      OBVIOUS
    <2>1. m \in Nat /\ m # 0 /\ m - 1 \in Nat
      BY <1>1
    <2>2. \A e \in entries : e.place \in 0 .. m - 1
      BY <1>1, <2>1
    <2> QED BY <1>1, <2>1, <2>2
  <1> HIDE DEF P
  <1>4. LastPlace(entries) \in P /\ \A y \in P : LastPlace(entries) >= y
    <2>1. \E x \in P : \A y \in P : x >= y
      BY <1>2, <1>3
    <2> QED BY <2>1 DEF LastPlace, Max, P
  <1> QED BY <1>2, <1>4 DEF P

\* What the invariant leaves open of the types.
GatewayRest ==
    /\ hooks \in BOOLEAN /\ token \in BOOLEAN
    /\ toggles \in 0 .. MaxToggles /\ clock \in 0 .. MaxTime
    /\ PlacesBounded(cache) /\ \A e \in cache : e.key \in {Tool[c] : c \in WebCalls}
    /\ \A c \in WebCalls : /\ call[c].at \notin {"idle", "over"} => IdOf(c) # 0
                           /\ call[c].began \in 0 .. clock /\ call[c].before \in 0 .. issued
    /\ parent \in 0 .. issued
    /\ 0 \notin spent /\ \A c \in WebCalls : 0 \notin known[c]

LEMMA FewerPlaces == ASSUME NEW S, NEW T, S \subseteq T, PlacesBounded(T) PROVE PlacesBounded(S)
  BY DEF PlacesBounded

LEMMA GatewayRestStays == ASSUME GatewayIInv, GatewayRest, [GatewayNext]_gatewayVars PROVE GatewayRest'
  <1> USE GatewayAssumption
  <1>1. /\ clock \in Nat /\ issued \in Nat /\ toggles \in Nat
        /\ \A c \in WebCalls : call[c] \in WebRecords /\ IdOf(c) \in 0 .. issued
        /\ DOMAIN call = WebCalls /\ DOMAIN known = WebCalls
        /\ \A e \in cache : e.id \in 1 .. issued
    BY DEF GatewayIInv, GatewayTyped, DecisionsKeyed, GatewayRest
  <1>2. ASSUME NEW c \in WebCalls, WebCallBegins(c) PROVE GatewayRest'
    <2> DEFINE hits == Hits(cache', c)
               i == issued + (IF hits = {} THEN 1 ELSE 0)
    <2>1. cache' \subseteq cache
      BY <1>2, PrunedCache DEF WebCallBegins
    <2>2. issued' = i /\ i \in Nat /\ issued <= i
      BY <1>1, <1>2 DEF WebCallBegins
    <2>3. PICK d : /\ d \in IF hits = {} THEN {[id |-> issued', from |-> "none", expires |-> clock + Ttl]}
                            ELSE {[id |-> e.id, from |-> e.from, expires |-> e.expires] : e \in hits}
                   /\ call' = [call EXCEPT ![c] = [at |-> IF hits = {} THEN "settings" ELSE "gate",
                                                   decision |-> d, began |-> clock,
                                                   confirmed |-> CallAt(c, "page"), before |-> 0]]
      BY <1>2 DEF WebCallBegins
    <2>4. d.id # 0
      <3>1. CASE hits = {}
        BY <1>1, <2>2, <2>3, <3>1
      <3>2. CASE hits # {}
        <4>1. PICK e \in hits : d = [id |-> e.id, from |-> e.from, expires |-> e.expires]
          BY <2>3, <3>2
        <4>2. e.id \in 1 .. issued
          BY <1>1, <2>1, <4>1 DEF Hits
        <4> QED BY <1>1, <4>1, <4>2
      <3> QED BY <3>1, <3>2
    <2> HIDE DEF hits, i
    <2>5. \A x \in WebCalls : /\ call'[x].at \notin {"idle", "over"} => IdOf(x)' # 0
                              /\ call'[x].began \in 0 .. clock /\ call'[x].before \in 0 .. issued'
      BY <1>1, <2>2, <2>3, <2>4 DEF GatewayRest, IdOf
    <2>6. PlacesBounded(cache')
      BY <2>1, FewerPlaces DEF GatewayRest
    <2>7. parent' \in 0 .. issued' /\ clock' = clock
          /\ UNCHANGED <<hooks, token, toggles, spent>>
      BY <1>1, <1>2, <2>2 DEF WebCallBegins, GatewayRest, userVars
    <2>8. \A x \in WebCalls : 0 \notin known'[x]
      BY <1>1, <1>2 DEF WebCallBegins, GatewayRest
    <2> QED BY <2>1, <2>5, <2>6, <2>7, <2>8 DEF GatewayRest
  <1>3. ASSUME NEW c \in WebCalls, NEW p \in WebPlaces \ {"idle", "over"}, CallMoves(c, p), call[c].at \notin {"idle", "over"},
               cache' \subseteq cache, UNCHANGED <<hooks, toggles, clock, issued, known>>, token' \in BOOLEAN,
               parent' \in 0 .. issued,
               spent' = spent \/ spent' = spent \cup {IdOf(c)}
        PROVE  GatewayRest'
    <2>1. \A d \in WebCalls : /\ call'[d].decision = call[d].decision /\ call'[d].began = call[d].began
                              /\ call'[d].before = call[d].before
                              /\ call'[d].at \notin {"idle", "over"} => call[d].at \notin {"idle", "over"}
      BY <1>1, <1>3 DEF CallMoves, WebRecords
    <2>2. PlacesBounded(cache') /\ 0 \notin spent'
      BY <1>3, FewerPlaces DEF GatewayRest
    <2> QED BY <1>3, <2>1, <2>2 DEF GatewayRest, IdOf
  <1>12. ASSUME NEW c \in WebCalls, CallEnds(c), call[c].at \notin {"idle", "over"},
                cache' \subseteq cache, UNCHANGED <<hooks, toggles, clock, issued, known, parent>>,
                token' \in BOOLEAN, spent' = spent \/ spent' = spent \cup {IdOf(c)}
         PROVE  GatewayRest'
    <2>1. call' = [call EXCEPT ![c] = [NewCall EXCEPT !.at = "over"]] /\ NewCall.began = 0 /\ NewCall.before = 0
      BY <1>12 DEF CallEnds, NewCall
    <2> DEFINE n == [NewCall EXCEPT !.at = "over"]
    <2>2. n.at = "over" /\ n.began = 0 /\ n.before = 0
      BY DEF NewCall
    <2> HIDE DEF n
    <2>3. call'[c] = n /\ \A d \in WebCalls \ {c} : call'[d] = call[d]
      BY <1>1, <2>1 DEF n
    <2>4. PlacesBounded(cache') /\ 0 \notin spent'
      BY <1>12, FewerPlaces DEF GatewayRest
    <2> QED BY <1>1, <1>12, <2>2, <2>3, <2>4 DEF GatewayRest, IdOf
  <1>4. ASSUME NEW c \in WebCalls, call[c].at \notin {"idle", "over"}, NEW source, Allowed(c, source),
               UNCHANGED <<clock, runVars, spent, known>>
        PROVE  GatewayRest'
    <2>1. \A d \in WebCalls : /\ call'[d].decision.id = call[d].decision.id /\ call'[d].began = call[d].began
                              /\ call'[d].before = call[d].before
                              /\ call'[d].at \notin {"idle", "over"} => call[d].at \notin {"idle", "over"}
      BY <1>1, <1>4 DEF Allowed, WebRecords
    <2>2. PICK place \in IF Hits(cache, c) = {} THEN {LastPlace(cache) + 1} ELSE {e.place : e \in Hits(cache, c)} :
              cache' = (cache \ Hits(cache, c))
                       \cup {[key |-> Tool[c], id |-> call[c].decision.id, from |-> source,
                              expires |-> call[c].decision.expires, place |-> place]}
      BY <1>4 DEF Allowed, CacheSet
    <2>3. LastPlace(cache) \in Nat /\ \A e \in cache : e.place \in 0 .. LastPlace(cache)
      BY LastPlaceIsLast DEF GatewayRest
    <2>4. place \in 0 .. LastPlace(cache) + 1
      BY <2>2, <2>3 DEF Hits
    <2>5. \A e \in cache' : e.place \in 0 .. LastPlace(cache) + 1 /\ e.key \in {Tool[x] : x \in WebCalls}
      BY <2>2, <2>3, <2>4 DEF GatewayRest
    <2>6. PlacesBounded(cache')
      BY <2>3, <2>5 DEF PlacesBounded
    <2> QED BY <1>1, <1>4, <2>1, <2>5, <2>6 DEF Allowed, GatewayRest, IdOf, userVars, runVars
  <1>5. ASSUME NEW c \in WebCalls, PolicyStep(c) PROVE GatewayRest'
    <2>1. call[c].at \notin {"idle", "over"}
      BY <1>5 DEF PolicyStep, SettingsRead, TokenRead, Decided, TokenLocked, DenialReported, CallAt
    <2>2. \/ \E source : Allowed(c, source) /\ UNCHANGED <<clock, runVars, spent, known>>
          \/ /\ \E p \in WebPlaces \ {"idle", "over"} : CallMoves(c, p)
             /\ UNCHANGED <<hooks, toggles, clock, cache, issued, known, parent, spent>>
             /\ token' \in {token, FALSE}
          \/ /\ CallEnds(c) /\ UNCHANGED <<hooks, toggles, clock, cache, issued, known, parent, spent>>
             /\ token' \in {token, FALSE}
      BY <1>5 DEF PolicyStep, SettingsRead, TokenRead, Decided, TokenLocked, DenialReported, Unavailable,
                  userVars, cacheVars, runVars, WebPlaces
    <2> QED BY <1>3, <1>4, <1>12, <2>1, <2>2 DEF GatewayRest
  <1>6. ASSUME NEW c \in WebCalls, BackToPage(c) \/ GateCloses(c) \/ WebCallOver(c) PROVE GatewayRest'
    <2>1. /\ call[c].at \notin {"idle", "over"}
          /\ CallEnds(c) \/ \E p \in WebPlaces \ {"idle", "over"} : CallMoves(c, p)
          /\ cache' \subseteq cache /\ UNCHANGED <<hooks, token, toggles, clock, issued, known, parent>>
          /\ spent' = spent \/ spent' = spent \cup {IdOf(c)}
      BY <1>6 DEF BackToPage, GateCloses, WebCallOver, Invalidated, CallAt, userVars, cacheVars, runVars,
                  WebPlaces, IdOf
    <2>2. token' \in BOOLEAN /\ parent' \in 0 .. issued
      BY <2>1 DEF GatewayRest
    <2> QED BY <1>3, <1>12, <2>1, <2>2
  <1>7. ASSUME NEW c \in WebCalls, ToolOver(c) PROVE GatewayRest'
    <2>1. /\ call[c].at \notin {"idle", "over"} /\ CallMoves(c, "telemetry") /\ "telemetry" \in WebPlaces \ {"idle", "over"}
          /\ parent' \in 0 .. issued /\ UNCHANGED <<hooks, token, toggles, clock, cache, issued, known, spent>>
      BY <1>7 DEF ToolOver, CallAt, userVars, cacheVars, WebPlaces, GatewayRest
    <2> QED BY <1>3, <2>1 DEF GatewayRest
  <1>8. ASSUME NEW c \in WebCalls, ToolBegins(c) PROVE GatewayRest'
    <2>1. /\ call' = [call EXCEPT ![c] = [[call[c] EXCEPT !.at = "run"] EXCEPT !.before = parent]]
          /\ call[c].at = "gate" /\ parent' = IdOf(c)
          /\ UNCHANGED <<hooks, token, toggles, clock, cache, issued, known, spent>>
      BY <1>1, <1>8 DEF ToolBegins, CallAt, userVars, cacheVars, IdOf
    <2>2. \A d \in WebCalls : /\ call'[d].decision = call[d].decision /\ call'[d].began = call[d].began
                              /\ call'[d].before \in 0 .. issued
                              /\ call'[d].at \notin {"idle", "over"} => call[d].at \notin {"idle", "over"}
      BY <1>1, <2>1 DEF WebRecords, GatewayRest
    <2>3. parent' \in 0 .. issued
      BY <1>1, <2>1
    <2> QED BY <2>1, <2>2, <2>3 DEF GatewayRest, IdOf
  <1>9. CASE SettingsSaved
    <2>1. toggles' \in 0 .. MaxToggles
      BY <1>1, <1>9 DEF SettingsSaved, GatewayRest
    <2>2. hooks' \in BOOLEAN /\ token' \in BOOLEAN
      BY <1>9, Zenon DEF SettingsSaved, GatewayRest
    <2> QED BY <1>9, <2>1, <2>2 DEF SettingsSaved, GatewayRest, cacheVars, runVars, IdOf
  <1>10. CASE TimePasses
    <2>1. clock' \in 0 .. MaxTime /\ 0 .. clock \subseteq 0 .. clock'
      BY <1>1, <1>10 DEF TimePasses, GatewayRest
    <2> QED BY <1>10, <2>1 DEF TimePasses, GatewayRest, userVars, cacheVars, runVars, IdOf
  <1>11. CASE UNCHANGED gatewayVars
    BY <1>11 DEF gatewayVars, GatewayRest, IdOf
  <1> QED BY <1>2, <1>5, <1>6, <1>7, <1>8, <1>9, <1>10, <1>11 DEF GatewayNext, CallStep

\* The decisions in the cache are for the calls' keys and were given out; so were
\* the ids of the calls, of the telemetry contexts and of what is over.
THEOREM GatewayIsTyped == GatewaySpec => []GatewayTypeOK
  <1>1. GatewayInit => GatewayRest
    BY GatewayAssumption DEF GatewayInit, GatewayRest, PlacesBounded, IdOf, NewCall
  <1>2. GatewayIInv /\ GatewayRest => GatewayTypeOK
    <2> SUFFICES ASSUME GatewayIInv, GatewayRest PROVE GatewayTypeOK
      OBVIOUS
    <2>1. /\ \A c \in WebCalls : call[c] \in WebRecords /\ IdOf(c) \in 0 .. issued
          /\ issued \in Nat /\ known \in [WebCalls -> SUBSET (0 .. issued)] /\ spent \subseteq 0 .. issued
      BY DEF GatewayIInv, GatewayTyped, DecisionsKeyed
    <2>2. known \in [WebCalls -> SUBSET (1 .. issued)] /\ spent \subseteq 1 .. issued
      BY <2>1 DEF GatewayRest
    <2>3. \A e \in cache : e.key \in {Tool[c] : c \in WebCalls} /\ e.id \in 1 .. issued
                           /\ e.from \in {"off", "service"} /\ e.expires \in Nat /\ e.place \in Nat
      BY DEF GatewayIInv, GatewayTyped, GatewayRest, PlacesBounded
    <2>4. \A c \in WebCalls :
            /\ call[c].at \in {"idle", "settings", "token", "asked", "locking", "denied", "gate",
                               "page", "run", "telemetry", "over"}
            /\ call[c].decision.id \in 0 .. issued
            /\ call[c].began \in 0 .. clock /\ call[c].confirmed \in BOOLEAN /\ call[c].before \in 0 .. issued
      BY <2>1 DEF WebRecords, WebPlaces, IdOf, GatewayRest
    <2> QED BY <2>1, <2>2, <2>3, <2>4 DEF GatewayRest, GatewayIInv, Ordered, GatewayTypeOK
  <1> QED BY <1>1, <1>2, GatewayIInvInit, GatewayIInvNext, GatewayRestStays, PTL DEF GatewaySpec
=============================================================================
