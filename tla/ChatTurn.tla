------------------------------ MODULE ChatTurn ------------------------------
(***************************************************************************)
(* The chat of sidepanel/views/ChatPage.tsx: a turn with the model         *)
(* (src/src/chat/adapters/gemini.ts), its tools (tool-bridge.ts), the      *)
(* modes (chat-mode.ts) and the history kept in chrome.storage.session.    *)
(* Every window has a page; one that is closed, locked or led off the      *)
(* dashboard is unmounted, while its turn goes on unheard.                 *)
(***************************************************************************)
EXTENDS Naturals, Sequences, FiniteSets

CONSTANTS
    Pages,
    MaxTurns,   \* bound on the turns sent, in all pages
    MaxRounds,  \* maxRounds
    MaxCalls,   \* bound on the tools the model calls at once
    Kept,       \* entries of the history that are stored, 40
    MaxSwitches \* bound on the user's switches of modes

ASSUME ChatAssumption ==
    /\ MaxTurns \in Nat /\ MaxSwitches \in Nat
    /\ MaxRounds \in Nat \ {0} /\ MaxCalls \in Nat \ {0} /\ Kept \in Nat \ {0}

Turns == 1 .. MaxTurns
Modes == {"writes", "token", "automation"}

\* What a history consists of: the user's text, the model's text, the model's
\* calls of tools, the results of all of them.
Entries == {"user", "text", "calls", "results"}

VARIABLES
    modes,      \* the modes that are on in storage.session
    chatStored, \* chat:history
    page,       \* per page: mounted, loaded, what it shows, its history, ...
    turn,       \* per turn: its page, the await it stands at, what it was sent with
    switches,   \* switches so far
    refused     \* history: a workflow's contract has failed, which ends a turn early

chatVars == <<modes, chatStored, page, turn, switches, refused>>

NoSwitch  == [step |-> "none", mode |-> "writes", on |-> FALSE]
Unmounted == [mounted |-> FALSE, loaded |-> FALSE, shows |-> {}, history |-> <<>>,
              busy |-> FALSE, switch |-> NoSwitch, news |-> {}]
Unsent    == [of |-> {}, live |-> FALSE, at |-> "unsent", modes |-> {}, log |-> <<>>,
              round |-> 0, todo |-> 0, tool |-> "none"]

ChatInit ==
    /\ modes = {}
    /\ chatStored = <<>>
    /\ page = [p \in Pages |-> Unmounted]
    /\ turn = [t \in Turns |-> Unsent]
    /\ switches = 0 /\ refused = FALSE

-----------------------------------------------------------------------------
(* The page.                                                               *)

PageMounts(p) ==
    /\ ~page[p].mounted
    /\ page' = [page EXCEPT ![p].mounted = TRUE]
    /\ UNCHANGED <<modes, chatStored, turn, switches, refused>>

\* isChat...Enabled(): a mode counts only together with the write tools.
Effective(on) == IF "writes" \in on THEN on ELSE {}

\* The requests of the first effect are answered, in their order.
ChatLoaded(p) ==
    /\ page[p].mounted /\ ~page[p].loaded
    /\ page' = [page EXCEPT ![p].loaded = TRUE, ![p].shows = Effective(modes),
                            ![p].history = chatStored]
    /\ UNCHANGED <<modes, chatStored, turn, switches, refused>>

PageUnmounts(p) ==
    /\ page[p].mounted
    /\ page' = [page EXCEPT ![p] = Unmounted]
    /\ turn' = [t \in Turns |-> IF p \in turn[t].of THEN [turn[t] EXCEPT !.live = FALSE] ELSE turn[t]]
    /\ UNCHANGED <<modes, chatStored, switches, refused>>

\* handleStorageChange: the page hears of the modes that were changed.
ModesHeard(p) ==
    /\ page[p].news # {}
    /\ page' = [page EXCEPT ![p].shows = (@ \ page[p].news) \cup (modes \cap page[p].news),
                            ![p].news = {}]
    /\ UNCHANGED <<modes, chatStored, turn, switches, refused>>

-----------------------------------------------------------------------------
(* The switches of the modes.  All are disabled during a turn; a turn can  *)
(* be sent during a switch.                                                *)

Does(p, step) == page[p].switch.step = step

SwitchStarts(p) ==
    /\ page[p].loaded /\ ~page[p].busy /\ Does(p, "none") /\ switches < MaxSwitches
    /\ \E m \in Modes :
          /\ m = "writes" \/ "writes" \in page[p].shows
          /\ LET on == m \notin page[p].shows
             IN  page' = [page EXCEPT ![p].switch =
                            [step |-> IF on /\ m # "writes" THEN "read" ELSE "set", mode |-> m, on |-> on]]
    /\ switches' = switches + 1
    /\ UNCHANGED <<modes, chatStored, turn, refused>>

\* Another mode is switched on only if the write tools are.
SwitchRead(p) ==
    /\ Does(p, "read")
    /\ page' = [page EXCEPT ![p].switch = IF "writes" \in modes THEN [@ EXCEPT !.step = "set"] ELSE NoSwitch]
    /\ UNCHANGED <<modes, chatStored, turn, switches, refused>>

\* Switching the write tools off switches everything off.
Toggled(p, set) ==
    LET s == page[p].switch
    IN  IF s.on THEN set \cup {s.mode} ELSE IF s.mode = "writes" THEN {} ELSE set \ {s.mode}

SwitchStored(p) ==
    /\ Does(p, "set")
    /\ modes' = Toggled(p, modes)
    /\ LET changed == (modes \ modes') \cup (modes' \ modes)
       IN  page' = [q \in Pages |-> [page[q] EXCEPT
                      !.switch = IF q = p THEN [@ EXCEPT !.step = "show"] ELSE @,
                      !.news = IF page[q].mounted THEN @ \cup changed ELSE @]]
    /\ UNCHANGED <<chatStored, turn, switches, refused>>

\* The page shows the mode and begins a new history.
Switched(p) ==
    /\ Does(p, "show")
    /\ page' = [page EXCEPT ![p].switch = NoSwitch, ![p].history = <<>>, ![p].shows = Toggled(p, @)]
    /\ chatStored' = <<>>
    /\ UNCHANGED <<modes, turn, switches, refused>>

-----------------------------------------------------------------------------
(* handleSend and runGeminiTurn.                                           *)

TurnAt(t, place)    == turn[t].at = place
TurnGoes(t, place)  == turn' = [turn EXCEPT ![t].at = place]

\* Mutant of Slice: the whole history is stored.
Whole(h) == h

Slice(h) == SubSeq(h, IF Len(h) > Kept THEN Len(h) - Kept + 1 ELSE 1, Len(h))

\* handleSend: the modes and the history are those the page shows now.
handleSend(p, t) ==
    /\ page[p].loaded /\ ~page[p].busy
    /\ TurnAt(t, "unsent") /\ \A u \in Turns : u < t => ~TurnAt(u, "unsent")
    /\ page' = [page EXCEPT ![p].busy = TRUE]
    /\ turn' = [turn EXCEPT ![t] = [Unsent EXCEPT !.of = {p}, !.live = TRUE, !.at = "preflight",
                                                  !.modes = page[p].shows, !.log = page[p].history]]
    /\ UNCHANGED <<modes, chatStored, switches, refused>>

\* Mutant of EndsEarly: what was said so far is kept.
EndsWithLog(t) ==
    /\ turn' = [turn EXCEPT ![t] = [Unsent EXCEPT !.at = "over"]]
    /\ page' = [p \in Pages |-> IF turn[t].live /\ p \in turn[t].of
                                THEN [page[p] EXCEPT !.busy = FALSE, !.history = turn[t].log] ELSE page[p]]
    /\ UNCHANGED chatStored

\* An error, or the answer of the preflight: the history stays as it was.
EndsEarly(t) ==
    /\ turn' = [turn EXCEPT ![t] = [Unsent EXCEPT !.at = "over"]]
    /\ page' = [p \in Pages |-> IF turn[t].live /\ p \in turn[t].of
                                THEN [page[p] EXCEPT !.busy = FALSE] ELSE page[p]]
    /\ UNCHANGED chatStored

\* Mutant of TurnEnds: an answer nobody waits for leaves the page busy.
EndsBusy(t, log) ==
    /\ turn' = [turn EXCEPT ![t] = [Unsent EXCEPT !.at = "over"]]
    /\ page' = [p \in Pages |-> IF turn[t].live /\ p \in turn[t].of
                                THEN [page[p] EXCEPT !.history = log] ELSE page[p]]
    /\ chatStored' = IF turn[t].live THEN Slice(log) ELSE chatStored

\* The page takes the turn's history and stores the end of it.
TurnEnds(t, log) ==
    /\ turn' = [turn EXCEPT ![t] = [Unsent EXCEPT !.at = "over"]]
    /\ page' = [p \in Pages |-> IF turn[t].live /\ p \in turn[t].of
                                THEN [page[p] EXCEPT !.busy = FALSE, !.history = log] ELSE page[p]]
    /\ chatStored' = IF turn[t].live THEN Slice(log) ELSE chatStored

\* runApiReadPreflight: one read, whose answer may be all the user wants; an
\* error ends the turn.
Preflighted(t) ==
    /\ TurnAt(t, "preflight")
    /\ \/ EndsEarly(t)
       \/ /\ turn' = [turn EXCEPT ![t].at = "model", ![t].log = Append(@, "user")]
          /\ UNCHANGED <<page, chatStored>>
    /\ UNCHANGED <<modes, switches, refused>>

\* generateContent: an error, a text, or calls of tools.
Generated(t) ==
    /\ TurnAt(t, "model")
    /\ \/ EndsEarly(t)
       \/ TurnEnds(t, Append(turn[t].log, "text"))
       \/ \E n \in 1 .. MaxCalls :
             /\ turn' = [turn EXCEPT ![t].at = "tool", ![t].log = Append(@, "calls"), ![t].todo = n]
             /\ UNCHANGED <<page, chatStored>>
    /\ UNCHANGED <<modes, switches, refused>>

-----------------------------------------------------------------------------
(* executeChatTool.                                                        *)

Tools == {"read", "write", "token", "workflow"}

\* toChatSchema: the tools that a turn sent in these modes may call.
Offered(on) ==
    {"read"} \cup (IF "writes" \in on THEN {"write"} ELSE {})
             \cup (IF "token" \in on THEN {"token"} ELSE {})
             \cup (IF "automation" \in on THEN {"workflow"} ELSE {})

\* A tool that is not offered throws, and so ends the turn.
ToolCalled(t) ==
    /\ TurnAt(t, "tool")
    /\ \E tool \in Tools :
          IF tool \in Offered(turn[t].modes)
          THEN turn' = [turn EXCEPT ![t].at = "policy", ![t].tool = tool] /\ UNCHANGED <<page, chatStored>>
          ELSE EndsEarly(t)
    /\ UNCHANGED <<modes, switches, refused>>

\* isChatAccessTokenControlEnabled, read when a token tool begins.
ControlIsOn(t) == {"writes", "token"} \subseteq modes

\* evaluatePolicy: denied and reported, unavailable, or allowed.
PolicyAnswered(t) ==
    /\ TurnAt(t, "policy")
    /\ \/ EndsEarly(t)
       \/ /\ TurnGoes(t, IF turn[t].tool = "token" THEN "control" ELSE "run")
          /\ UNCHANGED <<page, chatStored>>
    /\ UNCHANGED <<modes, switches, refused>>

ControlChecked(t) ==
    /\ TurnAt(t, "control")
    /\ IF ControlIsOn(t) THEN TurnGoes(t, "run") /\ UNCHANGED <<page, chatStored>> ELSE EndsEarly(t)
    /\ UNCHANGED <<modes, switches, refused>>

\* All calls of a round are answered at once.
NextCall(t) ==
    IF turn[t].todo > 1
    THEN turn' = [turn EXCEPT ![t].at = "tool", ![t].todo = @ - 1] /\ UNCHANGED <<page, chatStored>>
    ELSE IF turn[t].round + 1 = MaxRounds
    THEN TurnEnds(t, Append(turn[t].log, "results"))
    ELSE /\ turn' = [turn EXCEPT ![t].at = "model", ![t].todo = 0, ![t].round = @ + 1,
                                 ![t].tool = "none", ![t].log = Append(@, "results")]
         /\ UNCHANGED <<page, chatStored>>

\* The tool has run and its telemetry is sent: it throws, or it has a result
\* (an error it can recover from among them).  A workflow whose contract failed
\* ends the turn, its call unanswered.
ToolRan(t) ==
    /\ TurnAt(t, "run")
    /\ \/ EndsEarly(t) /\ UNCHANGED refused
       \/ NextCall(t) /\ UNCHANGED refused
       \/ turn[t].tool = "workflow" /\ TurnEnds(t, turn[t].log) /\ refused' = TRUE
    /\ UNCHANGED <<modes, switches>>

TurnStep(t) == \/ Preflighted(t) \/ Generated(t) \/ ToolCalled(t) \/ PolicyAnswered(t)
               \/ ControlChecked(t) \/ ToolRan(t)

ChatNext ==
    \/ \E p \in Pages : \/ PageMounts(p) \/ ChatLoaded(p) \/ PageUnmounts(p) \/ ModesHeard(p)
                        \/ SwitchStarts(p) \/ SwitchRead(p) \/ SwitchStored(p) \/ Switched(p)
    \/ \E p \in Pages, t \in Turns : handleSend(p, t)
    \/ \E t \in Turns : TurnStep(t)

ChatSpec == ChatInit /\ [][ChatNext]_chatVars

-----------------------------------------------------------------------------
ChatTypeOK ==
    /\ modes \subseteq Modes /\ chatStored \in Seq(Entries) /\ Len(chatStored) <= Kept
    /\ \A p \in Pages :
          /\ {page[p].mounted, page[p].loaded, page[p].busy} \subseteq BOOLEAN
          /\ page[p].shows \subseteq Modes /\ page[p].news \subseteq Modes
          /\ page[p].history \in Seq(Entries)
          /\ page[p].switch \in [step : {"none", "read", "set", "show"}, mode : Modes, on : BOOLEAN]
    /\ \A t \in Turns :
          /\ turn[t].of \subseteq Pages /\ turn[t].live \in BOOLEAN
          /\ turn[t].at \in {"unsent", "preflight", "model", "tool", "policy", "control", "run", "over"}
          /\ turn[t].modes \subseteq Modes /\ turn[t].log \in Seq(Entries)
          /\ turn[t].round \in 0 .. MaxRounds - 1 /\ turn[t].todo \in 0 .. MaxCalls
          /\ turn[t].tool \in Tools \cup {"none"}
    /\ switches \in 0 .. MaxSwitches /\ refused \in BOOLEAN

\* The model is sent every call of a tool with its results after it, and results
\* without their call only where the stored history was cut off: whatever ends a
\* turn (a tool that throws, an unmounted page, a mode that is switched), the
\* calls it left unanswered are in no later turn's history.  The exception is a
\* workflow whose contract failed.
CallsAnswered ==
    \A t \in Turns : TurnAt(t, "model") =>
        LET h == turn[t].log
        IN  \A i \in DOMAIN h :
                /\ h[i] = "calls" /\ ~refused => i < Len(h) /\ h[i + 1] = "results"
                /\ h[i] = "results" => i = 1 \/ h[i - 1] = "calls"

\* A page that waits for its turn is free again in the end, whatever the model
\* and the tools do, or is unmounted.
PageFreed == \A p \in Pages : page[p].busy ~> ~page[p].busy

\* "Enable write tools before enabling automation mode." (chat-mode.ts:65): the
\* write tools are switched off between the check and the switch.
ModesNested == modes # {} => "writes" \in modes

\* A turn answers every call of the model before the next request to it: not
\* after a workflow contract failed (gemini.ts:190).
EveryCallAnswered ==
    \A t \in Turns : TurnAt(t, "model") =>
        \A i \in DOMAIN turn[t].log :
            turn[t].log[i] = "calls" => i < Len(turn[t].log) /\ turn[t].log[i + 1] = "results"
=============================================================================
