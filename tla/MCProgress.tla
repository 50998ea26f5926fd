------------------------------ MODULE MCProgress ------------------------------
(***************************************************************************)
(* The parts that must get somewhere, composed as in MCParts: a behaviour  *)
(* is one of a single part, under the fairness that its module states.     *)
(***************************************************************************)
EXTENDS ApiClient, ChatTurn, JobPanels, MainWorld

CONSTANTS Parts

VARIABLE part

others(p) ==
    /\ part = p /\ UNCHANGED part
    /\ p # "api" => UNCHANGED apiVars
    /\ p # "chat" => UNCHANGED chatVars
    /\ p # "panels" => UNCHANGED panelVars
    /\ p # "main" => UNCHANGED mainVars

MCInit ==
    /\ part \in Parts
    /\ ApiInit /\ ChatInit /\ PanelInit
    /\ MainInit /\ (part # "main" => offered /\ shown /\ unwanted = {})

MCNext ==
    \/ others("api") /\ ApiNext
    \/ others("chat") /\ ChatNext
    \/ others("panels") /\ PanelNext
    \/ others("main") /\ MainNext

mcVars == <<part, apiVars, chatVars, panelVars, mainVars>>

\* ApiFairness, PanelFairness and MainFairness; of the chat, that its turns go on:
\* the model answers, and the user answers what a tool asks.
MCFairness ==
    /\ WF_mcVars(others("api") /\ Elapses)
    /\ \A r \in Requests : WF_mcVars(others("api") /\ RequestStep(r))
    /\ \A t \in Turns : WF_mcVars(others("chat") /\ TurnStep(t))
    /\ WF_mcVars(others("panels") /\ SlotFreed)
    /\ \A w \in Windows :
          /\ WF_mcVars(others("panels") /\ NewsHeard(w))
          /\ WF_mcVars(others("panels") /\ AskServed(w))
          /\ WF_mcVars(others("panels") /\ Synced(w))
          /\ WF_mcVars(others("panels") /\ SyncPolled(w))
    /\ WF_mcVars(others("main") /\ ~Blocked /\ (InjectMain \/ Poll) /\ UNCHANGED callVars)
    /\ \A c \in PageCalls :
          WF_mcVars(others("main") /\ (CallTimedOut(c) \/ Delivered(c)) /\ UNCHANGED registryVars)

MCSpec == MCInit /\ [][MCNext]_mcVars /\ MCFairness
=============================================================================
