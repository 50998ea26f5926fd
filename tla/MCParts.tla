------------------------------- MODULE MCParts -------------------------------
(***************************************************************************)
(* The parts of the extension that share no state with each other, each    *)
(* checked by itself: a behaviour is one of a single part, and the state   *)
(* of the others stays at its Init.                                        *)
(***************************************************************************)
EXTENDS ApiClient, AuditLog, GatewayPolicy, Credentials, TestTransaction, ChatTurn,
        JobPanels, ChatContext, MainWorld, ToolCalls, Settings, Hierarchy, WorkflowSdk,
        WriteRoutes, Drafts, ConnectionForm, GatewayForm, TLC

CONSTANTS Parts, c1, c2, c3, k1, k2, m1, m2, ch1, ch2, pl1, pl2, pl3, psp, dv1, dv2, mr1, cn1

PartNames ==
    {"api", "panels", "audit", "gateway", "credentials", "transaction", "chat", "context", "main",
     "tools", "settings", "hierarchy", "sdk", "routes", "drafts", "form", "hooks"}

ASSUME PartsAssumption == Parts \subseteq PartNames

VARIABLE part

ToolDef == c1 :> k1 @@ c2 :> k2 @@ c3 :> k1

MerchantDef == ch1 :> m1 @@ ch2 :> m2

\* Every way of finding an entity, the two channels by the ways that tell their
\* merchants and by one that does not.
SitesDef ==
    {[entity |-> m1, via |-> v] : v \in {"path", "edit", "anchor"}}
    \cup {[entity |-> ch1, via |-> v] : v \in {"query", "script", "form"}}
    \cup {[entity |-> ch2, via |-> v] : v \in {"query", "print"}}

ParentDef == pl1 :> pl3 @@ pl2 :> pl3 @@ pl3 :> Division

\* Mistakes that are told and ones that are not, alone and in pairs: each kind of
\* check and each wording that makes a difference to one.
CodesDef ==
    LET Of(what, how) == [what |-> what, how |-> how]
    IN  {{}, {Of("forbidden", "comment"), Of("required", "veiled")}, {Of("label", "plain"), Of("member", "veiled")}}
        \cup {{d} : d \in {Of("forbidden", "plain"), Of("forbidden", "veiled"), Of("currency", "plain"),
                             Of("currency", "veiled"), Of("quoted", "comment"), Of("member", "plain")}}

UnderDef == psp :> NoEntityAbove @@ dv1 :> psp @@ dv2 :> psp @@ mr1 :> dv1 @@ cn1 :> mr1

\* The PINs are interchangeable: the first secret that is stored is so with one of them.
FirstPin ==
    \A i \in DOMAIN Order :
        (\A j \in 1 .. i - 1 : ~Stored(Order[j])) => blob[Order[i]] \in {NoPin, CHOOSE pin \in Pins : TRUE}

\* So are the panels: one of them is the first whose user does something.
FirstPanel ==
    edits = 0 => \A p \in Panels \ {CHOOSE first \in Panels : TRUE} : op'[p].does = "rest"

\* Bound: how many of the five secrets are stored to begin with.
MaxStored == 2

\* The two runs of the transaction tools are interchangeable: which of them has the
\* kind that comes first here makes no difference.
KindOrder == <<"temporary", "batch", "stored", "auto", "vaultCreate", "vaultRun", "revoke", "remote">>

RunsInOrder ==
    LET first == CHOOSE f \in Runs : TRUE
    IN  \A i, j \in DOMAIN KindOrder, r \in Runs \ {first} :
            run[first].kind = KindOrder[i] /\ run[r].kind = KindOrder[j] => i <= j

\* The two platforms below the same parent are, too: a call begins with the settings
\* of one key in order.
SiblingsInOrder ==
    LET value(p) == settings[<<p, CHOOSE key \in SettingKeys : TRUE>>]
    IN  lookup.stage = "idle" =>
            <<value(pl1), value(pl2)>> \notin {<<"default", "unset">>, <<"special", "unset">>, <<"special", "default">>}

others(p) ==
    /\ part = p /\ UNCHANGED part
    /\ p # "api" => UNCHANGED apiVars
    /\ p # "audit" => UNCHANGED auditVars
    /\ p # "gateway" => UNCHANGED gatewayVars
    /\ p # "credentials" => UNCHANGED credVars
    /\ p # "transaction" => UNCHANGED txVars
    /\ p # "chat" => UNCHANGED chatVars
    /\ p # "panels" => UNCHANGED panelVars
    /\ p # "context" => UNCHANGED contextVars
    /\ p # "main" => UNCHANGED mainVars
    /\ p # "tools" => UNCHANGED toolVars
    /\ p # "settings" => UNCHANGED settingsVars
    /\ p # "hierarchy" => UNCHANGED treeVars
    /\ p # "sdk" => UNCHANGED sdkVars
    /\ p # "routes" => UNCHANGED routeVars
    /\ p # "drafts" => UNCHANGED draftVars
    /\ p # "form" => UNCHANGED formVars
    /\ p # "hooks" => UNCHANGED gwFormVars

\* Of a part that stands still, one initial state is enough.  A hierarchy without a
\* root, a first division that is enabled or a merchant has next to nothing to
\* walk; each may be disabled or gone while the walk is on.
MCInit ==
    /\ part \in Parts
    /\ GatewayInit /\ hooks /\ token
    /\ ApiInit /\ PanelInit /\ AuditInit /\ TxInit /\ ChatInit /\ ContextInit
    /\ CredInit /\ FirstPin /\ Cardinality({s \in Secrets : Stored(s)}) <= MaxStored
    /\ (part # "credentials" => ~hasStoredCredentials /\ ~Stored("gateway"))
    /\ MainInit /\ (part # "main" => offered /\ shown /\ unwanted = {})
    /\ ToolInit /\ (part # "tools" => target = "uat")
    /\ SettingsInit /\ SiblingsInOrder /\ (part # "settings" => \A x \in Places : settings[x] = "unset")
    /\ SdkInit /\ (part # "sdk" => workflow = [host |-> "job", channel |-> TRUE, merchant |-> "given"])
    /\ TreeInit /\ RouteInit /\ DraftsInit
    /\ FormInit /\ (part # "form" => saved["uat"] = "uat" /\ saved["prod"] = "prod")
    /\ GatewayFormInit /\ (part # "hooks" => gwStored.cfg = Default /\ bearer.stored = NoBearer)
    /\ IF part = "hierarchy" THEN entity[psp] = "enabled" /\ entity[dv1] = "enabled" /\ entity[mr1] # "gone"
       ELSE \A e \in Entities : entity[e] = "enabled"

MCNext ==
    \/ others("api") /\ ApiNext
    \/ others("panels") /\ PanelNext
    \/ others("audit") /\ AuditNext
    \/ others("gateway") /\ GatewayNext
    \/ others("credentials") /\ CredNext /\ FirstPanel
    \/ others("transaction") /\ TxNext /\ RunsInOrder'
    \/ others("chat") /\ ChatNext
    \/ others("context") /\ ContextNext
    \/ others("main") /\ MainNext
    \/ others("tools") /\ ToolNext
    \/ others("settings") /\ SettingsNext /\ SiblingsInOrder'
    \/ others("hierarchy") /\ TreeNext
    \/ others("sdk") /\ SdkNext
    \/ others("routes") /\ RouteNext
    \/ others("drafts") /\ DraftsNext
    \/ others("form") /\ FormNext
    \/ others("hooks") /\ GatewayFormNext

mcVars ==
    <<part, apiVars, panelVars, auditVars, gatewayVars, credVars, txVars, chatVars,
      contextVars, mainVars, toolVars, settingsVars, treeVars, sdkVars, routeVars,
      draftVars, formVars, gwFormVars>>

MCSpec == MCInit /\ [][MCNext]_mcVars

PartsTypeOK ==
    CASE part = "api" -> ApiTypeOK
      [] part = "panels" -> PanelTypeOK
      [] part = "audit" -> AuditTypeOK
      [] part = "gateway" -> GatewayTypeOK
      [] part = "credentials" -> CredTypeOK
      [] part = "transaction" -> TxTypeOK
      [] part = "chat" -> ChatTypeOK
      [] part = "context" -> ContextTypeOK
      [] part = "main" -> MainTypeOK
      [] part = "tools" -> ToolTypeOK
      [] part = "settings" -> SettingsTypeOK
      [] part = "hierarchy" -> TreeTypeOK
      [] part = "sdk" -> SdkTypeOK
      [] part = "routes" -> RouteTypeOK
      [] part = "drafts" -> DraftsTypeOK
      [] part = "form" -> FormTypeOK
      [] part = "hooks" -> GatewayFormTypeOK
=============================================================================
