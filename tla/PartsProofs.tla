----------------------------- MODULE PartsProofs -----------------------------
(* What the specifications of the parts say of MCParts, which runs them one   *)
(* by one: for any constants, and so for those of the runs.                   *)
EXTENDS MCParts, ApiClientProofs, ToolCallsProofs, CredentialsProofs, MainWorldProofs, DraftsProofs

\* The part that runs takes its own steps, and every other stands still.
LEMMA PartsStep ==
    ASSUME [MCNext]_mcVars
    PROVE  /\ [ApiNext]_apiVars /\ [PanelNext]_panelVars /\ [AuditNext]_auditVars
           /\ [GatewayNext]_gatewayVars /\ [CredNext]_credVars /\ [TxNext]_txVars
           /\ [ChatNext]_chatVars /\ [ContextNext]_contextVars /\ [MainNext]_mainVars
           /\ [ToolNext]_toolVars /\ [SettingsNext]_settingsVars /\ [TreeNext]_treeVars
           /\ [SdkNext]_sdkVars /\ [RouteNext]_routeVars /\ [DraftsNext]_draftVars
           /\ [FormNext]_formVars /\ [GatewayFormNext]_gwFormVars
           /\ UNCHANGED part
  <1>1. CASE UNCHANGED mcVars
    BY SMTT(30), <1>1 DEF mcVars
  <1>2. CASE MCNext
    BY <1>2 DEF MCNext, others
  <1> QED BY <1>1, <1>2

LEMMA PartsBegin ==
    ASSUME MCInit
    PROVE  /\ ApiInit /\ PanelInit /\ AuditInit /\ GatewayInit /\ CredInit /\ TxInit
           /\ ChatInit /\ ContextInit /\ MainInit /\ ToolInit /\ SettingsInit /\ TreeInit
           /\ SdkInit /\ RouteInit /\ DraftsInit /\ FormInit /\ GatewayFormInit
           /\ part \in Parts
  BY DEF MCInit

\* So a behaviour of MCParts is one of every part: what is proved of a part holds
\* of what the runs check.
THEOREM PartsRunAsSpecified ==
    MCSpec => /\ ApiSpec /\ PanelSpec /\ AuditSpec /\ GatewaySpec /\ CredSpec /\ TxSpec
              /\ ChatSpec /\ ContextSpec /\ MainSpec /\ ToolSpec /\ SettingsSpec /\ TreeSpec
              /\ SdkSpec /\ RouteSpec /\ DraftsSpec /\ FormSpec /\ GatewayFormSpec
  <1>1. MCSpec => ApiSpec
    BY PartsBegin, PartsStep, PTL DEF MCSpec, ApiSpec
  <1>2. MCSpec => PanelSpec
    BY PartsBegin, PartsStep, PTL DEF MCSpec, PanelSpec
  <1>3. MCSpec => AuditSpec
    BY PartsBegin, PartsStep, PTL DEF MCSpec, AuditSpec
  <1>4. MCSpec => GatewaySpec
    BY PartsBegin, PartsStep, PTL DEF MCSpec, GatewaySpec
  <1>5. MCSpec => CredSpec
    BY PartsBegin, PartsStep, PTL DEF MCSpec, CredSpec
  <1>6. MCSpec => TxSpec
    BY PartsBegin, PartsStep, PTL DEF MCSpec, TxSpec
  <1>7. MCSpec => ChatSpec
    BY PartsBegin, PartsStep, PTL DEF MCSpec, ChatSpec
  <1>8. MCSpec => ContextSpec
    BY PartsBegin, PartsStep, PTL DEF MCSpec, ContextSpec
  <1>9. MCSpec => MainSpec
    BY PartsBegin, PartsStep, PTL DEF MCSpec, MainSpec
  <1>10. MCSpec => ToolSpec
    BY PartsBegin, PartsStep, PTL DEF MCSpec, ToolSpec
  <1>11. MCSpec => SettingsSpec
    BY PartsBegin, PartsStep, PTL DEF MCSpec, SettingsSpec
  <1>12. MCSpec => TreeSpec
    BY PartsBegin, PartsStep, PTL DEF MCSpec, TreeSpec
  <1>13. MCSpec => SdkSpec
    BY PartsBegin, PartsStep, PTL DEF MCSpec, SdkSpec
  <1>14. MCSpec => RouteSpec
    BY PartsBegin, PartsStep, PTL DEF MCSpec, RouteSpec
  <1>15. MCSpec => DraftsSpec
    BY PartsBegin, PartsStep, PTL DEF MCSpec, DraftsSpec
  <1>16. MCSpec => FormSpec
    BY PartsBegin, PartsStep, PTL DEF MCSpec, FormSpec
  <1>17. MCSpec => GatewayFormSpec
    BY PartsBegin, PartsStep, PTL DEF MCSpec, GatewayFormSpec
  <1> QED BY <1>1, <1>2, <1>3, <1>4, <1>5, <1>6, <1>7, <1>8, <1>9, <1>10, <1>11, <1>12, <1>13, <1>14, <1>15, <1>16, <1>17

PartKnown == part \in PartNames

\* Whichever part runs, its variables keep their types.
THEOREM PartsAreTyped == MCSpec => []PartsTypeOK
  <1>1. MCInit => PartKnown
    BY PartsAssumption DEF MCInit, PartKnown
  <1>2. PartKnown /\ [MCNext]_mcVars => PartKnown'
    BY PartsStep DEF PartKnown
  <1>3. MCSpec => []PartKnown
    BY <1>1, <1>2, PTL DEF MCSpec
  <1>4. /\ PartKnown
        /\ ApiTypeOK /\ PanelTypeOK /\ AuditTypeOK /\ GatewayTypeOK /\ CredTypeOK /\ TxTypeOK
        /\ ChatTypeOK /\ ContextTypeOK /\ MainTypeOK /\ ToolTypeOK /\ SettingsTypeOK /\ TreeTypeOK
        /\ SdkTypeOK /\ RouteTypeOK /\ DraftsTypeOK /\ FormTypeOK /\ GatewayFormTypeOK
        => PartsTypeOK
    BY DEF PartKnown, PartNames, PartsTypeOK
  <1>5. MCSpec => /\ []ApiTypeOK /\ []PanelTypeOK /\ []AuditTypeOK /\ []GatewayTypeOK /\ []CredTypeOK
                  /\ []TxTypeOK /\ []ChatTypeOK /\ []ContextTypeOK /\ []MainTypeOK /\ []ToolTypeOK
                  /\ []SettingsTypeOK /\ []TreeTypeOK /\ []SdkTypeOK /\ []RouteTypeOK /\ []DraftsTypeOK
                  /\ []FormTypeOK /\ []GatewayFormTypeOK
    BY PartsRunAsSpecified, ApiIsTyped, PanelsAreTyped, AuditIsTyped, GatewayIsTyped, VaultIsTyped,
       TestsAreTyped, ChatIsTyped, ContextIsTyped, MainIsTyped, ToolsAreTyped, SettingsAreTyped,
       TreesAreTyped, WorkflowWritesAreTyped, RoutesAreTyped, DraftsAreTyped, FormIsTyped,
       GatewayFormIsTyped
  <1> QED BY <1>3, <1>4, <1>5, PTL
=============================================================================
