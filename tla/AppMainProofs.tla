----------------------------- MODULE AppMainProofs ----------------------------
(***************************************************************************)
(* Proofs about AppMain, for every set of numbers, patches, commands and   *)
(* hub names, and any number of changes of the twin and of commands.       *)
(***************************************************************************)
EXTENDS AppMain, SequenceTheorems, TLAPS

-----------------------------------------------------------------------------
(***************************************************************************)
(* What a step of the application is for each of its parts                 *)
(***************************************************************************)
WifiStep ==
  \/ Restart \/ WifiConnectBegins \/ GotIp \/ Disconnected
  \/ \E s \in stores : StoreFlag(s)
  \/ UNCHANGED wifiVars

(* The Wi-Fi helper is only used by start-up and by its event task.         *)
LEMMA WifiSteps == [AppNext]_appVars => WifiStep
<1> SUFFICES ASSUME [AppNext]_appVars PROVE WifiStep
  OBVIOUS
<1> USE DEF WifiStep, Fail
<1>1. CASE Infra
  BY <1>1 DEF Infra, NvsInit, WifiInitialized, WifiConnect, WifiWaitEnds, WifiResult,
              WifiResultFailed, DnsSetServers, SntpInit, TimeSynchronized, InfraFails
<1>2. CASE Dps
  BY <1>2 DEF Dps, DpsSetup, DpsTransportConnected, DpsRegistering, DpsDisconnected, DpsGet,
              DpsFails, DpsStep
<1>3. CASE HubRun
  <2>1. ASSUME NEW ok \in BOOLEAN, SetupHub(ok) PROVE UNCHANGED wifiVars
    BY <2>1 DEF SetupHub, HubSetup, HubConnect, MqttConnect, Subscriptions, SubscribeTo,
                SubscriptionAcknowledged, RequestProperties, ReportInitialState, SetupStep,
                HubStep
  <2>2. ASSUME SendTelemetry \/ ProcessLoopEnds \/ EndLoop
                 \/ DisconnectHubMqtt \/ DisconnectHubTransport
        PROVE  UNCHANGED wifiVars
    BY <2>2 DEF SendTelemetry, ProcessLoopEnds, EndLoop, UnsubscribeFrom, DisconnectHubMqtt,
                DisconnectHubTransport, HubStep
  <2> QED
    BY <1>3, <2>1, <2>2 DEF HubRun, HubRunFails
<1>4. CASE ReceiveCommand \/ ReceiveProperties \/ Callbacks \/ LoseComponentList
  BY <1>4 DEF ReceiveCommand, ReceiveProperties, Callbacks, HandleProperties,
              ReportStateChanged, LoseComponentList
<1>5. ASSUME NEW patch \in Patches, CloudPatches(patch) PROVE UNCHANGED wifiVars
  BY <1>5 DEF CloudPatches, programVars
<1>6. ASSUME NEW command \in Commands, CloudInvokes(command) PROVE UNCHANGED wifiVars
  BY <1>6 DEF CloudInvokes, programVars
<1>7. CASE WifiEvents \/ LoseSession \/ PowerLoss
  BY <1>7 DEF WifiEvents, LoseSession, PowerLoss
<1>8. CASE UNCHANGED appVars
  BY <1>8 DEF appVars, programVars
<1> QED
  BY <1>1, <1>2, <1>3, <1>4, <1>5, <1>6, <1>7, <1>8 DEF AppNext

-----------------------------------------------------------------------------
(* What a step does to the connections and to the place in the program.     *)
LinkTyped == dps_open \in BOOLEAN /\ HubTypeOK

(* Types of the two connections.                                            *)
LEMMA StepLinks == LinkTyped /\ [AppNext]_appVars => LinkTyped'
<1> SUFFICES ASSUME LinkTyped, [AppNext]_appVars PROVE LinkTyped'
  OBVIOUS
<1>1. ASSUME Restart PROVE LinkTyped'
  BY <1>1 DEF Restart, ProvisioningRestart, HubRestart, LinkTyped, HubTypeOK
<1>2. ASSUME UNCHANGED <<dps_open, hubVars>> PROVE LinkTyped'
  BY <1>2 DEF LinkTyped, HubTypeOK, hubVars
<1>3. ASSUME UNCHANGED dps_open, connection' \in {"closed", "bare", "session"},
             subscribed' \subseteq Topics
      PROVE  LinkTyped'
  BY <1>3 DEF LinkTyped, HubTypeOK
<1>4. \A ok \in BOOLEAN : Exchange(NetworkUp, ok) => connection' \in {"closed", "bare", "session"}
  BY DEF Exchange, LinkTyped, HubTypeOK
<1>5. CASE Infra
  <2>1. ASSUME NEW from, NEW to, InfraStep(from, to) PROVE LinkTyped'
    BY <1>2, <2>1 DEF InfraStep, dpsVars
  <2> QED
    BY <1>1, <1>5, <2>1
       DEF Infra, NvsInit, WifiInitialized, WifiConnect, WifiWaitEnds, WifiResult,
           WifiResultFailed, DnsSetServers, SntpInit, TimeSynchronized, InfraFails, Fail
<1>6. CASE Dps
  <2>1. ASSUME NEW op, NEW ok, DpsTransport(op, NetworkUp, ok), UNCHANGED hubVars
        PROVE  LinkTyped'
    BY <2>1 DEF DpsTransport, LinkTyped, HubTypeOK, hubVars
  <2>2. ASSUME NEW result \in {"success", "pending", "failure"}, DpsRegistering(result)
        PROVE  LinkTyped'
    BY <2>1, <2>2 DEF DpsRegistering, DpsStep, DpsRegister
  <2>3. CASE DpsTransportConnected
    BY <2>1, <2>3 DEF DpsTransportConnected, DpsStep, DpsConnect
  <2>4. CASE DpsSetup \/ DpsDisconnected \/ DpsGet
    BY <2>4 DEF DpsSetup, DpsDisconnected, DpsGet, DpsStep, DpsDisconnect, GetDeviceAndHub,
                dpsVars, LinkTyped, HubTypeOK, hubVars
  <2> QED
    BY <1>1, <1>6, <2>2, <2>3, <2>4 DEF Dps, DpsFails, Fail
<1>7. CASE HubRun
  <2>1. ASSUME NEW from, NEW to, HubStep(from, to) PROVE UNCHANGED dps_open
    BY <2>1 DEF HubStep, dpsVars
  <2>2. ASSUME NEW ok \in BOOLEAN, SetupHub(ok) PROVE LinkTyped'
    <3>1. UNCHANGED dps_open
      BY <2>1, <2>2 DEF SetupHub, HubSetup, HubConnect, MqttConnect, Subscriptions, SubscribeTo,
                  SubscriptionAcknowledged, RequestProperties, ReportInitialState, SetupStep
    <3>2. CASE HubSetup(ok)
      BY <1>2, <3>1, <3>2 DEF HubSetup
    <3>3. CASE HubConnect(ok) \/ MqttConnect(ok)
      BY <1>3, <1>4, <3>1, <3>3 DEF HubConnect, MqttConnect, ConnectTransport, ConnectMqtt,
                                    LinkTyped, HubTypeOK
    <3>4. CASE Subscriptions(ok)
      BY <1>3, <1>4, <3>1, <3>4 DEF Subscriptions, SubscribeTo, SubscriptionAcknowledged,
                                    Subscribe, Acknowledged, LinkTyped, HubTypeOK, Topics
    <3>5. CASE RequestProperties(ok) \/ ReportInitialState(ok)
      BY <1>3, <1>4, <3>1, <3>5 DEF RequestProperties, ReportInitialState, Send, LinkTyped,
                                    HubTypeOK
    <3> QED
      BY <2>2, <3>2, <3>3, <3>4, <3>5 DEF SetupHub
  <2>3. CASE SendTelemetry \/ ProcessLoopEnds
    BY <1>3, <1>4, <2>1, <2>3 DEF SendTelemetry, ProcessLoopEnds, Send, LinkTyped, HubTypeOK
  <2>4. CASE EndLoop
    BY <1>3, <1>4, <2>1, <2>4 DEF EndLoop, UnsubscribeFrom, Unsubscribe, LinkTyped, HubTypeOK
  <2>5. CASE DisconnectHubMqtt \/ DisconnectHubTransport
    BY <1>3, <2>1, <2>5 DEF DisconnectHubMqtt, DisconnectHubTransport, DisconnectMqtt,
                            DisconnectTransport, LinkTyped, HubTypeOK
  <2> QED
    BY <1>1, <1>7, <2>2, <2>3, <2>4, <2>5 DEF HubRun, HubRunFails, Fail
<1>8. CASE ReceiveCommand \/ ReportStateChanged
  BY <1>3, <1>4, <1>8 DEF ReceiveCommand, ReportStateChanged, Send, dpsVars, LinkTyped, HubTypeOK
<1>9. CASE ReceiveProperties \/ HandleProperties \/ LoseComponentList
  BY <1>2, <1>9 DEF ReceiveProperties, HandleProperties, LoseComponentList, dpsVars
<1>10. ASSUME NEW patch \in Patches, CloudPatches(patch) PROVE LinkTyped'
  BY <1>2, <1>10 DEF CloudPatches, programVars, dpsVars
<1>11. ASSUME NEW command \in Commands, CloudInvokes(command) PROVE LinkTyped'
  BY <1>2, <1>11 DEF CloudInvokes, programVars, dpsVars
<1>12. CASE WifiEvents \/ UNCHANGED appVars
  BY <1>2, <1>12 DEF WifiEvents, appVars, programVars, dpsVars
<1>13. CASE LoseSession
  BY <1>3, <1>13 DEF LoseSession, SessionLost, dpsVars, LinkTyped, HubTypeOK
<1> QED
  BY <1>1, <1>5, <1>6, <1>7, <1>8, <1>9, <1>10, <1>11, <1>12, <1>13
     DEF AppNext, Callbacks, PowerLoss

-----------------------------------------------------------------------------
(* The program counter and the two flags of the main task.                  *)
MainTyped ==
  /\ pc \in InfraLabels \cup DpsLabels \cup HubSetupLabels \cup LoopLabels \cup EndLabels
  /\ success \in BOOLEAN
  /\ restart_command_called \in BOOLEAN

(* A callback only runs inside a call that waits for the hub.               *)
CallbackInCall == callback # "none" => pc \in Waiting

LinksClosed == LinkTyped /\ MainTyped /\ NothingLeftOpen /\ CallbackInCall

(* Every connection is closed on the way out of the code that made it.      *)
LEMMA StepLeavesNothingOpen == LinksClosed /\ [AppNext]_appVars => LinksClosed'
<1> SUFFICES ASSUME LinksClosed, [AppNext]_appVars PROVE MainTyped' /\ NothingLeftOpen' /\ CallbackInCall'
  BY StepLinks DEF LinksClosed
<1> USE DEF LinksClosed, MainTyped, NothingLeftOpen, CallbackInCall, Waiting
<1> USE DEF InfraLabels, WifiLabels, DpsLabels, HubSetupLabels, LoopLabels, EndLabels
<1>1. ASSUME Restart PROVE MainTyped' /\ NothingLeftOpen' /\ CallbackInCall'
  BY <1>1 DEF Restart, ProvisioningRestart, HubRestart, HandlerRestart
<1>2. ASSUME UNCHANGED <<dps_open, connection, callback, mainVars>>
      PROVE  MainTyped' /\ NothingLeftOpen' /\ CallbackInCall'
  BY <1>2 DEF mainVars
<1>3. CASE Infra
  <2>1. ASSUME NEW from, NEW to, InfraStep(from, to),
               from \in InfraLabels, to \in InfraLabels \cup {"dps_setup"}
        PROVE  MainTyped' /\ NothingLeftOpen' /\ CallbackInCall'
    BY <2>1 DEF InfraStep, Goto, dpsVars, hubVars, handlerVars
  <2> QED
    BY <1>1, <1>3, <2>1
       DEF Infra, NvsInit, WifiInitialized, WifiConnect, WifiWaitEnds, WifiResult,
           WifiResultFailed, DnsSetServers, SntpInit, TimeSynchronized, InfraFails, Fail
<1>4. CASE Dps
  <2>1. ASSUME NEW result \in {"success", "pending", "failure"}, DpsRegistering(result)
        PROVE  MainTyped' /\ NothingLeftOpen' /\ CallbackInCall'
    <3>1. AfterRegister[result] \in {"dps_register", "dps_registered", "dps_refused"}
      BY DEF AfterRegister
    <3> QED
      BY <2>1, <3>1 DEF DpsRegistering, DpsStep, Goto, hubVars, handlerVars
  <2>2. CASE DpsSetup \/ DpsGet
    BY <2>2 DEF DpsSetup, DpsGet, DpsStep, Goto, GetDeviceAndHub, dpsVars, hubVars, handlerVars
  <2>3. CASE DpsTransportConnected
    BY <2>3 DEF DpsTransportConnected, DpsStep, Goto, hubVars, handlerVars
  <2>4. CASE DpsDisconnected
    BY <2>4 DEF DpsDisconnected, DpsStep, Goto, DpsDisconnect, hubVars, handlerVars
  <2> QED
    BY <1>1, <1>4, <2>1, <2>2, <2>3, <2>4 DEF Dps, DpsFails, Fail
<1>5. CASE HubRun
  <2>1. ASSUME NEW from, NEW to, HubStep(from, to), success' \in BOOLEAN,
               from \in HubSetupLabels \cup LoopLabels \cup EndLabels,
               callback' = callback,
               \/ to \in (HubSetupLabels \ {"hub_setup", "hub_connect"})
                          \cup LoopLabels \cup (EndLabels \ {"finished"})
               \/ to \in {"hub_connect", "finished"} /\ connection' = "closed"
        PROVE  MainTyped' /\ NothingLeftOpen' /\ CallbackInCall'
    <3>1. pc = from /\ pc' = to /\ dps_open' = dps_open
          /\ restart_command_called' = restart_command_called /\ callback' = "none"
      BY <2>1 DEF HubStep, Goto, dpsVars
    <3>2. ~dps_open
      BY <2>1, <3>1
    <3>3. to \in HubSetupLabels \cup LoopLabels \cup EndLabels
      BY <2>1
    <3>4. connection' # "closed" => to \in (HubSetupLabels \ {"hub_setup", "hub_connect"})
                                              \cup LoopLabels \cup (EndLabels \ {"finished"})
      BY <2>1
    <3> QED
      BY <2>1, <3>1, <3>2, <3>3, <3>4
  <2>2. ASSUME NEW ok \in BOOLEAN, SetupHub(ok) PROVE MainTyped' /\ NothingLeftOpen' /\ CallbackInCall'
    <3>1. CASE HubSetup(ok)
      BY <2>1, <3>1 DEF HubSetup, SetupStep, HubStep, Goto, hubVars, handlerVars
    <3>2. CASE HubConnect(ok) \/ MqttConnect(ok)
      BY <2>1, <3>2 DEF HubConnect, MqttConnect, SetupStep, handlerVars
    <3>3. CASE Subscriptions(ok)
      BY <2>1, <3>3 DEF Subscriptions, SubscribeTo, SubscriptionAcknowledged, SetupStep, handlerVars
    <3>4. CASE RequestProperties(ok) \/ ReportInitialState(ok)
      BY <2>1, <3>4 DEF RequestProperties, ReportInitialState, SetupStep, LoopTest, handlerVars
    <3> QED
      BY <2>2, <3>1, <3>2, <3>3, <3>4 DEF SetupHub
  <2>3. CASE SendTelemetry \/ ProcessLoopEnds
    BY <2>1, <2>3 DEF SendTelemetry, ProcessLoopEnds, LoopTest, handlerVars
  <2>4. CASE EndLoop
    BY <2>1, <2>4 DEF EndLoop, UnsubscribeFrom, handlerVars
  <2>5. CASE DisconnectHubMqtt \/ DisconnectHubTransport
    BY <2>1, <2>5 DEF DisconnectHubMqtt, DisconnectHubTransport, DisconnectTransport, handlerVars
  <2> QED
    BY <1>1, <1>5, <2>2, <2>3, <2>4, <2>5 DEF HubRun, HubRunFails, Fail
<1>6. CASE ReceiveCommand
  <2>1. restart_command_called' \in BOOLEAN
    <3>1. \A b \in BOOLEAN : (restart_command_called \/ b) \in BOOLEAN
      BY Zenon
    <3>2. PICK b \in BOOLEAN : restart_command_called' = (restart_command_called \/ b)
      BY <1>6, Zenon DEF ReceiveCommand, IsRestart
    <3> QED
      BY <3>1, <3>2
  <2>2. pc \in Waiting /\ UNCHANGED <<pc, success, dps_open, callback>>
    BY <1>6 DEF ReceiveCommand, dpsVars, handlerVars
  <2> QED
    BY <2>1, <2>2 DEF Waiting
<1>7. CASE ReportStateChanged
  BY <1>7 DEF ReportStateChanged, dpsVars, mainVars, StateChangedReported, Send
<1>8. CASE ReceiveProperties \/ HandleProperties \/ LoseComponentList
  <2>1. UNCHANGED <<dps_open, connection, mainVars>>
    BY <1>8 DEF ReceiveProperties, HandleProperties, LoseComponentList, dpsVars, hubVars
  <2>2. CASE ReceiveProperties
    BY <2>1, <2>2 DEF ReceiveProperties, mainVars
  <2>3. CASE HandleProperties
    <3>1. callback # "none"
      BY <2>3 DEF HandleProperties, ReadProperty, AllPropertiesRead
    <3> QED
      BY <2>1, <3>1 DEF mainVars
  <2>4. CASE LoseComponentList
    BY <1>2, <2>1, <2>4 DEF LoseComponentList, OverwriteList
  <2> QED
    BY <1>8, <2>2, <2>3, <2>4
<1>9. ASSUME NEW patch \in Patches, CloudPatches(patch) PROVE MainTyped' /\ NothingLeftOpen' /\ CallbackInCall'
  BY <1>2, <1>9 DEF CloudPatches, programVars, dpsVars, hubVars, handlerVars
<1>10. ASSUME NEW command \in Commands, CloudInvokes(command)
       PROVE  MainTyped' /\ NothingLeftOpen' /\ CallbackInCall'
  BY <1>2, <1>10 DEF CloudInvokes, programVars, dpsVars, hubVars, handlerVars
<1>11. CASE WifiEvents \/ UNCHANGED appVars
  BY <1>2, <1>11 DEF WifiEvents, appVars, programVars, dpsVars, hubVars, handlerVars
<1>12. CASE LoseSession
  BY <1>12 DEF LoseSession, SessionLost, dpsVars, mainVars, handlerVars
<1> QED
  BY <1>1, <1>3, <1>4, <1>5, <1>6, <1>7, <1>8, <1>9, <1>10, <1>11, <1>12
     DEF AppNext, Callbacks, PowerLoss

-----------------------------------------------------------------------------
(* A flag that says connected was stored for an address obtained.           *)
AddressKnown ==
  /\ WifiTypeOK
  /\ s_wifi_connected => got_ip
  /\ \A s \in stores : s.flag = "connected" /\ s.value => got_ip

(* The helper and the event task keep it, in whatever order flags are seen. *)
LEMMA StepAddressKnown ==
  AddressKnown /\ WifiStep => AddressKnown' /\ (Restart \/ (got_ip => got_ip'))
<1> SUFFICES ASSUME AddressKnown, WifiStep
             PROVE  AddressKnown' /\ (Restart \/ (got_ip => got_ip'))
  OBVIOUS
<1> USE DEF AddressKnown, WifiTypeOK
<1>1. CASE Restart
  BY <1>1 DEF Restart, WifiRestart
<1>2. CASE WifiConnectBegins
  BY <1>2 DEF WifiConnectBegins
<1>3. ASSUME NEW connected \in BOOLEAN, HandleWifiEvent(connected), got_ip' \in BOOLEAN,
             wifi' \in {"up", "down"}, got_ip \/ connected => got_ip'
      PROVE  AddressKnown' /\ (got_ip => got_ip')
  BY <1>3 DEF HandleWifiEvent, flagVars
<1>4. CASE GotIp
  BY <1>3, <1>4 DEF GotIp
<1>5. CASE Disconnected
  BY <1>3, <1>5 DEF Disconnected
<1>6. ASSUME NEW s \in stores, StoreFlag(s) PROVE AddressKnown' /\ (got_ip => got_ip')
  <2>1. s \in [flag : {"connected", "response_gotten"}, value : BOOLEAN]
    OBVIOUS
  <2>2. s.flag \in {"connected", "response_gotten"} /\ s.value \in BOOLEAN
    BY <2>1
  <2> QED
    BY <1>6, <2>2 DEF StoreFlag
<1>7. CASE UNCHANGED wifiVars
  BY <1>7 DEF wifiVars, flagVars
<1> QED
  BY <1>1, <1>2, <1>4, <1>5, <1>6, <1>7 DEF WifiStep

(* Only a result that says connected leads out of the Wi-Fi helper.         *)
LEMMA LeavesWifi ==
  ASSUME [AppNext]_appVars, pc \in WifiLabels, pc' \notin WifiLabels
  PROVE  s_wifi_connected /\ UNCHANGED wifiVars
<1> USE DEF WifiLabels
<1>1. CASE Infra
  BY <1>1 DEF Infra, NvsInit, WifiInitialized, WifiConnect, WifiWaitEnds, WifiResult,
              WifiResultFailed, DnsSetServers, SntpInit, TimeSynchronized, InfraFails,
              InfraStep, Goto, Fail, Restart
<1>2. CASE Dps
  <2>1. pc \in {"dps_setup", "dps_connect", "dps_register", "dps_registered", "dps_refused",
               "dps_get"}
    BY <1>2 DEF Dps, DpsSetup, DpsTransportConnected, DpsRegistering, DpsDisconnected, DpsGet,
                DpsFails, DpsStep, Goto, Fail
  <2> QED
    BY <2>1
<1>3. CASE HubRun
  <2>1. ASSUME NEW ok \in BOOLEAN, SetupHub(ok) PROVE FALSE
    BY <2>1 DEF SetupHub, HubSetup, HubConnect, MqttConnect, Subscriptions, SubscribeTo,
                SubscriptionAcknowledged, RequestProperties, ReportInitialState, SetupStep,
                HubStep, Goto
  <2>2. ASSUME SendTelemetry \/ ProcessLoopEnds \/ EndLoop
                 \/ DisconnectHubMqtt \/ DisconnectHubTransport
        PROVE  FALSE
    BY <2>2 DEF SendTelemetry, ProcessLoopEnds, EndLoop, UnsubscribeFrom, DisconnectHubMqtt,
                DisconnectHubTransport, HubStep, Goto
  <2> QED
    BY <1>3, <2>1, <2>2 DEF HubRun, HubRunFails, Fail
<1>4. CASE ReceiveCommand \/ ReceiveProperties \/ Callbacks \/ LoseComponentList
  BY <1>4 DEF ReceiveCommand, ReceiveProperties, Callbacks, HandleProperties,
              ReportStateChanged, LoseComponentList, mainVars
<1>5. ASSUME NEW patch \in Patches, CloudPatches(patch) PROVE FALSE
  BY <1>5 DEF CloudPatches, programVars, mainVars
<1>6. ASSUME NEW command \in Commands, CloudInvokes(command) PROVE FALSE
  BY <1>6 DEF CloudInvokes, programVars, mainVars
<1>7. CASE WifiEvents \/ LoseSession \/ PowerLoss \/ UNCHANGED appVars
  BY <1>7 DEF WifiEvents, LoseSession, PowerLoss, Restart, appVars, programVars, mainVars
<1> QED
  BY <1>1, <1>2, <1>3, <1>4, <1>5, <1>6, <1>7 DEF AppNext

WifiInv == AddressKnown /\ WifiTrue

(* An address is known wherever the program needs one.                      *)
LEMMA StepWifi == WifiInv /\ [AppNext]_appVars => WifiInv'
<1> SUFFICES ASSUME WifiInv, [AppNext]_appVars PROVE WifiInv'
  OBVIOUS
<1>1. AddressKnown' /\ (Restart \/ (got_ip => got_ip'))
  BY WifiSteps, StepAddressKnown DEF WifiInv
<1>2. ASSUME pc' \notin WifiLabels PROVE got_ip'
  <2>1. ~Restart
    BY <1>2 DEF Restart, WifiLabels
  <2>2. got_ip
    BY <1>2, LeavesWifi DEF WifiInv, WifiTrue, AddressKnown
  <2> QED
    BY <1>1, <2>1, <2>2
<1> QED
  BY <1>1, <1>2 DEF WifiInv, WifiTrue

-----------------------------------------------------------------------------
(* The initial state, part by part.                                         *)
LEMMA InitParts == AppInit => LinksClosed /\ WifiInv
  BY DEF AppInit, ProgramInit, WifiInit, ProvisioningInit, HubInit, HandlerInit, LinksClosed,
         LinkTyped, HubTypeOK, MainTyped, NothingLeftOpen, CallbackInCall, InfraLabels,
         WifiLabels, WifiInv, AddressKnown, WifiTypeOK, WifiTrue

(* No connection outlives the client it was made for.                       *)
THEOREM NothingStaysOpen == AppSpec => []NothingLeftOpen
<1>1. LinksClosed => NothingLeftOpen
  BY DEF LinksClosed
<1> QED
  BY <1>1, InitParts, StepLeavesNothingOpen, PTL DEF AppSpec

(* What follows the Wi-Fi helper runs only after an address was obtained.   *)
THEOREM WifiStaysTrue == AppSpec => []WifiTrue
<1>1. WifiInv => WifiTrue
  BY DEF WifiInv
<1> QED
  BY <1>1, InitParts, StepWifi, PTL DEF AppSpec

-----------------------------------------------------------------------------
(***************************************************************************)
(* The twin, the messages and the callback                                 *)
(***************************************************************************)
SyncLabels == {"report_initial"} \cup LoopLabels

(* A step that has nothing to do with them, except that a session may be    *)
(* lost with what was under way, and the component list with set-up.        *)
Quiet ==
  /\ UNCHANGED <<display_brightness, callback, message, brightness, reader>>
  /\ UNCHANGED <<twin, acked, invoked, answers>>
  /\ component_list' \in {component_list, "intact", "overwritten"}
  /\ component_list' = "intact" =>
       component_list = "intact" \/ (callback = "none" /\ pc' \notin SyncLabels)
  /\ downlink' \in {downlink, <<>>}
  /\ connection' = "session" /\ pc' \in SyncLabels =>
       connection = "session" /\ pc \in SyncLabels /\ downlink' = downlink

DataStep ==
  \/ Restart \/ Quiet
  \/ \E ok \in BOOLEAN : RequestProperties(ok)
  \/ ReceiveCommand \/ ReceiveProperties \/ HandleProperties \/ ReportStateChanged
  \/ \E patch \in Patches : CloudPatches(patch)
  \/ \E command \in Commands : CloudInvokes(command)

(* An exchange does not make a session of what was none.                    *)
LEMMA ExchangeKeeps ==
  ASSUME NEW ok \in BOOLEAN, Exchange(NetworkUp, ok), connection' = "session"
  PROVE  connection = "session"
  BY DEF Exchange

(* Every step is one of those.                                              *)
LEMMA DataSteps == [AppNext]_appVars => DataStep
<1> SUFFICES ASSUME [AppNext]_appVars PROVE DataStep
  OBVIOUS
<1>1. ASSUME UNCHANGED <<handlerVars, twinVars, commandVars>>, downlink' \in {downlink, <<>>},
             connection' = "session" /\ pc' \in SyncLabels =>
               connection = "session" /\ pc \in SyncLabels /\ downlink' = downlink
      PROVE  Quiet
  BY <1>1 DEF Quiet, handlerVars, messageVars, twinVars, commandVars
<1>2. CASE Infra
  <2>1. ASSUME NEW from, NEW to, InfraStep(from, to), to \notin SyncLabels PROVE Quiet
    BY <1>1, <2>1 DEF InfraStep, Goto, CloudUnchanged
  <2> QED
    BY <1>2, <2>1
       DEF Infra, NvsInit, WifiInitialized, WifiConnect, WifiWaitEnds, WifiResult,
           WifiResultFailed, DnsSetServers, SntpInit, TimeSynchronized, InfraFails, Fail,
           SyncLabels, LoopLabels, DataStep
<1>3. CASE Dps
  <2>1. ASSUME NEW from, NEW to, DpsStep(from, to), to \notin SyncLabels PROVE Quiet
    BY <1>1, <2>1 DEF DpsStep, Goto, CloudUnchanged
  <2>2. ASSUME NEW result \in {"success", "pending", "failure"}, DpsRegistering(result)
        PROVE  Quiet
    <3>1. AfterRegister[result] \in {"dps_register", "dps_registered", "dps_refused"}
      BY DEF AfterRegister
    <3> QED
      BY <2>1, <2>2, <3>1 DEF DpsRegistering, SyncLabels, LoopLabels
  <2> QED
    BY <1>3, <2>1, <2>2
       DEF Dps, DpsSetup, DpsTransportConnected, DpsDisconnected, DpsGet, DpsFails, Fail,
           SyncLabels, LoopLabels, DataStep
<1>4. CASE HubRun
  <2>1. ASSUME NEW from, NEW to, HubStep(from, to), UNCHANGED <<handlerVars, twinVars>>,
               downlink' \in {downlink, <<>>},
               \/ to \notin SyncLabels
               \/ /\ from \in SyncLabels
                  /\ \E ok \in BOOLEAN : Exchange(NetworkUp, ok)
                  /\ DownlinkBecomes(downlink)
        PROVE  Quiet
    <3>1. pc = from /\ pc' = to /\ UNCHANGED commandVars
      BY <2>1 DEF HubStep, Goto
    <3> QED
      BY <1>1, <2>1, <3>1, ExchangeKeeps DEF DownlinkBecomes
  <2>2. ASSUME NEW ok \in BOOLEAN, SetupHub(ok) PROVE DataStep
    <3>1. CASE HubSetup(ok)
      <4>1. callback = "none" /\ pc' \notin SyncLabels
        BY <3>1 DEF HubSetup, SetupStep, HubStep, Goto, SyncLabels, LoopLabels
      <4> QED
        BY <3>1, <4>1 DEF HubSetup, SetupStep, HubStep, messageVars, twinVars, commandVars,
                          Quiet, DataStep
    <3>2. CASE HubConnect(ok) \/ MqttConnect(ok)
      BY <2>1, <3>2 DEF HubConnect, MqttConnect, SetupStep, SyncLabels, LoopLabels, DataStep
    <3>3. CASE Subscriptions(ok)
      BY <2>1, <3>3 DEF Subscriptions, SubscribeTo, SubscriptionAcknowledged, SetupStep,
                        DownlinkBecomes, SyncLabels, LoopLabels, DataStep
    <3>4. CASE RequestProperties(ok)
      BY <3>4 DEF DataStep
    <3>5. CASE ReportInitialState(ok)
      BY <2>1, <3>5 DEF ReportInitialState, SetupStep, Send, DownlinkBecomes, SyncLabels,
                        DataStep
    <3> QED
      BY <2>2, <3>1, <3>2, <3>3, <3>4, <3>5 DEF SetupHub
  <2>3. CASE SendTelemetry \/ ProcessLoopEnds
    BY <2>1, <2>3 DEF SendTelemetry, ProcessLoopEnds, Send, DownlinkBecomes, SyncLabels,
                      LoopLabels, DataStep
  <2>4. CASE EndLoop
    BY <2>1, <2>4 DEF EndLoop, UnsubscribeFrom, DownlinkBecomes, SyncLabels, LoopLabels,
                      DataStep
  <2>5. CASE DisconnectHubMqtt \/ DisconnectHubTransport
    BY <2>1, <2>5 DEF DisconnectHubMqtt, DisconnectHubTransport, DownlinkBecomes, SyncLabels,
                      LoopLabels, DataStep
  <2> QED
    BY <1>4, <2>2, <2>3, <2>4, <2>5 DEF HubRun, HubRunFails, Fail, DataStep
<1>5. CASE LoseComponentList
  BY <1>5 DEF LoseComponentList, OverwriteList, hubVars, mainVars, messageVars, twinVars,
              commandVars, Quiet, DataStep
<1>6. CASE WifiEvents \/ UNCHANGED appVars
  BY <1>1, <1>6 DEF WifiEvents, appVars, programVars, hubVars, mainVars, DataStep
<1>7. CASE LoseSession
  BY <1>1, <1>7 DEF LoseSession, SessionLost, mainVars, DataStep
<1> QED
  BY <1>2, <1>3, <1>4, <1>5, <1>6, <1>7 DEF AppNext, Callbacks, PowerLoss, DataStep

-----------------------------------------------------------------------------
(* Types of what the cloud knows, of the messages and of the callback.      *)
Messages == PropertyMessages \cup CommandMessages

CloudTyped ==
  /\ twin \in Twins
  /\ acked \in Acknowledgements
  /\ invoked \in 0 .. MaxCommands
  /\ answers \in Seq(Answers)
  /\ downlink \in Seq(Messages)

(* Only a number is ever read as one.                                       *)
ReaderTrue ==
  /\ "brightness" \in reader => brightness # Absent
  /\ callback = "report_state" => message.type = "patch" /\ reader = {}

DataTyped == CloudTyped /\ HandlerTypeOK /\ ReaderTrue

(* The first message and the rest of those under way.                       *)
LEMMA HeadAndTail ==
  ASSUME NEW S, NEW q \in Seq(S), q # <<>>
  PROVE  /\ Head(q) \in S /\ Head(q) = q[1] /\ 1 \in DOMAIN q
         /\ Tail(q) \in Seq(S)
         /\ \A k \in DOMAIN Tail(q) : k + 1 \in DOMAIN q /\ Tail(q)[k] = q[k + 1]
         /\ \A k \in DOMAIN q : k # 1 => k - 1 \in DOMAIN Tail(q) /\ q[k] = Tail(q)[k - 1]
         /\ \A k \in DOMAIN Tail(q) : k \in Nat \ {0}
         /\ \A k \in DOMAIN q : k \in Nat \ {0}
  OBVIOUS

(* The messages after one more is sent.                                     *)
LEMMA OneMore ==
  ASSUME NEW S, NEW q \in Seq(S), NEW m \in S
  PROVE  /\ Append(q, m) \in Seq(S)
         /\ Len(q) + 1 \in DOMAIN Append(q, m) /\ Append(q, m)[Len(q) + 1] = m
         /\ \A k \in DOMAIN Append(q, m) :
              (k \in DOMAIN q /\ Append(q, m)[k] = q[k]) \/ (k = Len(q) + 1 /\ k \notin DOMAIN q)
         /\ \A k \in DOMAIN q : k \in DOMAIN Append(q, m) /\ k \in 1 .. Len(q)
  OBVIOUS

LEMMA Joined ==
  ASSUME NEW S, NEW p \in Seq(S), NEW q \in Seq(S)
  PROVE  p \o q \in Seq(S)
  OBVIOUS

LEMMA DownlinkTyped ==
  ASSUME NEW messages \in Seq(Messages), DownlinkBecomes(messages)
  PROVE  downlink' \in Seq(Messages)
  BY DEF DownlinkBecomes

(* The property messages of the service have the type they should.          *)
LEMMA DocumentTyped == CloudTyped => Document \in Messages
  BY DEF CloudTyped, Twins, Document, Messages, PropertyMessages

LEMMA PatchTyped ==
  ASSUME CloudTyped, NEW patch \in Patches, CloudPatches(patch)
  PROVE  /\ twin' \in Twins
         /\ [type |-> "patch", version |-> twin'.version, payload |-> patch] \in Messages
<1>1. patch \in Payloads /\ twin.version \in Nat /\ MaxVersion \in Nat
  BY AppAssumption, PropertyAssumption DEF CloudTyped, Twins
<1>2. twin'.version \in 1 .. MaxVersion /\ twin'.version \in 0 .. MaxVersion
  BY <1>1 DEF CloudPatches, CloudTyped, Twins
<1>3. twin'.desired \in Payloads /\ twin'.patch \in Payloads
  <2>1. twin.desired \in Payloads
    BY DEF CloudTyped, Twins
  <2> QED
    BY <1>1, <2>1 DEF CloudPatches, Payloads
<1> QED
  BY <1>1, <1>2, <1>3 DEF CloudPatches, Twins, Messages, PropertyMessages

(* A value read as a brightness is eight bits.                              *)
LEMMA EightBits == \A n \in Int : GetTokenUInt8(n) \in 0 .. 255
  BY DEF GetTokenUInt8

(* The callback keeps its types.                                            *)
LEMMA HandlerStays ==
  ASSUME HandlerTypeOK, ReaderTrue, ReadProperty \/ AllPropertiesRead
  PROVE  HandlerTypeOK' /\ ReaderTrue'
<1>1. CASE ReadProperty
  <2>1. PICK p \in reader : SkipProperty(p) \/ ReadBrightness(p) \/ SpinOnProperty(p)
    BY <1>1 DEF ReadProperty
  <2>2. UNCHANGED <<component_list, message, brightness>> /\ callback = "change_state"
    BY <1>1 DEF ReadProperty, messageVars
  <2>3. CASE SkipProperty(p)
    BY <2>2, <2>3 DEF SkipProperty, HandlerTypeOK, ReaderTrue
  <2>4. CASE ReadBrightness(p)
    <3>1. brightness # NotNumber => brightness \in Int
      BY <2>1, <2>4, PropertyAssumption DEF ReadBrightness, HandlerTypeOK, ReaderTrue
    <3>2. brightness # NotNumber => GetTokenUInt8(brightness) \in 0 .. 255
      BY <3>1, EightBits, Zenon
    <3>3. display_brightness' \in 0 .. 255
      BY <2>4, <3>2 DEF ReadBrightness, HandlerTypeOK
    <3>4. /\ callback' \in {"none", "change_state"} /\ reader' \subseteq reader
          /\ UNCHANGED <<component_list, message, brightness>>
      BY <2>2, <2>4 DEF ReadBrightness
    <3> QED
      BY <3>3, <3>4 DEF HandlerTypeOK, ReaderTrue
  <2>5. CASE SpinOnProperty(p)
    BY <2>2, <2>5 DEF SpinOnProperty, HandlerTypeOK, ReaderTrue
  <2> QED
    BY <2>1, <2>3, <2>4, <2>5
<1>2. CASE AllPropertiesRead
  BY <1>2 DEF AllPropertiesRead, messageVars, HandlerTypeOK, ReaderTrue
<1> QED
  BY <1>1, <1>2

(* A message under way has the type of one.                                 *)
LEMMA ReceivedTyped ==
  ASSUME HandlerTypeOK, NEW m \in Messages, m.type # "command", PropertiesReceived(m)
  PROVE  HandlerTypeOK' /\ ReaderTrue'
<1>1. m \in PropertyMessages
  BY DEF Messages, CommandMessages
<1>2. /\ m.type \in {"document", "patch"} /\ m.version \in 0 .. MaxVersion
      /\ m.payload.brightness \in Numbers \cup {NotNumber, Absent}
      /\ m.payload.others \subseteq OtherProperties
  BY <1>1 DEF PropertyMessages, Payloads
<1> QED
  BY <1>2 DEF PropertiesReceived, PropertiesOf, OtherProperties, HandlerTypeOK, ReaderTrue

(* What is sent in answer to a command, and to a patch.                     *)
LEMMA AnswerTyped ==
  ASSUME NEW m \in CommandMessages
  PROVE  Answer(m) \in Seq(Answers) /\ Len(Answer(m)) = 1 /\ Answer(m)[1].id = m.id
<1>1. m.id \in 1 .. MaxCommands
  BY DEF CommandMessages
<1>2. PICK status \in {200, 404} : CommandStatuses(m.command) = <<status>>
  BY DEF CommandStatuses
<1>3. Answer(m) = [k \in 1 .. 1 |-> [id |-> m.id, status |-> <<status>>[k]]]
  BY <1>2 DEF Answer
<1>4. Answer(m) = <<[id |-> m.id, status |-> status]>>
  BY <1>3
<1> QED
  BY <1>1, <1>2, <1>4 DEF Answers

LEMMA AcknowledgementTyped == HandlerTypeOK => Acknowledgement \in Acknowledgements
<1> SUFFICES ASSUME HandlerTypeOK PROVE Acknowledgement \in Acknowledgements
  OBVIOUS
<1>1. (component_list = "intact") \in BOOLEAN
  BY Zenon
<1>2. message.version \in 0 .. MaxVersion /\ display_brightness \in 0 .. 255
  BY DEF HandlerTypeOK
<1> QED
  BY <1>1, <1>2, Zenon DEF Acknowledgement, Acknowledgements

(* Type correctness of data, step by step.                                  *)
LEMMA StepData == DataTyped /\ [AppNext]_appVars => DataTyped'
<1> SUFFICES ASSUME DataTyped, DataStep PROVE DataTyped'
  BY DataSteps
<1> USE DEF DataTyped
<1>1. CASE Restart
  <2>1. HandlerTypeOK' /\ ReaderTrue'
    BY <1>1, PropertyAssumption DEF Restart, HandlerRestart, HandlerTypeOK, ReaderTrue
  <2>2. CloudTyped'
    BY <1>1 DEF Restart, twinVars, commandVars, CloudTyped
  <2> QED
    BY <2>1, <2>2
<1>2. CASE Quiet
  <2>1. HandlerTypeOK' /\ ReaderTrue'
    BY <1>2 DEF Quiet, HandlerTypeOK, ReaderTrue
  <2>2. downlink' \in Seq(Messages)
    <3>1. downlink \in Seq(Messages) /\ <<>> \in Seq(Messages)
      BY DEF CloudTyped
    <3> QED
      BY <1>2, <3>1 DEF Quiet
  <2>3. CloudTyped'
    BY <1>2, <2>2 DEF Quiet, CloudTyped
  <2> QED
    BY <2>1, <2>3
<1>3. ASSUME UNCHANGED handlerVars PROVE HandlerTypeOK' /\ ReaderTrue'
  BY <1>3 DEF handlerVars, messageVars, HandlerTypeOK, ReaderTrue
<1>4. ASSUME NEW ok \in BOOLEAN, RequestProperties(ok) PROVE DataTyped'
  <2>1. downlink' \in Seq(Messages)
    <3>1. Append(downlink, Document) \in Seq(Messages) /\ downlink \in Seq(Messages)
      BY DocumentTyped, OneMore DEF CloudTyped
    <3> QED
      BY <1>4, <3>1, DownlinkTyped DEF RequestProperties
  <2>2. CloudTyped'
    BY <1>4, <2>1 DEF RequestProperties, SetupStep, HubStep, twinVars, commandVars, CloudTyped
  <2> QED
    BY <1>3, <1>4, <2>2 DEF RequestProperties
<1>5. CASE ReceiveCommand
  <2> DEFINE m == Head(downlink)
  <2>1. m \in CommandMessages /\ Tail(downlink) \in Seq(Messages)
    BY <1>5, HeadAndTail DEF ReceiveCommand, CloudTyped, Messages, PropertyMessages
  <2>2. answers' \in Seq(Answers)
    <3>1. answers' = answers \/ answers' = answers \o Answer(m)
      BY <1>5 DEF ReceiveCommand
    <3>2. Answer(m) \in Seq(Answers)
      BY <2>1, AnswerTyped
    <3>3. answers \in Seq(Answers)
      BY DEF CloudTyped
    <3> HIDE DEF m
    <3> QED
      BY <3>1, <3>2, <3>3, Joined
  <2>3. downlink' \in Seq(Messages)
    BY <1>5, <2>1, DownlinkTyped DEF ReceiveCommand
  <2>4. CloudTyped'
    BY <1>5, <2>2, <2>3 DEF ReceiveCommand, twinVars, CloudTyped
  <2> QED
    BY <1>3, <1>5, <2>4 DEF ReceiveCommand
<1>6. CASE ReceiveProperties
  <2>1. Head(downlink) \in Messages /\ Tail(downlink) \in Seq(Messages)
    BY <1>6, HeadAndTail DEF ReceiveProperties, CloudTyped
  <2>2. HandlerTypeOK' /\ ReaderTrue'
    BY <1>6, <2>1, ReceivedTyped DEF ReceiveProperties
  <2>3. CloudTyped'
    BY <1>6, <2>1 DEF ReceiveProperties, twinVars, commandVars, CloudTyped
  <2> QED
    BY <2>2, <2>3
<1>7. CASE HandleProperties
  <2>1. CloudTyped'
    BY <1>7 DEF HandleProperties, twinVars, commandVars, CloudTyped
  <2> QED
    BY <1>7, <2>1, HandlerStays DEF HandleProperties
<1>8. CASE ReportStateChanged
  <2>1. HandlerTypeOK' /\ ReaderTrue'
    BY <1>8 DEF ReportStateChanged, StateChangedReported, messageVars, HandlerTypeOK, ReaderTrue
  <2>2. acked' \in Acknowledgements
    BY <1>8, AcknowledgementTyped DEF ReportStateChanged, CloudTyped
  <2>3. downlink' \in Seq(Messages)
    BY <1>8, DownlinkTyped DEF ReportStateChanged, CloudTyped
  <2>4. CloudTyped'
    BY <1>8, <2>2, <2>3 DEF ReportStateChanged, commandVars, CloudTyped
  <2> QED
    BY <2>1, <2>4
<1>9. ASSUME NEW patch \in Patches, CloudPatches(patch) PROVE DataTyped'
  <2>1. downlink' \in Seq(Messages)
    BY <1>9, PatchTyped, OneMore DEF CloudPatches, CloudTyped
  <2>2. CloudTyped'
    BY <1>9, <2>1, PatchTyped DEF CloudPatches, commandVars, CloudTyped
  <2> QED
    BY <1>3, <1>9, <2>2 DEF CloudPatches, programVars
<1>10. ASSUME NEW command \in Commands, CloudInvokes(command) PROVE DataTyped'
  <2>1. invoked' \in 0 .. MaxCommands /\ invoked' \in 1 .. MaxCommands
    BY <1>10, AppAssumption DEF CloudInvokes, CloudTyped
  <2>2. [type |-> "command", id |-> invoked', command |-> command] \in Messages
    BY <2>1 DEF Messages, CommandMessages
  <2>3. downlink' \in Seq(Messages)
    BY <1>10, <2>2, OneMore DEF CloudInvokes, CloudTyped
  <2>4. CloudTyped'
    BY <1>10, <2>1, <2>3 DEF CloudInvokes, twinVars, CloudTyped
  <2> QED
    BY <1>3, <1>10, <2>4 DEF CloudInvokes, programVars
<1> QED
  BY <1>1, <1>2, <1>4, <1>5, <1>6, <1>7, <1>8, <1>9, <1>10 DEF DataStep

-----------------------------------------------------------------------------
HostnameTyped == hostname_length \in HostnameLengths \cup {0}

(* The name of the hub comes from provisioning alone.                       *)
LEMMA StepHostname == HostnameTyped /\ [AppNext]_appVars => HostnameTyped'
<1> SUFFICES ASSUME HostnameTyped, [AppNext]_appVars, hostname_length' # hostname_length
             PROVE  HostnameTyped'
  BY DEF HostnameTyped
<1>1. CASE Restart
  BY <1>1 DEF Restart, ProvisioningRestart, HostnameTyped
<1>2. CASE Infra
  BY <1>1, <1>2 DEF Infra, NvsInit, WifiInitialized, WifiConnect, WifiWaitEnds, WifiResult,
              WifiResultFailed, DnsSetServers, SntpInit, TimeSynchronized, InfraFails,
              InfraStep, Fail, dpsVars
<1>3. CASE Dps
  <2>1. ASSUME NEW result \in {"success", "pending", "failure"}, DpsRegistering(result)
        PROVE  FALSE
    BY <2>1 DEF DpsRegistering, DpsRegister
  <2>2. CASE DpsSetup \/ DpsTransportConnected \/ DpsDisconnected
    BY <2>2 DEF DpsSetup, DpsTransportConnected, DpsDisconnected, DpsConnect, DpsDisconnect,
                dpsVars
  <2>3. CASE DpsGet
    BY <2>3 DEF DpsGet, GetDeviceAndHub, HostnameTyped
  <2> QED
    BY <1>1, <1>3, <2>1, <2>2, <2>3 DEF Dps, DpsFails, Fail
<1>4. CASE HubRun
  <2>1. ASSUME NEW ok \in BOOLEAN, SetupHub(ok) PROVE FALSE
    BY <2>1 DEF SetupHub, HubSetup, HubConnect, MqttConnect, Subscriptions, SubscribeTo,
                SubscriptionAcknowledged, RequestProperties, ReportInitialState, SetupStep,
                HubStep, dpsVars
  <2>2. ASSUME SendTelemetry \/ ProcessLoopEnds \/ EndLoop
                 \/ DisconnectHubMqtt \/ DisconnectHubTransport
        PROVE  FALSE
    BY <2>2 DEF SendTelemetry, ProcessLoopEnds, EndLoop, UnsubscribeFrom, DisconnectHubMqtt,
                DisconnectHubTransport, HubStep, dpsVars
  <2> QED
    BY <1>1, <1>4, <2>1, <2>2 DEF HubRun, HubRunFails, Fail
<1>5. CASE ReceiveCommand \/ ReceiveProperties \/ Callbacks \/ LoseComponentList
  BY <1>5 DEF ReceiveCommand, ReceiveProperties, Callbacks, HandleProperties,
              ReportStateChanged, LoseComponentList, dpsVars
<1>6. ASSUME NEW patch \in Patches, CloudPatches(patch) PROVE FALSE
  BY <1>6 DEF CloudPatches, programVars, dpsVars
<1>7. ASSUME NEW command \in Commands, CloudInvokes(command) PROVE FALSE
  BY <1>7 DEF CloudInvokes, programVars, dpsVars
<1>8. CASE WifiEvents \/ LoseSession \/ PowerLoss \/ UNCHANGED appVars
  BY <1>1, <1>8 DEF WifiEvents, LoseSession, PowerLoss, appVars, programVars, dpsVars
<1> QED
  BY <1>2, <1>3, <1>4, <1>5, <1>6, <1>7, <1>8 DEF AppNext

LEMMA InitData == AppInit => DataTyped /\ HostnameTyped
<1> SUFFICES ASSUME AppInit PROVE DataTyped /\ HostnameTyped
  OBVIOUS
<1>1. HandlerTypeOK /\ ReaderTrue
  BY PropertyAssumption DEF AppInit, ProgramInit, HandlerInit, HandlerTypeOK, ReaderTrue
<1>2. [brightness |-> Absent, others |-> {}] \in Payloads
  BY DEF Payloads
<1>3. twin \in Twins
  BY <1>2, PropertyAssumption DEF AppInit, Twins
<1>4. acked \in Acknowledgements /\ invoked \in 0 .. MaxCommands
  BY PropertyAssumption, AppAssumption DEF AppInit, Acknowledgements
<1>5. answers \in Seq(Answers) /\ downlink \in Seq(Messages)
  BY DEF AppInit, ProgramInit
<1>6. HostnameTyped
  BY DEF AppInit, ProgramInit, ProvisioningInit, HostnameTyped
<1> QED
  BY <1>1, <1>3, <1>4, <1>5, <1>6 DEF DataTyped, CloudTyped

(* Type correctness of the application and its surroundings.                *)
THEOREM AppTypeCorrect == AppSpec => []AppTypeOK
<1>1. LinksClosed /\ WifiInv /\ HostnameTyped /\ DataTyped => AppTypeOK
  BY Zenon DEF LinksClosed, LinkTyped, MainTyped, WifiInv, AddressKnown, HostnameTyped,
         DataTyped, CloudTyped, AppTypeOK, ProvisioningTypeOK, Messages
<1> QED
  BY <1>1, InitParts, InitData, StepLeavesNothingOpen, StepWifi, StepHostname, StepData, PTL
     DEF AppSpec

-----------------------------------------------------------------------------
(* Commands are told apart by their number: those under way are in order,   *)
(* and after all that have been answered.                                   *)
IsCommand(m) == m.type = "command"

CommandsCounted ==
  /\ \A k \in DOMAIN downlink : IsCommand(downlink[k]) => downlink[k].id <= invoked
  /\ \A k \in DOMAIN answers : answers[k].id <= invoked

CommandsInOrder ==
  \A j, k \in DOMAIN downlink :
    j < k /\ IsCommand(downlink[j]) /\ IsCommand(downlink[k]) => downlink[j].id < downlink[k].id

NotYetAnswered ==
  \A j \in DOMAIN downlink, k \in DOMAIN answers :
    IsCommand(downlink[j]) => answers[k].id < downlink[j].id

(* Commands are answered in the order they were invoked in.                 *)
AnsweredInOrder ==
  \A j, k \in DOMAIN answers : j < k => answers[j].id < answers[k].id

CommandInv == CommandsCounted /\ CommandsInOrder /\ NotYetAnswered /\ AnsweredInOrder

(* Fewer messages under way keep it.                                        *)
LEMMA FewerMessages ==
  ASSUME CommandInv, DataTyped, UNCHANGED <<invoked, answers>>,
         downlink' \in {downlink, <<>>} \/ (downlink # <<>> /\ downlink' \in {Tail(downlink), <<>>})
  PROVE  CommandInv'
<1>1. downlink \in Seq(Messages)
  BY DEF DataTyped, CloudTyped
<1>2. CASE downlink' = downlink
  BY <1>2 DEF CommandInv, CommandsCounted, CommandsInOrder, NotYetAnswered, AnsweredInOrder
<1>3. CASE downlink' = <<>>
  BY <1>3 DEF CommandInv, CommandsCounted, CommandsInOrder, NotYetAnswered, AnsweredInOrder
<1>4. CASE downlink # <<>> /\ downlink' = Tail(downlink)
  <2>1. \A k \in DOMAIN downlink' : k + 1 \in DOMAIN downlink /\ downlink'[k] = downlink[k + 1]
                                    /\ k \in Nat
    BY <1>1, <1>4, HeadAndTail
  <2>2. ASSUME NEW j \in DOMAIN downlink', NEW k \in DOMAIN downlink', j < k,
               IsCommand(downlink'[j]), IsCommand(downlink'[k])
        PROVE  downlink'[j].id < downlink'[k].id
    <3>1. j + 1 < k + 1
      BY <2>1, <2>2
    <3> QED
      BY <2>1, <2>2, <3>1 DEF CommandInv, CommandsInOrder
  <2>3. CommandsInOrder'
    BY <2>2 DEF CommandsInOrder, IsCommand
  <2>4. CommandsCounted' /\ NotYetAnswered' /\ AnsweredInOrder'
    BY <2>1 DEF CommandInv, CommandsCounted, NotYetAnswered, AnsweredInOrder, IsCommand
  <2> QED
    BY <2>3, <2>4 DEF CommandInv
<1> QED
  BY <1>2, <1>3, <1>4

(* A message that is no command, or a new one, keeps it.                    *)
LEMMA MoreMessages ==
  ASSUME CommandInv, DataTyped, UNCHANGED answers, invoked' \in Nat, NEW m \in Messages,
         downlink' = Append(downlink, m),
         \/ ~IsCommand(m) /\ invoked' = invoked
         \/ m.id = invoked + 1 /\ invoked' = invoked + 1
  PROVE  CommandInv'
<1>1. downlink \in Seq(Messages) /\ invoked \in Nat
  BY DEF DataTyped, CloudTyped
<1>2. \A k \in DOMAIN downlink' :
        (k \in DOMAIN downlink /\ downlink'[k] = downlink[k])
          \/ (k = Len(downlink) + 1 /\ downlink'[k] = m)
  BY <1>1, OneMore
<1>3. /\ \A k \in DOMAIN downlink : IsCommand(downlink[k]) => downlink[k].id \in Nat
      /\ \A k \in DOMAIN answers : answers[k].id \in Nat
  <2>1. \A k \in DOMAIN downlink : downlink[k] \in Messages
    BY <1>1
  <2>2. \A c \in Messages : IsCommand(c) => c.id \in Nat
    BY DEF Messages, PropertyMessages, CommandMessages, IsCommand
  <2>3. \A k \in DOMAIN answers : answers[k] \in Answers
    BY DEF DataTyped, CloudTyped
  <2>4. \A a \in Answers : a.id \in Nat
    BY DEF Answers
  <2> QED
    BY <2>1, <2>2, <2>3, <2>4
<1>4. CommandsCounted'
  BY <1>1, <1>2, <1>3 DEF CommandInv, CommandsCounted
<1>5. CommandsInOrder'
  BY <1>1, <1>2, <1>3 DEF CommandInv, CommandsCounted, CommandsInOrder
<1>6. NotYetAnswered'
  BY <1>1, <1>2, <1>3 DEF CommandInv, CommandsCounted, NotYetAnswered
<1>7. AnsweredInOrder'
  BY DEF CommandInv, AnsweredInOrder
<1> QED
  BY <1>4, <1>5, <1>6, <1>7 DEF CommandInv

(* A sequence joined by one of length one.                                  *)
LEMMA OneJoined ==
  ASSUME NEW S, NEW p \in Seq(S), NEW q \in Seq(S), Len(q) = 1
  PROVE  \A k \in DOMAIN (p \o q) :
           \/ k \in DOMAIN p /\ (p \o q)[k] = p[k]
           \/ k = Len(p) + 1 /\ (p \o q)[k] = q[1]
<1> SUFFICES ASSUME NEW k \in DOMAIN (p \o q)
             PROVE  \/ k \in DOMAIN p /\ (p \o q)[k] = p[k]
                    \/ k = Len(p) + 1 /\ (p \o q)[k] = q[1]
  OBVIOUS
<1>1. k \in 1 .. Len(p) + 1
  <2>1. p \o q \in Seq(S)
    BY Joined
  <2>2. Len(p \o q) = Len(p) + Len(q)
    BY ConcatProperties
  <2> QED
    BY <2>1, <2>2
<1>2. CASE k \in 1 .. Len(p)
  BY <1>2
<1>3. CASE k = Len(p) + 1
  BY <1>3
<1> QED
  BY <1>1, <1>2, <1>3

(* The first message, a command, is taken and answered or not.              *)
LEMMA CommandTaken ==
  ASSUME CommandInv, DataTyped, ReceiveCommand
  PROVE  CommandInv'
<1> DEFINE m == Head(downlink)
<1>1. downlink \in Seq(Messages) /\ answers \in Seq(Answers) /\ downlink # <<>>
  BY DEF DataTyped, CloudTyped, ReceiveCommand
<1>2. m = downlink[1] /\ 1 \in DOMAIN downlink /\ IsCommand(m) /\ m \in CommandMessages
  BY <1>1, HeadAndTail DEF ReceiveCommand, IsCommand, Messages, PropertyMessages
<1>3. invoked' = invoked
  BY DEF ReceiveCommand
<1>4. \A k \in DOMAIN downlink' :
        k \in Nat \ {0} /\ k + 1 \in DOMAIN downlink /\ downlink'[k] = downlink[k + 1]
  <2>1. downlink' \in {Tail(downlink), <<>>}
    BY DEF ReceiveCommand, DownlinkBecomes
  <2>2. \A k \in DOMAIN Tail(downlink) :
          k \in Nat \ {0} /\ k + 1 \in DOMAIN downlink /\ Tail(downlink)[k] = downlink[k + 1]
    BY <1>1, HeadAndTail
  <2>3. CASE downlink' = Tail(downlink)
    BY <2>2, <2>3
  <2>4. CASE downlink' = <<>>
    BY <2>4
  <2> QED
    BY <2>1, <2>3, <2>4
<1>5. \A k \in DOMAIN answers' :
        \/ k \in DOMAIN answers /\ answers'[k] = answers[k]
        \/ k = Len(answers) + 1 /\ answers'[k].id = m.id
  <2>1. Answer(m) \in Seq(Answers) /\ Len(Answer(m)) = 1 /\ Answer(m)[1].id = m.id
    BY <1>2, AnswerTyped
  <2>2. answers' = answers \/ answers' = answers \o Answer(m)
    BY DEF ReceiveCommand
  <2> HIDE DEF m
  <2>3. CASE answers' = answers
    BY <2>3
  <2>4. CASE answers' = answers \o Answer(m)
    BY <1>1, <2>1, <2>4, OneJoined
  <2> QED
    BY <2>2, <2>3, <2>4
<1>6. \A k \in DOMAIN answers : answers[k].id < m.id
  BY <1>2 DEF CommandInv, NotYetAnswered
<1>7. m.id <= invoked
  BY <1>2 DEF CommandInv, CommandsCounted
<1> HIDE DEF m
<1>8. CommandsCounted'
  BY <1>3, <1>4, <1>5, <1>7 DEF CommandInv, CommandsCounted
<1>9. CommandsInOrder'
  <2> SUFFICES ASSUME NEW j \in DOMAIN downlink', NEW k \in DOMAIN downlink', j < k,
                      IsCommand(downlink'[j]), IsCommand(downlink'[k])
               PROVE  downlink'[j].id < downlink'[k].id
    BY DEF CommandsInOrder, IsCommand
  <2>1. j + 1 < k + 1
    BY <1>4
  <2> QED
    BY <1>4, <2>1 DEF CommandInv, CommandsInOrder, IsCommand
<1>10. NotYetAnswered'
  <2> SUFFICES ASSUME NEW j \in DOMAIN downlink', NEW k \in DOMAIN answers',
                      IsCommand(downlink'[j])
               PROVE  answers'[k].id < downlink'[j].id
    BY DEF NotYetAnswered, IsCommand
  <2>1. j + 1 \in DOMAIN downlink /\ 1 < j + 1 /\ downlink'[j] = downlink[j + 1]
    BY <1>4
  <2>2. m.id < downlink[j + 1].id
    BY <1>2, <2>1 DEF CommandInv, CommandsInOrder, IsCommand
  <2> QED
    BY <1>5, <2>1, <2>2 DEF CommandInv, NotYetAnswered, IsCommand
<1>11. AnsweredInOrder'
  BY <1>5, <1>6 DEF CommandInv, AnsweredInOrder
<1> QED
  BY <1>8, <1>9, <1>10, <1>11 DEF CommandInv

(* Every step keeps it.                                                     *)
LEMMA StepCommands == CommandInv /\ DataTyped /\ [AppNext]_appVars => CommandInv'
<1> SUFFICES ASSUME CommandInv, DataTyped, DataStep PROVE CommandInv'
  BY DataSteps
<1>1. CASE Restart \/ Quiet \/ HandleProperties \/ ReportStateChanged
  BY <1>1, FewerMessages DEF Restart, Quiet, HandleProperties, ReportStateChanged, commandVars,
                             DownlinkBecomes
<1>2. CASE ReceiveProperties
  BY <1>2, FewerMessages DEF ReceiveProperties, commandVars
<1>3. ASSUME NEW ok \in BOOLEAN, RequestProperties(ok) PROVE CommandInv'
  <2>1. UNCHANGED <<invoked, answers>>
    BY <1>3 DEF RequestProperties, SetupStep, HubStep, commandVars
  <2>2. downlink' \in {downlink, <<>>} \/ downlink' = Append(downlink, Document)
    BY <1>3 DEF RequestProperties, DownlinkBecomes
  <2>3. Document \in Messages /\ ~IsCommand(Document) /\ invoked \in Nat
    BY DocumentTyped DEF DataTyped, CloudTyped, Document, IsCommand
  <2> QED
    BY <2>1, <2>2, <2>3, FewerMessages, MoreMessages
<1>4. ASSUME NEW patch \in Patches, CloudPatches(patch) PROVE CommandInv'
  <2> DEFINE m == [type |-> "patch", version |-> twin'.version, payload |-> patch]
  <2>1. UNCHANGED <<invoked, answers>>
    BY <1>4 DEF CloudPatches, commandVars
  <2>2. downlink' = downlink \/ downlink' = Append(downlink, m)
    BY <1>4 DEF CloudPatches
  <2>3. m \in Messages /\ ~IsCommand(m) /\ invoked \in Nat
    BY <1>4, PatchTyped DEF DataTyped, CloudTyped, IsCommand
  <2> HIDE DEF m
  <2> QED
    BY <2>1, <2>2, <2>3, FewerMessages, MoreMessages
<1>5. ASSUME NEW command \in Commands, CloudInvokes(command) PROVE CommandInv'
  <2> DEFINE m == [type |-> "command", id |-> invoked + 1, command |-> command]
  <2>1. UNCHANGED answers /\ invoked' = invoked + 1 /\ downlink' = Append(downlink, m)
    BY <1>5 DEF CloudInvokes
  <2>2. invoked + 1 \in 1 .. MaxCommands /\ invoked + 1 \in Nat
    BY <1>5, AppAssumption DEF CloudInvokes, DataTyped, CloudTyped
  <2>3. m \in Messages /\ m.id = invoked + 1
    BY <2>2 DEF Messages, CommandMessages
  <2> HIDE DEF m
  <2> QED
    BY <2>1, <2>2, <2>3, MoreMessages
<1> QED
  BY <1>1, <1>2, <1>3, <1>4, <1>5, CommandTaken DEF DataStep

(* Commands are answered in the order the service invoked them in, whatever *)
(* is lost, however often the device starts over.                           *)
THEOREM AnswersAreInOrder == AppSpec => []AnsweredInOrder
<1>1. AppInit => CommandInv
  BY DEF AppInit, ProgramInit, CommandInv, CommandsCounted, CommandsInOrder, NotYetAnswered,
         AnsweredInOrder
<1>2. CommandInv => AnsweredInOrder
  BY DEF CommandInv
<1> QED
  BY <1>1, <1>2, InitData, StepData, StepCommands, PTL DEF AppSpec

(* So a command is answered once at most.                                   *)
THEOREM AnsweredOnce == AppSpec => []OneAnswer
<1>1. CloudTyped /\ AnsweredInOrder => OneAnswer
  <2> SUFFICES ASSUME CloudTyped, AnsweredInOrder,
                      NEW j \in DOMAIN answers, NEW k \in DOMAIN answers,
                      answers[j].id = answers[k].id
               PROVE  j = k
    BY DEF OneAnswer
  <2>1. answers \in Seq(Answers) /\ answers[j] \in Answers /\ j \in Nat /\ k \in Nat
    BY DEF CloudTyped
  <2>2. answers[j].id \in Nat
    BY <2>1 DEF Answers
  <2>3. ~(j < k) /\ ~(k < j)
    BY <2>2 DEF AnsweredInOrder
  <2> QED
    BY <2>1, <2>3
<1>2. DataTyped => CloudTyped
  BY DEF DataTyped
<1> QED
  BY <1>1, <1>2, AnswersAreInOrder, InitData, StepData, PTL DEF AppSpec

-----------------------------------------------------------------------------
(***************************************************************************)
(* Acknowledgements                                                        *)
(***************************************************************************)

(* What is under way has a version the twin had, and the patch of the last  *)
(* version is the last patch.                                               *)
FromTwin(m) ==
  ~IsCommand(m) =>
    /\ m.version \in 1 .. twin.version
    /\ m.type = "patch" /\ m.version = twin.version => m.payload = twin.patch

VersionsKnown ==
  /\ message.version <= twin.version
  /\ acked.version <= twin.version
  /\ \A k \in DOMAIN downlink : FromTwin(downlink[k])

LatestPatch ==
  message.type = "patch" /\ message.version = twin.version =>
    brightness = twin.patch.brightness

(* A number the callback has gone past is displayed.                        *)
BrightnessRead ==
  /\ callback # "none"
  /\ component_list = "intact"
  /\ brightness \in Numbers
  /\ "brightness" \notin reader
  => display_brightness = GetTokenUInt8(brightness)

AckInv == VersionsKnown /\ LatestPatch /\ BrightnessRead /\ AckTruthful

(* Only a patch changes the twin; the callback handles what was under way.  *)
LEMMA StepAck == AckInv /\ DataTyped /\ [AppNext]_appVars => AckInv'
<1> SUFFICES ASSUME AckInv, DataTyped, DataStep PROVE AckInv'
  BY DataSteps
<1>1. /\ twin.version \in Nat /\ twin.version > 0 /\ acked.version \in Nat
      /\ message.version \in Nat /\ downlink \in Seq(Messages)
  BY DEF DataTyped, CloudTyped, HandlerTypeOK, Twins, Acknowledgements
<1>2. ASSUME UNCHANGED <<twin, acked, message, brightness>>,
             \A k \in DOMAIN downlink' : FromTwin(downlink'[k])
      PROVE  VersionsKnown' /\ LatestPatch' /\ AckTruthful'
  BY <1>2 DEF AckInv, VersionsKnown, LatestPatch, AckTruthful, FromTwin, IsCommand
<1>3. /\ \A k \in DOMAIN downlink : FromTwin(downlink[k])
      /\ \A k \in DOMAIN <<>> : FromTwin(<<>>[k])
      /\ downlink # <<>> => \A k \in DOMAIN Tail(downlink) : FromTwin(Tail(downlink)[k])
  <2>1. downlink # <<>> => \A k \in DOMAIN Tail(downlink) :
          k + 1 \in DOMAIN downlink /\ Tail(downlink)[k] = downlink[k + 1]
    BY <1>1, HeadAndTail
  <2> QED
    BY <2>1 DEF AckInv, VersionsKnown
<1>4. ASSUME UNCHANGED <<display_brightness, callback, brightness, reader>>,
             component_list' = "intact" => component_list = "intact" \/ callback = "none"
      PROVE  BrightnessRead'
  BY <1>4 DEF AckInv, BrightnessRead
<1>5. CASE Restart
  <2>1. VersionsKnown'
    BY <1>1, <1>3, <1>5 DEF Restart, HandlerRestart, twinVars, AckInv, VersionsKnown
  <2>2. LatestPatch' /\ BrightnessRead'
    BY <1>5 DEF Restart, HandlerRestart, LatestPatch, BrightnessRead
  <2>3. AckTruthful'
    BY <1>5 DEF Restart, twinVars, AckInv, AckTruthful
  <2> QED
    BY <2>1, <2>2, <2>3 DEF AckInv
<1>6. CASE Quiet
  <2>1. \A k \in DOMAIN downlink' : FromTwin(downlink'[k])
    BY <1>3, <1>6 DEF Quiet
  <2> QED
    BY <1>2, <1>4, <1>6, <2>1 DEF Quiet, AckInv
<1>7. ASSUME NEW ok \in BOOLEAN, RequestProperties(ok) PROVE AckInv'
  <2>1. FromTwin(Document)
    BY <1>1 DEF FromTwin, Document
  <2>2. \A k \in DOMAIN downlink' : FromTwin(downlink'[k])
    <3>1. \A k \in DOMAIN Append(downlink, Document) : FromTwin(Append(downlink, Document)[k])
      BY <1>1, <1>3, <2>1, DocumentTyped, OneMore DEF DataTyped
    <3> QED
      BY <1>3, <1>7, <3>1 DEF RequestProperties, DownlinkBecomes
  <2> QED
    BY <1>2, <1>4, <1>7, <2>2
       DEF RequestProperties, handlerVars, messageVars, twinVars, AckInv
<1>8. CASE ReceiveCommand
  <2>1. \A k \in DOMAIN downlink' : FromTwin(downlink'[k])
    BY <1>3, <1>8 DEF ReceiveCommand, DownlinkBecomes
  <2> QED
    BY <1>2, <1>4, <1>8, <2>1 DEF ReceiveCommand, handlerVars, messageVars, twinVars, AckInv
<1>9. CASE ReceiveProperties
  <2> DEFINE m == Head(downlink)
  <2>1. m \in Messages /\ m = downlink[1] /\ 1 \in DOMAIN downlink /\ ~IsCommand(m)
    BY <1>1, <1>9, HeadAndTail DEF ReceiveProperties, IsCommand
  <2>2. /\ m.version \in 1 .. twin.version
        /\ m.type = "patch" /\ m.version = twin.version => m.payload = twin.patch
    BY <1>3, <2>1 DEF FromTwin
  <2>3. /\ message' = [type |-> m.type, version |-> m.version]
        /\ brightness' = m.payload.brightness
        /\ reader' = IF m.version = 0 THEN {} ELSE PropertiesOf(m.payload)
    BY <1>9 DEF ReceiveProperties, PropertiesReceived
  <2>4. UNCHANGED <<twin, acked>> /\ downlink' = Tail(downlink) /\ downlink # <<>>
    BY <1>9 DEF ReceiveProperties, twinVars
  <2> HIDE DEF m
  <2>5. VersionsKnown'
    <3>1. \A k \in DOMAIN downlink' : FromTwin(downlink'[k])
      BY <1>3, <2>4
    <3> QED
      BY <2>2, <2>3, <2>4, <3>1 DEF AckInv, VersionsKnown, FromTwin
  <2>6. LatestPatch'
    BY <2>2, <2>3, <2>4 DEF LatestPatch
  <2>7. BrightnessRead'
    <3>1. brightness' \in Numbers => "brightness" \in reader'
      <4>1. m.version # 0
        BY <1>1, <2>2
      <4>2. reader' = PropertiesOf(m.payload)
        BY <2>3, <4>1
      <4>3. m.payload.brightness \in Numbers => m.payload.brightness # Absent
        BY PropertyAssumption
      <4> QED
        BY <2>3, <4>2, <4>3 DEF PropertiesOf
    <3> QED
      BY <3>1 DEF BrightnessRead
  <2>8. AckTruthful'
    BY <2>4 DEF AckInv, AckTruthful
  <2> QED
    BY <2>5, <2>6, <2>7, <2>8 DEF AckInv
<1>10. CASE HandleProperties
  <2>1. UNCHANGED <<component_list, message, brightness, twin, acked, downlink>>
    BY <1>10 DEF HandleProperties, ReadProperty, AllPropertiesRead, messageVars, twinVars
  <2>2. BrightnessRead'
    <3>1. CASE AllPropertiesRead
      BY <3>1 DEF AllPropertiesRead, messageVars, AckInv, BrightnessRead
    <3>2. ASSUME NEW p \in reader, SkipProperty(p), callback = "change_state" PROVE BrightnessRead'
      BY <2>1, <3>2 DEF SkipProperty, AckInv, BrightnessRead
    <3>3. ASSUME NEW p \in reader, ReadBrightness(p) PROVE BrightnessRead'
      BY <2>1, <3>3 DEF ReadBrightness, BrightnessRead
    <3>4. ASSUME NEW p \in reader, SpinOnProperty(p), callback = "change_state" PROVE BrightnessRead'
      BY <2>1, <3>4 DEF SpinOnProperty, AckInv, BrightnessRead
    <3> QED
      BY <1>10, <3>1, <3>2, <3>3, <3>4 DEF HandleProperties, ReadProperty
  <2> QED
    BY <1>2, <1>3, <2>1, <2>2 DEF AckInv
<1>11. CASE ReportStateChanged
  <2>1. /\ UNCHANGED <<twin, message, brightness>> /\ callback = "report_state"
        /\ callback' = "none" /\ acked' \in {acked, Acknowledgement}
    BY <1>11 DEF ReportStateChanged, StateChangedReported, messageVars
  <2>2. message.type = "patch" /\ reader = {}
    BY <2>1 DEF DataTyped, ReaderTrue
  <2>3. VersionsKnown' /\ LatestPatch' /\ BrightnessRead'
    <3>1. \A k \in DOMAIN downlink' : FromTwin(downlink'[k])
      BY <1>3, <1>11 DEF ReportStateChanged, DownlinkBecomes
    <3>2. acked'.version <= twin.version
      BY <2>1 DEF AckInv, VersionsKnown, Acknowledgement
    <3> QED
      BY <2>1, <3>1, <3>2 DEF AckInv, VersionsKnown, LatestPatch, BrightnessRead, FromTwin,
                              IsCommand
  <2>4. CASE acked' = acked
    BY <2>1, <2>3, <2>4 DEF AckInv, AckTruthful
  <2>5. CASE acked' = Acknowledgement
    <3> SUFFICES ASSUME message.version = twin.version, component_list = "intact",
                        twin.patch.brightness \in Numbers
                 PROVE  display_brightness = twin.patch.brightness % 256
      BY <2>1, <2>3, <2>5, Zenon DEF AckInv, AckTruthful, Acknowledgement
    <3>1. brightness = twin.patch.brightness
      BY <2>2 DEF AckInv, LatestPatch
    <3> QED
      BY <2>1, <2>2, <3>1 DEF AckInv, BrightnessRead, GetTokenUInt8
  <2> QED
    BY <2>1, <2>4, <2>5
<1>12. ASSUME NEW patch \in Patches, CloudPatches(patch) PROVE AckInv'
  <2> DEFINE m == [type |-> "patch", version |-> twin'.version, payload |-> patch]
  <2>1. twin'.version = twin.version + 1 /\ twin'.patch = patch
    BY <1>12 DEF CloudPatches
  <2>2. UNCHANGED <<display_brightness, component_list, callback, message, brightness, reader,
                    acked>>
    BY <1>12 DEF CloudPatches, programVars, handlerVars, messageVars
  <2>3. downlink' = downlink \/ downlink' = Append(downlink, m)
    BY <1>12 DEF CloudPatches
  <2>4. m.version = twin'.version /\ m.payload = twin'.patch /\ m \in Messages
    BY <1>12, <2>1, PatchTyped DEF DataTyped
  <2> HIDE DEF m
  <2>5. \A k \in DOMAIN downlink' :
          downlink'[k] = m \/ (k \in DOMAIN downlink /\ downlink'[k] = downlink[k])
    BY <1>1, <2>3, <2>4, OneMore
  <2>6. (\A k \in DOMAIN downlink : FromTwin(downlink[k]))'
    <3> SUFFICES ASSUME NEW k \in DOMAIN downlink', ~IsCommand(downlink'[k])
                 PROVE  /\ downlink'[k].version \in 1 .. twin'.version
                        /\ downlink'[k].type = "patch" /\ downlink'[k].version = twin'.version
                             => downlink'[k].payload = twin'.patch
      BY DEF FromTwin, IsCommand
    <3>1. CASE downlink'[k] = m
      BY <1>1, <2>1, <2>4, <3>1
    <3>2. CASE k \in DOMAIN downlink /\ downlink'[k] = downlink[k]
      <4>1. downlink[k].version \in 1 .. twin.version
        BY <1>3, <3>2 DEF FromTwin
      <4> QED
        BY <1>1, <2>1, <3>2, <4>1
    <3> QED
      BY <2>5, <3>1, <3>2
  <2>7. message'.version < twin'.version /\ acked'.version < twin'.version
    BY <1>1, <2>1, <2>2 DEF AckInv, VersionsKnown
  <2>8. VersionsKnown' /\ LatestPatch' /\ AckTruthful'
    BY <1>1, <2>1, <2>2, <2>6, <2>7 DEF VersionsKnown, LatestPatch, AckTruthful
  <2> QED
    BY <1>4, <2>2, <2>8 DEF AckInv
<1>13. ASSUME NEW command \in Commands, CloudInvokes(command) PROVE AckInv'
  <2> DEFINE m == [type |-> "command", id |-> invoked', command |-> command]
  <2>1. FromTwin(m)
    BY DEF FromTwin, IsCommand
  <2>2. \A k \in DOMAIN downlink' : FromTwin(downlink'[k])
    <3>1. downlink' = Append(downlink, m)
      BY <1>13 DEF CloudInvokes
    <3> HIDE DEF m
    <3> QED
      BY <1>1, <1>3, <2>1, <3>1
  <2> QED
    BY <1>2, <1>4, <1>13, <2>2
       DEF CloudInvokes, programVars, handlerVars, messageVars, twinVars, AckInv
<1> QED
  BY <1>5, <1>6, <1>7, <1>8, <1>9, <1>10, <1>11, <1>12, <1>13 DEF DataStep

LEMMA InitAck == AppInit => AckInv
<1> SUFFICES ASSUME AppInit PROVE AckInv
  OBVIOUS
<1>1. VersionsKnown /\ LatestPatch /\ BrightnessRead
  BY DEF AppInit, ProgramInit, HandlerInit, VersionsKnown, LatestPatch, BrightnessRead
<1>2. AckTruthful
  BY DEF AppInit, AckTruthful
<1> QED
  BY <1>1, <1>2 DEF AckInv

(* No brightness is acknowledged that is not the one desired.               *)
THEOREM AcksAreTruthful == AppSpec => []AckTruthful
<1>1. AckInv => AckTruthful
  BY DEF AckInv
<1> QED
  BY <1>1, InitData, InitAck, StepData, StepAck, PTL DEF AppSpec

-----------------------------------------------------------------------------
(***************************************************************************)
(* The order of versions.  Along the connection they never go back, a      *)
(* patch is newer than everything before it, and the callback, which is in *)
(* front of all, has not yet acknowledged the patch it handles.            *)
(***************************************************************************)
Before(a, b) ==
  ~IsCommand(a) /\ ~IsCommand(b) =>
    /\ a.version <= b.version
    /\ b.type = "patch" => a.version < b.version

Follows(m) ==
  ~IsCommand(m) =>
    /\ message.version <= m.version
    /\ m.type = "patch" => message.version < m.version /\ acked.version < m.version

VersionsInOrder ==
  /\ \A k \in DOMAIN downlink : Follows(downlink[k])
  /\ \A j, k \in DOMAIN downlink : j < k => Before(downlink[j], downlink[k])

NotYetAcked ==
  callback # "none" /\ message.type = "patch" => acked.version < message.version

OrderInv == VersionsInOrder /\ NotYetAcked

(* Fewer messages are still in order.                                       *)
LEMMA FewerInOrder ==
  ASSUME OrderInv, downlink \in Seq(Messages), UNCHANGED <<message, acked>>,
         downlink' \in {downlink, <<>>} \/ (downlink # <<>> /\ downlink' = Tail(downlink))
  PROVE  VersionsInOrder'
<1>1. CASE downlink' \in {downlink, <<>>}
  BY <1>1 DEF OrderInv, VersionsInOrder, Follows, Before, IsCommand
<1>2. CASE downlink # <<>> /\ downlink' = Tail(downlink)
  <2>1. \A k \in DOMAIN downlink' :
          k \in Nat /\ k + 1 \in DOMAIN downlink /\ downlink'[k] = downlink[k + 1]
    BY <1>2, HeadAndTail
  <2>2. ASSUME NEW j \in DOMAIN downlink', NEW k \in DOMAIN downlink', j < k
        PROVE  Before(downlink'[j], downlink'[k])
    <3>1. j + 1 < k + 1
      BY <2>1, <2>2
    <3> QED
      BY <2>1, <2>2, <3>1 DEF OrderInv, VersionsInOrder
  <2>3. \A k \in DOMAIN downlink' : Follows(downlink'[k])
    BY <2>1 DEF OrderInv, VersionsInOrder
  <2> QED
    BY <2>2, <2>3 DEF VersionsInOrder, Follows, Before, IsCommand
<1> QED
  BY <1>1, <1>2

(* One more message, newer than what is under way.                          *)
LEMMA MoreInOrder ==
  ASSUME OrderInv, downlink \in Seq(Messages), UNCHANGED <<message, acked>>,
         NEW m \in Messages, downlink' = Append(downlink, m),
         Follows(m), \A k \in DOMAIN downlink : Before(downlink[k], m)
  PROVE  VersionsInOrder'
<1>1. \A k \in DOMAIN downlink' :
        \/ k \in DOMAIN downlink /\ downlink'[k] = downlink[k] /\ k \in 1 .. Len(downlink)
        \/ k = Len(downlink) + 1 /\ downlink'[k] = m
  BY OneMore
<1>2. Len(downlink) \in Nat
  OBVIOUS
<1>3. ASSUME NEW j \in DOMAIN downlink', NEW k \in DOMAIN downlink', j < k
      PROVE  Before(downlink'[j], downlink'[k])
  <2>1. j \in DOMAIN downlink /\ downlink'[j] = downlink[j]
    BY <1>1, <1>2, <1>3
  <2> QED
    BY <1>1, <1>3, <2>1 DEF OrderInv, VersionsInOrder
<1>4. \A k \in DOMAIN downlink' : Follows(downlink'[k])
  BY <1>1 DEF OrderInv, VersionsInOrder
<1> QED
  BY <1>3, <1>4 DEF VersionsInOrder, Follows, Before, IsCommand

(* What the twin sends next is at least as new as all it has sent, and a    *)
(* change of the twin is newer.                                             *)
LEMMA NextInOrder ==
  ASSUME AckInv, DataTyped, NEW m, ~IsCommand(m), m.version \in Nat,
         m.version >= twin.version, m.type = "patch" => m.version > twin.version
  PROVE  Follows(m) /\ \A k \in DOMAIN downlink : Before(downlink[k], m)
<1>1. twin.version \in Nat /\ acked.version \in Nat /\ message.version \in Nat
  BY DEF DataTyped, CloudTyped, HandlerTypeOK, Twins, Acknowledgements
<1>2. message.version <= twin.version /\ acked.version <= twin.version
  BY DEF AckInv, VersionsKnown
<1>3. Follows(m)
  BY <1>1, <1>2 DEF Follows
<1>4. ASSUME NEW k \in DOMAIN downlink PROVE Before(downlink[k], m)
  <2>1. ~IsCommand(downlink[k]) => downlink[k].version \in 1 .. twin.version
    BY DEF AckInv, VersionsKnown, FromTwin
  <2> QED
    BY <1>1, <2>1 DEF Before
<1> QED
  BY <1>3, <1>4

(* The inductive step.                                                      *)
LEMMA StepOrder == OrderInv /\ AckInv /\ DataTyped /\ [AppNext]_appVars => OrderInv'
<1> SUFFICES ASSUME OrderInv, AckInv, DataTyped, DataStep PROVE OrderInv'
  BY DataSteps
<1>1. /\ downlink \in Seq(Messages) /\ twin.version \in Nat /\ acked.version \in Nat
      /\ message.version \in Nat
  BY DEF DataTyped, CloudTyped, HandlerTypeOK, Twins, Acknowledgements
<1>2. ASSUME UNCHANGED <<message, acked>>, callback' # "none" => callback # "none"
      PROVE  NotYetAcked'
  BY <1>2 DEF OrderInv, NotYetAcked
<1>3. CASE Restart
  BY <1>3 DEF Restart, HandlerRestart, OrderInv, VersionsInOrder, NotYetAcked
<1>4. CASE Quiet
  BY <1>1, <1>2, <1>4, FewerInOrder DEF Quiet, OrderInv
<1>5. ASSUME NEW ok \in BOOLEAN, RequestProperties(ok) PROVE OrderInv'
  <2>1. UNCHANGED <<message, acked, callback>>
    BY <1>5 DEF RequestProperties, handlerVars, messageVars, twinVars
  <2>2. /\ Document \in Messages /\ Follows(Document)
        /\ \A k \in DOMAIN downlink : Before(downlink[k], Document)
    <3>1. /\ ~IsCommand(Document) /\ Document.version = twin.version
          /\ Document.type # "patch"
      BY DEF Document, IsCommand
    <3> QED
      BY <1>1, <3>1, NextInOrder, DocumentTyped DEF DataTyped
  <2>3. downlink' \in {downlink, <<>>} \/ downlink' = Append(downlink, Document)
    BY <1>5 DEF RequestProperties, DownlinkBecomes
  <2> QED
    BY <1>1, <1>2, <2>1, <2>2, <2>3, FewerInOrder, MoreInOrder DEF OrderInv
<1>6. CASE ReceiveCommand
  <2>1. UNCHANGED <<message, acked, callback>>
    BY <1>6 DEF ReceiveCommand, handlerVars, messageVars, twinVars
  <2>2. downlink # <<>> /\ downlink' \in {Tail(downlink), <<>>}
    BY <1>6 DEF ReceiveCommand, DownlinkBecomes
  <2> QED
    BY <1>1, <1>2, <2>1, <2>2, FewerInOrder DEF OrderInv
<1>7. CASE ReceiveProperties
  <2> DEFINE m == Head(downlink)
  <2>1. /\ downlink # <<>> /\ downlink' = Tail(downlink) /\ acked' = acked /\ ~IsCommand(m)
        /\ message' = [type |-> m.type, version |-> m.version]
    BY <1>7 DEF ReceiveProperties, PropertiesReceived, twinVars, IsCommand
  <2>2. /\ m = downlink[1] /\ 1 \in DOMAIN downlink
        /\ \A k \in DOMAIN downlink' :
             k \in Nat \ {0} /\ k + 1 \in DOMAIN downlink /\ downlink'[k] = downlink[k + 1]
    BY <1>1, <2>1, HeadAndTail
  <2> HIDE DEF m
  <2>3. Follows(m)
    BY <2>2 DEF OrderInv, VersionsInOrder
  <2>4. NotYetAcked'
    BY <2>1, <2>3 DEF Follows, NotYetAcked
  <2>5. ASSUME NEW k \in DOMAIN downlink', ~IsCommand(downlink'[k])
        PROVE  /\ message'.version <= downlink'[k].version
               /\ downlink'[k].type = "patch" => /\ message'.version < downlink'[k].version
                                                 /\ acked'.version < downlink'[k].version
    <3>1. k + 1 \in DOMAIN downlink /\ 1 < k + 1 /\ downlink'[k] = downlink[k + 1]
      BY <2>2
    <3>2. Before(m, downlink[k + 1]) /\ Follows(downlink[k + 1])
      BY <2>2, <3>1 DEF OrderInv, VersionsInOrder
    <3> QED
      BY <2>1, <2>5, <3>1, <3>2 DEF Before, Follows
  <2>6. ASSUME NEW j \in DOMAIN downlink', NEW k \in DOMAIN downlink', j < k
        PROVE  Before(downlink'[j], downlink'[k])
    <3>1. j + 1 < k + 1
      BY <2>2, <2>6
    <3> QED
      BY <2>2, <3>1 DEF OrderInv, VersionsInOrder
  <2>7. VersionsInOrder'
    BY <2>5, <2>6 DEF VersionsInOrder, Follows, Before, IsCommand
  <2> QED
    BY <2>4, <2>7 DEF OrderInv
<1>8. CASE HandleProperties
  <2>1. UNCHANGED <<message, acked, downlink>> /\ callback # "none"
    BY <1>8 DEF HandleProperties, ReadProperty, AllPropertiesRead, messageVars, twinVars
  <2> QED
    BY <1>1, <1>2, <2>1, FewerInOrder DEF OrderInv
<1>9. CASE ReportStateChanged
  <2>1. /\ message' = message /\ callback' = "none" /\ acked'.version \in {acked.version, message.version}
        /\ downlink' \in {downlink, <<>>}
    BY <1>9 DEF ReportStateChanged, StateChangedReported, messageVars, Acknowledgement,
                DownlinkBecomes
  <2>2. NotYetAcked'
    BY <2>1 DEF NotYetAcked
  <2>3. (\A k \in DOMAIN downlink : Follows(downlink[k]))'
    BY <2>1 DEF OrderInv, VersionsInOrder, Follows, IsCommand
  <2>4. (\A j, k \in DOMAIN downlink : j < k => Before(downlink[j], downlink[k]))'
    BY <2>1 DEF OrderInv, VersionsInOrder, Before, IsCommand
  <2> QED
    BY <2>2, <2>3, <2>4 DEF OrderInv, VersionsInOrder
<1>10. ASSUME NEW patch \in Patches, CloudPatches(patch) PROVE OrderInv'
  <2> DEFINE m == [type |-> "patch", version |-> twin'.version, payload |-> patch]
  <2>1. twin'.version = twin.version + 1
    BY <1>10 DEF CloudPatches
  <2>2. UNCHANGED <<message, acked, callback>>
    BY <1>10 DEF CloudPatches, programVars, handlerVars, messageVars
  <2>3. downlink' = downlink \/ downlink' = Append(downlink, m)
    BY <1>10 DEF CloudPatches
  <2>4. m \in Messages
    BY <1>10, PatchTyped DEF DataTyped
  <2>5. Follows(m) /\ \A k \in DOMAIN downlink : Before(downlink[k], m)
    <3>1. m.version = twin.version + 1 /\ ~IsCommand(m)
      BY <2>1 DEF IsCommand
    <3> HIDE DEF m
    <3> QED
      BY <1>1, <3>1, NextInOrder
  <2> HIDE DEF m
  <2> QED
    BY <1>1, <1>2, <2>2, <2>3, <2>4, <2>5, FewerInOrder, MoreInOrder DEF OrderInv
<1>11. ASSUME NEW command \in Commands, CloudInvokes(command) PROVE OrderInv'
  <2> DEFINE m == [type |-> "command", id |-> invoked', command |-> command]
  <2>1. UNCHANGED <<message, acked, callback>> /\ downlink' = Append(downlink, m)
    BY <1>11 DEF CloudInvokes, programVars, handlerVars, messageVars, twinVars
  <2>2. invoked' \in 1 .. MaxCommands
    BY <1>11, AppAssumption DEF CloudInvokes, DataTyped, CloudTyped
  <2>3. IsCommand(m) /\ m \in Messages
    BY <2>2 DEF IsCommand, Messages, CommandMessages
  <2> HIDE DEF m
  <2>4. Follows(m) /\ \A k \in DOMAIN downlink : Before(downlink[k], m)
    BY <2>3 DEF Follows, Before
  <2> QED
    BY <1>1, <1>2, <2>1, <2>3, <2>4, MoreInOrder DEF OrderInv
<1> QED
  BY <1>3, <1>4, <1>5, <1>6, <1>7, <1>8, <1>9, <1>10, <1>11 DEF DataStep

LEMMA InitOrder == AppInit => OrderInv
  BY DEF AppInit, ProgramInit, HandlerInit, OrderInv, VersionsInOrder, NotYetAcked

(* No patch is acknowledged twice, or after a later one.                    *)
THEOREM AcksAreInOrder == AppSpec => AckedInOrder
<1>1. ASSUME OrderInv, DataTyped, ReportStateChanged PROVE acked.version < message.version
  BY <1>1 DEF ReportStateChanged, StateChangedReported, OrderInv, NotYetAcked, DataTyped,
              ReaderTrue
<1>2. OrderInv /\ DataTyped /\ [AppNext]_appVars =>
        [ReportStateChanged => acked.version < message.version]_appVars
  BY <1>1
<1> QED
  BY <1>2, InitData, InitAck, InitOrder, StepData, StepAck, StepOrder, PTL
     DEF AppSpec, AckedInOrder

-----------------------------------------------------------------------------
(***************************************************************************)
(* The brightness displayed                                                *)
(***************************************************************************)
SubscribedLabels == {"properties_suback", "request_properties"} \cup SyncLabels

PropertiesSubscribed == pc \in SubscribedLabels => "properties" \in subscribed

(* The device asks for the document after it has subscribed to patches.     *)
LEMMA StepSubscribed == PropertiesSubscribed /\ [AppNext]_appVars => PropertiesSubscribed'
<1> SUFFICES ASSUME PropertiesSubscribed, [AppNext]_appVars PROVE PropertiesSubscribed'
  OBVIOUS
<1> USE DEF PropertiesSubscribed, SubscribedLabels, SyncLabels, LoopLabels
<1>1. ASSUME Restart PROVE PropertiesSubscribed'
  BY <1>1 DEF Restart
<1>2. ASSUME UNCHANGED <<pc, subscribed>> PROVE PropertiesSubscribed'
  BY <1>2
<1>3. CASE Infra
  BY <1>1, <1>3 DEF Infra, NvsInit, WifiInitialized, WifiConnect, WifiWaitEnds, WifiResult,
                    WifiResultFailed, DnsSetServers, SntpInit, TimeSynchronized, InfraFails,
                    InfraStep, Goto, Fail
<1>4. CASE Dps
  <2>1. ASSUME NEW result \in {"success", "pending", "failure"}, DpsRegistering(result)
        PROVE  pc' \in {"dps_register", "dps_registered", "dps_refused"}
    BY <2>1 DEF DpsRegistering, DpsStep, Goto, AfterRegister
  <2> QED
    BY <1>1, <1>4, <2>1 DEF Dps, DpsSetup, DpsTransportConnected, DpsDisconnected, DpsGet,
                            DpsFails, DpsStep, Goto, Fail
<1>5. CASE HubRun
  <2>1. ASSUME NEW ok \in BOOLEAN, SetupHub(ok) PROVE PropertiesSubscribed'
    <3>1. CASE HubSetup(ok) \/ HubConnect(ok) \/ MqttConnect(ok)
      BY <3>1 DEF HubSetup, HubConnect, MqttConnect, SetupStep, HubStep, Goto
    <3>2. CASE Subscriptions(ok)
      BY <3>2 DEF Subscriptions, SubscribeTo, SubscriptionAcknowledged, Subscribe, Acknowledged,
                  SetupStep, HubStep, Goto
    <3>3. CASE RequestProperties(ok) \/ ReportInitialState(ok)
      BY <3>3 DEF RequestProperties, ReportInitialState, Send, SetupStep, HubStep, Goto, LoopTest
    <3> QED
      BY <2>1, <3>1, <3>2, <3>3 DEF SetupHub
  <2>2. CASE SendTelemetry \/ ProcessLoopEnds
    BY <2>2 DEF SendTelemetry, ProcessLoopEnds, Send, HubStep, Goto, LoopTest
  <2>3. CASE EndLoop \/ DisconnectHubMqtt \/ DisconnectHubTransport
    BY <2>3 DEF EndLoop, UnsubscribeFrom, DisconnectHubMqtt, DisconnectHubTransport, HubStep, Goto
  <2> QED
    BY <1>1, <1>5, <2>1, <2>2, <2>3 DEF HubRun, HubRunFails, Fail
<1>6. CASE ReceiveCommand \/ ReportStateChanged
  BY <1>6 DEF ReceiveCommand, ReportStateChanged, Send, mainVars
<1>7. CASE ReceiveProperties \/ HandleProperties \/ LoseComponentList
  BY <1>2, <1>7 DEF ReceiveProperties, HandleProperties, LoseComponentList, hubVars, mainVars
<1>8. ASSUME NEW patch \in Patches, CloudPatches(patch) PROVE PropertiesSubscribed'
  BY <1>2, <1>8 DEF CloudPatches, programVars, hubVars, mainVars
<1>9. ASSUME NEW command \in Commands, CloudInvokes(command) PROVE PropertiesSubscribed'
  BY <1>2, <1>9 DEF CloudInvokes, programVars, hubVars, mainVars
<1>10. CASE WifiEvents \/ UNCHANGED appVars
  BY <1>2, <1>10 DEF WifiEvents, appVars, programVars, hubVars, mainVars
<1>11. CASE LoseSession
  BY <1>11 DEF LoseSession, SessionLost, mainVars
<1> QED
  BY <1>1, <1>3, <1>4, <1>5, <1>6, <1>7, <1>8, <1>9, <1>10, <1>11
     DEF AppNext, Callbacks, PowerLoss

-----------------------------------------------------------------------------
(* The last brightness under way in a sequence of messages is b.            *)
LastCarried(q, b) ==
  \A k \in DOMAIN q :
    Carries(q[k]) /\ (\A j \in DOMAIN q : j > k => ~Carries(q[j]))
      => q[k].payload.brightness = b

NoneCarried(q) == \A k \in DOMAIN q : ~Carries(q[k])

(* Taking the first message.                                                *)
LEMMA CarriedByRest ==
  ASSUME NEW S, NEW q \in Seq(S), q # <<>>, NEW b
  PROVE  /\ LastCarried(q, b) => LastCarried(Tail(q), b)
         /\ NoneCarried(q) => NoneCarried(Tail(q))
         /\ NoneCarried(Tail(q)) /\ ~Carries(Head(q)) => NoneCarried(q)
         /\ NoneCarried(Tail(q)) /\ Carries(Head(q)) /\ LastCarried(q, b)
              => Head(q).payload.brightness = b
<1>1. /\ Head(q) = q[1] /\ 1 \in DOMAIN q
      /\ \A k \in DOMAIN Tail(q) : k + 1 \in DOMAIN q /\ Tail(q)[k] = q[k + 1]
      /\ \A k \in DOMAIN q : k # 1 => k - 1 \in DOMAIN Tail(q) /\ q[k] = Tail(q)[k - 1]
      /\ \A k \in DOMAIN Tail(q) : k \in Nat \ {0}
      /\ \A k \in DOMAIN q : k \in Nat \ {0}
  BY HeadAndTail
<1>2. ASSUME LastCarried(q, b) PROVE LastCarried(Tail(q), b)
  <2> SUFFICES ASSUME NEW k \in DOMAIN Tail(q), Carries(Tail(q)[k]),
                      \A j \in DOMAIN Tail(q) : j > k => ~Carries(Tail(q)[j])
               PROVE  Tail(q)[k].payload.brightness = b
    BY DEF LastCarried
  <2>1. \A j \in DOMAIN q : j > k + 1 => ~Carries(q[j])
    <3> SUFFICES ASSUME NEW j \in DOMAIN q, j > k + 1 PROVE ~Carries(q[j])
      OBVIOUS
    <3>1. j # 1 /\ j - 1 > k
      BY <1>1
    <3> QED
      BY <1>1, <3>1
  <2>2. k + 1 \in DOMAIN q /\ Carries(q[k + 1]) /\ Tail(q)[k] = q[k + 1]
    BY <1>1
  <2> QED
    BY <1>2, <2>1, <2>2 DEF LastCarried
<1>3. NoneCarried(q) => NoneCarried(Tail(q))
  BY <1>1 DEF NoneCarried
<1>4. ASSUME NoneCarried(Tail(q)) PROVE \A k \in DOMAIN q : k # 1 => ~Carries(q[k])
  BY <1>1, <1>4 DEF NoneCarried
<1>5. ASSUME NoneCarried(Tail(q)), Carries(Head(q)), LastCarried(q, b)
      PROVE  Head(q).payload.brightness = b
  <2>1. \A j \in DOMAIN q : j > 1 => ~Carries(q[j])
    BY <1>1, <1>4, <1>5
  <2> QED
    BY <1>1, <1>5, <2>1 DEF LastCarried
<1> QED
  BY <1>1, <1>2, <1>3, <1>4, <1>5 DEF NoneCarried

(* Adding a message.                                                        *)
LEMMA CarriedByMore ==
  ASSUME NEW S, NEW q \in Seq(S), NEW m \in S, NEW b
  PROVE  /\ Carries(m) /\ m.payload.brightness = b => LastCarried(Append(q, m), b)
         /\ ~Carries(m) /\ LastCarried(q, b) => LastCarried(Append(q, m), b)
         /\ NoneCarried(Append(q, m)) <=> NoneCarried(q) /\ ~Carries(m)
<1> DEFINE r == Append(q, m)
<1>1. /\ Len(q) + 1 \in DOMAIN r /\ r[Len(q) + 1] = m
      /\ \A k \in DOMAIN r :
           (k \in DOMAIN q /\ r[k] = q[k] /\ k < Len(q) + 1) \/ (k = Len(q) + 1 /\ k \notin DOMAIN q)
      /\ \A k \in DOMAIN q : k \in DOMAIN r /\ r[k] = q[k]
  OBVIOUS
<1> HIDE DEF r
<1>2. ASSUME Carries(m), m.payload.brightness = b PROVE LastCarried(r, b)
  BY <1>1, <1>2 DEF LastCarried
<1>3. ASSUME ~Carries(m), LastCarried(q, b) PROVE LastCarried(r, b)
  BY <1>1, <1>3 DEF LastCarried
<1>4. NoneCarried(r) <=> NoneCarried(q) /\ ~Carries(m)
  BY <1>1 DEF NoneCarried
<1> QED
  BY <1>2, <1>3, <1>4 DEF r

-----------------------------------------------------------------------------
OnSession ==
  connection = "session" /\ pc \in SyncLabels /\ component_list = "intact"

(* Nothing was ever under way for a brightness never desired.               *)
AbsentKnown == twin.desired.brightness = Absent => NoneCarried(downlink)

(* The callback is about to read the brightness of its message.             *)
ToBeRead == callback \in {"change_state", "spinning"} /\ "brightness" \in reader

(* The brightness desired is the last one under way, else the one about to  *)
(* be read, else the one displayed.                                         *)
SyncInv ==
  /\ OnSession => LastCarried(downlink, twin.desired.brightness)
  /\ OnSession /\ NoneCarried(downlink) =>
       IF ToBeRead
         THEN brightness = twin.desired.brightness
         ELSE twin.desired.brightness \in Numbers =>
                display_brightness = GetTokenUInt8(twin.desired.brightness)

(* What was never desired is not under way.                                 *)
LEMMA StepAbsent == AbsentKnown /\ DataTyped /\ [AppNext]_appVars => AbsentKnown'
<1> SUFFICES ASSUME AbsentKnown, DataTyped, DataStep PROVE AbsentKnown'
  BY DataSteps
<1>1. downlink \in Seq(Messages)
  BY DEF DataTyped, CloudTyped
<1>2. ASSUME UNCHANGED twin,
             downlink' \in {downlink, <<>>} \/ (downlink # <<>> /\ downlink' = Tail(downlink))
      PROVE  AbsentKnown'
  <2>1. NoneCarried(<<>>)
    BY DEF NoneCarried
  <2>2. downlink # <<>> /\ NoneCarried(downlink) => NoneCarried(Tail(downlink))
    BY <1>1, CarriedByRest
  <2>3. NoneCarried(downlink) => NoneCarried(downlink')
    BY <1>2, <2>1, <2>2
  <2> QED
    BY <1>2, <2>3 DEF AbsentKnown, NoneCarried, Carries
<1>3. CASE Restart \/ Quiet \/ HandleProperties \/ ReportStateChanged
  BY <1>2, <1>3 DEF Restart, Quiet, HandleProperties, ReportStateChanged, twinVars,
                    DownlinkBecomes
<1>4. CASE ReceiveCommand \/ ReceiveProperties
  BY <1>2, <1>4 DEF ReceiveCommand, ReceiveProperties, twinVars, DownlinkBecomes
<1>5. ASSUME NEW m \in Messages, downlink' = Append(downlink, m),
             twin'.desired.brightness = Absent =>
               twin.desired.brightness = Absent /\ ~Carries(m)
      PROVE  AbsentKnown'
  <2>1. NoneCarried(downlink) /\ ~Carries(m) => NoneCarried(downlink')
    BY <1>1, <1>5, CarriedByMore
  <2> QED
    BY <1>5, <2>1 DEF AbsentKnown, NoneCarried, Carries
<1>6. ASSUME NEW ok \in BOOLEAN, RequestProperties(ok) PROVE AbsentKnown'
  <2>1. UNCHANGED twin
    BY <1>6 DEF RequestProperties, twinVars
  <2>2. twin.desired.brightness = Absent => ~Carries(Document)
    BY DEF Document, Carries
  <2>3. downlink' \in {downlink, <<>>} \/ downlink' = Append(downlink, Document)
    BY <1>6 DEF RequestProperties, DownlinkBecomes
  <2> QED
    BY <1>2, <1>5, <2>1, <2>2, <2>3, DocumentTyped DEF DataTyped
<1>7. ASSUME NEW patch \in Patches, CloudPatches(patch) PROVE AbsentKnown'
  <2> DEFINE m == [type |-> "patch", version |-> twin'.version, payload |-> patch]
  <2>1. twin'.desired.brightness = Absent =>
          twin.desired.brightness = Absent /\ ~Carries(m)
    BY <1>7 DEF CloudPatches, Carries
  <2>2. m \in Messages /\ (downlink' = downlink \/ downlink' = Append(downlink, m))
    BY <1>7, PatchTyped DEF DataTyped, CloudPatches
  <2> HIDE DEF m
  <2>3. CASE downlink' = downlink
    BY <2>1, <2>3 DEF AbsentKnown, NoneCarried, Carries
  <2> QED
    BY <1>5, <2>1, <2>2, <2>3
<1>8. ASSUME NEW command \in Commands, CloudInvokes(command) PROVE AbsentKnown'
  <2> DEFINE m == [type |-> "command", id |-> invoked', command |-> command]
  <2>1. invoked' \in 1 .. MaxCommands
    BY <1>8, AppAssumption DEF CloudInvokes, DataTyped, CloudTyped
  <2>2. m \in Messages /\ ~Carries(m)
    BY <2>1 DEF Messages, CommandMessages, Carries
  <2>3. UNCHANGED twin /\ downlink' = Append(downlink, m)
    BY <1>8 DEF CloudInvokes, twinVars
  <2> HIDE DEF m
  <2> QED
    BY <1>5, <2>2, <2>3
<1> QED
  BY <1>3, <1>4, <1>6, <1>7, <1>8 DEF DataStep

(* A step of the callback brings the display nearer to the twin.            *)
LEMMA SyncHandled ==
  ASSUME SyncInv, DataTyped, HandleProperties
  PROVE  SyncInv'
<1>1. UNCHANGED <<component_list, message, brightness, twin, downlink, connection, pc>>
  BY DEF HandleProperties, ReadProperty, AllPropertiesRead, messageVars, twinVars, hubVars,
         mainVars
<1>2. (OnSession <=> OnSession') /\ (NoneCarried(downlink) <=> NoneCarried(downlink)')
      /\ (LastCarried(downlink, twin.desired.brightness)
            <=> LastCarried(downlink, twin.desired.brightness)')
  BY <1>1 DEF OnSession, NoneCarried, LastCarried, Carries
<1> SUFFICES ASSUME OnSession, NoneCarried(downlink)
             PROVE  IF ToBeRead'
                      THEN brightness = twin.desired.brightness
                      ELSE twin.desired.brightness \in Numbers =>
                             display_brightness' = GetTokenUInt8(twin.desired.brightness)
  BY <1>1, <1>2 DEF SyncInv, GetTokenUInt8
<1>3. CASE AllPropertiesRead
  BY <1>3 DEF AllPropertiesRead, SyncInv, ToBeRead
<1>4. CASE ReadProperty
  <2>1. PICK p \in reader : SkipProperty(p) \/ ReadBrightness(p) \/ SpinOnProperty(p)
    BY <1>4 DEF ReadProperty
  <2>2. callback = "change_state" /\ component_list = "intact"
    BY <1>4 DEF ReadProperty, OnSession
  <2>3. CASE SkipProperty(p) \/ SpinOnProperty(p)
    <3>1. ToBeRead' <=> ToBeRead
      BY <2>2, <2>3 DEF SkipProperty, SpinOnProperty, ToBeRead
    <3> QED
      BY <2>3, <3>1 DEF SkipProperty, SpinOnProperty, SyncInv
  <2>4. CASE ReadBrightness(p)
    <3>1. brightness = twin.desired.brightness
      BY <2>1, <2>2, <2>4 DEF ReadBrightness, SyncInv, ToBeRead
    <3>2. ~ToBeRead'
      BY <2>4 DEF ReadBrightness, ToBeRead
    <3>3. NotNumber \notin Numbers
      BY PropertyAssumption
    <3> QED
      BY <2>4, <3>1, <3>2, <3>3 DEF ReadBrightness
  <2> QED
    BY <2>1, <2>3, <2>4
<1> QED
  BY <1>3, <1>4 DEF HandleProperties

(* Messages and calls keep it, as the device is subscribed and the document *)
(* is asked for.                                                            *)
LEMMA StepSync ==
  /\ SyncInv /\ PropertiesSubscribed /\ AbsentKnown /\ VersionsKnown /\ DataTyped
  /\ [AppNext]_appVars
  => SyncInv'
<1> SUFFICES ASSUME SyncInv, PropertiesSubscribed, AbsentKnown, VersionsKnown, DataTyped,
                    DataStep
             PROVE  SyncInv'
  BY DataSteps
<1>1. downlink \in Seq(Messages)
  BY DEF DataTyped, CloudTyped
<1>2. ASSUME UNCHANGED <<display_brightness, twin, brightness>>, ToBeRead <=> ToBeRead',
             OnSession' => /\ OnSession
                           /\ LastCarried(downlink, twin.desired.brightness)
                                => LastCarried(downlink', twin.desired.brightness)
                           /\ NoneCarried(downlink') => NoneCarried(downlink)
      PROVE  SyncInv'
  <2>1. (NoneCarried(downlink)' <=> NoneCarried(downlink'))
        /\ (LastCarried(downlink, twin.desired.brightness)'
              <=> LastCarried(downlink', twin.desired.brightness))
    BY <1>2 DEF NoneCarried, LastCarried, Carries
  <2> QED
    BY <1>2, <2>1 DEF SyncInv, GetTokenUInt8
<1>3. CASE Restart
  BY <1>3 DEF Restart, HubRestart, OnSession, SyncInv
<1>4. CASE Quiet
  <2>1. OnSession' => OnSession /\ downlink' = downlink
    BY <1>4 DEF Quiet, OnSession
  <2>2. ToBeRead <=> ToBeRead'
    BY <1>4 DEF Quiet, ToBeRead
  <2> QED
    BY <1>2, <1>4, <2>1, <2>2 DEF Quiet
<1>5. ASSUME NEW ok \in BOOLEAN, RequestProperties(ok) PROVE SyncInv'
  <2>1. callback = "none" /\ UNCHANGED <<twin, display_brightness, callback>>
    BY <1>5 DEF RequestProperties, SetupStep, HubStep, twinVars, handlerVars
  <2> SUFFICES ASSUME OnSession'
               PROVE  /\ LastCarried(downlink', twin.desired.brightness)
                      /\ NoneCarried(downlink') => twin.desired.brightness \notin Numbers
    BY <2>1 DEF SyncInv, ToBeRead, LastCarried, NoneCarried, Carries
  <2>2. ok /\ connection' = "session"
    BY <1>5 DEF RequestProperties, SetupStep, HubStep, Goto, OnSession, SyncLabels, LoopLabels
  <2>3. downlink' = Append(downlink, Document) /\ Document \in Messages
    BY <1>5, <2>2, DocumentTyped DEF RequestProperties, Delivered, DownlinkBecomes, DataTyped
  <2>4. /\ Document.payload.brightness = twin.desired.brightness
        /\ Carries(Document) <=> twin.desired.brightness # Absent
    BY DEF Document, Carries
  <2>5. CASE twin.desired.brightness = Absent
    <3>1. NoneCarried(downlink')
      BY <1>1, <2>3, <2>4, <2>5, CarriedByMore DEF AbsentKnown
    <3>2. LastCarried(downlink', twin.desired.brightness)
      BY <3>1 DEF NoneCarried, LastCarried
    <3> QED
      BY <2>5, <3>2, PropertyAssumption
  <2>6. CASE twin.desired.brightness # Absent
    BY <1>1, <2>3, <2>4, <2>6, CarriedByMore
  <2> QED
    BY <2>5, <2>6
<1>6. CASE ReceiveCommand
  <2>1. UNCHANGED <<pc, component_list, display_brightness, twin, brightness, callback, reader>>
    BY <1>6 DEF ReceiveCommand, handlerVars, messageVars, twinVars
  <2>2. OnSession' => OnSession /\ downlink' = Tail(downlink)
    BY <1>6, <2>1, ExchangeKeeps DEF ReceiveCommand, Send, OnSession, DownlinkBecomes
  <2>3. downlink # <<>> /\ ~Carries(Head(downlink))
    BY <1>6 DEF ReceiveCommand, Carries
  <2>4. /\ LastCarried(downlink, twin.desired.brightness)
             => LastCarried(Tail(downlink), twin.desired.brightness)
        /\ NoneCarried(Tail(downlink)) => NoneCarried(downlink)
    BY <1>1, <2>3, CarriedByRest
  <2>5. ToBeRead <=> ToBeRead'
    BY <2>1 DEF ToBeRead
  <2> QED
    BY <1>2, <2>1, <2>2, <2>4, <2>5
<1>7. CASE ReceiveProperties
  <2> DEFINE m == Head(downlink)
  <2>1. /\ m \in Messages /\ m = downlink[1] /\ 1 \in DOMAIN downlink /\ ~IsCommand(m)
        /\ downlink # <<>>
    BY <1>1, <1>7, HeadAndTail DEF ReceiveProperties, IsCommand
  <2>2. m.version # 0
    <3>1. m.version \in 1 .. twin.version
      BY <2>1 DEF VersionsKnown, FromTwin
    <3> QED
      BY <3>1 DEF DataTyped, CloudTyped, Twins
  <2>3. /\ UNCHANGED <<connection, pc, component_list, twin, display_brightness>>
        /\ downlink' = Tail(downlink)
        /\ callback = "none" /\ callback' = "change_state"
        /\ brightness' = m.payload.brightness /\ reader' = PropertiesOf(m.payload)
    BY <1>7, <2>2 DEF ReceiveProperties, PropertiesReceived, hubVars, mainVars, twinVars
  <2>4. Carries(m) <=> m.payload.brightness # Absent
    BY <2>1 DEF Carries, IsCommand
  <2>5. ToBeRead' <=> Carries(m)
    <3>1. m \in PropertyMessages
      BY <2>1 DEF Messages, CommandMessages, IsCommand
    <3>2. "brightness" \notin m.payload.others
      BY <3>1 DEF PropertyMessages, Payloads, OtherProperties
    <3> QED
      BY <2>3, <2>4, <3>2 DEF ToBeRead, PropertiesOf
  <2>6. ~ToBeRead
    BY <2>3 DEF ToBeRead
  <2> DEFINE b == twin.desired.brightness
  <2>7. /\ LastCarried(downlink, b) => LastCarried(Tail(downlink), b)
        /\ NoneCarried(Tail(downlink)) /\ ~Carries(m) => NoneCarried(downlink)
        /\ NoneCarried(Tail(downlink)) /\ Carries(m) /\ LastCarried(downlink, b)
             => m.payload.brightness = b
    BY <1>1, <2>1, CarriedByRest
  <2>8. OnSession' <=> OnSession
    BY <2>3 DEF OnSession
  <2>9. OnSession' => LastCarried(downlink', b)
    BY <2>3, <2>7, <2>8 DEF SyncInv
  <2>10. ASSUME OnSession', NoneCarried(downlink')
         PROVE  IF ToBeRead' THEN brightness' = b
                ELSE b \in Numbers => display_brightness' = GetTokenUInt8(b)
    <3> HIDE DEF m
    <3>1. CASE Carries(m)
      BY <2>3, <2>5, <2>7, <2>8, <2>10, <3>1 DEF SyncInv
    <3>2. CASE ~Carries(m)
      BY <2>3, <2>5, <2>6, <2>7, <2>8, <2>10, <3>2 DEF SyncInv
    <3> QED
      BY <3>1, <3>2
  <2> QED
    BY <2>3, <2>9, <2>10 DEF SyncInv, LastCarried, NoneCarried, Carries, GetTokenUInt8
<1>8. CASE ReportStateChanged
  <2>1. /\ callback = "report_state" /\ callback' = "none"
        /\ UNCHANGED <<pc, component_list, display_brightness, twin, brightness>>
    BY <1>8 DEF ReportStateChanged, StateChangedReported, messageVars, mainVars
  <2>2. OnSession' => OnSession /\ downlink' = downlink
    BY <1>8, <2>1, ExchangeKeeps DEF ReportStateChanged, Send, OnSession, DownlinkBecomes
  <2>3. ~ToBeRead /\ ~ToBeRead'
    BY <2>1 DEF ToBeRead
  <2> QED
    BY <1>2, <2>1, <2>2, <2>3
<1>9. ASSUME NEW patch \in Patches, CloudPatches(patch) PROVE SyncInv'
  <2> DEFINE m == [type |-> "patch", version |-> twin'.version, payload |-> patch]
  <2>1. UNCHANGED <<connection, pc, subscribed, component_list, display_brightness, callback,
                    brightness, reader>>
    BY <1>9 DEF CloudPatches, programVars, hubVars, mainVars, handlerVars, messageVars
  <2>2. /\ m \in Messages
        /\ Carries(m) <=> patch.brightness # Absent
        /\ m.payload.brightness = patch.brightness
        /\ twin'.desired.brightness = IF Carries(m) THEN m.payload.brightness
                                                    ELSE twin.desired.brightness
    BY <1>9, PatchTyped DEF DataTyped, CloudPatches, Carries
  <2>3. OnSession => downlink' = Append(downlink, m)
    <3>1. OnSession => Reachable("properties")
      BY DEF OnSession, PropertiesSubscribed, SubscribedLabels, Reachable
    <3> QED
      BY <1>9, <3>1 DEF CloudPatches
  <2>4. (OnSession' <=> OnSession) /\ (ToBeRead' <=> ToBeRead)
    BY <2>1 DEF OnSession, ToBeRead
  <2> HIDE DEF m
  <2>5. ASSUME OnSession
        PROVE  /\ LastCarried(downlink', twin'.desired.brightness)
               /\ NoneCarried(downlink') => NoneCarried(downlink) /\ ~Carries(m)
    BY <1>1, <2>2, <2>3, <2>5, CarriedByMore DEF SyncInv
  <2>6. ASSUME OnSession, NoneCarried(downlink')
        PROVE  IF ToBeRead THEN brightness = twin'.desired.brightness
               ELSE twin'.desired.brightness \in Numbers =>
                      display_brightness = GetTokenUInt8(twin'.desired.brightness)
    BY <2>2, <2>5, <2>6 DEF SyncInv
  <2>7. (NoneCarried(downlink)' <=> NoneCarried(downlink'))
        /\ (LastCarried(downlink, twin.desired.brightness)'
              <=> LastCarried(downlink', twin'.desired.brightness))
    BY DEF NoneCarried, LastCarried, Carries
  <2> QED
    <3>1. OnSession' => LastCarried(downlink, twin.desired.brightness)'
      BY <2>4, <2>5, <2>7
    <3>2. ASSUME OnSession', NoneCarried(downlink)'
          PROVE  IF ToBeRead' THEN brightness' = twin'.desired.brightness
                 ELSE twin'.desired.brightness \in Numbers =>
                        display_brightness' = GetTokenUInt8(twin'.desired.brightness)
      BY <2>1, <2>4, <2>6, <2>7, <3>2
    <3> QED
      BY <3>1, <3>2 DEF SyncInv, GetTokenUInt8
<1>10. ASSUME NEW command \in Commands, CloudInvokes(command) PROVE SyncInv'
  <2> DEFINE m == [type |-> "command", id |-> invoked', command |-> command]
  <2>1. UNCHANGED <<connection, pc, component_list, display_brightness, callback, brightness,
                    reader, twin>>
    BY <1>10 DEF CloudInvokes, programVars, hubVars, mainVars, handlerVars, messageVars,
                 twinVars
  <2>2. invoked' \in 1 .. MaxCommands
    BY <1>10, AppAssumption DEF CloudInvokes, DataTyped, CloudTyped
  <2>3. m \in Messages /\ ~Carries(m) /\ downlink' = Append(downlink, m)
    BY <1>10, <2>2 DEF Messages, CommandMessages, Carries, CloudInvokes
  <2>4. OnSession' => OnSession
    BY <2>1 DEF OnSession
  <2>5. ToBeRead <=> ToBeRead'
    BY <2>1 DEF ToBeRead
  <2> HIDE DEF m
  <2>6. /\ LastCarried(downlink, twin.desired.brightness)
             => LastCarried(downlink', twin.desired.brightness)
        /\ NoneCarried(downlink') => NoneCarried(downlink)
    BY <1>1, <2>3, CarriedByMore
  <2> QED
    BY <1>2, <2>1, <2>4, <2>5, <2>6
<1>11. CASE HandleProperties
  BY <1>11, SyncHandled
<1> QED
  BY <1>3, <1>4, <1>5, <1>6, <1>7, <1>8, <1>9, <1>10, <1>11 DEF DataStep

(* The device is not on a session at first.                                 *)
LEMMA InitSync == AppInit => SyncInv /\ PropertiesSubscribed /\ AbsentKnown
  BY DEF AppInit, ProgramInit, HubInit, SyncInv, OnSession, PropertiesSubscribed,
         SubscribedLabels, SyncLabels, LoopLabels, AbsentKnown, NoneCarried

(* While its session lasts the device displays the brightness desired.      *)
THEOREM StaysSynced == AppSpec => []Synced
<1>1. AckInv => VersionsKnown
  BY DEF AckInv
<1>2. SyncInv => Synced
  BY DEF SyncInv, Synced, OnSession, SyncLabels, LoopLabels, NoneCarried, ToBeRead,
         GetTokenUInt8
<1> QED
  BY <1>1, <1>2, InitSync, InitData, InitAck, StepData, StepAck, StepSubscribed, StepAbsent,
     StepSync, PTL
     DEF AppSpec

(* And what it acknowledges of a patch that has no brightness is the one    *)
(* desired, unless a document that sets another is still under way.         *)
THEOREM AcksReportDesired == AppSpec => AckReportsDesired
<1>1. AckInv => VersionsKnown
  BY DEF AckInv
<1> DEFINE Reported ==
      /\ ReportStateChanged
      /\ acked' # acked
      /\ pc \in LoopLabels
      /\ component_list = "intact"
      /\ \A k \in DOMAIN downlink : ~Carries(downlink[k])
      /\ twin.desired.brightness \in Numbers
<1>2. ASSUME SyncInv, Reported PROVE acked'.brightness = twin.desired.brightness % 256
  <2>1. callback = "report_state" /\ acked' = Acknowledgement /\ connection' = "session"
    BY <1>2 DEF ReportStateChanged, StateChangedReported, Delivered
  <2>2. connection = "session"
    BY <1>2, <2>1, ExchangeKeeps DEF ReportStateChanged, Send
  <2>3. OnSession /\ NoneCarried(downlink) /\ ~ToBeRead
    BY <1>2, <2>1, <2>2 DEF OnSession, SyncLabels, LoopLabels, NoneCarried, ToBeRead
  <2>4. display_brightness = GetTokenUInt8(twin.desired.brightness)
    BY <1>2, <2>3 DEF SyncInv
  <2> QED
    BY <2>1, <2>4 DEF Acknowledgement, GetTokenUInt8
<1>3. SyncInv => [Reported => acked'.brightness = twin.desired.brightness % 256]_appVars
  BY <1>2
<1> QED
  BY <1>1, <1>3, InitSync, InitData, InitAck, StepData, StepAck, StepSubscribed, StepAbsent,
     StepSync, PTL
     DEF AppSpec, AckReportsDesired

-----------------------------------------------------------------------------
(***************************************************************************)
(* When the properties that the code breaks do hold                        *)
(***************************************************************************)

(* A hub's name shorter than its buffer is terminated within it: only one   *)
(* of the buffer's full length is not.                                      *)
THEOREM ShorterHostnamesTerminate ==
  ASSUME \A length \in HostnameLengths \cup {0} : length < HostnameCapacity
  PROVE  AppSpec => []HostnameTerminated
<1>1. HostnameTyped => HostnameTerminated
  BY DEF HostnameTyped, HostnameTerminated
<1> QED
  BY <1>1, InitData, StepHostname, PTL DEF AppSpec

(* The properties of a payload that the example has a case for.             *)
Known(payload) == "unknown_display" \notin payload.others

KnownMessage(m) == ~IsCommand(m) => Known(m.payload)

NeverSpins == callback # "spinning"

KnownInv ==
  /\ Known(twin.desired)
  /\ \A k \in DOMAIN downlink : KnownMessage(downlink[k])
  /\ "unknown_display" \notin reader
  /\ NeverSpins

(* Only a patch puts a property into the twin and into a message.           *)
LEMMA StepKnown ==
  ASSUME \A patch \in Patches : Known(patch)
  PROVE  KnownInv /\ DataTyped /\ [AppNext]_appVars => KnownInv'
<1> SUFFICES ASSUME KnownInv, DataTyped, DataStep PROVE KnownInv'
  BY DataSteps
<1> USE DEF KnownInv, NeverSpins
<1>1. downlink \in Seq(Messages)
  BY DEF DataTyped, CloudTyped
<1>2. downlink # <<>> => \A k \in DOMAIN Tail(downlink) : KnownMessage(Tail(downlink)[k])
  BY <1>1, HeadAndTail
<1>3. ASSUME UNCHANGED <<twin, reader, callback>>,
             \A k \in DOMAIN downlink' : KnownMessage(downlink'[k])
      PROVE  KnownInv'
  BY <1>3 DEF Known, KnownMessage, IsCommand
<1>4. ASSUME NEW m \in Messages, KnownMessage(m), downlink' = Append(downlink, m)
      PROVE  \A k \in DOMAIN downlink' : KnownMessage(downlink'[k])
  BY <1>1, <1>4, OneMore
<1>5. CASE Restart
  BY <1>5 DEF Restart, HandlerRestart, twinVars, Known
<1>6. CASE Quiet
  <2>1. \A k \in DOMAIN downlink' : KnownMessage(downlink'[k])
    BY <1>6 DEF Quiet
  <2> QED
    BY <1>3, <1>6, <2>1 DEF Quiet
<1>7. ASSUME NEW ok \in BOOLEAN, RequestProperties(ok) PROVE KnownInv'
  <2>1. KnownMessage(Document)
    BY DEF KnownMessage, Document
  <2>2. downlink' \in {downlink, <<>>} \/ downlink' = Append(downlink, Document)
    BY <1>7 DEF RequestProperties, DownlinkBecomes
  <2>3. \A k \in DOMAIN downlink' : KnownMessage(downlink'[k])
    BY <1>4, <2>1, <2>2, DocumentTyped DEF DataTyped
  <2> QED
    BY <1>3, <1>7, <2>3 DEF RequestProperties, handlerVars, twinVars
<1>8. CASE ReceiveCommand
  <2>1. \A k \in DOMAIN downlink' : KnownMessage(downlink'[k])
    BY <1>2, <1>8 DEF ReceiveCommand, DownlinkBecomes
  <2> QED
    BY <1>3, <1>8, <2>1 DEF ReceiveCommand, handlerVars, twinVars
<1>9. CASE ReceiveProperties
  <2> DEFINE m == Head(downlink)
  <2>1. KnownMessage(m) /\ ~IsCommand(m)
    BY <1>1, <1>9, HeadAndTail DEF ReceiveProperties, IsCommand
  <2>2. /\ twin' = twin /\ downlink' = Tail(downlink) /\ downlink # <<>>
        /\ callback' = "change_state"
        /\ reader' \in {{}, PropertiesOf(m.payload)}
    BY <1>9 DEF ReceiveProperties, PropertiesReceived, twinVars
  <2> HIDE DEF m
  <2>3. "unknown_display" \notin reader'
    BY <2>1, <2>2 DEF KnownMessage, Known, PropertiesOf
  <2>4. \A k \in DOMAIN downlink' : KnownMessage(downlink'[k])
    BY <1>2, <2>2
  <2> QED
    BY <2>2, <2>3, <2>4 DEF Known, KnownMessage, IsCommand
<1>10. CASE HandleProperties
  <2>1. UNCHANGED <<twin, downlink>>
    BY <1>10 DEF HandleProperties, twinVars
  <2>2. reader' \subseteq reader /\ callback' # "spinning"
    <3>1. CASE AllPropertiesRead
      BY <3>1 DEF AllPropertiesRead
    <3>2. ASSUME NEW p \in reader,
                 SkipProperty(p) \/ ReadBrightness(p) \/ SpinOnProperty(p)
          PROVE  reader' \subseteq reader /\ callback' # "spinning"
      BY <3>2 DEF SkipProperty, ReadBrightness, SpinOnProperty
    <3> QED
      BY <1>10, <3>1, <3>2 DEF HandleProperties, ReadProperty
  <2> QED
    BY <2>1, <2>2 DEF Known, KnownMessage, IsCommand
<1>11. CASE ReportStateChanged
  BY <1>11 DEF ReportStateChanged, StateChangedReported, DownlinkBecomes, Known, KnownMessage,
               IsCommand
<1>12. ASSUME NEW patch \in Patches, CloudPatches(patch) PROVE KnownInv'
  <2> DEFINE m == [type |-> "patch", version |-> twin'.version, payload |-> patch]
  <2>1. Known(twin'.desired)
    BY <1>12 DEF CloudPatches, Known
  <2>2. m \in Messages /\ KnownMessage(m)
    BY <1>12, PatchTyped DEF DataTyped, KnownMessage
  <2>3. downlink' = downlink \/ downlink' = Append(downlink, m)
    BY <1>12 DEF CloudPatches
  <2> HIDE DEF m
  <2>4. \A k \in DOMAIN downlink' : KnownMessage(downlink'[k])
    BY <1>4, <2>2, <2>3
  <2> QED
    BY <1>12, <2>1, <2>4 DEF CloudPatches, programVars, handlerVars, Known, KnownMessage,
                             IsCommand
<1>13. ASSUME NEW command \in Commands, CloudInvokes(command) PROVE KnownInv'
  <2> DEFINE m == [type |-> "command", id |-> invoked', command |-> command]
  <2>1. invoked' \in 1 .. MaxCommands
    BY <1>13, AppAssumption DEF CloudInvokes, DataTyped, CloudTyped
  <2>2. m \in Messages /\ KnownMessage(m)
    BY <2>1 DEF Messages, CommandMessages, KnownMessage, IsCommand
  <2>3. UNCHANGED <<twin, reader, callback>> /\ downlink' = Append(downlink, m)
    BY <1>13 DEF CloudInvokes, programVars, handlerVars, twinVars
  <2> HIDE DEF m
  <2> QED
    BY <1>3, <1>4, <2>2, <2>3
<1> QED
  BY <1>5, <1>6, <1>7, <1>8, <1>9, <1>10, <1>11, <1>12, <1>13 DEF DataStep

(* The property callback never spins for a service that only writes         *)
(* properties the example knows: a display property that it does not know   *)
(* is the only thing that holds it for ever.                                *)
THEOREM KnownPropertiesNeverSpin ==
  ASSUME \A patch \in Patches : Known(patch)
  PROVE  AppSpec => []NeverSpins
<1>1. AppInit => KnownInv
  BY DEF AppInit, ProgramInit, HandlerInit, KnownInv, Known, NeverSpins
<1>2. KnownInv /\ DataTyped /\ [AppNext]_appVars => KnownInv'
  BY StepKnown
<1>3. KnownInv => NeverSpins
  BY DEF KnownInv
<1> QED
  BY <1>1, <1>2, <1>3, InitData, StepData, PTL DEF AppSpec

(* A session is only ever made by the MQTT connection of set-up: one that   *)
(* is lost, or that the transport has replaced, is not there again before   *)
(* the program has started over.                                            *)
SessionFromSetup ==
  [][connection # "session" /\ connection' = "session" => pc = "mqtt_connect"]_appVars

THEOREM SessionsComeFromSetup == AppSpec => SessionFromSetup
<1>1. ASSUME [AppNext]_appVars, connection # "session", connection' = "session"
      PROVE  pc = "mqtt_connect"
  <2>1. ~Restart /\ connection' # connection
    BY <1>1 DEF Restart, HubRestart
  <2>2. ASSUME NEW ok \in BOOLEAN, Exchange(NetworkUp, ok) PROVE FALSE
    BY <1>1, <2>2, ExchangeKeeps
  <2>3. CASE Infra \/ Dps
    BY <2>1, <2>3
       DEF Infra, NvsInit, WifiInitialized, WifiConnect, WifiWaitEnds, WifiResult,
           WifiResultFailed, DnsSetServers, SntpInit, TimeSynchronized, InfraFails, InfraStep,
           Dps, DpsSetup, DpsTransportConnected, DpsRegistering, DpsDisconnected, DpsGet,
           DpsFails, DpsStep, Fail, hubVars
  <2>4. ASSUME NEW ok \in BOOLEAN, SetupHub(ok) PROVE pc = "mqtt_connect"
    <3>1. CASE HubSetup(ok) \/ HubConnect(ok)
      BY <1>1, <3>1 DEF HubSetup, HubConnect, ConnectTransport, hubVars
    <3>2. CASE MqttConnect(ok)
      BY <3>2 DEF MqttConnect, SetupStep, HubStep, Goto
    <3>3. CASE Subscriptions(ok) \/ RequestProperties(ok) \/ ReportInitialState(ok)
      BY <2>1, <2>2, <3>3 DEF Subscriptions, SubscribeTo, SubscriptionAcknowledged,
         RequestProperties, ReportInitialState, Subscribe, Acknowledged, Send
    <3> QED
      BY <2>4, <3>1, <3>2, <3>3 DEF SetupHub
  <2>5. CASE \/ SendTelemetry \/ ProcessLoopEnds \/ EndLoop
             \/ DisconnectHubMqtt \/ DisconnectHubTransport \/ HubRunFails
    BY <1>1, <2>1, <2>2, <2>5 DEF SendTelemetry, ProcessLoopEnds, EndLoop, UnsubscribeFrom,
       Unsubscribe, Send, DisconnectHubMqtt, DisconnectMqtt, DisconnectHubTransport,
       DisconnectTransport, HubRunFails, Fail
  <2>6. CASE ReceiveCommand \/ ReportStateChanged
    BY <2>2, <2>6 DEF ReceiveCommand, ReportStateChanged, Send
  <2>7. CASE \/ ReceiveProperties \/ HandleProperties \/ LoseComponentList
             \/ WifiEvents \/ UNCHANGED appVars
    BY <2>1, <2>7 DEF ReceiveProperties, HandleProperties, LoseComponentList, WifiEvents,
       appVars, programVars, hubVars
  <2>8. CASE \/ \E patch \in Patches : CloudPatches(patch)
             \/ \E command \in Commands : CloudInvokes(command)
    BY <2>1, <2>8 DEF CloudPatches, CloudInvokes, programVars, hubVars
  <2>9. CASE LoseSession \/ PowerLoss
    BY <1>1, <2>1, <2>9 DEF LoseSession, SessionLost, PowerLoss
  <2> QED
    BY <1>1, <2>3, <2>4, <2>5, <2>6, <2>7, <2>8, <2>9 DEF AppNext, HubRun, Callbacks
<1>2. [AppNext]_appVars =>
        [connection # "session" /\ connection' = "session" => pc = "mqtt_connect"]_appVars
  BY <1>1
<1> QED
  BY <1>2, PTL DEF AppSpec, SessionFromSetup

-----------------------------------------------------------------------------
(***************************************************************************)
(* The end of the program.  The loop is only left for the flag that the    *)
(* command sets, success is only stored after it, and whatever fails       *)
(* before goes the same way out but ends in a new start.                   *)
(***************************************************************************)
UnsubscribeLabels == {"unsubscribe_c2d", "unsubscribe_command", "unsubscribe_properties"}

LeftWhenAsked ==
  /\ pc \in UnsubscribeLabels \/ success = TRUE => restart_command_called = TRUE
  /\ pc = "finished" => success = TRUE

RestartInvoked ==
  restart_command_called = TRUE => \E command \in Commands : IsRestart(command)

(* No step but a command sets the flag, and none but a new start resets it. *)
LEMMA StepLeft == LeftWhenAsked /\ [AppNext]_appVars => LeftWhenAsked'
<1>1. Restart => LeftWhenAsked'
  BY DEF Restart, LeftWhenAsked, UnsubscribeLabels
<1> SUFFICES ASSUME LeftWhenAsked, [AppNext]_appVars, ~Restart PROVE LeftWhenAsked'
  BY <1>1
<1> USE DEF LeftWhenAsked, UnsubscribeLabels
<1>2. CASE Infra
  BY <1>2 DEF Infra, NvsInit, WifiInitialized, WifiConnect, WifiWaitEnds, WifiResult,
              WifiResultFailed, DnsSetServers, SntpInit, TimeSynchronized, InfraFails,
              InfraStep, Fail, Goto
<1>3. CASE Dps
  <2>1. ASSUME NEW result \in {"success", "pending", "failure"}, DpsRegistering(result)
        PROVE  LeftWhenAsked'
    <3>1. AfterRegister[result] \in {"dps_register", "dps_registered", "dps_refused"}
      BY DEF AfterRegister
    <3> QED
      BY <2>1, <3>1 DEF DpsRegistering, DpsStep, Goto
  <2>2. CASE DpsSetup \/ DpsTransportConnected \/ DpsDisconnected \/ DpsGet
    BY <2>2 DEF DpsSetup, DpsTransportConnected, DpsDisconnected, DpsGet, DpsStep, Goto
  <2>3. ~DpsFails
    BY DEF DpsFails, Fail
  <2> QED
    BY <1>3, <2>1, <2>2, <2>3, Zenon DEF Dps
<1>4. ASSUME NEW ok \in BOOLEAN, SetupHub(ok) PROVE LeftWhenAsked'
  <2>1. ASSUME NEW from, NEW to, SetupStep(from, ok, to),
               to \notin UnsubscribeLabels \cup {"finished"} \/ to = LoopTest
        PROVE  LeftWhenAsked'
    BY <2>1 DEF SetupStep, HubStep, Goto, LoopTest
  <2> QED
    BY <1>4, <2>1 DEF SetupHub, HubSetup, HubConnect, MqttConnect, Subscriptions, SubscribeTo,
       SubscriptionAcknowledged, RequestProperties, ReportInitialState
<1>5. CASE SendTelemetry \/ ProcessLoopEnds
  BY <1>5 DEF SendTelemetry, ProcessLoopEnds, HubStep, Goto, LoopTest
<1>6. CASE EndLoop
  BY <1>6 DEF EndLoop, UnsubscribeFrom, HubStep, Goto
<1>7. CASE DisconnectHubMqtt \/ DisconnectHubTransport \/ HubRunFails
  BY <1>7 DEF DisconnectHubMqtt, DisconnectHubTransport, HubRunFails, HubStep, Goto, Fail
<1>8. CASE ReceiveCommand
  <2>1. restart_command_called = TRUE => restart_command_called' = TRUE
    BY <1>8, Zenon DEF ReceiveCommand
  <2> QED
    BY <1>8, <2>1 DEF ReceiveCommand
<1>9. CASE \/ ReceiveProperties \/ Callbacks \/ LoseComponentList \/ WifiEvents
           \/ LoseSession \/ UNCHANGED appVars
  BY <1>9 DEF ReceiveProperties, Callbacks, HandleProperties, ReportStateChanged,
     LoseComponentList, WifiEvents, LoseSession, appVars, programVars, mainVars
<1>10. CASE \/ \E patch \in Patches : CloudPatches(patch)
            \/ \E command \in Commands : CloudInvokes(command)
  BY <1>10 DEF CloudPatches, CloudInvokes, programVars, mainVars
<1> QED
  BY <1>2, <1>3, <1>4, <1>5, <1>6, <1>7, <1>8, <1>9, <1>10 DEF AppNext, HubRun, PowerLoss

(* And it is set for a command that asks for a restart.                     *)
LEMMA StepInvoked ==
  RestartInvoked /\ MainTyped /\ DataTyped /\ [AppNext]_appVars => RestartInvoked'
<1>1. Restart => RestartInvoked'
  BY DEF Restart, RestartInvoked
<1> SUFFICES ASSUME RestartInvoked, MainTyped, DataTyped, [AppNext]_appVars, ~Restart,
                    restart_command_called # TRUE, restart_command_called' = TRUE
             PROVE  \E command \in Commands : IsRestart(command)
  BY <1>1 DEF RestartInvoked
<1>2. CASE ReceiveCommand
  <2> DEFINE m == Head(downlink)
  <2>1. downlink \in Seq(Messages) /\ downlink # <<>> /\ m.type = "command"
    BY <1>2 DEF ReceiveCommand, DataTyped, CloudTyped
  <2>2. m \in CommandMessages
    BY <2>1, HeadAndTail DEF Messages, PropertyMessages, CommandMessages
  <2>3. restart_command_called' = (restart_command_called \/ IsRestart(m.command))
    BY <1>2, Zenon DEF ReceiveCommand
  <2>4. ~restart_command_called
    BY DEF MainTyped
  <2>5. IsRestart(m.command)
    BY <2>3, <2>4, Zenon
  <2> QED
    BY <2>2, <2>5 DEF CommandMessages
<1>3. CASE Infra \/ Dps
  BY <1>3 DEF Infra, NvsInit, WifiInitialized, WifiConnect, WifiWaitEnds, WifiResult,
     WifiResultFailed, DnsSetServers, SntpInit, TimeSynchronized, InfraFails, InfraStep,
     Dps, DpsSetup, DpsTransportConnected, DpsRegistering, DpsDisconnected, DpsGet,
     DpsFails, DpsStep, Fail
<1>4. CASE HubRun
  BY <1>4 DEF HubRun, SetupHub, HubSetup, HubConnect, MqttConnect, Subscriptions, SubscribeTo,
     SubscriptionAcknowledged, RequestProperties, ReportInitialState, SetupStep, SendTelemetry,
     ProcessLoopEnds, EndLoop, UnsubscribeFrom, DisconnectHubMqtt, DisconnectHubTransport,
     HubRunFails, HubStep, Fail
<1>5. CASE \/ ReceiveProperties \/ Callbacks \/ LoseComponentList \/ WifiEvents
           \/ LoseSession \/ UNCHANGED appVars
  BY <1>5 DEF ReceiveProperties, Callbacks, HandleProperties, ReportStateChanged,
     LoseComponentList, WifiEvents, LoseSession, appVars, programVars, mainVars
<1>6. CASE \/ \E patch \in Patches : CloudPatches(patch)
           \/ \E command \in Commands : CloudInvokes(command)
  BY <1>6 DEF CloudPatches, CloudInvokes, programVars, mainVars
<1> QED
  BY <1>2, <1>3, <1>4, <1>5, <1>6 DEF AppNext, PowerLoss

(* The program ends by itself only when a command has asked for a restart:  *)
(* a failure of set-up, or a session that cannot be made, goes through the  *)
(* same disconnection, but what comes of it is a new start.                 *)
EndsWhenAsked ==
  pc = "finished" =>
    restart_command_called /\ \E command \in Commands : IsRestart(command)

THEOREM EndsOnlyWhenAsked == AppSpec => []EndsWhenAsked
<1>1. AppInit => LeftWhenAsked /\ RestartInvoked
  BY DEF AppInit, ProgramInit, LeftWhenAsked, UnsubscribeLabels, RestartInvoked
<1>2. LeftWhenAsked /\ RestartInvoked => EndsWhenAsked
  BY DEF LeftWhenAsked, RestartInvoked, EndsWhenAsked
<1>3. LinksClosed => MainTyped
  BY DEF LinksClosed
<1> QED
  BY <1>1, <1>2, <1>3, InitParts, InitData, StepLeavesNothingOpen, StepData, StepLeft,
     StepInvoked, PTL DEF AppSpec
=============================================================================
