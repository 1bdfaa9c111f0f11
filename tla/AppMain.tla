------------------------------- MODULE AppMain --------------------------------
(***************************************************************************)
(* The application as shipped, main.c: start-up, provisioning, then the    *)
(* hub example, which ends when the "restart" command has been received.   *)
(* A failure on the way aborts, and so the device starts over.  Around it  *)
(* the device twin, the command service, the broker, the network and the   *)
(* ESP-IDF event task.                                                     *)
(*                                                                         *)
(* All messages for the device come over one MQTT connection, in order;    *)
(* callbacks run inside the calls that wait for the hub.  Cloud-to-device  *)
(* messages and the answers to reported properties are only logged and are *)
(* left out.                                                               *)
(***************************************************************************)
EXTENDS WifiHelper, Provisioning, HubClient, PropertyHandler, Sequences, FiniteSets

CONSTANTS
  Patches,       (* changes the service makes to the twin                   *)
  Commands,      (* commands it invokes: [component, name]                  *)
  RestartNames,  (* the names that begin with "restart", in any case        *)
  MaxCommands    (* bound: commands invoked                                 *)

ASSUME AppAssumption ==
  /\ Patches \subseteq Payloads
  /\ Commands \subseteq [component : BOOLEAN, name : STRING]
  /\ MaxCommands \in Nat

VARIABLES
  pc,                      (* the call of the main task                      *)
  success,                 (* the variable of example_iot_hub_run            *)
  restart_command_called,
  twin,       (* version, desired properties, and the patch made last        *)
  downlink,   (* messages under way to the device, in order                  *)
  acked,      (* the acknowledgement the twin received last                  *)
  invoked,    (* commands invoked so far                                     *)
  answers     (* answers the command service received, in order              *)

mainVars == <<pc, success, restart_command_called>>
programVars == <<wifiVars, dpsVars, hubVars, handlerVars, mainVars>>
twinVars == <<twin, acked>>
commandVars == <<invoked, answers>>
appVars == <<programVars, twinVars, commandVars, downlink>>

CommandMessages == [type : {"command"}, id : 1 .. MaxCommands, command : Commands]

-----------------------------------------------------------------------------
Goto(from, to) == pc = from /\ pc' = to

(* What was under way on a session is lost with it.                         *)
DownlinkBecomes(messages) ==
  downlink' = IF connection' = "session" THEN messages ELSE <<>>

ProgramInit ==
  /\ WifiInit
  /\ ProvisioningInit
  /\ HubInit
  /\ HandlerInit
  /\ pc = "boot"
  /\ success = FALSE
  /\ restart_command_called = FALSE
  /\ downlink = <<>>

(* abort, a fault, a loss of power: the program starts over, the service    *)
(* keeps what it knows.                                                     *)
Restart ==
  /\ WifiRestart
  /\ ProvisioningRestart
  /\ HubRestart
  /\ HandlerRestart
  /\ pc' = "boot"
  /\ success' = FALSE
  /\ restart_command_called' = FALSE
  /\ downlink' = <<>>
  /\ UNCHANGED <<twinVars, commandVars>>

Fail(from) == pc = from /\ Restart

CloudUnchanged == UNCHANGED <<twinVars, commandVars>>

-----------------------------------------------------------------------------
(***************************************************************************)
(* initialize_infra.  The name servers are constants and always accepted,  *)
(* and starting SNTP always succeeds; helper_sntp_wait_for_sync waits       *)
(* without limit, and the time only comes over the network.                *)
(***************************************************************************)
InfraStep(from, to) ==
  /\ Goto(from, to)
  /\ UNCHANGED <<dpsVars, hubVars, handlerVars, success, restart_command_called, downlink>>
  /\ CloudUnchanged

NvsInit == InfraStep("boot", "wifi_init") /\ UNCHANGED wifiVars

WifiInitialized == InfraStep("wifi_init", "wifi_connect") /\ UNCHANGED wifiVars

WifiConnect == InfraStep("wifi_connect", "wifi_wait") /\ WifiConnectBegins

WifiWaitEnds ==
  /\ InfraStep("wifi_wait", "wifi_result")
  /\ s_wifi_response_gotten
  /\ UNCHANGED wifiVars

WifiResult ==
  /\ InfraStep("wifi_result", "dns_set_servers")
  /\ s_wifi_connected
  /\ UNCHANGED wifiVars

WifiResultFailed == ~s_wifi_connected /\ Fail("wifi_result")

DnsSetServers == InfraStep("dns_set_servers", "sntp_init") /\ UNCHANGED wifiVars

SntpInit == InfraStep("sntp_init", "sntp_wait") /\ UNCHANGED wifiVars

TimeSynchronized == InfraStep("sntp_wait", "dps_setup") /\ NetworkUp /\ UNCHANGED wifiVars

InfraFails == \E step \in {"boot", "wifi_init", "wifi_connect"} : Fail(step)

-----------------------------------------------------------------------------
(***************************************************************************)
(* example_dps_run                                                         *)
(***************************************************************************)
DpsStep(from, to) ==
  /\ Goto(from, to)
  /\ UNCHANGED <<wifiVars, hubVars, handlerVars, success, restart_command_called, downlink>>
  /\ CloudUnchanged

DpsSetup == DpsStep("dps_setup", "dps_connect") /\ UNCHANGED dpsVars

DpsTransportConnected == DpsStep("dps_connect", "dps_register") /\ DpsConnect(NetworkUp, TRUE)

AfterRegister ==
  [pending |-> "dps_register", success |-> "dps_registered", failure |-> "dps_refused"]

DpsRegistering(result) ==
  /\ DpsStep("dps_register", AfterRegister[result])
  /\ DpsRegister(NetworkUp, result)

DpsDisconnected == DpsStep("dps_registered", "dps_get") /\ DpsDisconnect

DpsGet ==
  /\ DpsStep("dps_get", "hub_setup")
  /\ \E length \in HostnameLengths : GetDeviceAndHub(length)

(* Each failure disconnects, frees the client, and app_main aborts.         *)
DpsFails == \E step \in {"dps_setup", "dps_connect", "dps_refused", "dps_get"} : Fail(step)

-----------------------------------------------------------------------------
(***************************************************************************)
(* example_iot_hub_run: set-up.  Each step that fails goes on with the     *)
(* disconnection.                                                          *)
(***************************************************************************)
HubStep(from, to) ==
  /\ Goto(from, to)
  /\ callback = "none"
  /\ UNCHANGED <<wifiVars, dpsVars, restart_command_called, commandVars>>

SetupStep(from, ok, to) ==
  /\ HubStep(from, IF ok THEN to ELSE "disconnect_mqtt")
  /\ UNCHANGED success

HubSetup(ok) ==
  /\ SetupStep("hub_setup", ok, "hub_connect")
  /\ component_list' = "intact"
  /\ UNCHANGED <<hubVars, display_brightness, callback, messageVars, reader, twinVars, downlink>>

HubConnect(ok) ==
  /\ SetupStep("hub_connect", ok, "mqtt_connect")
  /\ ConnectTransport(NetworkUp, ok)
  /\ UNCHANGED <<handlerVars, twinVars, downlink>>

MqttConnect(ok) ==
  /\ SetupStep("mqtt_connect", ok, "subscribe_c2d")
  /\ ConnectMqtt(NetworkUp, ok)
  /\ UNCHANGED <<handlerVars, twinVars, downlink>>

SubscribeTo(topic, from, to, ok) ==
  /\ SetupStep(from, ok, to)
  /\ Subscribe(topic, NetworkUp, ok)
  /\ DownlinkBecomes(downlink)
  /\ UNCHANGED <<handlerVars, twinVars>>

SubscriptionAcknowledged(from, to, ok) ==
  /\ SetupStep(from, ok, to)
  /\ Acknowledged(NetworkUp, ok)
  /\ DownlinkBecomes(downlink)
  /\ UNCHANGED <<handlerVars, twinVars>>

Subscriptions(ok) ==
  \/ SubscribeTo("c2d", "subscribe_c2d", "c2d_suback", ok)
  \/ SubscriptionAcknowledged("c2d_suback", "subscribe_command", ok)
  \/ SubscribeTo("command", "subscribe_command", "command_suback", ok)
  \/ SubscriptionAcknowledged("command_suback", "subscribe_properties", ok)
  \/ SubscribeTo("properties", "subscribe_properties", "properties_suback", ok)
  \/ SubscriptionAcknowledged("properties_suback", "request_properties", ok)

(* The twin answers a request it received with the whole document.          *)
Document == [type |-> "document", version |-> twin.version, payload |-> twin.desired]

RequestProperties(ok) ==
  /\ SetupStep("request_properties", ok, "report_initial")
  /\ Send(NetworkUp, ok)
  /\ DownlinkBecomes(IF Delivered(ok) THEN Append(downlink, Document) ELSE downlink)
  /\ UNCHANGED <<handlerVars, twinVars>>

LoopTestWithout == "send_telemetry"  \* mutant: the loop does not look at the flag

LoopTest == IF restart_command_called THEN "unsubscribe_c2d" ELSE "send_telemetry"

ReportInitialState(ok) ==
  /\ SetupStep("report_initial", ok, LoopTest)
  /\ Send(NetworkUp, ok)
  /\ DownlinkBecomes(downlink)
  /\ UNCHANGED <<handlerVars, twinVars>>

SetupHub(ok) ==
  \/ HubSetup(ok) \/ HubConnect(ok) \/ MqttConnect(ok) \/ Subscriptions(ok)
  \/ RequestProperties(ok) \/ ReportInitialState(ok)

-----------------------------------------------------------------------------
(***************************************************************************)
(* example_iot_hub_run: loop and end.  What the loop sends and whether it  *)
(* could is only logged.                                                   *)
(***************************************************************************)
SendTelemetry ==
  /\ HubStep("send_telemetry", "process_loop")
  /\ \E ok \in BOOLEAN : Send(NetworkUp, ok)
  /\ DownlinkBecomes(downlink)
  /\ UNCHANGED <<handlerVars, success, twinVars>>

ProcessLoopEnds ==
  /\ HubStep("process_loop", LoopTest)
  /\ \E ok \in BOOLEAN : Send(NetworkUp, ok)
  /\ DownlinkBecomes(downlink)
  /\ UNCHANGED <<handlerVars, success, twinVars>>

UnsubscribeFrom(topic, from, to) ==
  /\ HubStep(from, to)
  /\ Unsubscribe(topic, NetworkUp)
  /\ DownlinkBecomes(downlink)
  /\ success' = TRUE
  /\ UNCHANGED <<handlerVars, twinVars>>

EndLoop ==
  \/ UnsubscribeFrom("c2d", "unsubscribe_c2d", "unsubscribe_command")
  \/ UnsubscribeFrom("command", "unsubscribe_command", "unsubscribe_properties")
  \/ UnsubscribeFrom("properties", "unsubscribe_properties", "disconnect_mqtt")

(* azure_iot_hub_disconnect; then the client is freed, and app_main ends or *)
(* aborts.                                                                  *)
DisconnectHubMqtt ==
  /\ HubStep("disconnect_mqtt", "disconnect_transport")
  /\ DisconnectMqtt(NetworkUp)
  /\ DownlinkBecomes(downlink)
  /\ UNCHANGED <<handlerVars, success, twinVars>>

DisconnectHubTransport ==
  /\ HubStep("disconnect_transport", "finished")
  /\ success
  /\ DisconnectTransport
  /\ UNCHANGED <<handlerVars, success, twinVars, downlink>>

HubRunFails == ~success /\ Fail("disconnect_transport")

-----------------------------------------------------------------------------
(***************************************************************************)
(* Callbacks, inside a call that waits for the hub                         *)
(***************************************************************************)
Waiting == {"c2d_suback", "command_suback", "properties_suback", "process_loop"}

(* callback_cloud_command_subscription: "restart" is looked for at the      *)
(* beginning of a command of the root interface.                            *)
IsRestart(command) == ~command.component /\ command.name \in RestartNames

CommandStatusesBoth(command) ==  \* mutant: the return after "restart" is missing
  IF IsRestart(command) THEN <<200, 404>> ELSE <<404>>

CommandStatuses(command) == IF IsRestart(command) THEN <<200>> ELSE <<404>>

Answer(m) ==
  LET statuses == CommandStatuses(m.command) IN
  [k \in DOMAIN statuses |-> [id |-> m.id, status |-> statuses[k]]]

ReceiveCommand ==
  /\ pc \in Waiting
  /\ callback = "none"
  /\ downlink # <<>> /\ Head(downlink).type = "command"
  /\ LET m == Head(downlink) IN
       /\ \E ok \in BOOLEAN :
            /\ Send(NetworkUp, ok)
            /\ answers' = IF Delivered(ok) THEN answers \o Answer(m) ELSE answers
       /\ restart_command_called' = (restart_command_called \/ IsRestart(m.command))
  /\ DownlinkBecomes(Tail(downlink))
  /\ UNCHANGED <<wifiVars, dpsVars, handlerVars, pc, success, twinVars, invoked>>

ReceiveProperties ==
  /\ pc \in Waiting
  /\ downlink # <<>> /\ Head(downlink).type # "command"
  /\ PropertiesReceived(Head(downlink))
  /\ downlink' = Tail(downlink)
  /\ UNCHANGED <<wifiVars, dpsVars, hubVars, mainVars, twinVars, commandVars>>

HandleProperties ==
  /\ ReadProperty \/ AllPropertiesRead
  /\ UNCHANGED <<wifiVars, dpsVars, hubVars, mainVars, twinVars, commandVars, downlink>>

(* device_report_state_changed                                              *)
AcknowledgementOfMessage ==  \* mutant: says what the patch has, and not what is displayed
  [version |-> message.version,
   brightness |-> IF brightness \in Numbers THEN GetTokenUInt8(brightness) ELSE 0,
   list_intact |-> component_list = "intact"]

Acknowledgement ==
  [version |-> message.version, brightness |-> display_brightness,
   list_intact |-> component_list = "intact"]

ReportStateChanged ==
  /\ StateChangedReported
  /\ \E ok \in BOOLEAN :
       /\ Send(NetworkUp, ok)
       /\ acked' = IF Delivered(ok) THEN Acknowledgement ELSE acked
  /\ DownlinkBecomes(downlink)
  /\ UNCHANGED <<wifiVars, dpsVars, mainVars, twin, commandVars>>

(* The component list is out of scope once set-up has returned.             *)
LoseComponentList ==
  /\ pc \in {"send_telemetry", "process_loop"}
  /\ OverwriteList
  /\ UNCHANGED <<wifiVars, dpsVars, hubVars, mainVars, twinVars, commandVars, downlink>>

-----------------------------------------------------------------------------
(***************************************************************************)
(* The outside world                                                       *)
(***************************************************************************)
Reachable(topic) == connection = "session" /\ topic \in subscribed

(* The service changes the twin; the patch is pushed to a subscriber.       *)
CloudPatches(patch) ==
  /\ twin.version < MaxVersion
  /\ twin' = [version |-> twin.version + 1,
              desired |-> [brightness |-> IF patch.brightness = Absent
                                            THEN twin.desired.brightness ELSE patch.brightness,
                           others |-> twin.desired.others \cup patch.others],
              patch   |-> patch]
  /\ downlink' = IF Reachable("properties")
                   THEN Append(downlink, [type |-> "patch", version |-> twin'.version,
                                          payload |-> patch])
                   ELSE downlink
  /\ UNCHANGED <<programVars, acked, commandVars>>

(* A command is only invoked on a device that can be reached.               *)
CloudInvokes(command) ==
  /\ invoked < MaxCommands
  /\ Reachable("command")
  /\ invoked' = invoked + 1
  /\ downlink' = Append(downlink, [type |-> "command", id |-> invoked', command |-> command])
  /\ UNCHANGED <<programVars, twinVars, answers>>

WifiEvents ==
  /\ GotIp \/ Disconnected \/ \E s \in stores : StoreFlag(s)
  /\ UNCHANGED <<dpsVars, hubVars, handlerVars, mainVars, twinVars, commandVars, downlink>>

(* The driver answers an attempt to connect; the event task gets to run.    *)
WifiAnswers ==
  /\ \/ GotIp
     \/ wifi = "connecting" /\ Disconnected
     \/ \E s \in stores : StoreFlag(s)
  /\ UNCHANGED <<dpsVars, hubVars, handlerVars, mainVars, twinVars, commandVars, downlink>>

LoseSession ==
  /\ SessionLost
  /\ downlink' = <<>>
  /\ UNCHANGED <<wifiVars, dpsVars, handlerVars, mainVars, twinVars, commandVars>>

PowerLoss == pc # "boot" /\ Restart

-----------------------------------------------------------------------------
AppInit ==
  /\ ProgramInit
  /\ twin = [version |-> 1, desired |-> [brightness |-> Absent, others |-> {}],
             patch |-> [brightness |-> Absent, others |-> {}]]
  /\ acked = [version |-> 0, brightness |-> 0, list_intact |-> FALSE]
  /\ invoked = 0
  /\ answers = <<>>

Infra ==
  \/ NvsInit \/ WifiInitialized \/ WifiConnect \/ WifiWaitEnds \/ WifiResult \/ WifiResultFailed
  \/ DnsSetServers \/ SntpInit \/ TimeSynchronized \/ InfraFails

Dps ==
  \/ DpsSetup \/ DpsTransportConnected
  \/ \E result \in {"success", "pending", "failure"} : DpsRegistering(result)
  \/ DpsDisconnected \/ DpsGet \/ DpsFails

HubRun ==
  \/ \E ok \in BOOLEAN : SetupHub(ok)
  \/ SendTelemetry \/ ProcessLoopEnds \/ EndLoop
  \/ DisconnectHubMqtt \/ DisconnectHubTransport \/ HubRunFails

Callbacks == HandleProperties \/ ReportStateChanged

AppNext ==
  \/ Infra \/ Dps \/ HubRun
  \/ ReceiveCommand \/ ReceiveProperties \/ Callbacks \/ LoseComponentList
  \/ \E patch \in Patches : CloudPatches(patch)
  \/ \E command \in Commands : CloudInvokes(command)
  \/ WifiEvents \/ LoseSession \/ PowerLoss

AppSpec == AppInit /\ [][AppNext]_appVars

(***************************************************************************)
(* Fairness.  The main task runs: every call returns, by its timeout at    *)
(* the latest.  The driver posts an event for every attempt and the event  *)
(* task handles it.  A call that waits for the hub, made again and again   *)
(* with a message to be had, gets it some time; and a registration asked   *)
(* after again and again is decided.                                       *)
(***************************************************************************)
Registered == \E result \in {"success", "failure"} : DpsRegistering(result)

AppFairSpec ==
  /\ AppSpec
  /\ WF_appVars(Infra)
  /\ WF_appVars(Dps)
  /\ WF_appVars(HubRun)
  /\ WF_appVars(Callbacks)
  /\ WF_appVars(WifiAnswers)
  /\ SF_appVars(ReceiveCommand \/ ReceiveProperties)
  /\ SF_appVars(Registered)

-----------------------------------------------------------------------------
(***************************************************************************)
(* Properties                                                              *)
(***************************************************************************)
WifiLabels == {"boot", "wifi_init", "wifi_connect", "wifi_wait", "wifi_result"}

InfraLabels == WifiLabels \cup {"dns_set_servers", "sntp_init", "sntp_wait"}

DpsLabels == {"dps_setup", "dps_connect", "dps_register", "dps_registered", "dps_refused",
              "dps_get"}

HubSetupLabels ==
  {"hub_setup", "hub_connect", "mqtt_connect", "subscribe_c2d", "c2d_suback",
   "subscribe_command", "command_suback", "subscribe_properties", "properties_suback",
   "request_properties", "report_initial"}

LoopLabels == {"send_telemetry", "process_loop"}

EndLabels == {"unsubscribe_c2d", "unsubscribe_command", "unsubscribe_properties",
              "disconnect_mqtt", "disconnect_transport", "finished"}

Twins == [version : 1 .. MaxVersion, desired : Payloads, patch : Payloads]

Acknowledgements == [version : 0 .. MaxVersion, brightness : 0 .. 255, list_intact : BOOLEAN]

Answers == [id : 1 .. MaxCommands, status : {200, 404}]

(* Type invariant of the application and its surroundings.                  *)
AppTypeOK ==
  /\ WifiTypeOK
  /\ ProvisioningTypeOK
  /\ HubTypeOK
  /\ HandlerTypeOK
  /\ pc \in InfraLabels \cup DpsLabels \cup HubSetupLabels \cup LoopLabels \cup EndLabels
  /\ success \in BOOLEAN
  /\ restart_command_called \in BOOLEAN
  /\ twin \in Twins
  /\ downlink \in Seq(PropertyMessages \cup CommandMessages)
  /\ acked \in Acknowledgements
  /\ invoked \in 0 .. MaxCommands
  /\ answers \in Seq(Answers)

(* One connection at a time, and none that outlives the client it was made  *)
(* for: provisioning closes its own on every path, and the hub example      *)
(* whatever its transport has reopened meanwhile, the MQTT disconnection    *)
(* included.                                                                *)
NothingLeftOpen ==
  /\ dps_open => pc \in {"dps_register", "dps_registered", "dps_refused"}
  /\ connection # "closed" => pc \in (HubSetupLabels \ {"hub_setup", "hub_connect"})
                                        \cup LoopLabels \cup (EndLabels \ {"finished"})

(* Everything after the Wi-Fi helper runs only after an address was         *)
(* obtained, in whatever order the stores of the event task are seen.       *)
WifiTrue ==
  pc \notin WifiLabels => got_ip

(* While its session lasts, a device with no property message left to read  *)
(* displays the brightness the twin desires: no patch is lost between the   *)
(* subscription, the document and the patches that follow.                  *)
Carries(m) == m.type # "command" /\ m.payload.brightness # Absent

Synced ==
  /\ connection = "session"
  /\ component_list = "intact"
  /\ pc \in LoopLabels
  /\ callback = "none"
  /\ \A k \in DOMAIN downlink : ~Carries(downlink[k])
  /\ twin.desired.brightness \in Numbers
  => display_brightness = twin.desired.brightness % 256

(* The twin is never told that a brightness is in place that is not the one *)
(* desired by the version acknowledged, of which eight bits remain.         *)
AckTruthful ==
  /\ acked.version = twin.version
  /\ acked.list_intact
  /\ twin.patch.brightness \in Numbers
  => acked.brightness = twin.patch.brightness % 256

(* Nor is it told another brightness than the one it desires by the          *)
(* acknowledgement of a patch that has none: what is displayed is what was   *)
(* desired before, once no document or patch that has one is still to come.  *)
AckReportsDesired ==
  [][/\ ReportStateChanged
     /\ acked' # acked
     /\ pc \in LoopLabels
     /\ component_list = "intact"
     /\ \A k \in DOMAIN downlink : ~Carries(downlink[k])
     /\ twin.desired.brightness \in Numbers
     => acked'.brightness = twin.desired.brightness % 256]_appVars

(* A patch is acknowledged once at most, and never after a later one, across *)
(* restarts, lost sessions and documents asked for again: whenever an        *)
(* acknowledgement is sent, the twin has none of that version or a later.    *)
AckedInOrder == [][ReportStateChanged => acked.version < message.version]_appVars

(* A command is answered once at most, restarts and lost sessions included. *)
OneAnswer == \A j, k \in DOMAIN answers : answers[j].id = answers[k].id => j = k

(* Start-up ends, in the loop or in a new start: the wait for the Wi-Fi     *)
(* result, the registration and the waits for acknowledgements all do.  Two *)
(* places may hold it for ever: the wait for the time once the Wi-Fi is     *)
(* lost, and a property that the callback cannot get past.                  *)
SetupEnds ==
  pc \in (InfraLabels \cup DpsLabels \cup HubSetupLabels) \ {"boot"}
    ~> \/ pc \in {"boot", "send_telemetry", "unsubscribe_c2d", "disconnect_mqtt"}
       \/ pc = "sntp_wait" /\ ~NetworkUp
       \/ callback = "spinning"

(* Once "restart" has been received the program ends.                       *)
RestartEnds ==
  restart_command_called ~> pc \in {"finished", "boot"} \/ callback = "spinning"

(* On a session that lasts, the device comes to display the last brightness *)
(* desired, wherever in its set-up or loop the change met it.               *)
Converges ==
  \A n \in Numbers :
    <>[](/\ connection = "session"
         /\ pc \in LoopLabels
         /\ component_list = "intact"
         /\ callback # "spinning"
         /\ twin.desired.brightness = n)
      => <>[](display_brightness = n % 256)

-----------------------------------------------------------------------------
(***************************************************************************)
(* What comments and documentation say and the code does not do            *)
(***************************************************************************)

(* The property callback returns, whatever properties a message has.        *)
CallbackReturns == callback # "none" ~> callback = "none"

(* The loop of the example manages its connection: a session that is lost   *)
(* is there again some time, if only by a new start.                        *)
SessionRestored ==
  connection = "bare" /\ pc \in LoopLabels ~> connection = "session" \/ pc = "boot"

(* The name the hub is connected to is terminated within its buffer.        *)
HostnameTerminated == pc = "hub_connect" => hostname_length < HostnameCapacity
=============================================================================
