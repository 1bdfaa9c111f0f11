---------------------------- MODULE PropertyHandler ---------------------------
(***************************************************************************)
(* The property callback of example_iot_hub.c: device_change_state reads   *)
(* the desired properties of a message one by one, and a patch is then     *)
(* acknowledged by device_report_state_changed.                            *)
(*                                                                         *)
(* A payload is what the loop tells apart: the display's brightness, a     *)
(* number, something else or absent, and properties of other kinds.  JSON  *)
(* orders them as it likes.                                                *)
(*                                                                         *)
(* The component list given to the client is a compound literal of         *)
(* example_iot_hub_setup, whose storage ends with it: once it has          *)
(* returned, what the list's memory holds is undefined.  Components are    *)
(* recognised while it is intact; overwritten, they pass for root          *)
(* properties.                                                             *)
(***************************************************************************)
EXTENDS Integers

CONSTANTS
  Numbers,     (* 32-bit numbers the service sends as a brightness          *)
  NotNumber,   (* any other value                                           *)
  Absent,      (* no brightness in the payload                              *)
  MaxVersion   (* bound: changes of the twin                                *)

ASSUME PropertyAssumption ==
  /\ Numbers \subseteq Int
  /\ NotNumber \notin Int
  /\ Absent \notin Int
  /\ NotNumber # Absent
  /\ MaxVersion \in Nat \ {0}

VARIABLES
  display_brightness,
  component_list,   (* unset, intact or overwritten                         *)
  callback,         (* none, change_state, report_state or spinning         *)
  message,          (* the type and version of the message handled          *)
  brightness,       (* its brightness                                       *)
  reader            (* its properties yet to be read                        *)

messageVars == <<message, brightness>>
handlerVars == <<display_brightness, component_list, callback, messageVars, reader>>

OtherProperties == {"root", "thermostat", "unknown_display"}

Payloads == [brightness : Numbers \cup {NotNumber, Absent}, others : SUBSET OtherProperties]

PropertyMessages == [type : {"document", "patch"}, version : 0 .. MaxVersion, payload : Payloads]

PropertiesOf(payload) ==
  payload.others \cup IF payload.brightness = Absent THEN {} ELSE {"brightness"}

GetTokenUInt8Wide(value) == value  \* mutant: the cast is missing

(* AzureIoTJSONReader_GetTokenUInt8                                         *)
GetTokenUInt8(value) == value % 256

HandlerInit ==
  /\ display_brightness = 50
  /\ component_list = "unset"
  /\ callback = "none"
  /\ message = [type |-> "none", version |-> 0]
  /\ brightness = Absent
  /\ reader = {}

HandlerRestart ==
  /\ display_brightness' = 50
  /\ component_list' = "unset"
  /\ callback' = "none"
  /\ message' = [type |-> "none", version |-> 0]
  /\ brightness' = Absent
  /\ reader' = {}

-----------------------------------------------------------------------------
(* callback_cloud_properties_subscription, device_change_state up to its    *)
(* loop.  A message whose version is not found is not read, which counts as *)
(* a success, and its version stays zero.                                   *)
PropertiesReceivedUnread(m) ==  \* mutant: acknowledged before it is read
  /\ callback = "none"
  /\ callback' = IF m.type = "patch" THEN "report_state" ELSE "change_state"
  /\ message' = [type |-> m.type, version |-> m.version]
  /\ brightness' = m.payload.brightness
  /\ reader' = IF m.version = 0 THEN {} ELSE PropertiesOf(m.payload)
  /\ UNCHANGED <<display_brightness, component_list>>

PropertiesReceived(m) ==
  /\ callback = "none"
  /\ callback' = "change_state"
  /\ message' = [type |-> m.type, version |-> m.version]
  /\ brightness' = m.payload.brightness
  /\ reader' = IF m.version = 0 THEN {} ELSE PropertiesOf(m.payload)
  /\ UNCHANGED <<display_brightness, component_list>>

(* A turn of the loop: a root property or a component that is not the       *)
(* display                                                                  *)
SkipPropertyAndRest(p) ==  \* mutant: a return in the place of the continue
  /\ p \in {"root", "thermostat"} \/ component_list # "intact"
  /\ reader' = {}
  /\ UNCHANGED <<callback, display_brightness>>

SkipProperty(p) ==
  /\ p \in {"root", "thermostat"} \/ component_list # "intact"
  /\ reader' = reader \ {p}
  /\ UNCHANGED <<callback, display_brightness>>

(* The display's brightness; a value that is no number ends the callback.   *)
ReadBrightness(p) ==
  /\ p = "brightness" /\ component_list = "intact"
  /\ IF brightness = NotNumber
       THEN /\ callback' = "none"
            /\ reader' = {}
            /\ UNCHANGED display_brightness
       ELSE /\ display_brightness' = GetTokenUInt8(brightness)
            /\ reader' = reader \ {p}
            /\ UNCHANGED callback

(* Any other property of the display: nothing moves the reader, so every    *)
(* later turn finds it again.                                               *)
SpinOnProperty(p) ==
  /\ p = "unknown_display" /\ component_list = "intact"
  /\ callback' = "spinning"
  /\ UNCHANGED <<reader, display_brightness>>

ReadProperty ==
  /\ callback = "change_state"
  /\ \E p \in reader : SkipProperty(p) \/ ReadBrightness(p) \/ SpinOnProperty(p)
  /\ UNCHANGED <<component_list, messageVars>>

(* The loop is done: a patch is acknowledged, a document is not.            *)
AllPropertiesReadOfAny ==  \* mutant: the type of the message is not looked at
  /\ callback = "change_state"
  /\ reader = {}
  /\ callback' = "report_state"
  /\ UNCHANGED <<display_brightness, component_list, messageVars, reader>>

AllPropertiesRead ==
  /\ callback = "change_state"
  /\ reader = {}
  /\ callback' = IF message.type = "patch" THEN "report_state" ELSE "none"
  /\ UNCHANGED <<display_brightness, component_list, messageVars, reader>>

(* device_report_state_changed has sent, or failed to send                  *)
StateChangedReported ==
  /\ callback = "report_state"
  /\ callback' = "none"
  /\ UNCHANGED <<display_brightness, component_list, messageVars, reader>>

(* The memory of the component list is used for something else.             *)
OverwriteList ==
  /\ component_list = "intact"
  /\ component_list' = "overwritten"
  /\ UNCHANGED <<display_brightness, callback, messageVars, reader>>

HandlerTypeOK ==
  /\ display_brightness \in 0 .. 255
  /\ component_list \in {"unset", "intact", "overwritten"}
  /\ callback \in {"none", "change_state", "report_state", "spinning"}
  /\ message \in [type : {"none", "document", "patch"}, version : 0 .. MaxVersion]
  /\ brightness \in Numbers \cup {NotNumber, Absent}
  /\ reader \subseteq OtherProperties \cup {"brightness"}
=============================================================================
