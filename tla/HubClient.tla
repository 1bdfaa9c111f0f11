------------------------------ MODULE HubClient -------------------------------
(***************************************************************************)
(* The hub client, azure_iot_hub.c: an MQTT session over a transport that  *)
(* replaces its connection without telling MQTT.  A connection is bare     *)
(* when the broker holds no session for it: before MQTT has connected,     *)
(* after the broker or the network dropped it unnoticed, and after the     *)
(* transport has replaced it.                                              *)
(*                                                                         *)
(* The middleware is external: each of its calls writes and reads through  *)
(* the transport, and succeeds or fails.                                   *)
(***************************************************************************)
EXTENDS Naturals

VARIABLES
  connection,   (* closed, bare or session                                  *)
  subscribed    (* topics with a callback in the client                     *)

hubVars == <<connection, subscribed>>

Topics == {"c2d", "command", "properties"}

HubLink == INSTANCE TransportCalls WITH
  open <- connection # "closed", connections <- 0, returned <- 0

HubInit ==
  /\ connection = "closed"
  /\ subscribed = {}

HubRestart ==
  /\ connection' = "closed"
  /\ subscribed' = {}

(* What the peer receives: what was written to a session that is still one.  *)
Delivered(ok) == ok /\ connection' = "session"

(* Any exchange with the hub                                                *)
Exchange(network, ok) ==
  \E is, replaced \in BOOLEAN :
    /\ HubLink!CallOutcome("write", connection # "closed", is, replaced, ok)
    /\ replaced => network
    /\ connection' = IF ~is THEN "closed" ELSE IF replaced THEN "bare" ELSE connection

(***************************************************************************)
(* azure_iot_hub_connect: the transport, then MQTT.  A failure of MQTT     *)
(* leaves the transport as it is.                                          *)
(***************************************************************************)
ConnectTransport(network, ok) ==
  /\ \E is, replaced \in BOOLEAN :
       /\ HubLink!CallOutcome("connect", connection # "closed", is, replaced, ok)
       /\ replaced => network
       /\ connection' = IF is THEN "bare" ELSE "closed"
  /\ UNCHANGED subscribed

ConnectMqtt(network, ok) ==
  /\ IF ok THEN network /\ connection' = "session"
           ELSE \E io \in BOOLEAN : Exchange(network, io)
  /\ UNCHANGED subscribed

(* azure_iot_hub_disconnect: MQTT, whatever comes of it, then the transport *)
DisconnectMqtt(network) ==
  /\ \E is, replaced, ok \in BOOLEAN :
       /\ HubLink!CallOutcome("write", connection # "closed", is, replaced, ok)
       /\ replaced => network
       /\ connection' = IF is THEN "bare" ELSE "closed"
  /\ UNCHANGED subscribed

DisconnectTransportToo ==  \* mutant: MQTT is trusted to have closed it
  UNCHANGED hubVars

DisconnectTransport ==
  /\ connection' = "closed"
  /\ UNCHANGED subscribed

(***************************************************************************)
(* azure_iot_hub_subscribe_*: the callback is registered and the           *)
(* subscription sent; then its acknowledgement is waited for, with a       *)
(* timeout.  azure_iot_hub_unsubscribe_* waits for nothing.                *)
(***************************************************************************)
Subscribe(topic, network, ok) ==
  /\ Exchange(network, ok)
  /\ subscribed' = IF ok THEN subscribed \cup {topic} ELSE subscribed

Acknowledged(network, ok) ==
  /\ IF ok THEN connection = "session" /\ UNCHANGED connection
           ELSE \E io \in BOOLEAN : Exchange(network, io)
  /\ UNCHANGED subscribed

Unsubscribe(topic, network) ==
  \E ok \in BOOLEAN :
    /\ Exchange(network, ok)
    /\ subscribed' = IF ok THEN subscribed \ {topic} ELSE subscribed

(* azure_iot_hub_send_*, azure_iot_hub_request_properties_async,            *)
(* azure_iot_hub_process_loop                                               *)
Send(network, ok) == Exchange(network, ok) /\ UNCHANGED subscribed

(* External: the broker drops the connection, or the network does, and the  *)
(* device has not noticed.                                                  *)
SessionLost ==
  /\ connection = "session"
  /\ connection' = "bare"
  /\ UNCHANGED subscribed

HubTypeOK ==
  /\ connection \in {"closed", "bare", "session"}
  /\ subscribed \subseteq Topics
=============================================================================
