----------------------------- MODULE Provisioning -----------------------------
(***************************************************************************)
(* The provisioning client, azure_iot_provisioning.c: registration over a  *)
(* transport of its own, repeated while the service answers that it is     *)
(* still pending, and what it says of the hub.  The middleware's client is *)
(* external: AzureIoTProvisioningClient_Register makes any number of       *)
(* transport calls.                                                        *)
(***************************************************************************)
EXTENDS Naturals

CONSTANTS
  HostnameLengths,   (* lengths of the hub names the service assigns        *)
  HostnameCapacity   (* AZURE_CONST_HOSTNAME_MAX_LENGTH, app_main's buffer  *)

ASSUME ProvisioningAssumption ==
  /\ HostnameLengths \subseteq Nat
  /\ HostnameCapacity \in Nat

VARIABLES
  dps_open,         (* the client's transport has a connection              *)
  hostname_length   (* of the hub's name in app_main's buffer, 0 before     *)

dpsVars == <<dps_open, hostname_length>>

DpsLink == INSTANCE TransportCalls WITH
  open <- dps_open, connections <- 0, returned <- 0

ProvisioningInit ==
  /\ dps_open = FALSE
  /\ hostname_length = 0

ProvisioningRestart ==
  /\ dps_open' = FALSE
  /\ hostname_length' = 0

(* A call of the client's transport; no connection is made without a network *)
DpsTransport(op, network, ok) ==
  \E is, replaced \in BOOLEAN :
    /\ DpsLink!CallOutcome(op, dps_open, is, replaced, ok)
    /\ replaced => network
    /\ dps_open' = is

(* azure_dps_register, its transport_connect                                *)
DpsConnect(network, ok) ==
  /\ DpsTransport("connect", network, ok)
  /\ UNCHANGED hostname_length

(* One turn of its loop.  An answer, pending or final, needs a connection.  *)
DpsRegister(network, result) ==
  /\ \E ok \in BOOLEAN :
       /\ DpsTransport("write", network, ok)
       /\ result \in {"success", "pending"} => ok /\ network
  /\ UNCHANGED hostname_length

DpsDisconnect ==
  /\ dps_open' = FALSE
  /\ UNCHANGED hostname_length

(* azure_dps_get_device_and_hub: what fits in the buffer is copied          *)
GetDeviceAndHub(length) ==
  /\ length <= HostnameCapacity
  /\ hostname_length' = length
  /\ UNCHANGED dps_open

ProvisioningTypeOK ==
  /\ dps_open \in BOOLEAN
  /\ hostname_length \in HostnameLengths \cup {0}
=============================================================================
