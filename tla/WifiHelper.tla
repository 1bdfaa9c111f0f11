------------------------------ MODULE WifiHelper ------------------------------
(***************************************************************************)
(* main/helper/wifi_helper.c: the main task asks the driver to connect and *)
(* polls a flag; the handler of the ESP-IDF event task writes that flag    *)
(* and the result.  Nothing orders the two stores of the handler: the      *)
(* flags are plain variables shared by two tasks, so they may be seen in   *)
(* either order.                                                           *)
(*                                                                         *)
(* The driver and the access point are external.  Nobody calls             *)
(* esp_wifi_connect after a loss.                                          *)
(***************************************************************************)

VARIABLES
  wifi,                    (* the link: down, connecting or up              *)
  s_wifi_response_gotten,
  s_wifi_connected,
  stores,                  (* what the handler has yet to store             *)
  got_ip                   (* history: an address was obtained              *)

flagVars == <<s_wifi_response_gotten, s_wifi_connected>>
wifiVars == <<wifi, flagVars, stores, got_ip>>

WifiInit ==
  /\ wifi = "down"
  /\ s_wifi_response_gotten = FALSE
  /\ s_wifi_connected = FALSE
  /\ stores = {}
  /\ got_ip = FALSE

WifiRestart ==
  /\ wifi' = "down"
  /\ s_wifi_response_gotten' = FALSE
  /\ s_wifi_connected' = FALSE
  /\ stores' = {}
  /\ got_ip' = FALSE

NetworkUp == wifi = "up"

(* helper_wifi_connect up to its loop                                       *)
WifiConnectBegins ==
  /\ s_wifi_response_gotten' = FALSE
  /\ s_wifi_connected' = FALSE
  /\ wifi' = "connecting"
  /\ UNCHANGED <<stores, got_ip>>

-----------------------------------------------------------------------------
(* handle_wifi_event, one event at a time                                   *)
HandleWifiEventConnected(connected) ==  \* mutant: any event counts as a connection
  /\ stores = {}
  /\ stores' = {[flag |-> "connected", value |-> TRUE],
                [flag |-> "response_gotten", value |-> TRUE]}
  /\ UNCHANGED flagVars

HandleWifiEventSilently(connected) ==  \* mutant: a failure is not passed on
  /\ stores = {}
  /\ stores' = {[flag |-> "connected", value |-> connected],
                [flag |-> "response_gotten", value |-> connected]}
  /\ UNCHANGED flagVars

HandleWifiEvent(connected) ==
  /\ stores = {}
  /\ stores' = {[flag |-> "connected", value |-> connected],
                [flag |-> "response_gotten", value |-> TRUE]}
  /\ UNCHANGED flagVars

StoreFlag(s) ==
  /\ s \in stores
  /\ stores' = stores \ {s}
  /\ s_wifi_connected' = IF s.flag = "connected" THEN s.value ELSE s_wifi_connected
  /\ s_wifi_response_gotten' =
       IF s.flag = "response_gotten" THEN s.value ELSE s_wifi_response_gotten
  /\ UNCHANGED <<wifi, got_ip>>

(* IP_EVENT_STA_GOT_IP                                                      *)
GotIp ==
  /\ wifi = "connecting"
  /\ wifi' = "up"
  /\ got_ip' = TRUE
  /\ HandleWifiEvent(TRUE)

(* WIFI_EVENT_STA_DISCONNECTED: refused, or lost later                      *)
Disconnected ==
  /\ wifi \in {"connecting", "up"}
  /\ wifi' = "down"
  /\ HandleWifiEvent(FALSE)
  /\ UNCHANGED got_ip

WifiTypeOK ==
  /\ wifi \in {"down", "connecting", "up"}
  /\ s_wifi_response_gotten \in BOOLEAN
  /\ s_wifi_connected \in BOOLEAN
  /\ stores \subseteq [flag : {"connected", "response_gotten"}, value : BOOLEAN]
  /\ got_ip \in BOOLEAN
=============================================================================
