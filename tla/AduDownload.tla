----------------------------- MODULE AduDownload -----------------------------
(***************************************************************************)
(* azure_adu_file_parse_url and azure_adu_file_download of                 *)
(* extension/azure_iot_adu_extension.c, with what they call in             *)
(* extension/azure_iot_http_client_extension.c and azure_iot_http_client.c *)
(* and the callback of azure_iot_adu_workflow.c that writes a chunk to the *)
(* flash.  One step per call that leaves the program, so that the device   *)
(* may restart between any two of them.                                    *)
(*                                                                         *)
(* The HTTP server is external.  It may answer a request with any number   *)
(* of cells up to MaxPayload, of any of ServedContents, or fail in each of *)
(* the ways the loop tells apart.                                          *)
(***************************************************************************)
EXTENDS FlashPort

CONSTANTS
  ServedContents, (* what a cell of a response may hold                     *)
  ChunkSize,      (* cells asked for per HTTP request                       *)
  MaxPayload,     (* most cells of one HTTP response                        *)
  MaxResource     (* largest Content-Length the server announces            *)

ASSUME DownloadAssumption ==
  /\ ServedContents \subseteq Images \cup {Corrupt}
  /\ ChunkSize \in Nat
  /\ MaxPayload \in Nat \ {0}
  /\ MaxResource \in Nat

VARIABLES
  pc,             (* the call the program is about to make                  *)
  current_offset  (* azure_http_download_resource's local                   *)

downloadVars == <<pc, current_offset>>

Goto(from, to) == pc = from /\ pc' = to

ReturnsFailureStartsOver(from) ==  \* mutant: a failed update is tried again at once
  Goto(from, "send_accept")

(* Every caller up to the application's loop logs a failure and returns.    *)
ReturnsFailure(from) == Goto(from, "loop")

(* azure_http_disconnect and azure_http_free, at the end of                 *)
(* azure_adu_file_download; the early return after a failed                 *)
(* azure_http_connect does not reach it.                                    *)
DisconnectAndFree == http_contexts' = http_contexts - 1

-----------------------------------------------------------------------------
(***************************************************************************)
(* azure_adu_file_parse_url; on failure the OTA handle stays open          *)
(***************************************************************************)
ParseUrl(urlHasPath) ==
  /\ IF urlHasPath THEN Goto("parse_url", "http_connect")
                   ELSE ReturnsFailure("parse_url")
  /\ UNCHANGED <<flashVars, current_offset>>

(***************************************************************************)
(* azure_http_create and azure_http_connect.  malloc is not checked: with  *)
(* no heap left the program faults here (HeapFault of DeviceUpdate).       *)
(***************************************************************************)
HttpConnect ==
  /\ HeapAvailable
  /\ Goto("http_connect", "get_size")
  /\ http_contexts' = http_contexts + 1
  /\ UNCHANGED <<running, boot, flash, image, ota_handles, current_offset>>

HttpConnectFails ==
  /\ HeapAvailable
  /\ ReturnsFailure("http_connect")
  /\ http_contexts' = http_contexts + 1
  /\ UNCHANGED <<running, boot, flash, image, ota_handles, current_offset>>

(***************************************************************************)
(* azure_http_get_resource_size, stored in image.image_size                *)
(***************************************************************************)
GetResourceSize(size) ==
  /\ Goto("get_size", "download")
  /\ image' = [image EXCEPT !.image_size = size]
  /\ current_offset' = 0
  /\ UNCHANGED <<running, boot, flash, ota_handles, http_contexts>>

GetResourceSizeFails ==
  /\ ReturnsFailure("get_size")
  /\ DisconnectAndFree
  /\ UNCHANGED <<running, boot, flash, image, ota_handles, current_offset>>

(***************************************************************************)
(* azure_http_download_resource: one iteration of the loop                 *)
(***************************************************************************)
NextOffsetByRange(n) == current_offset + ChunkSize  \* mutant: adds what was asked for

NextOffset(n) == current_offset + n

ReceiveChunk(n, val) ==
  /\ Goto("download", "download")
  /\ current_offset < image.image_size
  /\ WriteBlockSucceeds(current_offset, n, val)
  /\ current_offset' = NextOffset(n)
  /\ UNCHANGED <<running, boot, image, ota_handles, http_contexts>>

ChunkWriteFails(n, val) ==
  /\ ReturnsFailure("download")
  /\ current_offset < image.image_size
  /\ WriteBlockFails(current_offset, n, val)
  /\ DisconnectAndFree
  /\ UNCHANGED <<running, boot, image, ota_handles, current_offset>>

(* eAzureIoTHTTPPartialResponse, NoResponse or NetworkError: disconnect and *)
(* connect again, then ask for the same range.                              *)
ConnectionLost ==
  /\ Goto("download", "reconnect")
  /\ current_offset < image.image_size
  /\ UNCHANGED <<flashVars, current_offset>>

ReconnectFromStart ==  \* mutant: the new connection starts the download over
  /\ Goto("reconnect", "download")
  /\ current_offset' = 0
  /\ UNCHANGED flashVars

Reconnect ==
  /\ Goto("reconnect", "download")
  /\ UNCHANGED <<flashVars, current_offset>>

ReconnectFails ==
  /\ ReturnsFailure("reconnect")
  /\ DisconnectAndFree
  /\ UNCHANGED <<running, boot, flash, image, ota_handles, current_offset>>

(* azure_http_init fails, or the request fails in any other way.            *)
RequestFails ==
  /\ ReturnsFailure("download")
  /\ current_offset < image.image_size
  /\ DisconnectAndFree
  /\ UNCHANGED <<running, boot, flash, image, ota_handles, current_offset>>

DownloadDone ==
  /\ Goto("download", "verify")
  /\ current_offset >= image.image_size
  /\ DisconnectAndFree
  /\ UNCHANGED <<running, boot, flash, image, ota_handles, current_offset>>

-----------------------------------------------------------------------------
FileDownload ==
  \/ HttpConnect
  \/ HttpConnectFails
  \/ \E size \in 0 .. MaxResource : GetResourceSize(size)
  \/ GetResourceSizeFails
  \/ \E n \in 0 .. MaxPayload, val \in ServedContents :
       ReceiveChunk(n, val) \/ ChunkWriteFails(n, val)
  \/ ConnectionLost
  \/ Reconnect
  \/ ReconnectFails
  \/ RequestFails
  \/ DownloadDone

DownloadInit == pc = "init" /\ current_offset = 0
=============================================================================
