----------------------------- MODULE AduWorkflow -----------------------------
(***************************************************************************)
(* The Device Update workflow, azure_iot_adu_workflow.c: it decides on the *)
(* update requests the service sends, and accepting one downloads,         *)
(* verifies and enables its image.                                         *)
(*                                                                         *)
(* A request is reduced to what the workflow tells apart: the action, the  *)
(* image its manifest describes and the size written there, and whether    *)
(* the JSON parses, the manifest authenticates, the file url has a path    *)
(* and the hash decodes.                                                   *)
(***************************************************************************)
EXTENDS AduDownload

CONSTANTS
  Requests,         (* the update requests the service may send             *)
  NoRequest,        (* a zeroed AzureIoTADUUpdateRequest_t                  *)
  DownloadBuffers   (* buffer lengths the application passes, 0 if null     *)

(* The manifest's llSizeInBytes is signed; one cell more than a partition   *)
(* stands for every image that does not fit.                                *)
ManifestSizes == -1 .. PartitionSize + 1

ASSUME WorkflowAssumption ==
  /\ Requests \subseteq [action : {"ApplyDownload", "Cancel"}, image : Images,
                         size : ManifestSizes, parses : BOOLEAN,
                         authentic : BOOLEAN, url_has_path : BOOLEAN,
                         hash_decodes : BOOLEAN]
  /\ NoRequest \notin Requests
  /\ DownloadBuffers \subseteq Nat

VARIABLES
  update_request,    (* azure_adu_workflow_t.update_request                 *)
  has_update,        (* azure_adu_workflow_t.has_update                     *)
  property_version,  (* azure_adu_workflow_t.property_version               *)
  responses,         (* history: every azure_adu_send_response made         *)
  reported           (* the agent state last sent with success              *)

workflowVars == <<update_request, has_update, property_version>>
sentVars     == <<responses, reported>>

(* Headers of the HTTP response, in cells (1024 bytes in the code).         *)
DOWNLOAD_BUFFER_EXTRA_BYTES == 1

(* The update id in the device properties is compiled into the image.       *)
RunningImage == ImageOf(flash[running])

-----------------------------------------------------------------------------
(***************************************************************************)
(* azure_adu_send_response and azure_adu_send_agent_state, with their      *)
(* result ok                                                               *)
(***************************************************************************)
SendResponse(decision, version, ok) ==
  responses' = responses \cup
                 {[decision |-> decision, version |-> version, ok |-> ok]}

SendAgentState(state, ok) ==
  reported' = IF ok THEN [state |-> state, image |-> RunningImage] ELSE reported

(***************************************************************************)
(* azure_adu_workflow_validate_installation_pre_requisites                 *)
(***************************************************************************)
ValidatePreRequisites(r) ==
  /\ ~(r.size < 0)
  /\ ~(GetSingleFlashBootBankSize < r.size)

(***************************************************************************)
(* azure_adu_workflow_cancel_update and azure_adu_workflow_reject_update.  *)
(* The results of the two sends change nothing but what the service knows. *)
(***************************************************************************)
CancelUpdatePending ==  \* mutant: reports Idle but keeps the update pending
  /\ UNCHANGED has_update
  /\ \E ok \in BOOLEAN : SendAgentState("Idle", ok)

CancelUpdate ==
  /\ has_update' = FALSE
  /\ \E ok \in BOOLEAN : SendAgentState("Idle", ok)

RejectUpdate(version) ==
  IF has_update
    THEN /\ \E ok \in BOOLEAN : SendResponse("Reject", version, ok)
         /\ CancelUpdate
    ELSE UNCHANGED <<has_update, responses, reported>>

(***************************************************************************)
(* azure_adu_workflow_process_update_request, called from the property     *)
(* callback.  A parse that fails may have overwritten the request or not.  *)
(***************************************************************************)
ParseFails(r) ==
  /\ ~r.parses
  /\ update_request' \in {update_request, r}
  /\ UNCHANGED <<has_update, sentVars>>

AuthenticationFailsKept(r) ==  \* mutant: the version counts, the request is kept
  /\ r.parses /\ r.action = "ApplyDownload" /\ ~r.authentic
  /\ UNCHANGED <<update_request, has_update, sentVars>>

AuthenticationFails(r) ==
  /\ r.parses /\ r.action = "ApplyDownload" /\ ~r.authentic
  /\ update_request' = r
  /\ UNCHANGED <<has_update, sentVars>>

Approve(r) ==
  /\ r.parses /\ r.action = "ApplyDownload" /\ r.authentic
  /\ ValidatePreRequisites(r)
  /\ update_request' = r
  /\ has_update' = TRUE
  /\ UNCHANGED sentVars

RejectByPreRequisites(r, version) ==
  /\ r.parses /\ r.action = "ApplyDownload" /\ r.authentic
  /\ ~ValidatePreRequisites(r)
  /\ update_request' = r
  /\ RejectUpdate(version)

CancelRequested(r) ==
  /\ r.parses /\ r.action # "ApplyDownload"
  /\ update_request' = r
  /\ CancelUpdate
  /\ UNCHANGED responses

ProcessUpdateRequest(r, version) ==
  /\ property_version' = version
  /\ \/ ParseFails(r)
     \/ AuthenticationFails(r)
     \/ Approve(r)
     \/ RejectByPreRequisites(r, version)
     \/ CancelRequested(r)

(***************************************************************************)
(* azure_adu_workflow_accept_update.  A call without an update, without a  *)
(* buffer or with too small a one returns and changes nothing.             *)
(***************************************************************************)
AcceptUpdateOnce(download_buffer) ==  \* mutant: has_update is cleared up front
  /\ has_update
  /\ download_buffer # 0
  /\ download_buffer >= ChunkSize + DOWNLOAD_BUFFER_EXTRA_BYTES
  /\ Goto("loop", "send_accept")
  /\ has_update' = FALSE
  /\ UNCHANGED <<flashVars, current_offset, update_request, property_version, sentVars>>

AcceptUpdate(download_buffer) ==
  /\ has_update
  /\ download_buffer # 0
  /\ download_buffer >= ChunkSize + DOWNLOAD_BUFFER_EXTRA_BYTES
  /\ Goto("loop", "send_accept")
  /\ UNCHANGED <<flashVars, current_offset, workflowVars, sentVars>>

SendAccept(ok) ==
  /\ IF ok THEN Goto("send_accept", "send_in_progress")
           ELSE ReturnsFailure("send_accept")
  /\ SendResponse("Accept", property_version, ok)
  /\ UNCHANGED <<flashVars, current_offset, workflowVars, reported>>

SendInProgress(ok) ==
  /\ IF ok THEN Goto("send_in_progress", "platform_init")
           ELSE ReturnsFailure("send_in_progress")
  /\ SendAgentState("DeploymentInProgress", ok)
  /\ UNCHANGED <<flashVars, current_offset, workflowVars, responses>>

(***************************************************************************)
(* azure_adu_workflow_download_and_enable_image, but for the calls that    *)
(* AduDownload models; enabling the image ends the update in the same step *)
(***************************************************************************)
BeginImage ==
  /\ \/ Goto("platform_init", "parse_url")  /\ PlatformInitSucceeds
     \/ ReturnsFailure("platform_init")     /\ PlatformInitFails
  /\ UNCHANGED <<current_offset, workflowVars, sentVars>>

ParseRequestUrl ==
  /\ pc = "parse_url"
  /\ ParseUrl(update_request.url_has_path)
  /\ UNCHANGED <<workflowVars, sentVars>>

DownloadImage == FileDownload /\ UNCHANGED <<workflowVars, sentVars>>

VerifyImage ==
  /\ \/ /\ Goto("verify", "enable")
        /\ VerifyImageSucceeds(update_request.image, update_request.hash_decodes)
     \/ ReturnsFailure("verify") /\ VerifyImageFails
  /\ UNCHANGED <<current_offset, workflowVars, sentVars>>

EnableImage ==
  /\ \/ /\ Goto("enable", "send_results")
        /\ EnableImageSucceeds
        /\ has_update' = FALSE
     \/ /\ ReturnsFailure("enable")
        /\ EnableImageFails
        /\ UNCHANGED has_update
  /\ UNCHANGED <<current_offset, update_request, property_version, sentVars>>

(***************************************************************************)
(* azure_adu_workflow_send_update_results: still DeploymentInProgress, now *)
(* with result code 200.  Whether it could be sent does not matter.        *)
(***************************************************************************)
SendUpdateResultsIdle(ok) ==  \* mutant: reports Idle as soon as the image is enabled
  /\ Goto("send_results", "accepted")
  /\ SendAgentState("Idle", ok)
  /\ UNCHANGED <<flashVars, current_offset, workflowVars, responses>>

SendUpdateResults(ok) ==
  /\ Goto("send_results", "accepted")
  /\ SendAgentState("DeploymentInProgress200", ok)
  /\ UNCHANGED <<flashVars, current_offset, workflowVars, responses>>

-----------------------------------------------------------------------------
AcceptSteps ==
  \/ \E ok \in BOOLEAN : SendAccept(ok) \/ SendInProgress(ok) \/ SendUpdateResults(ok)
  \/ BeginImage
  \/ ParseRequestUrl
  \/ DownloadImage
  \/ VerifyImage
  \/ EnableImage

WorkflowInit ==
  /\ update_request = NoRequest
  /\ has_update = FALSE
  /\ property_version = 0
  /\ responses = {}
  /\ reported = [state |-> "None", image |-> FactoryImage]
=============================================================================
