----------------------------- MODULE DeviceUpdate ----------------------------
(***************************************************************************)
(* A device with the update workflow, the application that drives it       *)
(* (main/examples/adu/example_adu.c) and the service that requests         *)
(* updates.  The device may lose power between any two calls.              *)
(*                                                                         *)
(* ResetAfterUpdate distinguishes the two applications of interest: TRUE   *)
(* is one that calls azure_adu_workflow_reset_device after a successful    *)
(* update, as azure_iot_adu_workflow.h asks; FALSE is example_adu.c, which *)
(* never does and goes on with its loop.                                   *)
(***************************************************************************)
EXTENDS AduWorkflow, Sequences

CONSTANTS
  ResetAfterUpdate,  (* whether the application resets the device           *)
  MayReject,         (* whether it ever calls ..._reject_update             *)
  PatchesMayBeLost,  (* whether a property patch may miss the device        *)
  MaxVersion,        (* bound: requests the service makes                   *)
  MaxCrashes         (* bound: power losses                                 *)

ASSUME DeviceAssumption ==
  /\ ResetAfterUpdate \in BOOLEAN
  /\ MayReject \in BOOLEAN
  /\ PatchesMayBeLost \in BOOLEAN
  /\ MaxVersion \in Nat
  /\ MaxCrashes \in Nat

VARIABLES
  desired,   (* the twin's desired ADU property: [request, version]         *)
  inbox,     (* property messages under way to the device, in order         *)
  crashes    (* power losses so far                                         *)

cloudVars == <<desired, inbox>>
vars == <<flashVars, downloadVars, workflowVars, sentVars, cloudVars, crashes>>

deviceVars == <<flashVars, downloadVars, workflowVars, sentVars>>

-----------------------------------------------------------------------------
(***************************************************************************)
(* The service writes a new desired request; its patch reaches the device  *)
(* if it is connected and nothing is lost on the way.                      *)
(***************************************************************************)
CloudRequests(r) ==
  /\ desired.version < MaxVersion
  /\ desired' = [request |-> r, version |-> desired.version + 1]
  /\ \/ pc # "init" /\ inbox' = Append(inbox, desired')
     \/ (pc = "init" \/ PatchesMayBeLost) /\ UNCHANGED inbox
  /\ UNCHANGED <<deviceVars, crashes>>

(***************************************************************************)
(* example_adu_setup: connect, subscribe, azure_adu_workflow_init, then    *)
(* request the properties, whose answer carries the desired request.  A    *)
(* failure makes app_main abort, which is a restart like any other.        *)
(***************************************************************************)
Setup ==
  /\ Goto("init", "loop")
  /\ SendAgentState("Idle", TRUE)
  /\ inbox' = IF desired.version = 0 THEN <<>> ELSE <<desired>>
  /\ UNCHANGED <<flashVars, current_offset, workflowVars, responses, desired, crashes>>

(***************************************************************************)
(* The loop of example_adu_run.  azure_iot_hub_process_loop hands over any *)
(* number of messages before has_update is looked at.                      *)
(***************************************************************************)
ProcessLoop ==
  /\ pc = "loop"
  /\ inbox # <<>>
  /\ ProcessUpdateRequest(Head(inbox).request, Head(inbox).version)
  /\ inbox' = Tail(inbox)
  /\ UNCHANGED <<flashVars, downloadVars, desired, crashes>>

StartUpdate ==
  /\ \E download_buffer \in DownloadBuffers : AcceptUpdate(download_buffer)
  /\ UNCHANGED <<cloudVars, crashes>>

DecideAgainst ==
  /\ MayReject
  /\ pc = "loop"
  /\ has_update
  /\ RejectUpdate(property_version)
  /\ UNCHANGED <<flashVars, downloadVars, update_request, property_version,
                 cloudVars, crashes>>

ContinueUpdate == AcceptSteps /\ UNCHANGED <<cloudVars, crashes>>

(***************************************************************************)
(* A restart: the bootloader picks a partition and the program starts      *)
(* over; what the service knows stays.                                     *)
(***************************************************************************)
Restart(f) ==
  /\ RestartFrom(f)
  /\ pc' = "init"
  /\ current_offset' = 0
  /\ update_request' = NoRequest
  /\ has_update' = FALSE
  /\ property_version' = 0
  /\ inbox' = <<>>
  /\ UNCHANGED <<sentVars, desired>>

(* azure_adu_workflow_reset_device                                          *)
ResetDevice ==
  /\ ResetAfterUpdate
  /\ pc = "accepted"
  /\ Restart(flash)
  /\ UNCHANGED crashes

ContinueLoopAnyway ==  \* mutant: the application does not wait for the reset
  /\ Goto("accepted", "loop")
  /\ UNCHANGED <<flashVars, current_offset, workflowVars, sentVars, cloudVars, crashes>>

ContinueLoop ==
  /\ ~ResetAfterUpdate
  /\ Goto("accepted", "loop")
  /\ UNCHANGED <<flashVars, current_offset, workflowVars, sentVars, cloudVars, crashes>>

(* azure_http_create writes through the null pointer of a failed malloc.    *)
HeapFault ==
  /\ pc = "http_connect"
  /\ ~HeapAvailable
  /\ Restart(flash)
  /\ UNCHANGED crashes

(* Power is lost before the next call, or half-way through the erase that   *)
(* esp_ota_begin makes.                                                     *)
PowerLoss ==
  /\ crashes < MaxCrashes
  /\ crashes' = crashes + 1
  /\ \E n \in IF pc = "platform_init" /\ UpdatePartition # running
                THEN 0 .. PartitionSize ELSE {0} :
       Restart([flash EXCEPT ![UpdatePartition] = EraseCells(@, n)])

-----------------------------------------------------------------------------
Init ==
  /\ FlashInit
  /\ DownloadInit
  /\ WorkflowInit
  /\ desired = [request |-> NoRequest, version |-> 0]
  /\ inbox = <<>>
  /\ crashes = 0

Next ==
  \/ \E r \in Requests : CloudRequests(r)
  \/ Setup
  \/ ProcessLoop
  \/ StartUpdate
  \/ DecideAgainst
  \/ ContinueUpdate
  \/ ResetDevice
  \/ ContinueLoop
  \/ HeapFault
  \/ PowerLoss

Spec == Init /\ [][Next]_vars

-----------------------------------------------------------------------------
(***************************************************************************)
(* Fairness.  The program runs: a call that can be made is made and        *)
(* returns with one outcome or another.  Power losses and requests of the  *)
(* service need not happen.                                                *)
(***************************************************************************)
ProgramRuns ==
  /\ WF_vars(Setup)
  /\ WF_vars(ProcessLoop)
  /\ WF_vars(StartUpdate)
  /\ WF_vars(ContinueUpdate)
  /\ WF_vars(ResetDevice)
  /\ WF_vars(ContinueLoop)
  /\ WF_vars(HeapFault)

(***************************************************************************)
(* A request for a range of the image that is made again and again is      *)
(* answered in the end: with at least one cell, or with an error that ends *)
(* the download.  The loop of azure_http_download_resource has no limit of *)
(* its own.                                                                *)
(***************************************************************************)
ChunkAnswered(offset) ==
  /\ pc = "download"
  /\ current_offset = offset
  /\ ContinueUpdate
  /\ pc' # "reconnect"
  /\ pc' = "download" => current_offset' > offset

RequestsAnswered ==
  \A offset \in 0 .. PartitionSize : SF_vars(ChunkAnswered(offset))

(***************************************************************************)
(* From some time on no call fails that could have succeeded: nothing is   *)
(* lost on the network, the server serves the image requested, and the     *)
(* flash works.  A failure that follows from the state of the device (no   *)
(* heap left, a url without a path, an image already wrong) may still      *)
(* happen.                                                                 *)
(***************************************************************************)
ImageGoodSoFar ==
  /\ image.image_size = ImageSize[update_request.image]
  /\ \A k \in Cells :
       k < current_offset => flash[image.partition][k] = update_request.image

AvoidableFailure ==
  \/ /\ pc \in {"send_accept", "send_in_progress", "http_connect", "reconnect", "enable"}
     /\ pc' = "loop"
  \/ pc = "platform_init" /\ HeapAvailable /\ pc' = "loop"
  \/ pc = "get_size" /\ ~(pc' = "download" /\ ImageGoodSoFar')
  \/ pc = "download" /\ pc' = "reconnect"
  \/ pc = "download" /\ pc' = "download" /\ current_offset' = current_offset
  \/ pc = "download" /\ ImageGoodSoFar /\ (pc' = "loop" \/ ~ImageGoodSoFar')
  \/ pc = "verify" /\ ImageGoodSoFar /\ pc' = "loop"

FailuresStop == <>[][~(ContinueUpdate /\ AvoidableFailure)]_vars

FairSpec == Spec /\ ProgramRuns

-----------------------------------------------------------------------------
(***************************************************************************)
(* Properties                                                              *)
(***************************************************************************)
Labels == {"init", "loop", "send_accept", "send_in_progress", "platform_init",
           "parse_url", "http_connect", "get_size", "download", "reconnect",
           "verify", "enable", "send_results", "accepted"}

DesiredRequests == [request : Requests, version : 1 .. MaxVersion]

Responses == [decision : {"Accept", "Reject"}, version : 0 .. MaxVersion, ok : BOOLEAN]

AgentStates == {"None", "Idle", "DeploymentInProgress", "DeploymentInProgress200"}

(* Type invariant of the whole device.                                      *)
TypeOK ==
  /\ FlashTypeOK
  /\ pc \in Labels
  /\ current_offset \in Nat
  /\ update_request \in Requests \cup {NoRequest}
  /\ has_update \in BOOLEAN
  /\ property_version \in 0 .. MaxVersion
  /\ responses \subseteq Responses
  /\ reported \in [state : AgentStates, image : Images]
  /\ \/ desired \in DesiredRequests
     \/ desired = [request |-> NoRequest, version |-> 0]
  /\ inbox \in Seq(DesiredRequests)
  /\ crashes \in 0 .. MaxCrashes

(* The partition the program runs from always holds a whole image: no       *)
(* update, failed, interrupted or repeated, writes to it.                   *)
RunningIntact == Bootable(flash[running])

(* Whenever the device restarts, the partition the OTA data selects holds   *)
(* a whole image, so that the bootloader never has to fall back.            *)
BootIntact == Bootable(flash[boot])

(* While an image is downloaded, exactly the cells below the offset are     *)
(* programmed: no response, repeated request or reconnection leaves a gap   *)
(* or programs a cell twice.                                                *)
ContiguousDownload ==
  pc \in {"download", "reconnect", "verify"} =>
    \A k \in Cells : (k < current_offset) <=> flash[image.partition][k] # Erased

(* The boot partition only ever changes to one that holds the image of the  *)
(* request being processed, after that request was accepted and the         *)
(* service told that its deployment is in progress.                         *)
InstallsRequestedImage ==
  [][boot' # boot =>
       /\ Holds(flash'[boot'], update_request.image)
       /\ [decision |-> "Accept", version |-> property_version, ok |-> TRUE] \in responses
       /\ reported.state = "DeploymentInProgress"]_vars

(* The version under which the service is told of an installation is that   *)
(* of the request installed: an image enabled while the latest request's    *)
(* version is the one that was accepted is the image of that request, not   *)
(* of an earlier one it came over.  A request that cannot be read is the    *)
(* exception: it leaves its version with the request it did not replace.    *)
AcceptedVersionInstalled ==
  [][boot' # boot /\ property_version = desired.version /\ desired.request.parses
       => Holds(flash'[boot'], desired.request.image)]_vars

(* A request that the service cancelled, or that the prerequisites refused, *)
(* is never installed, whatever was pending when it came: of the messages   *)
(* that replace a pending request only those that cannot be read as a       *)
(* request, or do not authenticate, leave it pending.                       *)
Refused(r) ==
  /\ r.parses
  /\ \/ r.action # "ApplyDownload"
     \/ r.authentic /\ ~ValidatePreRequisites(r)

RefusedNotInstalled == [][boot' # boot => ~Refused(update_request)]_vars

(* From the enabling of an image to the restart into it the service is told *)
(* no agent state that would fail the deployment: only its results.         *)
NoStateBeforeRestart ==
  [][boot # running => reported' = reported \/ reported'.state = "DeploymentInProgress200"]_vars

(* Every call of azure_adu_workflow_accept_update returns to the            *)
(* application (or the device restarts), if ranges asked for again and      *)
(* again are answered in the end.                                           *)
AcceptReturns ==
  RequestsAnswered => (pc \notin {"init", "loop"} ~> pc \in {"init", "loop"})

(* What is left of a call of azure_adu_workflow_accept_update: the calls it *)
(* has yet to make and the cells it has yet to ask for.  Nothing it does    *)
(* starts the download, or the update, over: every step leaves less, but    *)
(* for a range asked for once more.  AcceptReturns rests on that.           *)
Stage ==
  [send_accept |-> 10, send_in_progress |-> 9, platform_init |-> 8, parse_url |-> 7,
   http_connect |-> 6, get_size |-> 5, download |-> 4, reconnect |-> 4, verify |-> 3,
   enable |-> 2, send_results |-> 1, accepted |-> 0, loop |-> 0, init |-> 0]

UpdateRemaining ==
  IF Stage[pc] > 4 THEN Stage[pc] + PartitionSize
  ELSE IF Stage[pc] = 4 THEN Stage[pc] + PartitionSize - current_offset
  ELSE Stage[pc]

AsksAgain ==
  /\ pc \in {"download", "reconnect"} /\ pc' \in {"download", "reconnect"}
  /\ UNCHANGED current_offset

UpdateShortens ==
  [][ContinueUpdate /\ ~AsksAgain => UpdateRemaining' \in 0 .. UpdateRemaining - 1]_vars

(* The last request the service makes, if its update is a good one, ends    *)
(* with the device running its image once failures stop, whatever requests, *)
(* failures and power losses came before; only handles and contexts leaked  *)
(* by earlier attempts, when they fill the heap, can prevent it.            *)
Vetted(r) ==
  /\ r.parses /\ r.action = "ApplyDownload" /\ r.authentic
  /\ ValidatePreRequisites(r)

Installable(r) ==
  Vetted(r) /\ r.url_has_path /\ r.hash_decodes /\ r.image \in ServedContents

UpdateRuns ==
  FailuresStop =>
    \A r \in {q \in Requests : Installable(q)} :
      desired = [request |-> r, version |-> MaxVersion]
        ~> \/ RunningImage = r.image
           \/ pc = "loop" /\ ~HeapAvailable

(* The device implements the abstract update: what runs and what will run   *)
(* after a restart are whole images that change in two atomic steps.        *)
Atomic == INSTANCE AtomicUpdate WITH
  installed <- RunningImage,
  enabled   <- ImageOf(flash[boot])

AtomicSpec == Atomic!Spec

(* And once failures stop an image that is enabled also comes to run.       *)
EnabledRuns == FailuresStop => Atomic!RestartComes

-----------------------------------------------------------------------------
(***************************************************************************)
(* What comments and documentation say and the code does not do            *)
(***************************************************************************)

(* Once an image is enabled, the next restart runs it.                      *)
RestartRunsEnabled == [][pc' = "init" /\ pc # "init" => running' = boot]_vars

(* Only a request that was vetted, its manifest authenticated and its       *)
(* prerequisites checked, is ever accepted and installed.                   *)
InstallsVettedRequest == [][boot' # boot => Vetted(update_request)]_vars

(* No HTTP context outlives the download it was created for.                *)
HttpContextReleased == pc = "loop" => http_contexts = 0
=============================================================================
