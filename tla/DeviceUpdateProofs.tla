-------------------------- MODULE DeviceUpdateProofs -------------------------
(***************************************************************************)
(* Proofs about DeviceUpdate, for every number of OTA slots, partition     *)
(* size, set of images and requests, heap and bound.                       *)
(***************************************************************************)
EXTENDS DeviceUpdate, SequenceTheorems, TLAPS

(* The calls made while an OTA handle, and while an HTTP context, is held.  *)
OtaLabels  == {"parse_url", "http_connect", "get_size", "download", "reconnect", "verify"}
HttpLabels == {"get_size", "download", "reconnect"}

(* The calls made while an enabled image waits for the reset.               *)
WaitingLabels == {"send_results", "accepted"}

HandlesHeld ==
  /\ pc \in OtaLabels  => ota_handles > 0
  /\ pc \in HttpLabels => http_contexts > 0

(* The update partition of an update under way is never the running one.    *)
WritesElsewhere ==
  pc \in OtaLabels \cup WaitingLabels \cup {"enable"} =>
    image.partition # running

(* Where the cells of the update partition stand before and during a        *)
(* download.                                                                *)
ErasedBefore ==
  pc \in {"parse_url", "http_connect", "get_size"} =>
    \A k \in Cells : flash[image.partition][k] = Erased

(* The application that resets: another partition than the running one is   *)
(* only selected between the enabling of an image and the reset.            *)
BootFollows ==
  ResetAfterUpdate =>
    IF pc \in WaitingLabels
      THEN boot = image.partition /\ Bootable(flash[boot])
      ELSE boot = running

(* What has been told to the service, and what has been verified, before    *)
(* the boot partition changes.                                              *)
AcceptSent ==
  [decision |-> "Accept", version |-> property_version, ok |-> TRUE] \in responses

ReportedBefore ==
  /\ pc \in OtaLabels \cup {"send_in_progress", "platform_init", "enable"} => AcceptSent
  /\ pc \in OtaLabels \cup {"platform_init", "enable"} =>
       reported.state = "DeploymentInProgress"
  /\ pc = "enable" => Holds(flash[image.partition], update_request.image)

SafeInv == TypeOK /\ RunningIntact /\ HandlesHeld /\ WritesElsewhere

-----------------------------------------------------------------------------
(***************************************************************************)
(* Lemmas about the contents of a partition                                *)
(***************************************************************************)

(* Erasing, wholly or in part, and writing leave contents of a partition.   *)
LEMMA ErasedContents ==
  ASSUME NEW c \in Contents, NEW n \in Int
  PROVE  EraseCells(c, n) \in Contents
  BY DEF Contents, Cells, EraseCells

(* Programming cells leaves contents of a partition.                        *)
LEMMA WrittenContents ==
  ASSUME NEW c \in Contents, NEW offset, NEW n, NEW val \in Images \cup {Corrupt}
  PROVE  WriteCells(c, offset, n, val) \in Contents
  BY DEF Contents, Cells, WriteCells, Programmed

(* An erase that stops before the first cell changes nothing.               *)
LEMMA EraseNothing ==
  ASSUME NEW c \in Contents
  PROVE  EraseCells(c, 0) = c
  BY FlashAssumption DEF Contents, Cells, EraseCells

(* Contents start with at most one image, the one ImageOf names.            *)
LEMMA ImageOfBootable ==
  ASSUME NEW c, Bootable(c)
  PROVE  ImageOf(c) \in Images /\ Holds(c, ImageOf(c))
  BY DEF Bootable, ImageOf

(* Two images that the same contents start with are the same.               *)
LEMMA ImageUnique ==
  ASSUME NEW c, NEW i \in Images, NEW j \in Images, Holds(c, i), Holds(c, j)
  PROVE  i = j
<1>1. ImageSize[i] \in Nat \ {0} /\ ImageSize[j] \in Nat \ {0}
  BY FlashAssumption
<1>2. c[0] = i
  BY <1>1 DEF Holds
<1>3. c[0] = j
  BY <1>1 DEF Holds
<1> QED
  BY <1>2, <1>3

(* The bootloader boots the selected partition if it can, and something     *)
(* whole in any case.                                                       *)
LEMMA RestartBoots ==
  ASSUME boot \in Partitions, NEW f, RestartFrom(f)
  PROVE  /\ running' \in Partitions
         /\ Bootable(f[running'])
         /\ Bootable(f[boot]) => running' = boot
<1>1. PICK p \in Partitions : BootloaderPicks(f, boot, p) /\ running' = p
  BY DEF RestartFrom
<1>2. \A q \in Partitions : BootRank(boot, q) \in Nat /\ (BootRank(boot, q) = 0 <=> q = boot)
  BY FlashAssumption DEF BootRank, Partitions
<1>3. ASSUME Bootable(f[boot]), p # boot PROVE FALSE
  BY <1>1, <1>2, <1>3 DEF BootloaderPicks
<1> QED
  BY <1>1, <1>3 DEF BootloaderPicks

-----------------------------------------------------------------------------
(***************************************************************************)
(* Type correctness, and the running partition is never written            *)
(***************************************************************************)
(* A device as it is flashed.                                               *)
LEMMA InitSafe == Init => SafeInv
<1> SUFFICES ASSUME Init PROVE SafeInv
  OBVIOUS
<1> USE FlashAssumption, WorkflowAssumption, DeviceAssumption
<1>1. FlashTypeOK
  BY DEF Init, FlashInit, FlashTypeOK, Factory, Partitions, Contents, Cells
<1>2. TypeOK
  <2>1. inbox \in Seq(DesiredRequests)
    BY EmptySeq DEF Init
  <2>2. reported \in [state : AgentStates, image : Images]
    BY DEF Init, WorkflowInit, AgentStates
  <2>3. crashes \in 0 .. MaxCrashes
    BY DEF Init
  <2>4. has_update \in BOOLEAN
    BY Zenon DEF Init, WorkflowInit
  <2> QED
    BY <1>1, <2>1, <2>2, <2>3, <2>4 DEF Init, TypeOK, DownloadInit, WorkflowInit, Labels, AgentStates
<1>3. Holds(flash[running], FactoryImage)
  <2>1. ImageSize[FactoryImage] \in 1 .. PartitionSize
    OBVIOUS
  <2> QED
    BY <2>1 DEF Init, FlashInit, Holds, Cells, Partitions, Factory
<1> QED
  BY <1>2, <1>3 DEF Init, DownloadInit, SafeInv, RunningIntact, Bootable, HandlesHeld,
                    WritesElsewhere, WaitingLabels, OtaLabels, HttpLabels

(* The running image and the partition an update would go to.               *)
LEMMA RunningFacts ==
  ASSUME SafeInv
  PROVE  /\ RunningImage \in Images
         /\ UpdatePartition \in Partitions
<1>1. RunningImage \in Images
  BY ImageOfBootable DEF SafeInv, RunningIntact, RunningImage
<1>2. UpdatePartition \in Partitions
  BY FlashAssumption DEF SafeInv, TypeOK, FlashTypeOK, UpdatePartition,
     NextUpdatePartition, Partitions
<1> QED
  BY <1>1, <1>2

(* A report of the agent state stays in its set.                            *)
LEMMA AgentStateTyped ==
  ASSUME SafeInv, NEW state \in AgentStates, NEW ok, SendAgentState(state, ok)
  PROVE  reported' \in [state : AgentStates, image : Images]
  BY RunningFacts DEF SendAgentState, SafeInv, TypeOK

(* A response sent adds a response to those sent.                           *)
LEMMA ResponseTyped ==
  ASSUME SafeInv, NEW decision \in {"Accept", "Reject"}, NEW version \in 0 .. MaxVersion,
         NEW ok \in BOOLEAN, SendResponse(decision, version, ok)
  PROVE  responses' \subseteq Responses
  BY DEF SendResponse, SafeInv, TypeOK, Responses

(* A restart of the device, from the flash as it is or from one where the   *)
(* erase of the update partition was cut short.                             *)
LEMMA RestartSafe ==
  ASSUME SafeInv, NEW f \in [Partitions -> Contents], Restart(f), crashes' \in 0 .. MaxCrashes
  PROVE  SafeInv'
<1> USE DEF SafeInv, Restart
<1>1. running' \in Partitions /\ Bootable(f[running'])
  BY RestartBoots DEF TypeOK, FlashTypeOK
<1>2. FlashTypeOK'
  BY <1>1, FlashAssumption DEF TypeOK, FlashTypeOK, RestartFrom, Factory, Partitions
<1>3. TypeOK'
  <2>1. inbox' \in Seq(DesiredRequests)
    BY EmptySeq
  <2>2. has_update' \in BOOLEAN
    BY Zenon
  <2> QED
    BY <1>2, <2>1, <2>2, DeviceAssumption DEF TypeOK, Labels, sentVars, DesiredRequests, Responses
<1>4. RunningIntact'
  BY <1>1 DEF RunningIntact, RestartFrom
<1> QED
  BY <1>3, <1>4 DEF HandlesHeld, WritesElsewhere, WaitingLabels, OtaLabels, HttpLabels

(* A step that keeps to the flash port's variables as they are.             *)
LEMMA FlashUnchanged ==
  ASSUME SafeInv, UNCHANGED flashVars
  PROVE  FlashTypeOK' /\ RunningIntact'
  BY DEF SafeInv, TypeOK, FlashTypeOK, flashVars, RunningIntact

(* What is left to show of a step within azure_adu_workflow_accept_update,  *)
(* which reads the request and the version it answers but writes neither.   *)
LEMMA ContinueTyped ==
  ASSUME SafeInv, ContinueUpdate, FlashTypeOK', pc' \in Labels, current_offset' \in Nat,
         has_update' \in BOOLEAN, responses' \subseteq Responses,
         reported' \in [state : AgentStates, image : Images],
         UNCHANGED <<update_request, property_version>>
  PROVE  TypeOK'
  BY DEF ContinueUpdate, SafeInv, TypeOK, cloudVars, DesiredRequests

-----------------------------------------------------------------------------
(***************************************************************************)
(* The steps that are not within azure_adu_workflow_accept_update          *)
(***************************************************************************)
(* A new desired request touches nothing on the device.                     *)
LEMMA CloudSafe ==
  ASSUME SafeInv, NEW r \in Requests, CloudRequests(r)
  PROVE  SafeInv'
<1> USE DEF SafeInv, CloudRequests, deviceVars, downloadVars, workflowVars, sentVars
<1>1. desired' \in DesiredRequests
  BY DeviceAssumption DEF TypeOK, DesiredRequests
<1>2. inbox' \in Seq(DesiredRequests)
  <2>1. inbox \in Seq(DesiredRequests) /\ inbox' \in {inbox, Append(inbox, desired')}
    BY DEF TypeOK
  <2> QED
    BY ONLY <1>1, <2>1, AppendProperties
<1>3. FlashTypeOK' /\ RunningIntact'
  BY FlashUnchanged
<1>4. TypeOK'
  BY <1>1, <1>2, <1>3 DEF TypeOK
<1>5. HandlesHeld' /\ WritesElsewhere'
  BY DEF HandlesHeld, WritesElsewhere, WaitingLabels, flashVars
<1> QED
  BY <1>3, <1>4, <1>5

(* example_adu_setup reports Idle and begins the loop.                      *)
LEMMA SetupSafe ==
  ASSUME SafeInv, Setup
  PROVE  SafeInv'
<1> USE DEF SafeInv, Setup, Goto, workflowVars
<1>1. reported' \in [state : AgentStates, image : Images]
  BY AgentStateTyped DEF AgentStates
<1>2. inbox' \in Seq(DesiredRequests)
  <2>1. CASE desired.version = 0
    BY <2>1, EmptySeq
  <2>2. CASE desired.version # 0
    <3>1. desired \in DesiredRequests
      BY <2>2 DEF TypeOK
    <3> QED
      BY <2>2, <3>1
  <2> QED
    BY <2>1, <2>2
<1>3. TypeOK' /\ RunningIntact'
  BY <1>1, <1>2, FlashUnchanged DEF TypeOK, Labels, DesiredRequests
<1> QED
  BY <1>3 DEF HandlesHeld, WritesElsewhere, WaitingLabels, OtaLabels, HttpLabels

(* A decision on the request changes only what is known of it.              *)
LEMMA DecisionTyped ==
  ASSUME SafeInv, NEW version \in 0 .. MaxVersion,
         \/ \E r \in Requests : ProcessUpdateRequest(r, version)
         \/ RejectUpdate(version) /\ UNCHANGED <<update_request, property_version>>
  PROVE  /\ update_request' \in Requests \cup {NoRequest}
         /\ has_update' \in BOOLEAN
         /\ property_version' \in 0 .. MaxVersion
         /\ responses' \subseteq Responses
         /\ reported' \in [state : AgentStates, image : Images]
<1> USE DEF SafeInv
<1>1. ASSUME CancelUpdate
      PROVE  has_update' \in BOOLEAN /\ reported' \in [state : AgentStates, image : Images]
  <2>1. has_update' \in BOOLEAN
    BY <1>1, Zenon DEF CancelUpdate
  <2>2. PICK ok \in BOOLEAN : SendAgentState("Idle", ok)
    BY <1>1 DEF CancelUpdate
  <2>3. reported' \in [state : AgentStates, image : Images]
    BY <2>2, AgentStateTyped DEF AgentStates
  <2> QED
    BY <2>1, <2>3
<1>2. ASSUME RejectUpdate(version)
      PROVE  /\ has_update' \in BOOLEAN
             /\ responses' \subseteq Responses
             /\ reported' \in [state : AgentStates, image : Images]
  <2>1. CASE has_update
    <3>1. PICK ok \in BOOLEAN : SendResponse("Reject", version, ok)
      BY <1>2, <2>1 DEF RejectUpdate
    <3>2. responses' \subseteq Responses
      BY <3>1, ResponseTyped
    <3> QED
      BY <1>1, <1>2, <2>1, <3>2 DEF RejectUpdate
  <2>2. CASE ~has_update
    BY <1>2, <2>2 DEF RejectUpdate, TypeOK
  <2> QED
    BY <2>1, <2>2
<1>3. CASE RejectUpdate(version) /\ UNCHANGED <<update_request, property_version>>
  BY <1>2, <1>3 DEF TypeOK
<1>4. ASSUME NEW r \in Requests, ProcessUpdateRequest(r, version)
      PROVE  /\ update_request' \in Requests \cup {NoRequest}
             /\ has_update' \in BOOLEAN
             /\ property_version' \in 0 .. MaxVersion
             /\ responses' \subseteq Responses
             /\ reported' \in [state : AgentStates, image : Images]
  <2>1. property_version' \in 0 .. MaxVersion
    BY <1>4 DEF ProcessUpdateRequest
  <2>2. CASE ParseFails(r) \/ AuthenticationFails(r)
    BY <2>1, <2>2 DEF ParseFails, AuthenticationFails, TypeOK, sentVars
  <2>3. CASE Approve(r)
    <3>1. has_update' \in BOOLEAN
      BY <2>3, Zenon DEF Approve
    <3> QED
      BY <2>1, <2>3, <3>1 DEF Approve, TypeOK, sentVars
  <2>4. CASE RejectByPreRequisites(r, version)
    BY <1>2, <2>1, <2>4 DEF RejectByPreRequisites
  <2>5. CASE CancelRequested(r)
    BY <1>1, <2>1, <2>5 DEF CancelRequested, TypeOK
  <2> QED
    BY <1>4, <2>2, <2>3, <2>4, <2>5 DEF ProcessUpdateRequest
<1> QED
  BY <1>3, <1>4

(* A property message changes only what is known of the request.            *)
LEMMA ProcessSafe ==
  ASSUME SafeInv, ProcessLoop
  PROVE  SafeInv'
<1> USE DEF SafeInv, ProcessLoop
<1>1. Head(inbox) \in DesiredRequests /\ inbox' \in Seq(DesiredRequests)
  BY HeadTailProperties DEF TypeOK
<1>2. Head(inbox).request \in Requests /\ Head(inbox).version \in 0 .. MaxVersion
  BY <1>1, DeviceAssumption DEF DesiredRequests
<1>3. TypeOK' /\ RunningIntact'
  BY <1>1, <1>2, DecisionTyped, FlashUnchanged DEF TypeOK, downloadVars, DesiredRequests
<1> QED
  BY <1>3 DEF HandlesHeld, WritesElsewhere, WaitingLabels, flashVars, downloadVars

(* The application decides against the update.                              *)
LEMMA DecideSafe ==
  ASSUME SafeInv, DecideAgainst
  PROVE  SafeInv'
<1> USE DEF SafeInv, DecideAgainst
<1>1. property_version \in 0 .. MaxVersion
  BY DEF TypeOK
<1>2. TypeOK' /\ RunningIntact'
  BY <1>1, DecisionTyped, FlashUnchanged DEF TypeOK, downloadVars, cloudVars, DesiredRequests
<1> QED
  BY <1>2 DEF HandlesHeld, WritesElsewhere, WaitingLabels, flashVars, downloadVars

(* The loop begins an update, or goes on after one.                         *)
LEMMA LoopSafe ==
  ASSUME SafeInv, StartUpdate \/ ContinueLoop
  PROVE  SafeInv'
<1> USE DEF SafeInv, StartUpdate, ContinueLoop, AcceptUpdate, Goto, workflowVars, sentVars, cloudVars
<1>1. TypeOK' /\ RunningIntact'
  BY FlashUnchanged DEF TypeOK, Labels, DesiredRequests
<1> QED
  BY <1>1 DEF HandlesHeld, WritesElsewhere, WaitingLabels, flashVars, OtaLabels, HttpLabels

(* The reset, a fault and a loss of power, also half-way through an erase.  *)
LEMMA RestartsSafe ==
  ASSUME SafeInv, ResetDevice \/ HeapFault \/ PowerLoss
  PROVE  SafeInv'
<1>1. flash \in [Partitions -> Contents] /\ crashes \in 0 .. MaxCrashes
  BY DEF SafeInv, TypeOK, FlashTypeOK
<1>2. CASE ResetDevice \/ HeapFault
  BY <1>1, <1>2, RestartSafe DEF ResetDevice, HeapFault
<1>3. CASE PowerLoss
  <2>1. PICK n \in Int : Restart([flash EXCEPT ![UpdatePartition] = EraseCells(@, n)])
    BY <1>3, FlashAssumption DEF PowerLoss
  <2>2. [flash EXCEPT ![UpdatePartition] = EraseCells(@, n)] \in [Partitions -> Contents]
    BY <1>1, ErasedContents, RunningFacts
  <2>3. crashes' \in 0 .. MaxCrashes
    BY <1>1, <1>3, DeviceAssumption DEF PowerLoss
  <2> QED
    BY <2>1, <2>2, <2>3, RestartSafe
<1> QED
  BY <1>2, <1>3

-----------------------------------------------------------------------------
(***************************************************************************)
(* The steps within azure_adu_workflow_accept_update                       *)
(***************************************************************************)

(* The three sends.                                                         *)
LEMMA SendsSafe ==
  ASSUME SafeInv, ContinueUpdate, NEW ok \in BOOLEAN,
         SendAccept(ok) \/ SendInProgress(ok) \/ SendUpdateResults(ok)
  PROVE  SafeInv'
<1> USE DEF SafeInv, SendAccept, SendInProgress, SendUpdateResults, Goto, ReturnsFailure,
            workflowVars
<1>1. responses' \subseteq Responses
  <2>1. CASE SendAccept(ok)
    BY <2>1, ResponseTyped DEF TypeOK
  <2>2. CASE SendInProgress(ok) \/ SendUpdateResults(ok)
    BY <2>2 DEF TypeOK
  <2> QED
    BY <2>1, <2>2
<1>2. reported' \in [state : AgentStates, image : Images]
  BY AgentStateTyped DEF AgentStates, TypeOK
<1>3. pc' \in {"loop", "send_in_progress", "platform_init", "accepted"}
  OBVIOUS
<1>4. TypeOK' /\ RunningIntact'
  BY <1>1, <1>2, <1>3, FlashUnchanged, ContinueTyped DEF TypeOK, Labels
<1> QED
  BY <1>4 DEF HandlesHeld, WritesElsewhere, WaitingLabels, flashVars, OtaLabels, HttpLabels

(* AzureIoTPlatform_Init: the partition erased is not the running one.      *)
LEMMA BeginSafe ==
  ASSUME SafeInv, ContinueUpdate, BeginImage
  PROVE  SafeInv'
<1> USE DEF SafeInv, BeginImage, Goto, ReturnsFailure, workflowVars, sentVars
<1> DEFINE p == UpdatePartition
<1>1. p \in Partitions
  BY RunningFacts
<1>2. CASE Goto("platform_init", "parse_url") /\ PlatformInitSucceeds
  <2>1. EraseCells(flash[p], PartitionSize) \in Contents
    BY <1>1, FlashAssumption, ErasedContents DEF TypeOK, FlashTypeOK
  <2>2. FlashTypeOK'
    BY <1>1, <1>2, <2>1, FlashAssumption
       DEF PlatformInitSucceeds, TypeOK, FlashTypeOK, HeapAvailable
  <2>3. RunningIntact'
    BY <1>1, <1>2 DEF PlatformInitSucceeds, RunningIntact, TypeOK, FlashTypeOK
  <2>4. TypeOK'
    BY <1>2, <2>2, ContinueTyped DEF TypeOK, Labels
  <2> QED
    BY <1>2, <2>3, <2>4
       DEF PlatformInitSucceeds, HandlesHeld, WritesElsewhere, WaitingLabels, OtaLabels, HttpLabels, TypeOK,
           FlashTypeOK
<1>3. CASE ReturnsFailure("platform_init") /\ PlatformInitFails
  <2>1. PICK n \in IF p = running THEN {0} ELSE 0 .. PartitionSize :
          flash' = [flash EXCEPT ![p] = EraseCells(@, n)]
    BY <1>3 DEF PlatformInitFails
  <2>2. EraseCells(flash[p], n) \in Contents
    BY <1>1, ErasedContents DEF TypeOK, FlashTypeOK
  <2>3. p = running => EraseCells(flash[p], n) = flash[p]
    BY <1>1, EraseNothing DEF TypeOK, FlashTypeOK
  <2>4. FlashTypeOK'
    BY <1>1, <1>3, <2>1, <2>2 DEF PlatformInitFails, TypeOK, FlashTypeOK
  <2>5. RunningIntact'
    BY <1>1, <1>3, <2>1, <2>3 DEF PlatformInitFails, RunningIntact, TypeOK, FlashTypeOK
  <2>6. TypeOK'
    BY <1>3, <2>4, ContinueTyped DEF TypeOK, Labels
  <2> QED
    BY <1>3, <2>5, <2>6 DEF HandlesHeld, WritesElsewhere, WaitingLabels, OtaLabels, HttpLabels
<1> QED
  BY <1>2, <1>3

(* A step of the download that leaves the flash and the partition chosen    *)
(* alone, and counts handles and contexts right.                            *)
LEMMA CountsSafe ==
  ASSUME SafeInv, ContinueUpdate,
         UNCHANGED <<running, boot, flash, workflowVars, sentVars>>,
         image' \in [partition : {image.partition}, image_size : Nat, ota : BOOLEAN],
         ota_handles' \in 0 .. HeapSlots, http_contexts' \in 0 .. HeapSlots,
         pc' \in Labels, current_offset' \in Nat,
         pc' \in OtaLabels \cup {"enable"} => pc \in OtaLabels,
         pc' \notin {"send_results", "accepted"},
         HandlesHeld'
  PROVE  SafeInv'
<1> USE DEF SafeInv, workflowVars, sentVars
<1>1. FlashTypeOK'
  BY DEF TypeOK, FlashTypeOK
<1>2. TypeOK'
  BY <1>1, ContinueTyped DEF TypeOK
<1> QED
  BY <1>2 DEF RunningIntact, WritesElsewhere, WaitingLabels, OtaLabels

(* A chunk is programmed into the update partition, wholly or in part.      *)
LEMMA ChunkSafe ==
  ASSUME SafeInv, ContinueUpdate, pc = "download", NEW offset \in Nat, NEW n \in Nat,
         NEW val \in Images \cup {Corrupt},
         flash' = [flash EXCEPT ![image.partition] = WriteCells(@, offset, n, val)],
         UNCHANGED <<running, boot, image, ota_handles, workflowVars, sentVars>>,
         \/ pc' = "loop" /\ http_contexts' = http_contexts - 1
         \/ pc' = "download" /\ http_contexts' = http_contexts,
         current_offset' \in Nat
  PROVE  SafeInv'
<1> USE DEF SafeInv, workflowVars, sentVars
<1>1. image.partition \in Partitions \ {running}
  BY DEF TypeOK, FlashTypeOK, WritesElsewhere, WaitingLabels, OtaLabels
<1>2. WriteCells(flash[image.partition], offset, n, val) \in Contents
  BY <1>1, WrittenContents DEF TypeOK, FlashTypeOK
<1>3. FlashTypeOK'
  <2>1. flash' \in [Partitions -> Contents]
    BY <1>1, <1>2 DEF TypeOK, FlashTypeOK
  <2>2. http_contexts' \in 0 .. HeapSlots
    <3>1. http_contexts \in 0 .. HeapSlots /\ http_contexts \geq 1
      BY DEF TypeOK, FlashTypeOK, HandlesHeld, HttpLabels
    <3> QED
      BY <3>1, FlashAssumption
  <2> QED
    BY <2>1, <2>2 DEF TypeOK, FlashTypeOK
<1>4. TypeOK'
  BY <1>3, ContinueTyped DEF TypeOK, Labels
<1>5. RunningIntact'
  BY <1>1 DEF TypeOK, FlashTypeOK, RunningIntact
<1> QED
  BY <1>4, <1>5 DEF HandlesHeld, WritesElsewhere, WaitingLabels, OtaLabels, HttpLabels

(* Every way a download goes keeps to the update partition.                 *)
LEMMA DownloadSafe ==
  ASSUME SafeInv, ContinueUpdate, DownloadImage
  PROVE  SafeInv'
<1> USE DEF Goto, ReturnsFailure, DisconnectAndFree
<1>1. /\ FlashTypeOK /\ current_offset \in Nat /\ pc \in Labels
      /\ HandlesHeld
      /\ UNCHANGED <<workflowVars, sentVars>>
  BY DEF SafeInv, TypeOK, DownloadImage
<1>2. CASE HttpConnect \/ HttpConnectFails
  <2>1. http_contexts' \in 0 .. HeapSlots
    BY <1>1, <1>2, FlashAssumption
       DEF HttpConnect, HttpConnectFails, HeapAvailable, FlashTypeOK
  <2> QED
    BY <1>1, <1>2, <2>1, CountsSafe
       DEF HttpConnect, HttpConnectFails, FlashTypeOK, Labels, HandlesHeld, OtaLabels,
           HttpLabels
<1>3. ASSUME NEW size \in 0 .. MaxResource, GetResourceSize(size) PROVE SafeInv'
  <2>1. size \in Nat
    BY DownloadAssumption
  <2> QED
    BY <1>1, <1>3, <2>1, CountsSafe
       DEF GetResourceSize, FlashTypeOK, Labels, HandlesHeld, OtaLabels, HttpLabels
<1>4. CASE GetResourceSizeFails \/ ReconnectFails \/ RequestFails \/ DownloadDone
  <2>1. http_contexts' \in 0 .. HeapSlots
    BY <1>1, <1>4, FlashAssumption
       DEF GetResourceSizeFails, ReconnectFails, RequestFails, DownloadDone, HandlesHeld,
           HttpLabels, FlashTypeOK
  <2>2. pc' \in {"loop", "verify"} /\ pc \in OtaLabels
    BY <1>4 DEF GetResourceSizeFails, ReconnectFails, RequestFails, DownloadDone, OtaLabels
  <2> QED
    BY <1>1, <1>4, <2>1, <2>2, CountsSafe
       DEF GetResourceSizeFails, ReconnectFails, RequestFails, DownloadDone,
           FlashTypeOK, Labels, HandlesHeld, OtaLabels, HttpLabels
<1>5. ASSUME NEW n \in 0 .. MaxPayload, NEW val \in ServedContents,
             ReceiveChunk(n, val) \/ ChunkWriteFails(n, val)
      PROVE  SafeInv'
  <2>1. n \in Nat /\ val \in Images \cup {Corrupt}
    BY DownloadAssumption
  <2>2. current_offset \in Nat /\ pc = "download"
    BY <1>1, <1>5 DEF ReceiveChunk, ChunkWriteFails
  <2>3. CASE ReceiveChunk(n, val)
    <3>1. flash' = [flash EXCEPT ![image.partition] = WriteCells(@, current_offset, n, val)]
      BY <2>3 DEF ReceiveChunk, WriteBlockSucceeds
    <3>2. /\ UNCHANGED <<running, boot, image, ota_handles, http_contexts>>
          /\ pc' = "download"
          /\ current_offset' \in Nat
      BY <2>1, <2>2, <2>3 DEF ReceiveChunk, NextOffset
    <3> QED
      BY <1>1, <2>1, <2>2, <3>1, <3>2, ChunkSafe
  <2>4. CASE ChunkWriteFails(n, val)
    <3>1. PICK written \in IF current_offset + n <= PartitionSize THEN 0 .. n ELSE {0} :
            flash' = [flash EXCEPT ![image.partition] =
                        WriteCells(@, current_offset, written, val)]
      BY <2>4 DEF ChunkWriteFails, WriteBlockFails
    <3>2. written \in Nat
      BY <2>1
    <3>3. /\ UNCHANGED <<running, boot, image, ota_handles, current_offset>>
          /\ http_contexts' = http_contexts - 1
          /\ pc' = "loop"
          /\ current_offset' \in Nat
      BY <2>2, <2>4 DEF ChunkWriteFails
    <3>4. flash' = [flash EXCEPT ![image.partition] =
                      WriteCells(@, current_offset, written, val)]
      BY <3>1
    <3> QED
      BY <1>1, <2>1, <2>2, <3>2, <3>3, <3>4, ChunkSafe
  <2> QED
    BY <1>5, <2>3, <2>4
<1>6. CASE ConnectionLost \/ Reconnect
  BY <1>1, <1>6, CountsSafe
     DEF ConnectionLost, Reconnect, flashVars, FlashTypeOK, Labels, HandlesHeld, OtaLabels,
         HttpLabels
<1> QED
  BY <1>2, <1>3, <1>4, <1>5, <1>6 DEF DownloadImage, FileDownload

(* A url that parses, or an OTA handle left open.                           *)
LEMMA ParseSafe ==
  ASSUME SafeInv, ContinueUpdate, ParseRequestUrl
  PROVE  SafeInv'
<1> USE DEF ParseRequestUrl, ParseUrl, Goto, ReturnsFailure
<1>1. FlashTypeOK /\ current_offset \in Nat /\ HandlesHeld
  BY DEF SafeInv, TypeOK
<1>2. pc' \in {"loop", "http_connect"} /\ pc = "parse_url"
  OBVIOUS
<1> QED
  BY <1>1, <1>2, CountsSafe
     DEF flashVars, FlashTypeOK, Labels, HandlesHeld, OtaLabels, HttpLabels

(* AzureIoTPlatform_VerifyImage gives up the one handle it holds.           *)
LEMMA VerifySafe ==
  ASSUME SafeInv, ContinueUpdate, VerifyImage
  PROVE  SafeInv'
<1> USE DEF Goto, ReturnsFailure
<1>1. FlashTypeOK /\ current_offset \in Nat /\ HandlesHeld
  BY DEF SafeInv, TypeOK
<1>2. /\ pc = "verify" /\ pc' \in {"enable", "loop"}
      /\ ReleaseOtaHandle
      /\ UNCHANGED <<running, boot, flash, http_contexts, current_offset, workflowVars,
                     sentVars>>
  BY DEF VerifyImage, VerifyImageSucceeds, VerifyImageFails
<1>3. ota_handles' \in 0 .. HeapSlots
  BY <1>1, <1>2, FlashAssumption DEF ReleaseOtaHandle, HandlesHeld, OtaLabels, FlashTypeOK
<1>4. image' \in [partition : {image.partition}, image_size : Nat, ota : BOOLEAN]
  <2>1. image' = [image EXCEPT !.ota = FALSE]
    BY <1>2 DEF ReleaseOtaHandle
  <2>2. image \in [partition : Partitions, image_size : Nat, ota : BOOLEAN]
    BY <1>1 DEF FlashTypeOK
  <2>3. image' \in [partition : Partitions, image_size : Nat, ota : BOOLEAN]
    BY <2>1, <2>2
  <2> QED
    BY <2>1, <2>2, <2>3
<1> QED
  BY <1>1, <1>2, <1>3, <1>4, CountsSafe
     DEF FlashTypeOK, Labels, HandlesHeld, OtaLabels, HttpLabels

(* Only the selected partition, and has_update, change.                     *)
LEMMA EnableSafe ==
  ASSUME SafeInv, ContinueUpdate, EnableImage
  PROVE  SafeInv'
<1> USE DEF SafeInv, EnableImage, Goto, ReturnsFailure, sentVars
<1>1. CASE EnableImageSucceeds /\ pc = "enable" /\ pc' = "send_results" /\ has_update' = FALSE
  <2>1. has_update' \in BOOLEAN
    BY <1>1, Zenon
  <2>2. FlashTypeOK' /\ RunningIntact'
    BY <1>1 DEF EnableImageSucceeds, TypeOK, FlashTypeOK, RunningIntact
  <2>3. TypeOK'
    BY <1>1, <2>1, <2>2, ContinueTyped DEF TypeOK, Labels
  <2> QED
    BY <1>1, <2>2, <2>3
       DEF EnableImageSucceeds, HandlesHeld, WritesElsewhere, WaitingLabels, OtaLabels, HttpLabels
<1>2. CASE EnableImageFails /\ pc = "enable" /\ pc' = "loop" /\ UNCHANGED has_update
  <2>1. FlashTypeOK' /\ RunningIntact'
    BY <1>2, FlashUnchanged DEF EnableImageFails
  <2>2. TypeOK'
    BY <1>2, <2>1, ContinueTyped DEF TypeOK, Labels
  <2> QED
    BY <1>2, <2>1, <2>2 DEF HandlesHeld, WritesElsewhere, WaitingLabels, OtaLabels, HttpLabels
<1> QED
  BY <1>1, <1>2

-----------------------------------------------------------------------------
(* A step that changes nothing.                                             *)
LEMMA StutterSafe ==
  ASSUME SafeInv, UNCHANGED vars
  PROVE  SafeInv'
<1> USE DEF SafeInv, vars, downloadVars, workflowVars, sentVars, cloudVars
<1>1. TypeOK' /\ RunningIntact'
  BY FlashUnchanged DEF TypeOK, DesiredRequests
<1> QED
  BY <1>1 DEF HandlesHeld, WritesElsewhere, WaitingLabels, flashVars

(* The inductive step: one case per action.                                 *)
LEMMA StepSafe == SafeInv /\ [Next]_vars => SafeInv'
<1> SUFFICES ASSUME SafeInv, [Next]_vars PROVE SafeInv'
  OBVIOUS
<1>1. CASE \E r \in Requests : CloudRequests(r)
  BY <1>1, CloudSafe
<1>2. CASE Setup \/ ProcessLoop \/ DecideAgainst
  BY <1>2, SetupSafe, ProcessSafe, DecideSafe
<1>3. CASE StartUpdate \/ ContinueLoop
  BY <1>3, LoopSafe
<1>4. CASE ContinueUpdate
  BY <1>4, SendsSafe, BeginSafe, ParseSafe, DownloadSafe, VerifySafe, EnableSafe
     DEF ContinueUpdate, AcceptSteps
<1>5. CASE ResetDevice \/ HeapFault \/ PowerLoss
  BY <1>5, RestartsSafe
<1>6. CASE UNCHANGED vars
  BY <1>6, StutterSafe
<1> QED
  BY <1>1, <1>2, <1>3, <1>4, <1>5, <1>6 DEF Next

(* Type correctness: in particular no OTA handle and no HTTP context is     *)
(* released twice, whatever fails along an update.                          *)
THEOREM TypeCorrect == Spec => []TypeOK
<1>1. SafeInv => TypeOK
  BY DEF SafeInv
<1> QED
  BY <1>1, InitSafe, StepSafe, PTL DEF Spec

(* The partition the program runs from holds a whole image at all times: no *)
(* update ever writes to it, however it fails and whenever power is lost.   *)
THEOREM RunningStaysIntact == Spec => []RunningIntact
<1>1. SafeInv => RunningIntact
  BY DEF SafeInv
<1> QED
  BY <1>1, InitSafe, StepSafe, PTL DEF Spec

-----------------------------------------------------------------------------
(***************************************************************************)
(* What a step may do to the partitions.  Every step is of one of five     *)
(* kinds: it works towards an update, it passes the time between an        *)
(* enabled image and the reset, it enables an image, it restarts, or it    *)
(* goes on without the reset.                                              *)
(***************************************************************************)
Working ==
  /\ UNCHANGED <<running, boot>>
  /\ flash'[running] = flash[running]
  /\ pc \notin WaitingLabels /\ pc' \notin WaitingLabels
  /\ pc' = "init" => pc = "init"

Waiting ==
  /\ pc \in WaitingLabels /\ pc' \in WaitingLabels
  /\ UNCHANGED flashVars
  /\ reported' = reported \/ reported'.state = "DeploymentInProgress200"

Enabling ==
  /\ pc = "enable" /\ pc' = "send_results"
  /\ EnableImageSucceeds
  /\ UNCHANGED <<update_request, reported>>

Restarting ==
  \E f \in [Partitions -> Contents] :
    /\ Restart(f)
    /\ f = flash \/ (pc = "platform_init" /\ f[running] = flash[running])

(* A loss of power restarts the device, from a flash in which at most the   *)
(* update partition was being erased.                                       *)
LEMMA LossRestarts == ASSUME SafeInv, PowerLoss PROVE Restarting
<1>1. PICK n \in IF pc = "platform_init" /\ UpdatePartition # running
                   THEN 0 .. PartitionSize ELSE {0} :
        Restart([flash EXCEPT ![UpdatePartition] = EraseCells(@, n)])
  BY DEF PowerLoss
<1> DEFINE f == [flash EXCEPT ![UpdatePartition] = EraseCells(@, n)]
<1>2. flash \in [Partitions -> Contents] /\ running \in Partitions
  BY DEF SafeInv, TypeOK, FlashTypeOK
<1>3. f \in [Partitions -> Contents]
  BY <1>1, <1>2, ErasedContents, RunningFacts, FlashAssumption
<1>4. CASE pc = "platform_init" /\ UpdatePartition # running
  <2>1. f[running] = flash[running]
    BY <1>2, <1>4
  <2> QED
    BY <1>1, <1>3, <1>4, <2>1 DEF Restarting
<1>5. CASE ~(pc = "platform_init" /\ UpdatePartition # running)
  <2>1. f = flash
    BY <1>1, <1>2, <1>5, EraseNothing, RunningFacts
  <2> QED
    BY <1>1, <1>3, <2>1 DEF Restarting
<1> QED
  BY <1>4, <1>5

(* Every step is of one of these kinds.                                     *)
LEMMA AnyStepKinds ==
  ASSUME SafeInv, [Next]_vars
  PROVE  Working \/ Waiting \/ Enabling \/ Restarting \/ ContinueLoop
<1> USE DEF Goto, ReturnsFailure, WaitingLabels, deviceVars, downloadVars, flashVars
<1>1. FlashTypeOK
  BY DEF SafeInv, TypeOK
<1>2. CASE \/ \E r \in Requests : CloudRequests(r)
           \/ UNCHANGED vars
  BY <1>2 DEF CloudRequests, Working, Waiting, sentVars, vars
<1>3. CASE Setup \/ ProcessLoop \/ DecideAgainst \/ StartUpdate
  BY <1>3 DEF Setup, ProcessLoop, DecideAgainst, StartUpdate, AcceptUpdate, Working
<1>4. CASE ContinueUpdate
  <2>1. CASE \E ok \in BOOLEAN : SendAccept(ok) \/ SendInProgress(ok)
    BY <2>1 DEF SendAccept, SendInProgress, Working
  <2>2. ASSUME NEW ok \in BOOLEAN, SendUpdateResults(ok) PROVE Waiting
    BY <2>2, SMTT(30) DEF SendUpdateResults, SendAgentState, Waiting
  <2>3. CASE BeginImage
    <3>1. UpdatePartition # running => flash'[running] = flash[running]
      BY <1>1, <2>3, RunningFacts
         DEF BeginImage, PlatformInitSucceeds, PlatformInitFails, FlashTypeOK
    <3>2. CASE UpdatePartition = running
      <4>1. flash' = [flash EXCEPT ![running] = EraseCells(@, 0)]
        BY <2>3, <3>2 DEF BeginImage, PlatformInitSucceeds, PlatformInitFails
      <4> QED
        BY <1>1, <2>3, <4>1, EraseNothing
           DEF BeginImage, PlatformInitSucceeds, PlatformInitFails, FlashTypeOK, Working
    <3>3. CASE UpdatePartition # running
      BY <2>3, <3>1, <3>3 DEF BeginImage, PlatformInitSucceeds, PlatformInitFails, Working
    <3> QED
      BY <3>2, <3>3
  <2>4. CASE ParseRequestUrl
    BY <2>4 DEF ParseRequestUrl, ParseUrl, Working
  <2>5. CASE DownloadImage
    <3>1. pc \in OtaLabels /\ pc' \in OtaLabels \cup {"loop"} /\ UNCHANGED <<running, boot>>
      BY <2>5 DEF DownloadImage, FileDownload, HttpConnect, HttpConnectFails,
         GetResourceSize, GetResourceSizeFails, ReceiveChunk, ChunkWriteFails,
         ConnectionLost, Reconnect, ReconnectFails, RequestFails, DownloadDone, OtaLabels
    <3>2. image.partition # running
      BY <3>1 DEF SafeInv, WritesElsewhere
    <3>3. flash'[running] = flash[running]
      BY <1>1, <2>5, <3>2 DEF FlashTypeOK, DownloadImage, FileDownload, HttpConnect,
         HttpConnectFails, GetResourceSize, GetResourceSizeFails, ReceiveChunk,
         ChunkWriteFails, WriteBlockSucceeds, WriteBlockFails, ConnectionLost, Reconnect,
         ReconnectFails, RequestFails, DownloadDone
    <3> QED
      BY <3>1, <3>3 DEF Working, OtaLabels
  <2>6. CASE VerifyImage
    BY <2>6 DEF VerifyImage, VerifyImageSucceeds, VerifyImageFails, Working
  <2>7. CASE EnableImage
    BY <2>7 DEF EnableImage, EnableImageFails, Working, Enabling, sentVars
  <2> QED
    BY <1>4, <2>1, <2>2, <2>3, <2>4, <2>5, <2>6, <2>7 DEF ContinueUpdate, AcceptSteps
<1>5. CASE ResetDevice \/ HeapFault
  BY <1>1, <1>5 DEF ResetDevice, HeapFault, Restarting, FlashTypeOK
<1>6. CASE PowerLoss
  BY <1>6, LossRestarts
<1> QED
  BY <1>2, <1>3, <1>4, <1>5, <1>6 DEF Next

(* An application that resets the device does not go on without it.         *)
LEMMA StepKinds ==
  ASSUME SafeInv, ResetAfterUpdate, [Next]_vars
  PROVE  Working \/ Waiting \/ Enabling \/ Restarting
  BY AnyStepKinds DEF ContinueLoop

-----------------------------------------------------------------------------
(***************************************************************************)
(* The application that resets the device after an update                  *)
(***************************************************************************)
BootInv == SafeInv /\ BootFollows

(* A device as it is flashed selects what it runs.                          *)
LEMMA InitBoot == Init => BootInv
  BY InitSafe DEF BootInv, BootFollows, Init, FlashInit, DownloadInit, WaitingLabels

(* Both partitions hold whole images, which a restart keeps.                *)
LEMMA BootFacts ==
  ASSUME BootInv, ResetAfterUpdate
  PROVE  /\ Bootable(flash[boot])
         /\ pc \notin WaitingLabels => boot = running
         /\ boot \in Partitions
  BY DEF BootInv, BootFollows, SafeInv, RunningIntact, TypeOK, FlashTypeOK

(* A restart finds the selected partition whole and runs it.                *)
LEMMA RestartingFacts ==
  ASSUME BootInv, ResetAfterUpdate, Restarting
  PROVE  /\ running' = boot /\ boot' = boot
         /\ flash'[boot] = flash[boot]
         /\ reported' = reported
         /\ pc' = "init"
<1>1. PICK f \in [Partitions -> Contents] :
        Restart(f) /\ (f = flash \/ (pc = "platform_init" /\ f[running] = flash[running]))
  BY DEF Restarting
<1>2. f[boot] = flash[boot]
  BY <1>1, BootFacts DEF WaitingLabels
<1>3. running' = boot
  BY <1>1, <1>2, BootFacts, RestartBoots DEF Restart
<1> QED
  BY <1>1, <1>2, <1>3 DEF Restart, RestartFrom, sentVars

(* The inductive step, by the kinds of steps.                               *)
LEMMA StepBoot == ResetAfterUpdate /\ BootInv /\ [Next]_vars => BootInv'
<1> SUFFICES ASSUME ResetAfterUpdate, BootInv, [Next]_vars PROVE BootInv'
  OBVIOUS
<1>1. SafeInv'
  BY StepSafe DEF BootInv
<1>2. CASE Working
  BY <1>1, <1>2, BootFacts DEF Working, BootInv, BootFollows
<1>3. CASE Waiting
  BY <1>1, <1>3 DEF Waiting, BootInv, BootFollows, flashVars
<1>4. CASE Enabling
  <2>1. boot' = image'.partition /\ Bootable(flash'[boot'])
    BY <1>4 DEF Enabling, EnableImageSucceeds
  <2> QED
    BY <1>1, <1>4, <2>1 DEF Enabling, WaitingLabels, BootInv, BootFollows
<1>5. CASE Restarting
  BY <1>1, <1>5, RestartingFacts DEF WaitingLabels, BootInv, BootFollows
<1> QED
  BY <1>2, <1>3, <1>4, <1>5, StepKinds DEF BootInv

(* Whenever the device restarts, the bootloader finds a whole image in the  *)
(* partition that the OTA data selects.                                     *)
THEOREM BootStaysIntact == ASSUME ResetAfterUpdate PROVE Spec => []BootIntact
<1>1. BootInv => BootIntact
  BY BootFacts DEF BootIntact
<1>2. BootInv /\ [Next]_vars => BootInv'
  BY StepBoot
<1> QED
  BY <1>1, <1>2, InitBoot, PTL DEF Spec

(* Once an image is enabled, the next restart runs it, if the application   *)
(* resets the device as the header asks, also when power is lost first.     *)
THEOREM RestartsRunEnabled == ASSUME ResetAfterUpdate PROVE Spec => RestartRunsEnabled
<1>1. BootInv /\ [Next]_vars => BootInv'
  BY StepBoot
<1>2. ASSUME BootInv, [Next]_vars, pc' = "init", pc # "init" PROVE running' = boot
  <2>1. CASE Working
    BY <1>2, <2>1, BootFacts DEF Working
  <2>2. CASE Restarting
    BY <1>2, <2>2, RestartingFacts
  <2> QED
    BY <1>2, <2>1, <2>2, StepKinds DEF BootInv, Waiting, Enabling, WaitingLabels
<1>3. BootInv /\ [Next]_vars => [pc' = "init" /\ pc # "init" => running' = boot]_vars
  BY <1>2
<1> QED
  BY <1>1, <1>3, InitBoot, PTL DEF Spec, RestartRunsEnabled

(* Between the enabling of an image and the restart into it the service is  *)
(* told nothing but the results of the update.                              *)
THEOREM SilentBeforeRestart == ASSUME ResetAfterUpdate PROVE Spec => NoStateBeforeRestart
<1>1. BootInv /\ [Next]_vars => BootInv'
  BY StepBoot
<1>2. ASSUME BootInv, [Next]_vars, boot # running
      PROVE  reported' = reported \/ reported'.state = "DeploymentInProgress200"
  <2>1. pc \in WaitingLabels
    BY <1>2, BootFacts
  <2>2. Waiting \/ Restarting
    BY <1>2, <2>1, StepKinds DEF BootInv, Working, Enabling, WaitingLabels
  <2> QED
    BY <1>2, <2>2, RestartingFacts DEF Waiting
<1>3. BootInv /\ [Next]_vars =>
        [boot # running =>
           reported' = reported \/ reported'.state = "DeploymentInProgress200"]_vars
  BY <1>2
<1> QED
  BY <1>1, <1>3, InitBoot, PTL DEF Spec, NoStateBeforeRestart

(* What a step may do to the partition that runs and the one selected, as   *)
(* the abstract update sees it.                                             *)
Keeps ==
  /\ UNCHANGED <<running, boot>>
  /\ flash'[running] = flash[running]
  /\ flash'[boot] = flash[boot]

Enables ==
  /\ boot = running
  /\ UNCHANGED <<running, flash>>
  /\ Bootable(flash'[boot'])

Reboots ==
  /\ running' = boot
  /\ UNCHANGED boot
  /\ flash'[boot] = flash[boot]

(* Each of these is a step of the abstract update, or none.                 *)
LEMMA AtomicStep ==
  ASSUME Keeps \/ Enables \/ Reboots
  PROVE  [Atomic!Next]_<<RunningImage, ImageOf(flash[boot])>>
<1> USE DEF RunningImage
<1>1. CASE Keeps
  BY <1>1 DEF Keeps
<1>2. CASE Enables
  <2>1. ImageOf(flash'[boot']) \in Images
    BY <1>2, ImageOfBootable DEF Enables
  <2>2. Atomic!Enable(ImageOf(flash'[boot']))
    BY <1>2 DEF Atomic!Enable, Enables
  <2> QED
    BY <2>1, <2>2 DEF Atomic!Next
<1>3. CASE Reboots
  <2>1. Atomic!Restart
    BY <1>3 DEF Atomic!Restart, Reboots
  <2> QED
    BY <2>1 DEF Atomic!Next
<1> QED
  BY <1>1, <1>2, <1>3

(* A device as it is flashed runs, and will run, the factory image.         *)
LEMMA AtomicInit == Init => Atomic!Init
<1>1. SUFFICES ASSUME Init PROVE ImageOf(flash[Factory]) = FactoryImage
  BY DEF Init, FlashInit, Atomic!Init, RunningImage
<1>2. ImageSize[FactoryImage] \in 1 .. PartitionSize /\ FactoryImage \in Images
  BY FlashAssumption
<1>3. Holds(flash[Factory], FactoryImage)
  BY <1>1, <1>2, FlashAssumption
     DEF Init, FlashInit, Holds, Cells, Partitions, Factory
<1>4. Bootable(flash[Factory])
  BY <1>2, <1>3 DEF Bootable
<1> QED
  BY <1>2, <1>3, <1>4, ImageOfBootable, ImageUnique

(* The device implements the abstract update: whatever it runs, and         *)
(* whatever it will run, is a whole image, and both change in one step.     *)
THEOREM ImplementsAtomicUpdate == ASSUME ResetAfterUpdate PROVE Spec => AtomicSpec
<1>2. BootInv /\ [Next]_vars => BootInv'
  BY StepBoot
<1>3. BootInv /\ [Next]_vars => [Atomic!Next]_<<RunningImage, ImageOf(flash[boot])>>
  <2> SUFFICES ASSUME BootInv, [Next]_vars PROVE Keeps \/ Enables \/ Reboots
    BY AtomicStep
  <2>1. CASE Working
    BY <2>1, BootFacts DEF Working, Keeps, BootInv, BootFollows
  <2>2. CASE Waiting
    BY <2>2 DEF Waiting, flashVars, Keeps
  <2>3. CASE Enabling
    BY <2>3, BootFacts DEF Enabling, EnableImageSucceeds, WaitingLabels, Enables
  <2>4. CASE Restarting
    BY <2>4, RestartingFacts DEF Reboots
  <2> QED
    BY <2>1, <2>2, <2>3, <2>4, StepKinds DEF BootInv
<1> QED
  BY <1>2, <1>3, AtomicInit, InitBoot, PTL DEF Spec, AtomicSpec, Atomic!Spec, RunningImage

-----------------------------------------------------------------------------
(***************************************************************************)
(* An application that goes on without the reset, as example_adu.c does.   *)
(* What it may not do is accept another update while the image of the last *)
(* one waits for its restart.                                              *)
(***************************************************************************)
AcceptsNoSecond == [][boot # running => ~StartUpdate]_vars

EnabledWaits ==
  boot # running => pc \in WaitingLabels \cup {"loop"} /\ Bootable(flash[boot])

PatientInv == SafeInv /\ EnabledWaits

(* A device as it is flashed selects what it runs.                          *)
LEMMA InitPatient == Init => PatientInv
  BY InitSafe DEF PatientInv, EnabledWaits, Init, FlashInit

(* What is selected is whole.                                               *)
LEMMA PatientFacts ==
  ASSUME PatientInv
  PROVE  Bootable(flash[boot]) /\ boot \in Partitions
  BY DEF PatientInv, EnabledWaits, SafeInv, RunningIntact, TypeOK, FlashTypeOK

(* In its loop the application leaves the flash alone, but for an update it *)
(* accepts.                                                                 *)
LEMMA LoopKeeps ==
  ASSUME pc = "loop", [Next]_vars, ~StartUpdate
  PROVE  (pc' = "loop" /\ UNCHANGED flashVars) \/ PowerLoss
<1> USE DEF Goto, ReturnsFailure
<1>1. CASE (\E r \in Requests : CloudRequests(r)) \/ UNCHANGED vars
  BY <1>1 DEF CloudRequests, vars, deviceVars, downloadVars
<1>2. CASE Setup \/ ProcessLoop \/ DecideAgainst \/ ResetDevice \/ ContinueLoop \/ HeapFault
  BY <1>2 DEF Setup, ProcessLoop, DecideAgainst, ResetDevice, ContinueLoop, HeapFault,
              downloadVars
<1>3. CASE ContinueUpdate
  <2>1. CASE DownloadImage
    BY <2>1 DEF DownloadImage, FileDownload, HttpConnect, HttpConnectFails,
       GetResourceSize, GetResourceSizeFails, ReceiveChunk, ChunkWriteFails,
       ConnectionLost, Reconnect, ReconnectFails, RequestFails, DownloadDone
  <2> QED
    BY <1>3, <2>1 DEF ContinueUpdate, AcceptSteps, SendAccept, SendInProgress,
       SendUpdateResults, BeginImage, ParseRequestUrl, ParseUrl, VerifyImage, EnableImage
<1> QED
  BY <1>1, <1>2, <1>3 DEF Next

(* A restart finds the selected partition whole and runs it.                *)
LEMMA PatientRestarts == ASSUME PatientInv, Restarting PROVE Reboots /\ pc' = "init"
<1>1. PICK f \in [Partitions -> Contents] :
        Restart(f) /\ (f = flash \/ (pc = "platform_init" /\ f[running] = flash[running]))
  BY DEF Restarting
<1>2. f[boot] = flash[boot]
  BY <1>1 DEF PatientInv, EnabledWaits, WaitingLabels
<1>3. running' = boot
  BY <1>1, <1>2, PatientFacts, RestartBoots DEF Restart
<1> QED
  BY <1>1, <1>2, <1>3 DEF Restart, RestartFrom, Reboots

(* What a step of such an application may do to the partitions.             *)
LEMMA PatientSteps ==
  ASSUME PatientInv, [Next]_vars, boot # running => ~StartUpdate
  PROVE  \/ /\ Keeps
            /\ boot # running => pc' \in WaitingLabels \cup {"loop"}
            /\ pc' = "init" => pc = "init"
         \/ Enables /\ pc' = "send_results"
         \/ Reboots /\ pc' = "init"
<1>1. CASE pc = "loop" /\ boot # running
  <2>1. CASE pc' = "loop" /\ UNCHANGED flashVars
    BY <1>1, <2>1 DEF Keeps, flashVars
  <2>2. CASE PowerLoss
    BY <2>2, LossRestarts, PatientRestarts DEF PatientInv
  <2> QED
    BY <1>1, <2>1, <2>2, LoopKeeps
<1>2. CASE ~(pc = "loop" /\ boot # running)
  <2>1. CASE Working
    <3>1. boot = running
      BY <1>2, <2>1 DEF Working, PatientInv, EnabledWaits
    <3> QED
      BY <2>1, <3>1 DEF Working, Keeps
  <2>2. CASE Waiting
    BY <2>2 DEF Waiting, Keeps, flashVars, WaitingLabels
  <2>3. CASE Enabling
    <3>1. boot = running
      BY <2>3 DEF Enabling, PatientInv, EnabledWaits, WaitingLabels
    <3> QED
      BY <2>3, <3>1 DEF Enabling, EnableImageSucceeds, Enables
  <2>4. CASE Restarting
    BY <2>4, PatientRestarts
  <2>5. CASE ContinueLoop
    BY <2>5 DEF ContinueLoop, Goto, Keeps, flashVars
  <2> QED
    BY <2>1, <2>2, <2>3, <2>4, <2>5, AnyStepKinds DEF PatientInv
<1> QED
  BY <1>1, <1>2

(* The inductive step.                                                      *)
LEMMA StepPatient ==
  PatientInv /\ [Next]_vars /\ [boot # running => ~StartUpdate]_vars => PatientInv'
<1> SUFFICES ASSUME PatientInv, [Next]_vars, [boot # running => ~StartUpdate]_vars
             PROVE  PatientInv'
  OBVIOUS
<1>1. SafeInv'
  BY StepSafe DEF PatientInv
<1>2. boot # running => ~StartUpdate
  BY DEF vars, StartUpdate, AcceptUpdate, downloadVars, Goto
<1> QED
  BY <1>1, <1>2, PatientSteps, PatientFacts
     DEF PatientInv, EnabledWaits, Keeps, Enables, Reboots, WaitingLabels

(* The promises that run example_restart finds broken are kept by any       *)
(* application, resetting or not, as long as it accepts no second update    *)
(* before the restart into the first: the partition selected is whole, a    *)
(* restart runs what is enabled, and an update is atomic.                   *)
THEOREM OneUpdatePerRestart ==
  Spec /\ AcceptsNoSecond => []BootIntact /\ RestartRunsEnabled /\ AtomicSpec
<1>1. PatientInv => BootIntact
  BY PatientFacts DEF BootIntact
<1>2. ASSUME PatientInv, [Next]_vars, [boot # running => ~StartUpdate]_vars
      PROVE  /\ [pc' = "init" /\ pc # "init" => running' = boot]_vars
             /\ [Atomic!Next]_<<RunningImage, ImageOf(flash[boot])>>
  <2>1. boot # running => ~StartUpdate
    BY <1>2 DEF vars, StartUpdate, AcceptUpdate, downloadVars, Goto
  <2>2. Keeps \/ Enables \/ Reboots
    BY <1>2, <2>1, PatientSteps
  <2>3. pc' = "init" /\ pc # "init" => running' = boot
    BY <1>2, <2>1, PatientSteps DEF Reboots
  <2> QED
    BY <2>2, <2>3, AtomicStep
<1> QED
  BY <1>1, <1>2, AtomicInit, InitPatient, StepPatient, PTL
     DEF Spec, AcceptsNoSecond, RestartRunsEnabled, AtomicSpec, Atomic!Spec, RunningImage

-----------------------------------------------------------------------------
(***************************************************************************)
(* The download, for either application                                    *)
(***************************************************************************)
DownloadInv == SafeInv /\ ErasedBefore /\ ContiguousDownload

(* No step but those of a download changes the partition it writes to.      *)
LEMMA OutsideDownload ==
  ASSUME SafeInv, [Next]_vars, pc' \in OtaLabels
  PROVE  \/ pc = "platform_init" /\ BeginImage
         \/ ParseRequestUrl
         \/ DownloadImage
         \/ pc' = pc /\ UNCHANGED <<flashVars, downloadVars>>
<1> USE DEF Goto, ReturnsFailure, OtaLabels, deviceVars
<1>1. CASE (\E r \in Requests : CloudRequests(r)) \/ UNCHANGED vars
  BY <1>1 DEF CloudRequests, vars, downloadVars
<1>2. CASE \/ Setup \/ ProcessLoop \/ StartUpdate \/ DecideAgainst \/ ResetDevice
           \/ ContinueLoop \/ HeapFault \/ PowerLoss
  BY <1>2 DEF Setup, ProcessLoop, StartUpdate, AcceptUpdate, DecideAgainst, ResetDevice,
              ContinueLoop, HeapFault, PowerLoss, Restart, downloadVars
<1>3. CASE ContinueUpdate
  BY <1>3 DEF ContinueUpdate, AcceptSteps, SendAccept, SendInProgress, SendUpdateResults,
              BeginImage, VerifyImage, EnableImage
<1> QED
  BY <1>1, <1>2, <1>3 DEF Next

(* No download is under way at first.                                       *)
LEMMA InitDownload == Init => DownloadInv
  BY InitSafe DEF DownloadInv, ErasedBefore, ContiguousDownload, Init, DownloadInit

(* A chunk that starts where the programmed cells end extends them.         *)
LEMMA ChunkExtends ==
  ASSUME NEW c \in Contents, NEW offset \in Nat, NEW n \in Nat, NEW val, val # Erased,
         \A k \in Cells : (k < offset) <=> c[k] # Erased
  PROVE  \A k \in Cells : (k < offset + n) <=> WriteCells(c, offset, n, val)[k] # Erased
<1> SUFFICES ASSUME NEW k \in Cells
             PROVE  (k < offset + n) <=> WriteCells(c, offset, n, val)[k] # Erased
  OBVIOUS
<1>1. k \in Nat
  BY DEF Cells
<1>2. WriteCells(c, offset, n, val)[k] =
        IF k \in offset .. offset + n - 1 THEN Programmed(c[k], val) ELSE c[k]
  BY DEF WriteCells
<1>3. CASE k \in offset .. offset + n - 1
  <2>1. c[k] = Erased
    BY <1>1, <1>3
  <2> QED
    BY <1>1, <1>2, <1>3, <2>1 DEF Programmed
<1>4. CASE k \notin offset .. offset + n - 1
  <2>1. k < offset <=> k < offset + n
    BY <1>1, <1>4
  <2> QED
    BY <1>2, <1>4, <2>1
<1> QED
  BY <1>3, <1>4

(* The inductive step: a chunk extends the cells programmed.                *)
LEMMA StepDownload == DownloadInv /\ [Next]_vars => DownloadInv'
<1> SUFFICES ASSUME DownloadInv, [Next]_vars PROVE DownloadInv'
  OBVIOUS
<1> USE DEF Goto, ReturnsFailure
<1>1. SafeInv' /\ FlashTypeOK /\ current_offset \in Nat
  BY StepSafe DEF DownloadInv, SafeInv, TypeOK
<1>2. CASE pc' \notin OtaLabels
  BY <1>1, <1>2 DEF DownloadInv, ErasedBefore, ContiguousDownload, OtaLabels
<1>3. CASE pc' = pc /\ UNCHANGED <<flashVars, downloadVars>>
  BY <1>1, <1>3 DEF DownloadInv, ErasedBefore, ContiguousDownload, flashVars, downloadVars
<1>4. CASE pc = "platform_init" /\ BeginImage /\ pc' \in OtaLabels
  <2>1. PlatformInitSucceeds /\ pc' = "parse_url"
    BY <1>4 DEF BeginImage, OtaLabels
  <2>2. flash'[image'.partition] = EraseCells(flash[UpdatePartition], PartitionSize)
    BY <1>1, <2>1, RunningFacts DEF DownloadInv, PlatformInitSucceeds, FlashTypeOK
  <2>3. \A k \in Cells : flash'[image'.partition][k] = Erased
    BY <2>2, FlashAssumption DEF EraseCells, Cells
  <2> QED
    BY <1>1, <2>1, <2>3 DEF DownloadInv, ErasedBefore, ContiguousDownload
<1>5. CASE ParseRequestUrl
  BY <1>1, <1>5 DEF ParseRequestUrl, ParseUrl, flashVars, DownloadInv, ErasedBefore,
                    ContiguousDownload
<1>6. CASE DownloadImage /\ pc' \in OtaLabels
  <2> USE DEF DownloadImage, FileDownload, OtaLabels
  <2>1. CASE HttpConnect
    BY <1>1, <2>1 DEF HttpConnect, DownloadInv, ErasedBefore, ContiguousDownload
  <2>2. ASSUME NEW size \in 0 .. MaxResource, GetResourceSize(size) PROVE DownloadInv'
    <3>1. /\ pc = "get_size" /\ pc' = "download" /\ current_offset' = 0
          /\ flash'[image'.partition] = flash[image.partition]
      BY <1>1, <2>2 DEF GetResourceSize, FlashTypeOK
    <3>2. \A k \in Cells : flash'[image'.partition][k] = Erased /\ ~(k < current_offset')
      BY <3>1 DEF DownloadInv, ErasedBefore, Cells
    <3> QED
      BY <1>1, <3>1, <3>2 DEF DownloadInv, ErasedBefore, ContiguousDownload
  <2>3. ASSUME NEW n \in 0 .. MaxPayload, NEW val \in ServedContents, ReceiveChunk(n, val)
        PROVE  DownloadInv'
    <3>1. n \in Nat /\ val # Erased
      BY DownloadAssumption, FlashAssumption
    <3>2. /\ pc = "download" /\ pc' = "download"
          /\ current_offset' = current_offset + n
          /\ image' = image
          /\ flash' = [flash EXCEPT ![image.partition] =
                         WriteCells(@, current_offset, n, val)]
      BY <2>3 DEF ReceiveChunk, WriteBlockSucceeds, NextOffset
    <3>3. flash[image.partition] \in Contents
      BY <1>1 DEF FlashTypeOK
    <3>4. flash'[image'.partition] = WriteCells(flash[image.partition], current_offset, n, val)
      BY <1>1, <3>2 DEF FlashTypeOK
    <3>5. \A k \in Cells : (k < current_offset') <=> flash'[image'.partition][k] # Erased
      BY <1>1, <3>1, <3>2, <3>3, <3>4, ChunkExtends DEF DownloadInv, ContiguousDownload
    <3> QED
      BY <1>1, <3>2, <3>5 DEF DownloadInv, ErasedBefore, ContiguousDownload
  <2>4. CASE ConnectionLost \/ Reconnect \/ DownloadDone
    BY <1>1, <2>4 DEF ConnectionLost, Reconnect, DownloadDone, flashVars, DownloadInv,
                      ErasedBefore, ContiguousDownload
  <2> QED
    BY <1>6, <2>1, <2>2, <2>3, <2>4 DEF HttpConnectFails, GetResourceSizeFails,
       ChunkWriteFails, ReconnectFails, RequestFails
<1> QED
  BY <1>2, <1>3, <1>4, <1>5, <1>6, OutsideDownload DEF DownloadInv

(* While an image is downloaded, exactly the cells below the offset are     *)
(* programmed: whatever the sizes of the responses, the reconnections and   *)
(* the requests repeated.                                                   *)
THEOREM DownloadIsContiguous == Spec => []ContiguousDownload
<1>1. DownloadInv => ContiguousDownload
  BY DEF DownloadInv
<1> QED
  BY <1>1, InitDownload, StepDownload, PTL DEF Spec

-----------------------------------------------------------------------------
(***************************************************************************)
(* The length of an update                                                 *)
(***************************************************************************)
OffsetInPartition == current_offset <= PartitionSize

OffsetInv == SafeInv /\ OffsetInPartition

(* A block is only written where it fits, and only a block written moves    *)
(* the offset on.                                                           *)
LEMMA StepOffset == OffsetInv /\ [Next]_vars => OffsetInv'
<1> SUFFICES ASSUME OffsetInv, [Next]_vars PROVE OffsetInPartition'
  BY StepSafe DEF OffsetInv
<1>0. PartitionSize \in Nat
  BY FlashAssumption
<1> USE DEF OffsetInv, OffsetInPartition, downloadVars
<1>1. CASE (\E r \in Requests : CloudRequests(r)) \/ UNCHANGED vars
  BY <1>1 DEF CloudRequests, vars, deviceVars
<1>2. CASE Setup \/ ProcessLoop \/ StartUpdate \/ DecideAgainst \/ ContinueLoop
  BY <1>2 DEF Setup, ProcessLoop, StartUpdate, AcceptUpdate, DecideAgainst, ContinueLoop
<1>3. CASE ResetDevice \/ HeapFault \/ PowerLoss
  <2>1. current_offset' = 0
    BY <1>3 DEF ResetDevice, HeapFault, PowerLoss, Restart
  <2> QED
    BY <1>0, <2>1
<1>4. CASE ContinueUpdate
  <2>1. CASE \/ \E ok \in BOOLEAN : SendAccept(ok) \/ SendInProgress(ok) \/ SendUpdateResults(ok)
             \/ BeginImage \/ ParseRequestUrl \/ VerifyImage \/ EnableImage
    BY <2>1 DEF SendAccept, SendInProgress, SendUpdateResults, BeginImage, ParseRequestUrl,
                ParseUrl, VerifyImage, EnableImage
  <2>2. CASE DownloadImage
    BY <1>0, <2>2 DEF DownloadImage, FileDownload, HttpConnect, HttpConnectFails,
       GetResourceSize, GetResourceSizeFails, ReceiveChunk, NextOffset, WriteBlockSucceeds,
       ChunkWriteFails, ConnectionLost, Reconnect, ReconnectFails, RequestFails, DownloadDone
  <2> QED
    BY <1>4, <2>1, <2>2 DEF ContinueUpdate, AcceptSteps
<1> QED
  BY <1>1, <1>2, <1>3, <1>4 DEF Next

(* The offset never leaves the partition, whatever size the server gave.    *)
THEOREM OffsetStaysInPartition == Spec => []OffsetInPartition
<1>1. Init => OffsetInv
  BY InitSafe, FlashAssumption DEF Init, DownloadInit, OffsetInv, OffsetInPartition
<1>2. OffsetInv => OffsetInPartition
  BY DEF OffsetInv
<1> QED
  BY <1>1, <1>2, StepOffset, PTL DEF Spec

(* What is left of an update by its stages.                                 *)
LEMMA StagesShorten ==
  ASSUME OffsetInv, OffsetInv', ContinueUpdate, ~AsksAgain
  PROVE  \/ Stage[pc'] \in 0 .. 3 /\ Stage[pc] \in Stage[pc'] + 1 .. 10
         \/ Stage[pc] \in 5 .. 10 /\ Stage[pc'] \in 4 .. Stage[pc] - 1
         \/ Stage[pc] = 4 /\ Stage[pc'] = 4 /\ current_offset' > current_offset
<1> USE DEF Goto, ReturnsFailure, Stage
<1>1. CASE \E ok \in BOOLEAN : SendAccept(ok) \/ SendInProgress(ok) \/ SendUpdateResults(ok)
  BY <1>1 DEF SendAccept, SendInProgress, SendUpdateResults
<1>2. CASE BeginImage \/ ParseRequestUrl \/ VerifyImage \/ EnableImage
  BY <1>2 DEF BeginImage, ParseRequestUrl, ParseUrl, VerifyImage, EnableImage
<1>3. CASE DownloadImage
  <2>1. ASSUME NEW n \in 0 .. MaxPayload, NEW val, ReceiveChunk(n, val)
        PROVE  Stage[pc] = 4 /\ Stage[pc'] = 4 /\ current_offset' > current_offset
    <3>1. pc = "download" /\ pc' = "download" /\ current_offset' = current_offset + n
      BY <2>1 DEF ReceiveChunk, NextOffset
    <3>2. current_offset \in Nat /\ n \in Nat
      BY DownloadAssumption DEF OffsetInv, SafeInv, TypeOK
    <3>3. current_offset' # current_offset
      BY <3>1 DEF AsksAgain
    <3> QED
      BY <3>1, <3>2, <3>3
  <2>2. CASE ConnectionLost \/ Reconnect
    BY <2>2 DEF ConnectionLost, Reconnect, AsksAgain
  <2>3. CASE \/ HttpConnect \/ HttpConnectFails
             \/ \E size \in 0 .. MaxResource : GetResourceSize(size)
             \/ GetResourceSizeFails \/ ReconnectFails \/ RequestFails \/ DownloadDone
    BY <2>3 DEF HttpConnect, HttpConnectFails, GetResourceSize, GetResourceSizeFails,
       ReconnectFails, RequestFails, DownloadDone
  <2>4. CASE \E n \in 0 .. MaxPayload, val \in ServedContents : ChunkWriteFails(n, val)
    BY <2>4 DEF ChunkWriteFails
  <2> QED
    BY <1>3, <2>1, <2>2, <2>3, <2>4 DEF DownloadImage, FileDownload
<1> QED
  BY <1>1, <1>2, <1>3 DEF ContinueUpdate, AcceptSteps

(* Every step of an update but the repetition of a request for a range      *)
(* leaves less of it: with ranges answered it comes to an end.              *)
THEOREM UpdatesComeToAnEnd == Spec => UpdateShortens
<1>1. Init => OffsetInv
  BY InitSafe, FlashAssumption DEF Init, DownloadInit, OffsetInv, OffsetInPartition
<1>2. ASSUME OffsetInv, [Next]_vars, ContinueUpdate, ~AsksAgain
      PROVE  UpdateRemaining' \in 0 .. UpdateRemaining - 1
  <2>1. OffsetInv'
    BY <1>2, StepOffset
  <2>2. /\ PartitionSize \in Nat /\ current_offset \in 0 .. PartitionSize
        /\ current_offset' \in 0 .. PartitionSize
    BY <1>2, <2>1, FlashAssumption DEF OffsetInv, OffsetInPartition, SafeInv, TypeOK
  <2> DEFINE s == Stage[pc]
             t == Stage[pc']
  <2>3. \/ t \in 0 .. 3 /\ s \in t + 1 .. 10
        \/ s \in 5 .. 10 /\ t \in 4 .. s - 1
        \/ s = 4 /\ t = 4 /\ current_offset' > current_offset
    BY <1>2, <2>1, StagesShorten
  <2>4. UpdateRemaining = IF s > 4 THEN s + PartitionSize
                          ELSE IF s = 4 THEN s + PartitionSize - current_offset ELSE s
    BY DEF UpdateRemaining
  <2>5. UpdateRemaining' = IF t > 4 THEN t + PartitionSize
                           ELSE IF t = 4 THEN t + PartitionSize - current_offset' ELSE t
    BY DEF UpdateRemaining, Stage
  <2> HIDE DEF s, t
  <2> QED
    BY <2>2, <2>3, <2>4, <2>5
<1>3. OffsetInv /\ [Next]_vars =>
        [ContinueUpdate /\ ~AsksAgain => UpdateRemaining' \in 0 .. UpdateRemaining - 1]_vars
  BY <1>2
<1> QED
  BY <1>1, <1>3, StepOffset, PTL DEF Spec, UpdateShortens

-----------------------------------------------------------------------------
(***************************************************************************)
(* What comes before an image is enabled                                   *)
(***************************************************************************)
ReportedLabels == OtaLabels \cup {"send_in_progress", "platform_init", "enable"}

ReportedInv == SafeInv /\ ReportedBefore

(* Nothing is accepted at first.                                            *)
LEMMA InitReported == Init => ReportedInv
  BY InitSafe DEF ReportedInv, ReportedBefore, OtaLabels, Init, DownloadInit

(* Between the acceptance of a request and the enabling of its image        *)
(* neither the request nor what the service was told changes.               *)
LEMMA StepUnderWay ==
  ASSUME [Next]_vars, pc' \in ReportedLabels
  PROVE  \/ pc = "send_accept" /\ SendAccept(TRUE)
         \/ pc = "send_in_progress" /\ SendInProgress(TRUE)
         \/ /\ pc \in ReportedLabels /\ pc # "send_in_progress"
            /\ pc' # "send_in_progress"
            /\ pc = "platform_init" => pc' \in OtaLabels \cup {"platform_init"}
            /\ pc' = "enable" => VerifyImage \/ (pc = "enable" /\ UNCHANGED flashVars)
            /\ UNCHANGED <<update_request, property_version, responses, reported>>
         \/ /\ pc' = pc
            /\ UNCHANGED <<flashVars, update_request, property_version, responses, reported>>
<1> USE DEF Goto, ReturnsFailure, ReportedLabels, OtaLabels, workflowVars, sentVars
<1>1. CASE (\E r \in Requests : CloudRequests(r)) \/ UNCHANGED vars
  BY <1>1 DEF CloudRequests, vars, downloadVars, deviceVars
<1>2. CASE \/ Setup \/ ProcessLoop \/ StartUpdate \/ DecideAgainst \/ ResetDevice
           \/ ContinueLoop \/ HeapFault \/ PowerLoss
  BY <1>2 DEF Setup, ProcessLoop, StartUpdate, AcceptUpdate, DecideAgainst, ResetDevice,
              ContinueLoop, HeapFault, PowerLoss, Restart, downloadVars
<1>3. CASE ContinueUpdate
  <2>1. CASE \E ok \in BOOLEAN : SendAccept(ok) \/ SendInProgress(ok) \/ SendUpdateResults(ok)
    <3>1. PICK ok \in BOOLEAN : SendAccept(ok) \/ SendInProgress(ok) \/ SendUpdateResults(ok)
      BY <2>1
    <3>2. CASE ok = TRUE
      BY <3>1, <3>2 DEF SendAccept, SendInProgress, SendUpdateResults
    <3>3. CASE ok = FALSE
      BY <3>1, <3>3 DEF SendAccept, SendInProgress, SendUpdateResults
    <3> QED
      BY <3>2, <3>3
  <2>2. CASE BeginImage \/ ParseRequestUrl
    BY <2>2 DEF BeginImage, ParseRequestUrl, ParseUrl
  <2>3. CASE DownloadImage
    BY <2>3 DEF DownloadImage, FileDownload, HttpConnect, HttpConnectFails,
       GetResourceSize, GetResourceSizeFails, ReceiveChunk, ChunkWriteFails,
       ConnectionLost, Reconnect, ReconnectFails, RequestFails, DownloadDone
  <2>4. CASE VerifyImage \/ EnableImage
    BY <2>4 DEF VerifyImage, EnableImage
  <2> QED
    BY <1>3, <2>1, <2>2, <2>3, <2>4 DEF ContinueUpdate, AcceptSteps
<1> QED
  BY <1>1, <1>2, <1>3 DEF Next

(* The inductive step: what was told is not taken back.                     *)
LEMMA StepReported == ReportedInv /\ [Next]_vars => ReportedInv'
<1> SUFFICES ASSUME ReportedInv, [Next]_vars PROVE ReportedInv'
  OBVIOUS
<1>1. SafeInv'
  BY StepSafe DEF ReportedInv
<1>2. CASE pc' \notin ReportedLabels
  BY <1>1, <1>2 DEF ReportedInv, ReportedBefore, ReportedLabels
<1>3. CASE pc = "send_accept" /\ SendAccept(TRUE)
  <2>1. AcceptSent' /\ pc' = "send_in_progress"
    BY <1>3 DEF SendAccept, SendResponse, Goto, AcceptSent, workflowVars
  <2> QED
    BY <1>1, <2>1 DEF ReportedInv, ReportedBefore, OtaLabels
<1>4. CASE pc = "send_in_progress" /\ SendInProgress(TRUE)
  <2>1. /\ AcceptSent' /\ pc' = "platform_init"
        /\ reported'.state = "DeploymentInProgress"
    BY <1>4 DEF SendInProgress, SendAgentState, Goto, AcceptSent, workflowVars, ReportedInv,
                ReportedBefore
  <2> QED
    BY <1>1, <2>1 DEF ReportedInv, ReportedBefore, OtaLabels
<1>5. CASE /\ pc \in ReportedLabels /\ pc # "send_in_progress"
           /\ pc' \in ReportedLabels /\ pc' # "send_in_progress"
           /\ pc' = "enable" => VerifyImage \/ (pc = "enable" /\ UNCHANGED flashVars)
           /\ UNCHANGED <<update_request, property_version, responses, reported>>
  <2>1. AcceptSent' /\ reported'.state = "DeploymentInProgress"
    BY <1>5 DEF ReportedInv, ReportedBefore, ReportedLabels, AcceptSent
  <2>2. pc' = "enable" => Holds(flash'[image'.partition], update_request'.image)
    <3>1. CASE pc' = "enable" /\ VerifyImage
      <4>1. /\ Holds(flash[image.partition], update_request.image)
            /\ flash' = flash
            /\ image' = [image EXCEPT !.ota = FALSE]
        BY <3>1 DEF VerifyImage, VerifyImageSucceeds, HashMatches, ReleaseOtaHandle,
                    ReturnsFailure, Goto
      <4>2. image'.partition = image.partition
        BY <4>1 DEF ReportedInv, SafeInv, TypeOK, FlashTypeOK
      <4> QED
        BY <1>5, <4>1, <4>2
    <3>2. CASE pc = "enable" /\ UNCHANGED flashVars
      BY <1>5, <3>2 DEF ReportedInv, ReportedBefore, flashVars
    <3> QED
      BY <1>5, <3>1, <3>2
  <2> QED
    BY <1>1, <2>1, <2>2 DEF ReportedInv, ReportedBefore
<1>6. CASE /\ pc' = pc
           /\ UNCHANGED <<flashVars, update_request, property_version, responses, reported>>
  BY <1>1, <1>6 DEF ReportedInv, ReportedBefore, flashVars, AcceptSent
<1> QED
  BY <1>2, <1>3, <1>4, <1>5, <1>6, StepUnderWay DEF ReportedInv

(* Only enabling an image changes the boot partition.                       *)
LEMMA BootChanges ==
  ASSUME [Next]_vars, boot' # boot
  PROVE  pc = "enable" /\ EnableImageSucceeds
<1> USE DEF Goto, ReturnsFailure, flashVars, Restart, RestartFrom
<1>1. CASE \/ (\E r \in Requests : CloudRequests(r)) \/ UNCHANGED vars
           \/ Setup \/ ProcessLoop \/ StartUpdate \/ DecideAgainst \/ ResetDevice
           \/ ContinueLoop \/ HeapFault \/ PowerLoss
  BY <1>1 DEF CloudRequests, vars, deviceVars, Setup, ProcessLoop, StartUpdate,
     AcceptUpdate, DecideAgainst, ResetDevice, ContinueLoop, HeapFault, PowerLoss
<1>2. CASE ContinueUpdate
  <2>1. CASE \/ \E ok \in BOOLEAN : SendAccept(ok) \/ SendInProgress(ok) \/ SendUpdateResults(ok)
             \/ BeginImage \/ ParseRequestUrl
    BY <2>1 DEF SendAccept, SendInProgress, SendUpdateResults, BeginImage,
       PlatformInitSucceeds, PlatformInitFails, ParseRequestUrl, ParseUrl
  <2>2. CASE DownloadImage
    BY <2>2 DEF DownloadImage, FileDownload, HttpConnect, HttpConnectFails,
       GetResourceSize, GetResourceSizeFails, ReceiveChunk, ChunkWriteFails,
       ConnectionLost, Reconnect, ReconnectFails, RequestFails, DownloadDone
  <2>3. CASE VerifyImage \/ EnableImage
    BY <2>3 DEF VerifyImage, VerifyImageSucceeds, VerifyImageFails, EnableImage,
       EnableImageFails
  <2> QED
    BY <1>2, <2>1, <2>2, <2>3 DEF ContinueUpdate, AcceptSteps
<1> QED
  BY <1>1, <1>2 DEF Next

(* What is enabled is the verified image of the request in force.           *)
LEMMA BootHolds ==
  ASSUME ReportedInv, [Next]_vars, boot' # boot
  PROVE  /\ Holds(flash'[boot'], update_request.image)
         /\ AcceptSent
         /\ reported.state = "DeploymentInProgress"
<1>1. pc = "enable" /\ EnableImageSucceeds
  BY BootChanges
<1>2. flash'[boot'] = flash[image.partition]
  BY <1>1 DEF EnableImageSucceeds
<1> QED
  BY <1>1, <1>2 DEF ReportedInv, ReportedBefore

(* The boot partition only ever changes to one that holds the image of the  *)
(* request being processed, accepted and reported before.                   *)
THEOREM OnlyRequestedImages == Spec => InstallsRequestedImage
<1>1. ReportedInv /\ [Next]_vars =>
        [boot' # boot =>
           /\ Holds(flash'[boot'], update_request.image)
           /\ [decision |-> "Accept", version |-> property_version, ok |-> TRUE] \in responses
           /\ reported.state = "DeploymentInProgress"]_vars
  BY BootHolds DEF AcceptSent
<1> QED
  BY <1>1, InitReported, StepReported, PTL DEF Spec, InstallsRequestedImage

-----------------------------------------------------------------------------
(***************************************************************************)
(* Which version is answered for a request                                 *)
(***************************************************************************)
Latest(message) ==
  /\ message.version <= desired.version
  /\ message.version = desired.version => message = desired

(* Of a version there is one request: what is under way with the latest     *)
(* version is the desired request, and so is what the workflow holds with   *)
(* it, unless it could not be read.                                         *)
VersionsMatch ==
  /\ \A i \in 1 .. Len(inbox) : Latest(inbox[i])
  /\ property_version <= desired.version
  /\ property_version = desired.version =>
       update_request = desired.request \/ ~desired.request.parses

VersionInv == ReportedInv /\ VersionsMatch

(* A restart forgets the request and its version.                           *)
Forgets ==
  /\ update_request' = NoRequest /\ property_version' = 0
  /\ inbox' = <<>> /\ desired' = desired

(* Only these steps change a request or a version.                          *)
LEMMA VersionSteps ==
  ASSUME [Next]_vars
  PROVE  \/ \E r \in Requests : CloudRequests(r)
         \/ Setup \/ ProcessLoop \/ Forgets
         \/ UNCHANGED <<update_request, property_version, desired, inbox>>
<1> USE DEF workflowVars, cloudVars
<1>1. CASE StartUpdate \/ DecideAgainst \/ ContinueLoop \/ UNCHANGED vars
  BY <1>1 DEF StartUpdate, AcceptUpdate, DecideAgainst, ContinueLoop, vars
<1>2. CASE ResetDevice \/ HeapFault \/ PowerLoss
  BY <1>2 DEF ResetDevice, HeapFault, PowerLoss, Restart, Forgets
<1>3. CASE ContinueUpdate
  BY <1>3 DEF ContinueUpdate, AcceptSteps, SendAccept, SendInProgress, SendUpdateResults,
     BeginImage, ParseRequestUrl, DownloadImage, VerifyImage, EnableImage
<1> QED
  BY <1>1, <1>2, <1>3 DEF Next

(* A request that is read replaces the one before, whatever is decided.     *)
LEMMA MessageReplaces ==
  ASSUME NEW r, NEW version, ProcessUpdateRequest(r, version)
  PROVE  property_version' = version /\ (update_request' = r \/ ~r.parses)
  BY DEF ProcessUpdateRequest, ParseFails, AuthenticationFails, Approve,
     RejectByPreRequisites, CancelRequested

(* At first there is neither a request nor a version.                       *)
LEMMA InitVersions == Init => VersionInv
  BY InitReported DEF Init, WorkflowInit, VersionInv, VersionsMatch

(* The inductive step.                                                      *)
LEMMA StepVersions == VersionInv /\ [Next]_vars => VersionInv'
<1> SUFFICES ASSUME VersionInv, [Next]_vars PROVE VersionsMatch'
  BY StepReported DEF VersionInv
<1>1. /\ desired.version \in Nat /\ property_version \in Nat
      /\ inbox \in Seq(DesiredRequests)
      /\ desired.version = 0 => desired.request = NoRequest
      /\ \A m \in DesiredRequests : m.version \in Nat \ {0}
  BY DeviceAssumption DEF VersionInv, ReportedInv, SafeInv, TypeOK, DesiredRequests
<1>2. CASE \E r \in Requests : CloudRequests(r)
  <2>1. /\ desired'.version = desired.version + 1
        /\ UNCHANGED <<property_version, update_request>>
        /\ inbox' = inbox \/ inbox' = Append(inbox, desired')
    BY <1>2 DEF CloudRequests, deviceVars, workflowVars
  <2>2. ASSUME NEW i \in 1 .. Len(inbox)
        PROVE  inbox[i].version \in Nat /\ inbox[i].version <= desired.version
    BY <1>1 DEF VersionInv, VersionsMatch, Latest
  <2>3. ASSUME NEW i \in 1 .. Len(inbox')
        PROVE  /\ inbox'[i].version <= desired'.version
               /\ inbox'[i].version = desired'.version => inbox'[i] = desired'
    <3>1. CASE i \in 1 .. Len(inbox)
      <4>1. inbox'[i] = inbox[i]
        BY <1>1, <2>1, <3>1
      <4> QED
        BY <1>1, <2>1, <2>2, <3>1, <4>1
    <3>2. CASE i \notin 1 .. Len(inbox)
      <4>1. inbox'[i] = desired'
        BY <1>1, <2>1, <2>3, <3>2
      <4> QED
        BY <1>1, <2>1, <4>1
    <3> QED
      BY <3>1, <3>2
  <2> QED
    BY <1>1, <2>1, <2>3 DEF VersionInv, VersionsMatch, Latest
<1>3. CASE Setup
  BY <1>1, <1>3 DEF Setup, workflowVars, VersionInv, VersionsMatch, Latest
<1>4. CASE ProcessLoop
  <2>1. /\ inbox # <<>> /\ inbox' = Tail(inbox) /\ desired' = desired
        /\ ProcessUpdateRequest(inbox[1].request, inbox[1].version)
    BY <1>1, <1>4 DEF ProcessLoop
  <2>2. /\ property_version' = inbox[1].version
        /\ update_request' = inbox[1].request \/ ~inbox[1].request.parses
    BY <2>1, MessageReplaces
  <2>3. Latest(inbox[1])
    BY <1>1, <2>1 DEF VersionInv, VersionsMatch
  <2>4. ASSUME NEW i \in 1 .. Len(inbox')
        PROVE  Latest(inbox'[i])
    BY <1>1, <2>1 DEF VersionInv, VersionsMatch
  <2> QED
    BY <2>1, <2>2, <2>3, <2>4 DEF VersionsMatch, Latest
<1>5. CASE Forgets
  BY <1>1, <1>5 DEF Forgets, VersionsMatch
<1>6. CASE UNCHANGED <<update_request, property_version, desired, inbox>>
  BY <1>6 DEF VersionInv, VersionsMatch, Latest
<1> QED
  BY <1>2, <1>3, <1>4, <1>5, <1>6, VersionSteps

(* What is installed under the latest version is the latest request's.      *)
THEOREM VersionsAreTrue == Spec => AcceptedVersionInstalled
<1>1. VersionInv /\ [Next]_vars =>
        [boot' # boot /\ property_version = desired.version /\ desired.request.parses
           => Holds(flash'[boot'], desired.request.image)]_vars
  BY BootHolds DEF VersionInv, VersionsMatch
<1> QED
  BY <1>1, InitVersions, StepVersions, PTL DEF Spec, AcceptedVersionInstalled

-----------------------------------------------------------------------------
(***************************************************************************)
(* Which requests can still be installed                                   *)
(***************************************************************************)
Pending == has_update \/ pc \in ReportedLabels \cup {"send_accept"}

PendingInv ==
  SafeInv /\ (Pending => update_request \in Requests /\ ~Refused(update_request))

(* Nothing is pending at first.                                             *)
LEMMA InitPending == Init => PendingInv
  BY InitSafe DEF PendingInv, Pending, ReportedLabels, OtaLabels, Init, DownloadInit, WorkflowInit

(* A message that the device reads as a refusal leaves nothing pending; one *)
(* that it cannot read, or cannot authenticate, may replace what is pending *)
(* but is no refusal itself.                                                *)
LEMMA MessagePending ==
  ASSUME PendingInv, NEW r \in Requests, NEW version, ProcessUpdateRequest(r, version), has_update'
  PROVE  update_request' \in Requests /\ ~Refused(update_request')
<1>1. CASE ParseFails(r)
  BY <1>1 DEF ParseFails, PendingInv, Pending, Refused
<1>2. CASE AuthenticationFails(r)
  BY <1>2 DEF AuthenticationFails, Refused
<1>3. CASE Approve(r)
  BY <1>3 DEF Approve, Refused
<1>4. CASE RejectByPreRequisites(r, version)
  BY <1>4 DEF RejectByPreRequisites, RejectUpdate, CancelUpdate
<1>5. CASE CancelRequested(r)
  BY <1>5 DEF CancelRequested, CancelUpdate
<1> QED
  BY <1>1, <1>2, <1>3, <1>4, <1>5 DEF ProcessUpdateRequest

(* No other step makes a request pending or replaces the one that is.       *)
LEMMA StillPending ==
  ASSUME [Next]_vars, ~ProcessLoop, Pending'
  PROVE  Pending /\ update_request' = update_request
<1> USE DEF Goto, ReturnsFailure, Pending, ReportedLabels, OtaLabels, workflowVars
<1>1. CASE (\E r \in Requests : CloudRequests(r)) \/ UNCHANGED vars
  BY <1>1 DEF CloudRequests, vars, deviceVars, downloadVars
<1>2. CASE \/ Setup \/ StartUpdate \/ ContinueLoop \/ ResetDevice \/ HeapFault \/ PowerLoss
  BY <1>2 DEF Setup, StartUpdate, AcceptUpdate, ContinueLoop, ResetDevice, HeapFault,
              PowerLoss, Restart
<1>3. CASE DecideAgainst
  BY <1>3 DEF DecideAgainst, downloadVars
<1>4. CASE ContinueUpdate
  <2>1. CASE \E ok \in BOOLEAN : SendAccept(ok) \/ SendInProgress(ok) \/ SendUpdateResults(ok)
    BY <2>1 DEF SendAccept, SendInProgress, SendUpdateResults
  <2>2. CASE BeginImage \/ ParseRequestUrl \/ VerifyImage \/ EnableImage
    BY <2>2 DEF BeginImage, ParseRequestUrl, ParseUrl, VerifyImage, EnableImage
  <2>3. CASE DownloadImage
    BY <2>3 DEF DownloadImage, FileDownload, HttpConnect, HttpConnectFails,
       GetResourceSize, GetResourceSizeFails, ReceiveChunk, ChunkWriteFails,
       ConnectionLost, Reconnect, ReconnectFails, RequestFails, DownloadDone
  <2> QED
    BY <1>4, <2>1, <2>2, <2>3 DEF ContinueUpdate, AcceptSteps
<1> QED
  BY <1>1, <1>2, <1>3, <1>4 DEF Next

(* The inductive step.                                                      *)
LEMMA StepPending == PendingInv /\ [Next]_vars => PendingInv'
<1> SUFFICES ASSUME PendingInv, [Next]_vars PROVE PendingInv'
  OBVIOUS
<1>1. SafeInv'
  BY StepSafe DEF PendingInv
<1>2. ASSUME ProcessLoop, Pending' PROVE update_request' \in Requests /\ ~Refused(update_request')
  <2>1. Head(inbox).request \in Requests
    <3>1. inbox # <<>> /\ inbox \in Seq(DesiredRequests)
      BY <1>2 DEF ProcessLoop, PendingInv, SafeInv, TypeOK
    <3>2. Head(inbox) \in DesiredRequests
      BY <3>1, HeadTailProperties
    <3> QED
      BY <3>2 DEF DesiredRequests
  <2>2. has_update'
    BY <1>2 DEF ProcessLoop, downloadVars, Pending, ReportedLabels, OtaLabels
  <2> QED
    BY <1>2, <2>1, <2>2, MessagePending DEF ProcessLoop
<1>3. ASSUME ~ProcessLoop, Pending'
      PROVE  update_request' \in Requests /\ ~Refused(update_request')
  BY <1>3, StillPending DEF PendingInv, Refused
<1>4. Refused(update_request)' <=> Refused(update_request')
  BY DEF Refused, ValidatePreRequisites, GetSingleFlashBootBankSize
<1> QED
  BY <1>1, <1>2, <1>3, <1>4 DEF PendingInv

(* A request that was cancelled, or that the prerequisites refused, is      *)
(* never installed, whatever was pending when it came.                      *)
THEOREM RefusedStayOut == Spec => RefusedNotInstalled
<1>1. PendingInv /\ [Next]_vars => [boot' # boot => ~Refused(update_request)]_vars
  BY BootChanges DEF PendingInv, Pending, ReportedLabels
<1> QED
  BY <1>1, InitPending, StepPending, PTL DEF Spec, RefusedNotInstalled

(* So what is installed without having been vetted is a request that the    *)
(* device could not read or could not authenticate: a service that makes    *)
(* none of these only sees vetted requests installed.                       *)
THEOREM OnlyVettedWhenWellFormed ==
  ASSUME \A r \in Requests : r.parses /\ r.authentic
  PROVE  Spec => InstallsVettedRequest
<1>1. ASSUME PendingInv, [Next]_vars, boot' # boot PROVE Vetted(update_request)
  <2>1. pc = "enable"
    BY <1>1, BootChanges
  <2>2. update_request \in Requests /\ ~Refused(update_request)
    BY <1>1, <2>1 DEF PendingInv, Pending, ReportedLabels
  <2> QED
    BY <2>2 DEF Refused, Vetted
<1>2. PendingInv /\ [Next]_vars => [boot' # boot => Vetted(update_request)]_vars
  BY <1>1
<1> QED
  BY <1>2, InitPending, StepPending, PTL DEF Spec, InstallsVettedRequest

-----------------------------------------------------------------------------
(***************************************************************************)
(* What is left of the heap.  An update that fails while it holds its OTA  *)
(* handle leaves it behind, and one whose first connection fails leaves    *)
(* its HTTP context as well; nothing else does.                            *)
(***************************************************************************)
ConnectionFails == pc = "http_connect" /\ pc' = "loop"

FailsWithHandle == pc \in OtaLabels \ {"verify"} /\ pc' = "loop"

ContextsCounted == http_contexts = IF pc \in HttpLabels THEN 1 ELSE 0

HandlesCounted == ota_handles = IF pc \in OtaLabels THEN 1 ELSE 0

(* What a step does to the two counters.                                    *)
LEMMA HeapSteps ==
  ASSUME [Next]_vars
  PROVE  \/ ota_handles' = 0 /\ http_contexts' = 0 /\ pc' = "init"
         \/ /\ UNCHANGED <<ota_handles, http_contexts>>
            /\ pc' \in OtaLabels <=> pc \in OtaLabels
            /\ pc' \in HttpLabels <=> pc \in HttpLabels
         \/ /\ pc = "platform_init" /\ pc' = "parse_url"
            /\ ota_handles' = ota_handles + 1 /\ UNCHANGED http_contexts
         \/ /\ pc = "verify" /\ pc' \notin OtaLabels
            /\ ota_handles' = ota_handles - 1 /\ UNCHANGED http_contexts
         \/ /\ pc = "http_connect" /\ pc' \in {"get_size", "loop"}
            /\ http_contexts' = http_contexts + 1 /\ UNCHANGED ota_handles
         \/ /\ pc \in HttpLabels /\ pc' \in {"verify", "loop"}
            /\ http_contexts' = http_contexts - 1 /\ UNCHANGED ota_handles
         \/ /\ pc = "parse_url" /\ pc' = "loop"
            /\ UNCHANGED <<ota_handles, http_contexts>>
<1> USE DEF Goto, ReturnsFailure, OtaLabels, HttpLabels, flashVars, downloadVars
<1>1. CASE \/ (\E r \in Requests : CloudRequests(r)) \/ UNCHANGED vars
           \/ Setup \/ ProcessLoop \/ StartUpdate \/ DecideAgainst \/ ContinueLoop
  BY <1>1 DEF CloudRequests, vars, deviceVars, Setup, ProcessLoop, StartUpdate,
     AcceptUpdate, DecideAgainst, ContinueLoop
<1>2. CASE ResetDevice \/ HeapFault \/ PowerLoss
  BY <1>2 DEF ResetDevice, HeapFault, PowerLoss, Restart, RestartFrom
<1>3. CASE ContinueUpdate
  <2>1. CASE \E ok \in BOOLEAN : SendAccept(ok) \/ SendInProgress(ok) \/ SendUpdateResults(ok)
    BY <2>1 DEF SendAccept, SendInProgress, SendUpdateResults
  <2>2. CASE BeginImage \/ ParseRequestUrl
    BY <2>2 DEF BeginImage, PlatformInitSucceeds, PlatformInitFails, ParseRequestUrl, ParseUrl
  <2>3. CASE DownloadImage
    BY <2>3 DEF DownloadImage, FileDownload, HttpConnect, HttpConnectFails,
       GetResourceSize, GetResourceSizeFails, ReceiveChunk, ChunkWriteFails,
       ConnectionLost, Reconnect, ReconnectFails, RequestFails, DownloadDone,
       DisconnectAndFree
  <2>4. CASE VerifyImage \/ EnableImage
    BY <2>4 DEF VerifyImage, VerifyImageSucceeds, VerifyImageFails, ReleaseOtaHandle,
       EnableImage, EnableImageSucceeds, EnableImageFails
  <2> QED
    BY <1>3, <2>1, <2>2, <2>3, <2>4 DEF ContinueUpdate, AcceptSteps
<1> QED
  BY <1>1, <1>2, <1>3 DEF Next

(* The claim that run http_context finds violated holds as long as no first *)
(* connection of a download fails: whatever else fails frees the context,   *)
(* a size not given, a lost connection, a failed write, in any update.      *)
THEOREM OnlyConnectionsLeakContexts ==
  Spec /\ [][~ConnectionFails]_vars => []HttpContextReleased
<1>1. Init => ContextsCounted
  BY DEF Init, FlashInit, DownloadInit, ContextsCounted, HttpLabels
<1>2. ContextsCounted /\ [Next]_vars /\ [~ConnectionFails]_vars => ContextsCounted'
  <2> SUFFICES ASSUME ContextsCounted, [Next]_vars, [~ConnectionFails]_vars
               PROVE  ContextsCounted'
    OBVIOUS
  <2>1. ~(pc = "http_connect" /\ pc' = "loop")
    BY DEF ConnectionFails, vars, downloadVars
  <2> QED
    BY <2>1, HeapSteps DEF ContextsCounted, HttpLabels, OtaLabels
<1>3. ContextsCounted => HttpContextReleased
  BY DEF ContextsCounted, HttpContextReleased, HttpLabels
<1> QED
  BY <1>1, <1>2, <1>3, PTL DEF Spec

(* And as long as no update fails while it holds its handle, the loop finds *)
(* the heap as it was at the start, and one with room for an update has     *)
(* room for the handle and for the context of each that follows: only what  *)
(* such failures leave behind can stop a good update for good.              *)
THEOREM OnlyFailuresFillHeap ==
  ASSUME HeapSlots >= 2
  PROVE  Spec /\ [][~FailsWithHandle]_vars =>
           /\ [](pc \notin OtaLabels => ota_handles = 0 /\ http_contexts = 0)
           /\ [](pc \in {"platform_init", "http_connect"} => HeapAvailable)
<1> DEFINE Counted == ContextsCounted /\ HandlesCounted
<1>1. Init => Counted
  BY DEF Init, FlashInit, DownloadInit, ContextsCounted, HandlesCounted, HttpLabels, OtaLabels
<1>2. Counted /\ [Next]_vars /\ [~FailsWithHandle]_vars => Counted'
  <2> SUFFICES ASSUME Counted, [Next]_vars, [~FailsWithHandle]_vars PROVE Counted'
    OBVIOUS
  <2>1. ~(pc \in OtaLabels \ {"verify"} /\ pc' = "loop")
    BY DEF FailsWithHandle, vars, downloadVars, OtaLabels
  <2> QED
    BY <2>1, HeapSteps DEF ContextsCounted, HandlesCounted, HttpLabels, OtaLabels
<1>3. Counted => (pc \notin OtaLabels => ota_handles = 0 /\ http_contexts = 0)
  BY DEF ContextsCounted, HandlesCounted, HttpLabels, OtaLabels
<1>4. Counted => (pc \in {"platform_init", "http_connect"} => HeapAvailable)
  BY FlashAssumption
     DEF ContextsCounted, HandlesCounted, HttpLabels, OtaLabels, HeapAvailable
<1> QED
  BY <1>1, <1>2, <1>3, <1>4, PTL DEF Spec
=============================================================================
