# A formal model of the ESP32 Azure IoT component

TLA+ modules, TLC runs and TLAPS proofs about this repository: an ESP-IDF
component (`src/components/esp32_iot_azure`) that wraps the Azure IoT
middleware for FreeRTOS, and an application (`src/main`) that shows its use.
Paths below are relative to `src/`; `C` stands for `components/esp32_iot_azure`.

    tlc -config MCDeviceUpdate.cfg MCDeviceUpdate      # any run of PROJECT.json
    tlc -config MCAppMain.cfg MCAppMain
    tlapm DeviceUpdateProofs.tla                       # the proofs
    tlapm AppMainProofs.tla

## 1. Inventory

The program is one FreeRTOS task that makes blocking calls; callbacks run inside
`azure_iot_hub_process_loop`, on the same task. Concurrency comes from outside:
the service, the broker and the HTTP server act between any two calls, a
connection may break under any of them, power may go at any moment, and the
ESP-IDF event task writes two flags of the Wi-Fi helper.

| Component (source) | State it keeps | Operations | Talks to |
|---|---|---|---|
| Device Update workflow (`C/src/azure_iot_adu_workflow.c`) | the request parsed last, `has_update`, the property version | init, process a request, accept, reject, cancel, reset | ADU client, download, flash port |
| ADU client (`C/src/azure_iot_adu.c`) | options of the middleware's client | parse a request, send a response, send the agent state | hub client |
| Image download (`C/src/extension/azure_iot_adu_extension.c`, `..._http_client_extension.c`, `C/src/azure_iot_http_client.c`) | the HTTP context, the offset of the download | url check, create/connect/free, size, chunk loop with reconnection | transport, a callback into the workflow that writes to flash |
| Flash port (`C/src/port/azure_iot_flash_platform_port.c`) | the image being written; behind it the OTA partitions and the OTA data | bank size, init (erase), write block, verify, enable, reset | `esp_ota_*`, bootloader |
| Transport (`C/src/infrastructure/transport.c`, `azure_transport_interface.c`) | a handle, where it connects to | create, connect, read, write, disconnect, free; reconnects by itself | back-off, `esp_transport` |
| Back-off (`C/src/infrastructure/backoff_algorithm.c`) | attempts done, ceiling of the next delay | initialise, next delay | `esp_random` |
| Hub client (`C/src/azure_iot_hub.c`) | middleware client, its transport | connect, disconnect, subscribe, send, process loop | transport, middleware (MQTT) |
| Provisioning (`C/src/azure_iot_provisioning.c`) | middleware client, its transport | register (repeated while pending), get device and hub | transport, middleware |
| Example applications (`main/examples/*`) | brightness, restart flag, contexts | set-up, loop, property and command callbacks | everything above |
| Start-up (`main/main.c`, `main/helper/*`) | Wi-Fi flags | NVS, Wi-Fi, DNS, SNTP, then the examples; aborts on failure | ESP-IDF |
| Crypto, certificates, time, JSON helpers (`C/src/infrastructure/*`, `C/src/extension/*`) | none | conversions and wrappers | mbedtls, middleware |

How an update goes: the property callback hands the desired ADU property to
`azure_adu_workflow_process_update_request`, which parses it *into the one
request the workflow has*, authenticates its manifest and sets `has_update`. The
loop of the application sees the flag and calls `azure_adu_workflow_accept_update`,
one long call that sends the response and the agent state, erases the update
partition, downloads the file range by range into it, compares the SHA-256 and
selects the partition for the next boot. After a reset the new image reports Idle,
which is how the service learns of the success.

How the shipped program goes: `app_main` starts NVS, Wi-Fi, DNS and SNTP, asks the
provisioning service for the device's hub, and runs the hub example on it. That one
connects its transport and MQTT, subscribes to three topics, asks for the whole
document of desired properties and reports its state; then it sends telemetry and
calls `azure_iot_hub_process_loop` until a "restart" command arrived. The document,
the patches and the commands come in one stream, and are handled inside whatever
call waits for the hub, the waits for the acknowledgements of the subscriptions
included. Any failure on the way aborts, and the device starts over with the
service knowing what it knew.

What is hard: a loss of power between any two of those calls or half-way through
the erase; requests that arrive, are refused or are withdrawn around an update in
progress; the whole desired document delivered again after each restart; failures
at each step that leave an OTA handle or an HTTP context allocated; lost
connections in the middle of a response, with the same range asked for again; a
transport that replaces its connection without telling MQTT or HTTP; 16-bit delay
arithmetic; a patch that meets the device between its subscription and its
document; two flags stored by one task and polled by another. PROJECT.json lists each of these at its line under `hazards`, with the
property that looks for it.

What makes each part correct:

- update: the running partition is never written; what is selected for the next
  boot is a whole image, the one of the request that was accepted; a device
  changes image in two atomic steps (enable, restart); a good request that is the
  last one ends with its image running;
- workflow: only vetted requests are installed, each refusal is answered, nothing
  that fails the deployment is sent between enabling and restart;
- download: no gap, no cell programmed twice, and an end to every call;
- transport and back-off: a bounded number of attempts and a bounded sleep per
  call, no connection made over an open one, true results, and an end to every call;
- hub and provisioning: no connection outlives its client; a session that is lost
  comes back; registration ends;
- property handling: the device shows what the twin desires and acknowledges
  nothing else, and no patch twice; the callback returns; a command is answered once,
  in its order;
- start-up: nothing runs without the network it waits for, and every wait ends.

## 2. Modules

| Module | Models | State and actions |
|---|---|---|
| `FlashPort` | the flash port; `esp_ota_*`, flash and bootloader as external | `running`, `boot`, `flash`, `image` (`AzureADUImage_t`), counters of allocated OTA handles and HTTP contexts. One operator per port function and outcome (`PlatformInitSucceeds`, `WriteBlockFails`, ...), `RestartFrom` for any restart |
| `AduDownload` | url check, HTTP context, chunk loop, flash-writing callback | `pc` (the call about to be made), `current_offset`. One action per call that leaves the program and per outcome |
| `AduWorkflow` | the workflow and the two sends of the ADU client | `update_request`, `has_update`, `property_version`; `responses` and `reported` record what was sent. `ProcessUpdateRequest` is one step, as the callback is; `accept_update` is a step per call |
| `DeviceUpdate` | the device with `example_adu.c`: workflow, application, service, power | `desired` and `inbox` are the twin and the messages under way. `Setup`, `ProcessLoop`, `StartUpdate`, `DecideAgainst`, `ResetDevice`/`ContinueLoop`, `HeapFault`, `PowerLoss`, `CloudRequests` |
| `AtomicUpdate` | abstract: an image installed, an image enabled | `Enable`, `Restart` |
| `Backoff` | the back-off, in 16-bit arithmetic | the context's fields; `Initialize`, `GetNext` |
| `Transport` | the transport, composed with `Backoff` | `step` and `operation` of the call under way, `open`; history counters of connections, tries and time slept |
| `TransportCalls` | abstract: what a call of the transport does to its caller's connection | `Call`, `Close`; `CallOutcome`, which the clients are modelled over |
| `WifiHelper` | `wifi_helper.c`, driver and access point as external | the link, the two flags, `stores` the event handler has yet to make |
| `Provisioning` | `azure_iot_provisioning.c` | `dps_open`, the length of the hub's name |
| `HubClient` | `azure_iot_hub.c` | `connection` (closed, bare, session), `subscribed`. One operator per operation of the client |
| `PropertyHandler` | `device_change_state` and the acknowledgement | the message being handled, `reader` (what is left of it), `display_brightness`, the component list |
| `AppMain` | `main.c` and `example_iot_hub.c` over the four above; twin, command service, broker, network, event task | `pc` (the call of the main task), `twin`, `downlink`, `acked`, `answers`. An action per call of start-up, provisioning, set-up, loop and end; callbacks interleave with the calls that wait |
| `MCDeviceUpdate`, `MCTransport`, `MCAppMain` | TLC instances | |
| `DeviceUpdateProofs`, `BackoffProofs`, `TransportProofs`, `AppMainProofs` | theorems | |

`DeviceUpdate` extends the three modules before it, `Transport` extends `Backoff`,
`AppMain` extends `WifiHelper`, `Provisioning`, `HubClient` and `PropertyHandler`.
`TransportCalls` is where the halves meet: `Transport` is shown to implement it, and
`HubClient` and `Provisioning` use its `CallOutcome` for each call they make, so the
clients are modelled over what the transport does and not over what they hope for:
in particular a write may succeed over a *new* connection that no MQTT session
belongs to.

Abstractions worth knowing when reading them:

- A partition is a row of cells; a cell is `Erased`, holds what belongs there in
  some image, or is `Corrupt`. Programming a programmed cell with something else
  makes it corrupt, as on NOR flash. So an image is whole when its cells are.
- A SHA-256 matches exactly when size and cells are those of the image whose
  digest the manifest carries. Base64 is reduced to whether the digest decodes.
- A request is what the workflow tells apart: action, image, size, and whether the
  JSON parses, the manifest authenticates, the url has a path, the hash decodes.
- The HTTP server is free to answer any number of cells (none, too many) of any
  content, or to fail in each way the loop distinguishes.
- `ota_handles + http_contexts` shares `HeapSlots`: `esp_ota_begin` reports an
  exhausted heap, whereas `azure_http_create` does not check `malloc` and faults
  (`HeapFault`, a restart). The handle leaks when the url or the download fails
  (no `esp_ota_abort`), the context when the first connection fails.
- The heap is taken to be otherwise sufficient, and set-up either succeeds or
  makes `app_main` abort, which is a restart.
- `ResetAfterUpdate` distinguishes an application that resets the device after an
  update, as `azure_iot_adu_workflow.h` asks, from `example_adu.c`, which does not.
- A connection of the hub client is `bare` when the broker holds no session for it.
  What is written to it reaches nobody, which the device only learns when a call
  fails. What was under way to the device is lost with its session.
- The desired properties are the display's brightness, with a value per patch, and
  a set of other kinds: of the root, of another component, of the display itself.
  JSON does not order them, so the reader may meet them in any order.
- The component list is given to the client as the address of a compound literal
  inside `example_iot_hub_setup`, whose storage ends with that function. What its
  memory holds afterwards is undefined, so `LoseComponentList` may happen at any
  time in the loop, and `Synced`, `AckTruthful` and `Converges` say what holds where
  it does not.
- The two stores of the Wi-Fi handler may be seen in either order by the task that
  polls, since nothing orders them.

## 3. Runs

| Run | Question | Result |
|---|---|---|
| `device_update` | Resetting application, every kind of request, every failure, lost patches, a power loss: `TypeOK`, `RunningIntact`, `BootIntact`, `ContiguousDownload`, `InstallsRequestedImage`, the image of the version answered (`AcceptedVersionInstalled`), `RefusedNotInstalled`, `NoStateBeforeRestart`, `RestartRunsEnabled`, no update started over (`UpdateShortens`), refinement of `AtomicUpdate` (`AtomicSpec`) | holds, 1.9 million states |
| `example_app` | What of this survives in an application that never resets: `RunningIntact`, `InstallsRequestedImage` | holds, 0.9 million states |
| `update_liveness` | Does each call of `accept_update` end (`AcceptReturns`, under `RequestsAnswered`)? Does the last good request come to run once failures stop (`UpdateRuns`), and does an enabled image not wait for ever (`EnabledRuns`)? | holds |
| `transport` | Back-off schedule (`OnlyFirstDelayLonger`, `FullJitterSchedule`), bounds per call, no connection over another, true results, no step of a call that does not shorten it (`CallsShorten`) and an end to each call (`CallReturns`), refinement of `TransportCalls` (`TransportCallsSpec`) | holds, 0.1 million states |
| `application` | The shipped program, with power and sessions lost at any moment: `NothingLeftOpen`, `WifiTrue`, `Synced`, `AckTruthful`, `AckReportsDesired`, `AckedInOrder`, `OneAnswer` | holds, 3.6 million states |
| `application_liveness` | Does start-up end (`SetupEnds`), does "restart" end the program (`RestartEnds`), does the device come to show the last brightness desired (`Converges`)? | holds, 0.1 million states |
| `vetted` | only vetted requests are installed | **violated** |
| `example_restart` | "after a restart the enabled image runs", without the reset | **violated** |
| `http_context` | the HTTP context is released | **violated** |
| `property_loop` | the property callback returns | **violated** |
| `hub_session` | the connection is managed: a lost session comes back | **violated** |
| `hostname_terminated` | the hub's name is terminated within its buffer | **violated** |

The six violated ones each state what a comment or a header of the repository
says; the counterexamples, with the lines quoted, are in PROJECT.json `findings`:

- `vetted`: a later message replaces the request that `has_update` vouches for,
  before its manifest is authenticated;
- `example_restart`: without the reset, a second update erases the partition that
  the first one enabled;
- `http_context`: the context of a download whose first connection fails is not freed;
- `property_loop`: a property of the display other than the brightness is neither
  read nor skipped, so that the callback meets it for ever;
- `hub_session`: the transport replaces the connection under MQTT, nobody sends
  another CONNECT, and the loop only logs that its calls fail;
- `hostname_terminated`: a hub name of the maximum length fills the buffer from
  which it is later read as a C string.

Four more disagreements between the code and its documentation were seen with the
same models and are not kept as runs. The header of the back-off promises that no
delay exceeds the maximum configured (`DelayBounded`), but nothing caps the base delay,
which is the ceiling of the first one, and the ranges of Kconfig allow a base (to
5000 ms) above the maximum (from 1000 ms); `transport` has such a configuration, and
its `OnlyFirstDelayLonger` says what the code keeps: a delay above the maximum is the
first of its reconnection, and within the base. An application that never resets sends
agent states between enabling and restart, which the header of the workflow asks not
to do. A request the workflow refuses by itself is not answered, unless an
earlier one is pending: the refusal goes through the function that rejects a pending
update. A version already running is installed again
when it is requested again. And one is outside of what the models speak about: the
command is described as restarting the device after some seconds, whereas the code
ends the program and looks only at the beginning of the command's name.

**Bounds.** Three images, of one and of two cells in partitions of two, give every
relation of sizes there is: smaller than, equal to and larger than a partition, an
image followed by leftovers of a larger one. Chunks of one cell with responses of
up to two and resources of up to three give short, exact, excessive and empty
responses and a resource larger than the partition (`device_update`, the largest
run, stops at resources of the partition's size). Two requests are enough for
each pair of kinds, in the inbox or around an update in progress; one power loss
(`MaxCrashes`) on top of any number of other restarts; two heap slots, so that one
leak and two leaks differ from none. The delays of `transport` are scaled down (a
base below, at and above the maximum, even and odd maxima, a limit of one and one
beyond the ceiling), three connections let a second reconnection follow a first.

In `application`, restarts, lost sessions and lost links are unbounded; the bounds
are on what the service does. Two changes of the twin (`MaxVersion` 3, the first
version being the empty one) let one patch follow another within a session, across
a restart or around the document; the brightnesses are one that fits in eight bits,
one that does not, one that is no number, none, and each comes with another kind of
property or without; of the patches without a brightness, the example reads past one
and spins on the other. One command, a restart or its look-alike of a component, is
enough to be answered twice; its name is matched by its beginning, so that
`RestartNames` is a constant. Hub names have the lengths 60 and 68, an ordinary one
and the one the buffer holds. `application_liveness` makes one change of the twin and
one command. The proofs below remove these bounds for the safety properties.

**Deadlock** is not checked: with the bound on requests reached the service stops,
and a device whose loop has nothing to accept has no step left to take; a freed
transport has none either, nor has a program that has ended.

**Fairness.** `ProgramRuns`: each action of the program is weakly fair, since
every call returns (they have timeouts) and nothing else runs on the task. Requests
and power losses are never forced. `RequestsAnswered` (in `AcceptReturns`): a range
asked for for ever is answered some time; it is strong fairness, because the loop
leaves and re-enters the request, and it is needed: the loop has no limit of its
own, so a server that always answers with nothing keeps it for ever.
`FailuresStop` (in `UpdateRuns`): from some time on the failures that the
device's own state does not force do not occur. Failures that it does force
remain, and this is why `UpdateRuns` has a second disjunct: handles and contexts
leaked by earlier attempts can fill the heap, and then `esp_ota_begin` fails for
ever. Without that disjunct TLC finds the behaviour. `TransportFairSpec`: the call
under way is weakly fair, for the same reason as `ProgramRuns`.

`AppFairSpec`: the calls of the main task and the callbacks inside them are weakly
fair (each has a timeout); so is the event task with the driver's answer to
an attempt to connect, which the driver always gives. Two are strongly fair: a call
that waits for the hub, made again and again with a message to be had, gets it some
time, and a registration asked after again and again is decided, for
`azure_dps_register` has no limit of its own. Power, sessions, patches and commands
are not forced. `SetupEnds` names the two places where start-up stays all the same:
the wait for the time, once the Wi-Fi is lost (nobody connects it again), and the
property that the callback cannot get past; `RestartEnds` and `Converges` name the
latter too. Without those disjuncts TLC finds the behaviours.

## 4. Proofs

TLAPS proves, for any number of slots, cells, images, requests, patches, commands,
heap slots and bounds, from the named assumptions on the constants alone:

| Theorem | States |
|---|---|
| `TypeCorrect` | `Spec => []TypeOK` |
| `RunningStaysIntact` | `Spec => []RunningIntact`, with or without the reset |
| `DownloadIsContiguous` | `Spec => []ContiguousDownload`, likewise |
| `OnlyRequestedImages` | `Spec => InstallsRequestedImage`, likewise |
| `VersionsAreTrue` | `Spec => AcceptedVersionInstalled`, likewise |
| `RefusedStayOut` | `Spec => RefusedNotInstalled`, likewise |
| `OffsetStaysInPartition` | `Spec => []OffsetInPartition`: the offset of a download never leaves the partition |
| `UpdatesComeToAnEnd` | `Spec => UpdateShortens` |
| `BootStaysIntact` | `Spec => []BootIntact`, assuming `ResetAfterUpdate` |
| `RestartsRunEnabled` | `Spec => RestartRunsEnabled`, assuming `ResetAfterUpdate` |
| `SilentBeforeRestart` | `Spec => NoStateBeforeRestart`, assuming `ResetAfterUpdate` |
| `ImplementsAtomicUpdate` | `Spec => AtomicSpec`, assuming `ResetAfterUpdate` |
| `TransportTypeCorrect`, `CallsStayBounded`, `OneConnectionAtATime`, `ResultsAreTrue` | the safety properties of `Transport`, for all 16-bit configurations |
| `ImplementsTransportCalls` | `TransportSpec => TransportCallsSpec` |
| `CallsComeToAnEnd` | `TransportSpec => CallsShorten` |
| `AttemptsStayBounded` | `BackoffSpec => []AttemptsBounded`: the back-off on its own |
| `LongerDelaysAreFirst` | `BackoffSpec => []OnlyFirstDelayLonger`, for every base and maximum |
| `DelayStaysBounded` | `BackoffSpec => [](config.base <= config.max => DelayBounded)`: where the promise of the header holds |
| `FollowsFullJitter` | `BackoffSpec => []FullJitterSchedule` |
| `UsesBackoff`, `DelaysFollowSchedule`, `OnlyFirstWaitsLonger` | `TransportSpec => BackoffSpec`, and so `TransportSpec => []FullJitterSchedule` and `TransportSpec => []OnlyFirstDelayLonger` |
| `AppTypeCorrect` | `AppSpec => []AppTypeOK` |
| `NothingStaysOpen`, `WifiStaysTrue` | `AppSpec => []NothingLeftOpen`, `AppSpec => []WifiTrue` |
| `AnswersAreInOrder`, `AnsweredOnce` | `AppSpec => []AnsweredInOrder`: commands are answered in the order of their invocation; and so `AppSpec => []OneAnswer` |
| `AcksAreTruthful`, `StaysSynced` | `AppSpec => []AckTruthful`, `AppSpec => []Synced` |
| `AcksAreInOrder`, `AcksReportDesired` | `AppSpec => AckedInOrder`, `AppSpec => AckReportsDesired` |
| `EndsOnlyWhenAsked` | `AppSpec => []EndsWhenAsked`: the program ends by itself only for a restart command, whatever fails |

Each of these runs of a violated claim has a theorem beside it that says where the
code does what is claimed, and so how far the finding goes:

| Run | Theorem | States |
|---|---|---|
| `vetted` | `OnlyVettedWhenWellFormed` | `Spec => InstallsVettedRequest`, where every request parses and authenticates |
| `example_restart` | `OneUpdatePerRestart` | `Spec /\ AcceptsNoSecond => []BootIntact /\ RestartRunsEnabled /\ AtomicSpec`: for an application that does not reset, it is enough that it accepts no second update before its restart; with the reset no hypothesis is needed (`RestartsRunEnabled`) |
| `http_context` | `OnlyConnectionsLeakContexts` | `Spec /\ [][~ConnectionFails]_vars => []HttpContextReleased`: no other failure leaks the context |
| `hostname_terminated` | `ShorterHostnamesTerminate` | `AppSpec => []HostnameTerminated`, where every name is shorter than the buffer |
| `property_loop` | `KnownPropertiesNeverSpin` | the callback never spins where no patch has a display property the example does not know |

`SessionsComeFromSetup` says why the sixth, `hub_session`, is violated: only the MQTT
connection of set-up makes a session of a connection, whatever the loop does. And
`OnlyFailuresFillHeap` says why `UpdateRuns` needs its second disjunct: in a heap with
room for one update, as long as no update fails while it holds its handle, the loop
finds the heap empty and the handle and the context have room
(`Spec /\ [][~FailsWithHandle]_vars => [](... => HeapAvailable)`).

The hypotheses of these theorems restrict what the environment or the application
does, never what the program does with it, and all of them leave behaviours in which
updates are installed and patches handled.

The arguments. None of the properties is inductive alone.

- `SafeInv` = `TypeOK`, `RunningIntact`, `HandlesHeld`, `WritesElsewhere`.
  `HandlesHeld` ties the counters to the place in the code (a handle is held
  between `Init` and `VerifyImage`, a context between connect and free), which is
  what keeps the counters within the heap; `WritesElsewhere` says that the
  partition of an update under way is the next one after the running one *and not
  the running one*, which comes from `esp_ota_begin` refusing the running partition.
- `BootInv` adds `BootFollows`: another partition than the running one is selected
  only while the update waits for its reset, and then holds a whole image. The
  steps are first sorted into five kinds (`AnyStepKinds`: working on an update, waiting
  for the reset, enabling, restarting, going on without the reset), of which
  `ResetAfterUpdate` excludes the last (`StepKinds`); the boot invariant, the silence
  before the restart and the refinement each follow from the kinds.
- `PatientInv` is what remains of `BootInv` for an application that goes on: the
  partition enabled stays whole because only an update writes, and only to the
  partition after the running one, which is the one enabled. So the sole step that
  endangers it is the start of a second update, the one `AcceptsNoSecond` is about.
  Both refinements of `AtomicUpdate` share the mapping of the steps (`AtomicStep`: a
  step keeps, enables or reboots).
- `HeapSteps` lists what a step may do to the counters of handles and contexts;
  `ContextsCounted` and `HandlesCounted` (one each, exactly where the code holds it)
  are inductive but for the failures that the two theorems about them exclude.
- `DownloadInv` adds `ErasedBefore`: before the download begins the update
  partition is erased, so that the first chunk starts the programmed prefix.
- `ReportedInv` adds `ReportedBefore`: within `accept_update` the acceptance and
  the deployment in progress have been sent, for the version and request that
  nothing changes until the call returns.
- `VersionsMatch` says that there is one request to a version: a message with the
  latest version is the desired request, and so is what the workflow holds with that
  version, unless the request could not be read. It depends on every path of
  `process_update_request` that takes the version also taking the request, the one
  where the manifest does not authenticate included, and on a restart forgetting both.
- `PendingInv` says that the request that `has_update` vouches for, or that is being
  installed, is never a refused one. Of the five ways a message is processed two may
  replace a pending request and leave the flag: a parse that fails and a manifest
  that does not authenticate. Neither is a refusal, which is why `RefusedStayOut`
  holds, and both are what `vetted` is about, which is why it holds without them.
- `OffsetInv` bounds the offset by the partition: a block is only written where it
  fits. With it, what is left of an update (`UpdateRemaining`: its stage, and the cells
  from the offset to the end of the partition) is a natural number that every step of
  `accept_update` decreases, except to ask for the same range again. This is the
  safety half of `AcceptReturns`, whose fairness is just that this repetition ends;
  and it is what allows that fairness to be stated over the offsets of a partition.
- `CallRemaining` does the same for a call of the transport, from the delays its
  back-off has not handed out yet; here no step is excepted, but the number of retries
  must be limited (`RETRY_FOREVER` is what its name says).
- `DelayInv` adds `CeilingBounded`: the ceiling of the next delay is within the
  maximum, or no delay was handed out and it is the base.
- `ScheduleInv`: the ceiling of the next delay is the base doubled once per delay, or
  the maximum. In 16 bits no more than sixteen doublings matter, so that the sixteen
  powers of two are all it takes (`PowersOfTwo`) and no induction on the exponent; the
  doubling loses no bit because the code compares with half the maximum first.
  `UsesBackoff` is a refinement: each step of the transport is a step of its back-off
  or leaves it alone, which carries the schedule over.
- `TransportInv` adds `CallCounted`, which measures a call by the back-off context
  it made (tries = delays handed out, time slept at most delays times maximum), and
  `ClosedWhileConnecting`; the back-off part is `BackoffProofs`, through the lemma
  that every step of the transport is a step of its back-off. `TransportCallsSpec`
  follows from the same invariant: a call starts from the connection its
  operation found, and all its steps but the last are stutters of the abstract one.
- The connections of the application (`LinksClosed`) need the order of each end:
  MQTT may leave the transport open, or have it opened again, and it is the close
  after it that counts.
- `WifiInv` adds `AddressKnown`: a store still to come, or already made, of
  "connected" is preceded by an address; so the poll may see the stores in any
  order, and the result it then reads is either the truth or a failure.
- `CommandInv` says that the commands under way are in the order they were invoked
  in, and come after all that have been answered. A command leaves the stream in the
  step that answers it, so none is answered twice, nor before an earlier one.
- `LeftWhenAsked` and `RestartInvoked`: the loop is only left for the flag, success is
  only stored after the loop, and only success ends the program.
- `AckInv` says that a patch of the twin's present version, under way or in the
  callback, is the last change of the twin, and that a number the callback has gone
  past (with its component list intact) is displayed.
- `OrderInv` orders the versions along the connection: they never go back, a patch is
  newer than all that is before it, and newer than the last acknowledgement; and the
  patch in the callback is not acknowledged yet. A document repeats the version of
  the patch before it, so that `AckedInOrder` needs both the order and that documents
  are not acknowledged; a restart takes the connection, and the stream with it.
- `SyncInv` is what `Synced` hangs on: on a session whose component list is intact,
  the *last* message that carries a brightness, under way or being read, carries the
  one the twin desires; and where there is none, the display shows it, or the
  document has not been asked for yet. `PropertiesSubscribed` (the document is
  asked for after the subscription, on a session that still has it) is why no
  change falls between the document and the patches. `AckReportsDesired` is the same
  invariant seen from the twin: what is acknowledged is what is displayed, and that is
  what is desired, in the step that acknowledges as in any other.

Each of these invariants was also checked with TLC before it was proved.

**Only model-checked:** liveness (`AcceptReturns`, `UpdateRuns`, `EnabledRuns`,
`CallReturns`, `SetupEnds`, `RestartEnds`, `Converges`), which is out of the prover's
reach as far as fairness and `ENABLED` are concerned. Their safety halves are proved
for the two loops that have a measure (`UpdatesComeToAnEnd`, `CallsComeToAnEnd`).
Every invariant and every action property of the passing runs, and both refinements,
are proved. No module uses RECURSIVE operators.

## 5. Not modelled

- The middleware (MQTT, JWS, JSON, HTTP), the ESP-IDF drivers and mbedtls are not in
  this repository; they appear only as the outcomes their callers distinguish.
- The example that ships for Device Update is modelled with its own set-up and loop
  in `DeviceUpdate`; its other properties are read by the same loop as in the hub
  example, and it shares its infinite turn. The two examples are not composed:
  `main.c` runs one or the other.
- The broker's keep-alive during a download (the main task does not serve MQTT
  meanwhile) is a session lost like any other in `AppMain`; the download itself is
  in `DeviceUpdate`, over a transport of its own.
- Cloud-to-device messages and the answers to reported properties are only logged.
- Set-up of clients (options, credentials, certificates, buffer sizes) is a single
  step that succeeds or fails; the choice between TCP and TLS only configures
  `esp_transport`.
- Crypto, certificate and time wrappers and the message builders are stateless
  conversions and constant data. `helper_wifi_deinit`, `helper_sntp_deinit` and the
  16-bit JSON reader are called by nothing.
- PROJECT.json says why at each of the few hazards that no property covers.
