------------------------------ MODULE Transport -------------------------------
(***************************************************************************)
(* The transport under MQTT and HTTP, infrastructure/transport.c: a        *)
(* connection that mends itself.  A read or a write that fails for lack of *)
(* a connection closes the handle, connects again with the back-off of     *)
(* module Backoff and is made a second time; its caller sees nothing but   *)
(* the result.  azure_transport_interface.c hands the read and the write   *)
(* to the SDK as they are.                                                 *)
(*                                                                         *)
(* esp_transport and the peer are external: any call to them may fail, and *)
(* an open handle may have lost its connection without anyone knowing.     *)
(***************************************************************************)
EXTENDS Backoff

CONSTANT MaxConnections  (* bound: connections a behaviour makes             *)

ASSUME TransportAssumption == MaxConnections \in Nat

VARIABLES
  step,         (* what the call under way does next; "idle" without one     *)
  operation,    (* the call: transport_connect, _write or _read              *)
  open,         (* the handle has a connection, as far as the device knows   *)
  connections,  (* history: connections made, the last one is the current    *)
  tries,        (* history: esp_transport_connect calls of the call          *)
  waited,       (* history: milliseconds the call has slept                  *)
  before,       (* history: open and connections when the call began         *)
  returned      (* history: what the last call returned                      *)

callVars == <<operation, tries, waited, before>>
transportVars == <<backoffVars, step, callVars, open, connections, returned>>

-----------------------------------------------------------------------------
Begin(op) ==
  /\ step = "idle"
  /\ operation' = op
  /\ tries' = 0
  /\ waited' = 0
  /\ before' = [open |-> open, connections |-> connections]

Return(op, ok) ==
  /\ step' = "idle"
  /\ returned' = [operation |-> op, ok |-> ok]

(* transport_reconnect up to its loop: the handle is closed, whatever state *)
(* it is in, and the back-off starts afresh.                                *)
BeginReconnectOpen ==  \* mutant: the handle is not closed first
  /\ step' = "connecting"
  /\ Initialize
  /\ UNCHANGED <<open, connections, returned>>

BeginReconnect ==
  /\ step' = "connecting"
  /\ open' = FALSE
  /\ Initialize
  /\ UNCHANGED <<connections, returned>>

-----------------------------------------------------------------------------
(***************************************************************************)
(* transport_connect                                                       *)
(***************************************************************************)
Connect == Begin("connect") /\ BeginReconnect

(***************************************************************************)
(* transport_write and transport_read, first attempt.  A result of zero,   *)
(* nothing read within the timeout, counts as a success.                   *)
(* should_try_reconnection sorts the errors into those worth a             *)
(* reconnection and the others.                                            *)
(***************************************************************************)
IoSucceeds(op) ==
  /\ open
  /\ Begin(op)
  /\ Return(op, TRUE)
  /\ UNCHANGED <<backoffVars, open, connections>>

IoFails(op, shouldTryReconnection) ==
  /\ Begin(op)
  /\ IF shouldTryReconnection
       THEN BeginReconnect
       ELSE Return(op, FALSE) /\ UNCHANGED <<backoffVars, open, connections>>

(***************************************************************************)
(* The loop of transport_reconnect.  Its result is looked at by            *)
(* transport_connect alone; a read or a write is repeated in any case.     *)
(***************************************************************************)
LeaveReconnectIgnored(ok) ==  \* mutant: transport_connect ignores it as well
  IF operation = "connect"
    THEN Return(operation, TRUE)
    ELSE step' = "retrying" /\ UNCHANGED returned

LeaveReconnect(ok) ==
  IF operation = "connect"
    THEN Return(operation, ok)
    ELSE step' = "retrying" /\ UNCHANGED returned

ConnectSucceeds ==
  /\ step = "connecting"
  /\ connections < MaxConnections
  /\ open' = TRUE
  /\ connections' = connections + 1
  /\ tries' = tries + 1
  /\ LeaveReconnect(TRUE)
  /\ UNCHANGED <<backoffVars, operation, waited, before>>

ConnectFails ==
  /\ step = "connecting"
  /\ tries' = tries + 1
  /\ GetNext
  /\ IF status' = "SUCCESS"
       THEN waited' = waited + next_backoff' /\ UNCHANGED <<step, returned>>
       ELSE LeaveReconnect(FALSE) /\ UNCHANGED waited
  /\ UNCHANGED <<operation, before, open, connections>>

(***************************************************************************)
(* transport_write and transport_read, second and last attempt             *)
(***************************************************************************)
RetrySucceeds ==
  /\ step = "retrying"
  /\ open
  /\ Return(operation, TRUE)
  /\ UNCHANGED <<backoffVars, callVars, open, connections>>

RetryFailsAgain ==  \* mutant: reconnects after every failure, not after the first
  /\ step = "retrying"
  /\ BeginReconnect
  /\ tries' = 0
  /\ waited' = 0
  /\ UNCHANGED <<operation, before>>

RetryFails ==
  /\ step = "retrying"
  /\ Return(operation, FALSE)
  /\ UNCHANGED <<backoffVars, callVars, open, connections>>

(***************************************************************************)
(* transport_disconnect and transport_free                                 *)
(***************************************************************************)
Disconnect ==
  /\ step = "idle"
  /\ open' = FALSE
  /\ UNCHANGED <<backoffVars, step, callVars, connections, returned>>

Free ==
  /\ step = "idle"
  /\ step' = "freed"
  /\ open' = FALSE
  /\ UNCHANGED <<backoffVars, callVars, connections, returned>>

-----------------------------------------------------------------------------
(* transport_create_tcp, _tls and _azure                                    *)
TransportInit ==
  /\ BackoffInit
  /\ step = "idle"
  /\ operation = "none"
  /\ open = FALSE
  /\ connections = 0
  /\ tries = 0
  /\ waited = 0
  /\ before = [open |-> FALSE, connections |-> 0]
  /\ returned = [operation |-> "none", ok |-> FALSE]

CallSteps == ConnectSucceeds \/ ConnectFails \/ RetrySucceeds \/ RetryFails

TransportNext ==
  \/ Connect
  \/ \E op \in {"write", "read"} :
       IoSucceeds(op) \/ \E reconnects \in BOOLEAN : IoFails(op, reconnects)
  \/ CallSteps
  \/ Disconnect
  \/ Free

TransportSpec == TransportInit /\ [][TransportNext]_transportVars

(* A call that has begun goes on: esp_transport_connect has a timeout, a    *)
(* read and a write have one too, and the task wakes up from its delays.    *)
TransportFairSpec == TransportSpec /\ WF_transportVars(CallSteps)

-----------------------------------------------------------------------------
(***************************************************************************)
(* Properties                                                              *)
(***************************************************************************)

(* Type invariant of the transport and its back-off.                        *)
TransportTypeOK ==
  /\ BackoffTypeOK
  /\ step \in {"idle", "connecting", "retrying", "freed"}
  /\ operation \in {"none", "connect", "write", "read"}
  /\ open \in BOOLEAN
  /\ connections \in 0 .. MaxConnections
  /\ tries \in Nat
  /\ waited \in Nat
  /\ before \in [open : BOOLEAN, connections : 0 .. MaxConnections]
  /\ returned \in [operation : {"none", "connect", "write", "read"}, ok : BOOLEAN]

(* No call, whatever fails in it, tries to connect more than once more than *)
(* the configured retries, nor sleeps longer than the maximum delay before  *)
(* each of those, where the base delay is below the maximum: what bounds    *)
(* the time MQTT and HTTP are kept waiting.                                 *)
CallBounded ==
  config.attempts # RETRY_FOREVER /\ config.base <= config.max =>
    /\ tries <= config.attempts + 1
    /\ waited <= config.attempts * config.max

(* A connection is only ever made on a closed handle, at most once per      *)
(* call: none is left open behind the one that replaces it.                 *)
OneConnection ==
  [][connections' # connections => ~open /\ step = "connecting" /\ step' # "connecting"]_transportVars

(* transport_connect reports a success exactly when it leaves the handle    *)
(* with a connection made by this very call; and a write or a read that     *)
(* succeeds leaves one too.                                                 *)
ResultsTrue ==
  [][step # "idle" /\ step' = "idle" =>
       /\ returned'.ok => open'
       /\ returned'.operation = "connect" => (returned'.ok <=> open')]_transportVars

(* For its caller a call is one step with one of the outcomes of            *)
(* TransportCalls: however it is broken off and mended inside, it makes no  *)
(* more than one connection and reports what it leaves behind.              *)
CallUnderWay == step \in {"connecting", "retrying"}

Calls == INSTANCE TransportCalls WITH
  open        <- IF CallUnderWay THEN before.open ELSE open,
  connections <- IF CallUnderWay THEN before.connections ELSE connections

TransportCallsSpec == Calls!Spec

(* A call with a limited number of retries gets nearer to its return with   *)
(* every step it takes, whatever fails: nothing in it starts it afresh.     *)
CallRemaining ==
  IF step = "connecting" THEN config.attempts - context.attempts_done + 2
  ELSE IF step = "retrying" THEN 1 ELSE 0

CallsShorten ==
  [][CallUnderWay /\ config.attempts # RETRY_FOREVER
       => CallRemaining' \in 0 .. CallRemaining - 1]_transportVars

(* Every call of transport_connect, transport_write and transport_read      *)
(* returns, even if the network never comes back.                           *)
CallReturns == step \in {"connecting", "retrying"} ~> step = "idle"
=============================================================================
