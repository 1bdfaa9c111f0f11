---------------------------- MODULE TransportProofs ---------------------------
(***************************************************************************)
(* Proofs about Transport, for every set of configurations and any number  *)
(* of connections.                                                         *)
(***************************************************************************)
EXTENDS Transport, BackoffProofs

(* How far a call has come is told by the back-off it started: it has tried *)
(* to connect as often as delays were handed out, and once more at its end. *)
CallCounted ==
  /\ tries <= context.attempts_done + 1
  /\ step = "connecting" => tries = context.attempts_done
  /\ config.base <= config.max => waited <= context.attempts_done * config.max

(* The handle is closed while a connection is tried, and only a write or a  *)
(* read is repeated after that.                                             *)
ClosedWhileConnecting ==
  /\ step = "connecting" => ~open
  /\ step = "retrying" => operation # "connect"

(* What a call under way has done to the connections it found.              *)
ConnectionsCounted ==
  /\ step \in {"connecting", "retrying"} => operation # "none"
  /\ step = "connecting" => connections = before.connections
  /\ step = "retrying" =>
       connections = IF open THEN before.connections + 1 ELSE before.connections

(* The parts of the type invariant that are the transport's own.            *)
CallTyped ==
  /\ step \in {"idle", "connecting", "retrying", "freed"}
  /\ operation \in {"none", "connect", "write", "read"}
  /\ connections \in 0 .. MaxConnections
  /\ tries \in Nat
  /\ waited \in Nat

ResultTyped ==
  /\ open \in BOOLEAN
  /\ returned \in [operation : {"none", "connect", "write", "read"}, ok : BOOLEAN]

BeforeTyped == before \in [open : BOOLEAN, connections : 0 .. MaxConnections]

TransportInv ==
  /\ TransportTypeOK
  /\ DelayInv
  /\ CallCounted
  /\ ClosedWhileConnecting

-----------------------------------------------------------------------------
(* A number of delays, none longer than max, adds up to at most that number *)
(* times max.                                                               *)
LEMMA OneMoreDelay ==
  ASSUME NEW n \in Nat, NEW max \in Nat, NEW total \in Nat, NEW delay \in Nat,
         total <= n * max, delay <= max
  PROVE  total + delay <= (n + 1) * max
<1>1. (n + 1) * max = n * max + max
  OBVIOUS
<1>2. n * max \in Nat
  OBVIOUS
<1> QED
  BY <1>1, <1>2

(* The time slept is a number.                                              *)
LEMMA SumIsNat == \A m, n \in Nat : m + n \in Nat
  OBVIOUS

(* Fewer delays add up to less.                                             *)
LEMMA FewerDelays ==
  ASSUME NEW n \in Nat, NEW limit \in Nat, NEW max \in Nat, n <= limit
  PROVE  n * max <= limit * max
<1>1. PICK d \in Nat : limit = n + d
  <2>1. limit - n \in Nat /\ limit = n + (limit - n)
    OBVIOUS
  <2> QED
    BY <2>1
<1>2. limit * max = n * max + d * max /\ d * max \in Nat /\ n * max \in Nat
  BY <1>1
<1> QED
  BY <1>2

(* The invariant, from its parts.                                           *)
LEMMA Assemble ==
  TransportInv <=>
    /\ BackoffTypeOK /\ DelayInv
    /\ CallTyped /\ BeforeTyped /\ ResultTyped /\ CallCounted /\ ClosedWhileConnecting
<1>1. TransportTypeOK <=> BackoffTypeOK /\ CallTyped /\ BeforeTyped /\ ResultTyped
  BY ZenonT(60) DEF TransportTypeOK, CallTyped, BeforeTyped, ResultTyped
<1> QED
  BY <1>1, Zenon DEF TransportInv

(* A transport as it is created.                                            *)
LEMMA InitTransport == TransportInit => TransportInv
<1> SUFFICES ASSUME TransportInit PROVE TransportInv
  OBVIOUS
<1>1. DelayInv /\ BackoffTypeOK /\ config.max \in Nat /\ config.base \in Nat
  BY InitDelay, BackoffConfigsAssumption, WidthIsNat
     DEF TransportInit, DelayInv, BackoffInv, BackoffTypeOK, UInt16
<1>2. context.attempts_done = 0
  BY DEF TransportInit, BackoffInit, InitializedContext
<1>3. CallTyped /\ CallCounted
  BY <1>1, <1>2, TransportAssumption DEF TransportInit, CallTyped, CallCounted
<1>4. ResultTyped /\ ClosedWhileConnecting
  BY Zenon DEF TransportInit, ResultTyped, ClosedWhileConnecting
<1>5. BeforeTyped
  BY TransportAssumption DEF TransportInit, BeforeTyped
<1> QED
  BY <1>1, <1>3, <1>4, <1>5, Assemble

(* The delay of a step is at most the maximum where the base delay is.      *)
LEMMA ShortBaseDelayNext ==
  DelayInv' /\ config' = config /\ config.base <= config.max => next_backoff' <= config.max
<1>1. DelayInv' /\ (config.base <= config.max)' => DelayBounded'
  BY ShortBaseDelays, PTL
<1> QED
  BY <1>1 DEF DelayBounded

(* Every step of the transport is a step of its back-off, or leaves it be.  *)
LEMMA StepUsesBackoff ==
  [TransportNext]_transportVars => [BackoffNext]_backoffVars
<1> SUFFICES ASSUME [TransportNext]_transportVars PROVE [BackoffNext]_backoffVars
  OBVIOUS
<1> USE DEF BackoffNext
<1>1. CASE Connect
  BY <1>1 DEF Connect, BeginReconnect
<1>2. ASSUME NEW op \in {"write", "read"}, IoSucceeds(op) PROVE UNCHANGED backoffVars
  BY <1>2 DEF IoSucceeds
<1>3. ASSUME NEW op \in {"write", "read"}, NEW reconnects \in BOOLEAN, IoFails(op, reconnects)
      PROVE  Initialize \/ UNCHANGED backoffVars
  BY <1>3 DEF IoFails, BeginReconnect
<1>4. CASE CallSteps
  BY <1>4 DEF CallSteps, ConnectSucceeds, ConnectFails, RetrySucceeds, RetryFails
<1>5. CASE Disconnect \/ Free \/ UNCHANGED transportVars
  BY <1>5 DEF Disconnect, Free, transportVars
<1> QED
  BY <1>1, <1>2, <1>3, <1>4, <1>5 DEF TransportNext

(* What was before the call is noted when it begins, and then kept.         *)
LEMMA BeforeNoted ==
  [TransportNext]_transportVars =>
    before' = before \/ before' = [open |-> open, connections |-> connections]
  BY DEF TransportNext, Connect, Begin, IoSucceeds, IoFails, CallSteps, ConnectSucceeds,
         ConnectFails, RetrySucceeds, RetryFails, Disconnect, Free, transportVars, callVars

(* The inductive step, one case per operation.                              *)
LEMMA StepTransport == TransportInv /\ [TransportNext]_transportVars => TransportInv'
<1> SUFFICES ASSUME TransportInv, [TransportNext]_transportVars PROVE TransportInv'
  OBVIOUS
<1>1. DelayInv'
  BY StepUsesBackoff, StepDelay DEF TransportInv
<1>2. /\ BackoffTypeOK /\ BackoffTypeOK'
      /\ config.max \in Nat /\ config.base \in Nat /\ context.attempts_done \in Nat
      /\ context'.attempts_done \in Nat /\ next_backoff' \in Nat
      /\ config' = config
  <2>1. BackoffTypeOK /\ BackoffTypeOK'
    BY <1>1 DEF TransportInv, DelayInv, BackoffInv
  <2>2. [BackoffNext]_backoffVars
    BY StepUsesBackoff
  <2> QED
    BY <2>1, <2>2, BackoffConfigsAssumption, WidthIsNat
       DEF BackoffTypeOK, UInt16, BackoffNext, GetNext, Initialize, HandOutDelay,
           RetriesExhausted, backoffVars
<1>3. CallTyped /\ BeforeTyped /\ ResultTyped /\ CallCounted /\ ClosedWhileConnecting
  BY Assemble
<1>4. CallTyped' /\ ResultTyped' /\ CallCounted' /\ ClosedWhileConnecting' => TransportInv'
  <2>1. BeforeTyped'
    BY <1>3, BeforeNoted DEF BeforeTyped, CallTyped, ResultTyped
  <2> QED
    BY <1>1, <1>2, <2>1, Assemble, PTL
<1>5. ASSUME BeginReconnect, tries' = 0, waited' = 0,
             operation' \in {"connect", "write", "read"}
      PROVE  TransportInv'
  <2>1. context'.attempts_done = 0
    BY <1>5 DEF BeginReconnect, Initialize, InitializedContext
  <2>2. CallTyped' /\ CallCounted'
    BY <1>2, <1>3, <1>5, <2>1 DEF BeginReconnect, CallTyped, CallCounted
  <2>3. ResultTyped' /\ ClosedWhileConnecting'
    BY <1>3, <1>5, Zenon DEF BeginReconnect, ResultTyped, ClosedWhileConnecting
  <2> QED
    BY <1>4, <2>2, <2>3
<1>6. CASE Connect
  BY <1>5, <1>6 DEF Connect, Begin
<1>7. ASSUME NEW op \in {"write", "read"}, NEW ok \in BOOLEAN, Begin(op), Return(op, ok),
             UNCHANGED <<backoffVars, open, connections>>
      PROVE  TransportInv'
  <2>1. 0 <= context.attempts_done * config.max
    BY <1>2
  <2>2. CallTyped' /\ CallCounted'
    BY <1>2, <1>3, <1>7, <2>1 DEF Begin, Return, backoffVars, CallTyped, CallCounted
  <2>3. open' = open /\ step' = "idle" /\ returned' = [operation |-> op, ok |-> ok]
    BY <1>7 DEF Return
  <2>4. ResultTyped' /\ ClosedWhileConnecting'
    BY <1>3, <2>3 DEF ResultTyped, ClosedWhileConnecting
  <2> QED
    BY <1>4, <2>2, <2>4
<1>8. ASSUME NEW op \in {"write", "read"}, IoSucceeds(op) PROVE TransportInv'
  BY <1>7, <1>8 DEF IoSucceeds
<1>9. ASSUME NEW op \in {"write", "read"}, NEW reconnects \in BOOLEAN, IoFails(op, reconnects)
      PROVE  TransportInv'
  <2>1. CASE reconnects
    BY <1>5, <1>9, <2>1 DEF IoFails, Begin
  <2>2. CASE ~reconnects
    BY <1>7, <1>9, <2>2 DEF IoFails
  <2> QED
    BY <2>1, <2>2
<1>10. ASSUME NEW ok \in BOOLEAN, LeaveReconnect(ok), UNCHANGED operation, open' \in BOOLEAN
       PROVE  /\ step' \in {"idle", "retrying"}
              /\ ResultTyped' /\ ClosedWhileConnecting'
  <2>1. CASE operation = "connect"
    <3>1. step' = "idle" /\ returned' = [operation |-> "connect", ok |-> ok]
      BY <1>10, <2>1 DEF LeaveReconnect, Return
    <3> QED
      BY <1>10, <3>1 DEF ResultTyped, ClosedWhileConnecting
  <2>2. CASE operation # "connect"
    <3>1. step' = "retrying" /\ returned' = returned /\ operation' = operation
      BY <1>10, <2>2 DEF LeaveReconnect
    <3> QED
      BY <1>3, <1>10, <2>2, <3>1 DEF ResultTyped, ClosedWhileConnecting
  <2> QED
    BY <2>1, <2>2
<1>11. CASE ConnectSucceeds
  <2>1. open' \in BOOLEAN
    BY <1>11, Zenon DEF ConnectSucceeds
  <2>2. step' \in {"idle", "retrying"} /\ ResultTyped' /\ ClosedWhileConnecting'
    BY <1>10, <1>11, <2>1 DEF ConnectSucceeds
  <2>3. CallTyped' /\ CallCounted'
    BY <1>2, <1>3, <1>11, <2>2, TransportAssumption
       DEF ConnectSucceeds, backoffVars, CallTyped, CallCounted
  <2> QED
    BY <1>4, <2>2, <2>3
<1>12. CASE ConnectFails
  <2>1. /\ step = "connecting" /\ tries' = context.attempts_done + 1
        /\ operation' = operation /\ open' = open /\ connections' = connections
    BY <1>3, <1>12 DEF ConnectFails, CallCounted
  <2>2. CASE HandOutDelay
    <3>1. context'.attempts_done = context.attempts_done + 1
      BY <1>2, <2>2 DEF HandOutDelay, BackoffTypeOK
    <3>2. waited' = waited + next_backoff' /\ step' = step /\ returned' = returned
      BY <1>12, <2>2 DEF ConnectFails, HandOutDelay
    <3>3. config.base <= config.max => next_backoff' <= config.max
      BY <1>1, <1>2, ShortBaseDelayNext
    <3>4. config.base <= config.max => waited' <= context'.attempts_done * config.max
      BY <1>2, <1>3, <3>1, <3>2, <3>3, OneMoreDelay DEF CallCounted, CallTyped
    <3>5. CallTyped' /\ CallCounted'
      <4>1. CallTyped'
        <5>1. tries' \in Nat
          BY <1>2, <2>1
        <5>2. waited' \in Nat
          <6>1. waited \in Nat /\ next_backoff' \in Nat /\ waited' = waited + next_backoff'
            BY <1>2, <1>3, <3>2, Zenon DEF CallTyped
          <6>2. waited + next_backoff' \in Nat
            BY <6>1, SumIsNat, Zenon
          <6> QED
            BY <6>1, <6>2, Zenon
        <5> QED
          BY <1>3, <2>1, <3>2, <5>1, <5>2 DEF CallTyped
      <4>2. tries' <= context'.attempts_done + 1 /\ tries' = context'.attempts_done
        BY <1>2, <2>1, <3>1
      <4> QED
        BY <1>2, <3>4, <4>1, <4>2 DEF CallCounted
    <3>6. ResultTyped' /\ ClosedWhileConnecting'
      BY <1>3, <2>1, <3>2 DEF ResultTyped, ClosedWhileConnecting
    <3> QED
      BY <1>4, <3>5, <3>6
  <2>3. CASE RetriesExhausted
    <3>1. waited' = waited /\ context' = context /\ LeaveReconnect(FALSE)
      BY <1>12, <2>3 DEF ConnectFails, RetriesExhausted
    <3>2. step' \in {"idle", "retrying"} /\ ResultTyped' /\ ClosedWhileConnecting'
      <4>1. open' \in BOOLEAN /\ UNCHANGED operation
        BY <1>3, <2>1 DEF ResultTyped
      <4>2. FALSE \in BOOLEAN
        OBVIOUS
      <4> QED
        BY <1>10, <3>1, <4>1, <4>2, Zenon
    <3>3. CallTyped' /\ CallCounted'
      BY <1>2, <1>3, <2>1, <3>1, <3>2 DEF CallTyped, CallCounted
    <3> QED
      BY <1>4, <3>2, <3>3
  <2> QED
    BY <1>12, <2>2, <2>3 DEF ConnectFails, GetNext
<1>13. ASSUME NEW ok \in BOOLEAN, step = "retrying", Return(operation, ok),
              UNCHANGED <<backoffVars, callVars, open, connections>>
       PROVE  TransportInv'
  <2>1. CallTyped' /\ CallCounted'
    BY <1>2, <1>3, <1>13 DEF Return, backoffVars, callVars, CallTyped, CallCounted
  <2>2. open' = open /\ step' = "idle" /\ returned' = [operation |-> operation, ok |-> ok]
    BY <1>13 DEF Return
  <2>3. ResultTyped' /\ ClosedWhileConnecting'
    BY <1>3, <2>2 DEF ResultTyped, ClosedWhileConnecting, CallTyped
  <2> QED
    BY <1>4, <2>1, <2>3
<1>14. CASE RetrySucceeds \/ RetryFails
  BY <1>13, <1>14 DEF RetrySucceeds, RetryFails
<1>15. CASE Disconnect \/ Free
  <2>1. CallTyped' /\ CallCounted'
    BY <1>2, <1>3, <1>15 DEF Disconnect, Free, callVars, backoffVars, CallTyped, CallCounted
  <2>2. open' = FALSE /\ returned' = returned /\ step' \in {"idle", "freed"}
    BY <1>15 DEF Disconnect, Free
  <2>3. open' \in BOOLEAN
    BY <2>2, Zenon
  <2>4. ResultTyped' /\ ClosedWhileConnecting'
    BY <1>3, <2>2, <2>3 DEF ResultTyped, ClosedWhileConnecting
  <2> QED
    BY <1>4, <2>1, <2>4
<1>16. CASE UNCHANGED transportVars
  BY <1>2, <1>3, <1>4, <1>16
     DEF transportVars, callVars, backoffVars, CallTyped, CallCounted, ResultTyped,
         ClosedWhileConnecting
<1> QED
  BY <1>6, <1>8, <1>9, <1>11, <1>12, <1>14, <1>15, <1>16 DEF TransportNext, CallSteps

(* A call makes its connection where it counts it.                          *)
LEMMA StepConnections ==
  TransportInv /\ ConnectionsCounted /\ [TransportNext]_transportVars => ConnectionsCounted'
<1> SUFFICES ASSUME TransportInv, ConnectionsCounted, [TransportNext]_transportVars
             PROVE  ConnectionsCounted'
  OBVIOUS
<1>1. ClosedWhileConnecting /\ step \in {"idle", "connecting", "retrying", "freed"}
  BY Assemble DEF CallTyped
<1>2. ASSUME BeginReconnect, before' = [open |-> open, connections |-> connections],
             operation' \in {"connect", "write", "read"}
      PROVE  ConnectionsCounted'
  BY <1>2 DEF BeginReconnect, ConnectionsCounted
<1>3. ASSUME step' \in {"idle", "freed"}
      PROVE  ConnectionsCounted'
  BY <1>3 DEF ConnectionsCounted
<1>4. CASE Connect
  BY <1>2, <1>4 DEF Connect, Begin
<1>5. ASSUME NEW op \in {"write", "read"}, IoSucceeds(op) PROVE ConnectionsCounted'
  BY <1>3, <1>5 DEF IoSucceeds, Return
<1>6. ASSUME NEW op \in {"write", "read"}, NEW reconnects \in BOOLEAN, IoFails(op, reconnects)
      PROVE  ConnectionsCounted'
  BY <1>2, <1>3, <1>6 DEF IoFails, Begin, Return
<1>7. CASE ConnectSucceeds
  BY <1>7 DEF ConnectSucceeds, LeaveReconnect, Return, ConnectionsCounted
<1>8. CASE ConnectFails
  BY <1>1, <1>8 DEF ConnectFails, LeaveReconnect, Return, ConnectionsCounted,
                    ClosedWhileConnecting
<1>9. CASE RetrySucceeds \/ RetryFails
  BY <1>3, <1>9 DEF RetrySucceeds, RetryFails, Return
<1>10. CASE Disconnect \/ Free
  BY <1>3, <1>10 DEF Disconnect, Free
<1>11. CASE UNCHANGED transportVars
  BY <1>11 DEF transportVars, callVars, ConnectionsCounted
<1> QED
  BY <1>4, <1>5, <1>6, <1>7, <1>8, <1>9, <1>10, <1>11 DEF TransportNext, CallSteps

-----------------------------------------------------------------------------
(* Type correctness of the transport.                                       *)
THEOREM TransportTypeCorrect == TransportSpec => []TransportTypeOK
<1>1. TransportInv => TransportTypeOK
  BY DEF TransportInv
<1> QED
  BY <1>1, InitTransport, StepTransport, PTL DEF TransportSpec

(* No call connects more often, nor sleeps longer, than the configuration   *)
(* says, whatever fails in it.                                              *)
THEOREM CallsStayBounded == TransportSpec => []CallBounded
<1>1. TransportInv => CallBounded
  <2> SUFFICES ASSUME TransportInv, config.attempts # RETRY_FOREVER, config.base <= config.max
               PROVE  /\ tries <= config.attempts + 1
                      /\ waited <= config.attempts * config.max
    BY DEF CallBounded
  <2>1. /\ config.attempts \in Nat /\ config.max \in Nat /\ context.attempts_done \in Nat
        /\ context.attempts_done <= config.attempts /\ tries \in Nat /\ waited \in Nat
    BY BackoffConfigsAssumption, WidthIsNat
       DEF TransportInv, TransportTypeOK, DelayInv, BackoffInv, BackoffTypeOK,
           AttemptsBounded, UInt16
  <2>2. context.attempts_done * config.max <= config.attempts * config.max
    BY <2>1, FewerDelays
  <2>3. /\ tries <= context.attempts_done + 1
        /\ waited <= context.attempts_done * config.max
    BY DEF TransportInv, CallCounted
  <2>4. waited <= config.attempts * config.max
    <3>1. context.attempts_done * config.max \in Nat /\ config.attempts * config.max \in Nat
      BY <2>1
    <3> QED
      BY <2>1, <2>2, <2>3, <3>1
  <2> QED
    BY <2>1, <2>3, <2>4
<1> QED
  BY <1>1, InitTransport, StepTransport, PTL DEF TransportSpec

(* No connection is made on an open handle, nor two by one call.            *)
THEOREM OneConnectionAtATime == TransportSpec => OneConnection
<1>1. TransportInv /\ [TransportNext]_transportVars
        => [connections' # connections =>
              ~open /\ step = "connecting" /\ step' # "connecting"]_transportVars
  <2> SUFFICES ASSUME TransportInv, TransportNext, connections' # connections
               PROVE  ~open /\ step = "connecting" /\ step' # "connecting"
    BY DEF transportVars
  <2>1. ConnectSucceeds
    BY DEF TransportNext, Connect, BeginReconnect, IoSucceeds, IoFails, CallSteps,
           ConnectFails, RetrySucceeds, RetryFails, Disconnect, Free
  <2> QED
    BY <2>1 DEF ConnectSucceeds, LeaveReconnect, Return, TransportInv, ClosedWhileConnecting
<1> QED
  BY <1>1, InitTransport, StepTransport, PTL DEF TransportSpec, OneConnection

(* A success is reported only with a connection to show for it, and a       *)
(* failure to connect leaves none.                                          *)
THEOREM ResultsAreTrue == TransportSpec => ResultsTrue
<1>1. TransportInv /\ [TransportNext]_transportVars
        => [step # "idle" /\ step' = "idle" =>
              /\ returned'.ok => open'
              /\ returned'.operation = "connect" => (returned'.ok <=> open')]_transportVars
  <2> SUFFICES ASSUME TransportInv, TransportNext, step # "idle", step' = "idle"
               PROVE  /\ returned'.ok => open'
                      /\ returned'.operation = "connect" => (returned'.ok <=> open')
    BY DEF transportVars
  <2>1. CallSteps
    BY DEF TransportNext, Connect, Begin, IoSucceeds, IoFails, Disconnect, Free
  <2>2. CASE ConnectSucceeds
    BY <2>2 DEF ConnectSucceeds, LeaveReconnect, Return
  <2>3. CASE ConnectFails
    BY <2>3 DEF ConnectFails, LeaveReconnect, Return, TransportInv, ClosedWhileConnecting
  <2>4. CASE RetrySucceeds
    BY <2>4 DEF RetrySucceeds, Return, TransportInv, ClosedWhileConnecting
  <2>5. CASE RetryFails
    BY <2>5 DEF RetryFails, Return, TransportInv, ClosedWhileConnecting
  <2> QED
    BY <2>1, <2>2, <2>3, <2>4, <2>5 DEF CallSteps
<1> QED
  BY <1>1, InitTransport, StepTransport, PTL DEF TransportSpec, ResultsTrue

-----------------------------------------------------------------------------
(* The transport uses its back-off as Backoff says, so that what holds of   *)
(* the one holds of the other.                                              *)
THEOREM UsesBackoff == TransportSpec => BackoffSpec
<1>1. TransportInit => BackoffInit
  BY DEF TransportInit
<1> QED
  BY <1>1, StepUsesBackoff, PTL DEF TransportSpec, BackoffSpec

(* Whatever the base delay, only the first delay of each reconnection may   *)
(* be longer than the configured maximum.                                   *)
THEOREM OnlyFirstWaitsLonger == TransportSpec => []OnlyFirstDelayLonger
  BY UsesBackoff, LongerDelaysAreFirst

(* The delays between the attempts of every call follow the full-jitter     *)
(* schedule of its configuration.                                           *)
THEOREM DelaysFollowSchedule == TransportSpec => []FullJitterSchedule
  BY UsesBackoff, FollowsFullJitter

(* The steps of a call count down.                                          *)
THEOREM CallsComeToAnEnd == TransportSpec => CallsShorten
<1>1. TransportInv /\ [TransportNext]_transportVars
        => [CallUnderWay /\ config.attempts # RETRY_FOREVER
              => CallRemaining' \in 0 .. CallRemaining - 1]_transportVars
  <2> SUFFICES ASSUME TransportInv, [TransportNext]_transportVars,
                      transportVars' # transportVars, CallUnderWay,
                      config.attempts # RETRY_FOREVER
               PROVE  CallRemaining' \in 0 .. CallRemaining - 1
    OBVIOUS
  <2>1. /\ context.attempts_done \in Nat /\ config.attempts \in Nat
        /\ context.attempts_done <= config.attempts
        /\ context.max_retry_attempts = config.attempts
        /\ context \in [attempts_done : Nat, next_jitter_max : UInt16,
                        max_backoff_delay : UInt16, max_retry_attempts : Nat]
    BY BackoffConfigsAssumption
       DEF TransportInv, DelayInv, BackoffInv, BackoffTypeOK, KeepsLimits, AttemptsBounded
  <2>2. CallSteps
    BY DEF TransportNext, transportVars, CallUnderWay, Connect, Begin, IoSucceeds, IoFails,
           Disconnect, Free
  <2>3. CASE ConnectSucceeds
    <3>1. step = "connecting" /\ step' \in {"idle", "retrying"}
      BY <2>3 DEF ConnectSucceeds, LeaveReconnect, Return
    <3> QED
      BY <2>1, <3>1 DEF CallRemaining
  <2>4. CASE ConnectFails
    <3>1. step = "connecting"
      BY <2>4 DEF ConnectFails
    <3>2. CASE HandOutDelay
      <4>1. step' = "connecting" /\ config' = config
        BY <2>4, <3>1, <3>2 DEF ConnectFails, HandOutDelay
      <4>2. context'.attempts_done = context.attempts_done + 1
        BY <2>1, <3>2 DEF HandOutDelay
      <4>3. context.attempts_done < config.attempts
        BY <2>1, <3>2 DEF HandOutDelay, RetriesLeft
      <4> QED
        BY <2>1, <3>1, <4>1, <4>2, <4>3 DEF CallRemaining
    <3>3. CASE RetriesExhausted
      <4>1. step' \in {"idle", "retrying"}
        BY <2>4, <3>3 DEF ConnectFails, RetriesExhausted, LeaveReconnect, Return
      <4> QED
        BY <2>1, <3>1, <4>1 DEF CallRemaining
    <3> QED
      BY <2>4, <3>2, <3>3 DEF ConnectFails, GetNext
  <2>5. CASE RetrySucceeds \/ RetryFails
    BY <2>5 DEF RetrySucceeds, RetryFails, Return, CallRemaining
  <2> QED
    BY <2>2, <2>3, <2>4, <2>5 DEF CallSteps
<1> QED
  BY <1>1, InitTransport, StepTransport, PTL DEF TransportSpec, CallsShorten

(* For its caller every call of the transport is one step of TransportCalls. *)
LEMMA StepIsCall ==
  TransportInv /\ ConnectionsCounted /\ [TransportNext]_transportVars
    => [Calls!Next]_<<IF CallUnderWay THEN before.open ELSE open,
                      IF CallUnderWay THEN before.connections ELSE connections, returned>>
<1> DEFINE seen_open == IF CallUnderWay THEN before.open ELSE open
           seen_connections == IF CallUnderWay THEN before.connections ELSE connections
           Hidden == UNCHANGED <<seen_open, seen_connections, returned>>
           Outcome(op, replaced, ok) ==
             /\ Calls!CallOutcome(op, seen_open, seen_open', replaced, ok)
             /\ seen_connections' = IF replaced THEN seen_connections + 1 ELSE seen_connections
             /\ returned' = [operation |-> op, ok |-> ok]
<1> SUFFICES ASSUME TransportInv, ConnectionsCounted, [TransportNext]_transportVars
             PROVE  Calls!Next \/ Hidden
  BY DEF Hidden, seen_open, seen_connections
<1>1. /\ ClosedWhileConnecting /\ CallTyped /\ BeforeTyped /\ ResultTyped
      /\ seen_open' \in BOOLEAN
  <2>1. ClosedWhileConnecting /\ CallTyped /\ BeforeTyped /\ ResultTyped
    BY Assemble
  <2>2. TransportInv'
    BY StepTransport
  <2>3. BeforeTyped' /\ ResultTyped'
    BY <2>2, Assemble, PTL
  <2> QED
    BY <2>1, <2>3 DEF seen_open, BeforeTyped, ResultTyped
<1>2. ASSUME NEW op \in {"connect", "write", "read"}, NEW replaced \in BOOLEAN,
             NEW ok \in BOOLEAN, Outcome(op, replaced, ok)
      PROVE  Calls!Next
  BY <1>1, <1>2 DEF Calls!Next, Calls!Call, Outcome, seen_open, seen_connections
<1>3. CASE Connect
  BY <1>3 DEF Connect, Begin, BeginReconnect, CallUnderWay
<1>4. ASSUME NEW op \in {"write", "read"}, IoSucceeds(op) PROVE Calls!Next
  <2>1. Outcome(op, FALSE, TRUE)
    BY <1>4 DEF IoSucceeds, Begin, Return, CallUnderWay, Calls!CallOutcome
  <2> QED
    BY <1>2, <2>1
<1>5. ASSUME NEW op \in {"write", "read"}, NEW reconnects \in BOOLEAN, IoFails(op, reconnects)
      PROVE  Calls!Next \/ Hidden
  <2>1. CASE reconnects
    BY <1>5, <2>1 DEF IoFails, Begin, BeginReconnect, CallUnderWay
  <2>2. CASE ~reconnects
    <3>1. Outcome(op, FALSE, FALSE)
      BY <1>5, <2>2 DEF IoFails, Begin, Return, CallUnderWay, Calls!CallOutcome
    <3> QED
      BY <1>2, <3>1
  <2> QED
    BY <2>1, <2>2
<1>6. CASE ConnectSucceeds
  <2>1. CASE operation = "connect"
    <3>1. Outcome("connect", TRUE, TRUE)
      BY <1>6, <2>1 DEF ConnectSucceeds, LeaveReconnect, Return, CallUnderWay,
                        ConnectionsCounted, Calls!CallOutcome
    <3> QED
      BY <1>2, <3>1
  <2>2. CASE operation # "connect"
    BY <1>6, <2>2 DEF ConnectSucceeds, LeaveReconnect, CallUnderWay
  <2> QED
    BY <2>1, <2>2
<1>7. CASE ConnectFails
  <2>1. CASE status' # "SUCCESS" /\ operation = "connect"
    <3>1. Outcome("connect", FALSE, FALSE)
      BY <1>1, <1>7, <2>1 DEF ConnectFails, LeaveReconnect, Return, CallUnderWay,
                              ConnectionsCounted, ClosedWhileConnecting, Calls!CallOutcome
    <3> QED
      BY <1>2, <3>1
  <2>2. CASE ~(status' # "SUCCESS" /\ operation = "connect")
    BY <1>7, <2>2 DEF ConnectFails, LeaveReconnect, CallUnderWay
  <2> QED
    BY <2>1, <2>2
<1>8. ASSUME NEW ok \in BOOLEAN, step = "retrying", Return(operation, ok), ok => open,
             UNCHANGED <<backoffVars, callVars, open, connections>>
      PROVE  Calls!Next
  <2>1. open \in BOOLEAN /\ operation \in {"none", "write", "read"}
    BY <1>1, <1>8 DEF ResultTyped, CallTyped, ClosedWhileConnecting
  <2>2. operation \in {"write", "read"}
    BY <1>8, <2>1 DEF ConnectionsCounted
  <2>3. Outcome(operation, open, ok)
    BY <1>8, <2>1, <2>2 DEF Return, CallUnderWay, ConnectionsCounted, Calls!CallOutcome
  <2> QED
    BY <1>2, <2>1, <2>2, <2>3
<1>9. CASE RetrySucceeds \/ RetryFails
  BY <1>8, <1>9 DEF RetrySucceeds, RetryFails
<1>10. CASE Disconnect \/ Free
  BY <1>10 DEF Disconnect, Free, CallUnderWay, Calls!Next, Calls!Close
<1>11. CASE UNCHANGED transportVars
  BY <1>11 DEF transportVars, callVars, CallUnderWay
<1> QED
  BY <1>3, <1>4, <1>5, <1>6, <1>7, <1>9, <1>10, <1>11 DEF TransportNext, CallSteps

(* The transport implements what its callers rely on.                       *)
THEOREM ImplementsTransportCalls == TransportSpec => TransportCallsSpec
<1>1. TransportInit => ConnectionsCounted /\ Calls!Init
  BY DEF TransportInit, ConnectionsCounted, Calls!Init, CallUnderWay
<1> QED
  BY <1>1, InitTransport, StepTransport, StepConnections, StepIsCall, PTL
     DEF TransportSpec, TransportCallsSpec, Calls!Spec
=============================================================================
