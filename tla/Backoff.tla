------------------------------- MODULE Backoff -------------------------------
(***************************************************************************)
(* The "full jitter" exponential back-off of                               *)
(* infrastructure/backoff_algorithm.c: the delay before each reconnection  *)
(* attempt of the transport.  One context lives for one reconnection: it   *)
(* is initialised, asked for a delay after every failed attempt, and says  *)
(* at some point that the retries are exhausted.                           *)
(*                                                                         *)
(* A delay is a number of milliseconds; esp_random() % (n + 1) is any      *)
(* value of 0..n.                                                          *)
(***************************************************************************)
EXTENDS Integers

CONSTANT BackoffConfigs
  (* The build configurations considered: the base delay, the maximum      *)
  (* delay and the retry attempts of the component's Kconfig.              *)

UINT16_MAX == 65535
UInt16 == 0 .. UINT16_MAX

ASSUME BackoffConfigsAssumption ==
  BackoffConfigs \subseteq [base : UInt16, max : UInt16, attempts : Nat]

RETRY_FOREVER == 0

VARIABLES
  config,        (* the configuration this build was made with             *)
  context,       (* backoff_algorithm_context_t                            *)
  next_backoff,  (* the delay last handed out                              *)
  status         (* what backoff_algorithm_get_next last returned          *)

backoffVars == <<config, context, next_backoff, status>>

(***************************************************************************)
(* backoff_algorithm_initialize                                            *)
(***************************************************************************)
InitializedContext(cfg) ==
  [attempts_done      |-> 0,
   next_jitter_max    |-> cfg.base,
   max_backoff_delay  |-> cfg.max,
   max_retry_attempts |-> cfg.attempts]

Initialize ==
  /\ context' = InitializedContext(config)
  /\ next_backoff' = 0
  /\ status' = "SUCCESS"
  /\ UNCHANGED config

(***************************************************************************)
(* backoff_algorithm_get_next                                              *)
(***************************************************************************)
RetriesLeftOffByOne(ctx) ==  \* mutant: the limit itself is still a retry
  \/ ctx.attempts_done <= ctx.max_retry_attempts
  \/ ctx.max_retry_attempts = RETRY_FOREVER

RetriesLeft(ctx) ==
  \/ ctx.attempts_done < ctx.max_retry_attempts
  \/ ctx.max_retry_attempts = RETRY_FOREVER

NextJitterMaxUncapped(ctx) ==  \* mutant: compares with the maximum, not its half
  IF ctx.next_jitter_max < ctx.max_backoff_delay
    THEN 2 * ctx.next_jitter_max
    ELSE ctx.max_backoff_delay

NextJitterMaxStuck(ctx) ==  \* mutant: the ceiling never jumps to the maximum
  IF ctx.next_jitter_max < ctx.max_backoff_delay \div 2
    THEN 2 * ctx.next_jitter_max
    ELSE ctx.next_jitter_max

NextJitterMax(ctx) ==
  IF ctx.next_jitter_max < ctx.max_backoff_delay \div 2
    THEN (2 * ctx.next_jitter_max) % (UINT16_MAX + 1)
    ELSE ctx.max_backoff_delay

RandomUpToSigned(n) == (0 - n) .. n  \* mutant: the remainder of a signed number

RandomUpTo(n) == 0 .. n  \* esp_random() % (n + 1U)

HandOutDelay ==
  /\ RetriesLeft(context)
  /\ next_backoff' \in RandomUpTo(context.next_jitter_max)
  /\ context' = [context EXCEPT !.attempts_done   = @ + 1,
                                !.next_jitter_max = NextJitterMax(context)]
  /\ status' = "SUCCESS"
  /\ UNCHANGED config

RetriesExhausted ==
  /\ ~RetriesLeft(context)
  /\ status' = "RETRIES_EXHAUSTED"
  /\ UNCHANGED <<config, context, next_backoff>>

GetNext == HandOutDelay \/ RetriesExhausted

-----------------------------------------------------------------------------
BackoffInit ==
  /\ config \in BackoffConfigs
  /\ context = InitializedContext(config)
  /\ next_backoff = 0
  /\ status = "SUCCESS"

(* The caller initialises the context again for its next reconnection,      *)
(* whether the previous one connected or ran out of retries.                *)
BackoffNext == Initialize \/ GetNext

BackoffSpec == BackoffInit /\ [][BackoffNext]_backoffVars

-----------------------------------------------------------------------------
(***************************************************************************)
(* Properties                                                              *)
(***************************************************************************)

(* Type invariant of the back-off context.                                  *)
BackoffTypeOK ==
  /\ config \in BackoffConfigs
  /\ context \in [attempts_done : Nat, next_jitter_max : UInt16,
                  max_backoff_delay : UInt16, max_retry_attempts : Nat]
  /\ next_backoff \in UInt16
  /\ status \in {"SUCCESS", "RETRIES_EXHAUSTED"}

(* What backoff_algorithm.h promises of every delay handed out.  The code    *)
(* keeps it only for a base delay up to the maximum: nothing caps the base, *)
(* which is the ceiling of the first delay.                                 *)
DelayBounded == next_backoff <= config.max

(* What the code does keep, in every configuration: only the first delay of *)
(* a reconnection may be longer than the maximum, and it is no longer than  *)
(* the base delay.  So with a base up to the maximum none is longer, at     *)
(* whatever point the doubling stops.                                       *)
OnlyFirstDelayLonger ==
  DelayBounded \/ (context.attempts_done = 1 /\ next_backoff <= config.base)

(* However the calls are repeated, one context never hands out more delays  *)
(* than the configured number of retries.                                   *)
AttemptsBounded ==
  config.attempts # RETRY_FOREVER => context.attempts_done <= config.attempts

(* The textbook ceiling of the delay after n failures: the base doubled n   *)
(* times and capped by the maximum.  Sixteen doublings take any base but    *)
(* zero past every maximum, so the later ones are not counted.              *)
Doublings(n) == IF n < 16 THEN n ELSE 16

Doubled(cfg, n) == cfg.base * 2^Doublings(n)

FullJitterCeiling(cfg, n) ==
  IF Doubled(cfg, n) <= cfg.max THEN Doubled(cfg, n) ELSE cfg.max

(* The ceilings the code computes with its integer halving are those of     *)
(* the full-jitter schedule; an odd maximum may be reached one millisecond  *)
(* and one doubling early, never late and never more than that.             *)
FullJitterSchedule ==
  config.base <= config.max =>
    LET ceiling == FullJitterCeiling(config, context.attempts_done)
    IN  context.next_jitter_max \in {ceiling, ceiling + 1}
=============================================================================
