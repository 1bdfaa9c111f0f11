----------------------------- MODULE BackoffProofs ----------------------------
(***************************************************************************)
(* Proofs about Backoff, for every set of 16-bit configurations.           *)
(***************************************************************************)
EXTENDS Backoff, TLAPS

(* The context keeps the limits of the configuration it was made from.      *)
KeepsLimits ==
  /\ context.max_backoff_delay = config.max
  /\ context.max_retry_attempts = config.attempts

BackoffInv == BackoffTypeOK /\ KeepsLimits /\ AttemptsBounded

(* Once a delay is handed out the ceiling of the next one is within the      *)
(* maximum; until then it is the base delay.                                *)
CeilingBounded ==
  \/ context.next_jitter_max <= config.max
  \/ context.attempts_done = 0 /\ context.next_jitter_max = config.base

DelayInv == BackoffInv /\ CeilingBounded /\ OnlyFirstDelayLonger

-----------------------------------------------------------------------------
(* All that the proofs use of the width is that it is a number.             *)
LEMMA WidthIsNat == UINT16_MAX \in Nat
  BY DEF UINT16_MAX

(* The doubled ceiling fits 16 bits and does not pass the maximum.          *)
LEMMA NextJitterMaxBounded ==
  ASSUME NEW ctx, ctx.next_jitter_max \in UInt16, ctx.max_backoff_delay \in UInt16
  PROVE  /\ NextJitterMax(ctx) \in UInt16
         /\ NextJitterMax(ctx) <= ctx.max_backoff_delay
<1>1. ASSUME ctx.next_jitter_max < ctx.max_backoff_delay \div 2
      PROVE  /\ 2 * ctx.next_jitter_max <= ctx.max_backoff_delay
             /\ (2 * ctx.next_jitter_max) % (UINT16_MAX + 1) = 2 * ctx.next_jitter_max
  BY <1>1, WidthIsNat DEF UInt16
<1> QED
  BY <1>1, WidthIsNat DEF UInt16, NextJitterMax

(* backoff_algorithm_initialize makes a context of its type.                *)
LEMMA InitializedTyped ==
  ASSUME NEW cfg \in BackoffConfigs
  PROVE  InitializedContext(cfg) \in
           [attempts_done : Nat, next_jitter_max : UInt16,
            max_backoff_delay : UInt16, max_retry_attempts : Nat]
  BY BackoffConfigsAssumption DEF InitializedContext

(* The inductive invariant of the context holds when it is made.            *)
LEMMA InitBackoff == BackoffInit => BackoffInv
<1> SUFFICES ASSUME BackoffInit PROVE BackoffInv
  OBVIOUS
<1>1. config \in BackoffConfigs /\ config.attempts \in Nat
  BY BackoffConfigsAssumption DEF BackoffInit
<1> QED
  BY <1>1, InitializedTyped, WidthIsNat
     DEF BackoffInit, BackoffInv, BackoffTypeOK, KeepsLimits, AttemptsBounded, UInt16,
         InitializedContext

(* Neither call disturbs it: the retry limit is looked at before it counts. *)
LEMMA StepBackoff == BackoffInv /\ [BackoffNext]_backoffVars => BackoffInv'
<1> SUFFICES ASSUME BackoffInv, [BackoffNext]_backoffVars PROVE BackoffInv'
  OBVIOUS
<1> USE DEF BackoffInv, BackoffTypeOK, KeepsLimits, AttemptsBounded
<1>1. config \in BackoffConfigs /\ config.attempts \in Nat
  BY BackoffConfigsAssumption
<1>2. CASE Initialize
  BY <1>1, <1>2, InitializedTyped, WidthIsNat DEF Initialize, InitializedContext, UInt16
<1>3. CASE HandOutDelay
  <2>1. NextJitterMax(context) \in UInt16
    BY NextJitterMaxBounded
  <2>2. next_backoff' \in UInt16
    BY <1>3, WidthIsNat DEF HandOutDelay, RandomUpTo, UInt16
  <2> DEFINE counted == [context EXCEPT !.attempts_done = @ + 1]
  <2>3. /\ context' = [counted EXCEPT !.next_jitter_max = NextJitterMax(context)]
        /\ counted \in [attempts_done : Nat, next_jitter_max : UInt16,
                        max_backoff_delay : UInt16, max_retry_attempts : Nat]
        /\ counted.attempts_done = context.attempts_done + 1
        /\ counted.max_backoff_delay = context.max_backoff_delay
        /\ counted.max_retry_attempts = context.max_retry_attempts
    BY <1>3 DEF HandOutDelay
  <2> HIDE DEF counted
  <2>4. config.attempts # RETRY_FOREVER => context.attempts_done + 1 <= config.attempts
    BY <1>1, <1>3 DEF HandOutDelay, RetriesLeft
  <2> QED
    BY <1>1, <1>3, <2>1, <2>2, <2>3, <2>4 DEF HandOutDelay
<1>4. CASE RetriesExhausted
  BY <1>4 DEF RetriesExhausted
<1>5. CASE UNCHANGED backoffVars
  BY <1>5 DEF backoffVars
<1> QED
  BY <1>2, <1>3, <1>4, <1>5 DEF BackoffNext, GetNext

(* The context stays within its 16-bit fields.                              *)
THEOREM BackoffTypeCorrect == BackoffSpec => []BackoffTypeOK
<1>1. BackoffInv => BackoffTypeOK
  BY DEF BackoffInv
<1> QED
  BY <1>1, InitBackoff, StepBackoff, PTL DEF BackoffSpec

(* One context never hands out more delays than the configured retries.     *)
THEOREM AttemptsStayBounded == BackoffSpec => []AttemptsBounded
<1>1. BackoffInv => AttemptsBounded
  BY DEF BackoffInv
<1> QED
  BY <1>1, InitBackoff, StepBackoff, PTL DEF BackoffSpec

-----------------------------------------------------------------------------
(* The first ceiling is the base delay.                                     *)
LEMMA InitDelay == BackoffInit => DelayInv
<1> SUFFICES ASSUME BackoffInit PROVE DelayInv
  OBVIOUS
<1>1. config.max \in UInt16
  BY BackoffConfigsAssumption DEF BackoffInit
<1> QED
  BY <1>1, InitBackoff, WidthIsNat
     DEF BackoffInit, DelayInv, CeilingBounded, OnlyFirstDelayLonger, DelayBounded,
         InitializedContext, UInt16

(* A delay is no longer than its ceiling, and no call raises the ceiling     *)
(* above the maximum.                                                       *)
LEMMA StepDelay == DelayInv /\ [BackoffNext]_backoffVars => DelayInv'
<1> SUFFICES ASSUME DelayInv, [BackoffNext]_backoffVars PROVE DelayInv'
  OBVIOUS
<1>1. BackoffInv' /\ BackoffTypeOK /\ KeepsLimits
  BY StepBackoff DEF DelayInv, BackoffInv
<1>2. config.max \in UInt16 /\ config.base \in UInt16
  BY <1>1, BackoffConfigsAssumption DEF BackoffTypeOK
<1>3. CASE Initialize
  BY <1>1, <1>2, <1>3, WidthIsNat
     DEF Initialize, DelayInv, CeilingBounded, OnlyFirstDelayLonger, DelayBounded,
         InitializedContext, UInt16
<1>4. CASE HandOutDelay
  <2>1. NextJitterMax(context) <= config.max
    BY <1>1, NextJitterMaxBounded DEF BackoffTypeOK, KeepsLimits
  <2>2. /\ context'.next_jitter_max = NextJitterMax(context)
        /\ context'.attempts_done = context.attempts_done + 1
        /\ config' = config
    BY <1>1, <1>4 DEF HandOutDelay, BackoffTypeOK
  <2>3. CeilingBounded'
    BY <2>1, <2>2 DEF CeilingBounded
  <2>4. next_backoff' \in Nat /\ next_backoff' <= context.next_jitter_max
    BY <1>1, <1>4, WidthIsNat DEF HandOutDelay, RandomUpTo, BackoffTypeOK, UInt16
  <2>5. OnlyFirstDelayLonger'
    <3>1. CASE context.next_jitter_max <= config.max
      BY <1>1, <1>2, <2>2, <2>4, <3>1, WidthIsNat
         DEF OnlyFirstDelayLonger, DelayBounded, BackoffTypeOK, UInt16
    <3>2. CASE context.attempts_done = 0 /\ context.next_jitter_max = config.base
      BY <2>2, <2>4, <3>2 DEF OnlyFirstDelayLonger
    <3> QED
      BY <3>1, <3>2 DEF DelayInv, CeilingBounded
  <2> QED
    BY <1>1, <2>3, <2>5 DEF DelayInv
<1>5. CASE RetriesExhausted \/ UNCHANGED backoffVars
  BY <1>1, <1>5
     DEF RetriesExhausted, backoffVars, DelayInv, CeilingBounded, OnlyFirstDelayLonger,
         DelayBounded
<1> QED
  BY <1>3, <1>4, <1>5 DEF BackoffNext, GetNext

(* In every configuration only the first delay of a reconnection may pass   *)
(* the maximum, and by no more than the base delay does.                    *)
THEOREM LongerDelaysAreFirst == BackoffSpec => []OnlyFirstDelayLonger
<1>1. DelayInv => OnlyFirstDelayLonger
  BY DEF DelayInv
<1> QED
  BY <1>1, InitDelay, StepDelay, PTL DEF BackoffSpec

(* Where the base delay is at most the maximum, no delay is longer than it. *)
LEMMA ShortBaseDelays == DelayInv /\ config.base <= config.max => DelayBounded
<1> SUFFICES ASSUME DelayInv, config.base <= config.max PROVE DelayBounded
  OBVIOUS
<1>1. config.max \in Int /\ config.base \in Int /\ next_backoff \in Int
  BY BackoffConfigsAssumption, WidthIsNat DEF DelayInv, BackoffInv, BackoffTypeOK, UInt16
<1> QED
  BY <1>1 DEF DelayInv, OnlyFirstDelayLonger, DelayBounded

(* So the promise of backoff_algorithm.h is kept by every configuration     *)
(* with a base delay up to the maximum, in spite of the 16-bit doubling.    *)
THEOREM DelayStaysBounded == BackoffSpec => [](config.base <= config.max => DelayBounded)
<1>1. DelayInv => (config.base <= config.max => DelayBounded)
  BY ShortBaseDelays
<1> QED
  BY <1>1, InitDelay, StepDelay, PTL DEF BackoffSpec

-----------------------------------------------------------------------------
(***************************************************************************)
(* The full-jitter schedule                                                *)
(***************************************************************************)

(* Up to the sixteenth a power of two is twice the one before.  The provers *)
(* know the powers of numbers, and not their laws.                          *)
LEMMA PowersOfTwo ==
  ASSUME NEW n \in 0 .. 15
  PROVE  2^n \in Nat /\ 2^(n + 1) = 2 * 2^n
<1>1. CASE n = 0
  BY <1>1
<1>2. CASE n = 1
  BY <1>2
<1>3. CASE n = 2
  BY <1>3
<1>4. CASE n = 3
  BY <1>4
<1>5. CASE n = 4
  BY <1>5
<1>6. CASE n = 5
  BY <1>6
<1>7. CASE n = 6
  BY <1>7
<1>8. CASE n = 7
  BY <1>8
<1>9. CASE n = 8
  BY <1>9
<1>10. CASE n = 9
  BY <1>10
<1>11. CASE n = 10
  BY <1>11
<1>12. CASE n = 11
  BY <1>12
<1>13. CASE n = 12
  BY <1>13
<1>14. CASE n = 13
  BY <1>14
<1>15. CASE n = 14
  BY <1>15
<1>16. CASE n = 15
  BY <1>16
<1> QED
  BY <1>1, <1>2, <1>3, <1>4, <1>5, <1>6, <1>7, <1>8, <1>9,
     <1>10, <1>11, <1>12, <1>13, <1>14, <1>15, <1>16

(* One more failure doubles the base once more, or it is past any maximum.  *)
LEMMA DoubledOnceMore ==
  ASSUME NEW cfg, cfg.base \in UInt16, NEW n \in Nat
  PROVE  /\ Doubled(cfg, n) \in Nat
         /\ n < 16 => Doubled(cfg, n + 1) = 2 * Doubled(cfg, n)
         /\ n >= 16 => Doubled(cfg, n + 1) = Doubled(cfg, n)
         /\ n >= 16 /\ cfg.base # 0 => Doubled(cfg, n) > UINT16_MAX
         /\ cfg.base = 0 => Doubled(cfg, n) = 0
<1>1. cfg.base \in Nat
  BY WidthIsNat DEF UInt16
<1>2. 2^16 = 65536
  OBVIOUS
<1>3. CASE n < 16
  <2>1. n \in 0 .. 15
    BY <1>3
  <2>2. 2^n \in Nat /\ 2^(n + 1) = 2 * 2^n
    BY <2>1, PowersOfTwo
  <2>3. Doublings(n) = n /\ Doublings(n + 1) = n + 1
    BY <1>3 DEF Doublings
  <2>4. PICK p \in Nat : p = 2^n /\ 2 * p = 2^(n + 1)
    BY <2>2
  <2>5. Doubled(cfg, n) = cfg.base * p /\ Doubled(cfg, n + 1) = cfg.base * (2 * p)
    BY <2>3, <2>4, Zenon DEF Doubled
  <2>6. cfg.base * p \in Nat /\ cfg.base * (2 * p) = 2 * (cfg.base * p) /\ 0 * p = 0
    BY <1>1
  <2>7. Doubled(cfg, n) \in Nat /\ Doubled(cfg, n + 1) = 2 * Doubled(cfg, n)
    BY <2>5, <2>6, Zenon
  <2>8. cfg.base = 0 => Doubled(cfg, n) = 0
    BY <2>5, <2>6, Zenon
  <2> QED
    BY <1>3, <2>7, <2>8
<1>4. CASE n >= 16
  <2>1. Doublings(n) = 16 /\ Doublings(n + 1) = 16
    BY <1>4 DEF Doublings
  <2>2. PICK p \in Nat : p = 2^16 /\ p > UINT16_MAX
    BY <1>2 DEF UINT16_MAX
  <2>3. /\ Doubled(cfg, n) = cfg.base * 2^16
        /\ Doubled(cfg, n + 1) = cfg.base * 2^16
    BY <2>1, Zenon DEF Doubled
  <2>4. cfg.base * 2^16 = cfg.base * p
    BY <2>2, Zenon
  <2>5. cfg.base * p \in Nat /\ (cfg.base # 0 => cfg.base * p >= p) /\ 0 * p = 0
    BY <1>1
  <2> QED
    BY <1>1, <1>4, <2>2, <2>3, <2>4, <2>5, WidthIsNat
<1> QED
  BY <1>3, <1>4

(* The ceiling is the base doubled as often as there were failures; where   *)
(* one more doubling would reach the maximum, or miss it by one, it is the  *)
(* maximum.                                                                 *)
CeilingDoubled ==
  config.base <= config.max =>
    LET doubled == Doubled(config, context.attempts_done) IN
    \/ context.next_jitter_max = doubled /\ doubled <= config.max
    \/ context.next_jitter_max = config.max /\ doubled + 1 >= config.max

ScheduleInv == BackoffInv /\ CeilingDoubled

(* A new context starts with the base delay.                                *)
LEMMA InitializedCeiling ==
  ASSUME NEW cfg, cfg.base \in UInt16
  PROVE  Doubled(cfg, InitializedContext(cfg).attempts_done) =
           InitializedContext(cfg).next_jitter_max
<1>1. cfg.base \in Nat /\ 2^0 = 1
  BY WidthIsNat DEF UInt16
<1>2. Doubled(cfg, 0) = cfg.base * 1
  BY <1>1 DEF Doubled, Doublings
<1> QED
  BY <1>1, <1>2 DEF InitializedContext

(* The comparison with half the maximum, rounded down, decides as the       *)
(* schedule does.                                                           *)
LEMMA StepSchedule == ScheduleInv /\ [BackoffNext]_backoffVars => ScheduleInv'
<1> SUFFICES ASSUME ScheduleInv, [BackoffNext]_backoffVars PROVE CeilingDoubled'
  BY StepBackoff DEF ScheduleInv
<1>1. BackoffTypeOK /\ KeepsLimits
  BY DEF ScheduleInv, BackoffInv
<1>2. config.max \in UInt16 /\ config.base \in UInt16
  BY <1>1, BackoffConfigsAssumption DEF BackoffTypeOK
<1>3. CASE Initialize
  BY <1>2, <1>3, InitializedCeiling, WidthIsNat
     DEF Initialize, CeilingDoubled, InitializedContext, UInt16
<1>4. CASE HandOutDelay
  <2> DEFINE n == context.attempts_done
             ceiling == context.next_jitter_max
             d == Doubled(config, n)
  <2>1. n \in Nat /\ ceiling \in Nat /\ config.max \in Nat /\ config.max <= UINT16_MAX
    BY <1>1, <1>2, WidthIsNat DEF BackoffTypeOK, UInt16
  <2>2. /\ context'.attempts_done = n + 1 /\ config' = config
        /\ context'.next_jitter_max =
             IF ceiling < config.max \div 2 THEN 2 * ceiling ELSE config.max
    <3>1. context'.attempts_done = n + 1 /\ context'.next_jitter_max = NextJitterMax(context)
      BY <1>1, <1>4 DEF HandOutDelay, BackoffTypeOK
    <3>2. ceiling < config.max \div 2 => (2 * ceiling) % (UINT16_MAX + 1) = 2 * ceiling
      BY <2>1, WidthIsNat
    <3> QED
      BY <1>1, <1>4, <3>1, <3>2 DEF HandOutDelay, NextJitterMax, KeepsLimits
  <2>3. /\ d \in Nat
        /\ n < 16 => Doubled(config, n + 1) = 2 * d
        /\ n >= 16 => Doubled(config, n + 1) = d
        /\ n >= 16 /\ config.base # 0 => d > config.max
        /\ config.base = 0 => d = 0
    BY <1>2, <2>1, DoubledOnceMore, WidthIsNat
  <2>4. config.base <= config.max =>
          \/ ceiling = d /\ d <= config.max
          \/ ceiling = config.max /\ d + 1 >= config.max
    BY DEF ScheduleInv, CeilingDoubled
  <2> HIDE DEF n, ceiling, d
  <2>5. config.base <= config.max =>
          LET next == Doubled(config, n + 1)
              cap == IF ceiling < config.max \div 2 THEN 2 * ceiling ELSE config.max
          IN  \/ cap = next /\ next <= config.max
              \/ cap = config.max /\ next + 1 >= config.max
    BY <2>1, <2>3, <2>4
  <2> QED
    BY <2>2, <2>5 DEF CeilingDoubled
<1>5. CASE RetriesExhausted \/ UNCHANGED backoffVars
  BY <1>5 DEF RetriesExhausted, backoffVars, ScheduleInv, CeilingDoubled
<1> QED
  BY <1>3, <1>4, <1>5 DEF BackoffNext, GetNext

(* The ceilings of the delays are those of the full-jitter schedule, but    *)
(* for the one millisecond by which an odd maximum may come early.          *)
THEOREM FollowsFullJitter == BackoffSpec => []FullJitterSchedule
<1>1. BackoffInit => ScheduleInv
  <2> SUFFICES ASSUME BackoffInit PROVE CeilingDoubled
    BY InitBackoff DEF ScheduleInv
  <2>1. config.base \in UInt16 /\ config.max \in UInt16
    BY BackoffConfigsAssumption DEF BackoffInit
  <2> QED
    BY <2>1, InitializedCeiling, WidthIsNat
       DEF BackoffInit, CeilingDoubled, InitializedContext, UInt16
<1>2. ScheduleInv => FullJitterSchedule
  <2> SUFFICES ASSUME ScheduleInv, config.base <= config.max PROVE FullJitterSchedule
    BY DEF FullJitterSchedule
  <2>1. config.base \in UInt16 /\ config.max \in Nat /\ context.attempts_done \in Nat
    BY BackoffConfigsAssumption, WidthIsNat
       DEF ScheduleInv, BackoffInv, BackoffTypeOK, UInt16
  <2>2. Doubled(config, context.attempts_done) \in Nat
    BY <2>1, DoubledOnceMore
  <2> QED
    BY <2>1, <2>2 DEF ScheduleInv, CeilingDoubled, FullJitterSchedule, FullJitterCeiling
<1> QED
  BY <1>1, <1>2, StepSchedule, PTL DEF BackoffSpec
=============================================================================
