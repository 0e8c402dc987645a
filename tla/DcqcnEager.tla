----------------------------- MODULE DcqcnEager -----------------------------
(***************************************************************************)
(* The DCQCN reaction point as its specification has it: three periodic    *)
(* timers that fire one by one (the oracle of executor/tests/support/      *)
(* dcqcn_oracle.rs).  executor/src/dcqcn.rs must be indistinguishable from *)
(* this machine although it owns no event; see DcqcnLazy.                  *)
(*                                                                         *)
(* alpha is a fraction of One (2^63 in the code).  An instant at or beyond *)
(* MaxTime (u64::MAX in the code) never fires.                             *)
(***************************************************************************)
EXTENDS Integers

CONSTANTS
  One,                                    \* alpha = 1, DCQCN_ALPHA_ONE
  MinimumRate, InitialRate, MaximumRate,  \* bits per second
  AdditiveRate, HyperRate,
  Gain,                                   \* g_q63
  AlphaInterval, DecreaseInterval, IncreaseInterval,
  FastRecoverySteps,
  ClampTargetRate,
  MaxTime

VARIABLES
  now,
  timers_fired,   \* the timers of this instant have fired
  eager,          \* EagerDcqcn
  frozen          \* the flow is complete

eagerVars == <<now, timers_fired, eager, frozen>>

\* DcqcnControllerConfig::validate.
ASSUME ConfigAssumption ==
  /\ One \in Nat \ {0}
  /\ MinimumRate \in Nat /\ InitialRate \in Nat /\ MaximumRate \in Nat
  /\ MinimumRate >= 3 /\ MinimumRate <= InitialRate /\ InitialRate <= MaximumRate
  /\ AdditiveRate \in Nat /\ HyperRate \in Nat
  /\ Gain \in 0 .. One
  /\ AlphaInterval \in Nat \ {0} /\ DecreaseInterval \in Nat \ {0}
  /\ IncreaseInterval \in Nat \ {0}
  /\ FastRecoverySteps \in Nat
  /\ ClampTargetRate \in BOOLEAN
  /\ MaxTime \in Nat \ {0}

Never == MaxTime

later(time, interval) == IF time + interval < MaxTime THEN time + interval ELSE Never

AtMost(a, b) == IF a < b THEN a ELSE b
AtLeast(a, b) == IF a < b THEN b ELSE a

EagerInit ==
  [alpha |-> One, current |-> InitialRate, target |-> InitialRate, stage |-> 0,
   armed |-> FALSE, alpha_pending |-> FALSE, decrease_pending |-> FALSE,
   increase_armed |-> FALSE,
   next_alpha |-> Never, next_decrease |-> Never, next_increase |-> Never]

eager_feedback(c) ==
  IF c.armed THEN [c EXCEPT !.alpha_pending = TRUE, !.decrease_pending = TRUE]
  ELSE [c EXCEPT !.armed = TRUE, !.alpha = One, !.decrease_pending = TRUE,
                 !.next_alpha = later(now, AlphaInterval),
                 !.next_decrease = later(later(now, DecreaseInterval), 1)]

alpha_tick(c) ==
  IF c.next_alpha # now THEN c
  ELSE [c EXCEPT !.alpha = ((One - Gain) * c.alpha
                              + (IF c.alpha_pending THEN Gain * One ELSE 0)) \div One,
                 !.alpha_pending = FALSE,
                 !.next_alpha = later(now, AlphaInterval)]

\* The target a rate increase heads for, after the fast recovery steps.
raised_target(c) ==
  IF c.stage < FastRecoverySteps THEN c.target
  ELSE AtMost(c.target + (IF c.stage = FastRecoverySteps THEN AdditiveRate ELSE HyperRate),
              MaximumRate)

increase_timer(c) ==
  IF c.next_increase # now THEN c
  ELSE [c EXCEPT !.target = raised_target(c),
                 !.current = c.current \div 2 + raised_target(c) \div 2,
                 !.stage = @ + 1,
                 !.next_increase = later(now, IncreaseInterval)]

\* Mutant: the cut is not floored at the minimum rate.
UnflooredCut(c) == (c.current * (2 * One - c.alpha)) \div (2 * One)

\* The rate after a cut, floor(current * (1 - alpha / 2)).
cut_rate(c) == AtLeast((c.current * (2 * One - c.alpha)) \div (2 * One), MinimumRate)

decrease_timer(c) ==
  IF c.next_decrease # now THEN c
  ELSE IF ~c.decrease_pending THEN [c EXCEPT !.next_decrease = later(now, DecreaseInterval)]
  ELSE [c EXCEPT !.next_decrease = later(now, DecreaseInterval),
                 !.target = IF ClampTargetRate \/ c.stage # 0 THEN c.current ELSE @,
                 !.current = cut_rate(c),
                 !.stage = 0,
                 !.decrease_pending = FALSE,
                 !.increase_armed = TRUE,
                 !.next_increase = later(now, IncreaseInterval)]

-----------------------------------------------------------------------------

Init ==
  /\ now = 0
  /\ timers_fired = FALSE
  /\ eager = EagerInit
  /\ frozen = FALSE

\* A feedback arrival precedes every timer of its instant.
Feedback ==
  /\ ~frozen /\ ~timers_fired
  /\ eager' = eager_feedback(eager)
  /\ UNCHANGED <<now, timers_fired, frozen>>

\* The timers due now fire: alpha, then increase, then decrease.
Timers ==
  /\ ~frozen /\ ~timers_fired
  /\ now < MaxTime
  /\ eager' = decrease_timer(increase_timer(alpha_tick(eager)))
  /\ timers_fired' = TRUE
  /\ UNCHANGED <<now, frozen>>

Advance ==
  /\ timers_fired
  /\ now' = now + 1
  /\ timers_fired' = FALSE
  /\ UNCHANGED <<eager, frozen>>

\* The flow completes and its controller stops.
Freeze ==
  /\ ~frozen
  /\ frozen' = TRUE
  /\ UNCHANGED <<now, timers_fired, eager>>

Next == Feedback \/ Timers \/ Advance \/ Freeze

Spec == Init /\ [][Next]_eagerVars

-----------------------------------------------------------------------------

dcqcn_rate_floor_bps == 2 * ((MinimumRate - 1) \div 2)

\* Type correctness, with alpha a fraction.
EagerTypeOK ==
  /\ now \in 0 .. MaxTime
  /\ timers_fired \in BOOLEAN /\ frozen \in BOOLEAN
  /\ eager \in [alpha : 0 .. One, current : Nat, target : Nat, stage : Nat,
                armed : BOOLEAN, alpha_pending : BOOLEAN, decrease_pending : BOOLEAN,
                increase_armed : BOOLEAN,
                next_alpha : 0 .. MaxTime, next_decrease : 0 .. MaxTime,
                next_increase : 0 .. MaxTime]

\* The rate never falls below the floor that the comment of dcqcn_rate_floor_bps
\* derives, although the average of an increase truncates each half and so can
\* leave the rate below the configured minimum; and it never passes the maximum.
RateBounds ==
  /\ dcqcn_rate_floor_bps <= eager.current /\ eager.current <= MaximumRate
  /\ dcqcn_rate_floor_bps <= eager.target /\ eager.target <= MaximumRate
=============================================================================
