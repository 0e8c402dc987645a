-------------------------- MODULE DcqcnEagerProofs --------------------------
(***************************************************************************)
(* Type correctness and the rate bounds of the DCQCN reaction point, for   *)
(* every configuration the validator accepts.                              *)
(***************************************************************************)
EXTENDS DcqcnEager, TLAPS

Controller ==
  [alpha : 0 .. One, current : Nat, target : Nat, stage : Nat,
   armed : BOOLEAN, alpha_pending : BOOLEAN, decrease_pending : BOOLEAN,
   increase_armed : BOOLEAN,
   next_alpha : 0 .. MaxTime, next_decrease : 0 .. MaxTime, next_increase : 0 .. MaxTime]

InBounds(c) ==
  /\ dcqcn_rate_floor_bps <= c.current /\ c.current <= MaximumRate
  /\ dcqcn_rate_floor_bps <= c.target /\ c.target <= MaximumRate

\* An instant that later computes is an instant.
LEMMA LaterType ==
  ASSUME NEW time \in Nat, NEW interval \in Nat
  PROVE  later(time, interval) \in 0 .. MaxTime
BY ConfigAssumption DEF ConfigAssumption, later, Never

\* The floor is a positive even number at most the minimum rate.
LEMMA FloorFacts ==
  /\ dcqcn_rate_floor_bps \in Nat
  /\ dcqcn_rate_floor_bps > 0
  /\ dcqcn_rate_floor_bps <= MinimumRate
  /\ dcqcn_rate_floor_bps \div 2 + dcqcn_rate_floor_bps \div 2 = dcqcn_rate_floor_bps
BY ConfigAssumption DEF ConfigAssumption, dcqcn_rate_floor_bps

\* The truncating average of two rates between the floor and the maximum stays
\* between them.
LEMMA Average ==
  ASSUME NEW a \in Nat, NEW b \in Nat, NEW floor \in Nat, NEW max \in Nat,
         floor \div 2 + floor \div 2 = floor,
         floor <= a, a <= max, floor <= b, b <= max
  PROVE  /\ a \div 2 + b \div 2 \in Nat
         /\ floor <= a \div 2 + b \div 2
         /\ a \div 2 + b \div 2 <= max
OBVIOUS

\* An alpha step stays between zero and one.
LEMMA AlphaStep ==
  ASSUME NEW one \in Nat \ {0}, NEW g \in 0 .. one, NEW a \in 0 .. one,
         NEW mark \in {0, g * one}
  PROVE  ((one - g) * a + mark) \div one \in 0 .. one
<1>1. (one - g) * a \in Nat /\ (one - g) * a <= (one - g) * one
  OBVIOUS
<1>2. mark \in Nat /\ mark <= g * one
  OBVIOUS
<1>3. (one - g) * one + g * one = one * one
  OBVIOUS
<1> DEFINE n == (one - g) * a + mark
<1>4. n \in Nat /\ n <= one * one
  BY <1>1, <1>2, <1>3
<1> HIDE DEF n
<1>5. n \div one \in 0 .. one
  BY <1>4
<1> QED
  BY <1>5 DEF n

\* A cut never raises the rate.
LEMMA CutStep ==
  ASSUME NEW one \in Nat \ {0}, NEW a \in 0 .. one, NEW r \in Nat
  PROVE  (r * (2 * one - a)) \div (2 * one) \in 0 .. r
<1> DEFINE n == r * (2 * one - a)
           d == 2 * one
<1>1. n \in Nat /\ n <= r * d
  OBVIOUS
<1>2. d \in Nat \ {0}
  OBVIOUS
<1> HIDE DEF n, d
<1>3. n \div d \in 0 .. r
  BY <1>1, <1>2
<1> QED
  BY <1>3 DEF n, d

\* A feedback keeps the controller well formed and its rates.
LEMMA FeedbackStep ==
  ASSUME now \in Nat, NEW c \in Controller, InBounds(c)
  PROVE  eager_feedback(c) \in Controller /\ InBounds(eager_feedback(c))
<1> DEFINE a == later(now, AlphaInterval)
           d == later(later(now, DecreaseInterval), 1)
<1>0. AlphaInterval \in Nat /\ DecreaseInterval \in Nat /\ 1 \in Nat /\ MaxTime \in Nat
  BY ConfigAssumption DEF ConfigAssumption
<1>a. later(now, DecreaseInterval) \in 0 .. MaxTime
  BY <1>0, LaterType
<1>b. later(now, DecreaseInterval) \in Nat
  BY <1>0, <1>a
<1>1. a \in 0 .. MaxTime
  BY <1>0, LaterType
<1>2. d \in 0 .. MaxTime
  BY <1>0, <1>b, LaterType, Zenon
<1>3. One \in 0 .. One
  BY ConfigAssumption DEF ConfigAssumption
<1>4. CASE c.armed
  BY <1>4, Zenon DEF eager_feedback, Controller, InBounds
<1>5. CASE ~c.armed
  <2>1. eager_feedback(c) = [c EXCEPT !.armed = TRUE, !.alpha = One, !.decrease_pending = TRUE,
                                      !.next_alpha = a, !.next_decrease = d]
    BY <1>5 DEF eager_feedback
  <2> HIDE DEF a, d
  <2> QED
    BY <1>1, <1>2, <1>3, <2>1, ZenonT(30) DEF Controller, InBounds
<1> QED
  BY <1>4, <1>5

\* An alpha tick moves only alpha.
LEMMA AlphaTickStep ==
  ASSUME now \in Nat, NEW c \in Controller, InBounds(c)
  PROVE  alpha_tick(c) \in Controller /\ InBounds(alpha_tick(c))
<1> DEFINE alpha == ((One - Gain) * c.alpha
                      + (IF c.alpha_pending THEN Gain * One ELSE 0)) \div One
<1>1. alpha \in 0 .. One
  BY AlphaStep, ConfigAssumption DEF ConfigAssumption, Controller
<1>2. later(now, AlphaInterval) \in 0 .. MaxTime
  BY LaterType, ConfigAssumption DEF ConfigAssumption
<1>3. alpha_tick(c) = IF c.next_alpha # now THEN c
                      ELSE [c EXCEPT !.alpha = alpha, !.alpha_pending = FALSE,
                                     !.next_alpha = later(now, AlphaInterval)]
  BY DEF alpha_tick
<1> HIDE DEF alpha
<1> QED
  BY <1>1, <1>2, <1>3, ZenonT(30) DEF Controller, InBounds

\* An increase averages two rates that are in bounds.
LEMMA IncreaseStep ==
  ASSUME now \in Nat, NEW c \in Controller, InBounds(c)
  PROVE  increase_timer(c) \in Controller /\ InBounds(increase_timer(c))
<1> DEFINE target == raised_target(c)
           rate   == c.current \div 2 + target \div 2
<1>1. target \in Nat /\ dcqcn_rate_floor_bps <= target /\ target <= MaximumRate
  BY ConfigAssumption, FloorFacts
  DEF ConfigAssumption, raised_target, AtMost, Controller, InBounds
<1>2. c.current \in Nat /\ MaximumRate \in Nat
  BY ConfigAssumption DEF ConfigAssumption, Controller
<1> HIDE DEF target
<1>3. rate \in Nat /\ dcqcn_rate_floor_bps <= rate /\ rate <= MaximumRate
  BY <1>1, <1>2, FloorFacts, Average DEF InBounds
<1>4. later(now, IncreaseInterval) \in 0 .. MaxTime
  BY LaterType, ConfigAssumption DEF ConfigAssumption
<1>5. increase_timer(c) = IF c.next_increase # now THEN c
                          ELSE [c EXCEPT !.target = target, !.current = rate,
                                         !.stage = c.stage + 1,
                                         !.next_increase = later(now, IncreaseInterval)]
  BY DEF increase_timer, target
<1>n. c.stage + 1 \in Nat
  BY DEF Controller
<1> DEFINE next == later(now, IncreaseInterval)
<1> HIDE DEF rate, next
<1>6. CASE c.next_increase # now
  BY <1>5, <1>6
<1>7. CASE c.next_increase = now
  <2>1. increase_timer(c) = [c EXCEPT !.target = target, !.current = rate,
                                      !.stage = c.stage + 1, !.next_increase = next]
    BY <1>5, <1>7 DEF next
  <2>2. next \in 0 .. MaxTime
    BY <1>4 DEF next
  <2>3. increase_timer(c) \in Controller
    BY <1>1, <1>3, <1>n, <2>1, <2>2, ZenonT(60) DEF Controller
  <2>4. increase_timer(c).target = target /\ increase_timer(c).current = rate
    BY <2>1 DEF Controller
  <2> QED
    BY <1>1, <1>3, <2>3, <2>4 DEF InBounds
<1> QED
  BY <1>6, <1>7

\* A cut lowers the rate, never below the configured minimum.
LEMMA DecreaseStep ==
  ASSUME now \in Nat, NEW c \in Controller, InBounds(c)
  PROVE  decrease_timer(c) \in Controller /\ InBounds(decrease_timer(c))
<1>1. c.current \in Nat /\ c.alpha \in 0 .. One
  BY DEF Controller
<1> DEFINE cut == (c.current * (2 * One - c.alpha)) \div (2 * One)
<1>2. cut \in 0 .. c.current
  BY <1>1, CutStep, ConfigAssumption, Zenon DEF ConfigAssumption
<1>3. cut_rate(c) = AtLeast(cut, MinimumRate)
  BY DEF cut_rate
<1> HIDE DEF cut
<1>4. /\ cut_rate(c) \in Nat
      /\ dcqcn_rate_floor_bps <= cut_rate(c) /\ cut_rate(c) <= MaximumRate
  BY <1>1, <1>2, <1>3, FloorFacts, ConfigAssumption
  DEF ConfigAssumption, AtLeast, InBounds
<1>5. /\ later(now, IncreaseInterval) \in 0 .. MaxTime
      /\ later(now, DecreaseInterval) \in 0 .. MaxTime
  BY LaterType, ConfigAssumption, Zenon DEF ConfigAssumption
<1> DEFINE increase == later(now, IncreaseInterval)
           decrease == later(now, DecreaseInterval)
           target   == IF ClampTargetRate \/ c.stage # 0 THEN c.current ELSE c.target
           rate     == cut_rate(c)
<1>6. increase \in 0 .. MaxTime /\ decrease \in 0 .. MaxTime
  BY <1>5
<1>7. target \in Nat /\ dcqcn_rate_floor_bps <= target /\ target <= MaximumRate
  BY DEF Controller, InBounds
<1>8. rate \in Nat /\ dcqcn_rate_floor_bps <= rate /\ rate <= MaximumRate
  BY <1>4
<1>n. 0 \in Nat
  OBVIOUS
<1>9. CASE c.next_decrease # now
  BY <1>9 DEF decrease_timer
<1>10. CASE c.next_decrease = now /\ ~c.decrease_pending
  <2>1. decrease_timer(c) = [c EXCEPT !.next_decrease = decrease]
    BY <1>10 DEF decrease_timer
  <2> HIDE DEF decrease
  <2> QED
    BY <1>6, <2>1 DEF Controller, InBounds
<1>11. CASE c.next_decrease = now /\ c.decrease_pending
  <2>1. decrease_timer(c) = [c EXCEPT !.next_decrease = decrease, !.target = target,
                                      !.current = rate, !.stage = 0,
                                      !.decrease_pending = FALSE, !.increase_armed = TRUE,
                                      !.next_increase = increase]
    BY <1>11 DEF decrease_timer
  <2> HIDE DEF decrease, increase, target, rate
  <2>2. decrease_timer(c) \in Controller
    BY <1>6, <1>7, <1>8, <1>n, <2>1, ZenonT(60) DEF Controller
  <2>3. decrease_timer(c).target = target /\ decrease_timer(c).current = rate
    BY <2>1 DEF Controller
  <2> QED
    BY <1>7, <1>8, <2>2, <2>3 DEF InBounds
<1> QED
  BY <1>9, <1>10, <1>11

\* What the proofs carry along: the type, the bounds, and that no timer fires at
\* the end of time.
Inv == EagerTypeOK /\ RateBounds /\ (timers_fired => now < MaxTime)

\* The reaction point starts in bounds.
LEMMA InitInv == Init => Inv
<1>1. MinimumRate <= InitialRate /\ InitialRate <= MaximumRate
  BY ConfigAssumption DEF ConfigAssumption
<1>2. Init => EagerTypeOK /\ (timers_fired => now < MaxTime)
  <2>1. /\ One \in 0 .. One /\ InitialRate \in Nat /\ MaxTime \in 0 .. MaxTime
        /\ 0 \in 0 .. MaxTime /\ 0 < MaxTime
    BY ConfigAssumption DEF ConfigAssumption
  <2>2. EagerInit \in Controller
    BY <2>1, ZenonT(60) DEF EagerInit, Controller, Never
  <2> QED
    BY <2>1, <2>2, Zenon DEF Init, EagerTypeOK, Controller
<1>3. Init => RateBounds
  BY <1>1, ConfigAssumption, FloorFacts DEF ConfigAssumption, Init, EagerInit, RateBounds
<1> QED
  BY <1>2, <1>3 DEF Inv

\* Every step keeps the type and the bounds.
LEMMA StepInv == Inv /\ [Next]_eagerVars => Inv'
<1> SUFFICES ASSUME Inv, [Next]_eagerVars PROVE Inv'
  OBVIOUS
<1>1. /\ now \in 0 .. MaxTime /\ now \in Nat /\ MaxTime \in Nat
      /\ timers_fired \in BOOLEAN /\ frozen \in BOOLEAN
      /\ eager \in Controller /\ InBounds(eager)
      /\ timers_fired => now < MaxTime
  BY ConfigAssumption
  DEF ConfigAssumption, Inv, EagerTypeOK, RateBounds, Controller, InBounds
<1>2. ASSUME now' \in 0 .. MaxTime, timers_fired' \in BOOLEAN, frozen' \in BOOLEAN,
             eager' \in Controller, InBounds(eager'), timers_fired' => now' < MaxTime
      PROVE  Inv'
  BY <1>2 DEF Inv, EagerTypeOK, RateBounds, Controller, InBounds, dcqcn_rate_floor_bps
<1>3. CASE Feedback
  BY <1>1, <1>2, <1>3, FeedbackStep DEF Feedback
<1>4. CASE Timers
  <2>1. alpha_tick(eager) \in Controller /\ InBounds(alpha_tick(eager))
    BY <1>1, AlphaTickStep
  <2>2. /\ increase_timer(alpha_tick(eager)) \in Controller
        /\ InBounds(increase_timer(alpha_tick(eager)))
    BY <1>1, <2>1, IncreaseStep
  <2>3. eager' \in Controller /\ InBounds(eager')
    BY <1>1, <1>4, <2>2, DecreaseStep DEF Timers
  <2> QED
    BY <1>1, <1>2, <1>4, <2>3 DEF Timers
<1>5. CASE Advance
  <2>1. now + 1 \in 0 .. MaxTime
    BY <1>1, <1>5 DEF Advance
  <2>2. now' \in 0 .. MaxTime /\ timers_fired' = FALSE /\ frozen' \in BOOLEAN
    BY <1>1, <1>5, <2>1 DEF Advance
  <2>3. eager' \in Controller /\ InBounds(eager')
    BY <1>1, <1>5 DEF Advance
  <2> QED
    BY <1>2, <2>2, <2>3, Zenon
<1>6. CASE Freeze
  BY <1>1, <1>2, <1>6 DEF Freeze
<1>7. CASE UNCHANGED eagerVars
  BY <1>1, <1>2, <1>7 DEF eagerVars
<1> QED
  BY <1>3, <1>4, <1>5, <1>6, <1>7 DEF Next

\* The reaction point is well typed, alpha a fraction included, whatever feedback
\* arrives and whenever its timers fire.
THEOREM TypeCorrect == Spec => []EagerTypeOK
<1>1. Inv => EagerTypeOK
  BY DEF Inv
<1> QED
  BY <1>1, InitInv, StepInv, PTL DEF Spec

\* The rate stays between dcqcn_rate_floor_bps, which is positive, and the
\* maximum, for every configuration that DcqcnControllerConfig::validate accepts.
THEOREM RateBounded == Spec => [](RateBounds /\ dcqcn_rate_floor_bps > 0)
<1>1. Inv => RateBounds /\ dcqcn_rate_floor_bps > 0
  BY FloorFacts DEF Inv
<1> QED
  BY <1>1, InitInv, StepInv, PTL DEF Spec
=============================================================================
