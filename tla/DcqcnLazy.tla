------------------------------ MODULE DcqcnLazy ------------------------------
(***************************************************************************)
(* The DCQCN controller of executor/src/dcqcn.rs, in lockstep with the     *)
(* eager machine it stands for.  The controller owns no event: its timer   *)
(* instants are applied at the flow's next transition, those before now at *)
(* a phase-0 transition (a feedback, an ACK, a RESUME) and those up to and *)
(* including now at a phase-1 transition (a pacing tick, a timeout).       *)
(***************************************************************************)
EXTENDS DcqcnEager

VARIABLE lazy   \* DcqcnController

vars == <<now, timers_fired, eager, frozen, lazy>>

saturating_add(a, b) == AtMost(a + b, MaxTime)

pristine ==
  [alpha |-> One, current |-> InitialRate, target |-> InitialRate, stage |-> 0,
   armed |-> FALSE, alpha_pending |-> FALSE, decrease_pending |-> FALSE,
   increase_armed |-> FALSE,
   next_alpha |-> 0, next_decrease |-> 0, next_increase |-> 0]

\* One decay step of alpha.
Retained(alpha) == ((One - Gain) * alpha) \div One

RECURSIVE Decayed(_, _)
Decayed(alpha, steps) ==
  IF steps = 0 \/ alpha = 0 THEN alpha ELSE Decayed(Retained(alpha), steps - 1)

\* Every alpha tick up to and including time, in one step.
alpha_through(c, time) ==
  IF c.next_alpha > time \/ c.next_alpha = MaxTime THEN c
  ELSE LET ticks == (time - c.next_alpha) \div AlphaInterval + 1
           first == Retained(c.alpha) + (IF c.alpha_pending THEN Gain ELSE 0)
       IN [c EXCEPT !.alpha = Decayed(first, ticks - 1),
                    !.alpha_pending = FALSE,
                    !.next_alpha = saturating_add(@, ticks * AlphaInterval)]

decrease_check(c, time) ==
  LET product   == c.current * c.alpha
      reduction == product \div (2 * One) + (IF product % (2 * One) # 0 THEN 1 ELSE 0)
  IN [c EXCEPT !.next_decrease = saturating_add(time, DecreaseInterval),
               !.target = IF ClampTargetRate \/ c.stage # 0 THEN c.current ELSE @,
               !.current = AtLeast(@ - reduction, MinimumRate),
               !.stage = 0,
               !.decrease_pending = FALSE,
               !.increase_armed = TRUE,
               !.next_increase = saturating_add(time, IncreaseInterval)]

increase_fire(c, time) ==
  [c EXCEPT !.next_increase = saturating_add(time, IncreaseInterval),
            !.target = raised_target(c),
            !.current = @ \div 2 + raised_target(c) \div 2,
            !.stage = IF @ <= FastRecoverySteps THEN @ + 1 ELSE @]

NextIncrease(c) == IF c.increase_armed THEN c.next_increase ELSE MaxTime
NextDecrease(c) == IF c.decrease_pending THEN c.next_decrease ELSE MaxTime

due_ns(c) == AtMost(NextIncrease(c), NextDecrease(c))

RECURSIVE materialize(_, _)
materialize(c, bound) ==
  IF due_ns(c) >= bound THEN c
  ELSE IF NextIncrease(c) <= NextDecrease(c)
  THEN materialize(increase_fire(c, NextIncrease(c)), bound)
  ELSE LET t == NextDecrease(c)
       IN materialize(decrease_check(alpha_through(c, t), t), bound)

first_decrease_at_or_after(c, time) ==
  LET anchor == c.next_decrease
      steps  == (time - anchor + DecreaseInterval - 1) \div DecreaseInterval
  IN IF anchor >= time \/ anchor = MaxTime THEN anchor
     ELSE saturating_add(anchor, steps * DecreaseInterval)

\* Everything before bound, alpha included.
Caught(c, bound) ==
  IF bound = 0 THEN materialize(c, bound) ELSE alpha_through(materialize(c, bound), bound - 1)

on_feedback(c) ==
  IF ~c.armed
  THEN [c EXCEPT !.armed = TRUE, !.alpha = One, !.alpha_pending = FALSE,
                 !.decrease_pending = TRUE,
                 !.next_alpha = saturating_add(now, AlphaInterval),
                 !.next_decrease = saturating_add(saturating_add(now, DecreaseInterval), 1)]
  ELSE LET d == Caught(c, now)
       IN [d EXCEPT !.alpha_pending = TRUE,
                    !.decrease_pending = TRUE,
                    !.next_decrease = IF d.decrease_pending THEN @
                                      ELSE first_decrease_at_or_after(d, now)]

\* Mutant: the freeze leaves the decrease grid behind.
SettleKeepingGrid(c, bound) == IF c.armed THEN Caught(c, bound) ELSE c

settle(c, bound) ==
  IF ~c.armed THEN c
  ELSE LET d == Caught(c, bound)
       IN [d EXCEPT !.next_decrease = first_decrease_at_or_after(d, bound)]

-----------------------------------------------------------------------------

LazyInit == Init /\ lazy = pristine

\* The exclusive bound of the instants a transition applies.
Bound == IF timers_fired THEN saturating_add(now, 1) ELSE now

\* host_dcqcn_cnp_arrival, or an ACK or NACK that carries the ECN echo.
LazyFeedback == Feedback /\ lazy' = on_feedback(lazy)

\* dcqcn_materialize at any other transition of the flow.
Transition ==
  /\ ~frozen
  /\ lazy' = materialize(lazy, Bound)
  /\ UNCHANGED <<now, timers_fired, eager, frozen>>

\* The transition that completes the flow.
LazyFreeze == Freeze /\ lazy' = settle(lazy, Bound)

\* The controller does nothing when the eager machine's timers fire.
LazyTime == (Timers \/ Advance) /\ UNCHANGED lazy

LazyNext == LazyFeedback \/ Transition \/ LazyFreeze \/ LazyTime

LazySpec == LazyInit /\ [][LazyNext]_vars

-----------------------------------------------------------------------------

\* EagerDcqcn::as_controller: the stage saturated, a timer not yet started zero.
as_controller(c) ==
  [c EXCEPT !.stage = AtMost(@, FastRecoverySteps + 1),
            !.next_alpha = IF c.armed THEN @ ELSE 0,
            !.next_decrease = IF c.armed THEN @ ELSE 0,
            !.next_increase = IF c.increase_armed THEN @ ELSE 0]

\* rate_state_matches: everything but alpha and an idle decrease grid.
rate_state_matches(c, d) ==
  /\ c.current = d.current /\ c.target = d.target /\ c.stage = d.stage
  /\ c.armed = d.armed /\ c.decrease_pending = d.decrease_pending
  /\ c.increase_armed = d.increase_armed
  /\ c.increase_armed => c.next_increase = d.next_increase
  /\ c.decrease_pending => c.next_decrease = d.next_decrease

\* validate_state: what an image may hold.
TypeOK ==
  /\ EagerTypeOK
  /\ lazy.alpha \in 0 .. One
  /\ lazy.stage \in 0 .. FastRecoverySteps + 1
  /\ ~lazy.armed => lazy = pristine
  /\ {lazy.next_alpha, lazy.next_decrease, lazy.next_increase} \subseteq 0 .. MaxTime

\* A feedback and every other transition leave the rate that the eager machine
\* has at that point of the instant, however many timer instants went by since
\* the last transition and in whatever order they fell; a feedback also leaves
\* alpha and the decrease grid exact.
TransitionsMatch ==
  [][/\ Transition => rate_state_matches(lazy', as_controller(eager))
     /\ LazyFeedback => rate_state_matches(lazy', as_controller(eager'))
                        /\ lazy'.alpha = eager'.alpha]_vars

\* The controller that owns no event cannot be told from the eager machine: not at a
\* transition, and not in the state that a completed flow leaves, which is frozen with
\* every field as the eager machine has it (the comment of settle).  Until then the lazy
\* state is one that validate_state accepts.
LazyIsEager ==
  /\ [](TypeOK /\ (frozen => lazy = as_controller(eager)))
  /\ TransitionsMatch
=============================================================================
