--------------------------- MODULE MCSwitchQueue ---------------------------
(***************************************************************************)
(* Instances of SwitchQueue: flows 0 and 2 share a scheduler class and not *)
(* a PFC class.  Quanta are below the largest frame.                       *)
(***************************************************************************)
EXTENDS SwitchQueue

MCPfcClassOf == [f \in Flow |-> IF f = 0 THEN 3 ELSE 4]

MCValue == [c \in Class |-> 1 + c]

EqualQuanta == [c \in Class |-> 2]

\* A ramp that begins below its upper threshold, and a step.
Ramp == [capacity_bytes |-> 5, kmin_bytes |-> 1, kmax_bytes |-> 4,
         pmax_numerator |-> 1, pmax_denominator |-> 2]
StepRamp == [capacity_bytes |-> 3, kmin_bytes |-> 2, kmax_bytes |-> 2,
         pmax_numerator |-> 1, pmax_denominator |-> 1]

Queue(scheduler, packets, ramp) ==
  [scheduler |-> scheduler, queue_capacity_packets |-> packets, ramp |-> ramp]

MCConfigs ==
  {Queue("Fifo", 2, {}), Queue("StaticPriority", 0, {}), Queue("DeficitRoundRobin", 0, {}),
   Queue("WeightedRoundRobin", 0, {}), Queue("Fifo", 0, {Ramp}), Queue("Fifo", 0, {StepRamp})}

\* Deficit round robin alone.
DrrConfigs == {Queue("DeficitRoundRobin", 0, {})}
=============================================================================
