---------------------------- MODULE CapacityRetry ----------------------------
(***************************************************************************)
(* The capacity retry of the device executors (executor/src/               *)
(* device_capacity.rs and the loops of metal.rs and cuda.rs).  The host    *)
(* plans the capacity of every arena, the device runs the whole image, and *)
(* an arena that is full ends the attempt with one fault: who it was, what *)
(* it had and what it needed.  The host raises what made the arena that    *)
(* small and tries again.  What a run has learnt can be given to the next  *)
(* one as a warm start.                                                    *)
(*                                                                         *)
(* The kernels are reduced to what the loop sees of them: an attempt fails *)
(* iff some arena is smaller than the image needs, at whichever such arena *)
(* overflows first.  A ledger fault always comes with the high-water marks *)
(* of the flows: the growth without them is left out, and so is the        *)
(* saturation of a capacity to 32 bits.                                    *)
(***************************************************************************)
EXTENDS Integers, Sequences, FiniteSetsExt

CONSTANTS
  Images,           \* the runs of interest, see Image below
  MaxUsize,         \* usize::MAX
  ReceiverSlack,    \* TCP_RECEIVER_RETRY_SLACK
  LedgerFactor,     \* TCP_LEDGER_OCCUPANCY_SLACK_FACTOR
  LedgerSlack       \* TCP_LEDGER_OCCUPANCY_SLACK_RECORDS

None == -1
AllLps == 0
Capacity == 0 .. MaxUsize

\* Lanes of DeviceCapacityCaps and DeviceCapacityFloors; one serves three arenas.
Lane == {"Fel", "Queue", "Outbox", "RemoteStaging", "Observation", "ServiceStream",
         "GeneratorStream", "Worklist", "ChannelInbox", "TcpReceiverRanges", "TcpSegmentLedger"}
Observations == {"ObservedPackets", "Departures", "Arrivals"}
LaneOf(arena) == IF arena \in Observations THEN "Observation" ELSE arena

\* max_outbox_events overrides two lanes.
OverrideOf(lane) == IF lane = "RemoteStaging" THEN "Outbox" ELSE lane

FloorOnly == {"ServiceStream", "GeneratorStream", "Worklist"}
NoOverride == FloorOnly \cup {"TcpReceiverRanges", "TcpSegmentLedger"}
Keyed == {"ChannelInbox", "TcpReceiverRanges", "TcpSegmentLedger"}

Option == Capacity \cup {None}

\* A run: its arenas with what is derived, resident and needed, the configuration of the
\* caller, a warm start that need not come from the same image, and its limits.
ImageOK(i) ==
  LET arenas == DOMAIN i.derived
  IN /\ \A e \in arenas : LaneOf(e.arena) \in Lane
     /\ i.derived \in [arenas -> Capacity]
     /\ i.resident \in [arenas -> Capacity]
     /\ i.need \in [arenas -> Capacity]
     /\ i.config \in [override : [Lane -> Option], cap : [Lane -> Option], floor : [Lane -> Capacity]]
     /\ \A lane \in NoOverride : i.config.override[lane] = None
     /\ \A lane \in FloorOnly : i.config.cap[lane] = None
     /\ i.warm.floors \in [Lane -> Capacity]
     /\ i.warm.entity_floor \in [arenas -> Capacity]
     /\ i.warm.class_floor \in [Capacity -> Capacity]

ASSUME RetryAssumption ==
  /\ MaxUsize \in Nat /\ ReceiverSlack \in Nat /\ LedgerFactor \in Nat /\ LedgerSlack \in Nat
  /\ \A i \in Images : ImageOK(i)

VARIABLES
  image,            \* fixed: the arenas with the capacity derived for each, the records
                    \* resident at the start and the most the run needs; the
                    \* configuration; the warm start; budget and device memory
  config,           \* attempt_config: overrides, caps and floors by lane
  base,             \* base_by_stream, receiver_base_by_flow, ledger_base_by_flow
  entity_floor,     \* capacity_by_stream, ledger_segments_by_flow
  class_floor,      \* receiver_ranges, by base
  plan,             \* the capacity of every arena in this attempt or in the last one
  retry_trace,
  phase,            \* "plan", "run", "ok" or "failed"
  result,
  converged         \* the plan of the run whose warm start this one has

vars == <<image, config, base, entity_floor, class_floor, plan, retry_trace, phase, result, converged>>

Arenas == DOMAIN image.derived
KeyedArenas == {e \in Arenas : e.arena \in Keyed}
Ledgers == {e \in Arenas : e.arena = "TcpSegmentLedger"}

-----------------------------------------------------------------------------
\* device_capacity.rs.

AtLeast(a, b) == IF a < b THEN b ELSE a
AtMost(a, b) == IF a < b THEN a ELSE b
Saturated(n) == AtMost(n, MaxUsize)

bound_derived_capacity(derived, cap, floor, resident) ==
  AtLeast(AtLeast(IF cap = None THEN derived ELSE AtMost(derived, cap), resident), floor)

\* The capacity that the configuration gives an arena: an override is exact, but for
\* the floor.
Bound(c, lane, derived, resident) ==
  LET override == c.override[OverrideOf(lane)]
  IN IF override # None THEN AtLeast(override, c.floor[lane])
     ELSE bound_derived_capacity(derived, c.cap[lane], c.floor[lane], resident)

\* The count of the observations of all LPs has no cap.
Uncapped(c, e) ==
  IF e.arena \in Observations /\ e.id = AllLps THEN [c EXCEPT !.cap[LaneOf(e.arena)] = None] ELSE c

BaseWith(c, e) == Bound(Uncapped(c, e), LaneOf(e.arena), image.derived[e], image.resident[e])

BaseOf(e) == BaseWith(config, e)

\* Streams and ledgers have a floor each, receivers one for all of the same base.
Planned(e) ==
  LET b == BaseOf(e)
  IN CASE e.arena \in {"ChannelInbox", "TcpSegmentLedger"} -> AtLeast(b, entity_floor[e])
       [] e.arena = "TcpReceiverRanges" -> AtLeast(b, class_floor[b])
       [] OTHER -> b

grown_capacity(capacity, demand) ==
  LET basis == AtLeast(demand, Saturated(capacity + 1))
  IN AtLeast(Saturated(2 * basis), basis)

grown_capacity_with_slack(capacity, demand, slack) ==
  Saturated(AtLeast(demand, Saturated(capacity + 1)) + slack)

ledger_capacity_from_high_water(high_water) ==
  Saturated(Saturated(high_water * LedgerFactor) + LedgerSlack)

grown_ledger_capacity(capacity, demand, high_water) ==
  AtLeast(AtLeast(ledger_capacity_from_high_water(high_water), demand), Saturated(capacity + 1))

Grown(e, capacity, demand, high_water) ==
  CASE e.arena = "TcpReceiverRanges" -> grown_capacity_with_slack(capacity, demand, ReceiverSlack)
    [] e.arena = "TcpSegmentLedger"  -> grown_ledger_capacity(capacity, demand, high_water[e])
    [] OTHER                         -> grown_capacity(capacity, demand)

\* Mutant: a cap that was met is taken for what bound.
RaiseCapElseFloor(c, lane, capacity, grown) ==
  IF c.cap[lane] = capacity THEN [c EXCEPT !.cap[lane] = AtLeast(@, grown)]
  ELSE [c EXCEPT !.floor[lane] = AtLeast(@, grown)]

\* A cap that was met is raised, and the floor always: the cap may not have been what
\* bound.
raise_cap_or_floor(c, lane, capacity, grown) ==
  [c EXCEPT !.cap[lane] = IF @ = capacity THEN AtLeast(@, grown) ELSE @,
            !.floor[lane] = AtLeast(@, grown)]

raise_override_cap_or_floor(c, lane, capacity, grown) ==
  IF c.override[OverrideOf(lane)] = capacity
  THEN [c EXCEPT !.override[OverrideOf(lane)] = AtLeast(@, grown)]
  ELSE raise_cap_or_floor(c, lane, capacity, grown)

raise_capacity(c, arena, capacity, grown) ==
  IF arena \in FloorOnly THEN [c EXCEPT !.floor[arena] = AtLeast(@, grown)]
  ELSE raise_override_cap_or_floor(c, LaneOf(arena), capacity, grown)

-----------------------------------------------------------------------------

merged_with(f, g) == [lane \in Lane |-> AtLeast(f[lane], g[lane])]

\* What the config of a run that succeeded amounts to as floors.
converged_capacity_floors(c) ==
  [lane \in Lane |-> IF lane \in NoOverride THEN c.floor[lane]
                     ELSE AtLeast(c.floor[lane], c.override[OverrideOf(lane)])]

\* A run starts from its configuration and a warm start.
Start(i, warm) ==
  /\ config = [i.config EXCEPT !.floor = merged_with(@, warm.floors)]
  /\ entity_floor = warm.entity_floor
  /\ class_floor = warm.class_floor
  /\ base = [e \in DOMAIN i.derived |-> None]

Init ==
  /\ image \in Images
  /\ Start(image, image.warm)
  /\ plan = [e \in Arenas |-> 0]
  /\ retry_trace = <<>>
  /\ phase = "plan" /\ result = "none"
  /\ converged = {}

Fail(error) == phase' = "failed" /\ result' = error

DeviceBytes(p) == MapThenSumSet(LAMBDA e : p[e], Arenas)

\* Resident events and packets are stored before the rest is planned.
Overfull == {e \in Arenas : e.arena \in {"Fel", "Queue"} /\ Planned(e) < image.resident[e]}

\* A plan, unless an arena's base is not that of an earlier attempt; a plan that the
\* device cannot hold is refused.
Plan ==
  LET changed == \E e \in KeyedArenas : base[e] \notin {None, BaseOf(e)}
      planned == [e \in Arenas |-> Planned(e)]
  IN /\ phase = "plan" /\ Overfull = {}
     /\ IF changed THEN Fail("Validation") /\ UNCHANGED <<base, plan>>
        ELSE /\ base' = [e \in Arenas |-> IF e \in KeyedArenas THEN BaseOf(e) ELSE None]
             /\ plan' = planned
             /\ IF DeviceBytes(planned) > image.memory THEN Fail("DeviceMemoryExceeded")
                ELSE phase' = "run" /\ UNCHANGED result
     /\ UNCHANGED <<image, config, entity_floor, class_floor, retry_trace, converged>>

TooSmall == {e \in Arenas : plan[e] < image.need[e]}

Succeed ==
  /\ phase = "run" /\ TooSmall = {}
  /\ phase' = "ok" /\ result' = "Ok"
  /\ UNCHANGED <<image, config, base, entity_floor, class_floor, plan, retry_trace, converged>>

\* The peaks that the ledgers had reached when that of e was full; a fault of another
\* arena reports none.
HighWater(e) ==
  IF e \notin Ledgers THEN {[f \in Ledgers |-> 0]}
  ELSE {h \in [Ledgers -> Capacity] :
          \A f \in Ledgers : h[f] <= AtMost(plan[f], image.need[f]) /\ (f = e => h[f] = plan[f])}

raise_receiver(e, grown) ==
  /\ class_floor' = [class_floor EXCEPT ![base[e]] = AtLeast(@, grown)]
  /\ UNCHANGED <<config, entity_floor>>

\* The ledger that was full, and then every ledger by its own peak.
raise_ledger(e, grown, high_water) ==
  LET own == [entity_floor EXCEPT ![e] = AtLeast(@, grown)]
  IN /\ entity_floor' = [f \in Arenas |->
                           IF f \in Ledgers /\ base[f] # None
                           THEN AtLeast(own[f], ledger_capacity_from_high_water(high_water[f]))
                           ELSE own[f]]
     /\ UNCHANGED <<config, class_floor>>

raise_channel(e, grown) ==
  /\ entity_floor' = [entity_floor EXCEPT ![e] = AtLeast(@, grown)]
  /\ UNCHANGED <<config, class_floor>>

\* What the tables say the arena that was full was planned with.
Recorded(e) ==
  CASE e.arena \in {"ChannelInbox", "TcpSegmentLedger"} -> AtLeast(base[e], entity_floor[e])
    [] e.arena = "TcpReceiverRanges" -> AtLeast(base[e], class_floor[base[e]])
    [] OTHER -> plan[e]

\* Metal and CUDA: what an arena that was full gets, by the kind of arena.
Raise(e, capacity, grown, high_water) ==
  CASE e.arena = "ChannelInbox"      -> raise_channel(e, grown)
    [] e.arena = "TcpReceiverRanges" -> raise_receiver(e, grown)
    [] e.arena = "TcpSegmentLedger"  -> raise_ledger(e, grown, high_water)
    [] OTHER -> /\ config' = raise_capacity(config, e.arena, capacity, grown)
                /\ UNCHANGED <<entity_floor, class_floor>>

\* The attempt ended at arena e: it is repeated with more, within the budget.
Retry(e, capacity, demand, high_water) ==
  LET grown == Grown(e, capacity, demand, high_water)
  IN /\ IF Len(retry_trace) = image.budget \/ grown <= capacity
        THEN Fail("CapacityExceeded") /\ UNCHANGED <<config, entity_floor, class_floor, retry_trace>>
        ELSE IF e \in KeyedArenas /\ (base[e] = None \/ Recorded(e) # capacity)
        THEN Fail("Validation") /\ UNCHANGED <<config, entity_floor, class_floor, retry_trace>>
        ELSE /\ Raise(e, capacity, grown, high_water)
             /\ retry_trace' = Append(retry_trace, [arena |-> e, capacity |-> capacity, grown |-> grown])
             /\ phase' = "plan"
             /\ UNCHANGED result
     /\ UNCHANGED <<image, base, plan, converged>>

HostFault(e) ==
  /\ phase = "plan"
  /\ LET capacity == Planned(e)
     IN Retry(e, capacity, Saturated(capacity + 1), [f \in Ledgers |-> 0])

DeviceFault(e, demand, high_water) ==
  /\ phase = "run"
  /\ Retry(e, plan[e], demand, high_water)

\* The same image again, from what the successful run converged on.
Rerun ==
  /\ phase = "ok" /\ converged = {}
  /\ converged' = {plan}
  /\ config' = [image.config EXCEPT !.floor = merged_with(@, converged_capacity_floors(config))]
  /\ base' = [e \in Arenas |-> None]
  /\ retry_trace' = <<>>
  /\ phase' = "plan" /\ result' = "none"
  /\ UNCHANGED <<image, entity_floor, class_floor, plan>>

Next ==
  \/ Plan
  \/ Succeed
  \/ \E e \in Overfull : HostFault(e)
  \/ \E e \in TooSmall : \E demand \in plan[e] + 1 .. image.need[e], high_water \in HighWater(e) :
       DeviceFault(e, demand, high_water)
  \/ Rerun

Spec == Init /\ [][Next]_vars

-----------------------------------------------------------------------------

LastRetry == retry_trace[Len(retry_trace)]

\* The arenas that a fault of arena e may enlarge.
GrowWith(e) ==
  CASE e.arena = "ChannelInbox"      -> {e}
    [] e.arena = "TcpReceiverRanges" -> {f \in Arenas : f.arena = e.arena /\ base[f] = base[e]}
    [] e.arena = "TcpSegmentLedger"  -> Ledgers
    [] OTHER -> {f \in Arenas : OverrideOf(LaneOf(f.arena)) = OverrideOf(LaneOf(e.arena))}

\* The retry loop never meets a fault or a base that its tables do not know, and gives
\* up on an arena only when the budget is spent.
NeverMismatched ==
  /\ result # "Validation"
  /\ result = "CapacityExceeded" => Len(retry_trace) = image.budget

\* The next plan gives the arena that was full what the retry selected for it: the floor
\* is raised as well as the cap, since either may have been what bound.
RetryTakesEffect ==
  phase \in {"run", "ok"} /\ retry_trace # <<>> =>
    plan[LastRetry.arena] >= LastRetry.grown /\ LastRetry.grown > LastRetry.capacity

\* A run from the warm start of an earlier one plans what that one converged on.
ReplaysConvergedPlan == phase \in {"run", "ok"} => \A p \in converged : plan = p

\* No arena shrinks from one attempt to the next, and a fault of one stream, class of
\* receivers or group of ledgers enlarges no arena outside it.
GrowsTargeted ==
  phase = "plan" /\ phase' = "run" /\ retry_trace # <<>> /\ plan # [e \in Arenas |-> 0] =>
    \A e \in Arenas : plan'[e] >= plan[e] /\ (plan'[e] > plan[e] => e \in GrowWith(LastRetry.arena))

\* The capacity retry is exact: see the four conjuncts.
RetryIsExact ==
  /\ [](NeverMismatched /\ RetryTakesEffect /\ ReplaysConvergedPlan)
  /\ [][GrowsTargeted]_vars
=============================================================================
