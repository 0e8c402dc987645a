------------------------- MODULE CapacityRetryProofs -------------------------
(***************************************************************************)
(* The capacity retry of the device executors is exact for every image,    *)
(* every configuration and warm start, every word size and every constant  *)
(* of the growth laws.                                                     *)
(***************************************************************************)
EXTENDS CapacityRaiseProofs

\* The trace of retries ends with the last.
LEMMA TraceFacts ==
  ASSUME NEW S, NEW s \in Seq(S)
  PROVE  /\ s # <<>> => s[Len(s)] \in S
         /\ \A r \in S : /\ Append(s, r) \in Seq(S) /\ Append(s, r) # <<>>
                         /\ Append(s, r)[Len(Append(s, r))] = r
OBVIOUS

LEMMA LastRetryIsArena == TypeInv /\ retry_trace # <<>> => LastRetry.arena \in Arenas
<1> SUFFICES ASSUME TypeInv, retry_trace # <<>> PROVE LastRetry.arena \in Arenas
  OBVIOUS
<1>1. retry_trace \in Seq([arena : Arenas, capacity : Capacity, grown : Capacity])
  BY DEF TypeInv
<1>2. LastRetry \in [arena : Arenas, capacity : Capacity, grown : Capacity]
  BY <1>1, TraceFacts, Zenon DEF LastRetry
<1>3. QED
  BY <1>2

\* A fault of an arena that the tables know and that the attempt was planned with keeps
\* the invariant, whether the host repeats the attempt or gives up.
LEMMA RetryKeeps ==
  ASSUME RetryInv,
         NEW e \in Arenas, NEW demand \in Capacity, Planned(e) < demand,
         NEW high_water, e \in Ledgers => \A f \in Ledgers : high_water[f] \in Capacity,
         phase \in {"plan", "run"}, converged = {},
         phase = "plan" => plan = ZeroPlan /\ e \notin KeyedArenas,
         Retry(e, Planned(e), demand, high_water)
  PROVE  RetryInv'
<1> DEFINE capacity == Planned(e)
           grown == Grown(e, capacity, demand, high_water)
<1>1. TypeInv /\ TablesInv /\ EffectInv /\ PlacedInv /\ GrowthInv /\ ReplayInv /\ ResultInv
  BY DEF RetryInv
<1>2. \A f \in Arenas : Planned(f) \in Capacity /\ BaseOf(f) \in Capacity
  BY <1>1, PlannedIsCapacity
<1>3. capacity \in Capacity
  BY <1>2
<1>4. e.arena = "TcpSegmentLedger" => e \in Ledgers
  BY DEF Ledgers
<1>5. grown \in Capacity /\ grown > capacity
  BY <1>3, <1>4, GrownIsMore, ZenonT(60)
<1>6. UNCHANGED <<image, base, plan, converged>> /\ Arenas' = Arenas /\ KeyedArenas' = KeyedArenas
  BY DEF Retry, Arenas, KeyedArenas
<1>7. CASE Len(retry_trace) = image.budget
  <2>1. /\ phase' = "failed" /\ result' = "CapacityExceeded"
        /\ UNCHANGED <<config, entity_floor, class_floor, retry_trace>>
    BY <1>7 DEF Retry, Fail
  <2>2. \A f : BaseOf(f)' = BaseOf(f)
    BY <1>6, <2>1, SamePlanned
  <2>3. TypeInv'
    BY <1>1, <1>6, <2>1 DEF TypeInv
  <2>4. TablesInv'
    BY <1>1, <1>6, <2>1, <2>2 DEF TablesInv
  <2>5. ResultInv'
    BY <1>6, <1>7, <2>1 DEF ResultInv, NeverMismatched
  <2>6. QED
    BY <2>1, <2>3, <2>4, <2>5 DEF RetryInv, EffectInv, PlacedInv, GrowthInv, ReplayInv
<1>8. CASE Len(retry_trace) # image.budget
  <2>1. e \in KeyedArenas => \A f \in KeyedArenas : base[f] = BaseOf(f)
    BY <1>1 DEF TablesInv, KeyedArenas
  <2>2. e \in KeyedArenas => base[e] # None /\ Recorded(e) = capacity
    <3>1. HAVE e \in KeyedArenas
    <3>2. base[e] = BaseOf(e) /\ e.arena \in Keyed
      BY <2>1, <3>1 DEF KeyedArenas
    <3>3. base[e] # None
      BY <1>2, <3>2, Numbers
    <3>4. Recorded(e) = Planned(e)
      BY <3>2 DEF Recorded, Planned, Keyed
    <3>5. QED
      BY <3>3, <3>4
  <2>3. ~(grown <= capacity)
    <3> HIDE DEF grown, capacity
    <3>1. grown \in Int /\ capacity \in Int
      BY <1>3, <1>5, Numbers
    <3>2. QED
      BY <1>5, <3>1
  <2> DEFINE r == [arena |-> e, capacity |-> capacity, grown |-> grown]
  <2>4. /\ Raise(e, capacity, grown, high_water)
        /\ retry_trace' = Append(retry_trace, r)
        /\ phase' = "plan" /\ result' = result
    BY <1>8, <2>2, <2>3 DEF Retry
  <2>5. /\ config' \in Configs /\ Raised(image.config, config')
        /\ entity_floor' \in [Arenas -> Capacity] /\ class_floor' \in [Capacity -> Capacity]
        /\ \A f \in KeyedArenas : BaseOf(f)' = BaseOf(f)
        /\ \A f \in Arenas : /\ Planned(f)' \in Capacity /\ Planned(f)' >= Planned(f)
                             /\ Planned(f)' > Planned(f) => f \in GrowWith(e)
        /\ Planned(e)' >= grown
    <3>1. Raised(image.config, config)
      BY <1>1 DEF TablesInv
    <3> HIDE DEF capacity, grown
    <3>2. capacity < grown
      BY <1>3, <1>5, Numbers
    <3>3. QED
      BY <1>1, <1>3, <1>5, <1>6, <2>1, <2>4, <3>1, <3>2, RaiseIsTargeted
  <2>6. r \in [arena : Arenas, capacity : Capacity, grown : Capacity]
    BY <1>3, <1>5
  <2>7. retry_trace' \in Seq([arena : Arenas, capacity : Capacity, grown : Capacity]) /\ LastRetry' = r
    BY SMTT(40), <1>1, <2>4, <2>6, TraceFacts DEF TypeInv, LastRetry
  <2> HIDE DEF grown, capacity
  <2>8. TypeInv'
    BY <1>1, <1>6, <2>4, <2>5, <2>7 DEF TypeInv
  <2>9. TablesInv'
    BY <1>1, <1>6, <2>4, <2>5 DEF TablesInv
  <2>10. EffectInv'
    BY <1>5, <2>5, <2>7 DEF EffectInv
  <2>11. PlacedInv'
    <3>1. CASE phase = "plan"
      BY <1>6, <2>4, <3>1 DEF PlacedInv, ZeroPlan
    <3>2. CASE phase = "run"
      <4>1. Overfull = {}
        BY <1>1, <3>2 DEF PlacedInv
      <4>2. ASSUME NEW f \in Arenas, f.arena \in {"Fel", "Queue"} PROVE ~(Planned(f)' < image.resident[f])
        <5>1. ~(Planned(f) < image.resident[f])
          BY <4>1, <4>2 DEF Overfull
        <5>2. Planned(f) \in Int /\ Planned(f)' \in Int /\ image.resident[f] \in Int /\ Planned(f)' >= Planned(f)
          <6>1. image.resident[f] \in Capacity
            BY <1>1, ImageFacts DEF TypeInv
          <6>2. Capacity \subseteq Int
            BY Numbers
          <6>3. QED
            BY <1>2, <2>5, <6>1, <6>2, ZenonT(60)
        <5>3. QED
          BY <5>1, <5>2
      <4>3. QED
        BY <1>6, <4>2 DEF PlacedInv, Overfull
    <3>3. QED
      BY <3>1, <3>2
  <2>12. GrowthInv'
    <3>1. CASE phase = "plan"
      BY <1>6, <3>1 DEF GrowthInv, ZeroPlan
    <3>2. CASE phase = "run"
      <4>1. \A f \in Arenas : plan'[f] = Planned(f)
        BY <1>1, <1>6, <3>2 DEF TablesInv
      <4>2. GrowWith(e)' = GrowWith(e)
        BY <1>6 DEF GrowWith, Ledgers
      <4>3. \A f \in Arenas : f = LastRetry.arena' => f = e
        BY <2>7
      <4>4. QED
        BY <1>6, <2>5, <4>1, <4>2, <4>3 DEF GrowthInv
    <3>3. QED
      BY <3>1, <3>2
  <2>13. ReplayInv' /\ ResultInv'
    BY <1>1, <1>6, <2>4 DEF ReplayInv, ResultInv, NeverMismatched
  <2>14. QED
    BY <2>8, <2>9, <2>10, <2>11, <2>12, <2>13 DEF RetryInv
<1>9. QED
  BY <1>7, <1>8

LEMMA RetryInit == Init => RetryInv
<1> SUFFICES ASSUME Init PROVE RetryInv
  OBVIOUS
<1>1. image \in Images
  BY DEF Init
<1>2. /\ image.config \in Configs /\ image.warm.floors \in [Lane -> Capacity]
      /\ image.warm.entity_floor \in [Arenas -> Capacity] /\ image.warm.class_floor \in [Capacity -> Capacity]
  BY <1>1, ImageFacts
<1> DEFINE floors == merged_with(image.config.floor, image.warm.floors)
<1>3. /\ config = [image.config EXCEPT !.floor = floors]
      /\ entity_floor = image.warm.entity_floor /\ class_floor = image.warm.class_floor
      /\ base = [e \in Arenas |-> None]
  BY DEF Init, Start, Arenas
<1>4. floors \in [Lane -> Capacity] /\ \A lane \in Lane : image.config.floor[lane] <= floors[lane]
  <2>1. image.config.floor \in [Lane -> Capacity]
    BY <1>2 DEF Configs
  <2>2. ASSUME NEW lane \in Lane
        PROVE  floors[lane] \in Capacity /\ image.config.floor[lane] <= floors[lane]
    <3>1. floors[lane] = AtLeast(image.config.floor[lane], image.warm.floors[lane])
      BY DEF merged_with
    <3>2. image.config.floor[lane] \in Capacity /\ image.warm.floors[lane] \in Capacity
      BY <1>2, <2>1
    <3> DEFINE x == image.config.floor[lane]
               y == image.warm.floors[lane]
    <3> HIDE DEF floors, x, y
    <3>3. x \in Capacity /\ y \in Capacity /\ x \in Int /\ y \in Int
      BY <3>2, Words, Zenon DEF x, y
    <3>4. AtLeast(x, y) \in Capacity /\ x <= AtLeast(x, y)
      BY <3>3 DEF AtLeast
    <3>5. QED
      BY <3>1, <3>4 DEF x, y
  <2>3. QED
    BY <2>2 DEF merged_with
<1> HIDE DEF floors
<1>5. config \in Configs /\ Raised(image.config, config)
  <2>1. config = [override |-> image.config.override, cap |-> image.config.cap, floor |-> floors]
    BY <1>2, <1>3 DEF Configs
  <2>2. \A lane \in Lane : image.config.override[lane] \in Int
    <3>1. image.config.override \in [Lane -> Option]
      BY <1>2 DEF Configs
    <3>2. QED
      BY <3>1, Words, ZenonT(60)
  <2>3. QED
    BY SMTT(40), <1>2, <1>4, <2>1, <2>2 DEF Configs, Raised
<1>6. /\ plan = ZeroPlan /\ retry_trace = <<>> /\ phase = "plan" /\ result = "none" /\ converged = {}
  BY DEF Init, ZeroPlan
<1>7. TypeInv
  <2>1. plan \in [Arenas -> Capacity] /\ base \in [Arenas -> Option]
    BY <1>3, <1>6, Numbers DEF ZeroPlan, Option
  <2>2. retry_trace \in Seq([arena : Arenas, capacity : Capacity, grown : Capacity])
    BY <1>6
  <2>3. QED
    BY <1>1, <1>2, <1>3, <1>5, <1>6, <2>1, <2>2 DEF TypeInv
<1>8. TablesInv
  BY <1>3, <1>5, <1>6 DEF TablesInv, KeyedArenas
<1>9. QED
  BY <1>6, <1>7, <1>8
     DEF RetryInv, EffectInv, PlacedInv, GrowthInv, ReplayInv, ResultInv, NeverMismatched

\* A plan is found as the tables say, and is never refused for a base that moved.
LEMMA PlanKeeps == RetryInv /\ Plan => RetryInv'
<1> SUFFICES ASSUME RetryInv, Plan PROVE RetryInv'
  OBVIOUS
<1>1. TypeInv /\ TablesInv /\ EffectInv /\ PlacedInv /\ GrowthInv /\ ReplayInv /\ ResultInv
  BY DEF RetryInv
<1>2. /\ phase = "plan" /\ Overfull = {}
      /\ UNCHANGED <<image, config, entity_floor, class_floor, retry_trace, converged>>
  BY DEF Plan
<1>3. ~(\E e \in KeyedArenas : base[e] \notin {None, BaseOf(e)})
  BY <1>1 DEF TablesInv
<1>4. /\ base' = [e \in Arenas |-> IF e \in KeyedArenas THEN BaseOf(e) ELSE None]
      /\ plan' = [e \in Arenas |-> Planned(e)]
      /\ \/ phase' = "failed" /\ result' = "DeviceMemoryExceeded"
         \/ phase' = "run" /\ result' = result
  BY <1>3 DEF Plan, Fail
<1>5. /\ Arenas' = Arenas /\ KeyedArenas' = KeyedArenas /\ Overfull' = Overfull /\ LastRetry' = LastRetry
      /\ \A e : BaseOf(e)' = BaseOf(e) /\ Planned(e)' = Planned(e)
  BY <1>2, SamePlanned DEF LastRetry
<1>6. TypeInv'
  <2>1. \A e \in Arenas : Planned(e) \in Capacity /\ BaseOf(e) \in Option /\ None \in Option
    BY <1>1, PlannedIsCapacity DEF Option
  <2>2. plan' \in [Arenas -> Capacity] /\ base' \in [Arenas -> Option]
    BY <1>4, <2>1
  <2>3. QED
    BY <1>1, <1>2, <1>4, <1>5, <2>2 DEF TypeInv
<1>7. TablesInv'
  <2>1. \A e \in Arenas : plan'[e] = Planned(e) /\ (e \in KeyedArenas => base'[e] = BaseOf(e))
    BY <1>4
  <2>2. \A e \in KeyedArenas : e \in Arenas
    BY DEF KeyedArenas
  <2>3. phase' # "ok"
    BY <1>4
  <2>4. Raised(image.config, config)'
    BY <1>1, <1>2 DEF TablesInv
  <2>5. QED
    BY <1>5, <2>1, <2>2, <2>3, <2>4 DEF TablesInv
<1>8. EffectInv'
  BY <1>1, <1>2, <1>5 DEF EffectInv
<1>9. PlacedInv' /\ GrowthInv'
  BY <1>2, <1>4, <1>5 DEF PlacedInv, GrowthInv
<1>10. ReplayInv'
  BY <1>1, <1>2, <1>5 DEF ReplayInv
<1>11. ResultInv'
  BY <1>1, <1>2, <1>4 DEF ResultInv, NeverMismatched
<1>12. QED
  BY <1>6, <1>7, <1>8, <1>9, <1>10, <1>11 DEF RetryInv

\* Steps that change neither plan nor tables.
LEMMA SucceedKeeps == RetryInv /\ (Succeed \/ UNCHANGED vars) => RetryInv'
<1> SUFFICES ASSUME RetryInv, Succeed \/ UNCHANGED vars PROVE RetryInv'
  OBVIOUS
<1>1. TypeInv /\ TablesInv /\ EffectInv /\ PlacedInv /\ GrowthInv /\ ReplayInv /\ ResultInv
  BY DEF RetryInv
<1>2. UNCHANGED <<image, config, base, entity_floor, class_floor, plan, retry_trace, converged>>
  BY DEF Succeed, vars
<1>3. \/ phase = "run" /\ TooSmall = {} /\ phase' = "ok" /\ result' = "Ok"
      \/ phase' = phase /\ result' = result
  BY DEF Succeed, vars
<1>4. /\ Arenas' = Arenas /\ KeyedArenas' = KeyedArenas /\ Overfull' = Overfull
      /\ LastRetry' = LastRetry /\ TooSmall' = TooSmall /\ ZeroPlan' = ZeroPlan
      /\ \A e : BaseOf(e)' = BaseOf(e) /\ Planned(e)' = Planned(e)
  <2>1. Arenas' = Arenas
    BY <1>2, SamePlanned
  <2>2. QED
    BY <1>2, <2>1, SamePlanned DEF LastRetry, TooSmall, ZeroPlan
<1>5. TypeInv'
  BY <1>1, <1>2, <1>3, <1>4 DEF TypeInv
<1>6. TablesInv'
  BY <1>1, <1>2, <1>3, <1>4 DEF TablesInv
<1>7. EffectInv' /\ PlacedInv' /\ ReplayInv' /\ ResultInv'
  BY <1>1, <1>2, <1>3, <1>4 DEF EffectInv, PlacedInv, ReplayInv, ResultInv, NeverMismatched
<1>8. GrowthInv'
  <2>1. \A f : GrowWith(f)' = GrowWith(f)
    BY <1>2, <1>4 DEF GrowWith, Ledgers
  <2>2. QED
    BY <1>1, <1>2, <1>3, <1>4, <2>1 DEF GrowthInv
<1>9. QED
  BY <1>5, <1>6, <1>7, <1>8 DEF RetryInv

\* The host faults only before anything has been planned, at an arena that has no table.
LEMMA HostFaultKeeps == ASSUME RetryInv, NEW e \in Overfull, HostFault(e) PROVE RetryInv'
<1>1. TypeInv /\ PlacedInv
  BY DEF RetryInv
<1>2. e \in Arenas /\ e.arena \in {"Fel", "Queue"} /\ Planned(e) < image.resident[e]
  BY DEF Overfull
<1>3. phase = "plan" /\ plan = ZeroPlan /\ converged = {}
  BY <1>1 DEF HostFault, PlacedInv
<1>4. e \notin KeyedArenas /\ e \notin Ledgers
  BY <1>2 DEF KeyedArenas, Keyed, Ledgers
<1> DEFINE demand == Saturated(Planned(e) + 1)
<1>5. demand \in Capacity /\ Planned(e) < demand
  <2>1. Planned(e) \in Capacity /\ image.resident[e] \in Capacity
    BY <1>1, <1>2, PlannedIsCapacity, ImageFacts DEF TypeInv
  <2>2. \A x, y \in Capacity : x < y => Saturated(x + 1) \in Capacity /\ x < Saturated(x + 1)
    <3>1. MaxUsize \in Nat
      BY Numbers
    <3>2. QED
      BY <3>1 DEF Saturated, AtMost, Capacity
  <2>3. QED
    BY SMTT(30), <1>2, <2>1, <2>2
<1>6. Retry(e, Planned(e), demand, [f \in Ledgers |-> 0])
  BY DEF HostFault
<1> HIDE DEF demand
<1>7. QED
  BY <1>2, <1>3, <1>4, <1>5, <1>6, RetryKeeps

\* The device faults at an arena whose capacity is what the tables say, and never in a run
\* from the warm start of the same image.
LEMMA DeviceFaultKeeps ==
  ASSUME RetryInv, NEW e \in TooSmall, NEW demand \in plan[e] + 1 .. image.need[e],
         NEW high_water \in HighWater(e), DeviceFault(e, demand, high_water)
  PROVE  RetryInv'
<1>1. TypeInv /\ TablesInv /\ ReplayInv /\ phase = "run"
  BY DEF RetryInv, DeviceFault
<1>2. e \in Arenas /\ plan[e] < image.need[e]
  BY SMTT(30) DEF TooSmall
<1>3. plan[e] = Planned(e) /\ Planned(e) \in Capacity /\ image.need[e] \in Capacity
  BY <1>1, <1>2, PlannedIsCapacity, ImageFacts DEF TablesInv, TypeInv
<1>4. demand \in Capacity /\ Planned(e) < demand
  <2>1. /\ Planned(e) \in Int /\ Planned(e) >= 0
        /\ image.need[e] \in Int /\ image.need[e] <= MaxUsize /\ MaxUsize \in Int
    <3>1. MaxUsize \in Nat /\ \A x \in Capacity : x \in Int /\ x >= 0 /\ x <= MaxUsize
      BY Numbers DEF Capacity
    <3>2. QED
      BY <1>3, <3>1
  <2>2. demand \in Planned(e) + 1 .. image.need[e]
    BY <1>3
  <2>3. QED
    BY SMTT(40), <2>1, <2>2 DEF Capacity
<1>5. converged = {}
  <2>1. SUFFICES ASSUME NEW p \in converged PROVE FALSE
    OBVIOUS
  <2>2. Planned(e) = p[e] /\ image.need[e] <= p[e]
    BY <1>1, <1>2 DEF ReplayInv
  <2>3. Planned(e) \in Int /\ image.need[e] \in Int
    BY <1>3, Words
  <2>4. QED
    BY <1>2, <1>3, <2>2, <2>3
<1>6. e \in Ledgers => \A f \in Ledgers : high_water[f] \in Capacity
  BY DEF HighWater
<1>7. Retry(e, Planned(e), demand, high_water)
  BY <1>3 DEF DeviceFault
<1>8. QED
  BY <1>1, <1>2, <1>4, <1>5, <1>6, <1>7, RetryKeeps

\* What a run converged on, given back as floors, plans the same capacities.
LEMMA RerunKeeps == RetryInv /\ Rerun => RetryInv'
<1> SUFFICES ASSUME RetryInv, Rerun PROVE RetryInv'
  OBVIOUS
<1>1. TypeInv /\ TablesInv /\ PlacedInv
  BY DEF RetryInv
<1> DEFINE d == [image.config EXCEPT !.floor = merged_with(@, converged_capacity_floors(config))]
<1>2. /\ phase = "ok" /\ converged' = {plan} /\ config' = d /\ base' = [e \in Arenas |-> None]
      /\ retry_trace' = <<>> /\ phase' = "plan" /\ result' = "none"
      /\ UNCHANGED <<image, entity_floor, class_floor, plan>>
  BY SMTT(30) DEF Rerun
<1>3. image \in Images /\ image.config \in Configs /\ config \in Configs /\ Raised(image.config, config)
  BY <1>1, ImageFacts DEF TypeInv, TablesInv
<1>4. d = Merged(image.config, config)
  BY SMTT(30), <1>3 DEF Configs, Merged
<1> HIDE DEF d
<1>5. Overridable(config)
  BY <1>3, ImageFacts, Lanes DEF Raised, Overridable
<1>6. d \in Configs /\ SameBounds(d, config)
  BY SMTT(30), <1>3, <1>4, <1>5, ConvergedFloorsReplay
<1>7. Raised(image.config, d)
  <2> DEFINE floors == merged_with(image.config.floor, converged_capacity_floors(config))
  <2>1. d = [override |-> image.config.override, cap |-> image.config.cap, floor |-> floors]
    BY <1>4 DEF Merged
  <2>2. /\ image.config.floor \in [Lane -> Capacity] /\ image.config.override \in [Lane -> Option]
        /\ \A lane \in Lane : image.config.override[lane] \in Int /\ image.config.floor[lane] \in Int
    <3>1. image.config.floor \in [Lane -> Capacity] /\ image.config.override \in [Lane -> Option]
      BY <1>3 DEF Configs
    <3>2. QED
      BY <3>1, Words, ZenonT(60)
  <2>3. ASSUME NEW lane \in Lane PROVE image.config.floor[lane] <= floors[lane]
    <3> DEFINE g == converged_capacity_floors(config)[lane]
    <3>1. floors[lane] = AtLeast(image.config.floor[lane], g)
      BY DEF merged_with
    <3>2. floors[lane] \in Int /\ image.config.floor[lane] \in Int
      <4>1. d.floor \in [Lane -> Capacity] /\ d.floor = floors
        BY <1>6, <2>1, Zenon DEF Configs
      <4>2. QED
        BY <2>2, <4>1, Words
    <3> HIDE DEF floors, g
    <3>3. QED
      BY <3>1, <3>2 DEF AtLeast
  <2> HIDE DEF floors
  <2>4. QED
    BY SMTT(40), <2>1, <2>2, <2>3 DEF Raised
<1>8. Arenas' = Arenas /\ KeyedArenas' = KeyedArenas
  BY SMTT(30), <1>2 DEF Arenas, KeyedArenas
<1>9. ASSUME NEW e \in Arenas PROVE BaseOf(e)' = BaseOf(e)
  <2>1. LaneOf(e.arena) \in Lane /\ image.derived[e] \in Capacity /\ image.resident[e] \in Capacity
    BY <1>3, ImageFacts
  <2>2. BaseWith(d, e) = BaseWith(config, e)
    BY <1>6, <2>1 DEF BaseWith, Uncapped, NoCap, SameBounds
  <2>3. QED
    BY <1>2, <2>2 DEF BaseOf, BaseWith
<1>10. \A e \in Arenas : Planned(e)' = Planned(e)
  BY <1>2, <1>9 DEF Planned
<1>11. \A e \in Arenas : plan[e] = Planned(e) /\ ~(plan[e] < image.need[e])
  BY <1>1, <1>2 DEF TablesInv, TooSmall
<1>12. TypeInv'
  <2>1. base' \in [Arenas -> Option]
    BY <1>2 DEF Option
  <2>2. QED
    BY <1>1, <1>2, <1>6, <1>8, <2>1 DEF TypeInv
<1>13. TablesInv'
  BY <1>2, <1>7, <1>8 DEF TablesInv, KeyedArenas
<1>14. PlacedInv'
  BY <1>1, <1>2, <1>8, <1>10 DEF PlacedInv, Overfull
<1>15. ReplayInv'
  <2>1. ASSUME NEW e \in Arenas PROVE image.need[e] <= plan[e]
    <3>1. image.need[e] \in Int /\ plan[e] \in Int
      <4>1. image.need[e] \in Capacity /\ plan[e] \in Capacity
        BY <1>1, <1>3, ImageFacts DEF TypeInv
      <4>2. QED
        BY <4>1, Words, Zenon
    <3>2. QED
      BY SMTT(40), <1>11, <3>1
  <2>2. plan \in [Arenas -> Capacity]
    BY <1>1 DEF TypeInv
  <2>3. QED
    BY <1>2, <1>8, <1>10, <1>11, <2>1, <2>2 DEF ReplayInv
<1>16. EffectInv' /\ GrowthInv' /\ ResultInv'
  BY <1>2 DEF EffectInv, GrowthInv, ResultInv, NeverMismatched
<1>17. QED
  BY <1>12, <1>13, <1>14, <1>15, <1>16 DEF RetryInv

-----------------------------------------------------------------------------

\* The invariant says what every state of an attempt promises.
LEMMA RetryInvIsEnough ==
  ASSUME RetryInv
  PROVE  NeverMismatched /\ RetryTakesEffect /\ ReplaysConvergedPlan
<1>1. TypeInv /\ TablesInv /\ EffectInv /\ ReplayInv /\ ResultInv
  BY DEF RetryInv
<1>2. retry_trace # <<>> => LastRetry.arena \in Arenas
  BY <1>1, LastRetryIsArena
<1>3. RetryTakesEffect
  BY <1>1, <1>2 DEF RetryTakesEffect, EffectInv, TablesInv
<1>4. ReplaysConvergedPlan
  <2>1. SUFFICES ASSUME phase \in {"run", "ok"}, NEW p \in converged PROVE plan = p
    BY DEF ReplaysConvergedPlan
  <2>2. /\ plan \in [Arenas -> Capacity] /\ p \in [Arenas -> Capacity]
        /\ \A e \in Arenas : plan[e] = p[e]
    BY <1>1, <2>1 DEF TypeInv, TablesInv, ReplayInv
  <2>3. QED
    BY <2>2
<1>5. QED
  BY <1>1, <1>3, <1>4 DEF ResultInv

\* Between two attempts nothing shrinks and only what had to grow grows.
LEMMA RetryIsTargeted == RetryInv /\ [Next]_vars => [GrowsTargeted]_vars
<1> SUFFICES ASSUME RetryInv, Next, phase = "plan", phase' = "run", retry_trace # <<>>,
                    plan # [e \in Arenas |-> 0]
             PROVE  \A e \in Arenas : /\ plan'[e] >= plan[e]
                                      /\ plan'[e] > plan[e] => e \in GrowWith(LastRetry.arena)
  BY DEF GrowsTargeted
<1>1. TypeInv /\ TablesInv /\ GrowthInv
  BY DEF RetryInv
<1>2. Plan
  BY DEF Next, Succeed, HostFault, DeviceFault, Retry, Fail, Rerun
<1>3. ~(\E e \in KeyedArenas : base[e] \notin {None, BaseOf(e)})
  BY <1>1 DEF TablesInv
<1>4. plan' = [e \in Arenas |-> Planned(e)]
  BY <1>2, <1>3 DEF Plan
<1>5. LastRetry.arena \in Arenas
  BY <1>1, LastRetryIsArena
<1>6. QED
  BY <1>1, <1>4, <1>5 DEF GrowthInv, ZeroPlan

\* The capacity retry is exact for every image: no fault and no base that the tables do
\* not know, no giving up before the budget is spent, no retry without effect, a warm
\* start that plans what it was taken from, and growth of nothing but what a fault names.
THEOREM RetryIsAlwaysExact == Spec => RetryIsExact
<1>1. RetryInv /\ [Next]_vars => RetryInv'
  <2>1. SUFFICES ASSUME RetryInv, [Next]_vars PROVE RetryInv'
    OBVIOUS
  <2>2. ASSUME NEW e \in Overfull, HostFault(e) PROVE RetryInv'
    BY <2>1, <2>2, HostFaultKeeps
  <2>3. ASSUME NEW e \in TooSmall, NEW demand \in plan[e] + 1 .. image.need[e],
               NEW high_water \in HighWater(e), DeviceFault(e, demand, high_water)
        PROVE  RetryInv'
    BY <2>1, <2>3, DeviceFaultKeeps
  <2>4. QED
    BY <2>1, <2>2, <2>3, PlanKeeps, SucceedKeeps, RerunKeeps DEF Next
<1>2. RetryInv => NeverMismatched /\ RetryTakesEffect /\ ReplaysConvergedPlan
  BY RetryInvIsEnough
<1>3. QED
  BY <1>1, <1>2, RetryInit, RetryIsTargeted, PTL DEF Spec, RetryIsExact

=============================================================================
