------------------------- MODULE CapacityRaiseProofs -------------------------
(***************************************************************************)
(* The inductive invariant of the capacity retry, and its core: a raise    *)
(* after a fault enlarges the arena that was full, and else only what      *)
(* shares its bound.                                                       *)
(***************************************************************************)
EXTENDS CapacityBoundsProofs

\* The inductive invariant.

TypeInv ==
  /\ image \in Images
  /\ config \in Configs
  /\ base \in [Arenas -> Option]
  /\ entity_floor \in [Arenas -> Capacity]
  /\ class_floor \in [Capacity -> Capacity]
  /\ plan \in [Arenas -> Capacity]
  /\ retry_trace \in Seq([arena : Arenas, capacity : Capacity, grown : Capacity])
  /\ phase \in {"plan", "run", "ok", "failed"}

\* The tables describe the attempt that runs, and the base of an arena never moves.
TablesInv ==
  /\ Raised(image.config, config)
  /\ \A e \in KeyedArenas : base[e] \in {None, BaseOf(e)}
  /\ phase \in {"run", "ok"} =>
       \A e \in Arenas : plan[e] = Planned(e) /\ (e \in KeyedArenas => base[e] = BaseOf(e))
  /\ phase = "ok" => TooSmall = {}

ZeroPlan == [e \in Arenas |-> 0]

\* What the last retry selected is in force.
EffectInv ==
  phase # "failed" /\ retry_trace # <<>> =>
    /\ LastRetry.grown > LastRetry.capacity
    /\ \A e \in Arenas : e = LastRetry.arena => Planned(e) >= LastRetry.grown

\* Once resident records have been placed they fit; the host faults only before.
PlacedInv ==
  phase # "failed" /\ (plan # ZeroPlan \/ phase # "plan" \/ converged # {}) => Overfull = {}

\* Between two attempts only what shares a table entry or a lane with the arena that was
\* full has grown.
GrowthInv ==
  phase = "plan" /\ retry_trace # <<>> /\ plan # ZeroPlan =>
    \A e, f \in Arenas : f = LastRetry.arena =>
      Planned(e) >= plan[e] /\ (Planned(e) > plan[e] => e \in GrowWith(f))

\* A warm start plans what it was taken from, which is enough.
ReplayInv ==
  phase # "failed" => \A p \in converged :
    /\ retry_trace = <<>>
    /\ p \in [Arenas -> Capacity]
    /\ \A e \in Arenas : Planned(e) = p[e] /\ image.need[e] <= p[e]

ResultInv ==
  /\ NeverMismatched
  /\ phase # "failed" => result \in {"none", "Ok"}

RetryInv == TypeInv /\ TablesInv /\ EffectInv /\ PlacedInv /\ GrowthInv /\ ReplayInv /\ ResultInv

-----------------------------------------------------------------------------

\* A plan is made of capacities.
LEMMA PlannedIsCapacity ==
  ASSUME TypeInv, NEW e \in Arenas
  PROVE  Planned(e) \in Capacity /\ BaseOf(e) \in Capacity
<1>1. BaseOf(e) \in Capacity
  BY BaseIsCapacity DEF BaseOf, TypeInv
<1>2. entity_floor[e] \in Capacity /\ class_floor[BaseOf(e)] \in Capacity
  BY <1>1 DEF TypeInv
<1>3. QED
  BY <1>1, <1>2, Numbers, Zenon DEF Planned

\* Steps that leave the configuration and the tables alone leave every plan alone.
LEMMA SamePlanned ==
  ASSUME UNCHANGED <<image, config, entity_floor, class_floor>>
  PROVE  /\ Arenas' = Arenas /\ KeyedArenas' = KeyedArenas /\ Ledgers' = Ledgers
         /\ \A e : BaseOf(e)' = BaseOf(e) /\ Planned(e)' = Planned(e)
         /\ Overfull' = Overfull
<1>1. \A e : BaseOf(e)' = BaseOf(e)
  BY DEF BaseOf, BaseWith
<1>2. \A e : Planned(e)' = Planned(e)
  BY <1>1 DEF Planned
<1>3. Arenas' = Arenas
  BY DEF Arenas
<1>4. QED
  BY <1>1, <1>2, <1>3 DEF KeyedArenas, Ledgers, Overfull

\* The growth laws: what they select is a capacity, more than there was and no less than
\* what was asked for.
LEMMA GrownIsMore ==
  ASSUME NEW e, NEW capacity \in Capacity, NEW demand \in Capacity, capacity < demand,
         NEW high_water, e.arena = "TcpSegmentLedger" => high_water[e] \in Capacity
  PROVE  /\ Grown(e, capacity, demand, high_water) \in Capacity
         /\ Grown(e, capacity, demand, high_water) > capacity
<1>1. /\ MaxUsize \in Nat /\ ReceiverSlack \in Nat /\ LedgerFactor \in Nat /\ LedgerSlack \in Nat
      /\ capacity + 1 \in Capacity
  BY RetryAssumption DEF RetryAssumption, Capacity
<1>2. Saturated(capacity + 1) = capacity + 1 /\ AtLeast(demand, capacity + 1) = demand
  BY <1>1 DEF Saturated, AtMost, AtLeast, Capacity
<1>3. /\ grown_capacity(capacity, demand) \in Capacity
      /\ grown_capacity(capacity, demand) > capacity
  BY <1>1, <1>2 DEF grown_capacity, Saturated, AtMost, AtLeast, Capacity
<1>4. /\ grown_capacity_with_slack(capacity, demand, ReceiverSlack) \in Capacity
      /\ grown_capacity_with_slack(capacity, demand, ReceiverSlack) > capacity
  BY <1>1, <1>2 DEF grown_capacity_with_slack, Saturated, AtMost, Capacity
<1>5. ASSUME NEW h \in Capacity
      PROVE  /\ grown_ledger_capacity(capacity, demand, h) \in Capacity
             /\ grown_ledger_capacity(capacity, demand, h) > capacity
  <2>1. ledger_capacity_from_high_water(h) \in Capacity
    <3>1. h * LedgerFactor \in Nat
      <4>1. h \in Nat /\ LedgerFactor \in Nat
        BY <1>1, Numbers
      <4>2. QED
        BY <4>1, Z3
    <3>2. Saturated(h * LedgerFactor) + LedgerSlack \in Nat
      <4>1. Saturated(h * LedgerFactor) \in Capacity
        BY <3>1, Numbers
      <4>2. QED
        BY <1>1, <4>1 DEF Capacity
    <3>3. QED
      BY <3>2, Numbers DEF ledger_capacity_from_high_water
  <2>2. QED
    BY <1>1, <1>2, <2>1 DEF grown_ledger_capacity, AtLeast, Capacity
<1>6. QED
  BY <1>3, <1>4, <1>5 DEF Grown

\* A raise of a table or of the configuration: the arena that was full gets what was
\* selected, no arena gets less, and only those named by GrowWith get more.
LEMMA RaiseIsTargeted ==
  ASSUME TypeInv, Raised(image.config, config),
         NEW e \in Arenas, NEW capacity \in Capacity, NEW grown \in Capacity, capacity < grown,
         e \in KeyedArenas => \A f \in KeyedArenas : base[f] = BaseOf(f),
         NEW high_water, e \in Ledgers => \A f \in Ledgers : high_water[f] \in Capacity,
         Raise(e, capacity, grown, high_water),
         UNCHANGED <<image, base>>
  PROVE  /\ config' \in Configs /\ Raised(image.config, config')
         /\ entity_floor' \in [Arenas -> Capacity] /\ class_floor' \in [Capacity -> Capacity]
         /\ \A f \in KeyedArenas : BaseOf(f)' = BaseOf(f)
         /\ \A f \in Arenas : /\ Planned(f)' \in Capacity /\ Planned(f)' >= Planned(f)
                              /\ Planned(f)' > Planned(f) => f \in GrowWith(e)
         /\ Planned(e)' >= grown
<1>1. /\ image \in Images /\ config \in Configs /\ entity_floor \in [Arenas -> Capacity]
      /\ class_floor \in [Capacity -> Capacity]
  BY DEF TypeInv
<1>2. \A f \in Arenas : BaseOf(f) \in Capacity /\ Planned(f) \in Capacity
  BY PlannedIsCapacity
<1>3. \A f : BaseOf(f)' = BaseWith(config', f)
  BY DEF BaseOf, BaseWith
<1>4. Capacity \subseteq Int /\ \A a, b \in Capacity : AtLeast(a, b) \in Capacity
  BY Numbers
<1>5. \A a, b \in Capacity : /\ AtLeast(a, b) >= a /\ AtLeast(a, b) >= b
                             /\ AtLeast(a, b) = a \/ AtLeast(a, b) = b
  BY <1>4, Numbers
<1>6. \A a, b, c \in Capacity : b <= c => AtLeast(a, b) <= AtLeast(a, c)
  BY <1>4 DEF AtLeast
<1> DEFINE Entity == {"ChannelInbox", "TcpSegmentLedger"}
<1>7. \A f : /\ f.arena \in Entity => Planned(f) = AtLeast(BaseOf(f), entity_floor[f])
             /\ f.arena = "TcpReceiverRanges" => Planned(f) = AtLeast(BaseOf(f), class_floor[BaseOf(f)])
             /\ f.arena \notin Keyed => Planned(f) = BaseOf(f)
  BY DEF Planned, Keyed
<1>8. \A f : /\ f.arena \in Entity => Planned(f)' = AtLeast(BaseOf(f)', entity_floor'[f])
             /\ f.arena = "TcpReceiverRanges" => Planned(f)' = AtLeast(BaseOf(f)', class_floor'[BaseOf(f)'])
             /\ f.arena \notin Keyed => Planned(f)' = BaseOf(f)'
  BY DEF Planned, Keyed
<1>9. \A f : f.arena \in Entity \/ f.arena = "TcpReceiverRanges" \/ f.arena \notin Keyed
  BY DEF Keyed
<1>10. \A x, y \in Capacity : x >= x /\ ~(x > x) /\ (x <= y => y >= x)
  BY <1>4
<1>11. CASE e.arena = "ChannelInbox"
  <2>1. /\ entity_floor' = [entity_floor EXCEPT ![e] = AtLeast(entity_floor[e], grown)]
        /\ config' = config /\ class_floor' = class_floor
    BY <1>11 DEF Raise, raise_channel
  <2>2. /\ entity_floor' \in [Arenas -> Capacity] /\ entity_floor'[e] >= grown
        /\ \A f \in Arenas : entity_floor[f] <= entity_floor'[f] /\ (f # e => entity_floor'[f] = entity_floor[f])
    BY ZenonT(60), <1>1, <1>4, <1>5, <2>1
  <2>3. \A f : BaseOf(f)' = BaseOf(f)
    BY <1>3, <2>1 DEF BaseOf
  <2>4. ASSUME NEW f \in Arenas
        PROVE  Planned(f)' \in Capacity /\ Planned(f)' >= Planned(f) /\ (f # e => Planned(f)' = Planned(f))
    <3>1. CASE f.arena \in Entity
      <4>1. /\ Planned(f) = AtLeast(BaseOf(f), entity_floor[f]) /\ Planned(f)' = AtLeast(BaseOf(f), entity_floor'[f])
            /\ BaseOf(f) \in Capacity /\ entity_floor[f] \in Capacity /\ entity_floor'[f] \in Capacity
        BY <1>1, <1>2, <1>7, <1>8, <2>2, <2>3, <3>1
      <4>2. AtLeast(BaseOf(f), entity_floor'[f]) \in Capacity
              /\ AtLeast(BaseOf(f), entity_floor[f]) <= AtLeast(BaseOf(f), entity_floor'[f])
        BY <1>4, <1>6, <2>2, <4>1, ZenonT(60)
      <4>3. QED
        BY <1>2, <1>10, <2>2, <4>1, <4>2
    <3>2. CASE f.arena \notin Entity
      <4>1. Planned(f)' = Planned(f)
        BY <1>7, <1>8, <1>9, <2>1, <2>3, <3>2
      <4>2. QED
        BY <1>2, <1>10, <4>1
    <3>3. QED
      BY <3>1, <3>2
  <2>5. Planned(e)' = AtLeast(BaseOf(e), entity_floor'[e])
    BY <1>11, <1>8, <2>3
  <2>6. Planned(e)' >= grown
    <3>1. AtLeast(BaseOf(e), entity_floor'[e]) >= entity_floor'[e] /\ AtLeast(BaseOf(e), entity_floor'[e]) \in Int
          /\ entity_floor'[e] \in Int /\ grown \in Int
      BY <1>2, <1>4, <1>5, <2>2, Zenon
    <3>2. QED
      BY <2>2, <2>5, <3>1
  <2>7. e \in GrowWith(e)
    BY <1>11 DEF GrowWith
  <2>8. \A f \in Arenas : Planned(f)' > Planned(f) => f \in GrowWith(e)
    BY <1>2, <1>10, <2>4, <2>7
  <2>9. QED
    BY <1>1, <2>1, <2>2, <2>3, <2>4, <2>6, <2>8
<1>12. CASE e.arena = "TcpSegmentLedger"
  <2>1. e \in Ledgers /\ Ledgers \subseteq Arenas /\ GrowWith(e) = Ledgers
    BY <1>12 DEF Ledgers, GrowWith
  <2> DEFINE own == [entity_floor EXCEPT ![e] = AtLeast(entity_floor[e], grown)]
             H(f) == ledger_capacity_from_high_water(high_water[f])
  <2>2. /\ config' = config /\ class_floor' = class_floor
        /\ entity_floor' = [f \in Arenas |-> IF f \in Ledgers /\ base[f] # None THEN AtLeast(own[f], H(f)) ELSE own[f]]
    BY <1>12 DEF Raise, raise_ledger
  <2>3. \A f \in Ledgers : H(f) \in Capacity
    <3>1. ASSUME NEW h \in Capacity PROVE ledger_capacity_from_high_water(h) \in Capacity
      <4>1. h \in Nat /\ LedgerFactor \in Nat /\ LedgerSlack \in Nat /\ MaxUsize \in Nat
        BY Numbers, RetryAssumption DEF RetryAssumption
      <4>2. h * LedgerFactor \in Nat
        BY <4>1, Z3
      <4>3. Saturated(h * LedgerFactor) \in Capacity
        BY <4>2, Numbers
      <4>4. Saturated(h * LedgerFactor) + LedgerSlack \in Nat
        BY <4>1, <4>3 DEF Capacity
      <4>5. QED
        BY <4>4, Numbers DEF ledger_capacity_from_high_water
    <3>2. QED
      BY <2>1, <3>1
  <2>4. /\ own \in [Arenas -> Capacity] /\ own[e] >= grown
        /\ \A f \in Arenas : entity_floor[f] <= own[f] /\ (f # e => own[f] = entity_floor[f])
    BY <1>1, <1>4, <1>5, ZenonT(60)
  <2> HIDE DEF own, H
  <2>5. /\ entity_floor' \in [Arenas -> Capacity]
        /\ \A f \in Arenas : own[f] <= entity_floor'[f] /\ (f \notin Ledgers => entity_floor'[f] = own[f])
    <3>1. ASSUME NEW f \in Arenas
          PROVE  /\ entity_floor'[f] \in Capacity /\ own[f] <= entity_floor'[f]
                 /\ f \notin Ledgers => entity_floor'[f] = own[f]
      <4>1. own[f] \in Capacity
        BY <2>4
      <4>2. CASE f \in Ledgers /\ base[f] # None
        <5>1. H(f) \in Capacity /\ entity_floor'[f] = AtLeast(own[f], H(f))
          BY <2>2, <2>3, <4>2
        <5>2. AtLeast(own[f], H(f)) \in Capacity /\ AtLeast(own[f], H(f)) >= own[f]
          BY <1>4, <1>5, <4>1, <5>1, Zenon
        <5>3. QED
          BY <1>4, <4>1, <4>2, <5>1, <5>2
      <4>3. CASE ~(f \in Ledgers /\ base[f] # None)
        <5>1. entity_floor'[f] = own[f]
          BY <2>2, <4>3
        <5>2. QED
          BY <1>10, <4>1, <5>1
      <4>4. QED
        BY <4>2, <4>3
    <3>2. QED
      BY <2>2, <3>1
  <2>6. /\ entity_floor'[e] >= grown
        /\ \A f \in Arenas : entity_floor[f] <= entity_floor'[f] /\ (f \notin Ledgers => entity_floor'[f] = entity_floor[f])
    <3>1. \A f \in Arenas : entity_floor'[f] \in Int /\ own[f] \in Int /\ entity_floor[f] \in Int
      BY <1>1, <1>4, <2>4, <2>5, ZenonT(60)
    <3>2. grown \in Int
      BY <1>4
    <3>3. QED
      BY <2>1, <2>4, <2>5, <3>1, <3>2
  <2>7. \A f : BaseOf(f)' = BaseOf(f)
    BY <1>3, <2>2 DEF BaseOf
  <2>8. ASSUME NEW f \in Arenas
        PROVE  Planned(f)' \in Capacity /\ Planned(f)' >= Planned(f) /\ (f \notin Ledgers => Planned(f)' = Planned(f))
    <3>1. CASE f.arena \in Entity
      <4>1. /\ Planned(f) = AtLeast(BaseOf(f), entity_floor[f]) /\ Planned(f)' = AtLeast(BaseOf(f), entity_floor'[f])
            /\ BaseOf(f) \in Capacity /\ entity_floor[f] \in Capacity /\ entity_floor'[f] \in Capacity
        BY <1>1, <1>2, <1>7, <1>8, <2>5, <2>7, <3>1
      <4>2. AtLeast(BaseOf(f), entity_floor'[f]) \in Capacity
              /\ AtLeast(BaseOf(f), entity_floor[f]) <= AtLeast(BaseOf(f), entity_floor'[f])
        BY <1>4, <1>6, <2>6, <4>1, ZenonT(60)
      <4>3. QED
        BY <1>2, <1>10, <2>6, <4>1, <4>2
    <3>2. CASE f.arena \notin Entity
      <4>1. Planned(f)' = Planned(f)
        BY <1>7, <1>8, <1>9, <2>2, <2>7, <3>2
      <4>2. QED
        BY SMTT(30), <1>2, <1>10, <4>1
    <3>3. QED
      BY <3>1, <3>2
  <2>9. Planned(e)' = AtLeast(BaseOf(e), entity_floor'[e])
    BY <1>12, <1>8, <2>7
  <2>10. Planned(e)' >= grown
    <3>1. AtLeast(BaseOf(e), entity_floor'[e]) >= entity_floor'[e] /\ AtLeast(BaseOf(e), entity_floor'[e]) \in Int
          /\ entity_floor'[e] \in Int /\ grown \in Int
      BY <1>2, <1>4, <1>5, <2>5, Zenon
    <3>2. QED
      BY <2>6, <2>9, <3>1
  <2>11. \A f \in Arenas : Planned(f)' > Planned(f) => f \in GrowWith(e)
    BY <1>2, <1>10, <2>1, <2>8
  <2>12. QED
    BY <1>1, <2>2, <2>5, <2>7, <2>8, <2>10, <2>11
<1>13. CASE e.arena = "TcpReceiverRanges"
  <2>1. e \in KeyedArenas /\ \A f \in KeyedArenas : base[f] = BaseOf(f)
    BY <1>13 DEF KeyedArenas, Keyed
  <2> DEFINE b == BaseOf(e)
  <2>2. /\ class_floor' = [class_floor EXCEPT ![b] = AtLeast(class_floor[b], grown)]
        /\ config' = config /\ entity_floor' = entity_floor
    BY <1>13, <2>1 DEF Raise, raise_receiver
  <2>3. b \in Capacity
    BY <1>2
  <2> HIDE DEF b
  <2>4. /\ class_floor' \in [Capacity -> Capacity] /\ class_floor'[b] >= grown
        /\ \A x \in Capacity : class_floor[x] <= class_floor'[x] /\ (x # b => class_floor'[x] = class_floor[x])
    <3> DEFINE g == AtLeast(class_floor[b], grown)
    <3>1. class_floor[b] \in Capacity
      BY <1>1, <2>3
    <3>2. g \in Capacity /\ g >= grown /\ class_floor[b] <= g
      BY <1>4, <1>5, <3>1, Zenon
    <3> HIDE DEF g
    <3>3. class_floor' = [class_floor EXCEPT ![b] = g]
      BY <2>2 DEF g
    <3>4. /\ class_floor' \in [Capacity -> Capacity] /\ class_floor'[b] = g
          /\ \A x \in Capacity : x # b => class_floor'[x] = class_floor[x]
      BY <1>1, <2>3, <3>2, <3>3
    <3>5. ASSUME NEW x \in Capacity PROVE class_floor[x] <= class_floor'[x]
      <4>1. class_floor[x] \in Int
        BY <1>1, <1>4, ZenonT(60)
      <4>2. QED
        BY <3>2, <3>4, <4>1
    <3>6. QED
      BY <3>2, <3>4, <3>5
  <2>5. \A f : BaseOf(f)' = BaseOf(f)
    BY <1>3, <2>2 DEF BaseOf
  <2>6. ASSUME NEW f \in Arenas
        PROVE  /\ Planned(f)' \in Capacity /\ Planned(f)' >= Planned(f)
               /\ Planned(f)' = Planned(f) \/ (f.arena = "TcpReceiverRanges" /\ BaseOf(f) = b)
    <3>1. CASE f.arena = "TcpReceiverRanges"
      <4> DEFINE x == BaseOf(f)
      <4>1. /\ Planned(f) = AtLeast(x, class_floor[x]) /\ Planned(f)' = AtLeast(x, class_floor'[x])
            /\ x \in Capacity /\ class_floor[x] \in Capacity /\ class_floor'[x] \in Capacity
        BY <1>1, <1>2, <1>7, <1>8, <2>4, <2>5, <3>1
      <4> HIDE DEF x
      <4>2. AtLeast(x, class_floor'[x]) \in Capacity /\ AtLeast(x, class_floor[x]) <= AtLeast(x, class_floor'[x])
        BY <1>4, <1>6, <2>4, <4>1, ZenonT(60)
      <4>3. x # b => Planned(f)' = Planned(f)
        BY <2>4, <4>1
      <4>4. QED
        BY SMTT(30), <1>2, <1>10, <3>1, <4>1, <4>2, <4>3 DEF x
    <3>2. CASE f.arena # "TcpReceiverRanges"
      <4>1. Planned(f)' = Planned(f)
        BY <1>7, <1>8, <1>9, <2>2, <2>5, <3>2
      <4>2. QED
        BY <1>2, <1>10, <4>1
    <3>3. QED
      BY <3>1, <3>2
  <2>7. Planned(e)' = AtLeast(b, class_floor'[b])
    BY <1>13, <1>8, <2>5 DEF b
  <2>8. Planned(e)' >= grown
    <3>1. AtLeast(b, class_floor'[b]) >= class_floor'[b] /\ AtLeast(b, class_floor'[b]) \in Int
          /\ class_floor'[b] \in Int /\ grown \in Int
      BY <1>4, <1>5, <2>3, <2>4, Zenon
    <3>2. QED
      BY <2>4, <2>7, <3>1
  <2>9. \A f \in Arenas : f.arena = "TcpReceiverRanges" /\ BaseOf(f) = b => f \in GrowWith(e)
    BY <1>13, <2>1 DEF GrowWith, KeyedArenas, Keyed, b
  <2>10. \A f \in Arenas : Planned(f)' > Planned(f) => f \in GrowWith(e)
    BY SMTT(30), <1>2, <1>10, <2>6, <2>9
  <2>11. QED
    BY <1>1, <2>2, <2>4, <2>5, <2>6, <2>8, <2>10
<1>14. CASE e.arena \notin Keyed
  <2>1. config' = raise_capacity(config, e.arena, capacity, grown)
        /\ entity_floor' = entity_floor /\ class_floor' = class_floor
    BY SMTT(30), <1>14 DEF Raise, Keyed
  <2>2. /\ config' \in Configs
        /\ BaseWith(config', e) >= grown
        /\ \A f \in Arenas : BaseWith(config, f) <= BaseWith(config', f)
        /\ \A f \in Arenas : OverrideOf(LaneOf(f.arena)) # OverrideOf(LaneOf(e.arena)) =>
             BaseWith(config', f) = BaseWith(config, f)
    BY SMTT(40), <1>1, <1>14, <2>1, RaiseReachesArena
  <2>3. Raised(image.config, config')
    <3>1. image.config \in Configs /\ LaneOf(e.arena) \in Lane
      BY SMTT(30), <1>1, ImageFacts
    <3>2. QED
      BY <1>1, <1>14, <2>1, <3>1, RaisedStays
  <2>4. \A f \in Arenas : /\ BaseOf(f)' \in Capacity /\ BaseOf(f)' >= BaseOf(f)
                          /\ OverrideOf(LaneOf(f.arena)) # OverrideOf(LaneOf(e.arena)) => BaseOf(f)' = BaseOf(f)
    <3>1. \A f \in Arenas : BaseWith(config', f) \in Capacity
      BY <1>1, <2>2, BaseIsCapacity
    <3>2. QED
      BY SMTT(40), <1>2, <1>3, <1>10, <2>2, <3>1 DEF BaseOf
  <2>5. \A f \in KeyedArenas : BaseOf(f)' = BaseOf(f)
    <3>1. \A f \in KeyedArenas : f \in Arenas /\ f.arena \in Keyed /\ LaneOf(f.arena) = f.arena
      BY Lanes DEF KeyedArenas
    <3>2. LaneOf(e.arena) \in Lane
      BY <1>1, ImageFacts
    <3>3. \A f \in KeyedArenas : OverrideOf(LaneOf(f.arena)) # OverrideOf(LaneOf(e.arena))
      BY <1>14, <3>1, <3>2, Lanes
    <3>4. QED
      BY <2>4, <3>1, <3>3
  <2>6. \A f \in Arenas : f.arena \notin Keyed => Planned(f) = BaseOf(f) /\ Planned(f)' = BaseOf(f)'
    BY SMTT(30), <1>7, <1>8
  <2>7. \A f \in KeyedArenas : Planned(f)' = Planned(f)
    BY SMTT(40), <1>7, <1>8, <1>9, <2>1, <2>5 DEF KeyedArenas
  <2>8. \A f \in Arenas : /\ Planned(f)' \in Capacity /\ Planned(f)' >= Planned(f)
                          /\ OverrideOf(LaneOf(f.arena)) # OverrideOf(LaneOf(e.arena)) => Planned(f)' = Planned(f)
    BY SMTT(30), <1>2, <1>10, <2>4, <2>6, <2>7 DEF KeyedArenas
  <2>9. Planned(e)' >= grown
    BY <1>3, <1>14, <2>2, <2>6
  <2>10. GrowWith(e) = {f \in Arenas : OverrideOf(LaneOf(f.arena)) = OverrideOf(LaneOf(e.arena))}
    BY SMTT(30), <1>14 DEF GrowWith, Keyed
  <2>11. \A f \in Arenas : Planned(f)' > Planned(f) => f \in GrowWith(e)
    BY <1>2, <1>10, <2>8, <2>10
  <2>12. QED
    BY <1>1, <2>1, <2>2, <2>3, <2>5, <2>8, <2>9, <2>11
<1>15. QED
  BY <1>11, <1>12, <1>13, <1>14 DEF Keyed
=============================================================================
