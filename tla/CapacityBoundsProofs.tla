------------------------ MODULE CapacityBoundsProofs -------------------------
(***************************************************************************)
(* How the capacity of an arena follows from a configuration of the device *)
(* executors, and what a raise of the configuration does to it.            *)
(***************************************************************************)
EXTENDS CapacityRetry, TLAPS

Configs == [override : [Lane -> Option], cap : [Lane -> Option], floor : [Lane -> Capacity]]

\* Configuration d gives no arena less than c.
Above(c, d) ==
  \A lane \in Lane :
    /\ c.floor[lane] <= d.floor[lane]
    /\ (c.override[lane] = None) <=> (d.override[lane] = None)
    /\ c.override[lane] <= d.override[lane]
    /\ (c.cap[lane] = None) <=> (d.cap[lane] = None)
    /\ c.cap[lane] <= d.cap[lane]

\* What separates an attempt's configuration d from that of the caller, c.  A cap is
\* raised only together with the floor, which then hides it.
Raised(c, d) ==
  \A lane \in Lane :
    /\ c.floor[lane] <= d.floor[lane]
    /\ (c.override[lane] = None) <=> (d.override[lane] = None)
    /\ c.override[lane] <= d.override[lane]
    /\ \/ d.cap[lane] = c.cap[lane]
       \/ c.cap[lane] # None /\ c.cap[lane] <= d.cap[lane] /\ d.cap[lane] <= d.floor[lane]

NoCap(c, lane) == [c EXCEPT !.cap[lane] = None]

\* Lanes are closed under overrides, and an arena that has no table of its own shares no
\* lane and no override with one that has.
LEMMA Lanes ==
  /\ \A lane \in Lane : OverrideOf(lane) \in Lane
  /\ FloorOnly \subseteq Lane /\ Keyed \subseteq Lane /\ NoOverride \subseteq Lane
  /\ \A arena : arena \in Keyed => LaneOf(arena) = arena
  /\ \A arena : arena \in FloorOnly => LaneOf(arena) = arena
  /\ \A arena, f : LaneOf(arena) \in Lane /\ arena \notin Keyed /\ f \in Keyed =>
       LaneOf(arena) # f /\ OverrideOf(LaneOf(arena)) # OverrideOf(f)
BY DEF Lane, OverrideOf, FloorOnly, Keyed, NoOverride, LaneOf, Observations

\* The maximum and the minimum that the growth laws are built from.
LEMMA Numbers ==
  /\ MaxUsize \in Nat /\ Capacity \subseteq Nat /\ 0 \in Capacity
  /\ None \notin Capacity /\ None \in Int
  /\ \A a, b \in Int : /\ AtLeast(a, b) \in {a, b} /\ AtLeast(a, b) >= a /\ AtLeast(a, b) >= b
                       /\ AtMost(a, b) \in {a, b} /\ AtMost(a, b) <= a /\ AtMost(a, b) <= b
  /\ \A n \in Nat : Saturated(n) \in Capacity
  /\ \A a, b \in Capacity : AtLeast(a, b) \in Capacity /\ AtMost(a, b) \in Capacity
<1>1. MaxUsize \in Nat
  BY RetryAssumption DEF RetryAssumption
<1>2. QED
  BY <1>1 DEF Capacity, None, AtLeast, AtMost, Saturated

LEMMA Words == Capacity \subseteq Int /\ Option \subseteq Int /\ Capacity \subseteq Option
BY Numbers DEF Option

\* What an arena gets is a capacity.
LEMMA BoundIsCapacity ==
  ASSUME NEW c \in Configs, NEW lane \in Lane, NEW derived \in Capacity, NEW resident \in Capacity
  PROVE  Bound(c, lane, derived, resident) \in Capacity
<1>1. OverrideOf(lane) \in Lane
  BY Lanes
<1>2. c.override[OverrideOf(lane)] \in Option /\ c.cap[lane] \in Option /\ c.floor[lane] \in Capacity
  BY <1>1 DEF Configs
<1>3. QED
  BY <1>2, Numbers, Zenon DEF Bound, bound_derived_capacity, Option

\* A configuration above another one gives every arena at least as much.
LEMMA BoundIsMonotone ==
  ASSUME NEW c \in Configs, NEW d \in Configs, Above(c, d), NEW lane \in Lane,
         NEW derived \in Capacity, NEW resident \in Capacity
  PROVE  Bound(c, lane, derived, resident) <= Bound(d, lane, derived, resident)
<1> DEFINE o == OverrideOf(lane)
<1>1. o \in Lane
  BY Lanes
<1>2. /\ c.override[o] \in Option /\ c.cap[lane] \in Option /\ c.floor[lane] \in Capacity
      /\ d.override[o] \in Option /\ d.cap[lane] \in Option /\ d.floor[lane] \in Capacity
  BY <1>1 DEF Configs
<1>3. /\ c.floor[lane] <= d.floor[lane]
      /\ (c.override[o] = None) <=> (d.override[o] = None)
      /\ c.override[o] <= d.override[o]
      /\ (c.cap[lane] = None) <=> (d.cap[lane] = None)
      /\ c.cap[lane] <= d.cap[lane]
  BY <1>1 DEF Above
<1>4. MaxUsize \in Nat
  BY Numbers
<1>5. QED
  BY <1>2, <1>3, <1>4 DEF Bound, bound_derived_capacity, Option, Capacity, None, AtLeast, AtMost

\* raise_cap_or_floor: the floor reaches what was selected, a cap that was met comes along
\* below it, and no other lane changes.
LEMMA CapOrFloor ==
  ASSUME NEW c \in Configs, NEW lane \in Lane, NEW capacity \in Capacity, NEW grown \in Capacity,
         capacity < grown,
         NEW d, d = raise_cap_or_floor(c, lane, capacity, grown)
  PROVE  /\ d \in Configs /\ Above(c, d)
         /\ d.override = c.override
         /\ d.floor[lane] >= grown
         /\ \A other \in Lane \ {lane} : d.floor[other] = c.floor[other] /\ d.cap[other] = c.cap[other]
         /\ d.cap[lane] = c.cap[lane] \/ (c.cap[lane] = capacity /\ d.cap[lane] = grown)
<1>1. /\ c.override \in [Lane -> Option] /\ c.cap \in [Lane -> Option] /\ c.floor \in [Lane -> Capacity]
      /\ MaxUsize \in Nat
  BY Numbers DEF Configs
<1> DEFINE newcap   == IF c.cap[lane] = capacity THEN AtLeast(c.cap[lane], grown) ELSE c.cap[lane]
           newfloor == AtLeast(c.floor[lane], grown)
<1>2. /\ newcap \in Option /\ c.cap[lane] <= newcap /\ ((c.cap[lane] = None) <=> (newcap = None))
      /\ newcap = c.cap[lane] \/ (c.cap[lane] = capacity /\ newcap = grown)
      /\ newfloor \in Capacity /\ c.floor[lane] <= newfloor /\ newfloor >= grown
  BY <1>1 DEF Option, Capacity, None, AtLeast
<1>3. /\ d.override = c.override
      /\ d.cap = [c.cap EXCEPT ![lane] = newcap]
      /\ d.floor = [c.floor EXCEPT ![lane] = newfloor]
      /\ d = [override |-> d.override, cap |-> d.cap, floor |-> d.floor]
  BY Zenon DEF raise_cap_or_floor, Configs
<1> HIDE DEF newcap, newfloor
<1>4. d \in Configs
  BY <1>1, <1>2, <1>3 DEF Configs
<1>5. Above(c, d)
  <2>1. \A l \in Lane : c.floor[l] \in Int /\ c.cap[l] \in Int /\ c.override[l] \in Int
    BY <1>1 DEF Option, Capacity, None
  <2>2. QED
    BY <1>1, <1>2, <1>3, <2>1 DEF Above
<1>6. QED
  BY <1>1, <1>2, <1>3, <1>4, <1>5

\* raise_capacity: the arena that was full has a lane whose override or floor reaches what
\* was selected; only arenas that share its override are touched.
LEMMA RaiseCapacity ==
  ASSUME NEW c \in Configs, NEW arena, LaneOf(arena) \in Lane, arena \notin Keyed,
         NEW capacity \in Capacity, NEW grown \in Capacity, capacity < grown,
         NEW d, d = raise_capacity(c, arena, capacity, grown)
  PROVE  /\ d \in Configs /\ Above(c, d)
         /\ \/ d.floor[LaneOf(arena)] >= grown
            \/ c.override[OverrideOf(LaneOf(arena))] # None /\ d.override[OverrideOf(LaneOf(arena))] >= grown
         /\ \A lane \in Lane : OverrideOf(lane) # OverrideOf(LaneOf(arena)) =>
              /\ d.floor[lane] = c.floor[lane] /\ d.cap[lane] = c.cap[lane]
              /\ d.override[OverrideOf(lane)] = c.override[OverrideOf(lane)]
         /\ \A lane \in Lane :
              d.cap[lane] = c.cap[lane]
                \/ (c.cap[lane] = capacity /\ d.cap[lane] = grown /\ d.floor[lane] >= grown)
<1> DEFINE lane == LaneOf(arena)
           o == OverrideOf(lane)
<1>1. /\ c.override \in [Lane -> Option] /\ c.cap \in [Lane -> Option] /\ c.floor \in [Lane -> Capacity]
      /\ MaxUsize \in Nat /\ lane \in Lane /\ o \in Lane
  BY Numbers, Lanes DEF Configs
<1>2. \A l \in Lane : c.floor[l] \in Int /\ c.cap[l] \in Int /\ c.override[l] \in Int
  BY <1>1 DEF Option, Capacity, None
<1>3. CASE arena \in FloorOnly
  <2>1. lane = arena
    BY <1>3, Lanes
  <2>2. /\ d.override = c.override /\ d.cap = c.cap
        /\ d.floor = [c.floor EXCEPT ![lane] = AtLeast(c.floor[lane], grown)]
        /\ d = [override |-> d.override, cap |-> d.cap, floor |-> d.floor]
    BY <1>3, <2>1 DEF raise_capacity, Configs
  <2>3. /\ AtLeast(c.floor[lane], grown) \in Capacity
        /\ AtLeast(c.floor[lane], grown) >= grown /\ c.floor[lane] <= AtLeast(c.floor[lane], grown)
    BY <1>1 DEF Capacity, AtLeast
  <2>4. d \in Configs
    BY <1>1, <2>2, <2>3 DEF Configs
  <2>5. Above(c, d)
    BY <1>1, <1>2, <2>2, <2>3 DEF Above
  <2>6. QED
    BY <1>1, <2>2, <2>3, <2>4, <2>5
<1>4. CASE arena \notin FloorOnly /\ c.override[o] = capacity
  <2>1. /\ d.floor = c.floor /\ d.cap = c.cap
        /\ d.override = [c.override EXCEPT ![o] = AtLeast(c.override[o], grown)]
        /\ d = [override |-> d.override, cap |-> d.cap, floor |-> d.floor]
    BY <1>4 DEF raise_capacity, raise_override_cap_or_floor, Configs
  <2>2. /\ AtLeast(c.override[o], grown) \in Capacity /\ c.override[o] # None
        /\ AtLeast(c.override[o], grown) >= grown /\ c.override[o] <= AtLeast(c.override[o], grown)
        /\ AtLeast(c.override[o], grown) # None
    BY <1>1, <1>4 DEF Capacity, AtLeast, None
  <2>3. d \in Configs
    BY <1>1, <2>1, <2>2 DEF Configs, Option
  <2>4. Above(c, d)
    BY <1>1, <1>2, <2>1, <2>2 DEF Above
  <2>5. \A l \in Lane : OverrideOf(l) \in Lane
    BY Lanes
  <2>6. QED
    BY <1>1, <2>1, <2>2, <2>3, <2>4, <2>5
<1>5. CASE arena \notin FloorOnly /\ c.override[o] # capacity
  <2>1. d = raise_cap_or_floor(c, lane, capacity, grown)
    BY <1>5 DEF raise_capacity, raise_override_cap_or_floor
  <2>2. /\ d \in Configs /\ Above(c, d)
        /\ d.override = c.override
        /\ d.floor[lane] >= grown
        /\ \A other \in Lane \ {lane} : d.floor[other] = c.floor[other] /\ d.cap[other] = c.cap[other]
        /\ d.cap[lane] = c.cap[lane] \/ (c.cap[lane] = capacity /\ d.cap[lane] = grown)
    BY SMTT(30), <1>1, <2>1, CapOrFloor
  <2>3. QED
    BY <2>2
<1>6. QED
  BY <1>3, <1>4, <1>5

\* The configuration stays one that its own converged floors describe.
LEMMA RaisedStays ==
  ASSUME NEW b \in Configs, NEW c \in Configs, Raised(b, c),
         NEW arena, LaneOf(arena) \in Lane, arena \notin Keyed,
         NEW capacity \in Capacity, NEW grown \in Capacity, capacity < grown,
         NEW d, d = raise_capacity(c, arena, capacity, grown)
  PROVE  Raised(b, d)
<1>1. d \in Configs /\ Above(c, d)
  BY RaiseCapacity
<1>2. \A lane \in Lane :
        d.cap[lane] = c.cap[lane]
          \/ (c.cap[lane] = capacity /\ d.cap[lane] = grown /\ d.floor[lane] >= grown)
  BY RaiseCapacity
<1>3. \A l \in Lane :
        /\ b.floor[l] \in Int /\ b.cap[l] \in Int /\ b.override[l] \in Int
        /\ c.floor[l] \in Int /\ c.cap[l] \in Int /\ c.override[l] \in Int
        /\ d.floor[l] \in Int /\ d.cap[l] \in Int /\ d.override[l] \in Int
  <2>1. Option \subseteq Int /\ Capacity \subseteq Int
    BY Numbers DEF Option, Capacity, None
  <2>2. QED
    BY <1>1, <2>1, Zenon DEF Configs
<1>4. SUFFICES ASSUME NEW lane \in Lane
               PROVE  /\ b.floor[lane] <= d.floor[lane]
                      /\ (b.override[lane] = None) <=> (d.override[lane] = None)
                      /\ b.override[lane] <= d.override[lane]
                      /\ \/ d.cap[lane] = b.cap[lane]
                         \/ b.cap[lane] # None /\ b.cap[lane] <= d.cap[lane] /\ d.cap[lane] <= d.floor[lane]
  BY DEF Raised
<1>5. capacity # None /\ capacity \in Int /\ grown \in Int
  BY Numbers
<1>6. QED
  BY <1>1, <1>2, <1>3, <1>5 DEF Above, Raised

\* The caller's configuration b, merged with the floors that a run has converged on.
Merged(b, c) ==
  [override |-> b.override, cap |-> b.cap,
   floor |-> merged_with(b.floor, converged_capacity_floors(c))]

Overridable(c) == \A lane \in NoOverride : c.override[lane] = None

\* d gives every arena what c gives it.
SameBounds(d, c) ==
  \A lane \in Lane, derived, resident \in Capacity :
    /\ Bound(d, lane, derived, resident) = Bound(c, lane, derived, resident)
    /\ Bound(NoCap(d, lane), lane, derived, resident) = Bound(NoCap(c, lane), lane, derived, resident)

\* Merged with the floors a run converged on, the caller's configuration gives every arena
\* what that run gave it.
LEMMA ConvergedFloorsReplay ==
  ASSUME NEW b \in Configs, NEW c \in Configs, Raised(b, c), NEW d, d = Merged(b, c),
         Overridable(c)
  PROVE  d \in Configs /\ SameBounds(d, c)
<1> USE DEF Merged, Overridable
<1>1. /\ b.override \in [Lane -> Option] /\ b.cap \in [Lane -> Option] /\ b.floor \in [Lane -> Capacity]
      /\ c.override \in [Lane -> Option] /\ c.cap \in [Lane -> Option] /\ c.floor \in [Lane -> Capacity]
      /\ MaxUsize \in Nat
  BY Numbers DEF Configs
<1> DEFINE floors == merged_with(b.floor, converged_capacity_floors(c))
<1>2. /\ d = [override |-> d.override, cap |-> d.cap, floor |-> d.floor]
      /\ d.override = b.override /\ d.cap = b.cap /\ d.floor = floors
  BY DEF Configs
<1>3. \A lane \in Lane : floors[lane] =
        AtLeast(b.floor[lane], IF lane \in NoOverride THEN c.floor[lane]
                               ELSE AtLeast(c.floor[lane], c.override[OverrideOf(lane)]))
  BY DEF merged_with, converged_capacity_floors
<1>4. \A lane \in Lane : c.override[OverrideOf(lane)] \in Option /\ OverrideOf(lane) \in Lane
  BY <1>1, Lanes
<1>5. \A lane \in NoOverride : c.override[OverrideOf(lane)] = None
  BY DEF OverrideOf, NoOverride, FloorOnly
<1>6. \A lane \in Lane : floors[lane] = AtLeast(c.floor[lane], c.override[OverrideOf(lane)])
                          /\ floors[lane] \in Capacity
  <2> HIDE DEF floors
  <2> SUFFICES ASSUME NEW lane \in Lane
               PROVE  floors[lane] = AtLeast(c.floor[lane], c.override[OverrideOf(lane)])
                        /\ floors[lane] \in Capacity
    OBVIOUS
  <2>1. b.floor[lane] \in Capacity /\ c.floor[lane] \in Capacity /\ b.floor[lane] <= c.floor[lane]
    BY <1>1 DEF Raised
  <2>2. c.override[OverrideOf(lane)] \in Option
    BY <1>4
  <2>3. floors[lane] =
          AtLeast(b.floor[lane], IF lane \in NoOverride THEN c.floor[lane]
                                 ELSE AtLeast(c.floor[lane], c.override[OverrideOf(lane)]))
    BY <1>3
  <2>4. CASE lane \in NoOverride
    <3>1. c.override[OverrideOf(lane)] = None
      BY <1>5, <2>4
    <3>2. QED
      BY <1>1, <2>1, <2>3, <2>4, <3>1 DEF AtLeast, Capacity, None
  <2>5. CASE lane \notin NoOverride
    BY <1>1, <2>1, <2>2, <2>3, <2>5 DEF AtLeast, Capacity, Option, None
  <2>6. QED
    BY <2>4, <2>5
<1>7. d \in Configs
  <2>1. floors \in [Lane -> Capacity]
    BY <1>6 DEF merged_with
  <2>2. QED
    BY <1>1, <1>2, <2>1 DEF Configs
<1> HIDE DEF floors
<1>8. ASSUME NEW lane \in Lane, NEW derived \in Capacity, NEW resident \in Capacity
      PROVE  /\ Bound(d, lane, derived, resident) = Bound(c, lane, derived, resident)
             /\ Bound(NoCap(d, lane), lane, derived, resident)
                  = Bound(NoCap(c, lane), lane, derived, resident)
  <2> DEFINE o == OverrideOf(lane)
             dn == NoCap(d, lane)
             cn == NoCap(c, lane)
  <2>1. /\ b.override[o] \in Option /\ c.override[o] \in Option /\ c.floor[lane] \in Capacity
        /\ b.cap[lane] \in Option /\ c.cap[lane] \in Option
        /\ (b.override[o] = None) <=> (c.override[o] = None)
        /\ b.override[o] <= c.override[o]
        /\ \/ c.cap[lane] = b.cap[lane]
           \/ b.cap[lane] # None /\ b.cap[lane] <= c.cap[lane] /\ c.cap[lane] <= c.floor[lane]
    BY <1>1, <1>4 DEF Raised
  <2>2. d.floor[lane] = AtLeast(c.floor[lane], c.override[o]) /\ d.override[o] = b.override[o]
          /\ d.cap[lane] = b.cap[lane]
    BY <1>2, <1>6
  <2>3. /\ dn.floor = d.floor /\ dn.override = d.override /\ dn.cap[lane] = None
        /\ cn.floor = c.floor /\ cn.override = c.override /\ cn.cap[lane] = None
    BY SMTT(30), <1>1, <1>2, <1>7 DEF Configs, NoCap
  <2> HIDE DEF o, dn, cn
  <2>4. Bound(d, lane, derived, resident) = Bound(c, lane, derived, resident)
    BY SMTT(30), <1>1, <2>1, <2>2 DEF Bound, bound_derived_capacity, o, Option, Capacity, None, AtLeast, AtMost
  <2>5. Bound(dn, lane, derived, resident) = Bound(cn, lane, derived, resident)
    BY SMTT(30), <1>1, <2>1, <2>2, <2>3 DEF Bound, bound_derived_capacity, o, Option, Capacity, None, AtLeast, AtMost
  <2>6. QED
    BY <2>4, <2>5 DEF dn, cn
<1>9. QED
  BY <1>7, <1>8 DEF SameBounds

-----------------------------------------------------------------------------

\* What is known of the arenas of an image.
LEMMA ImageFacts ==
  ASSUME image \in Images
  PROVE  /\ image.config \in Configs
         /\ image.derived \in [Arenas -> Capacity] /\ image.resident \in [Arenas -> Capacity]
         /\ image.need \in [Arenas -> Capacity]
         /\ image.warm.floors \in [Lane -> Capacity]
         /\ image.warm.entity_floor \in [Arenas -> Capacity]
         /\ image.warm.class_floor \in [Capacity -> Capacity]
         /\ \A lane \in NoOverride : image.config.override[lane] = None
         /\ \A e \in Arenas : LaneOf(e.arena) \in Lane
BY RetryAssumption DEF RetryAssumption, ImageOK, Arenas, Configs

\* Taking the cap away keeps a configuration, its order and its other lanes.
LEMMA UncappedFacts ==
  ASSUME NEW c \in Configs, NEW e, LaneOf(e.arena) \in Lane
  PROVE  /\ Uncapped(c, e) \in Configs
         /\ Uncapped(c, e).floor = c.floor /\ Uncapped(c, e).override = c.override
         /\ \A lane \in Lane : Uncapped(c, e).cap[lane] \in {c.cap[lane], None}
         /\ \A d \in Configs : Above(c, d) => Above(Uncapped(c, e), Uncapped(d, e))
<1>1. CASE e.arena \in Observations /\ e.id = AllLps
  <2> DEFINE lane == LaneOf(e.arena)
             U(d) == [d EXCEPT !.cap[lane] = None]
  <2>1. \A d \in Configs : /\ U(d) = [override |-> d.override, cap |-> [d.cap EXCEPT ![lane] = None], floor |-> d.floor]
                           /\ U(d) \in Configs
    BY DEF Configs, Option
  <2>2. \A d : Uncapped(d, e) = U(d)
    BY <1>1 DEF Uncapped
  <2>3. None \in Int
    BY Numbers
  <2> HIDE DEF U
  <2>4. ASSUME NEW d \in Configs, Above(c, d) PROVE Above(U(c), U(d))
    <3>1. /\ c.cap \in [Lane -> Option] /\ d.cap \in [Lane -> Option]
          /\ U(c).floor = c.floor /\ U(c).override = c.override /\ U(c).cap = [c.cap EXCEPT ![lane] = None]
          /\ U(d).floor = d.floor /\ U(d).override = d.override /\ U(d).cap = [d.cap EXCEPT ![lane] = None]
      BY <2>1 DEF Configs
    <3>2. QED
      BY <2>3, <2>4, <3>1 DEF Above
  <2>5. QED
    BY <2>1, <2>2, <2>4 DEF Configs
<1>2. CASE ~(e.arena \in Observations /\ e.id = AllLps)
  BY <1>2 DEF Uncapped
<1>3. QED
  BY <1>1, <1>2

\* The base of an arena is a capacity.
LEMMA BaseIsCapacity ==
  ASSUME image \in Images, NEW c \in Configs, NEW e \in Arenas
  PROVE  BaseWith(c, e) \in Capacity
<1>1. LaneOf(e.arena) \in Lane /\ image.derived[e] \in Capacity /\ image.resident[e] \in Capacity
  BY ImageFacts
<1>2. Uncapped(c, e) \in Configs
  BY <1>1, UncappedFacts
<1>3. QED
  BY <1>1, <1>2, BoundIsCapacity DEF BaseWith

\* It does not fall when the configuration rises.
LEMMA BaseIsMonotone ==
  ASSUME image \in Images, NEW c \in Configs, NEW d \in Configs, Above(c, d), NEW e \in Arenas
  PROVE  BaseWith(c, e) <= BaseWith(d, e)
<1>1. LaneOf(e.arena) \in Lane /\ image.derived[e] \in Capacity /\ image.resident[e] \in Capacity
  BY ImageFacts
<1>2. Uncapped(c, e) \in Configs /\ Uncapped(d, e) \in Configs /\ Above(Uncapped(c, e), Uncapped(d, e))
  BY SMTT(30), <1>1, UncappedFacts
<1>3. QED
  BY <1>1, <1>2, BoundIsMonotone DEF BaseWith

\* It depends on its own lane only.
LEMMA BaseIsLocal ==
  ASSUME image \in Images, NEW c \in Configs, NEW d \in Configs, NEW e \in Arenas,
         d.floor[LaneOf(e.arena)] = c.floor[LaneOf(e.arena)],
         d.cap[LaneOf(e.arena)] = c.cap[LaneOf(e.arena)],
         d.override[OverrideOf(LaneOf(e.arena))] = c.override[OverrideOf(LaneOf(e.arena))]
  PROVE  BaseWith(d, e) = BaseWith(c, e)
<1> DEFINE lane == LaneOf(e.arena)
<1>1. lane \in Lane
  BY ImageFacts
<1>2. /\ Uncapped(c, e).floor = c.floor /\ Uncapped(c, e).override = c.override
      /\ Uncapped(d, e).floor = d.floor /\ Uncapped(d, e).override = d.override
  BY <1>1, UncappedFacts
<1>3. Uncapped(d, e).cap[lane] = Uncapped(c, e).cap[lane]
  BY <1>1 DEF Uncapped, Configs
<1>4. QED
  BY <1>2, <1>3 DEF BaseWith, Bound

\* A raise reaches the arena that was full, lowers none, and leaves alone what does not
\* share its override.
LEMMA RaiseReachesArena ==
  ASSUME image \in Images, NEW c \in Configs, NEW e \in Arenas, e.arena \notin Keyed,
         NEW capacity \in Capacity, NEW grown \in Capacity, capacity < grown,
         NEW d, d = raise_capacity(c, e.arena, capacity, grown)
  PROVE  /\ d \in Configs
         /\ BaseWith(d, e) >= grown
         /\ \A f \in Arenas : BaseWith(c, f) <= BaseWith(d, f)
         /\ \A f \in Arenas : OverrideOf(LaneOf(f.arena)) # OverrideOf(LaneOf(e.arena)) =>
              BaseWith(d, f) = BaseWith(c, f)
<1> DEFINE lane == LaneOf(e.arena)
<1>1. lane \in Lane /\ image.derived[e] \in Capacity /\ image.resident[e] \in Capacity
  BY ImageFacts
<1>2. /\ d \in Configs /\ Above(c, d)
      /\ \/ d.floor[lane] >= grown
         \/ c.override[OverrideOf(lane)] # None /\ d.override[OverrideOf(lane)] >= grown
  BY <1>1, RaiseCapacity
<1>3. \A l \in Lane : OverrideOf(l) # OverrideOf(lane) =>
        /\ d.floor[l] = c.floor[l] /\ d.cap[l] = c.cap[l]
        /\ d.override[OverrideOf(l)] = c.override[OverrideOf(l)]
  BY <1>1, RaiseCapacity
<1>4. BaseWith(d, e) >= grown
  <2> DEFINE u == Uncapped(d, e)
  <2>1. u \in Configs /\ u.floor = d.floor /\ u.override = d.override /\ OverrideOf(lane) \in Lane
    BY <1>1, <1>2, UncappedFacts, Lanes
  <2>2. u.floor[lane] \in Capacity /\ u.override[OverrideOf(lane)] \in Option /\ u.cap[lane] \in Option
    BY <1>1, <2>1 DEF Configs
  <2>3. (c.override[OverrideOf(lane)] = None) <=> (u.override[OverrideOf(lane)] = None)
    BY <1>2, <2>1 DEF Above
  <2>4. u.floor[lane] >= grown
          \/ (u.override[OverrideOf(lane)] # None /\ u.override[OverrideOf(lane)] >= grown)
    BY <1>2, <2>1, <2>3
  <2>5. MaxUsize \in Nat
    BY Numbers
  <2> HIDE DEF u
  <2>6. Bound(u, lane, image.derived[e], image.resident[e]) >= grown
    <3> DEFINE o == OverrideOf(lane)
               x == image.derived[e]
               r == image.resident[e]
    <3>1. x \in Capacity /\ r \in Capacity /\ u.override[o] \in Option
            /\ (u.floor[lane] >= grown \/ (u.override[o] # None /\ u.override[o] >= grown))
      BY SMTT(30), <1>1, <2>2, <2>4
    <3> HIDE DEF o, x, r, lane
    <3>2. Bound(u, lane, x, r) >= grown
      BY SMTT(30), <2>2, <2>5, <3>1 DEF Bound, bound_derived_capacity, o, AtLeast, AtMost, Option, Capacity, None
    <3>3. QED
      BY <3>2 DEF x, r
  <2>7. QED
    BY <2>6 DEF BaseWith, u
<1>5. ASSUME NEW f \in Arenas, OverrideOf(LaneOf(f.arena)) # OverrideOf(lane)
      PROVE  BaseWith(d, f) = BaseWith(c, f)
  <2>1. LaneOf(f.arena) \in Lane
    BY ImageFacts
  <2>2. QED
    BY <1>2, <1>3, <1>5, <2>1, BaseIsLocal
<1>6. QED
  BY <1>2, <1>4, <1>5, BaseIsMonotone
=============================================================================
