-------------------------- MODULE SafeHorizonProofs --------------------------
(***************************************************************************)
(* The round executor implements CausalCalendar and its internal error     *)
(* checks never fire, for every set of LPs, every deterministic handler,   *)
(* every positive lookahead and every well-formed image.                   *)
(***************************************************************************)
EXTENDS SafeHorizon, TransitionsProofs, WellFoundedInduction

\* The numbers the constants are.
LEMMA Constants ==
  /\ MaxTime \in Nat
  /\ Lookahead \in Nat /\ Lookahead >= 1
  /\ RunEnd \in Nat /\ RunEnd <= MaxTime + 1
BY TimeAssumption, LookaheadAssumption, RunEndAssumption
   DEF TimeAssumption, LookaheadAssumption, RunEndAssumption

\* A nonempty set of natural numbers has a least element.
LEMMA LeastNatural ==
  ASSUME NEW T, T \subseteq Nat, T # {}
  PROVE  \E x \in T : \A y \in T : x <= y
<1> DEFINE R == {p \in Nat \X Nat : p[1] < p[2]}
<1>1. IsWellFoundedOn(R, Nat)
  <2>1. R = OpToRel(<, Nat)
    BY DEF OpToRel
  <2>2. QED
    BY <2>1, NatLessThanWellFounded, Zenon
<1>2. PICK x \in T : \A y \in T : ~(<<y, x>> \in R)
  <2> HIDE DEF R
  <2> QED
    BY <1>1, WFMin, Zenon
<1>3. ASSUME NEW y \in T PROVE x <= y
  <2>1. ~(<<y, x>> \in R) /\ x \in Nat /\ y \in Nat
    BY <1>2
  <2>2. ~(y < x)
    BY <2>1
  <2>3. QED
    BY <2>1, <2>2
<1>4. QED
  BY <1>3

\* A nonempty queue has a least time, and it is at most that of each event.
LEMMA HasMinTime ==
  ASSUME NEW S, S \subseteq Event, NEW e \in S
  PROVE  \E t \in Time : IsMinTime(t, S) /\ t <= e.key.time_ns
<1>1. \A f \in S : f.key.time_ns \in Time
  BY DEF Event, EventKey
<1>2. Times(S) \subseteq Time /\ e.key.time_ns \in Times(S)
  BY <1>1 DEF Times
<1>3. Times(S) \subseteq Nat
  BY <1>2, Constants DEF Time
<1>4. PICK t \in Times(S) : \A u \in Times(S) : t <= u
  BY <1>2, <1>3, LeastNatural
<1>5. QED
  BY <1>2, <1>4 DEF IsMinTime

\* The round's horizon lies past the frontier, by at most the lookahead, and
\* within the run.
LEMMA HorizonBounds ==
  ASSUME NEW t \in Time, t < RunEnd
  PROVE  /\ RoundHorizon(t) \in 0 .. MaxTime + 1
         /\ t < RoundHorizon(t)
         /\ RoundHorizon(t) <= t + Lookahead
         /\ RoundHorizon(t) <= RunEnd
BY Constants DEF RoundHorizon, Time

\* peek_min discards superseded entries only.
LEMMA PeekedLive ==
  ASSUME NEW heap, heap \subseteq Entry
  PROVE  /\ Peeked(heap) \subseteq heap
         /\ \A entry \in heap : Live(entry) => entry \in Peeked(heap)
<1>1. \A entry \in Entry : ~EntryLess(entry, entry)
  <2> SUFFICES ASSUME NEW entry \in Entry PROVE ~EntryLess(entry, entry)
    OBVIOUS
  <2>1. entry.time_ns \in Time /\ entry.node \in Node /\ entry.generation \in Nat
    BY DEF Entry
  <2>2. entry.time_ns \in Nat
    BY <2>1, Constants DEF Time
  <2>3. entry.node \in Nat
    BY <2>1, NodeAssumption, Zenon DEF NodeAssumption
  <2>4. QED
    BY <2>1, <2>2, <2>3 DEF EntryLess
<1>2. QED
  BY <1>1 DEF Peeked

\* Republishing the LPs of ns makes the index exact for them and leaves the
\* live entries of the others alone.
LEMMA UpdateExact ==
  ASSUME TypeOK, NEW ns, ns \subseteq Node, NEW F \in [Node -> SUBSET Event],
         \A entry \in frontier : entry.generation <= generations[entry.node],
         UpdateFrontier(ns, F)
  PROVE  /\ frontier' \subseteq Entry
         /\ generations' \in [Node -> Nat]
         /\ \A entry \in frontier' : entry.generation <= generations'[entry.node]
         /\ \A m \in Node \ ns, t \in Time : Published(m, t)' <=> Published(m, t)
         /\ \A m \in ns, t \in Time : Published(m, t)' <=> IsMinTime(t, F[m])
<1>1. /\ generations' = [n \in Node |-> IF n \in ns THEN generations[n] + 1 ELSE generations[n]]
      /\ frontier' = frontier \cup EntriesFor(ns, F)
  BY DEF UpdateFrontier
<1>2. generations \in [Node -> Nat] /\ frontier \subseteq Entry
  BY DEF TypeOK
<1>3. \A n \in Node : generations[n] \in Nat
  BY <1>2
<1>4. generations' \in [Node -> Nat]
  BY <1>1, <1>3
<1>5. \A entry \in frontier : entry.node \in Node /\ entry.generation \in Nat
  BY <1>2 DEF Entry
<1>6. ASSUME NEW entry \in EntriesFor(ns, F)
      PROVE  /\ entry \in Entry
             /\ entry.node \in ns
             /\ entry.generation = generations'[entry.node]
             /\ IsMinTime(entry.time_ns, F[entry.node])
  <2>1. PICK p \in Time \X ns :
          /\ entry = [time_ns |-> p[1], node |-> p[2], generation |-> generations[p[2]] + 1]
          /\ IsMinTime(p[1], F[p[2]])
    BY <1>6 DEF EntriesFor
  <2>2. p[1] \in Time /\ p[2] \in ns /\ p[2] \in Node
    BY <2>1
  <2>3. QED
    BY <2>1, <2>2, <1>1, <1>3 DEF Entry
<1>7. ASSUME NEW m \in ns, NEW t \in Time, IsMinTime(t, F[m])
      PROVE  \E entry \in EntriesFor(ns, F) : entry.node = m /\ entry.time_ns = t
  <2> DEFINE p == <<t, m>>
             entry == [time_ns |-> p[1], node |-> p[2], generation |-> generations[p[2]] + 1]
  <2>1. p \in {q \in Time \X ns : IsMinTime(q[1], F[q[2]])}
    BY <1>7
  <2>2. entry \in EntriesFor(ns, F)
    BY <2>1 DEF EntriesFor
  <2>3. QED
    BY <2>2
<1>8. \A entry \in frontier' : entry.generation <= generations'[entry.node]
  BY <1>1, <1>3, <1>4, <1>5, <1>6
<1>9. \A entry : entry \in LiveEntries' <=>
                   entry \in frontier' /\ generations'[entry.node] = entry.generation
  BY DEF LiveEntries, Live
<1>10. \A entry : entry \in LiveEntries <=>
                    entry \in frontier /\ generations[entry.node] = entry.generation
  BY DEF LiveEntries, Live
<1>11. \A m \in Node \ ns : \A entry : entry.node = m =>
         (entry \in LiveEntries' <=> entry \in LiveEntries)
  BY <1>1, <1>6, <1>9, <1>10
<1>12. \A m \in ns : \A entry : entry.node = m =>
         (entry \in LiveEntries' <=> entry \in EntriesFor(ns, F))
  BY <1>1, <1>3, <1>5, <1>6, <1>9
<1>13. frontier' \subseteq Entry
  BY <1>1, <1>2, <1>6
<1>14. \A m \in Node \ ns, t \in Time : Published(m, t)' <=> Published(m, t)
  BY <1>11 DEF Published
<1>15. \A m \in ns, t \in Time : Published(m, t)' <=> IsMinTime(t, F[m])
  BY <1>6, <1>7, <1>12 DEF Published
<1>16. QED
  BY <1>4, <1>8, <1>13, <1>14, <1>15

-----------------------------------------------------------------------------
(* The inductive invariant, one lemma per action. *)

\* RoundExecutor::new builds an exact index.
LEMMA InitInvariant == Init => IInv
<1> SUFFICES ASSUME Init PROVE IInv
  OBVIOUS
<1>1. PICK image \in Images :
        /\ lp = image.lp
        /\ next_seq = image.next_seq
        /\ executed = {}
        /\ futures = [n \in Node |-> EventsFor(image.events, n)]
        /\ pending_keys = {e.key : e \in image.events}
        /\ generations = [n \in Node |-> IF EventsFor(image.events, n) = {} THEN 0 ELSE 1]
        /\ frontier = {[time_ns |-> p[1], node |-> p[2], generation |-> 1] :
                         p \in {q \in Time \X Node :
                                  IsMinTime(q[1], EventsFor(image.events, q[2]))}}
        /\ horizon = 0
        /\ active = {}
        /\ draining = {}
        /\ continuation = {}
        /\ outbox = {}
        /\ pc = "peek"
  BY SMTT(30) DEF Init
<1>2. image \in ImageType /\ WellFormedImage(image)
  BY ImagesAssumption DEF ImagesAssumption
<1>3. \A e \in image.events : e \in Event /\ e.target \in Node
  BY <1>2 DEF ImageType, Event
<1>4. pending = image.events
  BY <1>1, <1>3 DEF pending, EventsFor
<1>5. \A entry \in frontier :
        /\ entry \in Entry
        /\ entry.generation = 1
        /\ IsMinTime(entry.time_ns, EventsFor(image.events, entry.node))
  <2> SUFFICES ASSUME NEW entry \in frontier
               PROVE  /\ entry \in Entry
                      /\ entry.generation = 1
                      /\ IsMinTime(entry.time_ns, EventsFor(image.events, entry.node))
    OBVIOUS
  <2>1. PICK p \in Time \X Node :
          /\ entry = [time_ns |-> p[1], node |-> p[2], generation |-> 1]
          /\ IsMinTime(p[1], EventsFor(image.events, p[2]))
    BY <1>1
  <2>2. p[1] \in Time /\ p[2] \in Node
    BY <2>1
  <2>3. QED
    BY <2>1, <2>2 DEF Entry
<1>6. \A entry \in frontier : generations[entry.node] = 1
  <2> SUFFICES ASSUME NEW entry \in frontier PROVE generations[entry.node] = 1
    OBVIOUS
  <2>1. EventsFor(image.events, entry.node) # {} /\ entry.node \in Node
    BY <1>5 DEF IsMinTime, Times, Entry
  <2>2. QED
    BY <2>1, <1>1
<1>7. TypeOK
  <2>1. lp \in [Node -> State] /\ next_seq \in [Node -> Nat] /\ generations \in [Node -> Nat]
    BY <1>1, <1>2 DEF ImageType
  <2>2. futures \in [Node -> SUBSET Event] /\ pending_keys \subseteq EventKey
    BY <1>1, <1>3 DEF EventsFor, Event
  <2>3. frontier \subseteq Entry /\ horizon \in 0 .. MaxTime + 1
    BY <1>1, <1>5, Constants
  <2>4. QED
    BY SMTT(30), <1>1, <2>1, <2>2, <2>3 DEF TypeOK
<1>8. Phases /\ ContinuationFirst /\ RoundSafe /\ HorizonIsSafe
  BY <1>1 DEF Phases, ContinuationFirst, RoundSafe, HorizonIsSafe
<1>9. Placed
  BY <1>1, <1>2, <1>4 DEF Placed, WellFormedImage, EventsFor
<1>10. IndexExact
  <2>1. \A entry \in frontier : entry.generation <= generations[entry.node]
    BY <1>5, <1>6
  <2>2. LiveEntries = frontier
    BY <1>5, <1>6 DEF LiveEntries, Live
  <2>3. ASSUME NEW n \in Node, NEW t \in Time
        PROVE  Published(n, t) <=> IsMinTime(t, futures[n])
    <3>1. futures[n] = EventsFor(image.events, n)
      BY <1>1
    <3>2. ASSUME IsMinTime(t, futures[n])
          PROVE  Published(n, t)
      <4> DEFINE p == <<t, n>>
                 entry == [time_ns |-> p[1], node |-> p[2], generation |-> 1]
      <4>1. p \in {q \in Time \X Node : IsMinTime(q[1], EventsFor(image.events, q[2]))}
        BY <3>1, <3>2
      <4>2. entry \in frontier
        BY <4>1, <1>1
      <4>3. QED
        BY <4>2, <2>2 DEF Published
    <3>3. QED
      BY <3>1, <3>2, <2>2, <1>5 DEF Published
  <2>4. QED
    BY <2>1, <2>3 DEF IndexExact
<1>11. PendingKeysExact
  BY <1>1, <1>4 DEF PendingKeysExact
<1>12. QED
  BY <1>7, <1>8, <1>9, <1>10, <1>11 DEF IInv

\* Opening a round: its horizon is at most the lookahead past every pending
\* event, and the LPs left out hold nothing below it.
LEMMA StartRoundInvariant ==
  ASSUME IInv, StartRound
  PROVE  IInv'
<1> USE DEF IInv
<1>1. PICK entry \in frontier :
        /\ IsLeast(entry, LiveEntries)
        /\ entry.time_ns < RunEnd
        /\ horizon' = RoundHorizon(entry.time_ns)
        /\ active' = {other \in LiveEntries : other.time_ns < horizon'}
        /\ frontier' = Peeked(frontier \ active')
  BY DEF StartRound
<1>2. /\ pc = "peek" /\ pc' = "drain"
      /\ UNCHANGED <<lp, next_seq, executed, generations, futures, pending_keys,
                     draining, continuation, outbox>>
  BY DEF StartRound, lpVars
<1>3. draining = {} /\ active = {} /\ outbox = {} /\ continuation = {}
  BY <1>2 DEF Phases
<1>4. pending' = pending /\ \A n \in Node : ~Busy(n)
  BY <1>2, <1>3 DEF pending, Busy
<1>5. frontier \subseteq Entry /\ LiveEntries \subseteq frontier /\ entry.time_ns \in Time
  BY <1>1 DEF TypeOK, LiveEntries, Entry
<1>6. /\ horizon' \in 0 .. MaxTime + 1
      /\ horizon' <= entry.time_ns + Lookahead
      /\ horizon' <= RunEnd
  BY <1>1, <1>5, HorizonBounds
<1>7. ASSUME NEW n \in Node, NEW e \in futures[n]
      PROVE  \E other \in LiveEntries : other.node = n /\ other.time_ns <= e.key.time_ns
  <2>1. futures[n] \subseteq Event
    BY DEF TypeOK
  <2>2. PICK t \in Time : IsMinTime(t, futures[n]) /\ t <= e.key.time_ns
    BY <2>1, HasMinTime
  <2>3. Published(n, t)
    BY <2>2, <1>4 DEF IndexExact
  <2>4. QED
    BY <2>2, <2>3 DEF Published
<1>8. \A n \in Node : \A e \in futures[n] : e.key.time_ns \in Nat
  BY KeyFields DEF TypeOK, Event
<1>9. \A other \in LiveEntries : other.time_ns \in Nat /\ entry.time_ns <= other.time_ns
  <2> SUFFICES ASSUME NEW other \in LiveEntries
               PROVE  other.time_ns \in Nat /\ entry.time_ns <= other.time_ns
    OBVIOUS
  <2>1. other.time_ns \in Time
    BY <1>5 DEF Entry
  <2>2. other.time_ns \in Nat /\ entry.time_ns \in Nat
    BY <2>1, <1>5, Constants DEF Time
  <2>3. QED
    BY <2>2, <1>1 DEF IsLeast, EntryLess
<1>10. TypeOK'
  <2>1. frontier' \subseteq Entry /\ active' \subseteq Entry
    BY <1>1, <1>5, PeekedLive
  <2>2. QED
    BY <1>2, <1>6, <2>1 DEF TypeOK
<1>11. Phases' /\ ContinuationFirst' /\ HorizonIsSafe'
  BY <1>2, <1>3 DEF Phases, ContinuationFirst, HorizonIsSafe
<1>12. Placed' /\ PendingKeysExact'
  BY <1>2, <1>4 DEF Placed, PendingKeysExact
<1>13. RoundSafe'
  <2>1. ASSUME NEW f \in pending PROVE horizon' <= f.key.time_ns + Lookahead
    <3>1. PICK n \in Node : f \in futures[n]
      BY <1>3 DEF pending
    <3>2. PICK other \in LiveEntries : other.time_ns <= f.key.time_ns
      BY <3>1, <1>7
    <3>3. QED
      BY SMTT(30), <3>1, <3>2, <1>5, <1>6, <1>8, <1>9, Constants DEF Time
  <2>2. ASSUME NEW n \in Node, ~Busy(n)', NEW e \in futures[n]
        PROVE  horizon' <= e.key.time_ns
    <3>1. PICK other \in LiveEntries : other.node = n /\ other.time_ns <= e.key.time_ns
      BY <1>7
    <3>2. ~(other.time_ns < horizon')
      BY SMTT(30), <2>2, <3>1, <1>1 DEF Busy
    <3>3. QED
      BY SMTT(30), <3>1, <3>2, <1>6, <1>8, <1>9, Constants
  <2>3. QED
    BY SMTT(30), <1>2, <1>3, <1>4, <1>6, <2>1, <2>2 DEF RoundSafe
<1>14. IndexExact'
  <2>1. \A other \in frontier' : other.generation <= generations'[other.node]
    BY <1>1, <1>2, <1>5, PeekedLive DEF IndexExact
  <2>2. \A other : other \in LiveEntries' <=> other \in LiveEntries \ active'
    <3>1. \A other : other \in LiveEntries' <=> other \in frontier' /\ Live(other)
      BY <1>2 DEF LiveEntries, Live
    <3>2. QED
      BY <3>1, <1>1, <1>5, PeekedLive DEF LiveEntries
  <2>3. ASSUME NEW n \in Node, ~Busy(n)', NEW t \in Time
        PROVE  Published(n, t)' <=> Published(n, t)
    <3>1. \A other \in active' : other.node # n
      BY <2>3 DEF Busy
    <3>2. QED
      BY <2>2, <3>1 DEF Published
  <2>4. QED
    BY SMTT(30), <2>1, <2>3, <1>2, <1>4 DEF IndexExact
<1>15. QED
  BY <1>10, <1>11, <1>12, <1>13, <1>14

\* Leaving the loop changes no event.
LEMMA FinishRunInvariant ==
  ASSUME IInv, FinishRun
  PROVE  IInv' /\ pending' = pending
<1> USE DEF IInv
<1>1. /\ pc = "peek" /\ pc' = "done"
      /\ frontier' = Peeked(frontier)
      /\ UNCHANGED <<lp, next_seq, executed, generations, futures, pending_keys, horizon,
                     active, draining, continuation, outbox>>
  BY SMTT(30) DEF FinishRun, lpVars
<1>2. pending' = pending
  BY <1>1 DEF pending
<1>3. frontier \subseteq Entry /\ frontier' \subseteq frontier
  BY <1>1, PeekedLive DEF TypeOK
<1>4. LiveEntries' = LiveEntries
  BY <1>1, <1>3, PeekedLive DEF LiveEntries, Live
<1>5. TypeOK'
  BY <1>1, <1>3 DEF TypeOK
<1>6. IndexExact'
  BY <1>1, <1>3, <1>4 DEF IndexExact, Busy, Published
<1>7. QED
  BY <1>1, <1>2, <1>5, <1>6
     DEF Phases, Placed, ContinuationFirst, RoundSafe, PendingKeysExact, HorizonIsSafe

\* An LP stays busy when its turn comes.
LEMMA PickLpInvariant ==
  ASSUME IInv, PickLp
  PROVE  IInv' /\ pending' = pending
<1> USE DEF IInv
<1>1. PICK entry \in active : draining' = {entry.node} /\ active' = active \ {entry}
  BY DEF PickLp
<1>2. /\ pc = "drain" /\ draining = {}
      /\ UNCHANGED <<lp, next_seq, executed, frontier, generations, futures, pending_keys,
                     horizon, continuation, outbox, pc>>
  BY DEF PickLp, lpVars, indexVars
<1>3. pending' = pending /\ LiveEntries' = LiveEntries /\ continuation = {}
  BY <1>2 DEF pending, LiveEntries, Live, Phases
<1>4. \A n : Busy(n)' <=> Busy(n)
  BY <1>1, <1>2 DEF Busy
<1>5. TypeOK'
  BY <1>1, <1>2 DEF TypeOK, Entry
<1>6. IndexExact'
  BY SMTT(30), <1>2, <1>3, <1>4 DEF IndexExact, Published
<1>7. RoundSafe'
  BY <1>2, <1>3, <1>4 DEF RoundSafe
<1>8. Placed' /\ PendingKeysExact' /\ HorizonIsSafe'
  BY <1>2, <1>3 DEF Placed, PendingKeysExact, HorizonIsSafe
<1>9. Phases' /\ ContinuationFirst'
  BY <1>1, <1>2, <1>3 DEF Phases, ContinuationFirst
<1>10. QED
  BY <1>3, <1>5, <1>6, <1>7, <1>8, <1>9

\* An LP that has been drained is published again, and its index entry is exact.
LEMMA DrainDoneInvariant ==
  ASSUME IInv, NEW n \in Node, DrainDone(n)
  PROVE  IInv' /\ pending' = pending
<1> USE DEF IInv
<1>1. /\ pc = "drain" /\ draining = {n} /\ continuation = {}
      /\ \A e \in futures[n] : e.key.time_ns >= horizon
      /\ draining' = {}
      /\ UpdateFrontier({n}, futures)
      /\ UNCHANGED <<lp, next_seq, executed, futures, pending_keys, horizon, active,
                     continuation, outbox, pc>>
  BY DEF DrainDone, lpVars
<1>2. pending' = pending
  BY <1>1 DEF pending
<1>3. futures \in [Node -> SUBSET Event]
  BY DEF TypeOK
<1>4. \A entry \in frontier : entry.generation <= generations[entry.node]
  BY DEF IndexExact
<1>5. /\ frontier' \subseteq Entry
      /\ generations' \in [Node -> Nat]
      /\ \A entry \in frontier' : entry.generation <= generations'[entry.node]
      /\ \A m \in Node \ {n}, t \in Time : Published(m, t)' <=> Published(m, t)
      /\ \A m \in {n}, t \in Time : Published(m, t)' <=> IsMinTime(t, futures[m])
  <2>1. {n} \subseteq Node
    OBVIOUS
  <2>2. QED
    BY <2>1, <1>1, <1>3, <1>4, UpdateExact, Zenon
<1>6. \A m \in Node : m # n => (Busy(m)' <=> Busy(m))
  BY SMTT(30), <1>1 DEF Busy
<1>7. TypeOK'
  BY SMTT(30), <1>1, <1>5 DEF TypeOK
<1>8. IndexExact'
  BY SMTT(30), <1>1, <1>5, <1>6 DEF IndexExact
<1>9. RoundSafe'
  <2>1. ASSUME NEW m \in Node, ~Busy(m)', NEW e \in futures[m]
        PROVE  horizon <= e.key.time_ns
    <3>1. CASE m = n
      <4>1. e.key.time_ns \in Nat /\ horizon \in Nat
        BY SMTT(30), Constants, KeyFields DEF TypeOK, Event
      <4>2. QED
        BY <3>1, <4>1, <1>1
    <3>2. CASE m # n
      BY SMTT(30), <2>1, <3>2, <1>1, <1>6 DEF RoundSafe
    <3>3. QED
      BY <3>1, <3>2
  <2>2. QED
    BY <2>1, <1>1, <1>2 DEF RoundSafe
<1>10. Placed' /\ PendingKeysExact' /\ HorizonIsSafe'
  BY <1>1, <1>2 DEF Placed, PendingKeysExact, HorizonIsSafe
<1>11. Phases' /\ ContinuationFirst'
  BY <1>1 DEF Phases, ContinuationFirst
<1>12. QED
  BY SMTT(30), <1>2, <1>7, <1>8, <1>9, <1>10, <1>11

\* After the last LP the index shows nothing below the horizon.
LEMMA CheckDrainedInvariant ==
  ASSUME IInv, CheckDrained
  PROVE  IInv' /\ pending' = pending /\ pc' # "DispatchError"
<1> USE DEF IInv
<1>1. /\ pc = "drain" /\ draining = {} /\ active = {}
      /\ pc' = IF \E entry \in LiveEntries : entry.time_ns < horizon
               THEN "EventBelowHorizonAfterDrain" ELSE "exchange"
      /\ frontier' = Peeked(frontier)
      /\ UNCHANGED <<lp, next_seq, executed, generations, futures, pending_keys, horizon,
                     active, draining, continuation, outbox>>
  BY DEF CheckDrained, lpVars
<1>2. pending' = pending /\ continuation = {} /\ \A n : ~Busy(n) /\ ~Busy(n)'
  BY <1>1 DEF pending, Busy, Phases
<1>3. frontier \subseteq Entry /\ frontier' \subseteq frontier
  BY <1>1, PeekedLive DEF TypeOK
<1>4. LiveEntries' = LiveEntries
  BY <1>1, <1>3, PeekedLive DEF LiveEntries, Live
<1>5. ASSUME NEW entry \in LiveEntries PROVE ~(entry.time_ns < horizon)
  <2>1. entry.node \in Node /\ entry.time_ns \in Time
    BY <1>3 DEF LiveEntries, Entry
  <2>2. IsMinTime(entry.time_ns, futures[entry.node])
    BY <2>1, <1>2 DEF IndexExact, Published
  <2>3. PICK e \in futures[entry.node] : e.key.time_ns = entry.time_ns
    BY <2>2 DEF IsMinTime, Times
  <2>4. horizon <= entry.time_ns
    BY <2>1, <2>3, <1>1, <1>2 DEF RoundSafe
  <2>5. horizon \in Nat /\ entry.time_ns \in Nat
    BY <2>1, Constants DEF TypeOK, Time
  <2>6. QED
    BY <2>4, <2>5
<1>6. pc' = "exchange"
  BY SMTT(30), <1>1, <1>5
<1>7. TypeOK' /\ Phases' /\ ContinuationFirst' /\ HorizonIsSafe'
  BY <1>1, <1>2, <1>3, <1>6 DEF TypeOK, Phases, ContinuationFirst, HorizonIsSafe
<1>8. IndexExact' /\ RoundSafe'
  <2>1. \A m, t : Published(m, t)' <=> Published(m, t)
    BY SMTT(30), <1>4 DEF Published
  <2>2. QED
    BY <1>1, <1>2, <1>3, <1>6, <2>1, Zenon DEF IndexExact, RoundSafe
<1>9. Placed' /\ PendingKeysExact'
  BY <1>1, <1>2 DEF Placed, PendingKeysExact
<1>10. QED
  BY <1>2, <1>6, <1>7, <1>8, <1>9

\* Where a pending event can be.
LEMMA PendingAnywhere ==
  \A e : e \in pending <=> \/ \E n \in Node : e \in futures[n]
                           \/ e \in outbox
                           \/ e \in continuation
<1>1. \A e : e \in UNION {futures[n] : n \in Node} <=> \E n \in Node : e \in futures[n]
  OBVIOUS
<1>2. QED
  BY <1>1 DEF pending

\* The exchange moves the outboxes into the queues: nothing in them is below
\* the horizon or already queued.
LEMMA ExchangeInvariant ==
  ASSUME IInv, Exchange
  PROVE  IInv' /\ pending' = pending /\ UNCHANGED <<lp, next_seq, executed>> /\ pc' = "peek"
<1> USE DEF IInv
<1> DEFINE F  == [n \in Node |-> futures[n] \cup EventsFor(outbox, n)]
           ns == {e.target : e \in outbox}
<1>1. pc = "exchange" /\ draining = {} /\ active = {} /\ continuation = {}
  BY DEF Exchange, Phases
<1>2. \A e \in outbox : e \in Event /\ e \in pending /\ e.target \in Node
  <2>1. \A e \in outbox : e \in Event /\ e.target \in Node
    BY DEF TypeOK, Event
  <2>2. QED
    BY <2>1, PendingAnywhere
<1>3. \A e \in outbox : ~(e.key.time_ns < horizon)
  <2> SUFFICES ASSUME NEW e \in outbox PROVE ~(e.key.time_ns < horizon)
    OBVIOUS
  <2>1. horizon <= e.key.time_ns
    BY <1>1 DEF RoundSafe
  <2>2. horizon \in Nat /\ e.key.time_ns \in Nat
    BY SMTT(30), <1>2, Constants, KeyFields DEF TypeOK, Event
  <2>3. QED
    BY <2>1, <2>2
<1>4. \A e \in outbox : \A f \in futures[e.target] : f.key # e.key
  <2> SUFFICES ASSUME NEW e \in outbox, NEW f \in futures[e.target], f.key = e.key
               PROVE  FALSE
    OBVIOUS
  <2>1. f \in pending /\ e \in pending
    BY <1>2 DEF pending
  <2>2. e = f
    BY SMTT(30), <2>1 DEF Placed
  <2>3. QED
    BY <2>2 DEF Placed
<1>5. /\ futures' = F
      /\ UpdateFrontier(ns, F)
      /\ outbox' = {}
      /\ pc' = "peek"
      /\ UNCHANGED <<lp, next_seq, executed, pending_keys, horizon, active, draining,
                     continuation>>
  BY <1>3, <1>4 DEF Exchange, lpVars
<1>6. pending' = pending
  <2>1. \A e : e \in pending' <=> \E n \in Node : e \in futures[n] \/ e \in EventsFor(outbox, n)
    BY <1>1, <1>5 DEF pending
  <2>2. \A e : e \in pending <=> (\E n \in Node : e \in futures[n]) \/ e \in outbox
    BY <1>1, PendingAnywhere
  <2>3. \A e : e \in outbox <=> \E n \in Node : e \in EventsFor(outbox, n)
    BY <1>2 DEF EventsFor
  <2>4. \A e : e \in pending' <=> e \in pending
    BY SMTT(30), <2>1, <2>2, <2>3
  <2>5. QED
    BY <2>4
<1>7. F \in [Node -> SUBSET Event] /\ ns \subseteq Node
  BY <1>2 DEF TypeOK, EventsFor
<1>8. \A n \in Node \ ns : F[n] = futures[n]
  BY DEF EventsFor
<1>9. /\ frontier' \subseteq Entry
      /\ generations' \in [Node -> Nat]
      /\ \A entry \in frontier' : entry.generation <= generations'[entry.node]
      /\ \A m \in Node \ ns, t \in Time : Published(m, t)' <=> Published(m, t)
      /\ \A m \in ns, t \in Time : Published(m, t)' <=> IsMinTime(t, F[m])
  <2>1. \A entry \in frontier : entry.generation <= generations[entry.node]
    BY DEF IndexExact
  <2> HIDE DEF F, ns
  <2>2. QED
    BY <2>1, <1>5, <1>7, UpdateExact, ZenonT(30)
<1>10. \A n : ~Busy(n) /\ ~Busy(n)'
  BY SMTT(30), <1>1, <1>5 DEF Busy
<1>11. TypeOK'
  BY SMTT(30), <1>5, <1>7, <1>9 DEF TypeOK
<1>12. IndexExact'
  <2>1. \A m \in Node, t \in Time : Published(m, t)' <=> IsMinTime(t, F[m])
    <3> HIDE DEF F, ns
    <3>1. QED
      BY SMTT(30), <1>8, <1>9, <1>10 DEF IndexExact
  <2>2. QED
    BY SMTT(30), <2>1, <1>5, <1>9 DEF IndexExact
<1>13. Placed'
  <2>1. \A n \in Node : \A e \in futures'[n] : e.target = n
    BY SMTT(30), <1>5 DEF Placed, EventsFor
  <2>2. QED
    BY SMTT(30), <2>1, <1>5, <1>6 DEF Placed
<1>14. Phases' /\ ContinuationFirst' /\ HorizonIsSafe' /\ PendingKeysExact' /\ RoundSafe'
  BY SMTT(30), <1>1, <1>5, <1>6
     DEF Phases, ContinuationFirst, HorizonIsSafe, PendingKeysExact, RoundSafe
<1>15. QED
  BY SMTT(30), <1>5, <1>6, <1>11, <1>12, <1>13, <1>14

-----------------------------------------------------------------------------
(* One iteration of drain_lp. *)

\* What a dispatch of e at n reads and produces.
Own(n, e)  == futures[n] \ {e}
Out(n, e)  == OutcomeOf(lp[n], e)
Born(n, e) == Children(n, next_seq[n], Out(n, e).emits)
Dead(n, e) == Cancelled(Own(n, e), n, Out(n, e).superseded)
Direct(n, e) == DirectChild(e, Born(n, e), Own(n, e) \ Dead(n, e))

\* The event that drain_lp takes is the first pending one of its LP, below the
\* horizon, and nowhere else in flight.
LEMMA DrainedNext ==
  ASSUME IInv, NEW n \in Node, NEW e \in futures[n] \cup continuation, pc = "drain",
         draining = {n}, DrainsNext(e, futures[n], continuation, horizon)
  PROVE  /\ e \in Event /\ e \in pending /\ e.target = n
         /\ e.key.time_ns < horizon
         /\ e \notin outbox
         /\ \A m \in Node \ {n} : e \notin futures[m]
         /\ continuation \subseteq {e}
         /\ \A f \in futures[n] \ {e} : Earlier(e, f)
<1> USE DEF IInv
<1>1. e \in Event /\ e \in pending
  BY PendingAnywhere DEF TypeOK
<1>2. CASE continuation = {e}
  BY <1>1, <1>2 DEF ContinuationFirst, Placed
<1>3. CASE continuation = {} /\ IsFirst(e, futures[n]) /\ e.key.time_ns < horizon
  BY SMTT(30), <1>1, <1>3 DEF Placed, IsFirst
<1>4. QED
  BY <1>2, <1>3 DEF DrainsNext

\* A successful dispatch: its children are later than e, remote ones past the
\* horizon, and their keys are fresh.
LEMMA DrainedChildren ==
  ASSUME IInv, NEW n \in Node, NEW e \in Event, e \in pending, e.target = n, pc = "drain",
         Succeeds(lp[n], next_seq[n], e, Own(n, e))
  PROVE  /\ Out(n, e) \in Outcome
         /\ Len(Out(n, e).emits) \in Nat
         /\ \A c \in Born(n, e) :
              /\ c \in Event /\ c.target \in Node
              /\ Earlier(e, c)
              /\ c.key.origin_node = n
              /\ e.key.time_ns <= c.key.time_ns
              /\ c.target # n => horizon <= c.key.time_ns
              /\ horizon <= c.key.time_ns + Lookahead
              /\ c.key.origin_seq >= next_seq[n]
              /\ c.key.origin_seq < next_seq[n] + Len(Out(n, e).emits)
              /\ \A f \in pending : f.key # c.key
         /\ \A c, d \in Born(n, e) : c.key = d.key => c = d
<1> USE DEF IInv
<1>1. lp[n] \in State /\ next_seq[n] \in Nat
  BY SMTT(30) DEF TypeOK
<1>2. Out(n, e) \in Outcome
  BY SMTT(30), <1>1, OutcomeOfType DEF Out
<1>3. Len(Out(n, e).emits) \in Nat
  BY <1>2 DEF Outcome
<1>4. ASSUME NEW c \in Born(n, e)
      PROVE  /\ c \in Event /\ c.target \in Node
             /\ Earlier(e, c)
             /\ c.key.origin_node = n
             /\ e.key.time_ns <= c.key.time_ns
             /\ c.target # n => horizon <= c.key.time_ns
             /\ horizon <= c.key.time_ns + Lookahead
             /\ c.key.origin_seq >= next_seq[n]
             /\ c.key.origin_seq < next_seq[n] + Len(Out(n, e).emits)
             /\ \A f \in pending : f.key # c.key
  <2>1. /\ c \in Event
        /\ c.key.origin_node = n
        /\ c.target # n => c.key.time_ns >= e.key.time_ns + Lookahead
        /\ c.key.origin_seq >= next_seq[n]
        /\ c.key.origin_seq < next_seq[n] + Len(Out(n, e).emits)
    <3>1. c \in Children(e.target, next_seq[n], OutcomeOf(lp[n], e).emits)
      BY SMTT(30), <1>4 DEF Born, Out
    <3>2. QED
      BY SMTT(30), <3>1, <1>1, ChildrenOf DEF Out
  <2>2. Earlier(e, c)
    BY SMTT(30) DEF Succeeds, Monotone, Born, Out
  <2>3. e.key.time_ns <= c.key.time_ns
    BY SMTT(30), <2>1, <2>2, EarlierTime
  <2>4. horizon <= e.key.time_ns + Lookahead
    BY SMTT(30) DEF RoundSafe
  <2>5. /\ horizon \in Nat /\ e.key.time_ns \in Nat /\ c.key.time_ns \in Nat
        /\ Lookahead \in Nat /\ c.key.origin_seq \in Nat /\ c.target \in Node
    BY SMTT(30), <2>1, Constants, KeyFields DEF TypeOK, Event
  <2>6. \A f \in pending : f.key # c.key
    <3> SUFFICES ASSUME NEW f \in pending, f.key = c.key PROVE FALSE
      BY SMTT(30)
    <3>1. f.key.origin_seq < next_seq[f.key.origin_node]
      BY SMTT(30) DEF Placed
    <3>2. c.key.origin_seq < next_seq[n]
      BY SMTT(30), <3>1, <2>1
    <3>3. c.key.origin_seq >= next_seq[n]
      BY SMTT(30), <2>1
    <3>4. QED
      BY SMTT(30), <3>2, <3>3, <2>5, <1>1
  <2>7. horizon <= c.key.time_ns + Lookahead
    BY SMTT(30), <2>3, <2>4, <2>5
  <2>8. c.target # n => horizon <= c.key.time_ns
    <3>1. c.target # n => c.key.time_ns >= e.key.time_ns + Lookahead
      BY SMTT(30), <2>1
    <3>2. QED
      BY SMTT(30), <3>1, <2>4, <2>5
  <2>9. QED
    BY <2>1, <2>2, <2>3, <2>5, <2>6, <2>7, <2>8, ZenonT(30)
<1>5. \A c, d \in Born(n, e) : c.key = d.key => c = d
  BY SMTT(30), <1>1, ChildrenDistinct DEF Born, Out
<1>6. QED
  BY <1>2, <1>3, <1>4, <1>5

\* The successful dispatch as an update of the executor.
DrainStep(n, e) ==
  /\ lp' = [lp EXCEPT ![n] = Out(n, e).state]
  /\ next_seq' = [next_seq EXCEPT ![n] = next_seq[n] + Len(Out(n, e).emits)]
  /\ executed' = executed \cup {e}
  /\ futures' = [futures EXCEPT ![n] =
       (Own(n, e) \ Dead(n, e)) \cup ({c \in Born(n, e) : c.target = n} \ Direct(n, e))]
  /\ pending_keys' = (pending_keys \ {f.key : f \in {e} \cup Dead(n, e)})
                       \cup {c.key : c \in Born(n, e)}
  /\ continuation' = Direct(n, e)
  /\ outbox' = outbox \cup {c \in Born(n, e) : c.target # n}
  /\ UNCHANGED <<frontier, generations, horizon, active, draining, pc>>

\* drain_lp either stops at a failed dispatch or takes the step: the check for
\* duplicate keys does not fire.
LEMMA DrainEventCases ==
  ASSUME IInv, NEW n \in Node, NEW e \in futures[n] \cup continuation, DrainEvent(n, e)
  PROVE  \/ ~Succeeds(lp[n], next_seq[n], e, Own(n, e)) /\ Fail("DispatchError")
         \/ Succeeds(lp[n], next_seq[n], e, Own(n, e)) /\ DrainStep(n, e)
<1>1. /\ pc = "drain" /\ draining = {n} /\ DrainsNext(e, futures[n], continuation, horizon)
      /\ e \in Event /\ e \in pending /\ e.target = n
  BY DrainedNext, Zenon DEF DrainEvent
<1>2. CASE ~Succeeds(lp[n], next_seq[n], e, Own(n, e))
  BY <1>2, Zenon DEF DrainEvent, Own
<1>3. CASE Succeeds(lp[n], next_seq[n], e, Own(n, e))
  <2> DEFINE next == Drained(lp[n], next_seq[n], e, Own(n, e))
             keys == pending_keys \ {f.key : f \in {e} \cup next.dropped}
  <2>1. /\ next.state = Out(n, e).state
        /\ next.seq = next_seq[n] + Len(Out(n, e).emits)
        /\ next.dropped = Dead(n, e)
        /\ next.children = Born(n, e)
        /\ next.continuation = Direct(n, e)
        /\ next.futures = (Own(n, e) \ Dead(n, e))
                             \cup ({c \in Born(n, e) : c.target = n} \ Direct(n, e))
        /\ next.remote = {c \in Born(n, e) : c.target # n}
    BY <1>1, Zenon DEF Drained, Out, Dead, Born, Direct
  <2>2. ~ \E c \in next.children : c.key \in keys
    <3> SUFFICES ASSUME NEW c \in Born(n, e), c.key \in pending_keys PROVE FALSE
      BY <2>1, ZenonT(30)
    <3>1. PICK f \in pending : f.key = c.key
      BY DEF IInv, PendingKeysExact
    <3>2. QED
      BY <3>1, <1>1, <1>3, DrainedChildren, Zenon
  <2>3. /\ lp' = [lp EXCEPT ![n] = next.state]
        /\ next_seq' = [next_seq EXCEPT ![n] = next.seq]
        /\ executed' = executed \cup {e}
        /\ futures' = [futures EXCEPT ![n] = next.futures]
        /\ pending_keys' = keys \cup {c.key : c \in next.children}
        /\ continuation' = next.continuation
        /\ outbox' = outbox \cup next.remote
        /\ UNCHANGED <<indexVars, horizon, active, draining, pc>>
    BY <2>2, <1>3, Zenon DEF DrainEvent, Own
  <2> HIDE DEF next
  <2>4. QED
    BY <1>3, <2>1, <2>3, Zenon DEF DrainStep, indexVars
<1>4. QED
  BY <1>2, <1>3

\* What the step does to the pending events, wherever they are.
LEMMA DrainedPending ==
  ASSUME IInv, NEW n \in Node, NEW e \in futures[n] \cup continuation, pc = "drain",
         draining = {n}, DrainsNext(e, futures[n], continuation, horizon),
         Succeeds(lp[n], next_seq[n], e, Own(n, e)), DrainStep(n, e)
  PROVE  /\ Dead(n, e) \subseteq Own(n, e)
         /\ \A c \in Direct(n, e) : c \in Born(n, e) /\ c.target = n
         /\ pending' = (pending \ ({e} \cup Dead(n, e))) \cup Born(n, e)
<1> USE DEF IInv
<1>1. /\ e \in Event /\ e.target = n /\ e \notin outbox
      /\ \A m \in Node \ {n} : e \notin futures[m]
      /\ continuation \subseteq {e}
  BY DrainedNext, Zenon
<1>2. Dead(n, e) \subseteq Own(n, e)
  BY ZenonT(30) DEF Dead, Cancelled, SupersededIn
<1>3. \A c \in Direct(n, e) : c \in Born(n, e) /\ c.target = n
  BY SMTT(30), <1>1 DEF Direct, DirectChild, IsContinuation
<1>4. \A f \in Dead(n, e) : f \in futures[n] /\ f.target = n /\ f \notin outbox
  BY SMTT(30), <1>2 DEF Own, Placed
<1>5. \A f \in Dead(n, e) : \A m \in Node \ {n} : f \notin futures[m]
  BY <1>4 DEF Placed
<1>6. /\ futures'[n] = (Own(n, e) \ Dead(n, e))
                          \cup ({c \in Born(n, e) : c.target = n} \ Direct(n, e))
      /\ \A m \in Node \ {n} : futures'[m] = futures[m]
  BY Zenon DEF DrainStep, TypeOK
<1>7. \A f : f \in pending' <=> \/ \E m \in Node : f \in futures'[m]
                                \/ f \in outbox'
                                \/ f \in continuation'
  <2>1. \A f : f \in UNION {futures'[m] : m \in Node} <=> \E m \in Node : f \in futures'[m]
    OBVIOUS
  <2>2. QED
    BY <2>1, ZenonT(30) DEF pending
<1>8. \A f : f \in pending' <=>
        \/ f \in futures[n] /\ f # e /\ f \notin Dead(n, e)
        \/ f \in Born(n, e)
        \/ \E m \in Node \ {n} : f \in futures[m]
        \/ f \in outbox
  BY <1>3, <1>6, <1>7, Zenon DEF DrainStep, Own
<1>9. \A f : f \in (pending \ ({e} \cup Dead(n, e))) \cup Born(n, e) <=>
        \/ f \in futures[n] /\ f # e /\ f \notin Dead(n, e)
        \/ f \in Born(n, e)
        \/ \E m \in Node \ {n} : f \in futures[m]
        \/ f \in outbox
  <2> SUFFICES ASSUME NEW f
               PROVE  f \in (pending \ ({e} \cup Dead(n, e))) \cup Born(n, e) <=>
                        \/ f \in futures[n] /\ f # e /\ f \notin Dead(n, e)
                        \/ f \in Born(n, e)
                        \/ \E m \in Node \ {n} : f \in futures[m]
                        \/ f \in outbox
    BY ZenonT(30)
  <2>1. f \in pending <=> \/ f \in futures[n]
                          \/ \E m \in Node \ {n} : f \in futures[m]
                          \/ f \in outbox
                          \/ f \in continuation
    BY SMTT(30), PendingAnywhere
  <2>2. f = e \/ f \in Dead(n, e) => f \notin outbox /\ \A m \in Node \ {n} : f \notin futures[m]
    BY SMTT(30), <1>1, <1>4, <1>5
  <2>3. f \in continuation => f = e
    BY <1>1
  <2>4. QED
    BY <2>1, <2>2, <2>3, Zenon
<1>10. \A f : f \in pending' <=> f \in (pending \ ({e} \cup Dead(n, e))) \cup Born(n, e)
  BY <1>8, <1>9, ZenonT(30)
<1>11. QED
  BY <1>2, <1>3, <1>10, Zenon

\* A failed dispatch or a successful one preserves the invariant.
LEMMA DrainEventInvariant ==
  ASSUME IInv, NEW n \in Node, NEW e \in futures[n] \cup continuation, DrainEvent(n, e)
  PROVE  IInv'
<1> USE DEF IInv
<1>1. pc = "drain" /\ draining = {n} /\ DrainsNext(e, futures[n], continuation, horizon)
  BY Zenon DEF DrainEvent
<1>2. /\ e \in Event /\ e \in pending /\ e.target = n
      /\ e.key.time_ns < horizon
      /\ e \notin outbox
      /\ continuation \subseteq {e}
  BY <1>1, DrainedNext, Zenon
<1>3. CASE Fail("DispatchError")
  <2>1. /\ pc' = "DispatchError"
        /\ UNCHANGED <<lp, next_seq, executed, frontier, generations, futures, pending_keys,
                       horizon, active, draining, continuation, outbox>>
    BY <1>3 DEF Fail, lpVars, indexVars
  <2>2. pending' = pending /\ LiveEntries' = LiveEntries /\ \A m : Busy(m)' <=> Busy(m)
    BY <2>1 DEF pending, LiveEntries, Live, Busy
  <2>3. TypeOK' /\ Phases' /\ Placed' /\ ContinuationFirst'
    BY <1>1, <2>1, <2>2, ZenonT(30) DEF TypeOK, Phases, Placed, ContinuationFirst
  <2>4. RoundSafe' /\ IndexExact' /\ PendingKeysExact' /\ HorizonIsSafe'
    BY <2>1, <2>2, ZenonT(30) DEF Published, RoundSafe, IndexExact, PendingKeysExact, HorizonIsSafe
  <2>5. QED
    BY <2>3, <2>4, ZenonT(30)
<1>4. CASE Succeeds(lp[n], next_seq[n], e, Own(n, e)) /\ DrainStep(n, e)
  <2> DEFINE k == Len(Out(n, e).emits)
  <2>1. /\ Dead(n, e) \subseteq Own(n, e)
        /\ \A c \in Direct(n, e) : c \in Born(n, e) /\ c.target = n
        /\ pending' = (pending \ ({e} \cup Dead(n, e))) \cup Born(n, e)
    BY <1>1, <1>4, DrainedPending, Zenon
  <2>2. /\ Out(n, e) \in Outcome
        /\ k \in Nat
        /\ \A c, d \in Born(n, e) : c.key = d.key => c = d
    BY <1>1, <1>2, <1>4, DrainedChildren, ZenonT(30)
  <2>2a. /\ next_seq' \in [Node -> Nat]
         /\ next_seq'[n] = next_seq[n] + k
         /\ \A m \in Node : next_seq[m] \in Nat /\ next_seq'[m] \in Nat
                            /\ next_seq[m] <= next_seq'[m]
    <3>1. next_seq \in [Node -> Nat] /\ next_seq' = [next_seq EXCEPT ![n] = next_seq[n] + k]
      BY <1>4, Zenon DEF DrainStep, TypeOK
    <3>2. k \in Nat
      BY <2>2, Zenon
    <3> HIDE DEF k
    <3>3. /\ \A m \in Node : next_seq[m] \in Nat
          /\ next_seq'[n] = next_seq[n] + k
          /\ \A m \in Node \ {n} : next_seq'[m] = next_seq[m]
      BY <3>1
    <3>4. next_seq' \in [Node -> Nat]
      BY <3>1, <3>2, <3>3
    <3>5. QED
      BY <3>2, <3>3, <3>4
  <2>3. \A c \in Born(n, e) :
          /\ c \in Event /\ c.target \in Node
          /\ c.key.origin_node = n
          /\ c.target # n => horizon <= c.key.time_ns
          /\ horizon <= c.key.time_ns + Lookahead
          /\ c.key.origin_seq >= next_seq[n]
          /\ c.key.origin_seq < next_seq[n] + k
          /\ \A f \in pending : f.key # c.key
    BY <1>1, <1>2, <1>4, DrainedChildren, Zenon
  <2>4. /\ futures'[n] = (Own(n, e) \ Dead(n, e))
                            \cup ({c \in Born(n, e) : c.target = n} \ Direct(n, e))
        /\ \A m \in Node \ {n} : futures'[m] = futures[m]
    BY <1>4, Zenon DEF DrainStep, TypeOK
  <2>5. /\ executed' = executed \cup {e}
        /\ continuation' = Direct(n, e)
        /\ outbox' = outbox \cup {c \in Born(n, e) : c.target # n}
        /\ UNCHANGED <<frontier, generations, horizon, active, draining, pc>>
    BY <1>4, Zenon DEF DrainStep
  <2>6. Own(n, e) \subseteq futures[n] /\ futures[n] \subseteq Event /\ outbox \subseteq Event
    BY DEF Own, TypeOK
  <2>7. \A f \in outbox : f \in pending
    BY PendingAnywhere
  <2>8. \A m \in Node : \A f \in futures[m] : f \in pending
    BY PendingAnywhere
  <2>9. pending \subseteq Event
    BY SMTT(30), PendingAnywhere DEF TypeOK
  <2>10. TypeOK'
    <3>1. lp' \in [Node -> State]
      BY <1>4, <2>2, ZenonT(30) DEF DrainStep, TypeOK, Outcome
    <3>2. next_seq' \in [Node -> Nat]
      BY <2>2a
    <3>3. futures' \in [Node -> SUBSET Event]
      <4>1. \A m \in Node : futures'[m] \subseteq Event
        BY <2>3, <2>4, <2>6, ZenonT(30) DEF TypeOK
      <4>2. futures' \in [Node -> SUBSET Event]
        BY <4>1, <1>4, Zenon DEF DrainStep, TypeOK
      <4>3. QED
        BY <4>2
    <3>4. pending_keys' \subseteq EventKey
      <4>1. \A c \in Born(n, e) : c.key \in EventKey
        BY <2>3, ZenonT(30) DEF Event
      <4>2. QED
        BY <4>1, <1>4, Zenon DEF DrainStep, TypeOK
    <3>5. continuation' \subseteq Event /\ outbox' \subseteq Event /\ executed' \subseteq Event
      BY SMTT(30), <1>2, <2>1, <2>3, <2>5 DEF TypeOK
    <3>6. QED
      BY SMTT(30), <3>1, <3>2, <3>3, <3>4, <3>5, <2>5 DEF TypeOK
  <2>11. Phases' /\ HorizonIsSafe'
    BY <1>1, <2>5, Zenon DEF Phases, HorizonIsSafe
  <2>12. Placed'
    <3>1. \A m \in Node : next_seq[m] \in Nat /\ next_seq'[m] \in Nat
                          /\ next_seq[m] <= next_seq'[m]
      BY <2>2a
    <3>2. next_seq'[n] = next_seq[n] + k
      BY SMTT(30), <2>2a
    <3>3. ASSUME NEW f \in pending' PROVE f.key.origin_seq < next_seq'[f.key.origin_node]
      <4>1. CASE f \in Born(n, e)
        BY SMTT(30), <4>1, <2>3, <3>2
      <4>2. CASE f \in pending
        <5>1. f.key.origin_node \in Node /\ f.key.origin_seq \in Nat
          BY SMTT(30), <4>2, <2>9 DEF Event, EventKey
        <5>2. f.key.origin_seq < next_seq[f.key.origin_node]
          BY SMTT(30), <4>2 DEF Placed
        <5>3. QED
          BY SMTT(30), <5>1, <5>2, <3>1
      <4>3. QED
        BY SMTT(30), <4>1, <4>2, <2>1
    <3>4. \A f, g \in pending' : f.key = g.key => f = g
      BY SMTT(30), <2>1, <2>2, <2>3 DEF Placed
    <3>5. \A m \in Node : \A f \in futures'[m] : f.target = m
      BY SMTT(30), <2>4, <2>6 DEF Placed
    <3>6. ASSUME NEW f \in outbox'
          PROVE  f.key.origin_node # f.target /\ f \notin futures'[f.target]
      <4>1. CASE f \in outbox
        <5>1. f \in Event /\ f.target \in Node /\ f \in pending
          BY SMTT(30), <4>1, <2>6, <2>7 DEF Event
        <5>2. f.key.origin_node # f.target /\ f \notin futures[f.target] /\ f \notin Born(n, e)
          BY <4>1, <5>1, <2>3 DEF Placed
        <5>3. QED
          BY SMTT(30), <5>1, <5>2, <2>4, <2>6
      <4>2. CASE f \in Born(n, e) /\ f.target # n
        BY <4>2, <2>3, <2>4, <2>8, ZenonT(30)
      <4>3. QED
        BY SMTT(30), <4>1, <4>2, <2>5
    <3>7. QED
      BY <3>3, <3>4, <3>5, <3>6, ZenonT(30) DEF Placed
  <2>13. ContinuationFirst'
    <3> SUFFICES ASSUME NEW c \in Direct(n, e)
                 PROVE  /\ draining' = {c.target}
                        /\ continuation' = {c}
                        /\ c.kind = "TxReady"
                        /\ c.key.time_ns < horizon'
                        /\ c \notin outbox'
                        /\ \A f \in futures'[c.target] : Earlier(c, f)
      BY <2>5 DEF ContinuationFirst
    <3>1. /\ Born(n, e) = {c}
          /\ IsContinuation(e, c, n, Own(n, e) \ Dead(n, e))
          /\ Direct(n, e) = {c}
      BY <1>2, ZenonT(30) DEF Direct, DirectChild
    <3>2. /\ c.target = n /\ c.kind = "TxReady" /\ c.key.time_ns = e.key.time_ns
          /\ \A f \in Own(n, e) \ Dead(n, e) : Earlier(c, f)
      BY <3>1 DEF IsContinuation
    <3>3. c \notin outbox'
      BY <3>1, <3>2, <2>3, <2>5, <2>7, ZenonT(30)
    <3>4. futures'[n] = Own(n, e) \ Dead(n, e)
      BY <3>1, <3>2, <2>4, ZenonT(30)
    <3>5. QED
      BY <1>1, <1>2, <2>5, <3>1, <3>2, <3>3, <3>4, ZenonT(30)
  <2>14. \A m : Busy(m)' <=> Busy(m)
    BY SMTT(30), <2>5 DEF Busy
  <2>15. Busy(n)
    BY <1>1 DEF Busy
  <2>16. RoundSafe'
    BY <1>1, <2>1, <2>3, <2>4, <2>5, <2>14, <2>15, ZenonT(30) DEF RoundSafe
  <2>17. IndexExact'
    <3>1. LiveEntries' = LiveEntries
      BY SMTT(30), <2>5 DEF LiveEntries, Live
    <3>2. \A m, t : Published(m, t)' <=> Published(m, t)
      BY SMTT(30), <3>1 DEF Published
    <3>3. \A m \in Node : ~Busy(m)' => ~Busy(m) /\ futures'[m] = futures[m]
      BY SMTT(30), <2>4, <2>14, <2>15
    <3>4. QED
      BY <3>2, <3>3, <2>5, ZenonT(30) DEF IndexExact
  <2>18. PendingKeysExact'
    <3>1. pending_keys' = (pending_keys \ {f.key : f \in {e} \cup Dead(n, e)})
                            \cup {c.key : c \in Born(n, e)}
      BY SMTT(30), <1>4 DEF DrainStep
    <3>2. \A f \in {e} \cup Dead(n, e) : f \in pending
      BY SMTT(30), <1>2, <2>1, <2>6, <2>8
    <3>3. pending_keys \ {f.key : f \in {e} \cup Dead(n, e)}
            = {f.key : f \in pending \ ({e} \cup Dead(n, e))}
      <4>1. pending_keys = {f.key : f \in pending}
        BY DEF PendingKeysExact
      <4>2. \A f, g \in pending : f.key = g.key => f = g
        BY Zenon DEF Placed
      <4>3. QED
        BY SMTT(30), <3>2, <4>1, <4>2
    <3>4. QED
      BY SMTT(30), <3>1, <3>3, <2>1 DEF PendingKeysExact
  <2>19. QED
    BY <2>10, <2>11, <2>12, <2>13, <2>16, <2>17, <2>18, Zenon
<1>5. QED
  BY <1>3, <1>4, DrainEventCases

\* Every step preserves the invariant.
LEMMA NextInvariant == IInv /\ [Next]_vars => IInv'
<1> SUFFICES ASSUME IInv, [Next]_vars PROVE IInv'
  OBVIOUS
<1>1. CASE UNCHANGED vars
  <2>1. pending' = pending /\ LiveEntries' = LiveEntries /\ \A m : Busy(m)' <=> Busy(m)
    BY <1>1, Zenon DEF vars, pending, LiveEntries, Live, Busy
  <2>2. \A m, t : Published(m, t)' <=> Published(m, t)
    BY <2>1 DEF Published
  <2>3. TypeOK' /\ Phases' /\ Placed' /\ ContinuationFirst'
    BY <1>1, <2>1, ZenonT(30) DEF vars, IInv, TypeOK, Phases, Placed, ContinuationFirst
  <2>4. RoundSafe' /\ IndexExact' /\ PendingKeysExact' /\ HorizonIsSafe'
    BY <1>1, <2>1, <2>2, Zenon
       DEF vars, IInv, RoundSafe, IndexExact, PendingKeysExact, HorizonIsSafe
  <2>5. QED
    BY <2>3, <2>4 DEF IInv
<1>2. QED
  BY ZenonT(30), <1>1, StartRoundInvariant, FinishRunInvariant, PickLpInvariant, DrainEventInvariant,
     DrainDoneInvariant, CheckDrainedInvariant, ExchangeInvariant, Zenon DEF Next

\* The invariant holds in every state of every run of the round executor.
THEOREM Invariance == Spec => []IInv
BY InitInvariant, NextInvariant, PTL DEF Spec

\* The round executor stays well typed.
THEOREM TypeCorrect == Spec => []TypeOK
<1>1. IInv => TypeOK
  BY DEF IInv
<1>2. QED
  BY <1>1, Invariance, PTL

\* RemoteEventBeforeHorizon, EventBelowHorizonAfterDrain and DuplicateEventKey
\* are never returned: a round that starts at the least pending time and ends
\* one lookahead later is safe for any handlers.
THEOREM HorizonSafety == Spec => []HorizonIsSafe
<1>1. IInv => HorizonIsSafe
  BY DEF IInv
<1>2. QED
  BY <1>1, Invariance, PTL

\* Between rounds the lazily cleaned index holds exactly the least pending time
\* of every LP.
THEOREM FrontierExactness == Spec => []FrontierExact
<1>1. IInv => FrontierExact
  BY Zenon DEF IInv, FrontierExact, IndexExact, Phases, Busy
<1>2. QED
  BY <1>1, Invariance, PTL

\* The duplicate-key index always agrees with the pending events.
THEOREM KeyIndexExactness == Spec => []PendingKeysExact
<1>1. IInv => PendingKeysExact
  BY DEF IInv
<1>2. QED
  BY <1>1, Invariance, PTL

-----------------------------------------------------------------------------
(* The refinement. *)

\* S and T hold the same timers of n.
SameCarriers(S, T, n) == \A f, t : CarriesTimer(f, n, t) => (f \in S <=> f \in T)

\* Two queues that hold the same timers lose the same ones.
LEMMA SameTimers ==
  ASSUME NEW S, NEW T, NEW n, NEW timers, SameCarriers(S, T, n)
  PROVE  /\ Cancelled(S, n, timers) = Cancelled(T, n, timers)
         /\ TimersPresent(S, n, timers) <=> TimersPresent(T, n, timers)
<1>1. ASSUME NEW t PROVE SupersededIn(S, n, t) = SupersededIn(T, n, t)
  <2>1. {f \in S : CarriesTimer(f, n, t)} = {f \in T : CarriesTimer(f, n, t)}
    BY DEF SameCarriers
  <2>2. \A f : f \in SupersededIn(S, n, t) <=> f \in SupersededIn(T, n, t)
    BY SMTT(30), <2>1 DEF SupersededIn, IsFirst
  <2>3. QED
    BY <2>2 DEF SupersededIn
<1>2. QED
  BY <1>1 DEF Cancelled, TimersPresent

\* The operators of CausalCalendar are those of Transitions.
LEMMA SameOperators ==
  /\ \A e, f : Causal!Earlier(e, f) <=> Earlier(e, f)
  /\ \A n, seq, emits : Causal!Children(n, seq, emits) = Children(n, seq, emits)
  /\ \A s, e : Causal!OutcomeOf(s, e) = OutcomeOf(s, e)
  /\ \A S, n, timers : Causal!Cancelled(S, n, timers) = Cancelled(S, n, timers)
  /\ \A S, n, timers : Causal!TimersPresent(S, n, timers) <=> TimersPresent(S, n, timers)
<1>1. \A e, f : Causal!Earlier(e, f) <=> Earlier(e, f)
  BY DEF Causal!Earlier, Earlier, Causal!KeyLess, KeyLess
<1>2. \A n, seq, emits : Causal!Children(n, seq, emits) = Children(n, seq, emits)
  BY DEF Causal!Children, Children, Causal!Child, Child, Causal!event_phase, event_phase
<1>3. \A s, e : Causal!OutcomeOf(s, e) = OutcomeOf(s, e)
  BY DEF Causal!OutcomeOf, OutcomeOf, Causal!InputOf, InputOf
<1>4. \A f, n, t : Causal!CarriesTimer(f, n, t) <=> CarriesTimer(f, n, t)
  BY DEF Causal!CarriesTimer, CarriesTimer
<1>5. \A S, n, t : Causal!SupersededIn(S, n, t) = SupersededIn(S, n, t)
  BY <1>1, <1>4 DEF Causal!SupersededIn, SupersededIn, Causal!IsFirst, IsFirst
<1>6. \A S, n, timers : Causal!Cancelled(S, n, timers) = Cancelled(S, n, timers)
  BY <1>5 DEF Causal!Cancelled, Cancelled
<1>7. \A S, n, timers : Causal!TimersPresent(S, n, timers) <=> TimersPresent(S, n, timers)
  BY <1>5 DEF Causal!TimersPresent, TimersPresent
<1>8. QED
  BY SMTT(30), <1>1, <1>2, <1>3, <1>6, <1>7

\* A dispatch by drain_lp is a dispatch of the calendar: e is first at its LP
\* even counting what waits in the outboxes, and no other LP can reach it first.
LEMMA DrainEventRefines ==
  ASSUME IInv, NEW n \in Node, NEW e \in futures[n] \cup continuation, DrainEvent(n, e)
  PROVE  e \in pending /\ Causal!Execute(e)
<1> USE DEF IInv
<1> DEFINE at == {f \in pending : f.target = n}
<1>1. pc = "drain" /\ draining = {n} /\ DrainsNext(e, futures[n], continuation, horizon)
  BY Zenon DEF DrainEvent
<1>2. /\ e \in Event /\ e \in pending /\ e.target = n
      /\ e.key.time_ns < horizon
      /\ e \notin outbox
      /\ continuation \subseteq {e}
      /\ \A f \in futures[n] \ {e} : Earlier(e, f)
  BY <1>1, DrainedNext, ZenonT(30)
<1>3. pending \subseteq Event
  BY PendingAnywhere DEF TypeOK
<1>4. /\ horizon \in Nat /\ horizon <= RunEnd
      /\ \A f \in pending : f.key.time_ns \in Nat /\ horizon <= f.key.time_ns + Lookahead
      /\ \A f \in outbox : horizon <= f.key.time_ns
  <2>1. \A f \in pending : f.key.time_ns \in Nat
    BY <1>3, KeyFields, ZenonT(30) DEF Event
  <2>2. horizon \in Nat
    BY SMTT(30), Constants DEF TypeOK
  <2>3. QED
    BY <1>1, <2>1, <2>2 DEF RoundSafe
<1>5. \A f \in at : f = e \/ f \in futures[n] \/ f \in outbox
  BY SMTT(30), <1>2, PendingAnywhere DEF Placed
<1>6. ASSUME NEW f \in at \ {e} PROVE Earlier(e, f)
  <2>1. CASE f \in outbox
    <3>1. f.key.time_ns \in Nat /\ e.key.time_ns \in Nat /\ horizon <= f.key.time_ns
      BY SMTT(30), <2>1, <1>2, <1>4
    <3>2. e.key.time_ns < f.key.time_ns
      BY <3>1, <1>2, <1>4
    <3>3. QED
      BY SMTT(30), <3>2 DEF Earlier, KeyLess
  <2>2. QED
    BY SMTT(30), <2>1, <1>2, <1>5
<1>7. Causal!PendingAt(n) = at
  BY SMTT(30) DEF Causal!PendingAt
<1>8. Causal!Dispatchable(e)
  <2>1. e.key.time_ns < RunEnd
    BY <1>2, <1>4, Constants
  <2>2. Causal!IsFirst(e, at)
    BY <1>2, <1>6, SameOperators, ZenonT(30) DEF Causal!IsFirst
  <2>3. Causal!Safe(e)
    <3>1. ASSUME NEW f \in pending PROVE e.key.time_ns < f.key.time_ns + Lookahead
      BY SMTT(30), <1>2, <1>4, Constants
    <3>2. QED
      BY SMTT(30), <3>1 DEF Causal!Safe
  <2>4. QED
    BY SMTT(30), <1>2, <1>7, <2>1, <2>2, <2>3 DEF Causal!Dispatchable
<1>9. \A f, t : CarriesTimer(f, n, t) => (f \in at \ {e} <=> f \in Own(n, e))
  <2>1. \A f \in futures[n] : f \in at
    BY SMTT(30), PendingAnywhere DEF Placed
  <2>2. \A f \in outbox : f.key.origin_node # f.target
    BY DEF Placed
  <2>3. QED
    BY SMTT(30), <2>1, <2>2, <1>5 DEF Own, CarriesTimer
<1>10. ASSUME NEW timers
       PROVE  /\ Cancelled(at \ {e}, n, timers) = Cancelled(Own(n, e), n, timers)
              /\ TimersPresent(at \ {e}, n, timers) <=> TimersPresent(Own(n, e), n, timers)
  <2>1. SameCarriers(at \ {e}, Own(n, e), n)
    BY <1>9 DEF SameCarriers
  <2>2. QED
    BY <2>1, SameTimers, ZenonT(30)
<1>11. Causal!Succeeds(lp[n], next_seq[n], e, at \ {e})
         <=> Succeeds(lp[n], next_seq[n], e, Own(n, e))
  BY <1>2, <1>10, SameOperators, ZenonT(30)
     DEF Causal!Succeeds, Succeeds, Causal!Monotone, Monotone
<1>12. CASE ~Succeeds(lp[n], next_seq[n], e, Own(n, e)) /\ Fail("DispatchError")
  <2>1. /\ pc' = "DispatchError"
        /\ UNCHANGED <<lp, next_seq, executed, futures, continuation, outbox>>
    BY <1>12, Zenon DEF Fail, lpVars
  <2>2. pending' = pending
    BY <2>1, Zenon DEF pending
  <2>3. QED
    BY <1>1, <1>2, <1>7, <1>8, <1>11, <1>12, <2>1, <2>2, ZenonT(30) DEF Causal!Execute
<1>13. CASE Succeeds(lp[n], next_seq[n], e, Own(n, e)) /\ DrainStep(n, e)
  <2>1. pending' = (pending \ ({e} \cup Dead(n, e))) \cup Born(n, e)
    BY <1>1, <1>13, DrainedPending, Zenon
  <2>2. /\ Causal!OutcomeOf(lp[n], e) = Out(n, e)
        /\ Causal!Cancelled(at \ {e}, n, Out(n, e).superseded) = Dead(n, e)
        /\ Causal!Children(n, next_seq[n], Out(n, e).emits) = Born(n, e)
    BY <1>10, SameOperators, ZenonT(30) DEF Out, Dead, Born
  <2>3. pending' = ((pending \ {e}) \ Dead(n, e)) \cup Born(n, e)
    BY <2>1
  <2>4. /\ lp' = [lp EXCEPT ![n] = Out(n, e).state]
        /\ next_seq' = [next_seq EXCEPT ![n] = @ + Len(Out(n, e).emits)]
        /\ executed' = executed \cup {e}
        /\ pc' = pc
    BY <1>13, ZenonT(30) DEF DrainStep
  <2>5. QED
    BY <1>1, <1>2, <1>7, <1>8, <1>11, <1>13, <2>2, <2>3, <2>4, ZenonT(30) DEF Causal!Execute
<1>14. QED
  BY <1>2, <1>12, <1>13, DrainEventCases, ZenonT(30)

\* Every step of the round executor is a dispatch of the calendar or leaves the
\* calendar unchanged.
LEMMA StepRefines == IInv /\ [Next]_vars => [Causal!Next]_(Causal!vars)
<1> SUFFICES ASSUME IInv, [Next]_vars PROVE Causal!Next \/ UNCHANGED Causal!vars
  OBVIOUS
<1>1. CASE UNCHANGED vars
  BY <1>1, Zenon DEF vars, pending, Causal!vars
<1>2. CASE StartRound \/ FinishRun \/ PickLp \/ (\E n \in Node : DrainDone(n))
  <2>1. /\ UNCHANGED <<lp, next_seq, executed, futures, outbox, continuation>>
        /\ pc # "DispatchError" /\ pc' # "DispatchError"
    BY <1>2, ZenonT(30) DEF StartRound, FinishRun, PickLp, DrainDone, lpVars
  <2>2. QED
    BY <2>1 DEF pending, Causal!vars
<1>3. CASE \E n \in Node : \E e \in futures[n] \cup continuation : DrainEvent(n, e)
  BY <1>3, DrainEventRefines DEF Causal!Next
<1>4. CASE CheckDrained
  <2>1. pending' = pending /\ pc' # "DispatchError"
    BY <1>4, CheckDrainedInvariant
  <2>2. UNCHANGED <<lp, next_seq, executed>> /\ pc # "DispatchError"
    BY <1>4 DEF CheckDrained, lpVars
  <2>3. QED
    BY <2>1, <2>2 DEF Causal!vars
<1>5. CASE Exchange
  <2>1. pending' = pending /\ UNCHANGED <<lp, next_seq, executed>> /\ pc' = "peek"
    BY SMTT(30), <1>5, ExchangeInvariant
  <2>2. pc # "DispatchError"
    BY <1>5 DEF Exchange
  <2>3. QED
    BY <2>1, <2>2 DEF Causal!vars
<1>6. QED
  BY <1>1, <1>2, <1>3, <1>4, <1>5 DEF Next

\* The round executor implements CausalCalendar: with the per-LP queues, the
\* outboxes and the continuation read as one pending set, each run of
\* execute_rounds is a run of the calendar.
THEOREM Refinement == Spec => ImplementsCausalCalendar
<1>1. Init => Causal!Init
  <2> SUFFICES ASSUME Init PROVE Causal!Init
    OBVIOUS
  <2>1. PICK image \in Images :
          /\ lp = image.lp
          /\ next_seq = image.next_seq
          /\ executed = {}
          /\ futures = [n \in Node |-> EventsFor(image.events, n)]
          /\ continuation = {}
          /\ outbox = {}
          /\ pc = "peek"
    BY Zenon DEF Init
  <2>2. image \in ImageType
    BY ImagesAssumption DEF ImagesAssumption
  <2>3. \A e \in image.events : e.target \in Node
    BY <2>2 DEF ImageType, Event
  <2>4. pending = image.events
    BY <2>1, <2>3 DEF pending, EventsFor
  <2>5. QED
    BY <2>1, <2>4 DEF Causal!Init
<1>2. QED
  BY <1>1, StepRefines, Invariance, PTL DEF Spec, Causal!Spec, ImplementsCausalCalendar
=============================================================================
