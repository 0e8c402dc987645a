------------------------ MODULE CausalCalendarProofs ------------------------
(***************************************************************************)
(* Proofs about CausalCalendar for every set of LPs, every deterministic   *)
(* handler, every positive lookahead and every well-formed image.          *)
(***************************************************************************)
EXTENDS CausalCalendar, TransitionsProofs

\* The events dispatching e leaves pending, and the ones it adds.
Kept(e) ==
  (pending \ {e}) \ Cancelled(PendingAt(e.target) \ {e}, e.target,
                              OutcomeOf(lp[e.target], e).superseded)

Added(e) == Children(e.target, next_seq[e.target], OutcomeOf(lp[e.target], e).emits)

\* What a dispatch does: it fails and changes only the failure flag, or it moves
\* e from pending to executed and adds children that are later than e and, when
\* sent to another LP, at least the lookahead later.
LEMMA ExecuteStep ==
  ASSUME TypeOK, NEW e \in pending, Execute(e)
  PROVE  \/ failed' = TRUE /\ UNCHANGED <<lp, next_seq, pending, executed>>
         \/ /\ lp' \in [Node -> State]
            /\ next_seq' = [next_seq EXCEPT
                 ![e.target] = @ + Len(OutcomeOf(lp[e.target], e).emits)]
            /\ pending' = Kept(e) \cup Added(e)
            /\ Kept(e) \subseteq pending \ {e}
            /\ executed' = executed \cup {e}
            /\ failed' = failed
            /\ \A c \in Added(e) :
                 /\ c \in Event
                 /\ Earlier(e, c)
                 /\ c.key.origin_node = e.target
                 /\ c.target # e.target => c.key.time_ns >= e.key.time_ns + Lookahead
<1> DEFINE n   == e.target
           out == OutcomeOf(lp[n], e)
           own == PendingAt(n) \ {e}
<1>1. e \in Event /\ n \in Node /\ lp[n] \in State /\ next_seq[n] \in Nat
  BY DEF TypeOK, Event
<1>2. out \in Outcome
  BY <1>1, OutcomeOfType
<1>3. CASE ~Succeeds(lp[n], next_seq[n], e, own)
  BY <1>3 DEF Execute
<1>4. CASE Succeeds(lp[n], next_seq[n], e, own)
  <2>1. /\ lp' = [lp EXCEPT ![n] = out.state]
        /\ next_seq' = [next_seq EXCEPT ![n] = @ + Len(out.emits)]
        /\ pending' = Kept(e) \cup Added(e)
        /\ executed' = executed \cup {e}
        /\ failed' = failed
    BY <1>4, Zenon DEF Execute, Kept, Added
  <2>2. lp' \in [Node -> State]
    BY <1>1, <1>2, <2>1 DEF TypeOK, Outcome
  <2>3. \A c \in Added(e) :
          /\ c \in Event
          /\ c.key.origin_node = n
          /\ c.target # n => c.key.time_ns >= e.key.time_ns + Lookahead
    BY <1>1, ChildrenOf DEF Added
  <2>4. \A c \in Added(e) : Earlier(e, c)
    BY <1>4 DEF Succeeds, Monotone, Added
  <2>5. Kept(e) \subseteq pending \ {e}
    BY DEF Kept
  <2>6. QED
    BY <2>1, <2>2, <2>3, <2>4, <2>5
<1>5. QED
  BY <1>3, <1>4, Zenon

-----------------------------------------------------------------------------
(* The inductive invariant. *)

\* A well-formed image satisfies the invariant: nothing has been dispatched yet.
LEMMA InitInvariant == Init => IInv
<1> SUFFICES ASSUME Init PROVE IInv
  OBVIOUS
<1>1. PICK image \in Images :
        /\ lp = image.lp
        /\ next_seq = image.next_seq
        /\ pending = image.events
        /\ executed = {}
        /\ failed = FALSE
  BY DEF Init
<1>2. image \in ImageType /\ WellFormedImage(image)
  BY ImagesAssumption DEF ImagesAssumption
<1>3. TypeOK
  BY <1>1, <1>2, Zenon DEF TypeOK, ImageType
<1>4. KeysAllocated /\ UniqueKeys
  BY <1>1, <1>2 DEF WellFormedImage, KeysAllocated, UniqueKeys
<1>5. LocalCausality /\ WithinLookahead
  BY <1>1 DEF LocalCausality, WithinLookahead
<1>6. QED
  BY <1>3, <1>4, <1>5 DEF IInv

\* A dispatch preserves the invariant.
LEMMA ExecuteInvariant ==
  ASSUME IInv, NEW e \in pending, Execute(e)
  PROVE  IInv'
<1> DEFINE n == e.target
           k == Len(OutcomeOf(lp[n], e).emits)
<1> USE DEF IInv
<1>1. e \in Event /\ n \in Node /\ lp[n] \in State /\ next_seq[n] \in Nat
  BY DEF TypeOK, Event
<1>2. CASE failed' = TRUE /\ UNCHANGED <<lp, next_seq, pending, executed>>
  BY <1>2 DEF TypeOK, KeysAllocated, UniqueKeys, LocalCausality, WithinLookahead
<1>3. CASE /\ lp' \in [Node -> State]
           /\ next_seq' = [next_seq EXCEPT ![n] = @ + k]
           /\ pending' = Kept(e) \cup Added(e)
           /\ Kept(e) \subseteq pending \ {e}
           /\ executed' = executed \cup {e}
           /\ failed' = failed
           /\ \A c \in Added(e) :
                /\ c \in Event
                /\ Earlier(e, c)
                /\ c.key.origin_node = n
                /\ c.target # n => c.key.time_ns >= e.key.time_ns + Lookahead
  <2>1. k \in Nat
    BY <1>1, OutcomeOfType DEF Outcome
  <2>2. \A c \in Added(e) : c.key.origin_seq >= next_seq[n] /\ c.key.origin_seq < next_seq[n] + k
    BY <1>1, ChildrenOf DEF Added
  <2>3. \A m \in Node : next_seq[m] \in Nat /\ next_seq'[m] \in Nat /\ next_seq[m] <= next_seq'[m]
    BY <1>1, <1>3, <2>1 DEF TypeOK
  <2>4. next_seq'[n] = next_seq[n] + k
    BY <1>1, <1>3 DEF TypeOK
  <2>5. \A f \in pending \cup executed : f \in Event
    BY DEF TypeOK
  <2>6. TypeOK'
    BY <1>1, <1>3, <2>1, <2>3 DEF TypeOK
  <2>7. KeysAllocated'
    <3> SUFFICES ASSUME NEW f \in (pending \cup executed)'
                 PROVE  f.key.origin_seq < next_seq'[f.key.origin_node]
      BY DEF KeysAllocated
    <3>1. CASE f \in Added(e)
      BY <3>1, <1>3, <2>2, <2>4
    <3>2. CASE f \in pending \cup executed
      <4>1. f.key.origin_node \in Node /\ f.key.origin_seq \in Nat
        BY <3>2, <2>5 DEF Event, EventKey
      <4>2. f.key.origin_seq < next_seq[f.key.origin_node]
        BY <3>2 DEF KeysAllocated
      <4>3. QED
        BY <4>1, <4>2, <2>3
    <3>3. QED
      BY <3>1, <3>2, <1>3
  <2>8. \A c \in Added(e), f \in pending \cup executed : c.key # f.key
    BY <1>1, <1>3, <2>2, <2>3, <2>5 DEF KeysAllocated, Event, EventKey
  <2>9. UniqueKeys'
    <3> SUFFICES ASSUME NEW f \in (pending \cup executed)', NEW g \in (pending \cup executed)',
                        f.key = g.key
                 PROVE  f = g
      BY DEF UniqueKeys
    <3>1. CASE f \in Added(e) /\ g \in Added(e)
      BY <3>1, <1>1, ChildrenDistinct DEF Added
    <3>2. CASE f \notin Added(e) /\ g \notin Added(e)
      BY <3>2, <1>3 DEF UniqueKeys
    <3>3. QED
      BY <3>1, <3>2, <2>8, <1>3
  <2>10. \A f \in executed : f.target = n => Earlier(f, e)
    BY DEF LocalCausality
  <2>11. \A f \in executed : f.target # n => f.key.time_ns < e.key.time_ns + Lookahead
    BY DEF WithinLookahead
  <2>12. \A g \in pending \ {e} :
           /\ g.target = n => Earlier(e, g)
           /\ g.target # n => e.key.time_ns < g.key.time_ns + Lookahead
    BY DEF Execute, Dispatchable, Safe, IsFirst, PendingAt
  <2>13. LocalCausality'
    <3> SUFFICES ASSUME NEW g \in pending', NEW f \in executed', g.target = f.target
                 PROVE  Earlier(f, g)
      BY DEF LocalCausality
    <3>1. CASE g \in Kept(e)
      BY <3>1, <1>3, <2>12 DEF LocalCausality
    <3>2. CASE g \in Added(e) /\ f = e
      BY <3>2, <1>3
    <3>3. CASE g \in Added(e) /\ f \in executed
      <4>1. g.key \in EventKey /\ f.key \in EventKey /\ e.key \in EventKey
        BY <3>3, <1>1, <1>3, <2>5 DEF Event
      <4>2. CASE f.target = n
        BY <4>1, <4>2, <3>3, <1>3, <2>10, KeyLessTransitive DEF Earlier
      <4>3. CASE f.target # n
        <5>1. f.key.time_ns < e.key.time_ns + Lookahead
          BY <4>3, <3>3, <2>11
        <5>2. g.key.time_ns >= e.key.time_ns + Lookahead
          BY <4>3, <3>3, <1>3
        <5>3. f.key.time_ns \in Nat /\ g.key.time_ns \in Nat /\ e.key.time_ns \in Nat
              /\ Lookahead \in Nat
          BY <4>1, KeyFields, LookaheadAssumption, TimeAssumption
             DEF LookaheadAssumption, TimeAssumption
        <5>4. QED
          BY <5>1, <5>2, <5>3 DEF Earlier, KeyLess
      <4>4. QED
        BY <4>2, <4>3
    <3>4. QED
      BY <3>1, <3>2, <3>3, <1>3
  <2>14. WithinLookahead'
    <3> SUFFICES ASSUME NEW g \in pending', NEW f \in executed', g.target # f.target
                 PROVE  f.key.time_ns < g.key.time_ns + Lookahead
      BY DEF WithinLookahead
    <3>1. CASE g \in Kept(e)
      BY <3>1, <1>3, <2>12 DEF WithinLookahead
    <3>2. CASE g \in Added(e)
      <4>1. g \in Event /\ f \in Event /\ Earlier(e, g)
        BY <3>2, <1>1, <1>3, <2>5
      <4>2. e.key.time_ns <= g.key.time_ns
        BY <4>1, <1>1, EarlierTime
      <4>3. f.key.time_ns \in Nat /\ g.key.time_ns \in Nat /\ e.key.time_ns \in Nat
            /\ Lookahead \in Nat /\ Lookahead >= 1
        BY <4>1, <1>1, KeyFields, LookaheadAssumption, TimeAssumption
           DEF LookaheadAssumption, TimeAssumption, Event
      <4>4. f = e \/ (f \in executed /\ f.target = n) => f.key.time_ns <= e.key.time_ns
        BY <4>1, <4>3, <1>1, <2>10, EarlierTime
      <4>5. f \in executed /\ f.target # n => f.key.time_ns < e.key.time_ns + Lookahead
        BY <2>11
      <4>6. QED
        BY <4>2, <4>3, <4>4, <4>5, <1>3
    <3>3. QED
      BY <3>1, <3>2, <1>3
  <2>15. QED
    BY <2>6, <2>7, <2>9, <2>13, <2>14
<1>4. QED
  BY <1>2, <1>3, ExecuteStep, Zenon

\* Every step preserves the invariant.
LEMMA NextInvariant == IInv /\ [Next]_vars => IInv'
<1> SUFFICES ASSUME IInv, [Next]_vars PROVE IInv'
  OBVIOUS
<1>1. CASE Next
  BY <1>1, ExecuteInvariant DEF Next
<1>2. CASE UNCHANGED vars
  BY <1>2 DEF vars, IInv, TypeOK, KeysAllocated, UniqueKeys, LocalCausality, WithinLookahead
<1>3. QED
  BY <1>1, <1>2

\* The invariant holds in every state of every run.
THEOREM Invariance == Spec => []IInv
BY InitInvariant, NextInvariant, PTL DEF Spec

\* The calendar stays well typed.
THEOREM TypeCorrect == Spec => []TypeOK
<1>1. IInv => TypeOK
  BY DEF IInv
<1>2. QED
  BY <1>1, Invariance, PTL

\* No key is ever allocated twice, so DuplicateEventKey cannot be reached by
\* events that a run schedules.
THEOREM KeysUnique == Spec => []UniqueKeys
<1>1. IInv => UniqueKeys
  BY DEF IInv
<1>2. QED
  BY <1>1, Invariance, PTL

\* Whatever safe order the LPs run in, no event reaches an LP that has already
\* dispatched a later one.
THEOREM Causality == Spec => []LocalCausality
<1>1. IInv => LocalCausality
  BY DEF IInv
<1>2. QED
  BY <1>1, Invariance, PTL

\* No LP runs further ahead of a pending event than the lookahead.
THEOREM BoundedDrift == Spec => []WithinLookahead
<1>1. IInv => WithinLookahead
  BY DEF IInv
<1>2. QED
  BY <1>1, Invariance, PTL

\* Every LP dispatches its events in canonical key order.
THEOREM KeyOrder == Spec => InKeyOrder
<1> DEFINE Step == \A e \in executed' \ executed, f \in executed :
                     e.target = f.target => Earlier(f, e)
<1>1. IInv /\ [Next]_vars => Step
  <2> SUFFICES ASSUME IInv, [Next]_vars, NEW e \in executed' \ executed, NEW f \in executed,
                      e.target = f.target
               PROVE  Earlier(f, e)
    OBVIOUS
  <2>1. CASE UNCHANGED vars
    BY <2>1 DEF vars
  <2>2. CASE Next
    <3>1. PICK d \in pending : Execute(d)
      BY <2>2 DEF Next
    <3>2. e = d
      BY <3>1, ExecuteStep, Zenon DEF IInv
    <3>3. QED
      BY <3>2 DEF IInv, LocalCausality
  <2>3. QED
    BY <2>1, <2>2
<1>2. QED
  BY <1>1, Invariance, PTL DEF Spec, InKeyOrder
=============================================================================
