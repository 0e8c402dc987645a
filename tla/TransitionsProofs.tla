-------------------------- MODULE TransitionsProofs --------------------------
(***************************************************************************)
(* Lemmas about the key order and about one dispatch, shared by the proofs *)
(* of the executors.                                                       *)
(***************************************************************************)
EXTENDS Transitions, TLAPS

\* The fields of a key are natural numbers.
LEMMA KeyFields ==
  ASSUME NEW a \in EventKey
  PROVE  /\ a.time_ns \in Nat /\ a.phase \in Nat
         /\ a.origin_node \in Nat /\ a.origin_seq \in Nat
<1>1. /\ a.time_ns \in 0 .. MaxTime /\ a.phase \in 0 .. 2
      /\ a.origin_node \in Node /\ a.origin_seq \in Nat
  BY DEF EventKey, Time
<1>2. a.origin_node \in Nat
  BY <1>1, NodeAssumption, Zenon DEF NodeAssumption
<1>3. a.time_ns \in Nat /\ a.phase \in Nat
  BY <1>1, TimeAssumption DEF TimeAssumption
<1>4. QED
  BY <1>1, <1>2, <1>3

\* The canonical key order is transitive.
LEMMA KeyLessTransitive ==
  ASSUME NEW a \in EventKey, NEW b \in EventKey, NEW c \in EventKey,
         KeyLess(a, b), KeyLess(b, c)
  PROVE  KeyLess(a, c)
<1>1. /\ a.time_ns \in Nat /\ a.phase \in Nat /\ a.origin_node \in Nat /\ a.origin_seq \in Nat
      /\ b.time_ns \in Nat /\ b.phase \in Nat /\ b.origin_node \in Nat /\ b.origin_seq \in Nat
      /\ c.time_ns \in Nat /\ c.phase \in Nat /\ c.origin_node \in Nat /\ c.origin_seq \in Nat
  BY KeyFields
<1>2. QED
  BY <1>1 DEF KeyLess

\* Two keys that neither precede nor follow one another are equal.
LEMMA KeyLessTotal ==
  ASSUME NEW a \in EventKey, NEW b \in EventKey, ~KeyLess(a, b), ~KeyLess(b, a)
  PROVE  a = b
<1>1. /\ a.time_ns \in Nat /\ a.phase \in Nat /\ a.origin_node \in Nat /\ a.origin_seq \in Nat
      /\ b.time_ns \in Nat /\ b.phase \in Nat /\ b.origin_node \in Nat /\ b.origin_seq \in Nat
  BY KeyFields
<1>2. /\ a.time_ns = b.time_ns /\ a.phase = b.phase
      /\ a.origin_node = b.origin_node /\ a.origin_seq = b.origin_seq
  BY <1>1 DEF KeyLess
<1>3. QED
  BY <1>2 DEF EventKey

\* No key precedes itself.
LEMMA KeyLessIrreflexive ==
  ASSUME NEW a \in EventKey
  PROVE  ~KeyLess(a, a)
BY KeyFields DEF KeyLess

\* An earlier event is not later in time.
LEMMA EarlierTime ==
  ASSUME NEW e \in Event, NEW f \in Event, Earlier(e, f)
  PROVE  e.key.time_ns <= f.key.time_ns
BY DEF Earlier, KeyLess, Event, EventKey, Time

\* Every event kind has a phase.
LEMMA PhaseType ==
  ASSUME NEW kind \in EventKind
  PROVE  event_phase(kind) \in 0 .. 2
BY DEF EventKind, event_phase

\* A dispatch on an LP state has an outcome.
LEMMA OutcomeOfType ==
  ASSUME NEW s \in State, NEW e \in Event
  PROVE  OutcomeOf(s, e) \in Outcome
<1>1. e.target \in Node /\ InputOf(e) \in Input
  BY DEF Event, EventKey, InputOf, Input
<1>2. QED
  BY <1>1, DispatchAssumption DEF OutcomeOf

\* A child is an event of its emitter, keyed with the emitter's next sequence
\* numbers, and reaches another LP no sooner than the lookahead.
LEMMA ChildrenOf ==
  ASSUME NEW s \in State, NEW e \in Event, NEW seq \in Nat,
         NEW c \in Children(e.target, seq, OutcomeOf(s, e).emits)
  PROVE  /\ c \in Event
         /\ c.key.origin_node = e.target
         /\ c.target # e.target => c.key.time_ns >= e.key.time_ns + Lookahead
         /\ c.key.origin_seq >= seq
         /\ c.key.origin_seq < seq + Len(OutcomeOf(s, e).emits)
<1> DEFINE emits == OutcomeOf(s, e).emits
<1>1. emits \in Seq(Emission)
  BY OutcomeOfType DEF Outcome
<1>2. PICK i \in DOMAIN emits : c = Child(e.target, seq, emits[i], i)
  BY DEF Children
<1>3. i \in 1 .. Len(emits) /\ emits[i] \in Emission /\ Len(emits) \in Nat
  BY <1>1, <1>2
<1>4. e.target \in Node /\ InputOf(e) \in Input /\ InputOf(e).time_ns = e.key.time_ns
  BY DEF Event, EventKey, InputOf, Input
<1>5. emits[i].target # e.target => emits[i].time_ns >= e.key.time_ns + Lookahead
  BY <1>2, <1>4, ChannelAssumption DEF OutcomeOf
<1>6. event_phase(emits[i].kind) \in 0 .. 2
  BY <1>3, PhaseType DEF Emission
<1>7. seq + i - 1 \in Nat /\ seq + i - 1 >= seq /\ seq + i - 1 < seq + Len(emits)
  BY <1>3
<1>8. c.key = [time_ns |-> emits[i].time_ns, phase |-> event_phase(emits[i].kind),
               origin_node |-> e.target, origin_seq |-> seq + i - 1]
  BY <1>2 DEF Child
<1>9. c.key \in EventKey
  BY <1>3, <1>4, <1>6, <1>7, <1>8 DEF EventKey, Emission
<1>10. c \in Event /\ c.target = emits[i].target
  BY <1>2, <1>3, <1>8, <1>9 DEF Child, Event, Emission
<1>11. QED
  BY <1>5, <1>7, <1>8, <1>10

\* Children of one dispatch with equal keys are the same child.
LEMMA ChildrenDistinct ==
  ASSUME NEW s \in State, NEW e \in Event, NEW seq \in Nat,
         NEW c \in Children(e.target, seq, OutcomeOf(s, e).emits),
         NEW d \in Children(e.target, seq, OutcomeOf(s, e).emits),
         c.key = d.key
  PROVE  c = d
<1> DEFINE emits == OutcomeOf(s, e).emits
<1>1. emits \in Seq(Emission)
  BY OutcomeOfType DEF Outcome
<1>2. PICK i \in DOMAIN emits : c = Child(e.target, seq, emits[i], i)
  BY DEF Children
<1>3. PICK j \in DOMAIN emits : d = Child(e.target, seq, emits[j], j)
  BY DEF Children
<1>4. c.key.origin_seq = seq + i - 1 /\ d.key.origin_seq = seq + j - 1
  BY <1>2, <1>3 DEF Child
<1>5. i \in Nat /\ j \in Nat
  BY <1>1, <1>2, <1>3
<1>6. i = j
  BY <1>4, <1>5
<1>7. QED
  BY <1>2, <1>3, <1>6
=============================================================================
