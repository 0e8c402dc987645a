----------------------------- MODULE Transitions -----------------------------
(***************************************************************************)
(* What every executor takes from TransitionState (executor/src/scalar.rs):*)
(* a dispatch of one event on the state of the LP it targets.  A dispatch  *)
(* reads and writes that LP only, emits children whose keys it allocates   *)
(* from the LP's own sequence, and names the retransmission timers it has  *)
(* superseded, which the owner of the queue removes.                       *)
(*                                                                         *)
(* The handlers are a parameter: Dispatch is an arbitrary deterministic    *)
(* function of the LP's state and the event.                               *)
(***************************************************************************)
EXTENDS EventKeys, Sequences

CONSTANTS
  State,              \* states of one LP
  Dispatch(_, _, _),  \* node, state, input |-> outcome
  Lookahead,          \* least channel.min_delay_ns; MaxTime + 1 without channels
  RunEnd,             \* min(exclusive horizon, stop_time_ns + 1)
  Images              \* the simulation images a run may start from

Input == [time_ns : Time, kind : EventKind, payload : Payload]

Emission == [time_ns : Time, kind : EventKind, target : Node, payload : Payload]

TimerId == [payload : Payload, deadline_ns : Time]

\* ok = FALSE is an ExecutionError of the handler.
Outcome == [ok : BOOLEAN, state : State, emits : Seq(Emission),
            superseded : SUBSET TimerId]

ASSUME LookaheadAssumption == Lookahead \in 1 .. MaxTime + 1
ASSUME RunEndAssumption == RunEnd \in 0 .. MaxTime + 1
ASSUME DispatchAssumption ==
  \A n \in Node, s \in State, v \in Input : Dispatch(n, s, v) \in Outcome

\* A link delivers no earlier than its channel's minimum delay.
ASSUME ChannelAssumption ==
  \A n \in Node, s \in State, v \in Input :
    \A i \in DOMAIN Dispatch(n, s, v).emits :
      Dispatch(n, s, v).emits[i].target # n =>
        Dispatch(n, s, v).emits[i].time_ns >= v.time_ns + Lookahead

\* validate.rs: initial events have unique keys, and an LP's sequence starts
\* above the keys that name it as their origin.
WellFormedImage(image) ==
  /\ \A e, f \in image.events : e.key = f.key => e = f
  /\ \A e \in image.events : e.key.origin_seq < image.next_seq[e.key.origin_node]

ImageType == [lp : [Node -> State], next_seq : [Node -> Nat], events : SUBSET Event]

ASSUME ImagesAssumption ==
  \A image \in Images : image \in ImageType /\ WellFormedImage(image)

InputOf(e) == [time_ns |-> e.key.time_ns, kind |-> e.kind, payload |-> e.payload]

OutcomeOf(s, e) == Dispatch(e.target, s, InputOf(e))

\* emit_from_host, emit_from_switch: the i-th child of a dispatch on node n.
Child(n, seq, em, i) ==
  [key     |-> [time_ns |-> em.time_ns, phase |-> event_phase(em.kind),
                origin_node |-> n, origin_seq |-> seq + i - 1],
   target  |-> em.target,
   kind    |-> em.kind,
   payload |-> em.payload]

Children(n, seq, emits) == {Child(n, seq, emits[i], i) : i \in DOMAIN emits}

\* insert_child refuses a child that is not later than its parent.
Monotone(e, children) == \A c \in children : Earlier(e, c)

\* The pending events that the timers superseded by a dispatch on n take out
\* of S.
Cancelled(S, n, timers) == UNION {SupersededIn(S, n, t) : t \in timers}

\* SupersededTimerMissing does not arise.
TimersPresent(S, n, timers) == \A t \in timers : SupersededIn(S, n, t) # {}

\* The dispatch of e on state s with the LP's pending events S ends without an
\* ExecutionError.
Succeeds(s, seq, e, S) ==
  LET out == OutcomeOf(s, e) IN
  /\ out.ok
  /\ Monotone(e, Children(e.target, seq, out.emits))
  /\ TimersPresent(S, e.target, out.superseded)

-----------------------------------------------------------------------------
(* One iteration of an LP's drain loop, shared by the round executors
   (drain_lp of safe_horizon.rs, CpuLp::drain of cpu.rs). *)

\* Mutant: the horizon is inclusive.
DrainsNextInclusive(e, S, continuation, horizon) ==
  \/ continuation = {e}
  \/ /\ continuation = {}
     /\ IsFirst(e, S)
     /\ e.key.time_ns <= horizon

\* The event the loop takes next: the continuation, or the first event below
\* the exclusive horizon.
DrainsNext(e, S, continuation, horizon) ==
  \/ continuation = {e}
  \/ /\ continuation = {}
     /\ IsFirst(e, S)
     /\ e.key.time_ns < horizon

\* The single child that bypasses the queue, as a set of at most one.
DirectChild(e, children, rest) ==
  {c \in children : children = {c} /\ IsContinuation(e, c, e.target, rest)}

\* What a successful dispatch of e leaves, where S is the rest of its LP's
\* pending events.
Drained(s, seq, e, S) ==
  LET n        == e.target
      out      == OutcomeOf(s, e)
      children == Children(n, seq, out.emits)
      dropped  == Cancelled(S, n, out.superseded)
      direct   == DirectChild(e, children, S \ dropped)
  IN [state        |-> out.state,
      seq          |-> seq + Len(out.emits),
      dropped      |-> dropped,
      children     |-> children,
      continuation |-> direct,
      futures      |-> (S \ dropped) \cup ({c \in children : c.target = n} \ direct),
      remote       |-> {c \in children : c.target # n}]

\* Mutant: the horizon includes the instant a neighbour's child may arrive at.
HorizonTooFar(t) == IF RunEnd < t + Lookahead + 1 THEN RunEnd ELSE t + Lookahead + 1

\* Mutant: the horizon forgets the lookahead.
HorizonAtFrontier(t) == t

\* Exclusive horizon of a round whose least pending time is t.
RoundHorizon(t) ==
  LET lookahead_end == IF t + Lookahead < MaxTime + 1 THEN t + Lookahead ELSE MaxTime + 1
  IN IF RunEnd < lookahead_end THEN RunEnd ELSE lookahead_end
=============================================================================
