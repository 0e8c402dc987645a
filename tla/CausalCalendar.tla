--------------------------- MODULE CausalCalendar ---------------------------
(***************************************************************************)
(* What the scalar, safe-horizon and parallel executors all promise.  An   *)
(* event may be dispatched when it is the first one pending at its LP and  *)
(* no event pending at another LP can still produce a child that reaches   *)
(* its LP before it.  Which of the dispatchable events goes first is left  *)
(* open: the result does not depend on it.                                 *)
(***************************************************************************)
EXTENDS Transitions

VARIABLES
  lp,         \* the state of every LP
  next_seq,   \* per LP, the next origin_seq it allocates
  pending,    \* the future events of all LPs
  executed,   \* the events dispatched so far
  failed      \* an ExecutionError ended the run

vars == <<lp, next_seq, pending, executed, failed>>

PendingAt(n) == {e \in pending : e.target = n}

Init ==
  \E image \in Images :
    /\ lp = image.lp
    /\ next_seq = image.next_seq
    /\ pending = image.events
    /\ executed = {}
    /\ failed = FALSE

\* Mutant: an arrival at the very same time is overlooked.
SafeOffByOne(e) ==
  \A f \in pending : f.target # e.target => e.key.time_ns <= f.key.time_ns + Lookahead

\* No event pending elsewhere can have a child at e's LP that precedes e.
Safe(e) ==
  \A f \in pending : f.target # e.target => e.key.time_ns < f.key.time_ns + Lookahead

Dispatchable(e) ==
  /\ e.key.time_ns < RunEnd
  /\ IsFirst(e, PendingAt(e.target))
  /\ Safe(e)

Execute(e) ==
  /\ ~failed
  /\ Dispatchable(e)
  /\ LET n   == e.target
         out == OutcomeOf(lp[n], e)
         own == PendingAt(n) \ {e}
     IN IF Succeeds(lp[n], next_seq[n], e, own)
        THEN /\ lp' = [lp EXCEPT ![n] = out.state]
             /\ next_seq' = [next_seq EXCEPT ![n] = @ + Len(out.emits)]
             /\ pending' = ((pending \ {e}) \ Cancelled(own, n, out.superseded))
                             \cup Children(n, next_seq[n], out.emits)
             /\ executed' = executed \cup {e}
             /\ UNCHANGED failed
        ELSE /\ failed' = TRUE
             /\ UNCHANGED <<lp, next_seq, pending, executed>>

Next == \E e \in pending : Execute(e)

Spec == Init /\ [][Next]_vars

-----------------------------------------------------------------------------

\* Type correctness of the calendar.
TypeOK ==
  /\ lp \in [Node -> State]
  /\ next_seq \in [Node -> Nat]
  /\ pending \subseteq Event
  /\ executed \subseteq Event
  /\ failed \in BOOLEAN

\* Keys allocated per origin are never reused, so the canonical order is total
\* on everything that was ever scheduled (the exactness argument of fel.rs).
UniqueKeys ==
  \A e, f \in pending \cup executed : e.key = f.key => e = f

\* Local causality: nothing pending at an LP precedes an event that LP has
\* already dispatched, so every LP sees its events in canonical key order.
LocalCausality ==
  \A e \in pending, f \in executed : e.target = f.target => Earlier(f, e)

\* An LP is never more than the lookahead ahead of an event still pending at
\* another one, whatever order the LPs have been run in.
WithinLookahead ==
  \A e \in pending, f \in executed :
    e.target # f.target => f.key.time_ns < e.key.time_ns + Lookahead

\* Every key in use is below its origin's next sequence number.
KeysAllocated ==
  \A e \in pending \cup executed : e.key.origin_seq < next_seq[e.key.origin_node]

\* The inductive invariant: LocalCausality survives an arrival from another LP
\* because that LP's past stays within the lookahead.
IInv == TypeOK /\ KeysAllocated /\ UniqueKeys /\ LocalCausality /\ WithinLookahead

\* An LP never dispatches an event that precedes one it has dispatched.
InKeyOrder ==
  [][\A e \in executed' \ executed, f \in executed :
       e.target = f.target => Earlier(f, e)]_vars
=============================================================================
