--------------------------- MODULE ScalarCalendar ---------------------------
(***************************************************************************)
(* run_scalar_events (executor/src/scalar.rs), the canonical executor: one *)
(* global future-event list, popped in key order.  The list is FutureEvents*)
(* of executor/src/fel.rs: retransmission timeouts in an ordered map, from *)
(* which a superseded timer can be removed, every other kind in a heap.    *)
(***************************************************************************)
EXTENDS Transitions

VARIABLES lp, next_seq, heap, timers, executed,
          result      \* "running", then "done" or the ExecutionError

vars == <<lp, next_seq, heap, timers, executed, result>>

events == heap \cup timers

TimersOf(S) == {e \in S : e.kind = "RetransmissionTimeout"}

\* initial_event_queue
Init ==
  \E image \in Images :
    /\ lp = image.lp
    /\ next_seq = image.next_seq
    /\ heap = image.events \ TimersOf(image.events)
    /\ timers = TimersOf(image.events)
    /\ executed = {}
    /\ result = "running"

\* What pop takes from one of the two containers.
Least(S) == {e \in S : \A f \in S : ~Earlier(f, e)}

\* Mutant: the heap is served before the timers.
PoppedHeapFirst(e) ==
  \/ e \in Least(timers) /\ heap = {}
  \/ e \in Least(heap)

\* pop takes a timer only when it is strictly smaller than the heap's head.
Popped(e) ==
  \/ e \in Least(timers) /\ \A f \in Least(heap) : Earlier(e, f)
  \/ e \in Least(heap) /\ ~\E f \in Least(timers) : Earlier(f, e)

Fail(error) ==
  /\ result' = error
  /\ UNCHANGED <<lp, next_seq, heap, timers, executed>>

Duplicate(e) == \E f \in events \ {e} : f.key = e.key

\* insert sees a duplicate only among the retransmission timeouts.
InsertClash(e) ==
  LET n   == e.target
      out == OutcomeOf(lp[n], e)
      new == TimersOf(Children(n, next_seq[n], out.emits))
  IN \E c \in new, f \in (timers \ {e}) \ Cancelled(timers \ {e}, n, out.superseded) :
       c.key = f.key

Dispatched(e) ==
  LET n   == e.target
      out == OutcomeOf(lp[n], e)
      new == Children(n, next_seq[n], out.emits)
  IN /\ lp' = [lp EXCEPT ![n] = out.state]
     /\ next_seq' = [next_seq EXCEPT ![n] = @ + Len(out.emits)]
     /\ timers' = ((timers \ {e}) \ Cancelled(timers \ {e}, n, out.superseded))
                    \cup TimersOf(new)
     /\ heap' = (heap \ {e}) \cup (new \ TimersOf(new))
     /\ executed' = executed \cup {e}
     /\ UNCHANGED result

\* One iteration of the event loop.
Step(e) ==
  /\ result = "running"
  /\ Popped(e)
  /\ e.key.time_ns < RunEnd
  /\ IF Duplicate(e) THEN Fail("DuplicateEventKey")
     ELSE IF ~Succeeds(lp[e.target], next_seq[e.target], e, timers \ {e})
     THEN Fail("DispatchError")
     ELSE IF InsertClash(e) THEN Fail("DuplicateEventKey")
     ELSE Dispatched(e)

\* The loop ends; into_sorted_vec reports a pair of equal keys still pending.
Finish ==
  /\ result = "running"
  /\ \A e \in events : e.key.time_ns >= RunEnd
  /\ result' = IF \E e \in events : Duplicate(e) THEN "DuplicateEventKey" ELSE "done"
  /\ UNCHANGED <<lp, next_seq, heap, timers, executed>>

Next == (\E e \in events : Step(e)) \/ Finish

Spec == Init /\ [][Next]_vars

-----------------------------------------------------------------------------

Causal == INSTANCE CausalCalendar WITH
  pending <- events,
  failed  <- result = "DispatchError"

\* The canonical order is one of the orders CausalCalendar allows.
ImplementsCausalCalendar == Causal!Spec

\* Type correctness, with the split between the two containers.
TypeOK ==
  /\ lp \in [Node -> State]
  /\ next_seq \in [Node -> Nat]
  /\ heap \subseteq Event
  /\ timers \subseteq Event
  /\ TimersOf(heap) = {}
  /\ TimersOf(timers) = timers
  /\ executed \subseteq Event
  /\ result \in {"running", "done", "DispatchError", "DuplicateEventKey"}

\* The keys of two containers never clash, although insert looks for duplicates
\* in only one of them and the others would surface when popped or drained: the
\* run keeps its types, with each kind of event in its own container.
NoDuplicateKey == TypeOK /\ result # "DuplicateEventKey"

\* The events of the run are dispatched in canonical key order across all LPs,
\* whichever of the two containers each came from.
CanonicalOrder ==
  [][\A e \in executed' \ executed, f \in executed : Earlier(f, e)]_vars
=============================================================================
