------------------------------ MODULE EventKeys ------------------------------
(***************************************************************************)
(* Canonical event records of executor/src/event.rs and the future-event   *)
(* list of executor/src/fel.rs: the key order every backend must respect,  *)
(* the equal-time phases, and the operations on one owner's pending set.   *)
(***************************************************************************)
EXTENDS Integers, FiniteSets

CONSTANTS
  Node,       \* ids of the logical processes (LPs): hosts and switch egress ports
  Payload,    \* ids carried by events
  MaxTime     \* u64::MAX; MaxTime + 1 is TIME_AFTER_U64_MAX

ASSUME NodeAssumption == Node \subseteq Nat
ASSUME TimeAssumption == MaxTime \in Nat

Time == 0 .. MaxTime

EventKind == {"PacketArrival", "TxReady", "TxComplete", "RemoteArrival",
              "RetransmissionTimeout", "PacingTimer"}

event_phase(kind) ==
  CASE kind \in {"PacketArrival", "RemoteArrival"} -> 0
    [] kind \in {"TxComplete", "RetransmissionTimeout", "PacingTimer"} -> 1
    [] kind = "TxReady" -> 2

EventKey == [time_ns : Time, phase : 0 .. 2, origin_node : Node, origin_seq : Nat]

Event == [key : EventKey, target : Node, kind : EventKind, payload : Payload]

\* Lexicographic order in declaration order.
KeyLess(a, b) ==
  \/ a.time_ns < b.time_ns
  \/ /\ a.time_ns = b.time_ns
     /\ \/ a.phase < b.phase
        \/ /\ a.phase = b.phase
           /\ \/ a.origin_node < b.origin_node
              \/ /\ a.origin_node = b.origin_node
                 /\ a.origin_seq < b.origin_seq

Earlier(e, f) == KeyLess(e.key, f.key)

-----------------------------------------------------------------------------
(* One owner's pending events.  The heap and the ordered map of retransmission
   timeouts of FutureEvents pop the smaller of their two heads, so together
   they are one set whose only order is the key order. *)

\* e is what pop (or pop_first) returns from the pending set S.
IsFirst(e, S) == e \in S /\ \A f \in S \ {e} : Earlier(e, f)

\* The times of the events of S, for peek_key's time comparisons.
Times(S) == {e.key.time_ns : e \in S}

IsMinTime(t, S) == t \in Times(S) /\ \A u \in Times(S) : t <= u

\* SupersededTimer::matches together with the key range it searches.
CarriesTimer(e, node, timer) ==
  /\ e.kind = "RetransmissionTimeout"
  /\ e.target = node
  /\ e.key.origin_node = node
  /\ e.payload = timer.payload
  /\ e.key.time_ns = timer.deadline_ns

\* The event remove_superseded_timer takes out of S: the first carrier.
SupersededIn(S, node, timer) ==
  {e \in S : IsFirst(e, {f \in S : CarriesTimer(f, node, timer)})}

\* is_same_time_tx_ready_continuation: the child may run right after its
\* parent, ahead of everything else pending at the LP.
IsContinuation(parent, child, node, S) ==
  /\ parent.kind = "TxComplete"
  /\ child.target = node
  /\ child.kind = "TxReady"
  /\ child.key.time_ns = parent.key.time_ns
  /\ \A f \in S : Earlier(child, f)
=============================================================================
