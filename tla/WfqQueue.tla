------------------------------ MODULE WfqQueue ------------------------------
(***************************************************************************)
(* Weighted fair queueing at one egress queue (wfq_enqueue, wfq_complete   *)
(* and wfq_advance_virtual_time of executor/src/scalar.rs), with           *)
(* priorities that PFC may pause.                                          *)
(*                                                                         *)
(* The rationals of the code are exact.  Here they are integers in units   *)
(* of 1 / Scale, where Scale is a multiple of every weight and of every    *)
(* sum of weights, so that no division truncates; bits per second and      *)
(* bytes are reduced to bytes per ns.  Time is what passed since the last  *)
(* update of the scheduler.                                                *)
(***************************************************************************)
EXTENDS Integers, FiniteSets, Sequences, SequencesExt, FiniteSetsExt

CONSTANTS
  Weights,        \* per class
  Flow, PfcClassOf,
  Size, Rate,
  Payload,
  Scale,
  MaxVirtual,     \* bound: arrivals stop when virtual time has passed it
  MaxIdle         \* bound: the time counted while nothing is in service

Class == DOMAIN Weights
PfcClass == {PfcClassOf[f] : f \in Flow}
Packet == [id : Payload, flow : Flow, size : Size]

ASSUME WfqAssumption ==
  /\ \A c \in Class : Weights[c] \in Nat \ {0}
  /\ \A classes \in SUBSET Class \ {{}} :
       Scale % MapThenSumSet(LAMBDA c : Weights[c], classes) = 0

VARIABLES
  queue, in_service, left, tx_ready_pending, paused,
  virtual_time, finish_times, active_packets, packet_finish_times,
  elapsed,      \* the time since last_updated_ns
  settled,      \* the arrivals of this instant are over
  arrivals      \* history: the waiting payloads in order of arrival

wfqVars == <<virtual_time, finish_times, active_packets, packet_finish_times, elapsed>>
vars == <<queue, in_service, left, tx_ready_pending, paused, wfqVars, settled, arrivals>>

scheduler_class(packet) == packet.flow % Cardinality(Class)
packet_pfc_class(packet) == PfcClassOf[packet.flow]
Eligible == {i \in DOMAIN queue : packet_pfc_class(queue[i]) \notin paused}

IdleScheduler == \A c \in Class : active_packets[c] = 0

Init ==
  /\ queue = <<>> /\ in_service = {} /\ left = 0 /\ tx_ready_pending = FALSE /\ paused = {}
  /\ virtual_time = 0
  /\ finish_times = [c \in Class |-> 0]
  /\ active_packets = [c \in Class |-> 0]
  /\ packet_finish_times = <<>>
  /\ elapsed = 0 /\ settled = FALSE
  /\ arrivals = <<>>

wfq_active_weight_sum ==
  MapThenSumSet(LAMBDA c : Weights[c], {c \in Class : active_packets[c] # 0})

\* Virtual time at this instant, while some packet is resident.
wfq_advance_virtual_time ==
  virtual_time + (elapsed * Rate * Scale) \div wfq_active_weight_sum

AtLeast(a, b) == IF a < b THEN b ELSE a

\* The finish tag of an arrival: after its class and not before virtual time.
FinishTag(packet) ==
  LET c == scheduler_class(packet)
      start == IF IdleScheduler THEN 0 ELSE AtLeast(wfq_advance_virtual_time, finish_times[c])
  IN start + (packet.size * Scale) \div Weights[c]

\* Mutant: before the packets with the same tag.
InsertBeforeEqual(finish) ==
  LET later == {i \in DOMAIN queue : packet_finish_times[queue[i].id] >= finish}
  IN IF later = {} THEN Len(queue) + 1 ELSE Min(later)

\* Behind every packet whose tag is not greater.
InsertPosition(finish) ==
  LET later == {i \in DOMAIN queue : packet_finish_times[queue[i].id] > finish}
  IN IF later = {} THEN Len(queue) + 1 ELSE Min(later)

\* A packet joins; the first one starts a busy period at time 0.
wfq_enqueue(packet) ==
  LET c == scheduler_class(packet)
      finish == FinishTag(packet)
      others == IF IdleScheduler THEN [d \in Class |-> 0] ELSE finish_times
  IN /\ virtual_time' = IF IdleScheduler THEN 0 ELSE wfq_advance_virtual_time
     /\ finish_times' = [others EXCEPT ![c] = finish]
     /\ packet_finish_times' = [id \in DOMAIN packet_finish_times \cup {packet.id} |->
                                  IF id = packet.id THEN finish ELSE packet_finish_times[id]]
     /\ queue' = InsertAt(queue, InsertPosition(finish), packet)
     /\ active_packets' = [active_packets EXCEPT ![c] = @ + 1]
     /\ elapsed' = 0

\* Arrivals are of phase 0: they precede the other events of an instant.
switch_remote_arrival(packet) ==
  /\ ~settled
  /\ packet.id \notin DOMAIN packet_finish_times
  /\ virtual_time <= MaxVirtual
  /\ wfq_enqueue(packet)
  /\ tx_ready_pending' = \/ tx_ready_pending
                         \/ in_service = {} /\ packet_pfc_class(packet) \notin paused
  /\ arrivals' = Append(arrivals, packet.id)
  /\ UNCHANGED <<in_service, left, paused, settled>>

switch_pfc_remote_arrival(c) ==
  /\ ~settled
  /\ paused' = IF c \in paused THEN paused \ {c} ELSE paused \cup {c}
  /\ tx_ready_pending' =
       \/ tx_ready_pending
       \/ /\ c \in paused /\ in_service = {}
          /\ \E i \in DOMAIN queue : packet_pfc_class(queue[i]) \notin paused'
  /\ UNCHANGED <<queue, in_service, left, wfqVars, settled, arrivals>>

\* The first packet that is not paused is served; the scheduler is left alone.
switch_tx_ready ==
  /\ tx_ready_pending /\ in_service = {}
  /\ tx_ready_pending' = FALSE /\ settled' = TRUE
  /\ IF Eligible = {} THEN UNCHANGED <<queue, in_service, left, arrivals>>
     ELSE LET i == Min(Eligible)
          IN /\ queue' = RemoveAt(queue, i)
             /\ in_service' = {queue[i]}
             /\ left' = (queue[i].size + Rate - 1) \div Rate
             /\ arrivals' = SelectSeq(arrivals, LAMBDA id : id # queue[i].id)
  /\ UNCHANGED <<paused, wfqVars>>

\* Mutant: an idle scheduler keeps its virtual time.
CompleteKeepingTime(packet) ==
  LET c == scheduler_class(packet)
  IN /\ active_packets' = [active_packets EXCEPT ![c] = @ - 1]
     /\ virtual_time' = wfq_advance_virtual_time
     /\ finish_times' = finish_times
     /\ packet_finish_times' = [id \in DOMAIN packet_finish_times \ {packet.id} |->
                                  packet_finish_times[id]]
     /\ elapsed' = 0

\* A packet has left; the last one resets virtual time and its own class.
wfq_complete(packet) ==
  LET c == scheduler_class(packet)
      active == [active_packets EXCEPT ![c] = @ - 1]
      idle == \A d \in Class : active[d] = 0
  IN /\ active_packets' = active
     /\ virtual_time' = IF idle THEN 0 ELSE wfq_advance_virtual_time
     /\ finish_times' = IF idle THEN [finish_times EXCEPT ![c] = 0] ELSE finish_times
     /\ packet_finish_times' = [id \in DOMAIN packet_finish_times \ {packet.id} |->
                                  packet_finish_times[id]]
     /\ elapsed' = 0

switch_tx_complete ==
  /\ left = 0
  /\ \E packet \in in_service : wfq_complete(packet)
  /\ in_service' = {} /\ settled' = TRUE
  /\ tx_ready_pending' = (tx_ready_pending \/ Eligible # {})
  /\ UNCHANGED <<queue, left, paused, arrivals>>

\* Time passes when no event is due.
Advance ==
  /\ ~tx_ready_pending
  /\ in_service # {} => left > 0
  /\ left' = IF in_service # {} THEN left - 1 ELSE left
  /\ settled' = FALSE
  /\ elapsed' = IF in_service = {} /\ elapsed >= MaxIdle THEN elapsed ELSE elapsed + 1
  /\ UNCHANGED <<queue, in_service, tx_ready_pending, paused, virtual_time, finish_times,
                 active_packets, packet_finish_times, arrivals>>

Next ==
  \/ \E packet \in Packet : switch_remote_arrival(packet)
  \/ \E c \in PfcClass : switch_pfc_remote_arrival(c)
  \/ switch_tx_ready
  \/ switch_tx_complete
  \/ Advance

Spec == Init /\ [][Next]_vars

-----------------------------------------------------------------------------

Resident == Range(queue) \cup in_service
Tag(packet) == packet_finish_times[packet.id]

\* Type correctness.
TypeOK ==
  /\ queue \in Seq(Packet) /\ in_service \in SUBSET Packet /\ Cardinality(in_service) <= 1
  /\ left \in Nat /\ elapsed \in Nat /\ virtual_time \in Nat
  /\ tx_ready_pending \in BOOLEAN /\ settled \in BOOLEAN /\ paused \subseteq PfcClass
  /\ finish_times \in [Class -> Nat] /\ active_packets \in [Class -> Nat]
  /\ \A id \in DOMAIN packet_finish_times : packet_finish_times[id] \in Nat \ {0}

\* What validate_scheduler_state asks of a WFQ queue, up to the finish state of a
\* class: tags and counts are those of the resident packets, the queue is ordered by
\* tag, no tag passes the finish state of its class, and an idle queue is at time 0.
\* The state keeps its types.
SchedulerIsValid ==
  /\ TypeOK
  /\ DOMAIN packet_finish_times = {p.id : p \in Resident}
  /\ \A c \in Class :
       active_packets[c] = Cardinality({p \in Resident : scheduler_class(p) = c})
  /\ IdleScheduler => virtual_time = 0
  /\ \A i, j \in DOMAIN queue : i < j => Tag(queue[i]) <= Tag(queue[j])
  /\ \A p \in Range(queue) : Tag(p) <= finish_times[scheduler_class(p)]

\* What validate_scheduler_state also asks: the finish state of a class is the tag of
\* its last waiting packet or, when none waits, of its packet in service.
FinishStateIsValid ==
  \A c \in Class :
    LET waiting == {p \in Range(queue) : scheduler_class(p) = c}
        serving == {p \in in_service : scheduler_class(p) = c}
    IN /\ waiting # {} => finish_times[c] = Max({Tag(p) : p \in waiting})
       /\ waiting = {} => \A p \in serving : Tag(p) = finish_times[c]

Before(p, q) == Tag(p) < Tag(q)
ArrivedBefore(p, q) ==
  \E i, j \in DOMAIN arrivals : i < j /\ arrivals[i] = p.id /\ arrivals[j] = q.id
Rivals == {queue[i] : i \in Eligible}

\* The packet that enters service has the least finish tag of those that are not
\* paused and, of those with that tag, arrived first; those of one class leave in
\* the order in which they arrived, whatever virtual time did in between.
ServesLeastTag ==
  [][\A p \in in_service' \ in_service :
       /\ p \in Rivals
       /\ \A q \in Rivals \ {p} :
            /\ Before(p, q) \/ (Tag(p) = Tag(q) /\ ArrivedBefore(p, q))
            /\ scheduler_class(p) = scheduler_class(q) => ArrivedBefore(p, q)]_vars
=============================================================================
