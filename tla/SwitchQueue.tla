----------------------------- MODULE SwitchQueue -----------------------------
(***************************************************************************)
(* One egress queue of a switch under FIFO, static priority, deficit or    *)
(* weighted round robin, with priorities that PFC may pause                *)
(* (executor/src/scalar.rs).  A packet's scheduler class is its flow       *)
(* modulo the number of classes; its PFC class is its flow's priority, and *)
(* the two are unrelated.  Admission is by tail drop at a packet capacity  *)
(* or by an ECN ramp; the mark itself travels with the packet, and nothing *)
(* here reads it.                                                          *)
(*                                                                         *)
(* FIFO keeps a PfcClassOrder from its first pause on.  The round robin    *)
(* disciplines select in a loop; each turn of it is a step (scan), and     *)
(* nothing else happens until the loop has found its packet.  WFQ has a    *)
(* module of its own, WfqQueue.                                            *)
(***************************************************************************)
EXTENDS EcnRamp, Sequences, SequencesExt, FiniteSetsExt

CONSTANTS
  Configs,      \* the queues of interest: a scheduler, "Fifo", "StaticPriority",
                \* "DeficitRoundRobin" or "WeightedRoundRobin", a packet capacity, where
                \* 0 is unbounded, and at most one ECN ramp
  ClassCount,
  Value,        \* per class: its priority, quantum in bytes, or weight
  Flow, PfcClassOf,
  Size,
  Payload,      \* handles of the packets that wait or are in service
  MaxSeq,       \* bound: packets numbered by a PfcClassOrder
  MaxDeficit    \* bound: arrivals stop when a deficit has passed it

Class == 0 .. ClassCount - 1
PfcClass == {PfcClassOf[f] : f \in Flow}

ASSUME QueueAssumption ==
  /\ ClassCount \in Nat \ {0} /\ Value \in [Class -> Nat \ {0}]
  /\ Flow \subseteq Nat /\ Size \subseteq Nat \ {0} /\ Payload \subseteq Nat
  /\ \A q \in Configs :
       /\ q.scheduler \in {"Fifo", "StaticPriority", "DeficitRoundRobin", "WeightedRoundRobin"}
       /\ q.queue_capacity_packets \in Nat
       /\ q.ramp \subseteq Policy

VARIABLES
  config,          \* fixed: scheduler, queue_capacity_packets and drop_mark
  queue, in_service, tx_ready_pending,
  paused,          \* PFC classes some controller has paused
  order,           \* the PfcClassOrder, once there is one
  queue_bytes,     \* switch_queue_bytes
  deficits_bytes, packets_sent_in_round, current_class,
  scanning,        \* scheduler_select_position is in its loop
  arrivals         \* history: the waiting payloads in order of arrival

rrVars == <<deficits_bytes, packets_sent_in_round, current_class>>
vars == <<config, queue, in_service, tx_ready_pending, paused, order, queue_bytes,
          rrVars, scanning, arrivals>>

scheduler_class(packet) == packet.flow % ClassCount
packet_pfc_class(packet) == PfcClassOf[packet.flow]
Priority(packet) == Value[scheduler_class(packet)]

-----------------------------------------------------------------------------
\* PfcClassOrder.

NewOrder == [next_seq |-> 0, classes |-> [c \in PfcClass |-> <<>>]]

\* Mutant: a new key goes to the front of its class.
PushFirst(o, c) ==
  [next_seq |-> o.next_seq + 1, classes |-> [o.classes EXCEPT ![c] = <<o.next_seq>> \o @]]

push(o, c) ==
  [next_seq |-> o.next_seq + 1, classes |-> [o.classes EXCEPT ![c] = Append(@, o.next_seq)]]

pop(o, c) == [o EXCEPT !.classes[c] = Tail(@)]

\* ensure_pfc_order: the order of the queue as it stands.
OrderOf(q) == FoldLeft(LAMBDA o, packet : push(o, packet_pfc_class(packet)), NewOrder, q)

\* The position of the first packet whose class is not paused, or 0.
first_unpaused_position(o) ==
  LET fronts == {Head(o.classes[c]) : c \in {d \in PfcClass \ paused : o.classes[d] # <<>>}}
      partition_point(c) == Len(SelectSeq(o.classes[c], LAMBDA key : key < Min(fronts)))
  IN IF fronts = {} THEN 0 ELSE 1 + MapThenSumSet(partition_point, PfcClass)

pfc_first_eligible_by_search(q) ==
  SelectInSeq(q, LAMBDA packet : packet_pfc_class(packet) \notin paused)

\* The position that a head-serving discipline takes, or 0.
pfc_first_eligible ==
  CASE queue = <<>>                            -> 0
    [] queue # <<>> /\ paused = {}             -> 1
    [] queue # <<>> /\ paused # {} /\ order = {} -> pfc_first_eligible_by_search(queue)
    [] OTHER -> first_unpaused_position(CHOOSE o \in order : TRUE)

-----------------------------------------------------------------------------

Init ==
  /\ config \in Configs
  /\ queue = <<>> /\ in_service = {} /\ tx_ready_pending = FALSE
  /\ paused = {} /\ order = {} /\ queue_bytes = 0
  /\ deficits_bytes = [c \in Class |-> 0]
  /\ packets_sent_in_round = [c \in Class |-> 0]
  /\ current_class = 0
  /\ scanning = FALSE
  /\ arrivals = <<>>

Resident == Range(queue) \cup in_service

\* Free packet handles.
Free == Payload \ {p.id : p \in Resident}

\* Mutant: a packet goes before its equals.
InsertionBeforeEquals(packet) ==
  LET lower == {i \in DOMAIN queue : Priority(queue[i]) <= Priority(packet)}
  IN IF lower = {} THEN Len(queue) + 1 ELSE Min(lower)

\* Behind every packet of its own or a higher priority.
switch_sp_insertion_position(packet) ==
  LET lower == {i \in DOMAIN queue : Priority(queue[i]) < Priority(packet)}
  IN IF lower = {} THEN Len(queue) + 1 ELSE Min(lower)

\* Admission: tail drop at the packet capacity, or the drop of the ramp.
Dropped(packet) ==
  IF config.ramp = {}
  THEN config.queue_capacity_packets # 0 /\ Len(queue) + 1 > config.queue_capacity_packets
  ELSE \E p \in config.ramp : DropsAt(p, queue_bytes, packet.size)

Admitted(packet) ==
  LET i == IF config.scheduler = "StaticPriority" THEN switch_sp_insertion_position(packet)
           ELSE Len(queue) + 1
  IN /\ queue' = InsertAt(queue, i, packet)
     /\ queue_bytes' = queue_bytes + packet.size
     /\ order' = {push(o, packet_pfc_class(packet)) : o \in order}
     /\ tx_ready_pending' = \/ tx_ready_pending
                            \/ in_service = {} /\ packet_pfc_class(packet) \notin paused
     /\ arrivals' = Append(arrivals, packet.id)

\* A data packet arrives; a full queue drops it.
switch_remote_arrival(packet) ==
  /\ ~scanning
  /\ packet.id \in Free /\ packet.id = Min(Free)
  /\ \A o \in order : o.next_seq < MaxSeq
  /\ \A c \in Class : deficits_bytes[c] <= MaxDeficit
  /\ IF Dropped(packet)
     THEN UNCHANGED <<queue, queue_bytes, order, tx_ready_pending, arrivals>>
     ELSE Admitted(packet)
  /\ UNCHANGED <<config, in_service, paused, rrVars, scanning>>

\* A PAUSE or RESUME that changes whether the class is paused.
switch_pfc_remote_arrival(c) ==
  /\ ~scanning
  /\ paused' = IF c \in paused THEN paused \ {c} ELSE paused \cup {c}
  /\ order' = IF config.scheduler = "Fifo" /\ c \notin paused /\ order = {} THEN {OrderOf(queue)}
              ELSE order
  /\ tx_ready_pending' =
       \/ tx_ready_pending
       \/ /\ c \in paused /\ in_service = {}
          /\ \E i \in DOMAIN queue : packet_pfc_class(queue[i]) \notin paused'
  /\ UNCHANGED <<config, queue, in_service, queue_bytes, rrVars, scanning, arrivals>>

\* The packet at position i enters service.
Serve(i) ==
  /\ queue' = RemoveAt(queue, i)
  /\ in_service' = {queue[i]}
  /\ queue_bytes' = queue_bytes - queue[i].size
  /\ order' = {pop(o, packet_pfc_class(queue[i])) : o \in order}
  /\ arrivals' = SelectSeq(arrivals, LAMBDA id : id # queue[i].id)

ServesHead == config.scheduler \in {"Fifo", "StaticPriority"}

Eligible == {i \in DOMAIN queue : packet_pfc_class(queue[i]) \notin paused}

\* TxReady: a head-serving discipline takes its packet, a round robin one starts
\* to look for it, and neither does anything when every packet is paused.
switch_tx_ready ==
  /\ ~scanning /\ tx_ready_pending /\ in_service = {}
  /\ tx_ready_pending' = FALSE
  /\ IF ServesHead /\ pfc_first_eligible # 0 THEN Serve(pfc_first_eligible)
     ELSE UNCHANGED <<queue, in_service, queue_bytes, order, arrivals>>
  /\ scanning' = (~ServesHead /\ Eligible # {})
  /\ UNCHANGED <<config, paused, rrVars>>

\* The first eligible packet of the current class, if it has one.
OfCurrentClass ==
  LET same == {i \in Eligible : scheduler_class(queue[i]) = current_class}
  IN IF same = {} THEN {} ELSE {Min(same)}

Take(i) ==
  /\ Serve(i)
  /\ scanning' = FALSE
  /\ UNCHANGED <<config, tx_ready_pending, paused, current_class>>

\* Mutant: a round gives a class its quantum and forgets what it had.
RefilledToQuantum(c) ==
  IF \E i \in Eligible : scheduler_class(queue[i]) = c THEN Value[c] ELSE 0

\* The deficit of a class at the end of a round.
Refilled(c) ==
  IF \E i \in Eligible : scheduler_class(queue[i]) = c
  THEN deficits_bytes[c] + Value[c] ELSE 0

drr_scan ==
  LET affordable == {i \in OfCurrentClass : queue[i].size <= deficits_bytes[current_class]}
      last == current_class = ClassCount - 1
  IN /\ scanning /\ config.scheduler = "DeficitRoundRobin"
     /\ \/ \E i \in affordable :
             /\ Take(i)
             /\ deficits_bytes' = [deficits_bytes EXCEPT ![current_class] = @ - queue[i].size]
             /\ UNCHANGED packets_sent_in_round
        \/ /\ affordable = {}
           /\ deficits_bytes' = IF last THEN [c \in Class |-> Refilled(c)] ELSE deficits_bytes
           /\ current_class' = IF last THEN 0 ELSE current_class + 1
           /\ UNCHANGED <<config, queue, in_service, tx_ready_pending, paused, order, queue_bytes,
                          packets_sent_in_round, scanning, arrivals>>

\* The round of the current class is over.
Leave == [packets_sent_in_round EXCEPT ![current_class] = 0]

wrr_scan ==
  LET allowed == IF packets_sent_in_round[current_class] < Value[current_class]
                 THEN OfCurrentClass ELSE {}
  IN /\ scanning /\ config.scheduler = "WeightedRoundRobin"
     /\ \/ \E i \in allowed :
             /\ Take(i)
             /\ packets_sent_in_round' = [packets_sent_in_round EXCEPT ![current_class] = @ + 1]
             /\ UNCHANGED deficits_bytes
        \/ /\ allowed = {}
           /\ packets_sent_in_round' = Leave
           /\ current_class' = (current_class + 1) % ClassCount
           /\ UNCHANGED <<config, queue, in_service, tx_ready_pending, paused, order, queue_bytes,
                          deficits_bytes, scanning, arrivals>>

switch_tx_complete ==
  /\ ~scanning /\ in_service # {}
  /\ in_service' = {}
  /\ tx_ready_pending' = (tx_ready_pending \/ pfc_first_eligible # 0)
  /\ UNCHANGED <<config, queue, paused, order, queue_bytes, rrVars, scanning, arrivals>>

Step == switch_tx_ready \/ drr_scan \/ wrr_scan \/ switch_tx_complete

Next ==
  \/ Step
  \/ \E packet \in [id : Payload, flow : Flow, size : Size] : switch_remote_arrival(packet)
  \/ \E c \in PfcClass : switch_pfc_remote_arrival(c)

Spec == Init /\ [][Next]_vars

\* The transmitter runs: due events are dispatched.
FairSpec == Spec /\ WF_vars(Step)

-----------------------------------------------------------------------------

\* Type correctness.
TypeOK ==
  /\ config \in Configs
  /\ queue \in Seq([id : Payload, flow : Flow, size : Size])
  /\ in_service \subseteq [id : Payload, flow : Flow, size : Size] /\ Cardinality(in_service) <= 1
  /\ tx_ready_pending \in BOOLEAN /\ scanning \in BOOLEAN
  /\ paused \subseteq PfcClass
  /\ queue_bytes \in Nat
  /\ deficits_bytes \in [Class -> Nat]
  /\ packets_sent_in_round \in [Class -> Nat]
  /\ current_class \in Class

\* debug_assert_switch_queue_aux: the byte counter and the class order, kept
\* through every admission and service, are those of the queue's contents, and
\* the order answers as a search from the head does.  With a ramp the bytes stay
\* within its capacity.  Under WRR only the class whose turn it is has sent
\* anything in this round.  The state keeps its types.
AuxiliaryExact ==
  /\ TypeOK
  /\ queue_bytes = FoldSeq(LAMBDA p, sum : sum + p.size, 0, queue)
  /\ \A p \in config.ramp : queue_bytes <= p.capacity_bytes
  /\ \A o \in order :
       /\ \A c \in PfcClass :
            Len(o.classes[c]) = Len(SelectSeq(queue, LAMBDA p : packet_pfc_class(p) = c))
       /\ first_unpaused_position(o) = pfc_first_eligible_by_search(queue)
  /\ \A c \in Class :
       /\ packets_sent_in_round[c] <= Value[c]
       /\ packets_sent_in_round[c] # 0 => c = current_class

\* The header of ecn_ramp.rs: a queue with a ramp marks an arrival with the exact
\* probability of its depth.
RampIsExact == \A p \in config.ramp : MarksExactly(p)

ArrivedBefore(p, q) ==
  \E i, j \in DOMAIN arrivals : i < j /\ arrivals[i] = p.id /\ arrivals[j] = q.id

\* What enters service is right for its discipline, and is not paused, whatever
\* was scheduled before a PAUSE.  Under FIFO it is the oldest packet that is not
\* paused; under static priority the oldest of the highest priority; under round
\* robin the oldest of its class.
ServesInOrder ==
  [][\A p \in in_service' \ in_service :
       /\ packet_pfc_class(p) \notin paused
       /\ \A r \in {queue[j] : j \in Eligible} \ {p} :
            CASE config.scheduler = "Fifo" -> ArrivedBefore(p, r)
              [] config.scheduler = "StaticPriority" ->
                   \/ Priority(p) > Priority(r)
                   \/ Priority(p) = Priority(r) /\ ArrivedBefore(p, r)
              [] OTHER -> scheduler_class(p) = scheduler_class(r) => ArrivedBefore(p, r)]_vars

\* No starvation: under FIFO and round robin every packet that waits is served,
\* if its class is in the end left unpaused; its handle is free again and again.
NoStarvation ==
  config.scheduler # "StaticPriority" /\ <>[](paused = {}) =>
    \A id \in Payload : []<>(id \in Free)

\* What validate_scheduler_state reserves for a deficit: a quantum, and all but a
\* byte of the largest frame.
DeficitWithinReserve ==
  \A c \in Class : deficits_bytes[c] <= Value[c] + Max(Size) - 1
=============================================================================
