-------------------------- MODULE CollectiveStages --------------------------
(***************************************************************************)
(* Dependency-gated stages at their hosts (executor/src/scalar.rs and      *)
(* stage_index.rs).  A stage starts once its local predecessors have       *)
(* finished and its inbound predecessors have delivered their bytes.  No   *)
(* state is shared between hosts: a host learns of another host's stage    *)
(* only by what arrives.                                                   *)
(*                                                                         *)
(* A compute stage is a timer; a stage notify is a timer and then a        *)
(* message on the lane of its pair of hosts; a fabric stage is a TCP flow  *)
(* or a RoCE queue pair, of which this module keeps the receiver's         *)
(* frontier and the acknowledged bytes.  Any event that is due may be the  *)
(* next one: delays are not modelled.                                      *)
(***************************************************************************)
EXTENDS Integers, Sequences, FiniteSetsExt

CONSTANT Images   \* images: stages is a table of stages by key

ASSUME ImagesAssumption ==
  \A i \in DOMAIN Images : \A f \in DOMAIN Images[i].stages :
    LET s == Images[i].stages[f]
    IN /\ s.local \cup s.inbound \subseteq DOMAIN Images[i].stages
       /\ s.kind \in {"Compute", "Notify", "Fabric"}
       /\ s.bytes \in Nat /\ (s.kind # "Compute" => s.bytes > 0)

VARIABLES
  image,        \* the image that runs
  stops,        \* the stop time may come before a timer that is started
  stages,       \* by stage: the state of its generator and its dependencies
  releasable,   \* HostStageIndex: unreleased stages whose prerequisites are complete
  delivered,    \* by stage: bytes its target has received in order
  acked,        \* by stage: bytes its source knows to be received
  lanes,        \* by pair of hosts: the notifies that cross
  error         \* a handler has returned an error

vars == <<image, stops, stages, releasable, delivered, acked, lanes, error>>

table == image.stages
Flow  == DOMAIN table
Lane  == {<<table[f].source, table[f].target>> : f \in {f \in Flow : table[f].kind = "Notify"}}

Timed == {f \in Flow : table[f].kind # "Fabric"}
Root  == {f \in Flow : table[f].local = {} /\ table[f].inbound = {}}

local_complete(f, s)   == s.local_completed = Cardinality(table[f].local)
inbound_complete(f, s) == s.inbound_bytes_received = table[f].required
prerequisites_complete(f, s) == local_complete(f, s) /\ inbound_complete(f, s)

IsReleasable(f, s) == ~s.activated /\ prerequisites_complete(f, s)

\* ReleasableStages::refresh of the stages in F.
refresh(R, st, F) == (R \ F) \cup {f \in F : IsReleasable(f, st[f])}

\* Timers that would end after the stop time.
Late(F) == IF stops THEN SUBSET (F \cap Timed) ELSE {{}}

\* Lowering: a stage that waits for nothing starts with the image.
Init ==
  /\ \E i \in DOMAIN Images : image = Images[i]
  /\ stops \in BOOLEAN
  /\ \E late \in Late(Root) :
       stages = [f \in Flow |->
                   [status |-> IF f \in late THEN "Stopped"
                               ELSE IF f \in Root THEN "Scheduled" ELSE "Blocked",
                    activated |-> f \in Root,
                    local_completed |-> 0, inbound_bytes_received |-> 0]]
  /\ releasable = refresh({}, stages, Flow)
  /\ delivered = [f \in Flow |-> 0]
  /\ acked = [f \in Flow |-> 0]
  /\ lanes = [l \in Lane |-> <<>>]
  /\ error = FALSE

-----------------------------------------------------------------------------
(* The stage path of a handler: it records progress, which gives the       *)
(* causes, and then releases what has become ready at its host.            *)

WaitsLocally(st, f) ==
  {g \in Flow : f \in table[g].local /\ ~local_complete(g, st[g])}

complete_local_successors(st, f) ==
  [g \in Flow |-> IF g \in WaitsLocally(st, f) THEN [st[g] EXCEPT !.local_completed = @ + 1]
                  ELSE st[g]]

WaitsForBytes(st, f) ==
  {g \in Flow : f \in table[g].inbound /\ ~inbound_complete(g, st[g])}

record_inbound_progress(st, f, advance) ==
  [g \in Flow |-> IF g \in WaitsForBytes(st, f)
                  THEN [st[g] EXCEPT !.inbound_bytes_received = @ + advance] ELSE st[g]]

\* Mutant: only the first stage in the table is released.
ReadyFirst(h, st, R) ==
  LET F == {f \in R : table[f].source = h /\ st[f].status = "Blocked"}
  IN IF F = {} THEN {} ELSE {CHOOSE f \in F : TRUE}

\* first_ready, repeated: the releasable stages of host h whose generator is blocked.
Ready(h, st, R) == {f \in R : table[f].source = h /\ st[f].status = "Blocked"}

\* activate_wrapped_stage: a timer is started unless it would end after the stop; a
\* fabric stage counts as Scheduled from its first window on, while its sender is armed
\* and while it waits for feedback.
Started(st, F, late) ==
  [f \in Flow |-> IF f \notin F THEN st[f]
                  ELSE [st[f] EXCEPT !.activated = TRUE,
                                     !.status = IF f \in late THEN "Stopped"
                                                ELSE "Scheduled"]]

\* activate_ready_collectives at host h, after the dependencies of the stages in causes
\* were written: every stage that is released has its cause among them, or the handler
\* returns an error, as it does when more bytes arrive than the predecessors send.
activate_ready_collectives(h, st, causes, overflow) ==
  LET known == refresh(releasable, st, causes)
      ready == Ready(h, st, known)
  IN IF causes = {} THEN stages' = st /\ UNCHANGED <<releasable, error>>
     ELSE \E late \in Late(ready) :
            /\ stages' = Started(st, ready, late)
            /\ releasable' = refresh(known, stages', ready)
            /\ error' = (overflow \/ ~(ready \subseteq causes))

\* The generator of f finishes and its local successors count it.
Finish(f) ==
  LET st == [stages EXCEPT ![f].status = "Finished"]
  IN activate_ready_collectives(table[f].source, complete_local_successors(st, f),
                                WaitsLocally(st, f), FALSE)

\* The target of f receives advance more bytes in order.
Arrive(f, advance) ==
  LET st   == record_inbound_progress(stages, f, advance)
      wait == WaitsForBytes(stages, f)
  IN /\ delivered' = [delivered EXCEPT ![f] = @ + advance]
     /\ activate_ready_collectives(table[f].target, st, wait,
          \E g \in wait : st[g].inbound_bytes_received > table[g].required)

-----------------------------------------------------------------------------
(* The events. *)

host_compute_timer(f) ==
  /\ ~error
  /\ table[f].kind = "Compute" /\ stages[f].status = "Scheduled"
  /\ Finish(f)
  /\ UNCHANGED <<image, stops, delivered, acked, lanes>>

host_notify_timer(f) ==
  /\ ~error
  /\ table[f].kind = "Notify" /\ stages[f].status = "Scheduled"
  /\ lanes' = [lanes EXCEPT ![<<table[f].source, table[f].target>>] = Append(@, f)]
  /\ Finish(f)
  /\ UNCHANGED <<image, stops, delivered, acked>>

\* The whole chunk arrives at once; a lane keeps the order of its timers.
host_notify_arrival(l) ==
  /\ ~error
  /\ lanes[l] # <<>>
  /\ lanes' = [lanes EXCEPT ![l] = Tail(@)]
  /\ Arrive(Head(lanes[l]), table[Head(lanes[l])].bytes)
  /\ UNCHANGED <<image, stops, acked>>

\* host_tcp_data_arrival and host_roce_data_arrival: the receiver's frontier advances.
\* A duplicate, or a packet out of order, records an advance of zero: nothing changes.
host_data_arrival(f, advance) ==
  /\ ~error
  /\ table[f].kind = "Fabric" /\ stages[f].activated
  /\ delivered[f] + advance <= table[f].bytes
  /\ Arrive(f, advance)
  /\ UNCHANGED <<image, stops, acked, lanes>>

\* host_tcp_ack_arrival and host_roce_feedback: the acknowledgment that first reaches
\* the total completes the stage.
host_ack_arrival(f, acknowledgment) ==
  /\ ~error
  /\ table[f].kind = "Fabric" /\ stages[f].activated
  /\ acknowledgment \in acked[f] + 1 .. delivered[f]
  /\ acked' = [acked EXCEPT ![f] = acknowledgment]
  /\ IF acknowledgment = table[f].bytes THEN Finish(f)
     ELSE UNCHANGED <<stages, releasable, error>>
  /\ UNCHANGED <<image, stops, delivered, lanes>>

Arrival(f) == \E advance \in 1 .. table[f].bytes : host_data_arrival(f, advance)
Ack(f) == \E acknowledgment \in 1 .. table[f].bytes : host_ack_arrival(f, acknowledgment)

Next ==
  \/ \E f \in Flow : host_compute_timer(f) \/ host_notify_timer(f) \/ Arrival(f) \/ Ack(f)
  \/ \E l \in Lane : host_notify_arrival(l)

\* The calendar runs as long as an event is due, and a reliable transport delivers and
\* acknowledges; every step that changes the state takes the run closer to its end.
Spec == Init /\ [][Next]_vars /\ WF_vars(Next)

-----------------------------------------------------------------------------

Received(F) == MapThenSumSet(LAMBDA f : delivered[f], F)

\* What validate_stage_dependencies, validate_notify_timer, validate_compute_stage and
\* validate_unreleased_tcp_stage accept, of every state between two events: a stage
\* counts exactly the local predecessors that have finished and the bytes that its
\* host has in order of the inbound ones, it is released exactly when these are
\* complete, nothing of it has been sent before, and the index has nothing left to
\* release.  No handler has met a state that it refuses.
StagesExact ==
  /\ ~error
  /\ releasable = {}
  /\ \A f \in Flow :
       LET s == stages[f]
       IN /\ s.status \in {"Blocked", "Scheduled", "Finished", "Stopped"}
          /\ s.local_completed =
               Cardinality({p \in table[f].local : stages[p].status = "Finished"})
          /\ s.inbound_bytes_received = Received(table[f].inbound)
          /\ s.activated = prerequisites_complete(f, s)
          /\ acked[f] <= delivered[f] /\ delivered[f] <= table[f].bytes
          /\ ~s.activated => s.status = "Blocked" /\ delivered[f] = 0
          /\ s.activated => s.status # "Blocked"
          /\ table[f].kind = "Fabric" => (s.status = "Finished") = (acked[f] = table[f].bytes)

\* Unless the stop time cuts it off, every stage of an accepted scenario finishes and
\* every message is delivered: no group of stages waits for itself.
AllStagesComplete ==
  ~stops ~> \A f \in Flow : stages[f].status = "Finished" /\ delivered[f] = table[f].bytes
=============================================================================
