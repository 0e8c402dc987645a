---------------------------- MODULE RoceQueuePair ----------------------------
(***************************************************************************)
(* One RoCE queue pair (executor/src/roce.rs and the host_roce_* handlers  *)
(* of executor/src/scalar.rs): a Go-back-N sender paced on a time grid,    *)
(* its receiver, the feedback they exchange through a network that may     *)
(* lose packets, and the PFC pauses of the sender's host.                  *)
(*                                                                         *)
(* The sender owns two kinds of pending events, its pacing tick and its    *)
(* retransmission timeout; calendar holds them in the order they were      *)
(* emitted, which is the order of their keys at one instant.  Arrivals     *)
(* have phase 0 and timers phase 1: at one instant arrivals come first.    *)
(*                                                                         *)
(* The DCQCN controller is abstracted to the rate it leaves: a handler     *)
(* that materialises it, or feeds it an ECN echo, may change the rate.     *)
(***************************************************************************)
EXTENDS Integers, Sequences, SequencesExt

CONSTANTS
  TotalBytes, MtuBytes,
  Rates,              \* credit in bytes that one tick may earn
  PacingInterval, FirstPacing,
  NackInterval,
  Configs,            \* the transport configurations of interest
  Controllers,        \* LPs that may pause the data class at the sender's host
  StopTime

VARIABLES
  config,         \* fixed: rto_ns and window_bytes, which 0 turns off, variable_window
                  \* (the window scales with the rate), ack_every_packets, and
                  \* duplicate_ack (a packet below the frontier is answered with an ACK)
  now,
  timers_ran,     \* a phase-1 event has been dispatched at this instant
  qp,             \* RoceGenerator with its generator's next_emission
  calendar,       \* pending ticks and timeouts of the sender, in emission order
  paused_by,      \* HostPfcState.paused_by_controller of the data class
  pause_parked,   \* the pair is in HostPfcState.pause_parked
  receiver,       \* RoceReceiverState
  data,           \* data packets in flight, in order
  feedback,       \* ACKs and NACKs in flight, in order
  arrived,        \* history: the packets that have reached the receiver
  error           \* "none", or the ExecutionError or assertion that stopped the run

hostVars == <<paused_by, pause_parked>>
netVars  == <<data, feedback>>
vars == <<config, now, timers_ran, qp, calendar, paused_by, pause_parked, receiver, data, feedback,
          arrived, error>>

MaxRate == CHOOSE r \in Rates : \A s \in Rates : s <= r

\* What the validator asks of a pair's configuration.
PairAssumption ==
  /\ TotalBytes \in Nat \ {0} /\ MtuBytes \in Nat \ {0} /\ PacingInterval \in Nat \ {0}
  /\ Rates \subseteq Nat \ {0} /\ Rates # {}
  /\ \A c \in Configs :
       /\ c.variable_window => c.window_bytes # 0
       /\ c.rto_ns # 0 => c.duplicate_ack

-----------------------------------------------------------------------------
(* roce.rs *)

packet_size(psn) == IF MtuBytes < TotalBytes - psn THEN MtuBytes ELSE TotalBytes - psn

window_bytes(q) ==
  IF ~config.variable_window THEN config.window_bytes
  ELSE LET scaled == (config.window_bytes * q.rate) \div MaxRate
       IN IF scaled = 0 THEN 1 ELSE scaled

window_bound(q) == config.window_bytes # 0 /\ q.next_psn - q.snd_una >= window_bytes(q)

HasPackets(q) == q.next_psn < TotalBytes
Complete(q)   == q.snd_una >= TotalBytes

armed_status(q) ==
  IF HasPackets(q) /\ ~window_bound(q) /\ q.credit + q.rate >= packet_size(q.next_psn)
  THEN "Scheduled" ELSE "Blocked"

settled_status(q, parked_status) ==
  IF Complete(q) THEN "Finished"
  ELSE IF q.pacer_armed THEN armed_status(q) ELSE parked_status

\* The first point of the pacing grid strictly after t.
restart_time_ns(t) ==
  IF t < FirstPacing THEN FirstPacing
  ELSE FirstPacing + ((t - FirstPacing) \div PacingInterval + 1) * PacingInterval

\* Mutant: a packet beyond the frontier is accepted.
ReceiveOutOfOrder(r, p) ==
  [state  |-> [r EXCEPT !.expected_psn = IF p.psn < @ THEN @ ELSE p.psn + packet_size(p.psn)],
   answer |-> {"ack"}]

\* Go-back-N receiver: the state after packet p, and what it answers.
receive(r, p) ==
  IF p.psn = r.expected_psn
  THEN LET next == r.expected_psn + packet_size(p.psn)
           acks == r.packets_since_ack + 1 >= config.ack_every_packets \/ next = TotalBytes
       IN [state  |-> [r EXCEPT !.expected_psn = next,
                                !.packets_since_ack = IF acks THEN 0 ELSE @ + 1],
           answer |-> IF acks THEN {"ack"} ELSE {}]
  ELSE IF p.psn < r.expected_psn
  THEN IF config.duplicate_ack
       THEN [state |-> [r EXCEPT !.packets_since_ack = 0], answer |-> {"ack"}]
       ELSE [state |-> r, answer |-> {}]
  ELSE IF \E mark \in r.last_nack :
            mark.expected_psn = r.expected_psn /\ now < mark.time_ns + NackInterval
  THEN [state |-> r, answer |-> {}]
  ELSE [state  |-> [r EXCEPT !.last_nack = {[expected_psn |-> r.expected_psn, time_ns |-> now]},
                             !.packets_since_ack = 0],
        answer |-> {"nack"}]

-----------------------------------------------------------------------------
(* Helpers of the handlers. *)

Tick(t)    == [kind |-> "PacingTimer", time_ns |-> t]
Timeout(t) == [kind |-> "RetransmissionTimeout", time_ns |-> t]

\* Mutant: the pacer restarts but still counts as parked.
RestartStillParked(q) ==
  LET t == restart_time_ns(now)
  IN IF q.pacer_armed \/ ~HasPackets(q) \/ Complete(q) THEN q
     ELSE IF t <= StopTime
     THEN [q EXCEPT !.departure = t, !.pacer_armed = TRUE]
     ELSE [q EXCEPT !.departure = t, !.status = "Stopped"]

\* restart_roce_pacer: a parked pacer with packets to send restarts on its next
\* grid point, or stops beyond the stop time.
restart_roce_pacer(q) ==
  LET woken == [q EXCEPT !.window_parked = FALSE]
      t     == restart_time_ns(now)
  IN IF q.pacer_armed \/ ~HasPackets(q) \/ Complete(q) THEN woken
     ELSE IF t <= StopTime
     THEN [woken EXCEPT !.departure = t, !.pacer_armed = TRUE]
     ELSE [woken EXCEPT !.departure = t, !.status = "Stopped"]

\* Mutant: the pacer is armed but its tick is never emitted.
NoTick(q, r) == <<>>

\* The tick that turning q into r has to emit.
NewTick(q, r) == IF ~q.pacer_armed /\ r.pacer_armed THEN <<Tick(r.departure)>> ELSE <<>>

settle_roce_sender(q, parked_status) ==
  [q EXCEPT !.status = settled_status(q, parked_status)]

\* leave_parked_list: the pair stays listed only while it could be restarted.
leave_parked_list(q) ==
  pause_parked /\ ~q.pacer_armed /\ q.status # "Stopped" /\ HasPackets(q) /\ ~Complete(q)

\* dcqcn_materialize and on_feedback: the rates they may leave.
Rematerialized(q) == IF Complete(q) THEN {q} ELSE {[q EXCEPT !.rate = r] : r \in Rates}

Fail(what) ==
  /\ error' = what
  /\ UNCHANGED <<config, now, timers_ran, qp, calendar, hostVars, receiver, netVars, arrived>>

-----------------------------------------------------------------------------

Init ==
  /\ config \in Configs
  /\ now = 0
  /\ timers_ran = FALSE
  /\ \E r \in Rates :
       qp = LET fresh == [next_psn |-> 0, snd_una |-> 0, bytes_emitted |-> 0,
                          rto_deadline |-> 0, credit |-> 0, rate |-> r,
                          pacer_armed |-> TRUE, departure |-> FirstPacing,
                          window_parked |-> FALSE, status |-> "Blocked"]
            IN settle_roce_sender(fresh, "Blocked")
  /\ calendar = <<Tick(FirstPacing)>>
  /\ paused_by = {}
  /\ pause_parked = FALSE
  /\ receiver = [expected_psn |-> 0, packets_since_ack |-> 0, last_nack |-> {}]
  /\ data = <<>>
  /\ feedback = <<>>
  /\ arrived = {}
  /\ error = "none"

\* The position of the sender's next event.
IsNextEvent(i) ==
  \A j \in DOMAIN calendar : \/ calendar[i].time_ns < calendar[j].time_ns
                             \/ calendar[i].time_ns = calendar[j].time_ns /\ i <= j

\* The instant ends when nothing is left to do in it.
Advance ==
  /\ now < StopTime
  /\ \A i \in DOMAIN calendar : calendar[i].time_ns > now
  /\ now' = now + 1
  /\ timers_ran' = FALSE
  /\ UNCHANGED <<config, qp, calendar, hostVars, receiver, netVars, arrived, error>>

Due(i, kind) ==
  /\ calendar[i].kind = kind
  /\ calendar[i].time_ns = now
  /\ IsNextEvent(i)

\* The credit of this tick covers the packet at next_psn.
Sends(q) == HasPackets(q) /\ q.credit + q.rate >= packet_size(q.next_psn)

\* Nothing is outstanding, so the packet sent arms the timeout.
ArmsTimeout(q) == Sends(q) /\ config.rto_ns # 0 /\ q.snd_una >= q.bytes_emitted

\* One tick of credit, and the packet when it is covered; bytes_emitted is the
\* high-water mark of first transmissions.
Paced(q) ==
  LET size == packet_size(q.next_psn)
      next == q.next_psn + size
  IN IF ~HasPackets(q) THEN q
     ELSE IF ~Sends(q) THEN [q EXCEPT !.credit = @ + q.rate]
     ELSE [q EXCEPT !.credit = @ + q.rate - size,
                    !.next_psn = next,
                    !.bytes_emitted = IF q.next_psn < @ THEN @ ELSE next,
                    !.rto_deadline = IF ArmsTimeout(q) THEN now + config.rto_ns ELSE @]

Rearmed(q) ==
  IF ~HasPackets(q) THEN settle_roce_sender(q, "Blocked")
  ELSE LET next == now + PacingInterval IN
       settle_roce_sender([q EXCEPT !.departure = next, !.pacer_armed = next <= StopTime],
                          IF next <= StopTime THEN "Blocked" ELSE "Stopped")

\* host_roce_pacing_timer.
host_roce_pacing_timer(i) ==
  /\ Due(i, "PacingTimer")
  /\ IF ~qp.pacer_armed \/ qp.departure # now THEN Fail("UnexpectedGeneratorEmission")
     ELSE \E q \in Rematerialized([qp EXCEPT !.pacer_armed = FALSE]) :
       LET rest == RemoveAt(calendar, i) IN
       /\ timers_ran' = TRUE
       /\ UNCHANGED <<config, now, paused_by, receiver, feedback, arrived, error>>
       /\ IF paused_by # {}
          THEN /\ pause_parked' = (pause_parked \/ (HasPackets(q) /\ ~Complete(q)))
               /\ qp' = settle_roce_sender(q, "Blocked")
               /\ calendar' = rest
               /\ UNCHANGED data
          ELSE IF HasPackets(q) /\ window_bound(q)
          THEN /\ qp' = settle_roce_sender([q EXCEPT !.window_parked = TRUE], "Blocked")
               /\ calendar' = rest
               /\ UNCHANGED <<data, pause_parked>>
          ELSE LET final == Rearmed(Paced(q)) IN
               /\ qp' = final
               /\ calendar' = rest \o NewTick(q, final)
                    \o (IF ArmsTimeout(q) THEN <<Timeout(final.rto_deadline)>> ELSE <<>>)
               /\ data' = IF Sends(q)
                          THEN Append(data, [psn |-> q.next_psn, sent_ns |-> now]) ELSE data
               /\ UNCHANGED pause_parked

\* The sender's state after a fresh ACK or NACK.
Acknowledged(q, ack, nack) ==
  LET una == IF ack > q.snd_una THEN ack ELSE q.snd_una
      nxt == IF nack \/ q.next_psn < una THEN una ELSE q.next_psn
  IN [q EXCEPT !.snd_una = una, !.next_psn = nxt,
               !.rto_deadline = IF config.rto_ns # 0 /\ una < q.bytes_emitted THEN now + config.rto_ns ELSE 0]

\* host_roce_feedback_arrival.
host_roce_feedback_arrival ==
  /\ feedback # <<>>
  /\ ~timers_ran
  /\ Head(feedback).sent_ns < now
  /\ LET f     == Head(feedback)
         nack  == f.kind = "nack"
         stale == IF nack THEN f.ack < qp.snd_una ELSE f.ack <= qp.snd_una
         held  == SelectInSeq(calendar, LAMBDA e : e = Timeout(qp.rto_deadline))
         armed == config.rto_ns # 0 /\ qp.snd_una < qp.bytes_emitted
     IN IF f.ack > qp.bytes_emitted THEN Fail("InconsistentRocePacket")
        ELSE IF ~stale /\ armed /\ held = 0 THEN Fail("SupersededTimerMissing")
        ELSE \E q \in Rematerialized(qp) :
          LET acked == Acknowledged(q, f.ack, nack)
              woken == IF stale THEN q ELSE restart_roce_pacer(acked)
              final == settle_roce_sender(woken, woken.status)
          IN /\ qp' = final
             /\ pause_parked' = leave_parked_list(final)
             /\ feedback' = Tail(feedback)
             /\ calendar' = IF stale THEN calendar
                            ELSE (IF armed THEN RemoveAt(calendar, held) ELSE calendar)
                              \o NewTick(q, woken)
                              \o (IF woken.rto_deadline # 0
                                  THEN <<Timeout(woken.rto_deadline)>> ELSE <<>>)
             /\ UNCHANGED <<config, now, timers_ran, paused_by, receiver, data, arrived, error>>

\* host_roce_timeout: Go-back-N rewinds and the timeout re-arms.
host_roce_timeout(i) ==
  /\ Due(i, "RetransmissionTimeout")
  /\ IF ~(config.rto_ns # 0 /\ qp.snd_una < qp.bytes_emitted /\ qp.rto_deadline = now)
     THEN Fail("SupersededTimeoutSurvived")
     ELSE \E q \in Rematerialized(qp) :
       LET rewound == [q EXCEPT !.next_psn = q.snd_una, !.rto_deadline = now + config.rto_ns]
           woken   == restart_roce_pacer(rewound)
           final   == settle_roce_sender(woken, woken.status)
       IN /\ qp' = final
          /\ pause_parked' = leave_parked_list(final)
          /\ calendar' = RemoveAt(calendar, i) \o NewTick(q, woken)
                           \o <<Timeout(rewound.rto_deadline)>>
          /\ timers_ran' = TRUE
          /\ UNCHANGED <<config, now, paused_by, receiver, netVars, arrived, error>>

\* host_roce_data_arrival.
host_roce_data_arrival ==
  /\ data # <<>>
  /\ Head(data).sent_ns < now
  /\ LET got == receive(receiver, Head(data))
     IN /\ receiver' = got.state
        /\ feedback' = feedback \o SetToSeq({[kind |-> a, ack |-> got.state.expected_psn,
                                              sent_ns |-> now] : a \in got.answer})
  /\ data' = Tail(data)
  /\ arrived' = arrived \cup {Head(data).psn}
  /\ UNCHANGED <<config, now, timers_ran, qp, calendar, hostVars, error>>

\* host_pfc_remote_arrival: the end of the last pause restarts a parked pair.
host_pfc_remote_arrival(c, pause) ==
  /\ ~timers_ran
  /\ paused_by' = IF pause THEN paused_by \cup {c} ELSE paused_by \ {c}
  /\ IF ~pause /\ paused_by = {c} /\ pause_parked
     THEN \E q \in Rematerialized(qp) :
            LET woken == restart_roce_pacer(q) IN
            /\ qp' = settle_roce_sender(woken, woken.status)
            /\ calendar' = calendar \o NewTick(q, woken)
            /\ pause_parked' = FALSE
     ELSE UNCHANGED <<qp, calendar, pause_parked>>
  /\ UNCHANGED <<config, now, timers_ran, receiver, netVars, arrived, error>>

\* The network loses a packet.
Lose ==
  /\ \/ data # <<>> /\ data' = Tail(data) /\ UNCHANGED feedback
     \/ feedback # <<>> /\ feedback' = Tail(feedback) /\ UNCHANGED data
  /\ UNCHANGED <<config, now, timers_ran, qp, calendar, hostVars, receiver, arrived, error>>

Next ==
  /\ error = "none"
  /\ \/ Advance
     \/ \E i \in DOMAIN calendar : host_roce_pacing_timer(i) \/ host_roce_timeout(i)
     \/ host_roce_feedback_arrival
     \/ host_roce_data_arrival
     \/ \E c \in Controllers : \E pause \in BOOLEAN : host_pfc_remote_arrival(c, pause)
     \/ Lose

Spec == Init /\ [][Next]_vars

-----------------------------------------------------------------------------

Pending(kind) == SelectSeq(calendar, LAMBDA e : e.kind = kind)

Outstanding == qp.bytes_emitted - qp.snd_una

OnGrid(t) == t >= FirstPacing /\ (t - FirstPacing) % PacingInterval = 0

roce_boundary(psn) == psn = TotalBytes \/ (psn < TotalBytes /\ psn % MtuBytes = 0)

\* Type correctness of the queue pair.
TypeOK ==
  /\ config \in Configs
  /\ now \in 0 .. StopTime
  /\ timers_ran \in BOOLEAN
  /\ qp \in [next_psn : 0 .. TotalBytes, snd_una : 0 .. TotalBytes,
             bytes_emitted : 0 .. TotalBytes, rto_deadline : Nat, credit : Nat,
             rate : Rates, pacer_armed : BOOLEAN, departure : Nat,
             window_parked : BOOLEAN,
             status : {"Scheduled", "Blocked", "Stopped", "Finished"}]
  /\ calendar \in Seq([kind : {"PacingTimer", "RetransmissionTimeout"}, time_ns : Nat])
  /\ paused_by \subseteq Controllers
  /\ pause_parked \in BOOLEAN
  /\ receiver \in [expected_psn : 0 .. TotalBytes, packets_since_ack : Nat,
                   last_nack : SUBSET [expected_psn : 0 .. TotalBytes, time_ns : Nat]]
  /\ arrived \subseteq 0 .. TotalBytes
  /\ data \in Seq([psn : 0 .. TotalBytes, sent_ns : Nat])
  /\ feedback \in Seq([kind : {"ack", "nack"}, ack : 0 .. TotalBytes, sent_ns : Nat])

\* The host's parked list holds exactly the pairs that the RESUME has to restart
\* (expected_pause_parked).
ParkedListExact ==
  pause_parked <=>
    /\ paused_by # {} /\ ~qp.pacer_armed /\ ~qp.window_parked
    /\ qp.status # "Stopped" /\ HasPackets(qp) /\ ~Complete(qp)

\* validate_roce_generator: a checkpoint taken anywhere in a run is an image the
\* validator accepts.  Sequence numbers are ordered packet boundaries; the pacer
\* is armed iff exactly one tick is pending, on the grid, and the status predicts
\* it; a pacer parks with packets left only for a closed window or a paused
\* class; the timeout is pending, once, iff data is outstanding; the parked list
\* is exact: one pair too few never sends again, one too many is restarted
\* although it waits for its window.  No handler has met a state it refuses: a
\* tick never finds its pacer disarmed, feedback never acknowledges what was not
\* sent, a superseded timeout never survives the transition that supersedes it
\* (the debug_assert of host_roce_timeout).  The state keeps its types.
SenderIsValid ==
  LET complete == qp.snd_una = TotalBytes
      ticks    == Pending("PacingTimer")
      timeouts == Pending("RetransmissionTimeout")
  IN /\ TypeOK
     /\ error = "none"
     /\ ParkedListExact
     /\ qp.snd_una <= qp.next_psn /\ qp.next_psn <= qp.bytes_emitted
     /\ \A psn \in {qp.snd_una, qp.next_psn, qp.bytes_emitted} : roce_boundary(psn)
     /\ (qp.status = "Finished") <=> complete
     /\ qp.window_parked => /\ config.window_bytes # 0 /\ ~qp.pacer_armed /\ qp.status = "Blocked"
                            /\ HasPackets(qp) /\ qp.snd_una < qp.next_psn
     /\ IF qp.pacer_armed
        THEN /\ ticks = <<Tick(qp.departure)>> /\ OnGrid(qp.departure)
             /\ qp.status # "Stopped"
             /\ HasPackets(qp) /\ ~complete => qp.status = armed_status(qp)
        ELSE /\ ticks = <<>> /\ qp.status # "Scheduled"
             /\ qp.status = "Blocked" /\ HasPackets(qp)
                  => qp.window_parked \/ paused_by # {}
     /\ qp.status = "Stopped" => qp.departure > StopTime
     /\ timeouts = IF config.rto_ns = 0 \/ Outstanding = 0 THEN <<>> ELSE <<Timeout(qp.rto_deadline)>>
     /\ config.rto_ns = 0 \/ Outstanding = 0 => qp.rto_deadline = 0

\* The receiver and what is in flight agree with the sender, whatever was lost:
\* acknowledged <= frontier <= sent, everything below the frontier has arrived,
\* every packet in flight is one the sender named, no feedback passes the
\* frontier, and only an ACK can reach the total (so exactly one completes a
\* stage).
ReceiverAgrees ==
  /\ qp.snd_una <= receiver.expected_psn /\ receiver.expected_psn <= qp.bytes_emitted
  /\ roce_boundary(receiver.expected_psn)
  /\ \A psn \in 0 .. receiver.expected_psn - 1 : psn % MtuBytes = 0 => psn \in arrived
  /\ receiver.packets_since_ack < config.ack_every_packets
  /\ \A mark \in receiver.last_nack : mark.expected_psn <= receiver.expected_psn
  /\ \A i \in DOMAIN data : roce_boundary(data[i].psn) /\ data[i].psn < qp.bytes_emitted
  /\ \A i \in DOMAIN feedback :
       /\ roce_boundary(feedback[i].ack) /\ feedback[i].ack <= receiver.expected_psn
       /\ feedback[i].kind = "nack" => feedback[i].ack < TotalBytes

\* With the timeout on, an unfinished pair always has something that will move
\* it: a pending tick or timeout, or a place in the list the RESUME restarts.
NoStall ==
  config.rto_ns # 0 /\ ~Complete(qp) /\ qp.status # "Stopped" =>
    calendar # <<>> \/ (pause_parked /\ paused_by # {})
=============================================================================
