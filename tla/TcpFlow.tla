------------------------------ MODULE TcpFlow ------------------------------
(***************************************************************************)
(* One TCP flow of executor/src/scalar.rs: the sender with its Reno        *)
(* controller (tcp.rs: windows in bytes, slow start, congestion avoidance  *)
(* by byte counting and NewReno fast recovery; the saturation of sums at   *)
(* 2^64 is left out), its ledger of unacknowledged segments                *)
(* (tcp_ledger.rs) and its retransmission timer, the receiver with its     *)
(* out-of-order ranges, and the network between them.  Packets of one flow *)
(* follow one route in order, and may be lost.                             *)
(*                                                                         *)
(* Time is left out: a timer may expire whenever it is pending, before or  *)
(* after the answer it waits for.  Timeout events are told apart only by   *)
(* being the armed one or not, so they are counted.                        *)
(***************************************************************************)
EXTENDS Integers, Sequences, SequencesExt, FiniteSetsExt

CONSTANTS
  Mss,
  InitialSsthresh,
  Total,        \* total_bytes
  Preloads,     \* bytes an image may have in flight besides its scheduled segment
  MaxLosses,    \* bound: packets the network loses
  MaxSpurious   \* bound: timeouts while something is in the network

ASSUME TcpAssumption ==
  /\ Mss \in Nat \ {0} /\ InitialSsthresh \in Nat \ {0} /\ Total \in Nat \ {0}
  /\ \A preloaded \in Preloads : preloaded \in 0 .. Total - 1 /\ preloaded % Mss = 0
  /\ MaxLosses \in Nat /\ MaxSpurious \in Nat

VARIABLES
  status,       \* next_emission.status
  tcp,          \* the TcpGenerator
  ledger,       \* tcp_sent_segments: sequence -> size
  timeouts,     \* RetransmissionTimeout events in the queue
  data, acks,   \* the network, in order
  next_expected_sequence, out_of_order,
  losses, spurious,
  delivered,    \* history: bytes that reached the receiver
  completions   \* history: ACKs that completed the flow

network == <<data, acks>>
receiver == <<next_expected_sequence, out_of_order>>
vars == <<status, tcp, ledger, timeouts, data, acks, receiver, losses, spurious,
          delivered, completions>>

-----------------------------------------------------------------------------
\* The controller, as operators on its state.

AtLeast(a, b) == IF a < b THEN b ELSE a
AtMost(a, b) == IF a < b THEN a ELSE b

TcpPhase == {"SlowStart", "CongestionAvoidance", "FastRecovery"}

TcpReno ==
  [cwnd_bytes : Nat, ssthresh_bytes : Nat, phase : TcpPhase, duplicate_acks : Nat,
   recovery_high_sequence : Nat, ca_credit : Nat]

reno ==
  [cwnd_bytes |-> 2 * Mss, ssthresh_bytes |-> InitialSsthresh, phase |-> "SlowStart",
   duplicate_acks |-> 0, recovery_high_sequence |-> 0, ca_credit |-> 0]

on_recovery_exit(c) ==
  [c EXCEPT !.cwnd_bytes = AtLeast(c.ssthresh_bytes, Mss), !.phase = "CongestionAvoidance",
            !.duplicate_acks = 0, !.recovery_high_sequence = 0, !.ca_credit = 0]

\* The windows that credit pays for, each of them one segment larger than the last.
WindowsPaid(cwnd, credit) ==
  LET price(n) == n * cwnd + Mss * ((n * (n - 1)) \div 2)
  IN CHOOSE n \in 0 .. credit : price(n) <= credit /\ credit < price(n + 1)

SlowStartAck(c, acknowledged) ==
  LET cwnd == c.cwnd_bytes + AtMost(Mss, acknowledged)
  IN IF cwnd >= c.ssthresh_bytes
     THEN [c EXCEPT !.cwnd_bytes = c.ssthresh_bytes, !.phase = "CongestionAvoidance",
                    !.ca_credit = 0]
     ELSE [c EXCEPT !.cwnd_bytes = cwnd]

AvoidanceAck(c, acknowledged) ==
  LET credit == c.ca_credit + acknowledged
      n == WindowsPaid(c.cwnd_bytes, credit)
  IN [c EXCEPT !.cwnd_bytes = @ + n * Mss,
               !.ca_credit = credit - (n * c.cwnd_bytes + Mss * ((n * (n - 1)) \div 2))]

\* A full ACK ends recovery; a partial one deflates the window.
RecoveryAck(c, acknowledgment) ==
  IF c.recovery_high_sequence # 0 /\ acknowledgment >= c.recovery_high_sequence
  THEN on_recovery_exit(c)
  ELSE [c EXCEPT !.cwnd_bytes = c.ssthresh_bytes + Mss]

on_new_ack(control, acknowledged, acknowledgment) ==
  LET c == [control EXCEPT !.duplicate_acks = 0]
  IN CASE c.phase = "SlowStart"           -> SlowStartAck(c, acknowledged)
       [] c.phase = "CongestionAvoidance" -> AvoidanceAck(c, acknowledged)
       [] c.phase = "FastRecovery"        -> RecoveryAck(c, acknowledgment)

HalfFlight(flight) == AtLeast(flight \div 2, 2 * Mss)

on_fast_retransmit(c, flight) ==
  [c EXCEPT !.ssthresh_bytes = HalfFlight(flight), !.cwnd_bytes = HalfFlight(flight) + 3 * Mss,
            !.phase = "FastRecovery", !.ca_credit = 0]

on_more_duplicate_ack(c) ==
  IF c.phase = "FastRecovery" THEN [c EXCEPT !.cwnd_bytes = @ + Mss] ELSE c

\* The third duplicate is the signal to retransmit, the later ones inflate the window.
on_duplicate_ack(control, flight) ==
  LET c == [control EXCEPT !.duplicate_acks = @ + 1]
  IN CASE c.duplicate_acks = 3 -> on_fast_retransmit(c, flight)
       [] c.duplicate_acks > 3 -> on_more_duplicate_ack(c)
       [] OTHER                -> c

on_timeout(c, flight) ==
  [c EXCEPT !.ssthresh_bytes = HalfFlight(flight), !.cwnd_bytes = Mss, !.phase = "SlowStart",
            !.duplicate_acks = 0, !.recovery_high_sequence = 0, !.ca_credit = 0]

-----------------------------------------------------------------------------

FreshSize(sequence) == AtMost(Mss, Total - sequence)

Segment(sequence, size) == [sequence |-> sequence, size |-> size]

-----------------------------------------------------------------------------
\* The ledger.

seed_segment(l, packet) ==
  [s \in DOMAIN l \cup {packet.sequence} |-> IF s = packet.sequence THEN packet.size ELSE l[s]]

\* Mutant: a segment that is acknowledged in part goes as a whole.
AcknowledgeWhole(l, acknowledgment) ==
  [s \in {t \in DOMAIN l : t >= acknowledgment} |-> l[s]]

\* Segments below the acknowledgment go; what it leaves of the last one stays.
acknowledge_segments(l, acknowledgment) ==
  LET below == {s \in DOMAIN l : s < acknowledgment}
      rest == [s \in DOMAIN l \ below |-> l[s]]
      last == Max(below)
      left == last + l[last] - acknowledgment
  IN IF below # {} /\ left > 0 /\ acknowledgment \notin DOMAIN rest
     THEN seed_segment(rest, Segment(acknowledgment, left))
     ELSE rest

-----------------------------------------------------------------------------
\* The sender.

\* Mutant: a timer is armed only until the first byte is acknowledged.
ArmedOnce(t, preserve) ==
  IF ~preserve /\ t.active_timer = {} /\ t.bytes_in_flight # 0 /\ t.highest_ack = 0
  THEN [t EXCEPT !.active_timer = {t.highest_ack}] ELSE t

\* A flow with data in flight and no timer arms one for its oldest byte.
Armed(t, preserve) ==
  IF ~preserve /\ t.active_timer = {} /\ t.bytes_in_flight # 0
  THEN [t EXCEPT !.active_timer = {t.highest_ack}] ELSE t

\* The bytes of fresh data that the window admits.
Allowance(t) ==
  AtMost(AtLeast(t.control.cwnd_bytes - t.bytes_in_flight, 0), Total - t.next_sequence)

\* The loop of prepare_tcp_attempts: segments of one MSS, the last one what is left.
FreshSegments(t) ==
  [k \in 1 .. ((Allowance(t) + Mss - 1) \div Mss) |->
     Segment(t.next_sequence + (k - 1) * Mss, AtMost(Mss, Allowance(t) - (k - 1) * Mss))]

Sent(t) == [t EXCEPT !.next_sequence = @ + Allowance(t), !.bytes_in_flight = @ + Allowance(t)]

StatusAfter(t) == IF t.highest_ack >= Total THEN "Finished" ELSE "Blocked"

\* prepare_tcp_attempts and install_tcp_attempts, from the sender t, the ledger l and
\* p pending timeouts: retransmit holds the sequence to send again, if any.
SendAttempts(t, l, p, retransmit, fill, preserve) ==
  LET again == SetToSeq({Segment(s, l[s]) : s \in {r \in retransmit : r < Total}})
      fresh == IF fill THEN FreshSegments(t) ELSE <<>>
      sent == Armed(IF fill THEN Sent(t) ELSE t, preserve)
  IN IF ~(retransmit \subseteq DOMAIN l)
     THEN status' = "MissingTcpSegment" /\ UNCHANGED <<tcp, ledger, timeouts, data>>
     ELSE /\ tcp' = sent
          /\ ledger' = FoldLeft(seed_segment, l, again \o fresh)
          /\ timeouts' = p + Cardinality(sent.active_timer \ t.active_timer)
          /\ data' = data \o again \o fresh
          /\ status' = IF preserve THEN status ELSE StatusAfter(sent)

\* A flow with its first segment scheduled; the image may hold earlier ones in flight,
\* and the ACK of a receiver that has a part of the first of them.
Init ==
  /\ status = "Scheduled"
  /\ \E preloaded \in Preloads :
       /\ tcp = [next_sequence |-> preloaded, highest_ack |-> 0, bytes_in_flight |-> preloaded,
                 recovery_high_sequence |-> 0, active_timer |-> {}, control |-> reno]
       /\ data = [k \in 1 .. preloaded \div Mss |-> Segment((k - 1) * Mss, Mss)]
       /\ ledger = [s \in {k * Mss : k \in 0 .. preloaded \div Mss} |-> FreshSize(s)]
       /\ next_expected_sequence \in IF preloaded = 0 THEN {0} ELSE 0 .. Mss - 1
  /\ timeouts = 0 /\ out_of_order = <<>>
  /\ acks = IF next_expected_sequence = 0 THEN <<>> ELSE <<next_expected_sequence>>
  /\ delivered = 0 .. next_expected_sequence - 1
  /\ losses = 0 /\ spurious = 0 /\ completions = 0

\* The scheduled segment departs, and the window is filled behind it.
host_tcp_initial_send ==
  LET first == Segment(tcp.next_sequence, FreshSize(tcp.next_sequence))
      t == [tcp EXCEPT !.next_sequence = @ + first.size, !.bytes_in_flight = @ + first.size]
      fresh == FreshSegments(t)
      sent == Armed(Sent(t), FALSE)
  IN /\ status = "Scheduled"
     /\ tcp' = sent
     /\ ledger' = FoldLeft(seed_segment, ledger, <<first>> \o fresh)
     /\ timeouts' = timeouts + Cardinality(sent.active_timer \ t.active_timer)
     /\ data' = data \o <<first>> \o fresh
     /\ status' = StatusAfter(sent)
     /\ UNCHANGED <<acks, receiver, losses, spurious, delivered, completions>>

\* Mutant: the event of a timer that is replaced stays in the queue.
NothingCancelled(t) == timeouts

\* A timer that stops being the armed one leaves the queue (cancel_superseded_timer).
Cancelled(t) == timeouts - Cardinality(t.active_timer)

\* What an ACK of everything up to acknowledgment does to the sender.
NewAck(acknowledgment) ==
  LET bytes == acknowledgment - tcp.highest_ack
      control == on_new_ack(tcp.control, bytes, acknowledgment)
      t == [tcp EXCEPT !.control = control, !.bytes_in_flight = AtLeast(@ - bytes, 0),
                       !.highest_ack = acknowledgment, !.active_timer = {}]
      l == acknowledge_segments(ledger, acknowledgment)
      retransmit == IF control.phase = "FastRecovery" /\ acknowledgment < tcp.recovery_high_sequence
                    THEN {acknowledgment} ELSE {}
      scheduled == status = "Scheduled"
  IN /\ IF scheduled /\ retransmit = {}
        THEN /\ tcp' = t /\ ledger' = l /\ timeouts' = Cancelled(tcp)
             /\ UNCHANGED <<status, data>>
        ELSE SendAttempts(t, l, Cancelled(tcp), retransmit,
                          acknowledgment < Total /\ ~scheduled, scheduled)
     /\ completions' = IF acknowledgment >= Total THEN completions + 1 ELSE completions

\* The third duplicate sends the oldest segment again, with a new timer.
DuplicateAck ==
  LET control == on_duplicate_ack(tcp.control, tcp.bytes_in_flight)
      third == control.duplicate_acks = 3
      t == IF third
           THEN [tcp EXCEPT !.control = [control EXCEPT !.recovery_high_sequence = tcp.next_sequence],
                            !.recovery_high_sequence = tcp.next_sequence, !.active_timer = {}]
           ELSE [tcp EXCEPT !.control = control]
      scheduled == status = "Scheduled"
  IN /\ IF scheduled /\ ~third
        THEN tcp' = t /\ UNCHANGED <<ledger, timeouts, status, data>>
        ELSE SendAttempts(t, ledger, IF third THEN Cancelled(tcp) ELSE timeouts,
                          IF third THEN {tcp.highest_ack} ELSE {},
                          control.duplicate_acks > 3 /\ ~scheduled, scheduled)
     /\ UNCHANGED completions

host_tcp_ack_arrival ==
  LET acknowledgment == AtMost(Head(acks), tcp.next_sequence)
  IN /\ acks # <<>>
     /\ acks' = Tail(acks)
     /\ CASE acknowledgment > tcp.highest_ack -> NewAck(acknowledgment)
          [] /\ acknowledgment = tcp.highest_ack /\ tcp.highest_ack < Total
             /\ tcp.bytes_in_flight # 0 -> DuplicateAck
          [] OTHER -> UNCHANGED <<tcp, ledger, timeouts, data, status, completions>>
     /\ UNCHANGED <<receiver, losses, spurious, delivered>>

\* The event of the armed timer sends the oldest segment again; any other is ignored.
host_retransmission_timeout ==
  LET t == [tcp EXCEPT !.active_timer = {}, !.control = on_timeout(@, tcp.bytes_in_flight)]
  IN /\ timeouts > 0
     /\ \/ network = <<<<>>, <<>>>> /\ UNCHANGED spurious
        \/ network # <<<<>>, <<>>>> /\ spurious < MaxSpurious /\ spurious' = spurious + 1
     /\ IF tcp.active_timer = {}
        THEN timeouts' = timeouts - 1 /\ UNCHANGED <<tcp, ledger, data, status>>
        ELSE SendAttempts(t, ledger, timeouts - 1, {tcp.highest_ack}, FALSE, FALSE)
     /\ UNCHANGED <<acks, receiver, losses, delivered, completions>>

-----------------------------------------------------------------------------
\* The receiver.

ReceiveRange(start, end) == [start |-> start, end |-> end]

RangeBefore(a, b) ==
  \/ a.start < b.start
  \/ a.start = b.start /\ a.end < b.end

\* Mutant: ranges that only touch are kept apart, and so is the frontier.
MergeOverlapping(merged, range) ==
  LET last == merged[Len(merged)]
  IN IF merged # <<>> /\ range.start < last.end
     THEN [merged EXCEPT ![Len(merged)].end = AtLeast(last.end, range.end)]
     ELSE Append(merged, range)

\* One turn of the merging loop over ranges in order.
MergeRange(merged, range) ==
  LET last == merged[Len(merged)]
  IN IF merged # <<>> /\ range.start <= last.end
     THEN [merged EXCEPT ![Len(merged)].end = AtLeast(last.end, range.end)]
     ELSE Append(merged, range)

\* The frontier after the ranges that reach it.
Frontier(next, range) == IF range.start <= next THEN AtLeast(next, range.end) ELSE next

tcp_receive_range(start, end) ==
  LET merged == FoldLeft(MergeRange, <<>>, SortSeq(Append(out_of_order, ReceiveRange(start, end)), RangeBefore))
      next == FoldLeft(Frontier, next_expected_sequence, merged)
  IN IF end <= start \/ end <= next_expected_sequence
     THEN UNCHANGED receiver
     ELSE /\ next_expected_sequence' = next
          /\ out_of_order' = SelectSeq(merged, LAMBDA r : r.start > next)

\* Every segment is acknowledged with the frontier, also one that was there before.
host_tcp_data_arrival ==
  /\ data # <<>>
  /\ data' = Tail(data)
  /\ tcp_receive_range(Head(data).sequence, Head(data).sequence + Head(data).size)
  /\ acks' = Append(acks, next_expected_sequence')
  /\ delivered' = delivered \cup (Head(data).sequence .. Head(data).sequence + Head(data).size - 1)
  /\ UNCHANGED <<status, tcp, ledger, timeouts, losses, spurious, completions>>

\* A queue on the way drops a packet.
Lose ==
  /\ losses < MaxLosses
  /\ losses' = losses + 1
  /\ \/ data # <<>> /\ data' = Tail(data) /\ UNCHANGED acks
     \/ acks # <<>> /\ acks' = Tail(acks) /\ UNCHANGED data
  /\ UNCHANGED <<status, tcp, ledger, timeouts, receiver, spurious, delivered, completions>>

Step ==
  \/ host_tcp_initial_send
  \/ host_tcp_data_arrival
  \/ host_tcp_ack_arrival
  \/ host_retransmission_timeout

Next == Step \/ Lose

Spec == Init /\ [][Next]_vars

\* Events are dispatched and the network delivers what it does not lose.
FairSpec == Spec /\ WF_vars(Step)

-----------------------------------------------------------------------------

Byte == 0 .. Total - 1

\* Type correctness.
TypeOK ==
  /\ status \in {"Scheduled", "Blocked", "Finished"}
  /\ tcp.next_sequence \in 0 .. Total /\ tcp.highest_ack \in 0 .. Total
  /\ tcp.bytes_in_flight \in 0 .. Total /\ tcp.recovery_high_sequence \in 0 .. Total
  /\ tcp.active_timer \subseteq Byte /\ tcp.control \in TcpReno
  /\ DOMAIN ledger \subseteq Byte /\ timeouts \in Nat
  /\ next_expected_sequence \in 0 .. Total

Covers(l, from, to) ==
  /\ \A s \in DOMAIN l : from <= s /\ s + l[s] <= to /\ l[s] > 0
  /\ \A b \in from .. to - 1 : Cardinality({s \in DOMAIN l : s <= b /\ b < s + l[s]}) = 1

\* The ledger cuts the unacknowledged bytes, with those of a scheduled segment and no
\* others, into segments, so every sequence that recovery asks for is there
\* (validate_tcp_segment_ledger; prepare_tcp_attempts fails otherwise).  In recovery
\* the bounds of the generator and of the controller agree and lie within what was
\* sent and is not acknowledged.  The state keeps its types.
LedgerCoversFlight ==
  /\ TypeOK
  /\ tcp.bytes_in_flight = tcp.next_sequence - tcp.highest_ack
  /\ Covers(ledger, tcp.highest_ack,
            tcp.next_sequence + IF status = "Scheduled" THEN FreshSize(tcp.next_sequence) ELSE 0)
  /\ tcp.control.phase = "FastRecovery" =>
       /\ tcp.control.recovery_high_sequence = tcp.recovery_high_sequence
       /\ tcp.highest_ack < tcp.recovery_high_sequence
       /\ tcp.recovery_high_sequence <= tcp.next_sequence

\* validate_blocked_tcp_timer and the cases around it: a blocked flow has data in
\* flight and one armed timer for its oldest byte, a scheduled or finished one has
\* none, and no other timeout is in the queue (the superseded one never survives).
TimerGuardsFlight ==
  /\ status = "Blocked" => tcp.bytes_in_flight > 0 /\ tcp.active_timer = {tcp.highest_ack}
  /\ status # "Blocked" => tcp.active_timer = {}
  /\ timeouts = Cardinality(tcp.active_timer)

\* tcp_receive_range against the bytes that arrived: the frontier is the first missing
\* one, and the ranges are exactly the others, apart from each other and in order.
\* What the sender takes for delivered was delivered, across losses, retransmissions
\* and timeouts that come before their answer; the flow finishes once.
DeliveryIsExact ==
  LET beyond == {b \in delivered : b > next_expected_sequence}
  IN /\ 0 .. next_expected_sequence - 1 \subseteq delivered
     /\ next_expected_sequence \notin delivered
     /\ beyond = UNION {r.start .. r.end - 1 : r \in Range(out_of_order)}
     /\ \A i \in DOMAIN out_of_order : out_of_order[i].start < out_of_order[i].end
     /\ \A i \in 1 .. Len(out_of_order) - 1 : out_of_order[i].end < out_of_order[i + 1].start
     /\ \A a \in {tcp.highest_ack} \cup Range(acks) : a <= next_expected_sequence
     /\ next_expected_sequence <= tcp.next_sequence
     /\ status = "Finished" <=> tcp.highest_ack = Total
     /\ completions = IF status = "Finished" THEN 1 ELSE 0

\* With finitely many losses every byte is acknowledged, however losses, duplicate
\* ACKs and spurious timeouts interleave.
EventuallyFinished == <>(status = "Finished")
=============================================================================
