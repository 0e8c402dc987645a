----------------------------- MODULE LedgerRing -----------------------------
(***************************************************************************)
(* The segment ledger of one TCP flow on a device (executor/src/           *)
(* metal_kernels.metal, cuda_kernels.cu, tcp_ledger_ring.rs): the          *)
(* unacknowledged segments in ascending order, in a ring with room for     *)
(* capacity records, where the CPU has an ordered map (tcp_ledger.rs).     *)
(* The host decodes the ring into the map that the state hashes cover.     *)
(*                                                                         *)
(* A record is its sequence, its size and the packet it was sent as.       *)
(***************************************************************************)
EXTENDS Integers, FiniteSetsExt, Functions

CONSTANTS
  Capacities,     \* capacities the ring is planned with
  MaxSequence,    \* bound: the last sequence of a segment
  SegmentBytes,   \* the size of a segment that was not cut by an acknowledgment
  Packet          \* identities of packets

VARIABLES
  capacity, head, count, high_water,
  slots,          \* the records, by physical slot; a slot that was left keeps its record
  segments,       \* the map that the CPU executors keep
  outcome         \* of the last operation, on the ring and on the map

ringVars == <<capacity, head, count, high_water, slots, segments, outcome>>

Zeroed == [sequence |-> 0, size |-> 0, packet |-> 0]

Span == IF capacity = 0 THEN 1 ELSE capacity

\* Mutant: the last slot is taken for the one after it.
SlotPastEnd(logical) ==
  LET physical == head + logical
  IN IF physical > Span THEN physical - Span ELSE physical

tcp_ledger_slot(logical) ==
  LET physical == head + logical
  IN IF physical >= Span THEN physical - Span ELSE physical

RecordAt(logical) == slots[tcp_ledger_slot(logical)]

\* Binary search over the window.
tcp_ledger_lower_bound(sequence) ==
  LET search[low \in 0 .. count, high \in 0 .. count] ==
        LET mid == low + (high - low) \div 2
        IN IF low >= high THEN low
           ELSE IF RecordAt(mid).sequence < sequence THEN search[mid + 1, high]
           ELSE search[low, mid]
  IN search[0, count]

\* Seeded from an image: the flow has whole segments in flight, from 0 on.
RingInit ==
  /\ capacity \in Capacities
  /\ count \in {n \in 0 .. capacity : n * SegmentBytes <= MaxSequence}
  /\ head = 0
  /\ high_water = count
  /\ slots = [i \in 0 .. Span - 1 |->
                IF i < count THEN [sequence |-> i * SegmentBytes, size |-> SegmentBytes, packet |-> 0]
                ELSE Zeroed]
  /\ segments = [s \in {i * SegmentBytes : i \in 0 .. count - 1} |->
                   [sequence |-> s, size |-> SegmentBytes, packet |-> 0]]
  /\ outcome = <<"applied", "applied">>

-----------------------------------------------------------------------------
\* tcp_ledger.rs: the map.

\* seed_segment: a segment that changes its size is a conflict, which ends the run.
MapConflict(r) == r.sequence \in DOMAIN segments /\ segments[r.sequence].size # r.size

MapInsert(r) ==
  segments' = [s \in DOMAIN segments \cup {r.sequence} |->
                 IF s = r.sequence THEN r ELSE segments[s]]

\* acknowledge_segments: what is left of the last segment that starts below the
\* acknowledgment starts there.  Segments do not overlap (see Records), so that none is
\* on record there yet.
acknowledge_segments(ack) ==
  LET above == {s \in DOMAIN segments : s >= ack}
      below == DOMAIN segments \ above
      last  == segments[Max(below)]
      cut   == [last EXCEPT !.sequence = ack, !.size = @ - (ack - last.sequence)]
  IN IF below # {} /\ ack - last.sequence < last.size /\ ack \notin above
     THEN [s \in above \cup {ack} |-> IF s = ack THEN cut ELSE segments[s]]
     ELSE Restrict(segments, above)

-----------------------------------------------------------------------------
\* The kernels.

\* Records from logical index i on move up by one, inside the window.
Shifted(i) ==
  LET moved == {tcp_ledger_slot(j) : j \in i + 1 .. count}
      at(p) == CHOOSE j \in i + 1 .. count : tcp_ledger_slot(j) = p
  IN [p \in DOMAIN slots |-> IF p \in moved THEN RecordAt(at(p) - 1) ELSE slots[p]]

\* The three places for a record that is new: past the last, before the first, between.
\* Only here does the count rise.
PlaceNew(r, insertion) ==
  LET retreated == (IF head = 0 THEN capacity ELSE head) - 1
  IN /\ \/ /\ insertion = count
           /\ slots' = [slots EXCEPT ![tcp_ledger_slot(count)] = r]
           /\ UNCHANGED head
        \/ /\ insertion < count /\ insertion = 0
           /\ head' = retreated
           /\ slots' = [slots EXCEPT ![retreated] = r]
        \/ /\ insertion < count /\ insertion > 0
           /\ slots' = [Shifted(insertion) EXCEPT ![tcp_ledger_slot(insertion)] = r]
           /\ UNCHANGED head
     /\ count' = count + 1
     /\ high_water' = IF count + 1 > high_water THEN count + 1 ELSE high_water

tcp_ledger_insert(r) ==
  LET insertion == tcp_ledger_lower_bound(r.sequence)
      same      == insertion < count /\ RecordAt(insertion).sequence = r.sequence
      map       == IF MapConflict(r) THEN "conflict" ELSE "applied"
  IN \/ /\ same /\ RecordAt(insertion).size # r.size
        /\ outcome' = <<"conflict", map>>
        /\ UNCHANGED <<head, count, high_water, slots, segments>>
     \/ \* The attempt ends here; the CPU has no such fault.
        /\ ~same /\ count >= capacity
        /\ outcome' = <<"full", "full">>
        /\ UNCHANGED <<head, count, high_water, slots, segments>>
     \/ /\ \/ /\ same /\ RecordAt(insertion).size = r.size
              /\ slots' = [slots EXCEPT ![tcp_ledger_slot(insertion)] = r]
              /\ UNCHANGED <<head, count, high_water>>
           \/ ~same /\ count < capacity /\ PlaceNew(r, insertion)
        /\ outcome' = <<"applied", map>>
        /\ MapInsert(r)

\* Records that end at or below the acknowledgment, up to the first that does not.  That
\* one therefore keeps bytes, and the kernel's branch for one that keeps none is dead.
FullyAcknowledged(ack) ==
  Min({count} \cup {i \in 0 .. count - 1 : RecordAt(i).sequence + RecordAt(i).size > ack})

tcp_ledger_acknowledge(ack) ==
  LET keep  == FullyAcknowledged(ack)
      first == RecordAt(keep)
      cut   == keep < count /\ first.sequence < ack
      next  == head + keep
  IN /\ slots' = IF cut THEN [slots EXCEPT ![tcp_ledger_slot(keep)] =
                                [@ EXCEPT !.sequence = ack, !.size = @ - (ack - first.sequence)]]
                 ELSE slots
     /\ head' = IF next >= Span THEN next - Span ELSE next
     /\ count' = count - keep
     /\ segments' = acknowledge_segments(ack)
     /\ outcome' = <<"applied", "applied">>
     /\ UNCHANGED high_water

-----------------------------------------------------------------------------

\* What a sender may record: a segment of the grid that overlaps no other, or again one
\* that is on record, if in another size.
Records ==
  [sequence : DOMAIN segments, size : 1 .. SegmentBytes, packet : Packet]
    \cup {r \in [sequence : {SegmentBytes * i : i \in 0 .. MaxSequence \div SegmentBytes},
                 size : {SegmentBytes}, packet : Packet] :
            \A s \in DOMAIN segments :
              s + segments[s].size <= r.sequence \/ r.sequence + r.size <= s}

RingNext ==
  /\ outcome[1] = "applied"
  /\ \/ \E r \in Records : tcp_ledger_insert(r)
     \/ \E ack \in 0 .. MaxSequence + SegmentBytes : tcp_ledger_acknowledge(ack)
  /\ UNCHANGED capacity

RingSpec == RingInit /\ [][RingNext]_ringVars

-----------------------------------------------------------------------------

\* Decoded in logical order, the ring is the map of the CPU executors, with the same
\* answers; and the head and every slot it is asked for are inside the arena, for which
\* one conditional subtraction must be a complete modulo.
LedgerIsCanonical ==
  /\ head \in 0 .. Span - 1 /\ count <= high_water /\ high_water <= capacity
  /\ \A i \in 0 .. count - 1 : tcp_ledger_slot(i) = (head + i) % Span
  /\ \A i, j \in 0 .. count - 1 : i < j => RecordAt(i).sequence < RecordAt(j).sequence
  /\ {RecordAt(i) : i \in 0 .. count - 1} = Range(segments)
  /\ outcome[1] = outcome[2]
=============================================================================
