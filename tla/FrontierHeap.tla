---------------------------- MODULE FrontierHeap ----------------------------
(***************************************************************************)
(* OwnerFrontierIndex of executor/src/cpu.rs: the binary heap of a worker, *)
(* with the heap position of every owner slot, so that an entry is moved   *)
(* in place when its LP's next event changes.  One action per operation;   *)
(* each comparison and swap of a sift is a step of its own.                *)
(*                                                                         *)
(* Heap positions count from 1, and 0 is NO_INDEX_SLOT.                    *)
(***************************************************************************)
EXTENDS Integers, Sequences, SequencesExt

CONSTANTS
  Slot,       \* owner slots of the worker
  Time,       \* times of events
  NodeOf      \* the node of each slot

HeapAssumption ==
  Slot \subseteq Nat \ {0} /\ Time \subseteq Nat /\ NodeOf \in [Slot -> Nat]

VARIABLES
  heap,           \* Vec<FrontierEntry>
  next_time_ns, active, index_slot,
  sift,           \* the sift in progress: its direction and position
  answer

vars == <<heap, next_time_ns, active, index_slot, sift, answer>>

NO_INDEX_SLOT == 0

\* The index as a frontier: the time on record of each active slot.  IndexExact says that
\* its entry in the heap has that time, and that an inactive slot has no entry.
MappedNext == [s \in Slot |-> IF active[s] THEN next_time_ns[s] ELSE -1]

Frontier == INSTANCE OwnerFrontier WITH next <- MappedNext

Less(a, b) == Frontier!EntryLess(a, b)

Entry(s, time) == Frontier!EntryOf(s, time)

Parent(i) == i \div 2

Idle == [direction |-> "none", at |-> 0]
Up(i) == [direction |-> "up", at |-> i]
Down(i) == [direction |-> "down", at |-> i]

Init ==
  /\ heap = <<>>
  /\ next_time_ns = [s \in Slot |-> 0]
  /\ active = [s \in Slot |-> FALSE]
  /\ index_slot = [s \in Slot |-> NO_INDEX_SLOT]
  /\ sift = Idle
  /\ answer = -1

\* Mutant: an entry that takes a freed position only moves down.
RestoreDown(h, i) == Down(i)

restore_heap_at(h, i) == IF i # 1 /\ Less(h[i], h[Parent(i)]) THEN Up(i) ELSE Down(i)

\* update of an active slot to a new time.
UpdateEntry(s, time) ==
  LET i == index_slot[s]
      h == [heap EXCEPT ![i] = Entry(s, time)]
  IN /\ active[s]
     /\ next_time_ns' = [next_time_ns EXCEPT ![s] = time]
     /\ heap' = h
     /\ sift' = restore_heap_at(h, i)
     /\ UNCHANGED <<active, index_slot>>

remove_at(i) ==
  LET removed == heap[i]
      last    == Last(heap)
      rest    == Front(heap)
      moves   == i <= Len(rest)
      h       == IF moves THEN [rest EXCEPT ![i] = last] ELSE rest
      cleared == [index_slot EXCEPT ![removed.owner_slot] = NO_INDEX_SLOT]
  IN /\ active' = [active EXCEPT ![removed.owner_slot] = FALSE]
     /\ index_slot' = IF moves THEN [cleared EXCEPT ![last.owner_slot] = i] ELSE cleared
     /\ heap' = h
     /\ sift' = IF moves THEN restore_heap_at(h, i) ELSE Idle

\* update of an active slot that has no event left.
UpdateRemove(s) ==
  /\ active[s]
  /\ remove_at(index_slot[s])
  /\ UNCHANGED next_time_ns

\* update of an inactive slot; without an event it does nothing.
UpdateInsert(s, time) ==
  /\ ~active[s]
  /\ next_time_ns' = [next_time_ns EXCEPT ![s] = time]
  /\ active' = [active EXCEPT ![s] = TRUE]
  /\ heap' = Append(heap, Entry(s, time))
  /\ index_slot' = [index_slot EXCEPT ![s] = Len(heap) + 1]
  /\ sift' = Up(Len(heap) + 1)

update(s) ==
  /\ sift = Idle
  /\ answer' = -1
  /\ \/ \E time \in Time : UpdateEntry(s, time) \/ UpdateInsert(s, time)
     \/ UpdateRemove(s)

pop_before(horizon) ==
  /\ sift = Idle
  /\ IF heap = <<>> \/ Head(heap).time_ns >= horizon
     THEN /\ answer' = -1
          /\ UNCHANGED <<heap, active, index_slot, sift>>
     ELSE /\ answer' = Head(heap).owner_slot
          /\ remove_at(1)
  /\ UNCHANGED next_time_ns

swap_heap(i, j) ==
  /\ heap' = [heap EXCEPT ![i] = heap[j], ![j] = heap[i]]
  /\ index_slot' = [index_slot EXCEPT ![heap[i].owner_slot] = j, ![heap[j].owner_slot] = i]

\* One turn of the loop of sift_up.
sift_up ==
  /\ sift.direction = "up"
  /\ LET i == sift.at
     IN IF i = 1 \/ ~Less(heap[i], heap[Parent(i)])
        THEN sift' = Idle /\ UNCHANGED <<heap, index_slot>>
        ELSE swap_heap(i, Parent(i)) /\ sift' = Up(Parent(i))
  /\ UNCHANGED <<next_time_ns, active, answer>>

\* The smaller child of a position that has one.
LeastChild(i) ==
  IF 2 * i < Len(heap) /\ Less(heap[2 * i + 1], heap[2 * i]) THEN 2 * i + 1 ELSE 2 * i

\* One turn of the loop of sift_down.
sift_down ==
  /\ sift.direction = "down"
  /\ LET i == sift.at
     IN IF 2 * i > Len(heap) \/ ~Less(heap[LeastChild(i)], heap[i])
        THEN sift' = Idle /\ UNCHANGED <<heap, index_slot>>
        ELSE swap_heap(i, LeastChild(i)) /\ sift' = Down(LeastChild(i))
  /\ UNCHANGED <<next_time_ns, active, answer>>

Next ==
  \/ \E s \in Slot : update(s)
  \/ \E horizon \in Frontier!Horizons : pop_before(horizon)
  \/ sift_up
  \/ sift_down

Spec == Init /\ [][Next]_vars

-----------------------------------------------------------------------------

\* index_slot is exact at every swap: an active slot has one entry, at the
\* position on record and with its own node and time; an inactive one has none.
IndexExact ==
  /\ \A s \in Slot : active[s] => heap[index_slot[s]] = Entry(s, next_time_ns[s])
  /\ \A s \in Slot : ~active[s] => index_slot[s] = NO_INDEX_SLOT
  /\ \A i \in DOMAIN heap : index_slot[heap[i].owner_slot] = i

\* The index answers as a frontier: whatever updates came before, pop_before returns the
\* least (time, node, slot) below the horizon and loses no LP; and the position on record
\* of every slot is exact at every swap in between.
ImplementsFrontier == []IndexExact /\ Frontier!FrontierSpec
=============================================================================
