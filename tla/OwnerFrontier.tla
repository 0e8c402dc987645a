---------------------------- MODULE OwnerFrontier ----------------------------
(***************************************************************************)
(* What a worker expects of its frontier index: the time of the next event *)
(* of each LP it owns, and the LP with the least (time, node, slot) among  *)
(* those below a horizon.  FrontierHeap implements it.                     *)
(***************************************************************************)
EXTENDS Integers

CONSTANTS Slot, Time, NodeOf

None == -1

Horizons == Time \cup {time + 1 : time \in Time}

VARIABLES
  next,       \* per owner slot, the time of its next event, or None
  answer      \* the slot that the last operation returned, or None

frontierVars == <<next, answer>>

\* The derived order of FrontierEntry.
EntryLess(a, b) ==
  \/ a.time_ns < b.time_ns
  \/ a.time_ns = b.time_ns /\ a.node < b.node
  \/ a.time_ns = b.time_ns /\ a.node = b.node /\ a.owner_slot < b.owner_slot

EntryOf(s, time) == [time_ns |-> time, node |-> NodeOf[s], owner_slot |-> s]

FrontierInit ==
  /\ next = [s \in Slot |-> None]
  /\ answer = None

Update(s, time) ==
  /\ answer' = None
  /\ next' = [next EXCEPT ![s] = time]

\* The least live slot is taken when it is below the horizon.
PopBefore(horizon) ==
  \/ /\ answer' = None
     /\ \A s \in Slot : next[s] # None => next[s] >= horizon
     /\ UNCHANGED next
  \/ \E s \in Slot :
       /\ answer' = s
       /\ next[s] # None /\ next[s] < horizon
       /\ \A r \in Slot \ {s} :
            next[r] # None => EntryLess(EntryOf(s, next[s]), EntryOf(r, next[r]))
       /\ next' = [next EXCEPT ![s] = None]

FrontierNext ==
  \/ \E s \in Slot : \E time \in Time \cup {None} : Update(s, time)
  \/ \E horizon \in Horizons : PopBefore(horizon)

FrontierSpec == FrontierInit /\ [][FrontierNext]_frontierVars
=============================================================================
