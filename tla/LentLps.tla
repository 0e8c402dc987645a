------------------------------ MODULE LentLps ------------------------------
(***************************************************************************)
(* What the CPU executors of executor/src/cpu.rs share that run an LP on   *)
(* another worker than its owner (ClassifiedStatic, ChunkedCpu): an LP     *)
(* below the horizon is taken out of the shard of its owner with an        *)
(* estimate of its work, is drained elsewhere, and is put back before the  *)
(* round ends.  The drain itself is that of OwnedStatic.                   *)
(***************************************************************************)
EXTENDS OwnedStatic, SequencesExt

CONSTANTS
  Threshold,    \* config.straggler_threshold_events
  Dedicated     \* config.dedicated_straggler_workers

VARIABLES
  items,        \* per worker: the LPs it has extracted, or has yet to drain
  returned,     \* per worker: the LPs it has drained
  resident      \* per worker: the LPs in its shard

lentVars == <<items, returned, resident>>

OwnedBy(w) == {n \in Node : Owner[n] = w}

\* The events of LP n below horizon h; estimated_work counts them.
Due(n, h) == {e \in futures[n] : e.key.time_ns < h}

LentInit ==
  /\ Init
  /\ items = [w \in Worker |-> <<>>]
  /\ returned = [w \in Worker |-> {}]
  /\ resident = [w \in Worker |-> OwnedBy(w)]

\* WorkerShard::extract: the LPs below the horizon leave the shard, in the order
\* of the frontier, with the number of events they have there.
Extracted(w, h) ==
  LET due == {entry \in frontier[w] : entry.time_ns < h}
      ordered == SetToSortSeq(due, EntryLess)
  IN [i \in DOMAIN ordered |-> [node |-> ordered[i].node,
                                estimate |-> Cardinality(Due(ordered[i].node, h))]]

IsStraggler(item) == item.estimate > Threshold

\* radix_order_lpt: longest first, and stable.
Lpt(s) ==
  LET before(i, j) == s[i].estimate > s[j].estimate \/ (s[i].estimate = s[j].estimate /\ i < j)
      order == SetToSortSeq(DOMAIN s, before)
  IN [i \in DOMAIN s |-> s[order[i]]]

\* Finish: into_lps fails if an LP has not come back.
HandOver(w) ==
  /\ wpc[w] = "wait" /\ commands[w] # <<>>
  /\ Head(commands[w]).type = "Finish"
  /\ commands' = [commands EXCEPT ![w] = Tail(@)]
  /\ IF resident[w] = OwnedBy(w)
     THEN /\ sends' = [sends EXCEPT ![w] = <<[type |-> "Finished", worker |-> w]>>]
          /\ wpc' = [wpc EXCEPT ![w] = "reply"]
     ELSE FailWorker(w, Failure("Incomplete"))
  /\ UNCHANGED <<lpVars, drainVars, coordVars, round, horizon, command, merged, held, inbox,
                 closed, replies, fault, lentVars>>

\* The coordinator has dropped the command channel of a worker between rounds.
Leave(w) ==
  /\ wpc[w] = "wait" /\ commands[w] = <<>>
  /\ cpc \in {"abort", "returned"}
  /\ wpc' = [wpc EXCEPT ![w] = "gone"]
  /\ closed' = closed \cup {w}
  /\ UNCHANGED <<lpVars, drainVars, coordVars, round, horizon, command, merged, held, sends,
                 commands, inbox, replies, fault, lentVars>>

\* The next LP; DrainEvent and Fault of OwnedStatic drain it.
NextItem(w) ==
  /\ wpc[w] = "drain" /\ draining[w] = {} /\ items[w] # <<>>
  /\ draining' = [draining EXCEPT ![w] = {Head(items[w]).node}]
  /\ items' = [items EXCEPT ![w] = Tail(@)]
  /\ UNCHANGED <<lpVars, continuation, outbox, workerVars, coordVars, commands, inbox, closed,
                 replies, fault, returned, resident>>

\* The LP is drained, and waits in returned_by_owner.
ItemDone(w) ==
  /\ wpc[w] = "drain" /\ continuation[w] = {} /\ draining[w] # {}
  /\ \A n \in draining[w] : Due(n, horizon[w]) = {}
  /\ returned' = [returned EXCEPT ![w] = @ \cup draining[w]]
  /\ draining' = [draining EXCEPT ![w] = {}]
  /\ UNCHANGED <<lpVars, continuation, outbox, workerVars, coordVars, commands, inbox, closed,
                 replies, fault, items, resident>>

\* restore_and_merge, or restore_classified_round with merge_remote_with, where
\* states come home and arrived are the events for LPs of worker w: the first
\* error, if any.  LpTwice and Incomplete are WorkerFailed in the code, as is an
\* injected failure, and have names of their own here.
RestoreError(w, states, arrived, h, minimum) ==
  IF states \cap resident[w] # {} THEN "LpTwice"
  ELSE IF \E e \in arrived : e.target \notin resident[w] \cup states THEN "UnknownNode"
  ELSE IF \E e \in arrived : e.key.time_ns < h THEN "RemoteEventBeforeHorizon"
  ELSE IF minimum < h THEN "EventBelowHorizonAfterDrain"
  ELSE "none"

\* What merging them leaves: the events of all LPs, and the frontier of worker w.
Arrived(arrived) == [n \in Node |-> futures[n] \cup EventsFor(arrived, n)]

Rebuilt(w, states, arrived) ==
  LET targets == states \cup {e.target : e \in arrived}
  IN {entry \in frontier[w] : entry.node \notin targets}
       \cup UNION {Updated({}, n, Arrived(arrived)[n]) : n \in targets}
=============================================================================
