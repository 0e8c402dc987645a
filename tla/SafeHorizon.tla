----------------------------- MODULE SafeHorizon -----------------------------
(***************************************************************************)
(* RoundExecutor (executor/src/safe_horizon.rs): one owner runs all LPs in *)
(* rounds.  A round takes the least pending time plus the least channel    *)
(* delay as its exclusive horizon, drains every LP below it, and only then *)
(* exchanges the events that LPs sent each other.                          *)
(***************************************************************************)
EXTENDS Transitions

VARIABLES
  lp, next_seq, executed,
  futures,        \* per LP, its pending events
  pending_keys,   \* keys of all pending events
  frontier,       \* OwnerFrontierIndex.heap, superseded entries included
  generations,    \* OwnerFrontierIndex.generations
  horizon,        \* exclusive horizon of the round
  active,         \* entries popped for the round, their LPs not yet drained
  draining,       \* the LP being drained, as a set of at most one LP
  continuation,   \* the child that bypasses the queue, as a set of at most one
  outbox,         \* remote children of the round
  pc              \* "peek", "drain", "exchange", "done" or the error

lpVars    == <<lp, next_seq, executed>>
indexVars == <<frontier, generations>>
vars == <<lp, next_seq, executed, futures, pending_keys, frontier, generations,
          horizon, active, draining, continuation, outbox, pc>>

Entry == [time_ns : Time, node : Node, generation : Nat]

-----------------------------------------------------------------------------
(* OwnerFrontierIndex: superseded entries stay in the heap and are recognised
   by their generation. *)

Live(entry) == generations[entry.node] = entry.generation

EntryLess(a, b) ==
  \/ a.time_ns < b.time_ns
  \/ a.time_ns = b.time_ns /\ a.node < b.node
  \/ a.time_ns = b.time_ns /\ a.node = b.node /\ a.generation < b.generation

LiveEntries == {entry \in frontier : Live(entry)}

\* The index says that LP n has its least pending event at t.
Published(n, t) == \E entry \in LiveEntries : entry.node = n /\ entry.time_ns = t

IsLeast(entry, S) == entry \in S /\ \A other \in S \ {entry} : EntryLess(entry, other)

\* The heap after peek_min has discarded the superseded entries ahead of the
\* first live one.
Peeked(heap) ==
  {entry \in heap : \E other \in heap : Live(other) /\ ~EntryLess(entry, other)}

\* update on each LP of ns, whose pending events are then F[n].
EntriesFor(ns, F) ==
  {[time_ns |-> p[1], node |-> p[2], generation |-> generations[p[2]] + 1] :
     p \in {q \in Time \X ns : IsMinTime(q[1], F[q[2]])}}

\* Mutant: a superseded entry is not recognised.
UpdateKeepingGeneration(ns, F) ==
  /\ UNCHANGED generations
  /\ frontier' = frontier \cup
       {[entry EXCEPT !.generation = generations[entry.node]] : entry \in EntriesFor(ns, F)}

UpdateFrontier(ns, F) ==
  /\ generations' = [n \in Node |-> IF n \in ns THEN generations[n] + 1 ELSE generations[n]]
  /\ frontier' = frontier \cup EntriesFor(ns, F)

-----------------------------------------------------------------------------
(* RoundExecutor::new.  WellFormedImage rules out its DuplicateEventKey, and
   LookaheadAssumption its NonPositiveLookahead. *)

EventsFor(S, n) == {e \in S : e.target = n}

Init ==
  \E image \in Images :
    /\ lp = image.lp
    /\ next_seq = image.next_seq
    /\ executed = {}
    /\ futures = [n \in Node |-> EventsFor(image.events, n)]
    /\ pending_keys = {e.key : e \in image.events}
    /\ generations = [n \in Node |-> IF EventsFor(image.events, n) = {} THEN 0 ELSE 1]
    /\ frontier = {[time_ns |-> p[1], node |-> p[2], generation |-> 1] :
                     p \in {q \in Time \X Node :
                              IsMinTime(q[1], EventsFor(image.events, q[2]))}}
    /\ horizon = 0
    /\ active = {}
    /\ draining = {}
    /\ continuation = {}
    /\ outbox = {}
    /\ pc = "peek"

Fail(error) ==
  /\ pc' = error
  /\ UNCHANGED <<lpVars, indexVars, futures, pending_keys, horizon, active,
                 draining, continuation, outbox>>

\* The head of a round: peek the frontier, set the horizon, pop every LP with
\* work below it.
StartRound ==
  /\ pc = "peek"
  /\ \E entry \in frontier :
       /\ IsLeast(entry, LiveEntries)
       /\ entry.time_ns < RunEnd
       /\ horizon' = RoundHorizon(entry.time_ns)
       /\ LET popped == {other \in LiveEntries : other.time_ns < RoundHorizon(entry.time_ns)}
          IN /\ active' = popped
             /\ frontier' = Peeked(frontier \ popped)
  /\ pc' = "drain"
  /\ UNCHANGED <<lpVars, generations, futures, pending_keys, draining, continuation, outbox>>

\* The loop leaves when nothing is pending before the end of the run.
FinishRun ==
  /\ pc = "peek"
  /\ \A entry \in LiveEntries : entry.time_ns >= RunEnd
  /\ pc' = "done"
  /\ frontier' = Peeked(frontier)
  /\ UNCHANGED <<lpVars, generations, futures, pending_keys, horizon, active,
                 draining, continuation, outbox>>

\* The next LP of the round, in the order its entry was popped.
PickLp ==
  /\ pc = "drain"
  /\ draining = {}
  /\ \E entry \in active :
       /\ IsLeast(entry, active)
       /\ draining' = {entry.node}
       /\ active' = active \ {entry}
  /\ UNCHANGED <<lpVars, indexVars, futures, pending_keys, horizon, continuation, outbox, pc>>

\* One iteration of drain_lp.
DrainEvent(n, e) ==
  /\ pc = "drain"
  /\ draining = {n}
  /\ DrainsNext(e, futures[n], continuation, horizon)
  /\ LET own  == futures[n] \ {e}
         next == Drained(lp[n], next_seq[n], e, own)
         keys == pending_keys \ {f.key : f \in {e} \cup next.dropped}
     IN IF ~Succeeds(lp[n], next_seq[n], e, own)
        THEN Fail("DispatchError")
        ELSE IF \E c \in next.children : c.key \in keys
        THEN Fail("DuplicateEventKey")
        ELSE /\ lp' = [lp EXCEPT ![n] = next.state]
             /\ next_seq' = [next_seq EXCEPT ![n] = next.seq]
             /\ executed' = executed \cup {e}
             /\ futures' = [futures EXCEPT ![n] = next.futures]
             /\ pending_keys' = keys \cup {c.key : c \in next.children}
             /\ continuation' = next.continuation
             /\ outbox' = outbox \cup next.remote
             /\ UNCHANGED <<indexVars, horizon, active, draining, pc>>

\* drain_lp returns and the LP's frontier is republished.
DrainDone(n) ==
  /\ pc = "drain"
  /\ draining = {n}
  /\ continuation = {}
  /\ \A e \in futures[n] : e.key.time_ns >= horizon
  /\ draining' = {}
  /\ UpdateFrontier({n}, futures)
  /\ UNCHANGED <<lpVars, futures, pending_keys, horizon, active, continuation, outbox, pc>>

\* Every active LP is drained: nothing may be left below the horizon.
CheckDrained ==
  /\ pc = "drain"
  /\ draining = {}
  /\ active = {}
  /\ pc' = IF \E entry \in LiveEntries : entry.time_ns < horizon
           THEN "EventBelowHorizonAfterDrain" ELSE "exchange"
  /\ frontier' = Peeked(frontier)
  /\ UNCHANGED <<lpVars, generations, futures, pending_keys, horizon, active,
                 draining, continuation, outbox>>

\* The exchange: deliver the outboxes to their targets and republish those.
Exchange ==
  /\ pc = "exchange"
  /\ IF \E e \in outbox : e.key.time_ns < horizon
     THEN Fail("RemoteEventBeforeHorizon")
     ELSE IF \E e \in outbox : \E f \in futures[e.target] : f.key = e.key
     THEN Fail("DuplicateEventKey")
     ELSE /\ futures' = [n \in Node |-> futures[n] \cup EventsFor(outbox, n)]
          /\ UpdateFrontier({e.target : e \in outbox},
                            [n \in Node |-> futures[n] \cup EventsFor(outbox, n)])
          /\ outbox' = {}
          /\ pc' = "peek"
          /\ UNCHANGED <<lpVars, pending_keys, horizon, active, draining, continuation>>

Next ==
  \/ StartRound
  \/ FinishRun
  \/ PickLp
  \/ \E n \in Node : \E e \in futures[n] \cup continuation : DrainEvent(n, e)
  \/ \E n \in Node : DrainDone(n)
  \/ CheckDrained
  \/ Exchange

Spec == Init /\ [][Next]_vars

FairSpec == Spec /\ WF_vars(Next)

-----------------------------------------------------------------------------

pending == (UNION {futures[n] : n \in Node}) \cup outbox \cup continuation

Causal == INSTANCE CausalCalendar WITH
  failed <- pc = "DispatchError"

\* Round execution is one of the orders CausalCalendar allows: draining an LP
\* up to the horizon never runs ahead of an event that could still reach it.
ImplementsCausalCalendar == Causal!Spec

\* Type correctness of the round executor.
TypeOK ==
  /\ lp \in [Node -> State]
  /\ next_seq \in [Node -> Nat]
  /\ executed \subseteq Event
  /\ futures \in [Node -> SUBSET Event]
  /\ pending_keys \subseteq EventKey
  /\ frontier \subseteq Entry
  /\ generations \in [Node -> Nat]
  /\ horizon \in 0 .. MaxTime + 1
  /\ active \subseteq Entry
  /\ draining \subseteq Node
  /\ continuation \subseteq Event
  /\ outbox \subseteq Event
  /\ pc \in {"peek", "drain", "exchange", "done", "DispatchError", "DuplicateEventKey",
             "RemoteEventBeforeHorizon", "EventBelowHorizonAfterDrain"}

\* The lookahead guards of execute_rounds never fire: a child sent to another
\* LP lands at or after the horizon of the round that sent it, and no LP is left
\* with work below the horizon it was drained to.
HorizonIsSafe ==
  pc \notin {"RemoteEventBeforeHorizon", "EventBelowHorizonAfterDrain", "DuplicateEventKey"}

\* Between rounds the lazily cleaned index is exact: an LP has a live entry iff
\* it has pending events, and the entry carries its least time.  A stale entry
\* would make a round skip an LP or set its horizon too late.
FrontierExact ==
  pc = "peek" =>
    \A n \in Node, t \in Time : Published(n, t) <=> IsMinTime(t, futures[n])

\* The duplicate-key index agrees with the events that are really pending.
PendingKeysExact == pending_keys = {e.key : e \in pending}

\* Every round ends, and with it the run: the horizon of each round lies above
\* the least pending time, so rounds cannot stall at one instant.
Terminates == <>(pc \notin {"peek", "drain", "exchange"})

-----------------------------------------------------------------------------
(* The inductive invariant behind ImplementsCausalCalendar and HorizonIsSafe. *)

\* n is being drained, or waits for its turn in the round.
Busy(n) == n \in draining \/ \E entry \in active : entry.node = n

\* The phases of a round: what is in flight in each.
Phases ==
  /\ pc \in {"peek", "exchange"} => draining = {} /\ active = {}
  /\ pc = "peek" => outbox = {}
  /\ draining = {} => continuation = {}

\* Keys in use are allocated and unique, each event sits at its target's queue,
\* and what waits in the outbox is not there yet.
Placed ==
  /\ \A e \in pending : e.key.origin_seq < next_seq[e.key.origin_node]
  /\ \A e, f \in pending : e.key = f.key => e = f
  /\ \A n \in Node : \A e \in futures[n] : e.target = n
  /\ \A e \in outbox : e.key.origin_node # e.target /\ e \notin futures[e.target]

\* The continuation belongs to the LP being drained and precedes all it has
\* pending.
ContinuationFirst ==
  \A c \in continuation :
    /\ draining = {c.target}
    /\ continuation = {c}
    /\ c.kind = "TxReady"
    /\ c.key.time_ns < horizon
    /\ c \notin outbox
    /\ \A f \in futures[c.target] : Earlier(c, f)

\* The horizon of a round is safe until the exchange: no event can have a child
\* at another LP below it, and LPs that are not being run hold nothing below it.
RoundSafe ==
  pc \in {"drain", "exchange"} =>
    /\ horizon <= RunEnd
    /\ \A f \in pending : horizon <= f.key.time_ns + Lookahead
    /\ \A e \in outbox : horizon <= e.key.time_ns
    /\ \A n \in Node : ~Busy(n) => \A e \in futures[n] : horizon <= e.key.time_ns

\* The index is exact for every LP that is not being run.
IndexExact ==
  /\ \A entry \in frontier : entry.generation <= generations[entry.node]
  /\ \A n \in Node : ~Busy(n) =>
       \A t \in Time : Published(n, t) <=> IsMinTime(t, futures[n])

IInv ==
  /\ TypeOK /\ Phases /\ Placed /\ ContinuationFirst /\ RoundSafe /\ IndexExact
  /\ PendingKeysExact /\ HorizonIsSafe
=============================================================================
