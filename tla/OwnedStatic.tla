----------------------------- MODULE OwnedStatic -----------------------------
(***************************************************************************)
(* The static, unclassified CPU executor of executor/src/cpu.rs: a         *)
(* coordinator thread and worker threads that own disjoint sets of LPs.    *)
(* Workers drain their LPs below the round's horizon and send the events   *)
(* for other LPs straight to the owners, as one batch per owner and round. *)
(* The coordinator learns only minima and batch counts; the count it sends *)
(* with the next command tells an owner how many batches to wait for.      *)
(*                                                                         *)
(* Channels are crossbeam's: commands hold one message, replies hold two   *)
(* per worker, inboxes are unbounded.  A send to a dropped receiver fails, *)
(* and so does a receive from an empty channel without senders.            *)
(***************************************************************************)
EXTENDS Transitions

CONSTANTS
  Workers,          \* config.workers; workers are 0 .. Workers - 1
  Owner,            \* StaticPlacement: the worker that owns each LP
  OutboxCapacity,   \* config.max_outbox_events_per_lp; none if it is never reached
  Faults            \* the faults a run may have: config.fault_injection, or a
                    \* panic ("Bug") that was not injected

Worker == 0 .. Workers - 1

VARIABLES
  lp, next_seq, executed, futures,   \* per LP; executed is a history variable
  frontier,       \* per worker, its indexed heap: the least time of each LP in it
  wpc,            \* per worker: "wait", "drain", "send", "reply" or "gone"
  round,          \* per worker: the round it is in, Completed rounds are below it
  horizon,        \* per worker: exclusive horizon of its last command
  command,        \* per worker: the command taken from its channel, as a set
  merged,         \* per worker: batches of the completed round merged so far
  held,           \* per worker: pending_batches, which arrived a round early
  draining,       \* per worker: the LP being drained, as a set
  continuation,   \* per worker: the child that bypasses the queue, as a set
  outbox,         \* per worker: remote_by_owner of the round, not yet sent
  sends,          \* per worker: the replies it is about to send
  commands,       \* per worker: its command channel
  inbox,          \* per worker: its channel of remote batches
  closed,         \* workers that have dropped their receivers
  replies,        \* the reply channel
  cpc,            \* coordinator: "ready", "send", "collect", "finish", "finishing",
                  \* "abort" (draining worker errors) or "returned"
  next_worker,    \* coordinator: the worker it sends to next
  replied,        \* coordinator: workers that have replied in this phase
  round_number, minima, expected, round_horizon,   \* coordinator locals
  next_minima, next_expected,                      \* of the round being collected
  result,         \* "none", "Ok" or the error
  fault           \* the fault of this run, as a set of at most one

lpVars     == <<lp, next_seq, executed, futures, frontier>>
drainVars  == <<draining, continuation, outbox>>
workerVars == <<wpc, round, horizon, command, merged, held, sends>>
coordVars  == <<cpc, next_worker, replied, round_number, minima, expected,
                round_horizon, next_minima, next_expected, result>>
vars == <<lpVars, drainVars, workerVars, coordVars, commands, inbox, closed, replies, fault>>

NoTime == MaxTime + 1      \* minimum_ns = None

Disconnected == [kind |-> "WorkerChannelDisconnected"]
Failure(kind) == [kind |-> kind]
Panicked(w) == [kind |-> "WorkerPanicked", worker |-> w]

EventsFor(S, n) == {e \in S : e.target = n}

\* The least time of S, or NoTime.
Least(S) == CHOOSE t \in S \cup {NoTime} : \A u \in S : t <= u

\* OwnerFrontierIndex.update for LP n, whose pending events are then S.
Updated(F, n, S) ==
  {entry \in F : entry.node # n}
    \cup {[time_ns |-> t, node |-> n] : t \in {u \in Times(S) : IsMinTime(u, S)}}

EntryLess(a, b) == a.time_ns < b.time_ns \/ (a.time_ns = b.time_ns /\ a.node < b.node)

MinTime(F) == Least({entry.time_ns : entry \in F})

-----------------------------------------------------------------------------
(* run_owned_static_cpu_with_observations: build_lps, the channels, and the
   Ready reply every worker starts with. *)

InitFrontier(image, w) ==
  {[time_ns |-> p[1], node |-> p[2]] :
     p \in {q \in Time \X Node : Owner[q[2]] = w /\ IsMinTime(q[1], EventsFor(image.events, q[2]))}}

Init ==
  /\ \E image \in Images :
       /\ lp = image.lp
       /\ next_seq = image.next_seq
       /\ futures = [n \in Node |-> EventsFor(image.events, n)]
       /\ frontier = [w \in Worker |-> InitFrontier(image, w)]
       /\ sends = [w \in Worker |->
            <<[type |-> "Ready", worker |-> w, minimum |-> MinTime(InitFrontier(image, w))]>>]
  /\ fault \in {{}} \cup {{f} : f \in Faults}
  /\ executed = {}
  /\ wpc = [w \in Worker |-> "reply"]
  /\ round = [w \in Worker |-> 0]
  /\ horizon = [w \in Worker |-> 0]
  /\ merged = [w \in Worker |-> 0]
  /\ command = [w \in Worker |-> {}]
  /\ held = [w \in Worker |-> {}]
  /\ draining = [w \in Worker |-> {}]
  /\ continuation = [w \in Worker |-> {}]
  /\ outbox = [w \in Worker |-> {}]
  /\ commands = [w \in Worker |-> <<>>]
  /\ inbox = [w \in Worker |-> <<>>]
  /\ closed = {}
  /\ replies = <<>>
  /\ cpc = "ready"
  /\ next_worker = 0
  /\ replied = {}
  /\ round_number = 0
  /\ minima = [w \in Worker |-> NoTime]
  /\ expected = [w \in Worker |-> 0]
  /\ round_horizon = 0
  /\ next_minima = [w \in Worker |-> NoTime]
  /\ next_expected = [w \in Worker |-> 0]
  /\ result = Failure("none")

-----------------------------------------------------------------------------
(* Worker threads *)

\* The worker returns after reporting error; its receivers go with it.
FailWorker(w, error) ==
  /\ sends' = [sends EXCEPT ![w] = <<[type |-> "Failed", error |-> error]>>]
  /\ wpc' = [wpc EXCEPT ![w] = "reply"]

\* replies.send: the channel is bounded.  Ready and RoundComplete are followed
\* by the next receive; Finished and Failed by the end of the thread.
SendReply(w) ==
  /\ wpc[w] = "reply"
  /\ Len(replies) < 2 * Workers
  /\ replies' = Append(replies, Head(sends[w]))
  /\ sends' = [sends EXCEPT ![w] = Tail(@)]
  /\ IF Len(sends[w]) > 1
     THEN UNCHANGED <<wpc, closed>>
     ELSE IF Head(sends[w]).type \in {"Ready", "RoundComplete"}
     THEN wpc' = [wpc EXCEPT ![w] = "wait"] /\ UNCHANGED closed
     ELSE wpc' = [wpc EXCEPT ![w] = "gone"] /\ closed' = closed \cup {w}
  /\ UNCHANGED <<lpVars, drainVars, coordVars, round, horizon, command, merged, held,
                 commands, inbox, fault>>

\* receive_owned_command_and_merge: a command arrives.  Before the first round
\* nothing can be outstanding.
RecvCommand(w) ==
  /\ wpc[w] = "wait"
  /\ commands[w] # <<>>
  /\ commands' = [commands EXCEPT ![w] = Tail(@)]
  /\ command' = [command EXCEPT ![w] = {Head(commands[w])}]
  /\ IF command[w] # {} \/ (round[w] = 0 /\ Head(commands[w]).expected # 0)
     THEN FailWorker(w, Disconnected)
     ELSE UNCHANGED <<wpc, sends>>
  /\ UNCHANGED <<lpVars, drainVars, coordVars, round, horizon, merged, held, inbox,
                 closed, replies, fault>>

\* The coordinator has dropped the command senders.
CommandsDropped(w) ==
  /\ wpc[w] = "wait"
  /\ cpc \in {"abort", "returned"}
  /\ commands[w] = <<>>
  /\ FailWorker(w, Disconnected)
  /\ UNCHANGED <<lpVars, drainVars, coordVars, round, horizon, command, merged, held,
                 commands, inbox, closed, replies, fault>>

\* Mutant: a merge does not republish the frontier of its targets.
MergeUnpublished(w, batch) ==
  /\ futures' = [n \in Node |-> futures[n] \cup EventsFor(batch.events, n)]
  /\ merged' = [merged EXCEPT ![w] = @ + 1]
  /\ UNCHANGED <<frontier, wpc, sends>>

\* merge_static_owner_batch and merge_remote_with, for a batch of the completed round.
Merge(w, batch) ==
  LET targets == {e.target : e \in batch.events} IN
  IF \E e \in batch.events : e.key.time_ns < horizon[w]
  THEN FailWorker(w, Failure("RemoteEventBeforeHorizon")) /\ UNCHANGED <<futures, frontier, merged>>
  ELSE /\ futures' = [n \in Node |-> futures[n] \cup EventsFor(batch.events, n)]
       /\ frontier' = [frontier EXCEPT ![w] =
            {entry \in @ : entry.node \notin targets}
              \cup UNION {Updated({}, n, futures'[n]) : n \in targets}]
       /\ merged' = [merged EXCEPT ![w] = @ + 1]
       /\ UNCHANGED <<wpc, sends>>

\* A batch of the completed round that arrived early is merged on entry.
MergeHeld(w) ==
  /\ wpc[w] = "wait"
  /\ round[w] > 0
  /\ \E batch \in held[w] :
       /\ batch.round = round[w] - 1
       /\ held' = [held EXCEPT ![w] = @ \ {batch}]
       /\ Merge(w, batch)
  /\ UNCHANGED <<lp, next_seq, executed, drainVars, coordVars, round, horizon, command,
                 commands, inbox, closed, replies, fault>>

\* A batch arrives: of the completed round, or of the round the other workers
\* may already be in.
RecvBatch(w) ==
  /\ wpc[w] = "wait"
  /\ round[w] > 0
  /\ \A batch \in held[w] : batch.round # round[w] - 1
  /\ inbox[w] # <<>>
  /\ inbox' = [inbox EXCEPT ![w] = Tail(@)]
  /\ LET batch == Head(inbox[w]) IN
       \/ batch.round = round[w] - 1 /\ Merge(w, batch) /\ UNCHANGED held
       \/ /\ batch.round = round[w]
          /\ held' = [held EXCEPT ![w] = @ \cup {batch}]
          /\ UNCHANGED <<futures, frontier, merged, wpc, sends>>
       \/ /\ batch.round \notin {round[w] - 1, round[w]}
          /\ FailWorker(w, Disconnected)
          /\ UNCHANGED <<futures, frontier, merged, held>>
  /\ UNCHANGED <<lp, next_seq, executed, drainVars, coordVars, round, horizon, command,
                 commands, closed, replies, fault>>

\* Mutant: the worker does not wait for the batches it is owed.
ObeyAtOnce(w) ==
  /\ wpc[w] = "wait"
  /\ \E c \in command[w] :
       \/ /\ c.type = "RunRound"
          /\ wpc' = [wpc EXCEPT ![w] = "drain"]
          /\ horizon' = [horizon EXCEPT ![w] = c.horizon]
          /\ UNCHANGED sends
       \/ /\ c.type = "Finish"
          /\ sends' = [sends EXCEPT ![w] = <<[type |-> "Finished", worker |-> w]>>]
          /\ wpc' = [wpc EXCEPT ![w] = "reply"]
          /\ UNCHANGED horizon
  /\ command' = [command EXCEPT ![w] = {}]
  /\ merged' = [merged EXCEPT ![w] = 0]
  /\ UNCHANGED <<lpVars, drainVars, coordVars, round, held, commands, inbox, closed,
                 replies, fault>>

\* The command's count is reached: run the round, or hand over the LPs.
Obey(w) ==
  /\ wpc[w] = "wait"
  /\ \A batch \in held[w] : batch.round # round[w] - 1
  /\ \E c \in command[w] :
       \/ /\ merged[w] = c.expected
          /\ c.type = "RunRound"
          /\ wpc' = [wpc EXCEPT ![w] = "drain"]
          /\ horizon' = [horizon EXCEPT ![w] = c.horizon]
          /\ UNCHANGED sends
       \/ /\ merged[w] = c.expected
          /\ c.type = "Finish"
          /\ sends' = [sends EXCEPT ![w] = <<[type |-> "Finished", worker |-> w]>>]
          /\ wpc' = [wpc EXCEPT ![w] = "reply"]
          /\ UNCHANGED horizon
       \/ /\ merged[w] > c.expected
          /\ FailWorker(w, Disconnected)
          /\ UNCHANGED horizon
  /\ command' = [command EXCEPT ![w] = {}]
  /\ merged' = [merged EXCEPT ![w] = 0]
  /\ UNCHANGED <<lpVars, drainVars, coordVars, round, held, commands, inbox, closed,
                 replies, fault>>

\* drain_owned_round: the next LP with work below the horizon leaves the heap.
PopLp(w) ==
  /\ wpc[w] = "drain"
  /\ draining[w] = {}
  /\ \E entry \in frontier[w] :
       /\ \A other \in frontier[w] \ {entry} : EntryLess(entry, other)
       /\ entry.time_ns < horizon[w]
       /\ draining' = [draining EXCEPT ![w] = {entry.node}]
       /\ frontier' = [frontier EXCEPT ![w] = @ \ {entry}]
  /\ UNCHANGED <<lp, next_seq, executed, futures, continuation, outbox, workerVars, coordVars,
                 commands, inbox, closed, replies, fault>>

\* The events LP n has sent to other LPs in this drain.
LpOutbox(w, n) == {e \in outbox[w] : e.key.origin_node = n}

\* One iteration of CpuLp::drain.  An error ends the worker.
DrainEvent(w, n, e) ==
  /\ wpc[w] = "drain"
  /\ draining[w] = {n}
  /\ DrainsNext(e, futures[n], continuation[w], horizon[w])
  /\ LET own  == futures[n] \ {e}
         next == Drained(lp[n], next_seq[n], e, own)
     IN IF ~Succeeds(lp[n], next_seq[n], e, own)
        THEN FailWorker(w, Failure("DispatchError")) /\ UNCHANGED <<lpVars, drainVars>>
        ELSE IF Cardinality(LpOutbox(w, n) \cup next.remote) > OutboxCapacity
        THEN FailWorker(w, Failure("OutboxCapacityExceeded")) /\ UNCHANGED <<lpVars, drainVars>>
        ELSE /\ lp' = [lp EXCEPT ![n] = next.state]
             /\ next_seq' = [next_seq EXCEPT ![n] = next.seq]
             /\ executed' = executed \cup {e}
             /\ futures' = [futures EXCEPT ![n] = next.futures]
             /\ continuation' = [continuation EXCEPT ![w] = next.continuation]
             /\ outbox' = [outbox EXCEPT ![w] = @ \cup next.remote]
             /\ UNCHANGED <<frontier, draining, wpc, sends>>
  /\ UNCHANGED <<coordVars, round, horizon, command, merged, held, commands, inbox, closed,
                 replies, fault>>

\* A fault before any event of the worker.  A panic drops the worker's receivers
\* before it is reported, and an injected one reports a disconnection first.
Fault(w) ==
  /\ wpc[w] = "drain"
  /\ draining[w] # {}
  /\ \/ continuation[w] # {}
     \/ \E n \in draining[w] : \E e \in futures[n] : e.key.time_ns < horizon[w]
  /\ \E f \in fault :
       /\ f.worker = w
       /\ \/ /\ f.kind = "Failure"
             /\ FailWorker(w, Failure("WorkerFailed"))
             /\ UNCHANGED closed
          \/ /\ f.kind \in {"Panic", "Bug"}
             /\ sends' = [sends EXCEPT ![w] =
                  (IF f.kind = "Panic" THEN <<[type |-> "Failed", error |-> Disconnected]>>
                                       ELSE <<>>)
                    \o <<[type |-> "Failed", error |-> Panicked(w)]>>]
             /\ wpc' = [wpc EXCEPT ![w] = "reply"]
             /\ closed' = closed \cup {w}
  /\ UNCHANGED <<lpVars, drainVars, coordVars, round, horizon, command, merged, held,
                 commands, inbox, replies, fault>>

\* The LP is drained; its frontier entry is published.
LpDone(w) ==
  /\ wpc[w] = "drain"
  /\ continuation[w] = {}
  /\ \E n \in draining[w] :
       /\ \A e \in futures[n] : e.key.time_ns >= horizon[w]
       /\ frontier' = [frontier EXCEPT ![w] = Updated(@, n, futures[n])]
  /\ draining' = [draining EXCEPT ![w] = {}]
  /\ UNCHANGED <<lp, next_seq, executed, futures, continuation, outbox, workerVars, coordVars,
                 commands, inbox, closed, replies, fault>>

\* No LP of the worker has work below the horizon: the completion reply is put
\* together from the heap and remote_by_owner.
DrainDone(w) ==
  /\ wpc[w] = "drain"
  /\ draining[w] = {}
  /\ MinTime(frontier[w]) >= horizon[w]
  /\ wpc' = [wpc EXCEPT ![w] = "send"]
  /\ sends' = [sends EXCEPT ![w] =
       <<[type     |-> "RoundComplete",
          worker   |-> w,
          round    |-> round[w],
          minimum  |-> MinTime(frontier[w]),
          batches  |-> [v \in Worker |->
                          IF \E e \in outbox[w] : Owner[e.target] = v THEN 1 ELSE 0],
          minimum_ns |-> [v \in Worker |->
                          Least(Times({e \in outbox[w] : Owner[e.target] = v}))]]>>]
  /\ UNCHANGED <<lpVars, drainVars, coordVars, round, horizon, command, merged, held,
                 commands, inbox, closed, replies, fault>>

\* Send the batch of the next owner, in owner order; fails if that owner is gone.
SendBatch(w) ==
  /\ wpc[w] = "send"
  /\ \E v \in Worker :
       LET batch == {e \in outbox[w] : Owner[e.target] = v} IN
       /\ batch # {}
       /\ \A e \in outbox[w] : v <= Owner[e.target]
       /\ IF v \in closed
          THEN FailWorker(w, Disconnected) /\ UNCHANGED <<inbox, outbox>>
          ELSE /\ inbox' = [inbox EXCEPT ![v] = Append(@, [round |-> round[w], events |-> batch])]
               /\ outbox' = [outbox EXCEPT ![w] = @ \ batch]
               /\ UNCHANGED <<wpc, sends>>
  /\ UNCHANGED <<lpVars, draining, continuation, coordVars, round, horizon, command, merged,
                 held, commands, closed, replies, fault>>

\* All batches are out: RoundComplete is sent, and the round is over.
CompleteRound(w) ==
  /\ wpc[w] = "send"
  /\ outbox[w] = {}
  /\ wpc' = [wpc EXCEPT ![w] = "reply"]
  /\ round' = [round EXCEPT ![w] = @ + 1]
  /\ UNCHANGED <<lpVars, drainVars, coordVars, horizon, command, merged, held, sends,
                 commands, inbox, closed, replies, fault>>

WorkerStep(w) ==
  \/ SendReply(w) \/ RecvCommand(w) \/ CommandsDropped(w) \/ MergeHeld(w) \/ RecvBatch(w)
  \/ Obey(w) \/ PopLp(w) \/ Fault(w) \/ LpDone(w) \/ DrainDone(w) \/ SendBatch(w)
  \/ CompleteRound(w)
  \/ \E n \in Node : \E e \in futures[n] \cup continuation[w] : DrainEvent(w, n, e)

-----------------------------------------------------------------------------
(* The coordinator, run_owned_static_coordinator *)

\* An error: the commands are dropped and the workers' own errors collected.
Abort(error) ==
  /\ result' = error
  /\ cpc' = "abort"
  /\ UNCHANGED <<next_worker, replied, round_number, minima, expected, round_horizon,
                 next_minima, next_expected>>

\* The head of the round loop, with the minima m.
Proceed(m) ==
  LET t == Least({m[w] : w \in Worker}) IN
  /\ next_worker' = 0
  /\ replied' = {}
  /\ IF t < RunEnd
     THEN cpc' = "send" /\ round_horizon' = RoundHorizon(t)
     ELSE cpc' = "finish" /\ UNCHANGED round_horizon

RecvReady ==
  /\ cpc = "ready"
  /\ replies # <<>>
  /\ replies' = Tail(replies)
  /\ LET r == Head(replies) IN
     IF r.type = "Failed" THEN Abort(r.error)
     ELSE IF r.type # "Ready" \/ r.worker \in replied THEN Abort(Disconnected)
     ELSE /\ minima' = [minima EXCEPT ![r.worker] = r.minimum]
          /\ IF replied \cup {r.worker} = Worker
             THEN Proceed(minima')
             ELSE replied' = replied \cup {r.worker} /\ UNCHANGED <<cpc, next_worker, round_horizon>>
          /\ UNCHANGED <<round_number, expected, next_minima, next_expected, result>>
  /\ UNCHANGED <<lpVars, drainVars, workerVars, commands, inbox, closed, fault>>

\* send_command to each worker in turn; the last send starts the collection.
SendCommand ==
  /\ cpc \in {"send", "finish"}
  /\ IF next_worker \in closed
     THEN Abort(Disconnected) /\ UNCHANGED commands
     ELSE /\ commands[next_worker] = <<>>
          /\ commands' = [commands EXCEPT ![next_worker] =
               <<[type     |-> IF cpc = "send" THEN "RunRound" ELSE "Finish",
                  horizon  |-> round_horizon,
                  expected |-> expected[next_worker]]>>]
          /\ next_worker' = next_worker + 1
          /\ cpc' = IF next_worker + 1 < Workers THEN cpc
                    ELSE IF cpc = "send" THEN "collect" ELSE "finishing"
          /\ next_minima' = [w \in Worker |-> NoTime]
          /\ next_expected' = [w \in Worker |-> 0]
          /\ UNCHANGED <<replied, round_number, minima, expected, round_horizon, result>>
  /\ UNCHANGED <<lpVars, drainVars, workerVars, inbox, closed, replies, fault>>

\* A RoundComplete: its minimum and batch metadata are folded in, and after the
\* last one the next round begins.
RecvComplete ==
  /\ cpc = "collect"
  /\ replies # <<>>
  /\ replies' = Tail(replies)
  /\ LET r == Head(replies) IN
     IF r.type = "Failed" THEN Abort(r.error)
     ELSE IF r.type # "RoundComplete" \/ r.round # round_number \/ r.worker \in replied
     THEN Abort(Disconnected)
     ELSE LET m == [w \in Worker |-> Least({next_minima[w], r.minimum_ns[w]}
                                             \cup (IF w = r.worker THEN {r.minimum} ELSE {}))]
              x == [w \in Worker |-> next_expected[w] + r.batches[w]]
          IN IF replied \cup {r.worker} = Worker
             THEN /\ minima' = m
                  /\ expected' = x
                  /\ round_number' = round_number + 1
                  /\ Proceed(m)
                  /\ UNCHANGED <<next_minima, next_expected, result>>
             ELSE /\ next_minima' = m
                  /\ next_expected' = x
                  /\ replied' = replied \cup {r.worker}
                  /\ UNCHANGED <<cpc, next_worker, round_number, minima, expected,
                                 round_horizon, result>>
  /\ UNCHANGED <<lpVars, drainVars, workerVars, commands, inbox, closed, fault>>

\* A Finished; after the last one the result is assembled.
RecvFinished ==
  /\ cpc = "finishing"
  /\ replies # <<>>
  /\ replies' = Tail(replies)
  /\ LET r == Head(replies) IN
     IF r.type = "Failed" THEN Abort(r.error)
     ELSE IF r.type # "Finished" \/ r.worker \in replied THEN Abort(Disconnected)
     ELSE /\ replied' = replied \cup {r.worker}
          /\ IF replied' = Worker
             THEN cpc' = "returned" /\ result' = Failure("Ok")
             ELSE UNCHANGED <<cpc, result>>
          /\ UNCHANGED <<next_worker, round_number, minima, expected, round_horizon,
                         next_minima, next_expected>>
  /\ UNCHANGED <<lpVars, drainVars, workerVars, commands, inbox, closed, fault>>

\* Mutant: the first error to arrive is kept.
FirstError(current, candidate) == current

\* prefer_worker_error
Preferred(current, candidate) ==
  CASE current.kind = "WorkerPanicked" /\ candidate.kind = "WorkerPanicked" ->
         IF candidate.worker < current.worker THEN candidate ELSE current
    [] current.kind # "WorkerPanicked" /\ candidate.kind = "WorkerPanicked" -> candidate
    [] current.kind = "WorkerPanicked" /\ candidate.kind # "WorkerPanicked" -> current
    [] OTHER -> IF current = Disconnected THEN candidate ELSE current

\* drain_owned_worker_errors: until every reply sender is gone.
DrainErrors ==
  /\ cpc = "abort"
  /\ IF replies # <<>>
     THEN /\ replies' = Tail(replies)
          /\ result' = IF Head(replies).type = "Failed"
                       THEN Preferred(result, Head(replies).error) ELSE result
          /\ UNCHANGED cpc
     ELSE /\ \A w \in Worker : wpc[w] = "gone"
          /\ cpc' = "returned"
          /\ UNCHANGED <<replies, result>>
  /\ UNCHANGED <<lpVars, drainVars, workerVars, next_worker, replied, round_number, minima,
                 expected, round_horizon, next_minima, next_expected, commands, inbox,
                 closed, fault>>

Coordinate == RecvReady \/ SendCommand \/ RecvComplete \/ RecvFinished \/ DrainErrors

Next == Coordinate \/ \E w \in Worker : WorkerStep(w)

Spec == Init /\ [][Next]_vars

\* The operating system runs some thread that is not blocked.
FairSpec == Spec /\ WF_vars(Next)

-----------------------------------------------------------------------------

Batches(w) == {inbox[w][i] : i \in DOMAIN inbox[w]} \cup held[w]

pending ==
  (UNION {futures[n] : n \in Node})
    \cup (UNION {outbox[w] \cup continuation[w] : w \in Worker})
    \cup (UNION {UNION {batch.events : batch \in Batches(w)} : w \in Worker})

\* A worker that dies keeps what it had pending; nothing reads it any more.
Causal == INSTANCE CausalCalendar WITH failed <- FALSE

\* However the threads interleave, the events they dispatch are ones that
\* CausalCalendar allows at that point.
ImplementsCausalCalendar == Causal!Spec

\* Type correctness of the channels and of both kinds of threads.
TypeOK ==
  /\ Workers \in Nat \ {0} /\ Owner \in [Node -> Worker] /\ OutboxCapacity \in Nat
  /\ lp \in [Node -> State] /\ next_seq \in [Node -> Nat]
  /\ futures \in [Node -> SUBSET Event] /\ executed \subseteq Event
  /\ frontier \in [Worker -> SUBSET [time_ns : Time, node : Node]]
  /\ wpc \in [Worker -> {"wait", "drain", "send", "reply", "gone"}]
  /\ round \in [Worker -> Nat] /\ merged \in [Worker -> Nat]
  /\ horizon \in [Worker -> 0 .. NoTime]
  /\ \A w \in Worker : Cardinality(command[w]) <= 1 /\ Len(commands[w]) <= 1
  /\ Len(replies) <= 2 * Workers
  /\ draining \in [Worker -> SUBSET Node]
  /\ continuation \in [Worker -> SUBSET Event] /\ outbox \in [Worker -> SUBSET Event]
  /\ closed \subseteq Worker /\ replied \subseteq Worker
  /\ cpc \in {"ready", "send", "collect", "finish", "finishing", "abort", "returned"}
  /\ next_worker \in 0 .. Workers /\ round_number \in Nat
  /\ minima \in [Worker -> 0 .. NoTime] /\ expected \in [Worker -> Nat]

\* "That count seals the inbox before the next drain or final assembly": a worker
\* that drains, or has handed over its LPs, is owed no batch of an earlier round,
\* and what reaches a worker carries one of the two round tags that
\* receive_owned_command_and_merge accepts.  The state keeps its types, the
\* capacities of the channels included.
SealedInbox ==
  /\ TypeOK
  /\ \A w \in Worker :
       /\ wpc[w] # "gone" =>
            \A batch \in Batches(w) : batch.round \in {round[w] - 1, round[w]}
       /\ wpc[w] = "drain" \/ (cpc = "returned" /\ result.kind = "Ok") =>
            /\ \A batch \in Batches(w) : batch.round >= round[w]
            /\ \A v \in Worker : round[v] < round[w] =>
                 \A e \in outbox[v] : Owner[e.target] # w

\* Between rounds the coordinator's minima are the true ones, although it sees
\* neither the LPs nor the batches: the horizon it derives is the global one.
MinimaExact ==
  cpc = "send" /\ next_worker = 0 =>
    Least({minima[w] : w \in Worker}) = Least(Times(pending))

\* The error of a failed run is the one that caused it: never the disconnections
\* it leads to in the other threads, nor a protocol error.
ErrorIsRootCause ==
  cpc = "returned" =>
    result.kind \in {"Ok", "DispatchError", "OutboxCapacityExceeded", "WorkerFailed",
                     "WorkerPanicked"}

\* The run returns and every thread ends, also when a worker fails or panics
\* while others wait for its commands, batches or replies.
Terminates == <>(cpc = "returned" /\ \A w \in Worker : wpc[w] = "gone")
=============================================================================
