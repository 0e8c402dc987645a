----------------------------- MODULE MCExecutors -----------------------------
(***************************************************************************)
(* The executors on the images of MCProgram.  A behaviour is a run of one  *)
(* of them: the abstract calendar, the scalar one, the one that runs by    *)
(* rounds, the workers that own their LPs, and those that lend them        *)
(* out.  They share the variables of the same name; those an executor does *)
(* not have are idle.                                                      *)
(***************************************************************************)
EXTENDS Transitions, MCProgram, TLC

VARIABLES
  executor,
  lp, next_seq, executed, futures,
  timers,                                                             \* scalar
  pending_keys, frontier, generations, horizon, active, draining,
  continuation, outbox, pc,                                           \* rounds
  wpc, round, command, merged, held, sends, commands, inbox, closed,
  replies, cpc, next_worker, replied, round_number, minima, expected,
  round_horizon, next_minima, next_expected, result, fault,           \* owned
  items, returned, resident,                                          \* LPs lent
  exchange, got,                                                      \* classified
  active_by_owner, chunks, dedicated, inflight, awaiting, deferred,
  remaining, returned_by_owner, remote                                \* chunked

scalarVars == timers
roundVars  == <<pending_keys, generations, active>>
drainVars  == <<frontier, horizon, draining, continuation, outbox>>
ownedVars  == <<wpc, round, command, merged, held, sends, commands, inbox, closed,
                replies, cpc, next_worker, replied, round_number, minima, expected,
                round_horizon, next_minima, next_expected, result, fault>>
lentVars   == <<items, returned, resident>>
exchangeVars == <<exchange, got>>
chunkVars  == <<active_by_owner, chunks, dedicated, inflight, awaiting, deferred, remaining,
                returned_by_owner, remote>>
vars == <<executor, lp, next_seq, executed, futures, pc, scalarVars, roundVars, drainVars, ownedVars,
          lentVars, exchangeVars, chunkVars>>

\* The handlers as a table, evaluated once.
Tabulated(f) == f @@ <<>>
MCOutcomes ==
  Tabulated([n \in ProgNode |-> Tabulated([seen \in 0 .. 2 |-> Tabulated([timer \in Time |->
    Tabulated([t \in Time |-> Tabulated([p \in ProgPayload |-> Tabulated([kind \in EventKind |->
      ProgOutcome(n, [seen |-> seen, timer |-> timer],
                  [time_ns |-> t, kind |-> kind, payload |-> p], Lookahead)])])])])])])
MCDispatch(n, s, v) == MCOutcomes[n][s.seen][s.timer][v.time_ns][v.payload][v.kind]
MCOwner == [n \in ProgNode |-> n]
MCParity == [n \in ProgNode |-> n % 2]
MCFaults == [worker : {1}, kind : {"Failure", "Panic", "Bug"}]
MCChunkFaults == [worker : {1}, kind : {"Failure", "Panic"}]

Image(S) ==
  [lp       |-> [n \in ProgNode |-> [seen |-> 0, timer |-> 0]],
   next_seq |-> [n \in ProgNode |-> 2],
   events   |-> S]

\* For the workers, late sources: one that overflows an outbox of one event, and one
\* that a handler ends.
LateImages ==
  {Image({InitialEvent(5, "PacingTimer", 1, 2, 1)}), Image({InitialEvent(6, "PacketArrival", 1, 2, 0)})}

\* A run of three rounds that succeeds.  In the second, workers 0 and 2 both send to
\* worker 1, which may not have begun it, and which drains in the third.
EarlyImages ==
  {Image({InitialEvent(4, "PacingTimer", 1, 0, 0), InitialEvent(5, "PacketArrival", 0, 1, 0)})}

\* Worker 2 fails in the second round.
EarlyFaults == {[worker |-> 2, kind |-> "Failure"]}

\* For the workers that lend LPs: an LP with two events in the first round, a
\* straggler, and one with a single event; the same, where the straggler overflows its
\* outbox; three LPs for two workers; and two stragglers.
MixedImage(p) ==
  Image({InitialEvent(6, "PacketArrival", 0, 0, 0), InitialEvent(6, "PacketArrival", 0, p, 1),
         InitialEvent(7, "PacingTimer", 2, 1, 1)})

ClassifiedImages == {MixedImage(0), MixedImage(2)}

ChunkImages ==
  {MixedImage(0),
   Image({InitialEvent(8, "PacingTimer", n, 1, 0) : n \in ProgNode}),
   Image({InitialEvent(8, "PacingTimer", n, 0, k) : n, k \in {0, 1}})}

MCImages ==
  ProgImages \cup LateImages \cup EarlyImages \cup ClassifiedImages \cup ChunkImages

Abstract == INSTANCE CausalCalendar WITH Images <- ProgImages, pending <- futures, failed <- pc
Scalar   == INSTANCE ScalarCalendar WITH Images <- ProgImages, heap <- futures, result <- pc
Rounds   == INSTANCE SafeHorizon WITH Images <- ProgImages
Owned    == INSTANCE OwnedStatic WITH Images <- LateImages, Workers <- 3, Owner <- MCOwner,
              OutboxCapacity <- 1, Faults <- MCFaults
Early    == INSTANCE OwnedStatic WITH Images <- EarlyImages, Workers <- 3, Owner <- MCOwner,
              OutboxCapacity <- 1, Faults <- EarlyFaults

Classified == INSTANCE ClassifiedStatic WITH Images <- ClassifiedImages, Workers <- 2,
                Owner <- MCParity, OutboxCapacity <- 2, Faults <- MCFaults,
                Threshold <- 1, Dedicated <- 1
Chunked  == INSTANCE ChunkedCpu WITH Images <- ChunkImages, Workers <- 2, Owner <- MCParity,
              OutboxCapacity <- 2, Faults <- MCChunkFaults, Threshold <- 1, Dedicated <- 2,
              ChunkSize <- 1

IdleScalar == timers = {}
IdleRounds == pending_keys = {} /\ generations = <<>> /\ active = {}
IdleDrain  == frontier = {} /\ horizon = 0 /\ draining = {} /\ continuation = {} /\ outbox = {}
IdleOwned  ==
  /\ wpc = <<>> /\ round = <<>> /\ command = <<>> /\ merged = <<>> /\ held = <<>> /\ sends = <<>>
  /\ commands = <<>> /\ inbox = <<>> /\ closed = {} /\ replies = <<>> /\ cpc = "idle"
  /\ next_worker = 0 /\ replied = {} /\ round_number = 0 /\ minima = <<>> /\ expected = <<>>
  /\ round_horizon = 0 /\ next_minima = <<>> /\ next_expected = <<>> /\ result = {} /\ fault = {}
IdleLent     == items = <<>> /\ returned = <<>> /\ resident = <<>>
IdleExchange == exchange = <<>> /\ got = <<>>
IdleChunks   ==
  /\ active_by_owner = <<>> /\ chunks = <<>> /\ dedicated = 0 /\ inflight = <<>> /\ awaiting = {}
  /\ deferred = <<>> /\ remaining = 0 /\ returned_by_owner = {} /\ remote = <<>>
IdleWorkers  == IdleOwned /\ IdleLent /\ IdleExchange /\ IdleChunks
IdleCalendar == IdleScalar /\ IdleRounds /\ pc = "idle"

Init ==
  \/ executor = "abstract" /\ Abstract!Init /\ IdleScalar /\ IdleRounds /\ IdleDrain /\ IdleWorkers
  \/ executor = "scalar" /\ Scalar!Init /\ IdleRounds /\ IdleDrain /\ IdleWorkers
  \/ executor = "rounds" /\ Rounds!Init /\ IdleScalar /\ IdleWorkers
  \/ executor = "owned" /\ (Owned!Init \/ Early!Init) /\ IdleCalendar /\ IdleLent /\ IdleExchange /\ IdleChunks
  \/ executor = "classified" /\ Classified!ClassifiedInit /\ IdleCalendar /\ IdleChunks
  \/ executor = "chunked" /\ Chunked!ChunkedInit /\ IdleCalendar /\ IdleExchange

Next ==
  \/ /\ executor = "abstract" /\ Abstract!Next
     /\ UNCHANGED <<executor, scalarVars, roundVars, drainVars, ownedVars, lentVars, exchangeVars, chunkVars>>
  \/ /\ executor = "scalar" /\ Scalar!Next
     /\ UNCHANGED <<executor, roundVars, drainVars, ownedVars, lentVars, exchangeVars, chunkVars>>
  \/ executor = "rounds" /\ Rounds!Next /\ UNCHANGED <<executor, scalarVars, ownedVars, lentVars, exchangeVars, chunkVars>>
  \/ executor = "owned" /\ Owned!Next /\ UNCHANGED <<executor, pc, scalarVars, roundVars, lentVars, exchangeVars, chunkVars>>
  \/ /\ executor = "classified" /\ Classified!ClassifiedNext
     /\ UNCHANGED <<executor, pc, scalarVars, roundVars, chunkVars>>
  \/ /\ executor = "chunked" /\ Chunked!ChunkedNext
     /\ UNCHANGED <<executor, pc, scalarVars, roundVars, exchangeVars>>

\* An executor that can step does.
Spec == Init /\ [][Next]_vars /\ WF_vars(Next)

-----------------------------------------------------------------------------

Pending ==
  CASE executor = "abstract" -> futures
    [] executor = "scalar"   -> Scalar!events
    [] executor = "rounds"   -> Rounds!pending
    [] executor = "owned"    -> Owned!pending
    [] executor = "classified" -> Classified!classified_pending
    [] executor = "chunked"  -> Chunked!chunked_pending

\* The executors whose workers are threads.
Threads == executor \in {"owned", "classified", "chunked"}

Failed ==
  \/ executor = "abstract" /\ pc
  \/ executor \in {"scalar", "rounds"} /\ pc = "DispatchError"

Calendar == INSTANCE CausalCalendar WITH Images <- MCImages, pending <- Pending, failed <- Failed

\* Whatever the executor, every event that it dispatches is one that CausalCalendar
\* allows at that point, and it leaves what CausalCalendar leaves.
ImplementsCausalCalendar == Calendar!Spec

\* No event is pending, in flight between workers included, at an LP that has already
\* dispatched a later one.  No executor uses a key twice, in whichever of its containers
\* the events are, and the scalar one never reports a duplicate, which insert looks for
\* in one of its two.
LocalCausality ==
  /\ Calendar!LocalCausality
  /\ Calendar!UniqueKeys
  /\ executor = "scalar" => Scalar!NoDuplicateKey

\* The executor has ended with a result, or with the error of a handler.
Succeeded ==
  CASE executor = "abstract" -> ~pc /\ \A e \in futures : e.key.time_ns >= RunEnd
    [] executor \in {"scalar", "rounds"} -> pc = "done"
    [] Threads -> cpc = "returned" /\ result.kind = "Ok"

HandlerFailed ==
  Failed \/ (Threads /\ cpc = "returned" /\ result.kind = "DispatchError")

\* Every run ends as the serial run of its image does: with the same LP states, pending
\* and dispatched events, or with a handler error when that one fails.  Neither the
\* order of safe events, nor rounds, nor the partition over workers shows.  "No partial
\* CpuRun escapes": a worker run succeeds only when every LP has been handed over and
\* nothing is in flight.
ResultIsSerial ==
  LET serial == ProgSerialOf(executed \cup Pending, Lookahead, RunEnd) IN
  /\ Succeeded => serial = [failed |-> FALSE, lp |-> lp, pending |-> Pending, executed |-> executed]
  /\ HandlerFailed => serial.failed
  /\ Succeeded /\ Threads =>
       replied = DOMAIN wpc /\ Pending = UNION {futures[n] : n \in Node}

\* The scalar executor dispatches in canonical key order across all LPs, whichever of the two containers
\* an event came from.
CanonicalOrder ==
  [][executor = "scalar" => \A e \in executed' \ executed, f \in executed : Earlier(f, e)]_vars

\* The round executor never meets the guards of its own horizon.
HorizonIsSafe == executor = "rounds" => Rounds!HorizonIsSafe

\* Its lazy frontier index and its duplicate-key index agree with the events pending.
FrontierExact == executor = "rounds" => Rounds!FrontierExact /\ Rounds!PendingKeysExact

\* A round has all that it goes by: a worker that drains is owed no batch of an earlier
\* round, an LP that is lent to another worker is at one place, and between rounds the
\* minima that the coordinator has are the true ones.
RoundsAreSealed ==
  /\ executor = "owned" => Owned!SealedInbox
  /\ executor = "classified" => Classified!LpsConserved
  /\ executor = "chunked" => Chunked!LpsConserved
  /\ Threads /\ cpc = "send" /\ next_worker = 0 =>
       \E t \in {minima[w] : w \in DOMAIN minima} :
         IsMinTime(t, Pending) /\ \A w \in DOMAIN minima : t <= minima[w]

\* The error of a failed worker run is the one that caused it.
ErrorIsRootCause == Threads => Owned!ErrorIsRootCause

\* Every run ends, and with it every thread, also when a worker fails or panics.
Terminates ==
  <>(CASE executor = "abstract" -> pc \/ Succeeded
       [] executor = "scalar"   -> pc # "running"
       [] executor = "rounds"   -> pc \notin {"peek", "drain", "exchange"}
       [] Threads -> cpc = "returned" /\ \A w \in DOMAIN wpc : wpc[w] = "gone")
=============================================================================
