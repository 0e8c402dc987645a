----------------------------- MODULE ChunkedCpu -----------------------------
(***************************************************************************)
(* The CPU executor with chunks of a fixed size (worker_loop and           *)
(* run_coordinator of executor/src/cpu.rs).  Here all LPs of a round pass  *)
(* through the coordinator.  It extracts them from their owners, splits    *)
(* them into stragglers and bulk chunks, hands these out one at a time,    *)
(* the stragglers first, and gives every LP and every event for another    *)
(* back to its owner before it looks at the next frontier.                 *)
(*                                                                         *)
(* Ready, Finished and the end of a failed run are as in OwnedStatic: no   *)
(* worker sends either reply twice, so that its check for that, which this *)
(* coordinator does not have, never shows.                                 *)
(***************************************************************************)
EXTENDS LentLps

CONSTANT ChunkSize    \* ChunkGranularity::Fixed

VARIABLES
  active_by_owner,    \* the LPs extracted by each worker
  chunks,             \* straggler_chunks and bulk_chunks still to be handed out
  dedicated,          \* how many workers take stragglers
  inflight,           \* per worker: the class of the chunk it has, or "none"
  awaiting,           \* workers whose first straggler has not started
  deferred,           \* completions that arrived before all stragglers started
  remaining,          \* total_chunks - completed_chunks
  returned_by_owner,  \* LPs whose chunk is complete
  remote              \* remote_by_source_and_owner

chunkVars == <<active_by_owner, chunks, dedicated, inflight, awaiting, deferred, remaining,
               returned_by_owner, remote>>

NoChunks == [straggler |-> <<>>, bulk |-> <<>>]

ChunkedInit ==
  /\ LentInit
  /\ active_by_owner = [w \in Worker |-> <<>>]
  /\ chunks = NoChunks
  /\ dedicated = 0
  /\ inflight = [w \in Worker |-> "none"]
  /\ awaiting = {}
  /\ deferred = <<>>
  /\ remaining = 0
  /\ returned_by_owner = {}
  /\ remote = [w \in Worker |-> {}]

-----------------------------------------------------------------------------
(* Workers *)

Answer(w, reply) ==
  /\ sends' = [sends EXCEPT ![w] = <<reply>>]
  /\ wpc' = [wpc EXCEPT ![w] = "reply"]

\* replies.send, on a channel of four replies per worker.
SendChunkReply(w) ==
  /\ wpc[w] = "reply"
  /\ Len(replies) < 4 * Workers
  /\ replies' = Append(replies, Head(sends[w]))
  /\ sends' = [sends EXCEPT ![w] = Tail(@)]
  /\ IF Len(sends[w]) > 1
     THEN UNCHANGED <<wpc, closed>>
     ELSE IF Head(sends[w]).type \in {"Finished", "Failed"}
     THEN wpc' = [wpc EXCEPT ![w] = "gone"] /\ closed' = closed \cup {w}
     ELSE /\ wpc' = [wpc EXCEPT ![w] = IF Head(sends[w]).type = "ChunkStarted"
                                       THEN "drain" ELSE "wait"]
          /\ UNCHANGED closed
  /\ UNCHANGED <<lpVars, drainVars, coordVars, round, horizon, command, merged, held,
                 commands, inbox, fault, lentVars>>

\* Extract: the LPs below the horizon go to the coordinator.
Extract(w) ==
  /\ wpc[w] = "wait" /\ commands[w] # <<>>
  /\ LET c == Head(commands[w])
         active == Extracted(w, c.horizon)
         taken == {item.node : item \in Range(active)}
     IN /\ c.type = "Extract"
        /\ frontier' = [frontier EXCEPT ![w] = {entry \in @ : entry.node \notin taken}]
        /\ resident' = [resident EXCEPT ![w] = @ \ taken]
        /\ Answer(w, [type |-> "Active", worker |-> w, round |-> c.round, active |-> active])
  /\ commands' = [commands EXCEPT ![w] = Tail(@)]
  /\ UNCHANGED <<lp, next_seq, executed, futures, drainVars, coordVars, round, horizon, command,
                 merged, held, inbox, closed, replies, fault, items, returned>>

\* Execute: the chunk is acknowledged before it is drained.
StartChunk(w) ==
  /\ wpc[w] = "wait" /\ commands[w] # <<>>
  /\ LET c == Head(commands[w])
     IN /\ c.type = "Execute"
        /\ horizon' = [horizon EXCEPT ![w] = c.horizon]
        /\ round' = [round EXCEPT ![w] = c.round]
        /\ items' = [items EXCEPT ![w] = c.items]
        /\ command' = [command EXCEPT ![w] = {c.class}]    \* class, for the completion
        /\ Answer(w, [type |-> "ChunkStarted", worker |-> w, round |-> c.round, class |-> c.class])
  /\ commands' = [commands EXCEPT ![w] = Tail(@)]
  /\ UNCHANGED <<lpVars, drainVars, coordVars, merged, held, inbox, closed, replies, fault,
                 returned, resident>>

\* Every LP of the chunk is drained.
CompleteChunk(w) ==
  /\ wpc[w] = "drain" /\ draining[w] = {} /\ items[w] = <<>>
  /\ \E class \in command[w] :
       Answer(w, [type |-> "ChunkComplete", worker |-> w, round |-> round[w], class |-> class,
                  returned |-> returned[w], remote |-> outbox[w]])
  /\ command' = [command EXCEPT ![w] = {}]
  /\ outbox' = [outbox EXCEPT ![w] = {}]
  /\ returned' = [returned EXCEPT ![w] = {}]
  /\ UNCHANGED <<lpVars, draining, continuation, coordVars, round, horizon, merged, held,
                 commands, inbox, closed, replies, fault, items, resident>>

\* RestoreAndMerge: what is in the inbox now is all there is of the round.
Restore(w) ==
  /\ wpc[w] = "wait" /\ commands[w] # <<>>
  /\ LET c       == Head(commands[w])
         arrived == UNION {batch.events : batch \in Range(inbox[w])}
         F       == Rebuilt(w, c.returned, arrived)
         error   == RestoreError(w, c.returned, arrived, c.horizon, MinTime(F))
     IN /\ c.type = "RestoreAndMerge"
        /\ IF error # "none"
           THEN FailWorker(w, Failure(error)) /\ UNCHANGED <<futures, frontier, resident, inbox>>
           ELSE /\ futures' = Arrived(arrived)
                /\ frontier' = [frontier EXCEPT ![w] = F]
                /\ resident' = [resident EXCEPT ![w] = @ \cup c.returned]
                /\ inbox' = [inbox EXCEPT ![w] = <<>>]
                /\ Answer(w, [type |-> "MergeComplete", worker |-> w, round |-> c.round,
                              minimum |-> MinTime(F)])
  /\ commands' = [commands EXCEPT ![w] = Tail(@)]
  /\ UNCHANGED <<lp, next_seq, executed, drainVars, coordVars, round, horizon, command, merged,
                 held, closed, replies, fault, items, returned>>

ChunkWorkerStep(w) ==
  /\ \/ SendChunkReply(w) \/ Extract(w) \/ StartChunk(w) \/ CompleteChunk(w) \/ Restore(w)
     \/ HandOver(w) \/ Leave(w) \/ NextItem(w) \/ ItemDone(w)
     \/ Fault(w) /\ UNCHANGED lentVars
     \/ /\ \E n \in Node : \E e \in futures[n] \cup continuation[w] : DrainEvent(w, n, e)
        /\ UNCHANGED lentVars
  /\ UNCHANGED chunkVars

-----------------------------------------------------------------------------
(* The coordinator *)

\* What no step of the coordinator touches but through a channel.
Elsewhere == <<lpVars, drainVars, workerVars, lentVars, closed, fault>>

\* The locals it shares with OwnedStatic, but for its place.
Locals == <<replied, round_number, minima, expected, round_horizon, next_minima, next_expected,
            result>>

\* send_command to next_worker; after the last one the coordinator is at after.
SendNext(message, after) ==
  IF next_worker \in closed
  THEN Abort(Disconnected) /\ UNCHANGED commands
  ELSE /\ commands[next_worker] = <<>>
       /\ commands' = [commands EXCEPT ![next_worker] = <<message>>]
       /\ next_worker' = (next_worker + 1) % Workers
       /\ cpc' = IF next_worker + 1 < Workers THEN cpc ELSE after
       /\ UNCHANGED Locals

SendExtract ==
  /\ cpc = "send"
  /\ SendNext([type |-> "Extract", round |-> round_number, horizon |-> round_horizon], "collect")
  /\ UNCHANGED <<Elsewhere, chunkVars, inbox, replies>>

SendFinish ==
  /\ cpc = "finish"
  /\ SendNext([type |-> "Finish"], "finishing")
  /\ UNCHANGED <<Elsewhere, chunkVars, inbox, replies>>

\* LPT order of all active LPs, and their split by class.
Ordered(active) == Lpt(FlattenSeq([i \in 1 .. Workers |-> active[i - 1]]))

\* Bulk chunks hold ChunkSize LPs, the last one what is left.
ChunksOf(s, size) ==
  [i \in 1 .. (Len(s) + size - 1) \div size |->
     SubSeq(s, (i - 1) * size + 1, IF i * size < Len(s) THEN i * size ELSE Len(s))]

\* partition_round
Partition(active) ==
  LET ordered    == Ordered(active)
      stragglers == SelectSeq(ordered, IsStraggler)
      bulk       == SelectSeq(ordered, LAMBDA item : ~IsStraggler(item))
      available  == IF bulk = <<>> THEN Workers ELSE IF Workers > 2 THEN Workers - 1 ELSE 1
  IN [chunks    |-> [straggler |-> ChunksOf(stragglers, 1), bulk |-> ChunksOf(bulk, ChunkSize)],
      dedicated |-> CHOOSE d \in {Dedicated, Len(stragglers), available} :
                      \A c \in {Dedicated, Len(stragglers), available} : d <= c]

BulkWorkers == IF dedicated = Workers THEN {0} ELSE dedicated .. Workers - 1

\* An Active; after the last one the round is partitioned.
RecvActive ==
  /\ cpc = "collect" /\ replies # <<>>
  /\ replies' = Tail(replies)
  /\ LET r == Head(replies) IN
     IF r.type = "Failed" THEN Abort(r.error) /\ UNCHANGED chunkVars
     ELSE IF r.type # "Active" \/ r.round # round_number
     THEN Abort(Disconnected) /\ UNCHANGED chunkVars
     ELSE LET all == [active_by_owner EXCEPT ![r.worker] = r.active]
              p == Partition(all)
              total == Len(p.chunks.straggler) + Len(p.chunks.bulk)
          IN /\ IF replied \cup {r.worker} # Worker
                THEN /\ active_by_owner' = all
                     /\ replied' = replied \cup {r.worker}
                     /\ UNCHANGED <<cpc, chunks, dedicated, remaining>>
                ELSE /\ active_by_owner' = [w \in Worker |-> <<>>]
                     /\ replied' = {}
                     /\ cpc' = IF total = 0 THEN "route" ELSE "stragglers"
                     /\ chunks' = p.chunks
                     /\ dedicated' = p.dedicated
                     /\ remaining' = total
             /\ UNCHANGED <<next_worker, round_number, minima, expected, round_horizon,
                            next_minima, next_expected, result, inflight, awaiting, deferred,
                            returned_by_owner, remote>>
  /\ UNCHANGED <<Elsewhere, commands, inbox>>

\* A chunk goes to worker w; busy is inflight at this point.
dispatch_chunk(w, class, busy, place) ==
  IF busy[w] # "none" \/ w \in closed
  THEN /\ Abort(IF busy[w] # "none" THEN Failure("WorkerBusy") ELSE Disconnected)
       /\ UNCHANGED <<commands, chunks, inflight>>
  ELSE /\ commands[w] = <<>>
       /\ commands' = [commands EXCEPT ![w] =
            <<[type |-> "Execute", round |-> round_number, horizon |-> round_horizon,
               class |-> class, items |-> Head(chunks[class])]>>]
       /\ chunks' = [chunks EXCEPT ![class] = Tail(@)]
       /\ inflight' = [busy EXCEPT ![w] = class]
       /\ cpc' = place.cpc
       /\ next_worker' = place.next_worker
       /\ UNCHANGED Locals

\* The first chunk of each dedicated worker, in turn.
DispatchStragglers ==
  /\ cpc = "stragglers"
  /\ IF next_worker < dedicated /\ chunks.straggler # <<>>
     THEN /\ dispatch_chunk(next_worker, "straggler", inflight,
                      [cpc |-> cpc, next_worker |-> next_worker + 1])
          /\ awaiting' = awaiting \cup {next_worker}
     ELSE /\ cpc' = "starts"
          /\ next_worker' = 0
          /\ UNCHANGED <<Locals, commands, chunks, inflight, awaiting>>
  /\ UNCHANGED <<Elsewhere, inbox, replies, active_by_owner, dedicated, deferred, remaining,
                 returned_by_owner, remote>>

\* No bulk chunk goes out before every first straggler has started.
RecvStart ==
  /\ cpc = "starts"
  /\ IF awaiting = {}
     THEN cpc' = "bulk" /\ UNCHANGED <<next_worker, Locals, replies, awaiting, deferred>>
     ELSE /\ replies # <<>>
          /\ replies' = Tail(replies)
          /\ LET r == Head(replies)
                 started   == r.type = "ChunkStarted" /\ r.round = round_number
                                /\ r.class = "straggler" /\ r.worker \in awaiting
                 completed == r.type = "ChunkComplete" /\ r.round = round_number
             IN /\ awaiting' = IF started THEN awaiting \ {r.worker} ELSE awaiting
                /\ deferred' = IF completed THEN Append(deferred, r) ELSE deferred
                /\ IF started \/ completed
                   THEN UNCHANGED <<cpc, next_worker, Locals>>
                   ELSE Abort(IF r.type = "Failed" THEN r.error ELSE Disconnected)
  /\ UNCHANGED <<Elsewhere, commands, inbox, active_by_owner, chunks, dedicated, inflight,
                 remaining, returned_by_owner, remote>>

\* A bulk chunk for each bulk worker that has none.
DispatchBulk ==
  /\ cpc = "bulk"
  /\ LET free == {w \in BulkWorkers : w >= next_worker /\ inflight[w] = "none"}
     IN IF free = {} \/ chunks.bulk = <<>>
        THEN /\ cpc' = "chunks"
             /\ next_worker' = 0
             /\ UNCHANGED <<Locals, commands, chunks, inflight>>
        ELSE \E w \in free :
               /\ \A v \in free : w <= v
               /\ dispatch_chunk(w, "bulk", inflight, [cpc |-> cpc, next_worker |-> w + 1])
  /\ UNCHANGED <<Elsewhere, inbox, replies, active_by_owner, dedicated, awaiting, deferred,
                 remaining, returned_by_owner, remote>>

\* A complete chunk: its LPs and events are collected, and its worker gets the
\* next chunk of the class, or after the last straggler a bulk one.
ChunkCompleted(r) ==
  LET w    == r.worker
      idle == [inflight EXCEPT ![w] = "none"]
      next == IF chunks[r.class] # <<>> THEN r.class
              ELSE IF w \in BulkWorkers /\ chunks.bulk # <<>> THEN "bulk" ELSE "none"
      here == [cpc |-> IF remaining = 1 THEN "route" ELSE "chunks", next_worker |-> 0]
  IN /\ remaining' = remaining - 1
     /\ returned_by_owner' = returned_by_owner \cup r.returned
     /\ remote' = [remote EXCEPT ![w] = @ \cup r.remote]
     /\ IF next = "none"
        THEN /\ inflight' = idle /\ cpc' = here.cpc
             /\ UNCHANGED <<next_worker, Locals, commands, chunks>>
        ELSE dispatch_chunk(w, next, idle, here)

\* The completions deferred, and then the replies.
RecvChunk ==
  /\ cpc = "chunks"
  /\ deferred \o replies # <<>>
  /\ LET r == Head(deferred \o replies) IN
     /\ IF deferred # <<>> THEN deferred' = Tail(deferred) /\ UNCHANGED replies
                           ELSE replies' = Tail(replies) /\ UNCHANGED deferred
     /\ IF r.type = "ChunkComplete" /\ r.round = round_number /\ inflight[r.worker] = r.class
        THEN ChunkCompleted(r)
        ELSE /\ IF r.type = "ChunkStarted" /\ r.round = round_number /\ inflight[r.worker] = r.class
                THEN UNCHANGED <<cpc, next_worker, Locals>>
                ELSE Abort(IF r.type = "Failed" THEN r.error ELSE Disconnected)
             /\ UNCHANGED <<commands, chunks, inflight, remaining, returned_by_owner, remote>>
  /\ UNCHANGED <<Elsewhere, inbox, active_by_owner, dedicated, awaiting>>

\* The events of each source go to their owners, as one batch for each.
RouteRemote ==
  /\ cpc = "route"
  /\ LET owners == {Owner[e.target] : e \in UNION {remote[w] : w \in Worker}}
         batches(v) == SelectSeq(
           [i \in 1 .. Workers |-> [round  |-> round_number,
                                    events |-> {e \in remote[i - 1] : Owner[e.target] = v}]],
           LAMBDA batch : batch.events # {})
     IN IF owners \cap closed # {}
        THEN Abort(Disconnected) /\ UNCHANGED <<inbox, remote>>
        ELSE /\ inbox' = [v \in Worker |-> inbox[v] \o batches(v)]
             /\ remote' = [w \in Worker |-> {}]
             /\ cpc' = "merge"
             /\ UNCHANGED <<next_worker, Locals>>
  /\ UNCHANGED <<Elsewhere, commands, replies, active_by_owner, chunks, dedicated, inflight,
                 awaiting, deferred, remaining, returned_by_owner>>

\* RestoreAndMerge to each worker, with the LPs it owns.
SendMerge ==
  /\ cpc = "merge"
  /\ SendNext([type |-> "RestoreAndMerge", round |-> round_number, horizon |-> round_horizon,
               returned |-> returned_by_owner \cap OwnedBy(next_worker)], "merging")
  /\ returned_by_owner' = IF next_worker \in closed THEN returned_by_owner
                          ELSE returned_by_owner \ OwnedBy(next_worker)
  /\ UNCHANGED <<Elsewhere, inbox, replies, active_by_owner, chunks, dedicated, inflight,
                 awaiting, deferred, remaining, remote>>

\* A MergeComplete; after the last one the next round begins.
RecvMerged ==
  /\ cpc = "merging" /\ replies # <<>>
  /\ replies' = Tail(replies)
  /\ LET r == Head(replies) IN
     IF r.type = "Failed" THEN Abort(r.error)
     ELSE IF r.type # "MergeComplete" \/ r.round # round_number THEN Abort(Disconnected)
     ELSE LET m == [next_minima EXCEPT ![r.worker] = r.minimum]
          IN /\ IF replied \cup {r.worker} # Worker
                THEN /\ next_minima' = m
                     /\ replied' = replied \cup {r.worker}
                     /\ UNCHANGED <<cpc, next_worker, minima, round_number, round_horizon>>
                ELSE /\ next_minima' = [w \in Worker |-> NoTime]
                     /\ minima' = m
                     /\ round_number' = round_number + 1
                     /\ Proceed(m)
             /\ UNCHANGED <<expected, next_expected, result>>
  /\ UNCHANGED <<Elsewhere, commands, inbox, chunkVars>>

\* drain_worker_errors.  The events of a completion it drops stay in remote, for
\* pending; nothing reads them.
DropReply ==
  /\ DrainErrors
  /\ remote' = IF replies # <<>> /\ Head(replies).type = "ChunkComplete"
               THEN [remote EXCEPT ![Head(replies).worker] = @ \cup Head(replies).remote]
               ELSE remote
  /\ UNCHANGED <<lentVars, active_by_owner, chunks, dedicated, inflight, awaiting, deferred,
                 remaining, returned_by_owner>>

ChunkCoordinate ==
  \/ RecvReady /\ UNCHANGED <<lentVars, chunkVars>>
  \/ RecvFinished /\ UNCHANGED <<lentVars, chunkVars>>
  \/ SendExtract \/ SendFinish \/ RecvActive \/ DispatchStragglers \/ RecvStart \/ DispatchBulk
  \/ RecvChunk \/ RouteRemote \/ SendMerge \/ RecvMerged \/ DropReply

ChunkedNext == ChunkCoordinate \/ \E w \in Worker : ChunkWorkerStep(w)

-----------------------------------------------------------------------------

\* Completions on their way to the coordinator, or put aside by it.
Completions ==
  {r \in Range(replies) \cup Range(deferred) \cup UNION {Range(sends[w]) : w \in Worker} :
     r.type = "ChunkComplete"}

chunked_pending ==
  (UNION {futures[n] : n \in Node})
    \cup (UNION {outbox[w] \cup continuation[w] \cup remote[w] : w \in Worker})
    \cup (UNION {UNION {batch.events : batch \in Range(inbox[w])} : w \in Worker})
    \cup (UNION {r.remote : r \in Completions})

NodesOf(s) == {item.node : item \in Range(s)}

\* The places an LP can be at.
Places ==
  <<UNION {NodesOf(active_by_owner[w]) : w \in Worker},
    UNION {NodesOf(s) : s \in Range(chunks.straggler) \cup Range(chunks.bulk)},
    UNION {r.returned : r \in Completions},
    UNION {NodesOf(r.active) : r \in {x \in Range(replies) \cup UNION {Range(sends[w]) : w \in Worker} :
                                        x.type = "Active"}},
    returned_by_owner>>
  \o FlattenSeq([i \in 1 .. Workers |->
       LET w == i - 1 IN
       <<resident[w], NodesOf(items[w]), draining[w], returned[w],
         UNION {NodesOf(c.items) : c \in {x \in Range(commands[w]) : x.type = "Execute"}},
         UNION {c.returned : c \in {x \in Range(commands[w]) : x.type = "RestoreAndMerge"}}>>])

\* Until a worker fails, every LP is at exactly one place: in the shard of its
\* owner, with the coordinator, with the worker that drains it, or in one message.
LpsConserved ==
  LET places == Places IN
  closed = {} /\ (\A w \in Worker : \A r \in Range(sends[w]) : r.type # "Failed") =>
    \A n \in Node : \E i \in DOMAIN places :
      n \in places[i] /\ \A j \in DOMAIN places \ {i} : n \notin places[j]
=============================================================================
