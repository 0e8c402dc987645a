-------------------------- MODULE ClassifiedStatic --------------------------
(***************************************************************************)
(* The static CPU executor with straggler classification                   *)
(* (classified_worker_loop of executor/src/cpu.rs).  The coordinator, the  *)
(* reply channel and the drain of an LP are those of OwnedStatic.  In a    *)
(* round the workers exchange messages three times, each with all:         *)
(*   presence   whether one of them has a straggler, which all must know   *)
(*              before any LP is routed;                                   *)
(*   work       the LPs themselves, stragglers to the dedicated workers;   *)
(*   return     the LPs to their owners, with the events for other LPs.    *)
(* A worker waits for one message of every worker, or for the coordinator  *)
(* to drop its command channel.                                            *)
(*                                                                         *)
(* The sends of one exchange are a single step: their receivers wait for   *)
(* the messages of all workers, and the channels are unbounded.            *)
(***************************************************************************)
EXTENDS LentLps

VARIABLES
  exchange,     \* per worker: its presence, work and return channels
  got           \* per worker: messages of the current exchange received so far

exchangeVars == <<exchange, got>>

ClassifiedInit ==
  /\ LentInit
  /\ exchange = [w \in Worker |-> [presence |-> <<>>, work |-> <<>>, return |-> <<>>]]
  /\ got = [w \in Worker |-> <<>>]

\* The workers a loop of sends over all gets to before one that is gone.
Reached == {v \in Worker : \A u \in 0 .. v : u \notin closed}

\* Worker w sends a message to every worker and then
\* waits for those of all.  A receiver that is gone ends the worker, and only the
\* workers before it have their message.
Broadcast(w, channel, message(_), reply) ==
  LET sent(v) == [type |-> channel, round |-> round[w], source |-> w, body |-> message(v)]
  IN /\ exchange' = [v \in Worker |->
          IF v \in Reached THEN [exchange[v] EXCEPT ![channel] = Append(@, sent(v))]
                           ELSE exchange[v]]
     /\ got' = [got EXCEPT ![w] = <<>>]
     /\ IF Reached = Worker
        THEN wpc' = [wpc EXCEPT ![w] = channel] /\ sends' = [sends EXCEPT ![w] = reply]
        ELSE FailWorker(w, Disconnected)

\* RunRound: extract, and tell all whether there is a straggler.
StartRound(w) ==
  /\ wpc[w] = "wait" /\ commands[w] # <<>>
  /\ Head(commands[w]).type = "RunRound"
  /\ LET h == Head(commands[w]).horizon
         active == Extracted(w, h)
         taken == {item.node : item \in Range(active)}
     IN /\ horizon' = [horizon EXCEPT ![w] = h]
        /\ frontier' = [frontier EXCEPT ![w] = {entry \in @ : entry.node \notin taken}]
        /\ items' = [items EXCEPT ![w] = active]
        /\ resident' = [resident EXCEPT ![w] = @ \ taken]
        /\ Broadcast(w, "presence",
                     LAMBDA v : \E item \in Range(active) : IsStraggler(item), <<>>)
  /\ commands' = [commands EXCEPT ![w] = Tail(@)]
  /\ UNCHANGED <<lp, next_seq, executed, futures, drainVars, coordVars, round, command, merged,
                 held, inbox, closed, replies, fault, returned>>

Exchanges == {"presence", "work", "return"}

\* receive_classified_or_abort: the command channel is closed, or has a command,
\* which no worker expects in the middle of a round.
AbortExchange(w) ==
  /\ wpc[w] \in Exchanges /\ Len(got[w]) < Workers
  /\ commands[w] # <<>> \/ cpc \in {"abort", "returned"}
  /\ commands' = [commands EXCEPT ![w] = <<>>]
  /\ FailWorker(w, Disconnected)
  /\ UNCHANGED <<lpVars, drainVars, coordVars, round, horizon, command, merged, held, inbox,
                 closed, replies, fault, lentVars, exchangeVars>>

\* A message that is of another round, or a second one of the same worker.
Unexpected(w, m) == m.round # round[w] \/ \E other \in Range(got[w]) : other.source = m.source

\* receive_classified_or_abort: a message of the exchange.
ReceiveOne(w) ==
  /\ wpc[w] \in Exchanges /\ Len(got[w]) < Workers
  /\ exchange[w][wpc[w]] # <<>>
  /\ LET m == Head(exchange[w][wpc[w]])
     IN /\ got' = [got EXCEPT ![w] = Append(@, m)]
        /\ exchange' = [exchange EXCEPT ![w][wpc[w]] = Tail(@)]
        /\ IF Unexpected(w, m) THEN FailWorker(w, Disconnected) ELSE UNCHANGED <<wpc, sends>>
  /\ UNCHANGED <<lpVars, drainVars, coordVars, round, horizon, command, merged, held, commands,
                 inbox, closed, replies, fault, lentVars>>

\* Worker w has the messages of all.
HasAll(w, channel) == wpc[w] = channel /\ Len(got[w]) = Workers

\* dedicated_count, by whether the round has a straggler.
DedicatedCount(has_straggler) ==
  LET most == IF Workers > 2 THEN Workers - 1 ELSE 1
  IN IF ~has_straggler THEN 0 ELSE IF Dedicated < most THEN Dedicated ELSE most

\* The worker that runs an item of worker w.
RouteOf(w, item, dedicated) ==
  IF Workers = 1 THEN 0
  ELSE IF IsStraggler(item) THEN item.node % dedicated
  ELSE IF dedicated = 0 \/ w >= dedicated THEN w
  ELSE dedicated + (item.node % (Workers - dedicated))

\* Every worker has said whether it has a straggler: the LPs are routed.
RouteLps(w) ==
  /\ HasAll(w, "presence")
  /\ LET dedicated == DedicatedCount(\E m \in Range(got[w]) : m.body)
     IN Broadcast(w, "work", LAMBDA v :
          SelectSeq(items[w], LAMBDA item : RouteOf(w, item, dedicated) = v), <<>>)
  /\ items' = [items EXCEPT ![w] = <<>>]
  /\ UNCHANGED <<lpVars, drainVars, coordVars, round, horizon, command, merged, held, commands,
                 inbox, closed, replies, fault, returned, resident>>

\* The work of all workers is here.
StartDrain(w) ==
  /\ HasAll(w, "work")
  /\ items' = [items EXCEPT ![w] = Lpt(FlattenSeq([i \in 1 .. Workers |-> got[w][i].body]))]
  /\ got' = [got EXCEPT ![w] = <<>>]
  /\ wpc' = [wpc EXCEPT ![w] = "drain"]
  /\ UNCHANGED <<lpVars, drainVars, coordVars, round, horizon, command, merged, held, sends,
                 commands, inbox, closed, replies, fault, exchange, returned, resident>>

\* The LPs go back to their owners, with the events for others.  The reply is put
\* together now, but for the minimum of the shard.
ReturnLps(w) ==
  /\ wpc[w] = "drain" /\ draining[w] = {} /\ items[w] = <<>>
  /\ LET sent(v) == {e \in outbox[w] : Owner[e.target] = v}
     IN Broadcast(w, "return",
          LAMBDA v : [states |-> returned[w] \cap OwnedBy(v), envelopes |-> sent(v)],
          <<[type       |-> "RoundComplete",
             worker     |-> w,
             round      |-> round[w],
             minimum    |-> NoTime,
             batches    |-> [v \in Worker |-> IF sent(v) = {} THEN 0 ELSE 1],
             minimum_ns |-> [v \in Worker |-> Least(Times(sent(v)))]]>>)
  /\ outbox' = [outbox EXCEPT ![w] = {e \in @ : Owner[e.target] \notin Reached}]
  /\ returned' = [returned EXCEPT ![w] = {}]
  /\ UNCHANGED <<lpVars, draining, continuation, coordVars, round, horizon, command, merged,
                 held, commands, inbox, closed, replies, fault, items, resident>>

\* Everything is back: the frontier is rebuilt, and the round is over.
CompleteExchange(w) ==
  /\ HasAll(w, "return")
  /\ LET states  == UNION {m.body.states : m \in Range(got[w])}
         arrived == UNION {m.body.envelopes : m \in Range(got[w])}
         F       == Rebuilt(w, states, arrived)
         error   == RestoreError(w, states, arrived, horizon[w], MinTime(F))
     IN IF error # "none"
        THEN FailWorker(w, Failure(error)) /\ UNCHANGED <<got, futures, frontier, resident, round>>
        ELSE /\ got' = [got EXCEPT ![w] = <<>>]
             /\ futures' = Arrived(arrived)
             /\ frontier' = [frontier EXCEPT ![w] = F]
             /\ resident' = [resident EXCEPT ![w] = @ \cup states]
             /\ wpc' = [wpc EXCEPT ![w] = "reply"]
             /\ sends' = [sends EXCEPT ![w][1].minimum = MinTime(F)]
             /\ round' = [round EXCEPT ![w] = @ + 1]
  /\ UNCHANGED <<lp, next_seq, executed, drainVars, coordVars, horizon, command, merged, held,
                 commands, inbox, closed, replies, fault, exchange, items, returned>>

ClassifiedStep(w) ==
  \/ StartRound(w) \/ AbortExchange(w) \/ ReceiveOne(w) \/ RouteLps(w) \/ StartDrain(w)
  \/ ReturnLps(w) \/ CompleteExchange(w)
  \/ (HandOver(w) \/ Leave(w) \/ NextItem(w) \/ ItemDone(w)) /\ UNCHANGED exchangeVars
  \/ SendReply(w) /\ UNCHANGED <<lentVars, exchangeVars>>
  \/ Fault(w) /\ UNCHANGED <<lentVars, exchangeVars>>
  \/ /\ \E n \in Node : \E e \in futures[n] \cup continuation[w] : DrainEvent(w, n, e)
     /\ UNCHANGED <<lentVars, exchangeVars>>

ClassifiedNext ==
  \/ Coordinate /\ UNCHANGED <<lentVars, exchangeVars>>
  \/ \E w \in Worker : ClassifiedStep(w)

-----------------------------------------------------------------------------

\* Events in flight: in an outbox, on a return channel, or received and not merged.
InFlight(w) ==
  outbox[w] \cup continuation[w]
    \cup UNION {m.body.envelopes :
                  m \in {x \in Range(exchange[w].return \o got[w]) : x.type = "return"}}

classified_pending == (UNION {futures[n] : n \in Node}) \cup UNION {InFlight(w) : w \in Worker}

\* The LPs worker w has, or is being sent.
Holds(w) ==
  <<resident[w], {item.node : item \in Range(items[w])}, draining[w], returned[w],
    UNION {{item.node : item \in Range(m.body)} :
             m \in {x \in Range(exchange[w].work \o got[w]) : x.type = "work"}},
    UNION {m.body.states :
             m \in {x \in Range(exchange[w].return \o got[w]) : x.type = "return"}}>>

\* While no worker has failed, every LP is at exactly one place: in the shard of
\* its owner, at the worker that drains it, or in one message.
LpsConserved ==
  LET places == FlattenSeq([i \in 1 .. Workers |-> Holds(i - 1)]) IN
  closed = {} /\ (\A w \in Worker : \A r \in Range(sends[w]) : r.type # "Failed") =>
    \A n \in Node : \E i \in DOMAIN places :
      n \in places[i] /\ \A j \in DOMAIN places \ {i} : n \notin places[j]
=============================================================================
