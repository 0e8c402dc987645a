---------------------------- MODULE StageLowering ----------------------------
(***************************************************************************)
(* The lowering of stage groups (src/scenario/compile.rs): compute groups  *)
(* and collectives that follow one another through `after` become a table  *)
(* of stages.  A stage runs at one host, sends at most one message, and    *)
(* waits for stages of its own host (local) and for the bytes of messages  *)
(* to its host (inbound).                                                  *)
(*                                                                         *)
(* A scenario is [groups, server]: a sequence of groups, named by their    *)
(* position, and the server of each host of a rail fabric, 0 elsewhere.    *)
(* Ranks, steps and channels count as in the code; hosts[r + 1] is rank r. *)
(***************************************************************************)
EXTENDS Integers, Sequences, SequencesExt, FiniteSetsExt

is_ring_algorithm(algorithm) == algorithm \in {"RingAllReduce", "AllGather", "ReduceScatter"}

GroupSize(g) == Len(g.hosts)
Ranks(g) == 0 .. GroupSize(g) - 1
HostOf(g, rank) == g.hosts[rank + 1]

ring_phases(algorithm) ==
  CASE algorithm = "RingAllReduce" -> <<"ReduceScatter", "AllGather">>
    [] algorithm = "ReduceScatter" -> <<"ReduceScatter">>
    [] OTHER -> <<"AllGather">>

\* CollectiveLayout: a channel is an order of the ranks; no channel stands for one
\* ring in rank order.
channels(g) == Max({1, Len(g.channels)})
rank_at(g, channel, position) ==
  IF g.channels = <<>> THEN position ELSE g.channels[channel + 1][position + 1]
position_of(g, channel, rank) == CHOOSE p \in Ranks(g) : rank_at(g, channel, p) = rank
previous(g, channel, rank) ==
  rank_at(g, channel, (position_of(g, channel, rank) + GroupSize(g) - 1) % GroupSize(g))
next(g, channel, rank) ==
  rank_at(g, channel, (position_of(g, channel, rank) + 1) % GroupSize(g))

\* An all-to-all's bytes from rank a to rank b; a seeded matrix may hold zeros.
pair_bytes(g, a, b) ==
  IF a = b THEN 0 ELSE IF g.pairs = <<>> THEN g.bytes \div GroupSize(g) ELSE g.pairs[a + 1][b + 1]

collective_chunk_bounds(total, n, owner) ==
  LET base == total \div n
  IN [offset |-> owner * base, bytes |-> IF owner + 1 = n THEN total - owner * base ELSE base]

\* Mutant: the second phase of an all-reduce starts from the rank's own chunk.
SameOffset(algorithm, phase) == 1

owner_offset(algorithm, phase) ==
  IF algorithm = "RingAllReduce" /\ phase = "AllGather" THEN 2 ELSE 1

collective_stage_owner(g, phase, channel, rank, step) ==
  rank_at(g, channel, (position_of(g, channel, rank) + GroupSize(g) - step
                         + owner_offset(g.algorithm, phase)) % GroupSize(g))

ring_chunk(g, phase, channel, rank, step) ==
  LET owner == collective_stage_owner(g, phase, channel, rank, step)
      bytes == (g.bytes \div GroupSize(g)) \div channels(g)
  IN IF g.chunk = "UniformFloor"
     THEN [offset |-> (owner * channels(g) + channel) * bytes, bytes |-> bytes]
     ELSE collective_chunk_bounds(g.bytes, GroupSize(g), owner)

StageKey(name, phase, channel, rank, step) ==
  [group |-> name, phase |-> phase, channel |-> channel, rank |-> rank, step |-> step]

ComputeKey(name, rank) == StageKey(name, "Compute", 0, rank, 0)

-----------------------------------------------------------------------------
(* What a stage waits for: sets of stage keys, and the inbound bytes. *)

NoPredecessors == [local |-> {}, inbound |-> {}, bytes |-> 0]

InsertLocal(p, key) == [p EXCEPT !.local = @ \cup {key}]

\* Mutant: the bytes of a message that is already listed are added again.
InsertTwice(p, key, bytes, dedup) ==
  [p EXCEPT !.inbound = @ \cup {key}, !.bytes = @ + bytes]

\* Under dedup, which only a release sets, a listed message adds no bytes.
InsertInbound(p, key, bytes, dedup) ==
  IF dedup /\ key \in p.inbound THEN p
  ELSE [p EXCEPT !.inbound = @ \cup {key}, !.bytes = @ + bytes]

\* AfterRanks: the ranks of g at host, none or one.
RanksAt(g, host) == {r \in Ranks(g) : HostOf(g, r) = host}

Steps(g) == [i \in 1 .. GroupSize(g) - 1 |-> i]

\* The messages of an all-to-all from and to rank.
PairCompletion(g, name, rank, dedup, p) ==
  LET n == GroupSize(g)
      Sent(q, step) ==
        IF pair_bytes(g, rank, (rank + step) % n) = 0 THEN q
        ELSE InsertLocal(q, StageKey(name, "AllToAll", 0, rank, step))
      Received(q, step) ==
        LET source == (rank + n - step) % n
            bytes  == pair_bytes(g, source, rank)
        IN IF bytes = 0 THEN q
           ELSE InsertInbound(q, StageKey(name, "AllToAll", 0, source, step), bytes, dedup)
  IN FoldLeft(Received, FoldLeft(Sent, p, Steps(g)), Steps(g))

MessageCompletion(g, name, rank, dedup, p) ==
  LET message == StageKey(name, "SendRecv", 0, 0, 1)
  IN IF rank = 0 THEN InsertLocal(p, message) ELSE InsertInbound(p, message, g.bytes, dedup)

\* The last step of every channel: the rank's own, and the one delivered to it.
RingCompletion(g, name, rank, dedup, p) ==
  LET phase == Last(ring_phases(g.algorithm))
      step  == GroupSize(g) - 1
      Channel(q, k) ==
        LET from == previous(g, k - 1, rank)
        IN InsertInbound(InsertLocal(q, StageKey(name, phase, k - 1, rank, step)),
                         StageKey(name, phase, k - 1, from, step),
                         ring_chunk(g, phase, k - 1, from, step).bytes, dedup)
  IN FoldLeft(Channel, p, [k \in 1 .. channels(g) |-> k])

\* The stages that complete group name at host, where it has one rank, added to p.
collective_completion(groups, name, host, dedup, p) ==
  LET g    == groups[name]
      rank == CHOOSE r \in RanksAt(g, host) : TRUE
  IN CASE g.algorithm = "Compute" -> InsertLocal(p, ComputeKey(name, rank))
       [] g.algorithm = "AllToAll" -> PairCompletion(g, name, rank, dedup, p)
       [] g.algorithm = "SendRecv" -> MessageCompletion(g, name, rank, dedup, p)
       [] OTHER -> RingCompletion(g, name, rank, dedup, p)

\* Mutant: a rank that sends nothing completes with what it receives.
FollowWithoutRelease(groups, host, direct) == [name \in DOMAIN groups |-> <<name>>]

\* By group: the groups to complete at host for a stage that follows it, in the order
\* of the recursion.  A rank of an all-to-all that sends nothing also takes what
\* releases the all-to-all there, without the groups that the stage follows itself.
follow_groups(groups, host, direct) ==
  LET SendsNothing(g) == \A r \in RanksAt(g, host), b \in Ranks(g) : pair_bytes(g, r, b) = 0
      visit[name \in DOMAIN groups] ==
        LET g == groups[name]
            Release(a) == IF a \in direct \/ RanksAt(groups[a], host) = {} THEN <<>> ELSE visit[a]
        IN IF g.algorithm = "AllToAll" /\ SendsNothing(g)
           THEN <<name>> \o FlattenSeq([i \in DOMAIN g.after |-> Release(g.after[i])])
           ELSE <<name>>
  IN visit

entry_predecessors(groups, name, rank) ==
  LET g      == groups[name]
      host   == HostOf(g, rank)
      visits == follow_groups(groups, host, ToSet(g.after))
      Follow(p, a) ==
        IF RanksAt(groups[a], host) = {} THEN p
        ELSE FoldLeft(LAMBDA q, b : collective_completion(groups, b, host, TRUE, q),
                      collective_completion(groups, a, host, FALSE, p), Tail(visits[a]))
  IN FoldLeft(Follow, NoPredecessors, g.after)

-----------------------------------------------------------------------------
(* The stages of a group. *)

Stage(groups, key, to, chunk, p) ==
  LET g == groups[key.group]
  IN [source |-> HostOf(g, key.rank), target |-> to, bytes |-> chunk.bytes, offset |-> chunk.offset,
      local |-> p.local, inbound |-> p.inbound, required |-> p.bytes]

Pairs(groups, name) ==
  LET g == groups[name]
      n == GroupSize(g)
      keys == {StageKey(name, "AllToAll", 0, r, s) : r \in Ranks(g), s \in 1 .. n - 1}
      Bytes(k) == pair_bytes(g, k.rank, (k.rank + k.step) % n)
  IN [k \in {k \in keys : Bytes(k) # 0} |->
        Stage(groups, k, HostOf(g, (k.rank + k.step) % n), [offset |-> 0, bytes |-> Bytes(k)],
              entry_predecessors(groups, name, k.rank))]

Message(groups, name) ==
  LET g == groups[name]
  IN [k \in {StageKey(name, "SendRecv", 0, 0, 1)} |->
        Stage(groups, k, HostOf(g, 1), [offset |-> 0, bytes |-> g.bytes],
              entry_predecessors(groups, name, 0))]

\* The previous step of this rank, and of the rank before it on the channel.
RingPredecessors(groups, name, k, chunk) ==
  LET g      == groups[name]
      phases == ring_phases(g.algorithm)
      From(phase, step) ==
        [local   |-> {StageKey(name, phase, k.channel, k.rank, step)},
         inbound |-> {StageKey(name, phase, k.channel, previous(g, k.channel, k.rank), step)},
         bytes   |-> chunk.bytes]
  IN IF k.step > 1 THEN From(k.phase, k.step - 1)
     ELSE IF k.phase # phases[1] THEN From(phases[1], GroupSize(g) - 1)
     ELSE entry_predecessors(groups, name, k.rank)

Rings(groups, name) ==
  LET g == groups[name]
      keys == {StageKey(name, ph, c, r, s) : ph \in ToSet(ring_phases(g.algorithm)),
                 c \in 0 .. channels(g) - 1, r \in Ranks(g), s \in 1 .. GroupSize(g) - 1}
  IN [k \in keys |->
        LET chunk == ring_chunk(g, k.phase, k.channel, k.rank, k.step)
        IN Stage(groups, k, HostOf(g, next(g, k.channel, k.rank)), chunk,
                 RingPredecessors(groups, name, k, chunk))]

collective_has_stages(g) == GroupSize(g) > 1

expand_collective(groups, name) ==
  CASE ~collective_has_stages(groups[name]) -> <<>>
    [] groups[name].algorithm = "AllToAll" -> Pairs(groups, name)
    [] groups[name].algorithm = "SendRecv" -> Message(groups, name)
    [] OTHER -> Rings(groups, name)

expand_compute(groups, name) ==
  LET g == groups[name]
  IN [k \in {ComputeKey(name, r) : r \in Ranks(g)} |->
        Stage(groups, k, HostOf(g, k.rank), [offset |-> 0, bytes |-> 0],
              entry_predecessors(groups, name, k.rank))]

-----------------------------------------------------------------------------
(* The whole lowering. *)

\* The hosts at which a group starts: a SendRecv starts at its sender alone.
Starts(g) == IF g.algorithm = "SendRecv" THEN {g.hosts[1]} ELSE ToSet(g.hosts)

After(groups) == {<<a, b>> \in (DOMAIN groups) \X (DOMAIN groups) : b \in ToSet(groups[a].after)}

\* No group follows itself along after: some order of the groups puts every group
\* behind those that it follows.
Acyclic(groups) ==
  \E rank \in [DOMAIN groups -> DOMAIN groups] : \A e \in After(groups) : rank[e[2]] < rank[e[1]]

resolve_stage_groups(groups) ==
  /\ \A name \in DOMAIN groups :
       LET g == groups[name]
           Hosts(a) == ToSet(groups[a].hosts)
       IN /\ IsInjective(g.after)
          /\ \A a \in ToSet(g.after) :
               /\ a \in DOMAIN groups
               /\ groups[a].algorithm = "Compute" \/ collective_has_stages(groups[a])
               /\ Hosts(a) \cap Starts(g) # {}
          /\ g.after = <<>> \/ Starts(g) \subseteq UNION {Hosts(a) : a \in ToSet(g.after)}
          /\ g.algorithm = "Compute" \/ g.after = <<>>
               \/ \E a \in ToSet(g.after) : groups[a].algorithm = "Compute"
  /\ Acyclic(groups)

\* A ring whose ranks share a server is a delay per rank.
single_server_delays(scenario) ==
  [name \in DOMAIN scenario.groups |->
     LET g == scenario.groups[name]
         servers == {scenario.server[h] : h \in ToSet(g.hosts)}
     IN IF is_ring_algorithm(g.algorithm) /\ collective_has_stages(g)
           /\ 0 \notin servers /\ Cardinality(servers) = 1
        THEN [g EXCEPT !.algorithm = "Compute"] ELSE g]

\* NotifyLowering: a message inside a server is a stage notify.
KindOf(scenario, key, stage) ==
  IF key.phase = "Compute" THEN "Compute"
  ELSE IF scenario.server[stage.source] # 0
          /\ scenario.server[stage.source] = scenario.server[stage.target] THEN "Notify"
  ELSE "Fabric"

\* The table of stages: each key with its record.
lower(scenario) ==
  LET groups == single_server_delays(scenario)
      Expand(name) == IF groups[name].algorithm = "Compute" THEN expand_compute(groups, name)
                      ELSE expand_collective(groups, name)
      Kinds(t) == [k \in DOMAIN t |-> t[k] @@ [kind |-> KindOf(scenario, k, t[k])]]
  IN FoldLeft(LAMBDA t, name : t @@ Kinds(Expand(name)), <<>>, [i \in DOMAIN groups |-> i])
=============================================================================
