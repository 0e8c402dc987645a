---------------------------- MODULE CollectiveRun ----------------------------
(***************************************************************************)
(* The lowered stages of a scenario, run by CollectiveStages, and what a   *)
(* reader of the scenario expects of them: groups follow one another at    *)
(* every host, and the messages of a ring carry the data of its            *)
(* algorithm.  The simulator moves no payload, so the data is a history    *)
(* variable: the ranks whose contribution a message carries.               *)
(***************************************************************************)
EXTENDS CollectiveStages, StageLowering

VARIABLE carried   \* by released stage: the ranks whose contribution its message carries

groups == image.groups

RingStage == {f \in Flow : is_ring_algorithm(groups[f.group].algorithm)}

SameChunk(f, g) ==
  f.group = g.group /\ f.channel = g.channel /\ table[f].offset = table[g].offset

\* Before it runs, a rank of an all-gather has the chunk that it sends first, and a
\* rank of a reduction has its own contribution to every chunk.
Own(f) ==
  IF groups[f.group].algorithm = "AllGather" /\ f.step > 1 THEN {} ELSE {f.rank}

\* What the sender of f holds of its chunk once the messages of received are in.
Held(f, received) ==
  Own(f) \cup UNION {carried[g] : g \in {g \in RingStage :
    SameChunk(f, g) /\ table[g].target = table[f].source /\ received[g] = table[g].bytes}}

RunInit ==
  /\ Init
  /\ carried = [f \in RingStage |-> IF stages[f].activated THEN Own(f) ELSE {}]

RunNext ==
  /\ Next
  /\ carried' = [f \in RingStage |->
       IF ~stages[f].activated /\ stages'[f].activated THEN Held(f, delivered') ELSE carried[f]]

RunSpec == RunInit /\ [][RunNext]_<<vars, carried>> /\ WF_vars(Next)

-----------------------------------------------------------------------------

\* Group a has completed at host h: its stages there have finished and its messages to
\* the host have been delivered.
GroupDone(a, h) ==
  \A f \in Flow : f.group = a =>
    /\ table[f].source = h => stages[f].status = "Finished"
    /\ table[f].target = h => delivered[f] = table[f].bytes

\* Host-matched after (expand_collective, follow_groups): a stage starts at a host only
\* after every group that its group follows there has completed there, along any
\* chain of groups that start at the host.  An all-to-all rank without a message to
\* send is part of such a chain.
GroupsInOrder ==
  \A f \in Flow : stages[f].activated =>
    \A a \in image.before[table[f].source][f.group] : GroupDone(a, table[f].source)

\* The chunks of a ring on a channel, and what rank r has of chunk o.
Chunks(name, channel) ==
  {table[f].offset : f \in {f \in RingStage : f.group = name /\ f.channel = channel}}

Has(name, channel, r, o) ==
  LET chunk == {f \in RingStage : f.group = name /\ f.channel = channel /\ table[f].offset = o}
  IN UNION {carried[f] : f \in {f \in chunk : table[f].target = HostOf(groups[name], r)
                                                /\ delivered[f] = table[f].bytes}}
       \cup UNION {Own(f) : f \in {f \in chunk : f.rank = r}}
       \cup IF groups[name].algorithm = "ReduceScatter" THEN {r} ELSE {}

\* Ring algorithms do what their names say.  A reduce-scatter step carries one more
\* contribution than the step before, and never one that its receiver adds; the
\* chunks that an all-reduce gathers are complete when they are first sent.  When the
\* group has completed at a host, an all-reduce has every contribution to every chunk
\* there, an all-gather has the chunk of every rank, and a reduce-scatter has one
\* chunk with every contribution, a different one at each rank.
RingsCarryTheirData ==
  /\ \A f \in RingStage : stages[f].activated =>
       LET g == groups[f.group]
       IN CASE f.phase = "ReduceScatter" ->
                 /\ Cardinality(carried[f]) = f.step
                 /\ \A r \in carried[f] : HostOf(g, r) # table[f].target
            [] g.algorithm = "RingAllReduce" -> carried[f] = Ranks(g)
            [] OTHER -> Cardinality(carried[f]) = 1
  /\ \A name \in {f.group : f \in RingStage} :
       LET g == groups[name]
           Sums(channel, r) == {o \in Chunks(name, channel) : Has(name, channel, r, o) = Ranks(g)}
       IN \A channel \in 0 .. channels(g) - 1, r \in Ranks(g) :
            GroupDone(name, HostOf(g, r)) =>
              CASE g.algorithm = "RingAllReduce" -> Sums(channel, r) = Chunks(name, channel)
                [] g.algorithm = "AllGather" ->
                     {Has(name, channel, r, o) : o \in Chunks(name, channel)} = {{q} : q \in Ranks(g)}
                [] OTHER -> /\ Cardinality(Sums(channel, r)) = 1
                            /\ \A q \in Ranks(g) \ {r} : Sums(channel, q) \cap Sums(channel, r) = {}
=============================================================================
