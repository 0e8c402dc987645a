------------------------- MODULE MCCollectiveStages -------------------------
(* Scenarios of three to four hosts, lowered and run. *)
EXTENDS CollectiveRun

Group(algorithm, hosts, bytes, after) ==
  [algorithm |-> algorithm, hosts |-> hosts, bytes |-> bytes, chunk |-> "EqualRemainderLast",
   channels |-> <<>>, pairs |-> <<>>, after |-> after]

Compute(hosts, after) == Group("Compute", hosts, 0, after)

NoServer == <<0, 0, 0, 0>>

\* Compute, all-reduce, compute: a training step on three ranks, with a longer last chunk.
Step == [server |-> NoServer,
         groups |-> <<Compute(<<1, 2, 3>>, <<>>),
                      Group("RingAllReduce", <<3, 1, 2>>, 4, <<1>>),
                      Compute(<<2>>, <<2>>)>>]

\* Two channels in opposite directions, and a stage that follows on both.
Channels == [server |-> NoServer,
             groups |-> <<[Group("ReduceScatter", <<1, 2, 3>>, 6, <<>>)
                             EXCEPT !.chunk = "UniformFloor", !.channels = <<<<0, 1, 2>>, <<2, 1, 0>>>>],
                          Compute(<<2>>, <<1>>)>>]

\* An all-gather in the order of its hosts, behind a compute stage of one of them.
Gather == [server |-> NoServer,
           groups |-> <<Compute(<<1, 2, 3>>, <<>>), Group("AllGather", <<2, 3, 1>>, 3, <<1>>),
                        Compute(<<3>>, <<1>>)>>]

\* A chain of all-to-alls in which rank 0 sends nothing, and then a group that follows
\* the chain there.
Skewed(pairs, hosts, after) == [Group("AllToAll", hosts, 3, after) EXCEPT !.pairs = pairs]

Experts == [server |-> NoServer,
            groups |-> <<Group("AllToAll", <<1, 2>>, 2, <<>>),
                         Compute(<<1, 2>>, <<1>>),
                         Skewed(<<<<0, 0>>, <<1, 0>>>>, <<1, 2>>, <<2, 1>>),
                         Compute(<<2>>, <<3>>),
                         Skewed(<<<<0, 0>>, <<1, 0>>>>, <<1, 2>>, <<3, 2>>),
                         Compute(<<1, 2>>, <<5>>)>>]

\* Two all-to-alls in which rank 0 sends nothing follow the same one: a stage behind
\* both counts its message once.
Diamond == [server |-> NoServer,
            groups |-> <<Group("AllToAll", <<1, 2>>, 2, <<>>),
                         Compute(<<1, 2>>, <<>>),
                         Skewed(<<<<0, 0>>, <<1, 0>>>>, <<1, 2>>, <<2, 1>>),
                         Skewed(<<<<0, 0>>, <<1, 0>>>>, <<1, 2>>, <<1, 2>>),
                         Compute(<<1>>, <<3, 4>>)>>]

\* A pipeline: each host computes, then sends to the next.
Pipeline == [server |-> NoServer,
             groups |-> <<Compute(<<1>>, <<>>), Group("SendRecv", <<1, 2>>, 2, <<1>>),
                          Compute(<<2>>, <<2>>), Group("SendRecv", <<2, 3>>, 2, <<3>>),
                          Compute(<<3, 1>>, <<4, 2>>)>>]

\* Rails: hosts 1 and 2 are one server.  The all-gather of the server is a delay, and a
\* message of the all-reduce inside the server is a notify.
Rails == [server |-> <<1, 1, 2, 2>>,
          groups |-> <<Compute(<<1, 2, 3>>, <<>>),
                       Group("AllGather", <<1, 2>>, 2, <<1>>),
                       Group("RingAllReduce", <<1, 2, 3>>, 3, <<2, 1>>),
                       Compute(<<2, 3>>, <<3>>)>>]

\* Two groups that follow each other.
Cycle == [server |-> NoServer,
          groups |-> <<Compute(<<1, 2>>, <<2>>), Group("RingAllReduce", <<1, 2>>, 2, <<1>>)>>]

Scenarios == <<Step, Channels, Gather, Experts, Diamond, Pipeline, Rails, Cycle>>

\* By group: the groups that must have completed at host h before it starts there.
Before(gs, h) ==
  LET Direct(a) == {b \in ToSet(gs[a].after) : h \in Starts(gs[a]) \cap ToSet(gs[b].hosts)}
      up[a \in DOMAIN gs] == Direct(a) \cup UNION {up[b] : b \in Direct(a)}
  IN <<>> @@ up

ImageOf(scenario) ==
  LET gs == single_server_delays(scenario)
  IN [groups |-> gs, stages |-> lower(scenario),
      before |-> <<Before(gs, 1), Before(gs, 2), Before(gs, 3), Before(gs, 4)>>]

Lowered == SelectSeq(Scenarios, LAMBDA s : resolve_stage_groups(single_server_delays(s)))
MCImages == FoldLeft(LAMBDA images, s : Append(images, ImageOf(s)), <<>>, Lowered)

\* The chunks of a ring are disjoint parts of its message.
ASSUME ChunksAreDisjoint ==
  \A total \in 3 .. 8, n \in 2 .. 3, chunk \in {"EqualRemainderLast", "UniformFloor"}, two \in BOOLEAN :
    LET order == [i \in 1 .. n |-> i - 1]
        g == [Group("ReduceScatter", order, total, <<>>) EXCEPT
                !.chunk = chunk, !.channels = IF two /\ chunk = "UniformFloor" THEN <<order, Reverse(order)>> ELSE <<>>]
        At(c, r) == ring_chunk(g, "ReduceScatter", c, r, 1)
        Bytes(c, r) == {At(c, r).offset + b : b \in 1 .. At(c, r).bytes}
        All == (0 .. channels(g) - 1) \X Ranks(g)
    IN /\ \A x, y \in All : x # y => Bytes(x[1], x[2]) \cap Bytes(y[1], y[2]) = {}
       /\ UNION {Bytes(x[1], x[2]) : x \in All} \subseteq 1 .. total
       /\ chunk = "EqualRemainderLast" => UNION {Bytes(x[1], x[2]) : x \in All} = 1 .. total
=============================================================================
