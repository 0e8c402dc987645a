------------------------------ MODULE MCProgram ------------------------------
(***************************************************************************)
(* A small family of simulation images on which TLC runs the executors:    *)
(* three LPs on a ring of links, paced and packet sources, retransmission  *)
(* timers that arrivals supersede, same-time continuations, deliveries     *)
(* exactly one lookahead away, and handlers whose effect depends on the    *)
(* order in which an LP sees its events.                                   *)
(***************************************************************************)
EXTENDS EventKeys, Sequences

ProgNode == {0, 1, 2}
ProgPayload == 0 .. 2

\* seen makes a handler sensitive to order; timer is the armed deadline, 0 if none.
ProgState == [seen : 0 .. 2, timer : Time]

Emit(t, kind, n, p) == [time_ns |-> t, kind |-> kind, target |-> n, payload |-> p]

\* The emissions and timers of each handler.  lookahead is the delay of every link.
ProgEmits(n, s, v, lookahead) ==
  LET t    == v.time_ns
      p    == v.payload
      peer == (n + 1 + (s.seen % 2)) % 3
  IN CASE v.kind = "PacketArrival" ->
            <<Emit(t, "TxReady", n, p)>>
              \o (IF s.timer = 0 THEN <<Emit(t + 3, "RetransmissionTimeout", n, 0)>> ELSE <<>>)
       [] v.kind = "TxReady" ->
            <<Emit(t + 1, "TxComplete", n, p), Emit(t + lookahead, "RemoteArrival", peer, p)>>
       [] v.kind = "TxComplete" ->
            IF p > 0 /\ s.seen # 1 THEN <<Emit(t, "TxReady", n, p - 1)>> ELSE <<>>
       [] v.kind = "RemoteArrival" ->
            IF p > 0 THEN <<Emit(t, "TxReady", n, p - 1)>> ELSE <<>>
       [] v.kind = "RetransmissionTimeout" ->
            <<Emit(t + 1, "TxComplete", n, 1)>>
       [] v.kind = "PacingTimer" ->
            IF p > 0 THEN <<Emit(t, "TxReady", n, 0), Emit(t + 1, "PacingTimer", n, p - 1)>>
                     ELSE <<>>

ProgOutcome(n, s, v, lookahead) ==
  LET em    == ProgEmits(n, s, v, lookahead)
      fits  == \A i \in DOMAIN em : em[i].time_ns <= MaxTime
      stops == v.kind = "RemoteArrival" /\ s.timer # 0
      busy  == v.kind = "TxReady" /\ v.payload = 2 /\ s.seen = 1   \* a handler error
  IN [ok         |-> fits /\ ~busy,
      state      |-> [seen  |-> (s.seen + 1) % 3,
                      timer |-> CASE v.kind = "PacketArrival" /\ s.timer = 0 /\ fits -> v.time_ns + 3
                                  [] stops \/ v.kind = "RetransmissionTimeout" -> 0
                                  [] OTHER -> s.timer],
      emits      |-> IF fits THEN em ELSE <<>>,
      superseded |-> IF stops THEN {[payload |-> 0, deadline_ns |-> s.timer]} ELSE {}]

InitialEvent(t, kind, n, p, seq) ==
  [key     |-> [time_ns |-> t, phase |-> event_phase(kind), origin_node |-> n, origin_seq |-> seq],
   target  |-> n,
   kind    |-> kind,
   payload |-> p]

ProgSources ==
  {InitialEvent(0, "PacketArrival", 0, 0, 0),
   InitialEvent(1, "PacketArrival", 1, 2, 0),
   InitialEvent(0, "PacingTimer", 1, 2, 1),
   InitialEvent(2, "PacketArrival", 2, 0, 0),
   InitialEvent(3, "PacketArrival", 0, 1, 1)}

ProgImages ==
  {[lp       |-> [n \in ProgNode |-> [seen |-> 0, timer |-> 0]],
    next_seq |-> [n \in ProgNode |-> 2],
    events   |-> S] : S \in SUBSET ProgSources}

-----------------------------------------------------------------------------
(* The reference: an image run serially in key order to the end of the run.  The
   result is the LP states, the pending and the dispatched events, or a failure. *)

RECURSIVE ProgSerial(_, _, _, _, _, _)
ProgSerial(lps, seqs, pend, done, lookahead, end) ==
  LET due == {e \in pend : e.key.time_ns < end} IN
  IF due = {} THEN [failed |-> FALSE, lp |-> lps, pending |-> pend, executed |-> done]
  ELSE
    LET e    == CHOOSE e \in due : \A f \in due \ {e} : KeyLess(e.key, f.key)
        n    == e.target
        out  == ProgOutcome(n, lps[n], [time_ns |-> e.key.time_ns, kind |-> e.kind,
                                        payload |-> e.payload], lookahead)
        gone == {f \in pend : \E t \in out.superseded : CarriesTimer(f, n, t)}
        new  == {[key     |-> [time_ns |-> out.emits[i].time_ns,
                               phase |-> event_phase(out.emits[i].kind),
                               origin_node |-> n, origin_seq |-> seqs[n] + i - 1],
                  target  |-> out.emits[i].target,
                  kind    |-> out.emits[i].kind,
                  payload |-> out.emits[i].payload] : i \in DOMAIN out.emits}
    IN IF ~out.ok THEN [failed |-> TRUE]
       ELSE ProgSerial([lps EXCEPT ![n] = out.state], [seqs EXCEPT ![n] = @ + Len(out.emits)],
                       ((pend \ {e}) \ gone) \cup new, done \cup {e}, lookahead, end)

\* The serial result of the image whose events are the ones of S: those keep the
\* sequence numbers below 2, and no handler removes them before they run.
ProgSerialOf(S, lookahead, end) ==
  ProgSerial([n \in ProgNode |-> [seen |-> 0, timer |-> 0]], [n \in ProgNode |-> 2],
             {e \in S : e.key.origin_seq < 2}, {}, lookahead, end)
=============================================================================
