--------------------------- MODULE EcnRampProofs ---------------------------
(***************************************************************************)
(* The ramp decides exactly and grows with the depth, for every word size, *)
(* every well-formed policy and every draw, at every queue of a switch.    *)
(***************************************************************************)
EXTENDS SwitchQueue, TLAPS

\* Comparing the high word is comparing the product: floor(x) < b iff x < b.
LEMMA FloorBelow ==
  ASSUME NEW x \in Nat, NEW w \in Nat \ {0}, NEW b \in Nat
  PROVE  x \div w < b <=> x < b * w
<1> DEFINE q == x \div w
<1>1. q \in Int /\ q >= 0
  OBVIOUS
<1>2. w * q <= x
  OBVIOUS
<1>3. x < w * q + w
  OBVIOUS
<1> HIDE DEF q
<1>4. ASSUME q < b PROVE x < b * w
  <2>1. (q + 1) * w <= b * w
    BY <1>1, <1>4
  <2>2. (q + 1) * w = w * q + w
    BY <1>1
  <2> QED BY <1>1, <1>3, <2>1, <2>2
<1>5. ASSUME b <= q PROVE b * w <= x
  <2>1. b * w <= q * w
    BY <1>1, <1>5
  <2> QED BY SMTT(30), <1>1, <1>2, <2>1
<1>6. b * w \in Nat
  OBVIOUS
<1> QED BY SMTT(30), <1>1, <1>4, <1>5, <1>6 DEF q

\* Products of naturals are monotone in both factors.
LEMMA ProductGrows ==
  ASSUME NEW a \in Nat, NEW b \in Nat, NEW c \in Nat, NEW d \in Nat, a <= c, b <= d
  PROVE  a * b <= c * d
<1>1. a * b <= c * b
  OBVIOUS
<1>2. c * b <= c * d
  OBVIOUS
<1>3. a * b \in Nat /\ c * b \in Nat /\ c * d \in Nat
  OBVIOUS
<1> QED BY <1>1, <1>2, <1>3

\* The fields of a well-formed policy.
LEMMA PolicyFields ==
  ASSUME NEW p \in Policy
  PROVE  /\ p.capacity_bytes \in Nat /\ p.kmin_bytes \in Nat /\ p.kmax_bytes \in Nat
         /\ p.pmax_numerator \in Nat /\ p.pmax_denominator \in Nat
         /\ 1 <= p.kmin_bytes /\ p.kmin_bytes <= p.kmax_bytes
         /\ p.kmax_bytes <= p.capacity_bytes
         /\ p.pmax_numerator <= p.pmax_denominator
         /\ p.kmax_bytes - p.kmin_bytes \in Nat
         /\ ecn_ramp_span(p) \in Nat
<1>1. /\ p \in [capacity_bytes : 1 .. MaxBytes, kmin_bytes : 1 .. MaxBytes,
               kmax_bytes : 1 .. MaxBytes, pmax_numerator : 1 .. MaxDenominator,
               pmax_denominator : 1 .. MaxDenominator]
      /\ ecn_ramp_policy_check(p)
  BY DEF Policy
<1>2. /\ p.capacity_bytes \in Nat /\ p.kmin_bytes \in Nat /\ p.kmax_bytes \in Nat
      /\ p.pmax_numerator \in Nat /\ p.pmax_denominator \in Nat
  BY <1>1, EcnAssumption DEF EcnAssumption
<1>3. /\ 1 <= p.kmin_bytes /\ p.kmin_bytes <= p.kmax_bytes /\ p.kmax_bytes <= p.capacity_bytes
      /\ p.pmax_numerator <= p.pmax_denominator
  BY <1>1 DEF ecn_ramp_policy_check
<1>4. p.kmax_bytes - p.kmin_bytes \in Nat
  BY <1>2, <1>3
<1>5. ecn_ramp_span(p) \in Nat
  BY SMTT(30), <1>2, <1>4 DEF ecn_ramp_span
<1> QED BY SMTT(30), <1>2, <1>3, <1>4, <1>5

\* Inside the ramp the comparison of high words is the exact one.
LEMMA InRampExact ==
  ASSUME NEW p \in Policy, NEW depth \in Nat, p.kmin_bytes <= depth, NEW draw \in Draw
  PROVE  /\ InRamp(p, depth, draw) <=>
              draw * ecn_ramp_span(p) < (p.pmax_numerator * (depth - p.kmin_bytes)) * Word
         /\ draw * ecn_ramp_span(p) \in Nat
         /\ p.pmax_numerator * (depth - p.kmin_bytes) \in Nat
<1> DEFINE b == p.pmax_numerator * (depth - p.kmin_bytes)
           x == draw * ecn_ramp_span(p)
<1>1. draw \in Nat /\ Word \in Nat \ {0}
  BY EcnAssumption DEF Draw, EcnAssumption
<1>2. depth - p.kmin_bytes \in Nat
  BY PolicyFields
<1>3. b \in Nat
  BY SMTT(30), <1>2, PolicyFields
<1>4. x \in Nat
  BY SMTT(30), <1>1, PolicyFields
<1>5. InRamp(p, depth, draw) <=> x \div Word < b
  BY DEF InRamp
<1> HIDE DEF b, x
<1>6. x \div Word < b <=> x < b * Word
  BY SMTT(30), <1>1, <1>3, <1>4, FloorBelow
<1> QED BY SMTT(30), <1>3, <1>4, <1>5, <1>6 DEF b, x

\* What the decision is at a depth that is admitted.
LEMMA MarksAt ==
  ASSUME NEW p \in Policy, NEW depth \in Depth(p), NEW draw \in Draw
  PROVE  /\ depth \in Nat
         /\ Marks(p, depth, draw) <=>
              /\ depth >= p.kmin_bytes
              /\ depth >= p.kmax_bytes \/ InRamp(p, depth, draw)
<1>1. depth \in Nat /\ depth <= p.capacity_bytes /\ depth < Word
  BY PolicyFields DEF Depth
<1>2. 0 + depth = depth
  BY <1>1
<1>3. ~DropsAt(p, 0, depth)
  BY SMTT(30), <1>1, <1>2, PolicyFields, EcnAssumption DEF DropsAt, EcnAssumption
<1> QED BY SMTT(30), <1>1, <1>2, <1>3 DEF Marks, ecn_ramp_decision

LEMMA Exact ==
  ASSUME NEW p \in Policy
  PROVE  MarksExactly(p)
<1> SUFFICES ASSUME NEW depth \in Depth(p), NEW draw \in Draw
             PROVE  /\ depth < p.kmin_bytes => ~Marks(p, depth, draw)
                    /\ depth \in p.kmin_bytes .. p.kmax_bytes - 1 =>
                         (Marks(p, depth, draw) <=>
                            draw * (p.pmax_denominator
                                      * (p.kmax_bytes - p.kmin_bytes))
                              < (p.pmax_numerator * (depth - p.kmin_bytes)) * Word)
                    /\ depth >= p.kmax_bytes => Marks(p, depth, draw)
  BY DEF MarksExactly
<1>1. depth < p.kmin_bytes => ~Marks(p, depth, draw)
  BY MarksAt, PolicyFields
<1>2. depth >= p.kmax_bytes => Marks(p, depth, draw)
  BY MarksAt, PolicyFields
<1>3. ASSUME depth \in p.kmin_bytes .. p.kmax_bytes - 1
      PROVE  Marks(p, depth, draw) <=>
               draw * ecn_ramp_span(p)
                 < (p.pmax_numerator * (depth - p.kmin_bytes)) * Word
  <2>1. depth \in Nat /\ p.kmin_bytes <= depth /\ ~(depth >= p.kmax_bytes)
    BY SMTT(30), <1>3, MarksAt, PolicyFields
  <2>2. Marks(p, depth, draw) <=> InRamp(p, depth, draw)
    BY SMTT(30), <2>1, MarksAt, PolicyFields
  <2> QED BY SMTT(30), <2>1, <2>2, InRampExact
<1> QED BY SMTT(30), <1>1, <1>2, <1>3 DEF ecn_ramp_span

LEMMA Grow ==
  ASSUME NEW p \in Policy
  PROVE  MarksGrow(p)
<1> SUFFICES ASSUME NEW d \in Depth(p), NEW e \in Depth(p), NEW u \in Draw, NEW v \in Draw,
                    d <= e, v <= u, Marks(p, d, u)
             PROVE  Marks(p, e, v)
  BY DEF MarksGrow
<1> DEFINE span == ecn_ramp_span(p)
           num == p.pmax_numerator
           kmin == p.kmin_bytes
<1>1. d \in Nat /\ e \in Nat /\ u \in Nat /\ v \in Nat /\ Word \in Nat
  BY SMTT(30), MarksAt, EcnAssumption DEF Draw, EcnAssumption
<1>2. kmin <= d /\ kmin <= e
  BY SMTT(30), <1>1, MarksAt, PolicyFields
<1>3. CASE e >= p.kmax_bytes
  BY SMTT(30), <1>2, <1>3, MarksAt
<1>4. CASE ~(e >= p.kmax_bytes)
  <2>1. InRamp(p, d, u)
    BY SMTT(30), <1>1, <1>4, MarksAt, PolicyFields
  <2>2. u * span < (num * (d - kmin)) * Word /\ u * span \in Nat /\ num * (d - kmin) \in Nat
    BY SMTT(30), <1>1, <1>2, <2>1, InRampExact
  <2>3. v * span <= u * span
    BY SMTT(30), <1>1, PolicyFields, ProductGrows
  <2>4. num * (d - kmin) <= num * (e - kmin)
    BY SMTT(30), <1>1, <1>2, PolicyFields, ProductGrows
  <2>5. v * span \in Nat /\ num * (e - kmin) \in Nat
    BY SMTT(30), <1>1, <1>2, InRampExact
  <2> DEFINE bd == num * (d - kmin)
             be == num * (e - kmin)
  <2>6. bd * Word <= be * Word
    <3> HIDE DEF bd, be
    <3>1. bd \in Nat /\ be \in Nat /\ bd <= be
      BY SMTT(30), <2>2, <2>4, <2>5 DEF bd, be
    <3> QED BY SMTT(30), <1>1, <3>1, ProductGrows
  <2>7. v * span < be * Word
    <3> HIDE DEF span
    <3>1. bd * Word \in Nat /\ be * Word \in Nat
      BY SMTT(30), <1>1, <2>2, <2>5
    <3> HIDE DEF bd, be
    <3> QED BY SMTT(30), <2>2, <2>3, <2>5, <2>6, <3>1 DEF bd
  <2>8. InRamp(p, e, v)
    BY SMTT(30), <1>1, <1>2, <2>7, InRampExact
  <2> QED BY SMTT(30), <1>2, <2>8, MarksAt
<1> QED BY <1>3, <1>4

\* The configuration of a queue never changes.
LEMMA ConfigInvariant == Spec => [](config \in Configs)
<1>1. Init => config \in Configs
  BY DEF Init
<1>2. config \in Configs /\ [Next]_vars => (config \in Configs)'
  <2> SUFFICES ASSUME [Next]_vars PROVE UNCHANGED config
    OBVIOUS
  <2>1. ASSUME NEW packet \in [id : Payload, flow : Flow, size : Size],
               switch_remote_arrival(packet)
        PROVE  UNCHANGED config
    BY <2>1 DEF switch_remote_arrival
  <2>2. ASSUME NEW c \in PfcClass, switch_pfc_remote_arrival(c) PROVE UNCHANGED config
    BY <2>2 DEF switch_pfc_remote_arrival
  <2>3. CASE switch_tx_ready
    BY <2>3 DEF switch_tx_ready
  <2>4. CASE drr_scan
    BY <2>4, ZenonT(30) DEF drr_scan, Take
  <2>5. CASE wrr_scan
    BY <2>5, ZenonT(30) DEF wrr_scan, Take
  <2>6. CASE switch_tx_complete
    BY <2>6 DEF switch_tx_complete
  <2>7. CASE UNCHANGED vars
    BY <2>7 DEF vars
  <2> QED BY SMTT(30), <2>1, <2>2, <2>3, <2>4, <2>5, <2>6, <2>7 DEF Next, Step
<1> QED BY <1>1, <1>2, PTL DEF Spec

\* For every word size and policy, ecn_ramp_decision marks iff the draw is below
\* the exact probability, at every switch queue and whatever it has been through.
THEOREM RampExactness == Spec => []RampIsExact
<1>1. config \in Configs => RampIsExact
  BY SMTT(30), QueueAssumption, Exact DEF QueueAssumption, RampIsExact
<1> QED BY <1>1, ConfigInvariant, PTL

\* For every word size and policy, a deeper queue and a smaller draw mark no less.
THEOREM RampGrowth == Spec => [](\A p \in config.ramp : MarksGrow(p))
<1>1. config \in Configs => \A p \in config.ramp : MarksGrow(p)
  BY QueueAssumption, Grow DEF QueueAssumption
<1> QED BY <1>1, ConfigInvariant, PTL
=============================================================================
