------------------------------ MODULE EcnRamp ------------------------------
(***************************************************************************)
(* The ECN ramp of a switch queue (executor/src/ecn_ramp.rs): tail drop at *)
(* a byte capacity, and marking with a probability that grows with the     *)
(* depth of the queue.  Word stands for 2^64.  The draw of an arrival is   *)
(* an arbitrary word: its mixer is not modelled.                           *)
(***************************************************************************)
EXTENDS Integers

CONSTANTS
  Word,
  MaxBytes,       \* bound: capacities of the policies
  MaxDenominator  \* bound: denominators of pmax

ASSUME EcnAssumption == Word \in Nat \ {0} /\ MaxBytes \in Nat /\ MaxDenominator \in Nat

Draw == 0 .. Word - 1

ecn_ramp_span(p) == p.pmax_denominator * (p.kmax_bytes - p.kmin_bytes)

LowestTerms(a, b) == \A k \in 2 .. b : ~(a % k = 0 /\ b % k = 0)

\* Well-formed policies.
ecn_ramp_policy_check(p) ==
  /\ 1 <= p.kmin_bytes /\ p.kmin_bytes <= p.kmax_bytes /\ p.kmax_bytes <= p.capacity_bytes
  /\ 0 < p.pmax_numerator /\ p.pmax_numerator <= p.pmax_denominator
  /\ LowestTerms(p.pmax_numerator, p.pmax_denominator)
  /\ p.kmin_bytes = p.kmax_bytes => p.pmax_numerator = p.pmax_denominator
  /\ ecn_ramp_span(p) < Word

Policy ==
  {p \in [capacity_bytes : 1 .. MaxBytes, kmin_bytes : 1 .. MaxBytes, kmax_bytes : 1 .. MaxBytes,
          pmax_numerator : 1 .. MaxDenominator, pmax_denominator : 1 .. MaxDenominator] :
     ecn_ramp_policy_check(p)}

\* Mutant: the high word of the product is compared with <=.
InRampInclusive(p, depth, draw) ==
  (draw * ecn_ramp_span(p)) \div Word <= p.pmax_numerator * (depth - p.kmin_bytes)

\* Inside the ramp: the high word of draw * span is below the bound.
InRamp(p, depth, draw) ==
  (draw * ecn_ramp_span(p)) \div Word < p.pmax_numerator * (depth - p.kmin_bytes)

\* Tail drop: the depth overflows or passes the capacity.
DropsAt(p, queued_bytes, size_bytes) ==
  queued_bytes + size_bytes >= Word \/ queued_bytes + size_bytes > p.capacity_bytes

ecn_ramp_decision(p, queued_bytes, size_bytes, ecn_capable, draw) ==
  LET depth == queued_bytes + size_bytes
  IN IF DropsAt(p, queued_bytes, size_bytes) THEN "Drop"
     ELSE IF /\ ecn_capable /\ depth >= p.kmin_bytes
             /\ depth >= p.kmax_bytes \/ InRamp(p, depth, draw)
          THEN "Mark" ELSE "Enqueue"

Marks(p, depth, draw) == ecn_ramp_decision(p, 0, depth, TRUE, draw) = "Mark"
Depth(p) == {d \in 0 .. p.capacity_bytes : d < Word}

\* Nothing rounds P(d).  Below the upper threshold an arrival is marked iff
\* draw / 2^64 < Pmax * (d - kmin) / (kmax - kmin), so that the ramp never marks at
\* kmin, and at or above kmax every data packet is.
MarksExactly(p) ==
  \A depth \in Depth(p), draw \in Draw :
    /\ depth < p.kmin_bytes => ~Marks(p, depth, draw)
    /\ depth \in p.kmin_bytes .. p.kmax_bytes - 1 =>
         (Marks(p, depth, draw) <=>
            draw * (p.pmax_denominator * (p.kmax_bytes - p.kmin_bytes))
              < (p.pmax_numerator * (depth - p.kmin_bytes)) * Word)
    /\ depth >= p.kmax_bytes => Marks(p, depth, draw)

\* A deeper queue marks no less: what is marked at one depth is marked at every
\* greater one that is not dropped, and by every smaller draw.
MarksGrow(p) ==
  \A d, e \in Depth(p), u, v \in Draw : d <= e /\ v <= u /\ Marks(p, d, u) => Marks(p, e, v)
=============================================================================
