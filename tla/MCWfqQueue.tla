----------------------------- MODULE MCWfqQueue -----------------------------
(***************************************************************************)
(* Instances of WfqQueue: two classes of weights 1 and 2, so that 6 is a   *)
(* multiple of every sum of weights.  Flows 0 and 2 share a class and not  *)
(* a priority.                                                             *)
(***************************************************************************)
EXTENDS WfqQueue, TLC

PayloadSymmetry == Permutations(Payload)

MCWeights == [c \in {0, 1} |-> c + 1]

MCPfcClassOf == [f \in Flow |-> IF f = 0 THEN 3 ELSE 4]
=============================================================================
