------------------------------- MODULE MCRoce -------------------------------
(***************************************************************************)
(* A RoCE queue pair, and the DCQCN controller that sets its rate.  A      *)
(* behaviour is one of the two; the pair takes any rate that the           *)
(* controller may leave, and the controller any order of the transitions   *)
(* that a pair makes.  The variables of the other are idle.                *)
(***************************************************************************)
EXTENDS DcqcnLazy

VARIABLES
  part,
  config, timers_ran, qp, calendar, paused_by, pause_parked, receiver, data, feedback, arrived,
  error

pairVars == <<config, timers_ran, qp, calendar, paused_by, pause_parked, receiver, data, feedback,
              arrived, error>>
controllerVars == <<timers_fired, eager, frozen, lazy>>
allVars == <<part, now, pairVars, controllerVars>>

\* Timeout and variable window on, and both off: then nothing but the pacer,
\* feedback and RESUME frames moves the pair.
MCConfigs ==
  {[rto_ns |-> 3, window_bytes |-> 4, variable_window |-> TRUE, ack_every_packets |-> 2,
    duplicate_ack |-> TRUE],
   [rto_ns |-> 0, window_bytes |-> 0, variable_window |-> FALSE, ack_every_packets |-> 1,
    duplicate_ack |-> FALSE]}

Pair == INSTANCE RoceQueuePair WITH TotalBytes <- 5, MtuBytes <- 2, Rates <- {1, 2},
          PacingInterval <- 2, FirstPacing <- 1, NackInterval <- 2, Configs <- MCConfigs,
          Controllers <- {"switch"}, StopTime <- 12

ASSUME Pair!PairAssumption

IdlePair ==
  /\ config = {} /\ timers_ran = FALSE /\ qp = {} /\ calendar = <<>> /\ paused_by = {}
  /\ pause_parked = FALSE /\ receiver = {} /\ data = <<>> /\ feedback = <<>> /\ arrived = {}
  /\ error = "none"

IdleController == timers_fired = FALSE /\ eager = EagerInit /\ frozen = FALSE /\ lazy = pristine

MCInit ==
  \/ part = "pair" /\ Pair!Init /\ IdleController
  \/ part = "controller" /\ LazyInit /\ IdlePair

MCNext ==
  \/ part = "pair" /\ Pair!Next /\ UNCHANGED <<part, controllerVars>>
  \/ part = "controller" /\ LazyNext /\ UNCHANGED <<part, pairVars>>

MCSpec == MCInit /\ [][MCNext]_allVars

-----------------------------------------------------------------------------

\* A checkpoint taken anywhere in a run of the pair is an image the validator accepts,
\* and no handler has met a state it refuses.
SenderIsValid == part = "pair" => Pair!SenderIsValid

\* The receiver and what is in flight agree with the sender, whatever was lost.
ReceiverAgrees == part = "pair" => Pair!ReceiverAgrees

\* An unfinished pair always has something that will move it.
NoStall == part = "pair" => Pair!NoStall
=============================================================================
