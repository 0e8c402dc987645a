------------------------------- MODULE Mailbox -------------------------------
(***************************************************************************)
(* What a channel between nexosim models promises (crates/nexosim/src/     *)
(* channel.rs): messages are received in the order in which they were      *)
(* accepted, each once, none of them is accepted beyond the capacity or    *)
(* after the channel was closed, and the receiver is told so only when     *)
(* it has received the last one.                                           *)
(***************************************************************************)
EXTENDS Integers, Sequences

CONSTANT Message

VARIABLES
  capacity,
  queue,      \* messages accepted and not received
  closed,
  received,   \* messages received
  ended       \* the receiver was told that the channel is closed

vars == <<capacity, queue, closed, received, ended>>

Init ==
  /\ capacity > 0
  /\ queue = <<>> /\ received = <<>>
  /\ closed = FALSE /\ ended = FALSE

Send(m) ==
  /\ ~closed
  /\ Len(queue) < capacity
  /\ queue' = Append(queue, m)
  /\ UNCHANGED <<capacity, closed, received, ended>>

Receive ==
  /\ queue # <<>>
  /\ received' = Append(received, Head(queue))
  /\ queue' = Tail(queue)
  /\ UNCHANGED <<capacity, closed, ended>>

Close ==
  /\ closed' = TRUE
  /\ UNCHANGED <<capacity, queue, received, ended>>

End ==
  /\ closed /\ queue = <<>>
  /\ ended' = TRUE
  /\ UNCHANGED <<capacity, queue, closed, received>>

Next == (\E m \in Message : Send(m)) \/ Receive \/ Close \/ End

Spec == Init /\ [][Next]_vars
=============================================================================
