--------------------------- MODULE NexosimChannel ---------------------------
(***************************************************************************)
(* The channel between nexosim models (crates/nexosim/src/channel.rs) on   *)
(* its bounded queue (channel/queue.rs): several senders and a receiver,   *)
(* none of which takes a lock.  Each slot has a stamp that says whose turn *)
(* it is; a position is a sequence count, a flag and an index in one word, *)
(* and wraps.  Every atomic operation is a step; an old value of a word is *)
(* one that was loaded earlier.                                            *)
(*                                                                         *)
(* The two signals are external: a waiter looks, registers, looks again,   *)
(* and sleeps until it is notified; what was stored before a notification  *)
(* that it has missed is visible to its second look.                       *)
(***************************************************************************)
EXTENDS Integers, Sequences

CONSTANTS
  Sender,       \* tasks that hold a Sender
  Channels,     \* channels to start from: capacity, and the position it has come to
  Sends,        \* bound: messages of each sender
  Word          \* values of a machine word; a position does not come back while an
                \* operation lasts, so that Word exceeds what Sends messages advance

VARIABLES
  capacity, enqueue_pos, dequeue_pos,
  stamp, box,       \* by slot: its turn, and a message, Vacated or Gone
  pc, pos, turn,    \* by sender: where it is; the position and stamp it has read
  again,            \* by sender: it is registered, and looks a second time
  sent,             \* by sender: sends that returned Ok
  waiting, woken,   \* sender_signal: registered senders, and notified ones
  rx, rx_again,     \* where the receiver is, and whether it looks a second time
  rx_waiting, rx_woken,  \* receiver_signal
  borrow,           \* the slot of the message it has taken, and the stamp it will leave
  received,         \* history: messages taken out, in order
  msg_count         \* THREAD_MSG_COUNT, over all threads

queueVars == <<capacity, enqueue_pos, dequeue_pos, stamp, box>>
senderVars == <<pc, pos, turn, again, sent>>
eventVars == <<waiting, woken>>
receiverVars == <<rx, rx_again, rx_waiting, rx_woken, borrow, received, msg_count>>
channelVars == <<queueVars, senderVars, eventVars, receiverVars>>

ChannelMessage == UNION {{s} \X (1 .. Sends[s]) : s \in Sender}

\* MessageBox::Vacated and MessageBox::None.
Vacated == <<"Vacated">>
Gone == <<"None">>

NoBorrow == [index |-> 0, stamp |-> 0]

-----------------------------------------------------------------------------
\* Positions.

\* The flag is the bit above the index; the sequence count is above the flag.
ClosedMask == CHOOSE p \in {1, 2, 4} : capacity <= p /\ p < 2 * capacity
Lap == 2 * ClosedMask

Index(p) == p % Lap
Flagged(p) == (p \div ClosedMask) % 2 = 1

next_queue_pos(p) == IF Index(p + 1) < capacity THEN p + 1 ELSE (p - Index(p) + Lap) % Word

\* The difference of two words, as a signed number.
Delta(a, b) ==
  LET d == (a - b) % Word
  IN IF d >= Word \div 2 THEN d - Word ELSE d

\* Queue::len
len ==
  LET carry == IF enqueue_pos \div Lap = dequeue_pos \div Lap THEN 0 ELSE capacity
  IN ((enqueue_pos % ClosedMask) + carry) - (dequeue_pos % ClosedMask)

\* A new channel is at position 0; an empty one may be at the start of any lap.
ChannelInit ==
  /\ \E c \in Channels :
       /\ capacity = c[1]
       /\ enqueue_pos = c[2] /\ dequeue_pos = c[2]
       /\ stamp = [i \in 0 .. c[1] - 1 |-> c[2] + i]
  /\ box = [i \in 0 .. capacity - 1 |-> Vacated]
  /\ pc = [s \in Sender |-> "idle"]
  /\ pos = [s \in Sender |-> 0] /\ turn = [s \in Sender |-> 0]
  /\ again = [s \in Sender |-> FALSE]
  /\ sent = [s \in Sender |-> 0]
  /\ waiting = {} /\ woken = {}
  /\ rx = "idle" /\ rx_again = FALSE /\ rx_waiting = FALSE /\ rx_woken = FALSE
  /\ borrow = NoBorrow
  /\ received = <<>>
  /\ msg_count = 0

-----------------------------------------------------------------------------
\* External: the signals.

notify_one ==
  IF waiting = {} THEN UNCHANGED eventVars
  ELSE \E s \in waiting : waiting' = waiting \ {s} /\ woken' = woken \cup {s}

notify_all == waiting' = {} /\ woken' = woken \cup waiting

notify_receiver == rx_woken' = (rx_woken \/ rx_waiting) /\ rx_waiting' = FALSE

\* wait_until is over or given up: a registered sender leaves the set, and passes on a notification
\* that it no longer needs.
leave_event(s) ==
  IF ~again[s] THEN UNCHANGED eventVars
  ELSE IF s \in waiting THEN waiting' = waiting \ {s} /\ UNCHANGED woken
  ELSE IF waiting = {} THEN woken' = woken \ {s} /\ UNCHANGED waiting
  ELSE \E t \in waiting : waiting' = waiting \ {t} /\ woken' = (woken \ {s}) \cup {t}

-----------------------------------------------------------------------------
\* Sender::send and Queue::push.

Goto(s, where) == pc' = [pc EXCEPT ![s] = where]

\* The first step of a push, and its retry.
Load(s) ==
  /\ pos' = [pos EXCEPT ![s] = enqueue_pos]
  /\ Goto(s, "stamp")
  /\ UNCHANGED <<queueVars, turn, sent, receiverVars>>

send(s) ==
  /\ pc[s] = "idle" /\ sent[s] < Sends[s]
  /\ Load(s)
  /\ UNCHANGED <<again, eventVars>>

push_load(s) ==
  /\ pc[s] = "load"
  /\ Load(s)
  /\ UNCHANGED <<again, eventVars>>

\* Closed; or a match of the stamp, a full queue, or a race with another sender.
push_stamp(s) ==
  /\ pc[s] = "stamp"
  /\ IF Flagged(pos[s]) THEN Goto(s, "closed") /\ UNCHANGED turn
     ELSE LET t == stamp[Index(pos[s])]
              d == Delta(t, pos[s])
          IN /\ turn' = [turn EXCEPT ![s] = t]
             /\ Goto(s, IF d = 0 THEN "cas"
                        ELSE IF d > 0 THEN "load"
                        ELSE IF again[s] THEN "sleep" ELSE "register")
  /\ UNCHANGED <<queueVars, pos, again, sent, eventVars, receiverVars>>

\* Mutant: the position is stored without a look at the one that is there.
PushStores(s) ==
  /\ pc[s] = "cas"
  /\ enqueue_pos' = next_queue_pos(pos[s])
  /\ Goto(s, "write")
  /\ UNCHANGED <<capacity, dequeue_pos, stamp, box, pos, turn, again, sent, eventVars, receiverVars>>

push_cas(s) ==
  /\ pc[s] = "cas"
  /\ enqueue_pos = pos[s]
  /\ enqueue_pos' = next_queue_pos(pos[s])
  /\ Goto(s, "write")
  /\ UNCHANGED <<capacity, dequeue_pos, stamp, box, pos, turn, again, sent, eventVars, receiverVars>>

\* A weak exchange may also fail for no reason, which takes the sender back to where it was.
push_cas_fails(s) ==
  /\ pc[s] = "cas"
  /\ enqueue_pos # pos[s]
  /\ pos' = [pos EXCEPT ![s] = enqueue_pos]
  /\ Goto(s, "stamp")
  /\ UNCHANGED <<queueVars, turn, again, sent, eventVars, receiverVars>>

push_write(s) ==
  /\ pc[s] = "write"
  /\ box' = [box EXCEPT ![Index(pos[s])] = <<s, sent[s] + 1>>]
  /\ Goto(s, "store")
  /\ UNCHANGED <<capacity, enqueue_pos, dequeue_pos, stamp, pos, turn, again, sent, eventVars,
                 receiverVars>>

push_store(s) ==
  /\ pc[s] = "store"
  /\ stamp' = [stamp EXCEPT ![Index(pos[s])] = (turn[s] + 1) % Word]
  /\ Goto(s, "pushed")
  /\ UNCHANGED <<capacity, enqueue_pos, dequeue_pos, box, pos, turn, again, sent, eventVars,
                 receiverVars>>

\* What a push has read is of no further use.
Forget(s) == pos' = [pos EXCEPT ![s] = 0] /\ turn' = [turn EXCEPT ![s] = 0] /\ again' = [again EXCEPT ![s] = FALSE]

send_ok(s) ==
  /\ pc[s] = "pushed"
  /\ leave_event(s)
  /\ Forget(s)
  /\ Goto(s, "notify")
  /\ UNCHANGED <<queueVars, sent, receiverVars>>

send_notify(s) ==
  /\ pc[s] = "notify"
  /\ notify_receiver
  /\ msg_count' = msg_count + 1
  /\ sent' = [sent EXCEPT ![s] = @ + 1]
  /\ Goto(s, "idle")
  /\ UNCHANGED <<queueVars, pos, turn, again, eventVars, rx, rx_again, borrow, received>>

send_err(s) ==
  /\ pc[s] = "closed"
  /\ leave_event(s)
  /\ Forget(s)
  /\ Goto(s, "failed")
  /\ UNCHANGED <<queueVars, sent, receiverVars>>

\* Mutant: the sender sleeps without a second look.
RegisterAndSleep(s) ==
  /\ pc[s] = "register"
  /\ waiting' = waiting \cup {s}
  /\ again' = [again EXCEPT ![s] = TRUE]
  /\ Goto(s, "sleep")
  /\ UNCHANGED <<queueVars, pos, turn, sent, woken, receiverVars>>

\* PushError::Full: wait_until registers the sender, and looks again before it sleeps.
register(s) ==
  /\ pc[s] = "register"
  /\ waiting' = waiting \cup {s}
  /\ again' = [again EXCEPT ![s] = TRUE]
  /\ Goto(s, "load")
  /\ UNCHANGED <<queueVars, pos, turn, sent, woken, receiverVars>>

wake_up(s) ==
  /\ pc[s] = "sleep" /\ s \in woken
  /\ woken' = woken \ {s}
  /\ again' = [again EXCEPT ![s] = FALSE]
  /\ Load(s)
  /\ UNCHANGED waiting

\* The task of a sender that waits is dropped, and the send with it.
send_dropped(s) ==
  /\ pc[s] = "sleep"
  /\ leave_event(s)
  /\ Forget(s)
  /\ Goto(s, "failed")
  /\ UNCHANGED <<queueVars, sent, receiverVars>>

Flag(p) == IF Flagged(p) THEN p ELSE p + ClosedMask

\* Sender::close.
sender_close(s) ==
  /\ pc[s] = "idle"
  /\ enqueue_pos' = Flag(enqueue_pos)
  /\ Goto(s, "closing")
  /\ UNCHANGED <<capacity, dequeue_pos, stamp, box, pos, turn, again, sent, eventVars, receiverVars>>

sender_close_notify(s) ==
  /\ pc[s] = "closing"
  /\ notify_receiver
  /\ notify_all
  /\ Goto(s, "failed")
  /\ UNCHANGED <<queueVars, pos, turn, again, sent, rx, rx_again, borrow, received, msg_count>>

-----------------------------------------------------------------------------
\* Receiver::recv and Queue::pop.

pop_stamp ==
  /\ rx \in {"idle", "pop"}
  /\ rx' = IF stamp[Index(dequeue_pos)] # dequeue_pos THEN "take" ELSE "empty"
  /\ UNCHANGED <<queueVars, senderVars, eventVars, rx_again, rx_waiting, rx_woken, borrow,
                 received, msg_count>>

\* Mutant: the flag alone ends the channel.
PopClosedByFlag ==
  /\ rx = "empty"
  /\ rx' = IF Flagged(enqueue_pos) THEN "ended" ELSE IF rx_again THEN "sleep" ELSE "register"
  /\ UNCHANGED <<queueVars, senderVars, eventVars, rx_again, rx_waiting, rx_woken, borrow,
                 received, msg_count>>

\* Nothing to take.  Only if no sender is in the middle of a push is the channel closed.
pop_empty ==
  /\ rx = "empty"
  /\ rx' = IF enqueue_pos = dequeue_pos + ClosedMask THEN "ended"
           ELSE IF rx_again THEN "sleep" ELSE "register"
  /\ UNCHANGED <<queueVars, senderVars, eventVars, rx_again, rx_waiting, rx_woken, borrow,
                 received, msg_count>>

pop_take ==
  LET i == Index(dequeue_pos)
  IN /\ rx = "take"
     /\ dequeue_pos' = next_queue_pos(dequeue_pos)
     /\ box' = [box EXCEPT ![i] = Gone]
     /\ borrow' = [index |-> i, stamp |-> (stamp[i] + Lap - 1) % Word]
     /\ received' = Append(received, box[i])
     /\ rx' = "call"
     /\ rx_waiting' = FALSE /\ rx_woken' = FALSE /\ rx_again' = FALSE
     /\ UNCHANGED <<capacity, enqueue_pos, stamp, senderVars, eventVars, msg_count>>

\* The message is called and dropped: its box goes back to the slot,
recv_call ==
  /\ rx = "call"
  /\ msg_count' = msg_count - 1
  /\ box' = [box EXCEPT ![borrow.index] = Vacated]
  /\ rx' = "free"
  /\ UNCHANGED <<capacity, enqueue_pos, dequeue_pos, stamp, senderVars, eventVars, rx_again,
                 rx_waiting, rx_woken, borrow, received>>

\* and the slot to the senders.
recv_free ==
  /\ rx = "free"
  /\ stamp' = [stamp EXCEPT ![borrow.index] = borrow.stamp]
  /\ rx' = "notify"
  /\ UNCHANGED <<capacity, enqueue_pos, dequeue_pos, box, senderVars, eventVars, rx_again,
                 rx_waiting, rx_woken, borrow, received, msg_count>>

recv_notify ==
  /\ rx = "notify"
  /\ notify_one
  /\ rx' = "idle"
  /\ borrow' = NoBorrow
  /\ UNCHANGED <<queueVars, senderVars, rx_again, rx_waiting, rx_woken, received, msg_count>>

\* PopError::Empty: register and look again, then sleep.
rx_register ==
  /\ rx = "register"
  /\ rx_waiting' = TRUE /\ rx_again' = TRUE
  /\ rx' = "pop"
  /\ UNCHANGED <<queueVars, senderVars, eventVars, rx_woken, borrow, received, msg_count>>

rx_wake_up ==
  /\ rx = "sleep" /\ rx_woken
  /\ rx_woken' = FALSE /\ rx_again' = FALSE
  /\ rx' = "pop"
  /\ UNCHANGED <<queueVars, senderVars, eventVars, rx_waiting, borrow, received, msg_count>>

\* Receiver::close, after which the receiver goes on.  It does nothing to a channel that
\* is closed; a close by a sender just after that look only repeats the notification.
receiver_close ==
  /\ rx = "idle" /\ ~Flagged(enqueue_pos)
  /\ enqueue_pos' = Flag(enqueue_pos)
  /\ rx' = "closing"
  /\ UNCHANGED <<capacity, dequeue_pos, stamp, box, senderVars, eventVars, rx_again, rx_waiting,
                 rx_woken, borrow, received, msg_count>>

\* The task of the receiver is dropped, which may be waiting.
receiver_drop ==
  /\ rx \in {"idle", "sleep"}
  /\ enqueue_pos' = Flag(enqueue_pos)
  /\ rx' = "dropping"
  /\ rx_waiting' = FALSE /\ rx_woken' = FALSE /\ rx_again' = FALSE
  /\ UNCHANGED <<capacity, dequeue_pos, stamp, box, senderVars, eventVars, borrow, received, msg_count>>

receiver_close_notify ==
  /\ rx \in {"closing", "dropping"}
  /\ notify_all
  /\ rx' = IF rx = "closing" THEN "idle" ELSE "dropped"
  /\ UNCHANGED <<queueVars, senderVars, rx_again, rx_waiting, rx_woken, borrow, received, msg_count>>

-----------------------------------------------------------------------------

\* What a thread does without anybody's asking, once a send or a close has begun.
SenderStep(s) ==
  \/ push_load(s) \/ push_stamp(s) \/ push_cas(s) \/ push_cas_fails(s)
  \/ push_write(s) \/ push_store(s)
  \/ send_ok(s) \/ send_notify(s) \/ send_err(s)
  \/ register(s) \/ wake_up(s)
  \/ sender_close_notify(s)

ReceiverStep ==
  \/ pop_stamp \/ pop_empty \/ pop_take \/ recv_call \/ recv_free \/ recv_notify
  \/ rx_register \/ rx_wake_up
  \/ receiver_close_notify

ChannelNext ==
  \/ \E s \in Sender : SenderStep(s) \/ send(s) \/ send_dropped(s) \/ sender_close(s)
  \/ ReceiverStep
  \/ receiver_close \/ receiver_drop

\* Threads run, a model goes on receiving, and a weak exchange does not fail for ever.
ChannelSpec ==
  /\ ChannelInit /\ [][ChannelNext]_channelVars
  /\ WF_channelVars(ReceiverStep)
  /\ \A s \in Sender : WF_channelVars(SenderStep(s))

-----------------------------------------------------------------------------

\* The messages between the two positions, in order.  One that is accepted and not yet
\* written is with its sender.
Contents ==
  LET At(p) == IF box[Index(p)] \in ChannelMessage THEN box[Index(p)]
               ELSE LET s == CHOOSE s \in Sender : pc[s] = "write" /\ pos[s] = p
                    IN <<s, sent[s] + 1>>
      end == IF Flagged(enqueue_pos) THEN enqueue_pos - ClosedMask ELSE enqueue_pos
      walk[p \in 0 .. Word - 1] == IF p = end THEN <<>> ELSE <<At(p)>> \o walk[next_queue_pos(p)]
  IN walk[dequeue_pos]

Box == INSTANCE Mailbox WITH
  Message <- ChannelMessage, queue <- Contents, closed <- Flagged(enqueue_pos),
  ended <- rx = "ended"

\* Messages are received in the order in which their senders won the enqueue position,
\* each once; none is accepted beyond the capacity or after the close, and the receiver is
\* told of the close only after the last one, although the flag is set and the positions
\* move while pushes are under way (queue.rs, push, pop and close).
ImplementsMailbox == Box!Spec

\* The stamps keep senders and receiver out of each other's slots: a sender that has won a
\* position finds an empty box and the receiver a full one with the stamp next to its
\* position, where the code has unreachable!() and a debug assertion.  In a quiet channel
\* len() counts the messages, and the counters of the threads add up to it, on which the
\* executor relies to find a deadlock.
ChannelIsExact ==
  /\ \A s \in Sender : pc[s] = "write" => box[Index(pos[s])] = Vacated
  /\ rx = "take" => LET i == Index(dequeue_pos)
                    IN box[i] \in ChannelMessage /\ stamp[i] = dequeue_pos + 1
  /\ (\A s \in Sender : pc[s] \in {"idle", "failed", "sleep"})
       /\ rx \in {"idle", "sleep", "dropped", "ended"}
     => /\ len = Len(Contents)
        /\ msg_count = len

\* Nobody is at work or waits, and nothing that was accepted is left behind.
Quiet ==
  /\ \A s \in Sender : pc[s] \in {"idle", "failed"}
  /\ Contents = <<>> \/ rx = "dropped"
=============================================================================
