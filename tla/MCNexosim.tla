------------------------------ MODULE MCNexosim ------------------------------
(***************************************************************************)
(* Three parts of nexosim that work without locks: the pool of workers,    *)
(* the task that a worker runs, and the channel by which tasks wait for    *)
(* each other.  A behaviour is one of the three; the variables of the      *)
(* others are idle.                                                        *)
(***************************************************************************)
EXTENDS MCWorkerPool, NexosimTask

VARIABLES
  part,
  capacity, enqueue_pos, dequeue_pos, stamp, box, pc, pos, turn, again, sent, waiting, woken,
  rx, rx_again, rx_waiting, rx_woken, borrow, received, in_flight

MCWaker == {"w1", "w2", "w3"}

\* A new channel for one message, and one for two whose positions are about to wrap.
Channel == INSTANCE NexosimChannel WITH
  Sender <- {0, 1}, Sends <- [s \in {0, 1} |-> 2 - s], Channels <- {<<1, 0>>, <<2, 28>>}, Word <- 32,
  msg_count <- in_flight

channelVars == <<capacity, enqueue_pos, dequeue_pos, stamp, box, pc, pos, turn, again, sent, waiting,
                 woken, rx, rx_again, rx_waiting, rx_woken, borrow, received, in_flight>>
allVars == <<part, vars, taskVars, channelVars>>

-----------------------------------------------------------------------------

IdlePool ==
  /\ job = {} /\ active = {} /\ searching = 0 /\ injector = <<>> /\ fresh = {}
  /\ token = {} /\ abort = FALSE /\ panic = {} /\ msg_count = 0 /\ worker = {} /\ main = [step |-> "idle"]
  /\ result = "none" /\ ran = {}

\* A task that is gone.
IdleTask ==
  /\ state = [polling |-> FALSE, closed |-> TRUE, refs |-> 0, wakes |-> 0]
  /\ core = "nothing" /\ allocated = FALSE /\ held = {} /\ inner = {} /\ runnable = "none"
  /\ wake_count = 0 /\ closing = FALSE /\ duties = [h \in Handle |-> <<>>] /\ unserved = 0

IdleChannel == Channel!ChannelInit /\ capacity = 1

MCInit ==
  \/ part = "pool" /\ Init /\ IdleTask /\ IdleChannel
  \/ part = "task" /\ TaskInit /\ IdlePool /\ IdleChannel
  \/ part = "channel" /\ Channel!ChannelInit /\ IdlePool /\ IdleTask

PoolOnly    == part = "pool" /\ UNCHANGED <<part, taskVars, channelVars>>
TaskOnly    == part = "task" /\ UNCHANGED <<part, vars, channelVars>>
ChannelOnly == part = "channel" /\ UNCHANGED <<part, vars, taskVars>>

MCNext ==
  \/ PoolOnly /\ Next
  \/ TaskOnly /\ TaskNext
  \/ ChannelOnly /\ Channel!ChannelNext

MCSpec ==
  /\ MCInit /\ [][MCNext]_allVars
  /\ WF_vars(part = "pool" /\ MainStep)
  /\ \A w \in Worker : WF_vars(part = "pool" /\ WorkerStep(w))
  /\ WF_taskVars(part = "task" /\ Work)
  /\ WF_channelVars(part = "channel" /\ Channel!ReceiverStep)
  /\ \A s \in {0, 1} : WF_channelVars(part = "channel" /\ Channel!SenderStep(s))

-----------------------------------------------------------------------------

\* A run of the pool that returns Ok has left no task and has counted every message, no
\* assertion of the pool fails, and the bits and the count that activation decides by are
\* those of the workers that are awake and that search (mt_executor.rs, pool_manager.rs).
\* This is for one pass of the loop that activates hot workers (MaxActivations 1): with a
\* second pass an assertion can fail, see LastActiveWorkerOnly (worker_pool_hot).
PoolExact == part = "pool" => ResultIsExact /\ PoolIsExact

\* Sender and receiver find each slot of the queue as the code asserts, and len() and the
\* message counters agree with what a quiet channel holds (channel/queue.rs).
ChannelExact == part = "channel" => Channel!ChannelIsExact

\* The channel is a bounded queue that can be closed: messages come out once, in the order
\* in which they were accepted, none is accepted after the close, and the receiver is told
\* of the close after the last one, whatever pushes are under way (channel/queue.rs).
ImplementsMailbox == Channel!ImplementsMailbox

\* No wake-up is lost.  Every run of the pool returns and its threads end; a task that was
\* woken, also while it was polled, is polled again unless it is closed; and if a receiver
\* goes on receiving or the channel is closed, every send returns, also when another sender
\* is dropped that was to be woken, and what was accepted is received unless the receiver
\* is dropped (mt_executor.rs, run; runnable.rs, run; channel.rs, send and recv).
EveryoneIsServed ==
  /\ <>[]( /\ (part = "pool" => main.step = "joined")
           /\ (part = "channel" => Channel!Quiet) )
  /\ []<>WakesServed
=============================================================================
