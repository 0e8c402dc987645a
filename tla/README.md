# TLA+ models of the Days executors

Days compiles a scenario into a `SimulationImage` and runs it as a discrete-event
simulation. The image is split into logical processes (LPs): one per host and one
per switch egress queue. LPs exchange *events*, ordered by
`EventKey = (time_ns, phase, origin_node, origin_seq)`. The claim of the project is
that the result of a run is a function of the image: the serial executor, the round
executor and the parallel executors produce the same states and the same records.

This directory models the executors and the mechanisms they simulate, checks the
models with TLC and proves the central results with TLAPS. `PROJECT.json` gives, for
every definition that models code, the source lines it stands for.

## 1. Inventory

### Parts, state and interactions

| Part | State | Operations | Interacts with |
|---|---|---|---|
| Event list (`event.rs`, `fel.rs`) | pending events, in a heap and a timer map | insert, pop, remove a superseded timer | every executor |
| Transition state (`scalar.rs`) | host, switch-queue, flow and receiver states; sequence per LP | one handler per event kind and packet kind | emits events |
| Scalar executor (`scalar.rs`) | one event list | pop, dispatch, insert children | reference for the others |
| Round executor (`safe_horizon.rs`) | futures per LP, frontier heap with generations, key index, outbox | start round, drain an LP, exchange, finish | transition state |
| CPU executor (`cpu.rs`), three modes | LPs owned by workers or lent to others, command, reply, batch and exchange channels, minima, batch counts, chunks | run a round, send batches, merge early batches, lend and return LPs, finish, collect errors | threads |
| Owner frontier (`cpu.rs`) | indexed binary heap | update, pop_before | CPU executor |
| Switch queues (`scalar.rs`) | queue, packet in service, `tx_ready_pending`, scheduler state, byte count, PFC class order | arrival, PFC arrival, TxReady, TxComplete | links, PFC |
| ECN ramp (`ecn_ramp.rs`) | none: a pure decision on policy, depth and draw | decide at enqueue | switch queue |
| PFC (`scalar.rs`, `validate.rs`) | controllers that pause a class; per-ingress occupancy and asserted bit | XOFF on enqueue, XON on service, PAUSE and RESUME arrival | both ends of a link, hosts |
| RoCE queue pair (`roce.rs`, `scalar.rs`) | `snd_una`, `next_psn`, pacer, timeout, window, receiver | tick, ACK or NACK, timeout, data arrival, pause and resume | network, DCQCN, PFC |
| DCQCN (`dcqcn.rs`) | rate, target, alpha, three lazy timers | materialize, feedback, freeze | RoCE, DCQCN flows |
| TCP (`tcp.rs`, `tcp_ledger.rs`, `scalar.rs`) | window, phase, segment ledger, timer, receiver ranges | send, ACK, timeout, data arrival | network |
| Collective stages (`scalar.rs`, `stage_index.rs`) | remaining prerequisites, activated and completed flags | completion, notification, activation, compute timer | transports |
| Validation (`validate.rs`) | none | accept or refuse an image or a checkpoint | states the invariants of every part |
| Devices (`metal.rs`, `cuda.rs`, kernels) | the same state in flat buffers; a ring per segment ledger | the same transitions, capacity faults | retry loop |
| Capacity retry (`device_capacity.rs`, `metal.rs`, `cuda.rs`) | overrides, caps and floors by lane, floors by stream, receiver class and ledger | plan, run, raise what was full, repeat, warm start | devices |
| Scenario compiler (`src/src/scenario`) | none that interleaves | lower stage groups, build an image | produces the image |
| nexosim pool (`src/crates/nexosim`, `mt_executor`) | worker bits, count of searchers, injector with its flag, local queues, park tokens | spawn, run, search, steal, park, time out, drop | threads, tasks |
| nexosim task (`task.rs`, `task/`) | one atomic word (polling, closed, references, wakes), future or output, Runnable | spawn, poll, wake, clone, drop, cancel, complete, deallocate | pool, promise, wakers |
| nexosim channel (`channel.rs`, `channel/queue.rs`) | enqueue and dequeue position with a closed flag, a stamp per slot, two signals, message counter | send, receive, close, drop, wait and wake | tasks of two models |

### What is hard about it

* LPs run out of the serial order, on several threads, with a horizon that has to be
  safe to the nanosecond, and with same-time continuations that bypass the event list.
* Indexes and caches are kept beside what they index: frontier heaps, the key index,
  the class order of a paused FIFO, parked lists, byte counters, predicted statuses.
* Timers are events that a later transition has to find and remove.
* Feedback is lost, late or repeated; timeouts are spurious; PAUSE frames cross data.
* The DCQCN controller applies timers long after their instant.
* A device attempt that runs out of room is repeated with more; what made an arena that
  small may be any of six bounds, several of which may tie.
* Worker threads go to sleep on flags that they read without order. Tasks and channels have no locks: who polls,
  drops or frees, and whose turn a slot is, is decided by one atomic word.
* Checkpoints: a run can be stopped anywhere and resumed, so every reachable state
  must be an image the validator accepts. Several invariants below are the rules of
  `validate.rs`, checked on all reachable states instead of on the initial one.

`PROJECT.json` lists these as hazards, each at the line where it bites and with the
properties that would catch it.

## 2. Modules

### The executors

`EventKeys` defines keys, phases and their order. `Transitions` defines the contract
of a dispatch. The handlers are a parameter: `Dispatch(node, state, input)` gives the
new LP state, the emissions and the superseded timers, or a failure. A child that is not
later than its parent, or a superseded timer that is not pending, fails the dispatch,
as in the code. The assumptions are those the executors rely on: outcomes are well
typed, an event for another LP lands at least `Lookahead` later (the minimum channel
delay), and initial keys are unique and below the next sequence number of their origin.

`CausalCalendar` is the abstract specification. An event may be dispatched when it is
the first pending one at its LP and nothing pending elsewhere can still reach that LP
before it. Any such event may go next. Five modules implement it; `MCExecutors` runs
them all, and maps each to the calendar:

* `ScalarCalendar`: `run_scalar_events` on the two containers of `FutureEvents`.
* `SafeHorizon`: `execute_rounds` and `drain_lp`, with the lazily cleaned frontier heap,
  the key index, the continuation and every internal error. One step per dispatched event.
* `OwnedStatic`: the static unclassified CPU executor. Coordinator and workers are
  processes over crossbeam channels: commands hold one message, replies two per worker,
  inboxes are unbounded, and an endpoint that is dropped makes the other side fail.
  In a run with faults one worker fails, panics or meets an internal error at some event.
* `ClassifiedStatic`: the same with straggler classification. In a round the workers
  exchange three times, each with all: whether there is a straggler, the LPs, and the LPs
  back with the events for others.
* `ChunkedCpu`: the coordinator extracts the LPs of a round from their owners, hands them out
  in chunks, the stragglers first, and gives LPs and events back to their owners.

`LentLps` is what the last two share: an LP leaves its owner with an estimate of its work and is
put back before the round ends. `OwnerFrontier` is the frontier of a worker as a set of
entries with the least one on top, which is what these modules use; `FrontierHeap` is the
position-indexed binary heap that stores it, one step per comparison and swap of a sift.

`MCProgram` gives TLC a program: three LPs on a ring, packet and pacing sources, timers
that arrivals supersede, same-time continuations, deliveries exactly one lookahead
away, handlers that fail, and states that depend on the order of events. It also holds
the reference, a recursive serial run. The calendar, the scalar and the round executor
start from all 32 subsets of its five initial events; the workers from images of their
own, in which a run succeeds after three rounds that send, overflows an outbox, is ended by a handler,
and has one straggler, two, or more LPs than workers.

### The mechanisms

* `SwitchQueue`: an egress queue under FIFO, static priority, DRR or WRR with PFC
  pauses, and with tail drop or an ECN ramp. The configuration is chosen in the initial
  state and never changes, as in an image. One turn of a round-robin scan is one step, and nothing interleaves with it.
* `WfqQueue`: weighted fair queueing. Virtual time is a rational in the code and an
  integer in units of `1/Scale` here; `Scale` is a common multiple of the divisors that occur.
* `EcnRamp`: the ramp as operators, in words of `Word` values instead of 2^64, for every
  policy that `ecn_ramp_policy_check` accepts and every draw. `SwitchQueue` extends it.
* `PfcLink`: an upstream queue, downstream queues that monitor it, the control lane
  between them. Time is relative to now, so a run has no end. The buffer has exactly
  the headroom that `pfc_required_headroom_bytes` asks for. The kinds of frames that
  arrive are chosen in the initial state.
* `RoceQueuePair`: one pair with its host's pauses over a network that may lose any packet.
  The controller is abstracted to the rates it may leave.
* `DcqcnEager`, `DcqcnLazy`: the eager machine is the oracle of the repository's tests
  (`executor/tests/support/dcqcn_oracle.rs`); the lazy one is `dcqcn.rs`, run in lockstep with it.
* `TcpFlow`: a flow with its Reno controller, ledger, timer and receiver over
  an in-order network that may lose packets. Time is left out: a pending
  timer may expire before or after the answer it waits for.

* `StageLowering`: how the scenario compiler lowers compute groups and collectives to stages with
  their prerequisites, as operators. `CollectiveStages`: the stages at their hosts, with prerequisite counts,
  activation, compute and notification timers. `CollectiveRun` composes the two and adds a history
  variable, the ranks whose contribution a message carries; the simulator itself moves no payload.
* `LedgerRing`: the segment ledger of a TCP flow as the kernels keep it, beside the ordered map of the CPU.
* `CapacityRetry`: the retry loop of the device executors. A kernel is reduced to what the
  loop sees of it: an attempt fails iff some arena is smaller than the image needs, at whichever overflows first.
* `WorkerPool`: the multi-threaded executor of nexosim. Every atomic operation that two threads can race for
  is a step. A relaxed read of the injector's flag may return an old value, unless the last store
  happens before it; `fresh` is the set of threads and channels for which it does.
* `NexosimTask`: one task in the hands of a promise, a cancel token, wakers (some of them stored in the future itself)
  and a Runnable. An operation is its atomic update of the word; what it then owes the task, such as to drop the
  future or to free the memory, is a list of duties that are steps of their own, so that others come in between.
  The future is arbitrary: it may clone, keep, wake and drop wakers, be ready, pend or panic.
* `NexosimChannel`: senders and a receiver on the bounded queue, one step per atomic operation. Positions are words of
  `Word` values and wrap. The two signals are external and modelled from their use: a waiter looks, registers, looks again
  and sleeps until it is notified, and one that leaves passes on a notification. `Mailbox` is what the channel
  promises, a bounded queue that can be closed; a message is accepted when its sender wins the position.

Definitions keep the names of the functions they model. Definitions marked *Mutant* are
faulty variants, used only to confirm that each property can fail.

## 3. Runs

Nine runs pass, each within three minutes with two workers. Four (`executors`, `roce`, `nexosim`, `containers`) put several modules
into one run: a selector variable that never changes says which of them a behaviour is, the
variables of the others are idle, and a property speaks of the one that runs.

| Run | States | Shows |
|---|---|---|
| `executors` | 73,575 | Calendar, scalar, rounds and the three modes of the CPU executor, in every interleaving and with a worker that fails, panics or fills its outbox: each implements the calendar, ends, and ends as the serial run or with the error that caused the failure; keys are unique and no LP meets an event that precedes one it has dispatched; horizon guards are unreachable, indexes and minima exact, inboxes sealed, lent LPs at one place |
| `switch_queue` | 288,916 | FIFO, static priority, DRR and WRR, with tail drop, a ramp and a step: class order, byte counter and round counters exact, the ramp marks exactly, each discipline serves in its order, no starvation (static priority excepted) |
| `wfq` | 1,531,040 | Validator rules up to the finish state, least unpaused tag first, order within a class |
| `pfc_link` | 147,451 | One class of two sizes, two classes, two downstream queues: lossless with the smallest accepted buffer, no lost or doubled wake-up, pause state that agrees at both ends, and every pause is lifted |
| `roce` | 283,193 | A queue pair with timeout and variable window, and without either: valid sender, agreement with the receiver, no stall. Its rate controller: the lazy one equals the eager one at every transition and when frozen, and the rate stays within its bounds |
| `tcp_flow` | 45,416 | From a fresh image, and from a preloaded one whose receiver may have a part of the first segment: ledger, recovery bounds, timer, reassembly and delivery exact, and with finitely many losses every byte is acknowledged |
| `collective_stages` | 22,109 | Seven scenarios, lowered and run in every order: a stage starts exactly when its predecessors are complete, groups follow one another at each host, rings carry the data of their algorithm, and every stage finishes. An eighth, whose groups wait for each other, is refused by the compiler |
| `nexosim` | 199,298 | The pool, three workers and the main thread: a run that returns Ok has left no task and counted every message, activation bits and counts are exact, and every run, panic, timeout and drop ends. A task: future, output and memory are used by one thread at a time and released once, and no wake is lost. A channel: it implements `Mailbox`, each slot is found as the code asserts, and no sender or receiver sleeps beside what it waits for |
| `containers` | 560,268 | The worker's heap answers as a set of entries; the device's ring decodes to the CPU's map; the capacity retry enlarges what was full and nothing else, never meets a fault its tables do not know, and replays from its own warm start |

Three runs are expected to find a violation. Each states a rule of the validator or of a comment that
a run does not keep; the findings of `PROJECT.json` quote it.

* `switch_drr_reserve`: the validator reserves one quantum and a frame for a DRR deficit. A class
  that empties keeps its deficit, and earns another quantum when a packet returns
  before the end of the round, so a quantum near 2^64 can overflow in a validated image.
* `wfq_finish_state`: the validator wants the finish time of a class to be the tag of its last
  waiting packet. With two PFC priorities in one class the last packet can leave first.
* `worker_pool_hot`: only the last active worker may declare the pool inactive. With a hot worker (the default)
  the main thread keeps activating in a loop, and can activate one just before another
  declares the pool inactive; the activated worker then fails an assertion.

### Bounds

* Program: `MaxTime` 14, `RunEnd` 9, `Lookahead` 2. Nine instants hold more than four rounds,
  a timer and its supersession, and deliveries on and just above a horizon. The images of the
  workers start late. Two of `OwnedStatic` fail in their first or second round. The third runs for three rounds:
  in the second, two workers send to the same owner, which may not have begun that round and so holds
  one or both batches back, and it takes them in the third. It runs with one kind of fault, which is enough for
  an error while batches are held.
* Workers: three that own their LPs, two that lend them, for three LPs. `OutboxCapacity` 1 fills in one of
  the three images of `OwnedStatic` and not in the others. `Threshold` 1 makes an LP with two events a straggler;
  `ChunkSize` 1 gives more chunks than workers.
* Queues: three packets of two sizes, three flows that share scheduler classes and
  differ in PFC class; DRR quanta of 1 and 2 for frames of 1 and 3 bytes. `MaxSeq` bounds the
  keys of a class order, `MaxDeficit` the deficit, `MaxVirtual` the virtual time, `MaxIdle` the
  time counted while nothing is in service.
* `PfcLink`: one instant of propagation each way and two frame sizes put several frames on
  the wire when XOFF is crossed; XON 0 and XOFF 2 leave a depth between them at which a pause neither starts nor
  ends; two frames that wait upstream (`MaxQueue`) can be of two classes.
* `RoceQueuePair`: three packets, the last one short; `StopTime` 12 leaves room for a timeout, a rewind,
  a late answer and a second loss.
* `TcpFlow`: 13 bytes with segments of 2 give six full segments and a short one, enough to leave
  slow start, recover after three duplicates, and hold two separate
  ranges at the receiver; three losses and two spurious timeouts. The preloaded image has four
  segments in flight before its scheduled one. Its receiver has nothing or one byte, whose ACK ends inside a
  segment, as in `partial_cumulative_ack_retransmits_only_unacknowledged_remainder` (`executor/tests/tcp_semantics.rs`).
* `EcnRamp`: 16-valued words; a ramp to half the packets and a step; no queue holds enough for its depth to leave a word. The proofs cover every
  policy and word size.
* `FrontierHeap`: six slots, the fewest with which the entry that fills a gap may have to move up.
* `LedgerRing`: capacities up to 3 and sequences up to 4, so that the window wraps at every position and the ring is
  full, empty and refused.
* `CapacityRetry`: `usize` has ten values, so that growth saturates; 966 images whose arenas tie in the ways that
  decide which bound has to move. The proof covers every image.
* `CollectiveStages`: three or four hosts; rings of three ranks, two channels, skewed and chained all-to-alls, a pipeline, and rails.
* `WorkerPool`: three workers; buckets of one task overflow a local queue with three; one job fans out over all workers, the
  others panic, time out, lose a message or run twice, with and without a hot worker. `MaxActivations` 1 is one pass of the
  loop that activates hot workers. With two passes the behaviour of `worker_pool_hot` is reached, which has two workers.
* `NexosimTask`: three wakers at a time, which may be cloned again when one is gone, and `MaxWakes` 3 wakes that no poll has
  taken in: one that is taken in and two that come during the poll.
* `NexosimChannel`: two senders of two messages and of one; a new channel for one message, and one for two whose
  positions wrap after one lap. `Word` 32 exceeds what the messages advance, so no position comes back.
* `DcqcnLazy`: alpha in eighths, periods 2, 3 and 2 that meet and part, and time that saturates at 13.

`CHECK_DEADLOCK FALSE` is set where a run ends by design: the executors return, a
flow finishes, a RoCE run reaches its stop time, and the DCQCN clock saturates.

### Fairness

* Executors: `WF(Next)`; a single thread that runs, or some thread that is not blocked. This is less than the
  operating system gives, and it is enough because no thread can spin.
* `WorkerPool` and `NexosimChannel`: weak fairness of every thread, which the operating system schedules; here a worker that
  searches may spin. The timeout of a run is not assumed to expire,
  nor a send, close or drop to happen; a receiver goes on receiving unless it is dropped, as the loop of a model does.
* `NexosimTask`: weak fairness of the steps that are left to whoever has a duty or the Runnable. Its users need do nothing.
* Collective stages: weak fairness of `Next`; an event that is due is dispatched, and a transport delivers.
* Queues, PFC and TCP: weak fairness of the dispatch of due events. The executor always
  takes the least event, and time passes. Arrivals, pauses and losses are not fair.
  `NoStarvation` and `PauseEnds` assume in addition that pauses from outside end;
  `EventuallyFinished` that losses and spurious timeouts are finite.

## 4. Proofs

TLAPS proves the following for every set of LPs, every program and image that meets the
assumptions of `Transitions`, every lookahead, run end and time bound.

* `TransitionsProofs`: keys are totally ordered; the children of one dispatch are distinct.
* `CausalCalendarProofs`: type correctness, `UniqueKeys`, `LocalCausality`, `WithinLookahead`
  and the action property `InKeyOrder`. The inductive invariant adds that every key an LP has
  given out lies below its next sequence number. Without it a new child could repeat a
  pending key. `LocalCausality` needs `WithinLookahead`: an event may be dispatched ahead of earlier
  ones at other LPs, but by less than the lookahead, so their children come after it.
* `SafeHorizonProofs`: type correctness, `HorizonIsSafe`, `FrontierExact`, `PendingKeysExact`,
  and `Refinement`: the round executor implements `CausalCalendar`, so the theorems above hold of
  it. The inductive invariant `IInv` says what the phases of a round may hold, where each event waits, that a
  continuation precedes all that is pending at its LP, that everything pending lies at or
  above the round's frontier and everything in the outbox at or above its horizon, and
  that the index is exact for every LP that is not being drained. `FrontierExact` alone is not inductive:
  it does not hold in the middle of a round.
* `DcqcnEagerProofs`: for every configuration the validator accepts, alpha stays a fraction
  and the rate stays between the derived floor, which is positive, and the maximum.
  The rate can fall below the configured minimum, because an increase truncates each
  half of its average; the floor accounts for one such step.
* `EcnRampProofs`: at every switch queue, for every word size, policy and draw, the ramp marks exactly when
  `draw / Word < Pmax * (depth - kmin) / (kmax - kmin)`, and marking is monotone in depth and draw.
  The core is a lemma on floors: `(d * s) \div w < b` iff `d * s < b * w`.
* `CapacityRetryProofs`, on the lemmas of `CapacityBoundsProofs` (a configuration and its raises) and `CapacityRaiseProofs`
  (the raise after a fault): `RetryIsAlwaysExact`, the property of the run, for every image, configuration, warm start, word
  size and constant of the growth laws. The inductive invariant `RetryInv` says that the configuration of an attempt is
  that of the caller `Raised`: a cap moves only together with the floor, which then hides it. From this
  follows that converged floors replay the plan, although the caps of the attempt are forgotten. It also says that the
  base of a stream, receiver or ledger never moves, since a raise of another arena shares no lane with it; that
  the host faults only before the first plan; and that growth since the last plan is what the last fault named.

Only model-checked: liveness; equality with the recursive serial reference
(`ResultIsSerial`), since it is recursive; the properties of the CPU executors, `ScalarCalendar`, the queues, PFC,
RoCE, TCP, stages, heap, ring, and the pool, tasks and channels of nexosim; the agreement of the two DCQCN machines. In `executors` the theorems on `CausalCalendar` and
`SafeHorizon` appear as the properties of the same name, which apply them to the executor that runs.

## 5. Plan

Done: the executors and their proofs; the mechanisms in the order of the hazards they carry; stages with
their lowering; the containers; the capacity retry with its proof; pool, tasks and channels of nexosim.

Next, in this order:

1. CUBIC and the RTO estimator as operators.
2. The radix sort of exchanged events against the key order.
3. Proofs: `OwnedStatic` (sealed inbox, exact minima, refinement), `SwitchQueue` (class order and round counters),
   `TcpFlow` (ledger and timer), `RoceQueuePair` (sender validity), `ScalarCalendar` (refinement).

## 6. Not modelled

* The egress queue of a host and the open-loop sources: one FIFO in front of one link, without choice.
* The kernels of the device executors, which restate the same transitions on flat buffers, except for the ledger ring:
  a race inside a kernel depends on the memory model of the device and on the launch order, which are not in the repository.
* How the starting capacities of a device are derived from an image: a parameter of `CapacityRetry`.
  Of its growth laws, the one for a ledger fault without a vector of high-water marks, and the saturation of capacities to 32 bits.
* Topology, routing, workload import, and the validation pass: sequential walks over static data. The rules of
  validation are invariants of the models.
* Mechanism traces and metrics, outputs that no transition reads; the residency bookkeeping of the packet store.
* Cycles of PFC pauses. The validator refuses an image whose routes have one (`validate_pfc_deadlock_scope`), a static walk
  like the rest of validation.
* CUBIC, the RTT estimator and the deadlines of TCP timers; the pacing credit of a DCQCN flow without a queue pair.
* Of nexosim: the event and waker types behind the signals, which are crates of their own; the single-threaded executor, ports,
  scheduler queue and server, which run on one thread. The models of the legacy simulator.
* LeanGuard, which checks recorded runs separately.
