----------------------------- MODULE WorkerPool -----------------------------
(***************************************************************************)
(* The multi-threaded executor that runs the models of the legacy          *)
(* simulator (crates/nexosim/src/executor/mt_executor.rs, pool_manager.rs  *)
(* and injector.rs): one main thread that spawns tasks and calls run, and  *)
(* workers that take tasks from a shared injector, from their own queues   *)
(* and from each other, and park when there are none.                      *)
(*                                                                         *)
(* Every atomic operation that two threads can race for is a step of its   *)
(* own.  An activation (the bit, the count of searchers and the unpark) is *)
(* one step: its thread does nothing between them and the worker it        *)
(* activates waits for the last.                                           *)
(*                                                                         *)
(* The is_empty flag of the injector is read with Relaxed ordering, so a   *)
(* thread may read an old value unless the last store happens before its   *)
(* read.  fresh is the set of threads for which it does, and of the        *)
(* channels (a park token, the release sequence of active_workers) that    *)
(* carry it to who acquires them.                                          *)
(***************************************************************************)
EXTENDS Integers, SequencesExt

CONSTANTS
  Size,            \* workers of the pool
  Bucket,          \* BUCKET_SIZE; a local queue holds twice as many
  Jobs,            \* what is spawned and what the tasks do
  MaxActivations   \* bound: rounds of the loop that activates hot workers in one run

ASSUME PoolAssumption ==
  /\ Size \in Nat \ {0} /\ Bucket \in Nat \ {0} /\ MaxActivations \in Nat \ {0}
  /\ \A j \in Jobs : j.hot \in 0 .. Size

Worker == 0 .. Size - 1
Main   == Size
Thread == 0 .. Size

VARIABLES
  job,         \* hot_worker_count, and [spawns, wakes, msgs, bad, timed]
  active,      \* active_workers: the workers whose bit is set
  searching,   \* searching_workers
  injector,    \* Injector::inner: buckets of tasks
  fresh,       \* who sees the last store to Injector::is_empty
  token,       \* by thread: its parker has been unparked
  abort,       \* the abort signal
  panic,       \* worker_panic
  msg_count,   \* ExecutorContext::msg_count
  worker,      \* by worker: step, fast slot, local queue, task, its wakes to come, THREAD_MSG_COUNT
  main,        \* step, runs called and activations of the main thread
  result,      \* of the last run
  ran          \* history: the tasks that were polled to the end

vars == <<job, active, searching, injector, fresh, token, abort, panic,
          msg_count, worker, main, result, ran>>
pool == <<active, searching, token>>

At(t)      == <<"thread", t>>
InToken(t) == <<"token", t>>
InActive   == <<"active", 0>>

\* b sees what a sees.
Sees(F, a, b) == IF a \in F THEN F \cup {b} ELSE F

Goto(w, step) == worker' = [worker EXCEPT ![w].step = step]
MainGoto(step) == main' = [main EXCEPT !.step = step]

(*************************** The injector queue ****************************)

\* What thread t may read from is_empty.
is_empty(t) == IF At(t) \in fresh THEN {injector = <<>>} ELSE BOOLEAN

\* The lock shows its holder every earlier store; the holder stores anew when
\* the queue becomes empty or populated.
Locked(t, before, after) ==
  IF (before = <<>>) # (after = <<>>) THEN {At(t)} ELSE fresh \cup {At(t)}

insert_task(q, task) ==
  IF q = <<>> THEN <<<<task>>>>
  ELSE IF Len(q[1]) < Bucket THEN [q EXCEPT ![1] = Append(@, task)]
  ELSE Append([q EXCEPT ![1] = <<task>>], q[1])

insert_tasks(q, tasks) == FoldLeft(insert_task, q, tasks)

(**************************** The pool manager *****************************)

\* Thread t sets the bit of w, counts it as searching and unparks it.
Activated(t, w) ==
  /\ active' = active \cup {w}
  /\ searching' = searching + 1
  /\ token' = [token EXCEPT ![w] = TRUE]
  /\ fresh' = Sees(fresh, At(t), InToken(w))

HotMask == {w \in Worker : w < job.hot}
Lowest(S) == CHOOSE w \in S : \A v \in S : w <= v

\* activate_all_workers by t, which also unparks the threads in more.
\* A plain store: it ends the release sequence of active_workers.
AllActivated(t, more) ==
  /\ active' = Worker
  /\ token' = [u \in Thread |-> token[u] \/ u \in Worker \cup more]
  /\ fresh' = IF At(t) \in fresh THEN (fresh \ {InActive}) \cup {InToken(u) : u \in Worker \cup more}
              ELSE fresh \ {InActive}
  /\ UNCHANGED searching

(********************************* Workers *********************************)

Idle == [step |-> "count", slot |-> <<>>, queue |-> <<>>, task |-> 0, todo |-> <<>>, msgs |-> 0]

\* Executor::new: every worker starts as active; the main thread waits for them.
Init ==
  /\ job \in Jobs
  /\ active = Worker /\ searching = 0
  /\ injector = <<>> /\ fresh = {At(t) : t \in Thread}
  /\ token = [t \in Thread |-> FALSE]
  /\ abort = FALSE /\ panic = FALSE
  /\ msg_count = 0
  /\ worker = [w \in Worker |-> Idle]
  /\ main = [step |-> "new", runs |-> 0, activations |-> 0]
  /\ result = "none"
  /\ ran = {}

\* Mutant of update_msg_count: the messages are counted by a worker that has left.
CountOnceParked(w) ==
  /\ \/ worker[w].step = "count" /\ Goto(w, "barrier") /\ UNCHANGED msg_count
     \/ /\ worker[w].step = "park" /\ worker[w].msgs # 0
        /\ msg_count' = msg_count + worker[w].msgs
        /\ worker' = [worker EXCEPT ![w].msgs = 0]
  /\ UNCHANGED <<job, injector, fresh, abort, panic, main, result, ran, pool>>

update_msg_count(w) ==
  /\ worker[w].step = "count"
  /\ msg_count' = msg_count + worker[w].msgs
  /\ worker' = [worker EXCEPT ![w].step = "barrier", ![w].msgs = 0]
  /\ UNCHANGED <<job, injector, fresh, abort, panic, main, result, ran, pool>>

\* The update is a Release RMW whatever it finds; the last worker acquires
\* what the others released.
try_set_worker_inactive(w) ==
  /\ worker[w].step = "barrier"
  /\ LET released == Sees(fresh, At(w), InActive)
         last == active = {w}
     IN /\ active' = IF last THEN active ELSE active \ {w}
        /\ fresh' = IF last THEN Sees(released, InActive, At(w)) ELSE released
        /\ Goto(w, CASE w \notin active -> "assert" [] last -> "last" [] OTHER -> "park")
  /\ UNCHANGED <<job, searching, injector, token, abort, panic, msg_count, main, result, ran>>

\* The last active worker looks at the injector once more.
LastWorker(w) ==
  /\ worker[w].step = "last"
  /\ \E empty \in is_empty(w) :
       IF empty THEN Goto(w, "idle") /\ UNCHANGED searching
       ELSE /\ Goto(w, IF abort THEN "gone" ELSE "search")
            /\ searching' = searching + 1
  /\ UNCHANGED <<job, active, injector, fresh, token, abort, panic, msg_count, main, result, ran>>

set_all_workers_inactive(w) ==
  /\ worker[w].step = "idle"
  /\ active' = {}
  /\ fresh' = Sees(fresh \ {InActive}, At(w), InActive)
  /\ Goto(w, "notify")
  /\ UNCHANGED <<job, searching, injector, token, abort, panic, msg_count, main, result, ran>>

UnparkMain(w) ==
  /\ worker[w].step = "notify"
  /\ token' = [token EXCEPT ![Main] = TRUE]
  /\ fresh' = Sees(fresh, At(w), InToken(Main))
  /\ Goto(w, "park")
  /\ UNCHANGED <<job, active, searching, injector, abort, panic, msg_count, main, result, ran>>

\* A parked worker wakes; a hot worker that still lingers also sees the abort
\* signal without being unparked.
Wake(w) ==
  /\ worker[w].step = "park"
  /\ \/ /\ token[w]
        /\ token' = [token EXCEPT ![w] = FALSE]
        /\ fresh' = Sees(fresh, InToken(w), At(w)) \ {InToken(w)}
     \/ /\ w \in HotMask /\ abort
        /\ UNCHANGED <<token, fresh>>
  /\ Goto(w, IF abort THEN "gone" ELSE "search")
  /\ UNCHANGED <<job, active, searching, injector, abort, panic, msg_count, main, result, ran>>

\* pop_bucket and the end of the search.
PopBucket(w) ==
  /\ worker[w].step = "search"
  /\ injector # <<>> /\ FALSE \in is_empty(w)
  /\ injector' = Front(injector)
  /\ fresh' = Locked(w, injector, injector')
  /\ worker' = [worker EXCEPT ![w].step = "work", ![w].queue = @ \o Last(injector)]
  /\ searching' = searching - 1
  /\ UNCHANGED <<job, active, token, abort, panic, msg_count, main, result, ran>>

\* The injector looks empty to w.
Misses(w) == injector = <<>> \/ TRUE \in is_empty(w)

\* steal_and_pop: half of the queue of an active sibling, rounded up.
Steal(w, v) ==
  /\ worker[w].step = "search" /\ Misses(w)
  /\ v \in active \ {w} /\ worker[v].queue # <<>>
  /\ LET q == worker[v].queue
         k == Len(q) - Len(q) \div 2
     IN worker' = [worker EXCEPT
          ![v].queue = SubSeq(q, k + 1, Len(q)),
          ![w].queue = SubSeq(q, 1, k - 1), ![w].slot = Append(@, q[k]),
          ![w].step = "work"]
  /\ searching' = searching - 1
  /\ UNCHANGED <<job, active, injector, fresh, token, abort, panic, msg_count, main, result, ran>>

\* Unsuccessful for too long: siblings without tasks, a steal that another
\* one disturbs, or an old value of active_workers.
GiveUp(w) ==
  /\ worker[w].step = "search" /\ Misses(w)
  /\ searching' = searching - 1
  /\ Goto(w, "count")
  /\ UNCHANGED <<job, active, injector, fresh, token, abort, panic, msg_count, main, result, ran>>

\* The next task from the fast slot or the local queue.
Take(w) ==
  /\ worker[w].step = "work"
  /\ LET s == worker[w]
         taken == IF s.slot # <<>> THEN [s EXCEPT !.slot = <<>>, !.task = s.slot[1]]
                  ELSE [s EXCEPT !.queue = Tail(@), !.task = s.queue[1]]
     IN IF s.slot = <<>> /\ s.queue = <<>>
        THEN Goto(w, "search") /\ searching' = searching + 1
        ELSE /\ worker' = [worker EXCEPT ![w] =
                  IF abort THEN [taken EXCEPT !.step = "gone", !.task = 0]
                  ELSE [taken EXCEPT !.step = "run", !.todo = job.wakes[taken.task]]]
             /\ UNCHANGED searching
  /\ UNCHANGED <<job, active, injector, fresh, token, abort, panic, msg_count, main, result, ran>>

\* schedule_task: a running task wakes another one.
schedule_task(w) ==
  /\ worker[w].step = "run" /\ worker[w].todo # <<>>
  /\ LET s == [worker[w] EXCEPT !.slot = <<Head(worker[w].todo)>>, !.todo = Tail(@)]
         prev == worker[w].slot
         pushed == [s EXCEPT !.step = "pushed"]
     IN \/ /\ prev = <<>>
           /\ worker' = [worker EXCEPT ![w] = s]
           /\ UNCHANGED <<injector, fresh>>
        \/ /\ prev # <<>> /\ Len(s.queue) < 2 * Bucket
           /\ worker' = [worker EXCEPT ![w] = [pushed EXCEPT !.queue = @ \o prev]]
           /\ UNCHANGED <<injector, fresh>>
        \/ /\ prev # <<>> /\ Len(s.queue) = 2 * Bucket
           /\ injector' = Append(injector, SubSeq(s.queue, 1, Bucket))
           /\ worker' = [worker EXCEPT ![w] =
                [pushed EXCEPT !.queue = SubSeq(@, Bucket + 1, 2 * Bucket) \o prev]]
           /\ fresh' = Locked(w, injector, injector')
        \/ /\ prev # <<>> /\ Len(s.queue) = 2 * Bucket       \* a steal is in the way
           /\ \E v \in Worker \ {w} : worker[v].step = "search"
           /\ injector' = insert_task(injector, prev[1])
           /\ worker' = [worker EXCEPT ![w] = pushed]
           /\ fresh' = Locked(w, injector, injector')
  /\ UNCHANGED <<job, abort, panic, msg_count, main, result, ran, pool>>

\* The end of schedule_task: a sibling is activated if nobody searches, a hot
\* one first.  An old value of active_workers may show no idle worker.
ActivateSibling(w) ==
  /\ worker[w].step = "pushed"
  /\ LET idle == Worker \ active
         first == IF idle \cap HotMask # {} THEN idle \cap HotMask ELSE idle
     IN \/ /\ searching = 0 /\ idle # {}
           /\ Activated(w, Lowest(first))
        \/ UNCHANGED <<active, searching, token, fresh>>
  /\ Goto(w, "run")
  /\ UNCHANGED <<job, injector, abort, panic, msg_count, main, result, ran>>

\* The poll of a task returns, or panics.
Polled(w) ==
  /\ worker[w].step = "run" /\ worker[w].todo = <<>>
  /\ LET t == worker[w].task
     IN IF t = job.bad THEN Goto(w, "panic") /\ UNCHANGED ran
        ELSE /\ worker' = [worker EXCEPT ![w].step = "work", ![w].task = 0, ![w].msgs = @ + job.msgs[t]]
             /\ ran' = ran \cup {t}
  /\ UNCHANGED <<job, injector, fresh, abort, panic, msg_count, main, result, pool>>

register_panic(w) ==
  /\ worker[w].step \in {"panic", "assert"}
  /\ panic' = TRUE
  /\ Goto(w, "raise")
  /\ UNCHANGED <<job, injector, fresh, abort, msg_count, main, result, ran, pool>>

RaiseAbort(w) ==
  /\ worker[w].step = "raise"
  /\ abort' = TRUE
  /\ AllActivated(w, {Main})
  /\ Goto(w, "gone")
  /\ UNCHANGED <<job, injector, panic, msg_count, main, result, ran>>

WorkerStep(w) ==
  \/ update_msg_count(w) \/ try_set_worker_inactive(w) \/ LastWorker(w)
  \/ set_all_workers_inactive(w) \/ UnparkMain(w) \/ Wake(w)
  \/ PopBucket(w) \/ (\E v \in Worker : Steal(w, v)) \/ GiveUp(w)
  \/ Take(w) \/ schedule_task(w) \/ ActivateSibling(w) \/ Polled(w)
  \/ register_panic(w) \/ RaiseAbort(w)

(***************************** The main thread *****************************)

\* The end of Executor::new, which asserts that the pool is idle.
Created ==
  /\ main.step = "new" /\ token[Main]
  /\ token' = [token EXCEPT ![Main] = FALSE]
  /\ MainGoto(IF active = {} THEN "ready" ELSE "assert")
  /\ UNCHANGED <<job, active, searching, injector, fresh, abort, panic, msg_count, worker, result, ran>>

Terminated == result \in {"Panic", "Timeout", "UnprocessedMessages"}

\* spawn, spawn_and_forget_batch and the start of run.
Spawn ==
  /\ main.step = "ready" /\ main.runs < Len(job.spawns) /\ ~Terminated
  /\ injector' = insert_tasks(injector, job.spawns[main.runs + 1])
  /\ fresh' = Locked(Main, injector, injector')
  /\ main' = [step |-> "activate", runs |-> main.runs + 1, activations |-> 0]
  /\ result' = "none"
  /\ UNCHANGED <<job, abort, panic, msg_count, worker, ran, pool>>

\* One round of the loop over try_activate_from_mask.
try_activate_from_mask ==
  /\ main.step = "activate"
  /\ main.activations < MaxActivations /\ HotMask \ active # {}
  /\ Activated(Main, Lowest(HotMask \ active))
  /\ main' = [main EXCEPT !.activations = @ + 1]
  /\ UNCHANGED <<job, injector, abort, panic, msg_count, worker, result, ran>>

\* The loop ends; a worker is activated if it has activated none.
activate_worker ==
  /\ main.step = "activate"
  /\ main.activations = MaxActivations \/ HotMask \subseteq active
  /\ IF main.activations > 0 THEN UNCHANGED <<pool, fresh>>
     ELSE IF active # Worker THEN Activated(Main, Lowest(Worker \ active))
     ELSE fresh' = Sees(fresh, At(Main), InActive) /\ UNCHANGED pool
  /\ MainGoto("panic?")
  /\ UNCHANGED <<job, injector, abort, panic, msg_count, worker, result, ran>>

take_panic ==
  /\ main.step = "panic?"
  /\ panic' = FALSE
  /\ IF panic THEN MainGoto("ready") /\ result' = "Panic"
     ELSE MainGoto("idle?") /\ UNCHANGED result
  /\ UNCHANGED <<job, injector, fresh, abort, msg_count, worker, ran, pool>>

\* pool_is_idle, and the message count if it is.  Without a timeout the main
\* thread looks once more before it parks.
pool_is_idle ==
  /\ main.step \in {"idle?", "again?"}
  /\ fresh' = Sees(fresh, InActive, At(Main))
  /\ CASE active # {} -> /\ MainGoto(IF job.timed \/ main.step = "again?" THEN "park" ELSE "again?")
                         /\ UNCHANGED result
       [] active = {} /\ main.step = "again?" -> MainGoto("panic?") /\ UNCHANGED result
       [] OTHER -> /\ MainGoto("ready")
                   /\ result' = IF msg_count # 0 THEN "UnprocessedMessages" ELSE "Ok"
  /\ UNCHANGED <<job, injector, abort, panic, msg_count, worker, ran, pool>>

MainWakes ==
  /\ main.step = "park" /\ token[Main]
  /\ token' = [token EXCEPT ![Main] = FALSE]
  /\ fresh' = Sees(fresh, InToken(Main), At(Main)) \ {InToken(Main)}
  /\ MainGoto("panic?")
  /\ UNCHANGED <<job, active, searching, injector, abort, panic, msg_count, worker, result, ran>>

TimesOut ==
  /\ main.step = "park" /\ job.timed /\ ~token[Main]
  /\ abort' = TRUE
  /\ AllActivated(Main, {})
  /\ MainGoto("ready") /\ result' = "Timeout"
  /\ UNCHANGED <<job, injector, panic, msg_count, worker, ran>>

\* Drop for Executor.
Drop ==
  /\ main.step = "ready" /\ (Terminated \/ main.runs = Len(job.spawns))
  /\ abort' = TRUE
  /\ AllActivated(Main, {})
  /\ MainGoto("join")
  /\ UNCHANGED <<job, injector, panic, msg_count, worker, result, ran>>

Join ==
  /\ main.step = "join" /\ \A w \in Worker : worker[w].step = "gone"
  /\ MainGoto("joined")
  /\ UNCHANGED <<job, injector, fresh, abort, panic, msg_count, worker, result, ran, pool>>

MainStep ==
  \/ Created \/ Spawn \/ try_activate_from_mask \/ activate_worker
  \/ take_panic \/ pool_is_idle \/ MainWakes \/ Drop \/ Join

Next == MainStep \/ TimesOut \/ \E w \in Worker : WorkerStep(w)

\* The operating system schedules every thread.  The timeout of run is not
\* assumed to expire.
Spec ==
  /\ Init /\ [][Next]_vars
  /\ WF_vars(MainStep)
  /\ \A w \in Worker : WF_vars(WorkerStep(w))

-----------------------------------------------------------------------------
(******************************* Properties ********************************)

TypeOK ==
  /\ active \subseteq Worker
  /\ searching \in Nat
  /\ token \in [Thread -> BOOLEAN]
  /\ result \in {"none", "Ok", "Panic", "Timeout", "UnprocessedMessages"}

Tasks(w) == Range(worker[w].slot) \cup Range(worker[w].queue)
              \cup (IF worker[w].step \in {"run", "pushed", "panic"} THEN {worker[w].task} ELSE {})

Due == FoldLeft(LAMBDA S, b : S \cup Range(b), {}, injector) \cup UNION {Tasks(w) : w \in Worker}

\* A run that returns Ok has left no task behind, queued or running, has
\* counted the messages of every task that ran, and reports unprocessed
\* messages exactly when there are some.  No assertion of the pool fails:
\* the bit of a worker is set when the worker clears it, and the pool is idle
\* when Executor::new returns.
ResultIsExact ==
  /\ \A w \in Worker : worker[w].step # "assert"
  /\ main.step # "assert"
  /\ (main.step = "ready" /\ result \in {"Ok", "UnprocessedMessages"}) =>
       LET sum == FoldSet(LAMBDA t, n : n + job.msgs[t], 0, ran)
       IN Due = {} /\ msg_count = sum /\ (result = "Ok" <=> sum = 0)

\* The bits and the count that activation decides by are exact while nothing
\* aborts: a worker is active if and only if it is at work or is unparked, and
\* the count is that of the workers that search or are about to.
PoolIsExact ==
  LET asleep(w) == worker[w].step \in {"notify", "park"}
  IN (~abort /\ \A w \in Worker : worker[w].step # "raise") =>
       /\ active = {w \in Worker : asleep(w) => token[w]}
       /\ searching = Cardinality({w \in Worker : worker[w].step = "search" \/ (asleep(w) /\ token[w])})

\* "This should only be called by the last active worker"
\* (pool_manager.rs, set_all_workers_inactive).
LastActiveWorkerOnly ==
  \A w \in Worker : worker[w].step = "idle" /\ ~abort => active = {w}
=============================================================================
