---------------------------- MODULE NexosimTask ----------------------------
(***************************************************************************)
(* One task of the nexosim executors (crates/nexosim/src/executor/task.rs  *)
(* and task/): a future or its output, in memory that is shared by a       *)
(* Promise, a CancelToken, the Wakers and at most one Runnable.  One       *)
(* atomic word decides who polls the future, who drops it, and who frees   *)
(* the memory; there is no lock.                                           *)
(*                                                                         *)
(* An operation is its atomic read-modify-write, which may leave the       *)
(* handle with duties: what it still has to do to the task, one step each. *)
(* A load that returns an old value is a load that happened earlier, and   *)
(* the only plain load, at the start of run, is a step of its own.         *)
(***************************************************************************)
EXTENDS Integers, FiniteSets, Sequences

CONSTANTS
  Waker,       \* names for the wakers that exist at a time
  MaxWakes     \* bound: wakes of a task that no poll has taken in

ASSUME TaskAssumption ==
  /\ Waker \cap {"promise", "token", "runnable"} = {}
  /\ MaxWakes \in Nat

Handle == Waker \cup {"promise", "token", "runnable"}

VARIABLES
  state,       \* the atomic word: POLLING, CLOSED, REF_COUNT and WAKE_COUNT
  core,        \* what the task holds: "future", "output" or "nothing"
  allocated,   \* the memory has not been freed
  held,        \* the promise, token and wakers in somebody's hands
  inner,       \* wakers that the future has stored in itself
  runnable,    \* where the Runnable is, if there is one
  wake_count,  \* in run: the wakes that this poll takes in
  closing,     \* in run: CLOSED, as last read
  duties,      \* by handle, what it still has to do
  unserved     \* history: wakes since the future was last polled with them visible

taskVars == <<state, core, allocated, held, inner, runnable, wake_count, closing, duties,
              unserved>>

runnable_exists(s) == s.polling /\ (s.wakes # 0 \/ s.closed)

\* What is left to the handle that gives up the last reference.
Deallocation(s) ==
  CASE s.polling                -> <<"drop_future", "dealloc">>
    [] ~s.polling /\ ~s.closed  -> <<"drop_output", "dealloc">>
    [] OTHER                    -> <<"dealloc">>

\* drop_waker, Promise::drop, CancelToken::drop: s is the word before the decrement.
Released(s) == IF s.refs = 1 /\ ~runnable_exists(s) THEN Deallocation(s) ELSE <<>>

Unreferenced(s) == [s EXCEPT !.refs = @ - 1]

NoDuty(h) == duties[h] = <<>>

Owes(h, list) == duties' = [duties EXCEPT ![h] = list]

-----------------------------------------------------------------------------
\* spawn and spawn_and_forget.
TaskInit ==
  /\ held \in {{"promise", "token"}, {"token"}}
  /\ state = [polling |-> TRUE, closed |-> FALSE, refs |-> Cardinality(held), wakes |-> 1]
  /\ core = "future"
  /\ allocated = TRUE
  /\ inner = {}
  /\ runnable = "scheduled"
  /\ wake_count = 0
  /\ closing = FALSE
  /\ duties = [h \in Handle |-> <<>>]
  /\ unserved = 1

-----------------------------------------------------------------------------
\* Wakers.

\* Task::wake: the waker that finds the wake count at 0 schedules a Runnable.
Schedules(s) == s.wakes = 0 /\ ~s.closed /\ s.polling

wake_by_val(w) ==
  /\ w \in held /\ NoDuty(w)
  /\ state.wakes < MaxWakes
  /\ state' = [Unreferenced(state) EXCEPT !.wakes = @ + 1]
  /\ held' = held \ {w}
  /\ Owes(w, IF Schedules(state) THEN <<"schedule">>
             ELSE IF state.refs = 1 /\ ~state.polling THEN Deallocation(state)
             ELSE <<>>)
  /\ unserved' = unserved + 1
  /\ UNCHANGED <<core, allocated, inner, runnable, wake_count, closing>>

wake_by_ref(w) ==
  /\ w \in held /\ NoDuty(w)
  /\ state.wakes < MaxWakes
  /\ state' = [state EXCEPT !.wakes = @ + 1]
  /\ Owes(w, IF Schedules(state) THEN <<"schedule">> ELSE <<>>)
  /\ unserved' = unserved + 1
  /\ UNCHANGED <<core, allocated, held, inner, runnable, wake_count, closing>>

clone_waker(w, v) ==
  /\ w \in held /\ NoDuty(w)
  /\ v \notin held \cup inner /\ NoDuty(v)
  /\ state' = [state EXCEPT !.refs = @ + 1]
  /\ held' = held \cup {v}
  /\ UNCHANGED <<core, allocated, inner, runnable, wake_count, closing, duties, unserved>>

drop_waker(w) ==
  /\ w \in held /\ NoDuty(w)
  /\ state' = Unreferenced(state)
  /\ held' = held \ {w}
  /\ Owes(w, Released(state))
  /\ UNCHANGED <<core, allocated, inner, runnable, wake_count, closing, unserved>>

-----------------------------------------------------------------------------
\* The promise and the cancel token.

\* Promise::poll, when it is Ready: the output is taken by the one who sets CLOSED on a
\* completed task.  A promise that is Pending or Cancelled changes nothing.
promise_poll ==
  /\ "promise" \in held /\ NoDuty("promise")
  /\ ~state.polling /\ ~state.closed
  /\ state' = [state EXCEPT !.closed = TRUE]
  /\ Owes("promise", <<"take_output">>)
  /\ UNCHANGED <<core, allocated, held, inner, runnable, wake_count, closing, unserved>>

drop_handle(h) ==
  /\ h \in held \cap {"promise", "token"} /\ NoDuty(h)
  /\ state' = Unreferenced(state)
  /\ held' = held \ {h}
  /\ Owes(h, Released(state))
  /\ UNCHANGED <<core, allocated, inner, runnable, wake_count, closing, unserved>>

\* Mutant: the token gives up its reference before it drops the future.
CancellationReleasing(s) ==
  CASE ~s.polling         -> [word |-> Unreferenced(s),
                              list |-> IF s.refs = 1 THEN Deallocation(s) ELSE <<>>]
    [] runnable_exists(s) -> [word |-> [Unreferenced(s) EXCEPT !.closed = TRUE], list |-> <<>>]
    [] OTHER              -> [word |-> [Unreferenced(s) EXCEPT !.closed = TRUE, !.polling = FALSE],
                              list |-> IF s.refs = 1 THEN <<"drop_future", "dealloc">>
                                       ELSE <<"drop_future">>]

\* CancelToken::cancel.  A future that nobody is about to poll is dropped by the token,
\* which keeps its reference until it is done; otherwise the Runnable will drop it.
Cancellation(s) ==
  CASE ~s.polling         -> [word |-> Unreferenced(s),
                              list |-> IF s.refs = 1 THEN Deallocation(s) ELSE <<>>]
    [] runnable_exists(s) -> [word |-> [Unreferenced(s) EXCEPT !.closed = TRUE], list |-> <<>>]
    [] OTHER              -> [word |-> [s EXCEPT !.closed = TRUE, !.polling = FALSE],
                              list |-> <<"drop_future", "release">>]

cancel ==
  /\ "token" \in held /\ NoDuty("token")
  /\ state' = Cancellation(state).word
  /\ held' = held \ {"token"}
  /\ Owes("token", Cancellation(state).list)
  /\ UNCHANGED <<core, allocated, inner, runnable, wake_count, closing, unserved>>

-----------------------------------------------------------------------------
\* The Runnable.

\* runnable.rs, cancel: drop the future, then enter the Closed phase.
CancelDuties == <<"drop_future", "close">>

\* The executor drops the Runnable instead of running it.
drop_runnable ==
  /\ runnable = "scheduled"
  /\ runnable' = "done"
  /\ Owes("runnable", CancelDuties)
  /\ UNCHANGED <<state, core, allocated, held, inner, wake_count, closing, unserved>>

\* run: the load on entry.  All that was woken before is visible to the poll.
run_load ==
  /\ runnable = "scheduled"
  /\ runnable' = "loaded"
  /\ wake_count' = state.wakes
  /\ closing' = state.closed
  /\ unserved' = 0
  /\ UNCHANGED <<state, core, allocated, held, inner, duties>>

\* The head of the loop.
run_enter ==
  /\ runnable = "loaded"
  /\ IF closing THEN runnable' = "done" /\ Owes("runnable", CancelDuties)
     ELSE runnable' = "polling" /\ UNCHANGED duties
  /\ UNCHANGED <<state, core, allocated, held, inner, wake_count, closing, unserved>>

Polling == runnable = "polling" /\ NoDuty("runnable")

\* The future clones the waker of its context and passes it on or stores it,
poll_clones(v) ==
  /\ Polling
  /\ v \notin held \cup inner /\ NoDuty(v)
  /\ state' = [state EXCEPT !.refs = @ + 1]
  /\ \/ held' = held \cup {v} /\ UNCHANGED inner
     \/ inner' = inner \cup {v} /\ UNCHANGED held
  /\ UNCHANGED <<core, allocated, runnable, wake_count, closing, duties, unserved>>

\* wakes itself,
poll_wakes ==
  /\ Polling
  /\ state.wakes < MaxWakes
  /\ state' = [state EXCEPT !.wakes = @ + 1]
  /\ Owes("runnable", IF Schedules(state) THEN <<"schedule">> ELSE <<>>)
  /\ unserved' = unserved + 1
  /\ UNCHANGED <<core, allocated, held, inner, runnable, wake_count, closing>>

\* or drops a waker it had stored.
poll_drops(w) ==
  /\ Polling
  /\ w \in inner
  /\ inner' = inner \ {w}
  /\ state' = Unreferenced(state)
  /\ Owes("runnable", Released(state))
  /\ UNCHANGED <<core, allocated, held, runnable, wake_count, closing, unserved>>

\* Poll::Pending: only the wakes that the poll has taken in are cleared.  If others came,
\* or the task was cancelled, the loop goes on.
poll_pending ==
  /\ Polling
  /\ state' = [state EXCEPT !.wakes = @ - wake_count]
  /\ closing' = state.closed
  /\ wake_count' = state.wakes - wake_count
  /\ IF wake_count' = 0 /\ ~state.closed
     THEN /\ runnable' = "none"
          /\ Owes("runnable", IF state.refs = 0 THEN <<"drop_future", "dealloc">> ELSE <<>>)
          /\ UNCHANGED unserved
     ELSE runnable' = "loaded" /\ unserved' = 0 /\ UNCHANGED duties
  /\ UNCHANGED <<core, allocated, held, inner>>

\* Poll::Ready; or the future panics, or does so when it is dropped after it was ready, in
\* which case its output never reaches the task.
poll_ready ==
  /\ Polling
  /\ runnable' = "done"
  /\ \/ Owes("runnable", <<"drop_future", "publish", "complete">>)
     \/ Owes("runnable", <<"drop_future", "close">>)
  /\ UNCHANGED <<state, core, allocated, held, inner, wake_count, closing, unserved>>

-----------------------------------------------------------------------------
\* Duties.  A future that is dropped drops the wakers it has stored first.

Duty(h, kind) == duties[h] # <<>> /\ Head(duties[h]) = kind

Done(h) == Owes(h, Tail(duties[h]))

\* The waker hands the Runnable to the executor.
schedule(h) ==
  /\ Duty(h, "schedule")
  /\ runnable' = "scheduled"
  /\ Done(h)
  /\ UNCHANGED <<state, core, allocated, held, inner, wake_count, closing, unserved>>

drop_inner(h) ==
  /\ Duty(h, "drop_future")
  /\ \E w \in inner : inner' = inner \ {w}
  /\ state' = Unreferenced(state)
  /\ Owes(h, Released(state) \o duties[h])
  /\ UNCHANGED <<core, allocated, held, runnable, wake_count, closing, unserved>>

drop_core(h) ==
  /\ \/ Duty(h, "drop_future") /\ inner = {}
     \/ Duty(h, "drop_output")
     \/ Duty(h, "take_output")
  /\ core' = "nothing"
  /\ Done(h)
  /\ UNCHANGED <<state, allocated, held, inner, runnable, wake_count, closing, unserved>>

publish ==
  /\ Duty("runnable", "publish")
  /\ core' = "output"
  /\ Done("runnable")
  /\ UNCHANGED <<state, allocated, held, inner, runnable, wake_count, closing, unserved>>

\* The output stays with the task unless nobody can take it.  Its drop may panic as well.
complete ==
  /\ Duty("runnable", "complete")
  /\ IF state.closed \/ state.refs = 0
     THEN /\ \E last \in {"clear", "close"} : Owes("runnable", <<"drop_output", last>>)
          /\ UNCHANGED <<state, runnable>>
     ELSE /\ state' = [state EXCEPT !.polling = FALSE]
          /\ runnable' = "none"
          /\ Done("runnable")
  /\ UNCHANGED <<core, allocated, held, inner, wake_count, closing, unserved>>

\* The Closed phase is entered, by fetch_and after an output, by fetch_update after a future.
close ==
  /\ Duty("runnable", "clear") \/ Duty("runnable", "close")
  /\ state' = [state EXCEPT !.polling = FALSE, !.closed = @ \/ Duty("runnable", "close")]
  /\ runnable' = "none"
  /\ Owes("runnable", IF state.refs = 0 THEN <<"dealloc">> ELSE <<>>)
  /\ UNCHANGED <<core, allocated, held, inner, wake_count, closing, unserved>>

\* CancelToken::cancel, once the future is dropped.
release ==
  /\ Duty("token", "release")
  /\ state' = Unreferenced(state)
  /\ Owes("token", IF state.refs = 1 THEN <<"dealloc">> ELSE <<>>)
  /\ UNCHANGED <<core, allocated, held, inner, runnable, wake_count, closing, unserved>>

dealloc(h) ==
  /\ Duty(h, "dealloc")
  /\ allocated' = FALSE
  /\ Done(h)
  /\ UNCHANGED <<state, core, held, inner, runnable, wake_count, closing, unserved>>

-----------------------------------------------------------------------------

\* What the threads that run the task do, once it is theirs to do.
Work ==
  \/ run_load \/ run_enter
  \/ poll_pending \/ poll_ready
  \/ publish \/ complete \/ close \/ release
  \/ \E h \in Handle : schedule(h) \/ drop_inner(h) \/ drop_core(h) \/ dealloc(h)

\* What its users and its future may do.
Use ==
  \/ drop_runnable \/ promise_poll \/ cancel \/ poll_wakes
  \/ \E h \in {"promise", "token"} : drop_handle(h)
  \/ \E w \in Waker : wake_by_val(w) \/ wake_by_ref(w) \/ drop_waker(w) \/ poll_clones(w) \/ poll_drops(w)
  \/ \E w, v \in Waker : clone_waker(w, v)

TaskNext == Work \/ Use

TaskSpec == TaskInit /\ [][TaskNext]_taskVars /\ WF_taskVars(Work)

-----------------------------------------------------------------------------

\* Who touches the future or its output next.
UsesCore(h) ==
  \/ \E kind \in {"drop_future", "drop_output", "take_output", "publish"} : Duty(h, kind)
  \/ h = "runnable" /\ runnable = "polling"

\* The task goes through its memory without a lock, and yet: the future or output is used
\* by one thread at a time, by one that finds what it expects, and is dropped once; a
\* second Runnable is never made; the memory is freed by the last who knows of it, and
\* then nobody has anything left to do with it (task.rs, the table of phases; runnable.rs,
\* the safety conditions of new_unchecked).
TaskIsSafe ==
  /\ \A h, g \in Handle : UsesCore(h) /\ UsesCore(g) => h = g
  /\ \A h, g \in Handle : Duty(h, "schedule") /\ Duty(g, "schedule") => h = g
  /\ \A h \in Handle :
       /\ (Duty(h, "drop_future") => core = "future")
       /\ (Duty(h, "drop_output") \/ Duty(h, "take_output") => core = "output")
       /\ (Duty(h, "publish") \/ Duty(h, "dealloc") => core = "nothing")
       /\ (Duty(h, "schedule") => runnable = "none")
  /\ runnable = "polling" => core = "future"
  /\ allocated <=> \/ held \cup inner # {}
                    \/ runnable # "none"
                    \/ \E h \in Handle : ~NoDuty(h)
  /\ runnable_exists(state) <=> runnable # "none" \/ \E h \in Handle : Duty(h, "schedule")
  /\ state.refs = Cardinality(held \cup inner)
                    + (IF \E i \in 1 .. Len(duties["token"]) : duties["token"][i] = "release"
                       THEN 1 ELSE 0)

\* No wake waits: the future of a task that was woken has been polled since, by a poll that
\* sees what happened before the wake, or the task is closed or done (runnable.rs, run).
WakesServed == unserved = 0 \/ ~state.polling
=============================================================================
