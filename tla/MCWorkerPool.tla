---------------------------- MODULE MCWorkerPool ----------------------------
EXTENDS WorkerPool

T == 1 .. 6
Job(hot, spawns, wakes, msgs, bad, timed) ==
  [hot |-> hot, spawns |-> spawns, bad |-> bad, timed |-> timed,
   wakes |-> [t \in T |-> IF t \in DOMAIN wakes THEN wakes[t] ELSE <<>>],
   msgs |-> [t \in T |-> IF t \in DOMAIN msgs THEN msgs[t] ELSE 0]]

\* One task wakes four: the fast slot, a full local queue and an overflow.
Fan(hot) == Job(hot, <<<<1>>>>, <<<<2, 3, 4, 5>>>>, <<>>, 0, FALSE)
\* Two runs, with a message in the first; the second spawns more than a bucket holds.
Twice(hot) == Job(hot, <<<<1>>, <<4, 5>>>>, <<<<2, 3>>>>, <<1, -1>>, 0, FALSE)
\* A message nobody receives ends the simulation: there is no second run.
Lost(hot) == Job(hot, <<<<1>>, <<3>>>>, <<<<2>>>>, <<1>>, 0, FALSE)
\* The first or the second of three tasks panics, or the run times out.
Panics(hot, bad) == Job(hot, <<<<1>>>>, <<<<2, 3>>>>, <<>>, bad, FALSE)
Times(hot) == Job(hot, <<<<1>>>>, <<<<2, 3>>>>, <<>>, 0, TRUE)

Small(hot) == {Twice(hot), Lost(hot), Panics(hot, 1), Panics(hot, 2), Times(hot)}

MCJobs == {Fan(0)} \cup Small(0) \cup Small(1)

\* The default: one hot worker.
HotJobs == Small(1)
=============================================================================
