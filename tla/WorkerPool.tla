----------------------------- MODULE WorkerPool -----------------------------
(***************************************************************************)
(* rhizome-runtime/src/tokio.rs: the threads that run the reactors' sink    *)
(* and stream tasks.  A spawner reads the workers' task counts one by one,  *)
(* without a lock, picks the least, and only then adds its own task to it.  *)
(***************************************************************************)
EXTENDS Integers, Sequences, FiniteSets

CONSTANTS
  N,         \* number of workers
  Spawners,  \* threads that call spawn_pinned (reactors share the default pool)
  Pinned,    \* the tasks they spawn
  Nested     \* the tasks that running tasks spawn on their own worker

ASSUME NAssumption == N \in Nat \ {0}

ASSUME SpawnersAssumption == IsFiniteSet(Spawners)

Workers == 1..N
Tasks == Pinned \cup Nested

VARIABLES
  count,    \* worker -> its task_count
  spawner,  \* spawner -> where it is in spawn_pinned
  unborn,   \* the tasks that nobody spawned yet
  queue,    \* worker -> the jobs sent to its thread
  running,  \* worker -> the tasks on its LocalSet
  visited,  \* the workers on whose runtime a task has run
  done      \* the tasks that finished

vars == <<count, spawner, unborn, queue, running, visited, done>>

Idle == [at |-> "idle"]

Init ==
  /\ count = [w \in Workers |-> 0]
  /\ spawner = [s \in Spawners |-> Idle]
  /\ unborn = Tasks
  /\ queue = [w \in Workers |-> <<>>]
  /\ running = [w \in Workers |-> {}]
  /\ visited = {}
  /\ done = {}

-----------------------------------------------------------------------------
(* Runtime::spawn_pinned.                                                   *)

\* find_least_busy_local_worker starts with the first worker.
Begin(s, t) ==
  /\ spawner[s].at = "idle"
  /\ t \in unborn \cap Pinned
  /\ unborn' = unborn \ {t}
  /\ spawner' = [spawner EXCEPT ![s] =
                   [at |-> "scan", task |-> t, next |-> 2, best |-> 1, least |-> count[1]]]
  /\ UNCHANGED <<count, queue, running, visited, done>>

\* Mutant of LessBusy.
MoreBusy(mine, least) == mine > least

LessBusy(mine, least) == mine < least

Found(s) == spawner[s].least = 0 \/ spawner[s].next > N

\* The other workers, until one has no task.
Scan(s) ==
  /\ spawner[s].at = "scan"
  /\ ~ Found(s)
  /\ LET w == spawner[s].next
     IN  spawner' = [spawner EXCEPT ![s] =
           IF LessBusy(count[w], @.least)
           THEN [@ EXCEPT !.next = w + 1, !.best = w, !.least = count[w]]
           ELSE [@ EXCEPT !.next = w + 1]]
  /\ UNCHANGED <<count, unborn, queue, running, visited, done>>

\* LocalJobCountGuard::new.
Enroll(s) ==
  /\ spawner[s].at = "scan"
  /\ Found(s)
  /\ count' = [count EXCEPT ![spawner[s].best] = @ + 1]
  /\ spawner' = [spawner EXCEPT ![s].at = "post"]
  /\ UNCHANGED <<unborn, queue, running, visited, done>>

\* The job goes to the worker's thread, with the guard in it.
Post(s) ==
  /\ spawner[s].at = "post"
  /\ queue' = [queue EXCEPT ![spawner[s].best] = Append(@, spawner[s].task)]
  /\ spawner' = [spawner EXCEPT ![s] = Idle]
  /\ UNCHANGED <<count, unborn, running, visited, done>>

-----------------------------------------------------------------------------
(* A worker's thread.                                                       *)

\* Mutant of Start: the thread awaits each job.
StartAlone(w) ==
  /\ queue[w] # <<>> /\ running[w] = {}
  /\ running' = [running EXCEPT ![w] = {Head(queue[w])}]
  /\ queue' = [queue EXCEPT ![w] = Tail(@)]
  /\ visited' = visited \cup {w}
  /\ UNCHANGED <<count, spawner, unborn, done>>

\* The receiving loop puts the next job on the LocalSet, beside what runs there.
Start(w) ==
  /\ queue[w] # <<>>
  /\ running' = [running EXCEPT ![w] = @ \cup {Head(queue[w])}]
  /\ queue' = [queue EXCEPT ![w] = Tail(@)]
  /\ visited' = visited \cup {w}
  /\ UNCHANGED <<count, spawner, unborn, done>>

\* LocalHandle::spawn_local on the worker's thread, called by one of its tasks or
\* by a task that one of them gave to tokio::task::spawn: nobody counts the
\* latter, and it may outlive the task that made it.
SpawnLocal(w, t) ==
  /\ w \in visited
  /\ t \in unborn \cap Nested
  /\ unborn' = unborn \ {t}
  /\ count' = [count EXCEPT ![w] = @ + 1]
  /\ running' = [running EXCEPT ![w] = @ \cup {t}]
  /\ UNCHANGED <<spawner, queue, visited, done>>

\* Mutant of Finish: the guard stays with the closure that made the task.
FinishUncounted(w, t) ==
  /\ t \in running[w]
  /\ running' = [running EXCEPT ![w] = @ \ {t}]
  /\ done' = done \cup {t}
  /\ UNCHANGED <<count, spawner, unborn, queue, visited>>

\* The task returns or panics, which drops its guard.
Finish(w, t) ==
  /\ t \in running[w]
  /\ running' = [running EXCEPT ![w] = @ \ {t}]
  /\ done' = done \cup {t}
  /\ count' = [count EXCEPT ![w] = @ - 1]
  /\ UNCHANGED <<spawner, unborn, queue, visited>>

Next ==
  \/ \E s \in Spawners : (\E t \in Pinned : Begin(s, t)) \/ Scan(s) \/ Enroll(s) \/ Post(s)
  \/ \E w \in Workers : \/ Start(w)
                        \/ \E t \in Nested : SpawnLocal(w, t)
                        \/ \E t \in Tasks : Finish(w, t)

\* Spawners and workers are threads of the system; a task need never finish.
Fairness ==
  /\ \A s \in Spawners : WF_vars(Scan(s) \/ Enroll(s) \/ Post(s))
  /\ \A w \in Workers : WF_vars(Start(w))

Spec == Init /\ [][Next]_vars /\ Fairness

-----------------------------------------------------------------------------
\* The spawners that counted their task for w and have not sent it yet.
Enrolled(w) == {s \in Spawners : spawner[s].at = "post" /\ spawner[s].best = w}

\* A worker's count is the number of tasks that it has, sent to it, or about
\* to be: however spawns and ends interleave, none is counted twice or for ever.
CountsAreTasks ==
  \A w \in Workers :
    count[w] = Cardinality(running[w]) + Len(queue[w]) + Cardinality(Enrolled(w))

\* Until tasks finish or spawn others, they are spread evenly although the counts
\* are read without a lock: each spawner's stale choice puts a worker ahead by one.
Balanced ==
  done = {} /\ Nested \subseteq unborn =>
    \A v, w \in Workers : count[v] - count[w] <= Cardinality(Spawners)

\* A task that was spawned is started, even if its worker has tasks that never
\* finish (a sink's task ends only with its reactor).
EveryTaskRuns ==
  \A t \in Pinned : t \notin unborn ~> t \in done \cup UNION {running[w] : w \in Workers}
=============================================================================
