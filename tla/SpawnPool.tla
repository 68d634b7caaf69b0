----------------------------- MODULE SpawnPool -----------------------------
(***************************************************************************)
(* The bounded pool behind spawn (runtime/future.rs): mimi_spawn_future,   *)
(* worker_loop, ensure_spawn_pool and the atexit handler that joins every  *)
(* thread.  A spawn from outside the pool queues a job; a spawn from a     *)
(* task that runs in the pool starts a dedicated thread, because the task  *)
(* may block in await and the pool is bounded.                             *)
(*                                                                         *)
(* A task spawns its children, awaits those of Awaits and completes; the   *)
(* main thread spawns the roots, awaits MainAwaits and exits.  A spawned   *)
(* future need not be awaited.  Reference counts are in module Future.     *)
(***************************************************************************)
EXTENDS Integers, Sequences

CONSTANTS
  Task, Worker,
  NoTask,      \* no task, for a worker or a join handle being pushed
  Gone,        \* a worker whose worker_loop returned
  Root,        \* the tasks main spawns
  Kids,        \* Kids[t]: the tasks that t spawns
  Awaits,      \* Awaits[t]: those of them that t awaits
  MainAwaits   \* the roots that main awaits

ASSUME PoolAssumption ==
  /\ Root \subseteq Task /\ MainAwaits \subseteq Root
  /\ Kids \in [Task -> SUBSET (Task \ Root)]
  /\ Awaits \in [Task -> SUBSET Task]
  /\ \A t \in Task : Awaits[t] \subseteq Kids[t]
  /\ \A S \in (SUBSET Task) \ {{}} :       \* no task is its own ancestor
       \E c \in S : \A t \in S : c \notin Kids[t]
  /\ Worker # {}                         \* spawn_worker_count is 2 to 8
  /\ NoTask \notin Task /\ Gone \notin Task \cup {NoTask}

VARIABLES
  sender,     \* SpawnPool.sender: "none" before the first spawn, "open", "closed"
  queue,      \* jobs in the channel
  job,        \* what each worker polls
  dedicated,  \* tasks whose dedicated thread runs
  handles,    \* SPAWN_HANDLES
  state,      \* "new", "queued", "running", "done" (future completed)
  todo,       \* children a task has yet to spawn
  pushing,    \* the child whose join handle the task is about to push
  awaiting,   \* children a task has yet to await
  main        \* "run", "join_pool", "join_handles", "exited"

vars == <<sender, queue, job, dedicated, handles, state, todo, pushing, awaiting, main>>

Init ==
  /\ sender = "none"
  /\ queue = << >>
  /\ job = [w \in Worker |-> NoTask]
  /\ dedicated = {}
  /\ handles = {}
  /\ state = [t \in Task |-> "new"]
  /\ todo = Kids
  /\ pushing = [t \in Task |-> NoTask]
  /\ awaiting = Awaits
  /\ main = "run"

----------------------------------------------------------------------------
(* The main thread *)

\* mimi_spawn_future outside the pool, with ensure_spawn_pool.
MainSpawn(t) ==
  /\ main = "run"
  /\ state[t] = "new"
  /\ sender' = "open"
  /\ queue' = Append(queue, t)
  /\ state' = [state EXCEPT ![t] = "queued"]
  /\ UNCHANGED <<job, dedicated, handles, todo, pushing, awaiting, main>>

\* Mutant: the handler joins the workers with the sender still open.
MainExitKeepsSender ==
  /\ main = "run"
  /\ \A t \in Root : state[t] # "new"
  /\ \A t \in MainAwaits : state[t] = "done"
  /\ main' = "join_pool"
  /\ UNCHANGED <<sender, queue, job, dedicated, handles, state, todo, pushing, awaiting>>

\* main returns and the atexit handler takes the sender.
MainExit ==
  /\ main = "run"
  /\ \A t \in Root : state[t] # "new"
  /\ \A t \in MainAwaits : state[t] = "done"
  /\ sender' = "closed"
  /\ main' = "join_pool"
  /\ UNCHANGED <<queue, job, dedicated, handles, state, todo, pushing, awaiting>>

\* Mutant: only the pool's own threads are joined.
JoinPoolOnly ==
  /\ main = "join_pool"
  /\ \A w \in Worker : job[w] = Gone
  /\ main' = "exited"
  /\ UNCHANGED <<sender, queue, job, dedicated, handles, state, todo, pushing, awaiting>>

\* Every worker was joined; the handler locks SPAWN_HANDLES.
JoinPool ==
  /\ main = "join_pool"
  /\ \A w \in Worker : job[w] = Gone
  /\ main' = "join_handles"
  /\ UNCHANGED <<sender, queue, job, dedicated, handles, state, todo, pushing, awaiting>>

\* Every dedicated thread on the list was joined, under that lock.
JoinHandles ==
  /\ main = "join_handles"
  /\ handles \cap dedicated = {}
  /\ handles' = {}
  /\ main' = "exited"
  /\ UNCHANGED <<sender, queue, job, dedicated, state, todo, pushing, awaiting>>

----------------------------------------------------------------------------
(* worker_loop *)

Take(w) ==
  /\ job[w] = NoTask
  /\ queue # << >>
  /\ job' = [job EXCEPT ![w] = Head(queue)]
  /\ state' = [state EXCEPT ![Head(queue)] = "running"]
  /\ queue' = Tail(queue)
  /\ UNCHANGED <<sender, dedicated, handles, todo, pushing, awaiting, main>>

\* All senders are dropped and the channel is empty: recv fails.
WorkerReturns(w) ==
  /\ job[w] = NoTask
  /\ sender = "closed"
  /\ queue = << >>
  /\ job' = [job EXCEPT ![w] = Gone]
  /\ UNCHANGED <<sender, queue, dedicated, handles, state, todo, pushing, awaiting, main>>

----------------------------------------------------------------------------
(* A task's body, on a worker or on its dedicated thread *)

\* Mutant: a nested spawn goes back into the pool's queue.
SpawnKidQueued(t, c) ==
  /\ state[t] = "running"
  /\ c \in todo[t]
  /\ todo' = [todo EXCEPT ![t] = @ \ {c}]
  /\ queue' = Append(queue, c)
  /\ state' = [state EXCEPT ![c] = "queued"]
  /\ UNCHANGED <<sender, job, dedicated, handles, pushing, awaiting, main>>

\* mimi_spawn_future with IN_WORKER set: the child's thread starts at once.
SpawnKid(t, c) ==
  /\ state[t] = "running"
  /\ pushing[t] = NoTask
  /\ c \in todo[t]
  /\ todo' = [todo EXCEPT ![t] = @ \ {c}]
  /\ dedicated' = dedicated \cup {c}
  /\ state' = [state EXCEPT ![c] = "running"]
  /\ pushing' = [pushing EXCEPT ![t] = c]
  /\ UNCHANGED <<sender, queue, job, handles, awaiting, main>>

\* ... and then its join handle goes on the list, under the list's lock, which
\* the exit handler holds while it joins.
PushHandle(t) ==
  /\ pushing[t] # NoTask
  /\ main # "join_handles"
  /\ handles' = handles \cup {pushing[t]}
  /\ pushing' = [pushing EXCEPT ![t] = NoTask]
  /\ UNCHANGED <<sender, queue, job, dedicated, state, todo, awaiting, main>>

\* mimi_await_future returns once the child is completed.
AwaitKid(t, c) ==
  /\ state[t] = "running"
  /\ pushing[t] = NoTask /\ todo[t] = {}
  /\ c \in awaiting[t]
  /\ state[c] = "done"
  /\ awaiting' = [awaiting EXCEPT ![t] = @ \ {c}]
  /\ UNCHANGED <<sender, queue, job, dedicated, handles, state, todo, pushing, main>>

\* The body is over: the future is completed and the thread is free, or ends.
Finish(t) ==
  /\ state[t] = "running"
  /\ pushing[t] = NoTask /\ todo[t] = {} /\ awaiting[t] = {}
  /\ state' = [state EXCEPT ![t] = "done"]
  /\ job' = [w \in Worker |-> IF job[w] = t THEN NoTask ELSE job[w]]
  /\ dedicated' = dedicated \ {t}
  /\ UNCHANGED <<sender, queue, handles, todo, pushing, awaiting, main>>

----------------------------------------------------------------------------
MainStep ==
  \/ \E t \in Root : MainSpawn(t)
  \/ MainExit
  \/ JoinPool
  \/ JoinHandles

WorkerStep(w) == Take(w) \/ WorkerReturns(w)

TaskStep(t) ==
  \/ \E c \in Task : SpawnKid(t, c) \/ AwaitKid(t, c)
  \/ PushHandle(t)
  \/ Finish(t)

\* After exit the process is gone.
Next ==
  \/ /\ main # "exited"
     /\ \/ MainStep
        \/ \E w \in Worker : WorkerStep(w)
        \/ \E t \in Task : TaskStep(t)
  \/ main = "exited" /\ UNCHANGED vars

\* The operating system runs every thread that can run.
Spec ==
  /\ Init
  /\ [][Next]_vars
  /\ WF_vars(MainStep)
  /\ \A w \in Worker : WF_vars(main # "exited" /\ WorkerStep(w))
  /\ \A t \in Task : WF_vars(main # "exited" /\ TaskStep(t))

----------------------------------------------------------------------------
(* Properties *)

\* Every variable has its type; only tasks that main spawned are ever queued.
TypeOK ==
  /\ sender \in {"none", "open", "closed"}
  /\ queue \in Seq(Root)
  /\ job \in [Worker -> Root \cup {NoTask, Gone}]
  /\ dedicated \subseteq Task \ Root
  /\ handles \subseteq Task \ Root
  /\ state \in [Task -> {"new", "queued", "running", "done"}]
  /\ todo \in [Task -> SUBSET Task]
  /\ pushing \in [Task -> Task \cup {NoTask}]
  /\ awaiting \in [Task -> SUBSET Task]
  /\ main \in {"run", "join_pool", "join_handles", "exited"}

\* Every task that was spawned completes, although the pool is bounded, tasks
\* hold their worker while they await their children, and the process exits.
TasksComplete == \A t \in Task : state[t] # "new" ~> state[t] = "done"

\* A task has a step to take: it is not in await of a child that is not ready,
\* nor about to push a handle on the list that the exit handler has locked.
CanGoOn(t) ==
  /\ state[t] = "running"
  /\ IF pushing[t] # NoTask THEN main # "join_handles"
     ELSE \/ todo[t] # {}
          \/ awaiting[t] = {}
          \/ \E c \in awaiting[t] : state[c] = "done"

\* The workers and the tasks that await never all wait for each other: while a
\* task is queued or runs, one of them has a step to take, or a worker that is
\* free has a job.  The exception is an exit handler that joins with the list
\* locked while a task is about to push a handle on it.
NeverStuck ==
  /\ main # "exited"
  /\ main = "join_handles" => \A t \in Task : pushing[t] = NoTask
  /\ \E t \in Task : state[t] \in {"queued", "running"}
  => \/ \E t \in Task : CanGoOn(t)
     \/ queue # << >> /\ \E w \in Worker : job[w] = NoTask

\* No thread of the runtime outlives exit.
ExitJoinsAll ==
  main = "exited" => queue = << >> /\ \A t \in Task : state[t] \in {"new", "done"}

\* "Register an atexit handler once to join all workers before exit": the
\* handler returns and the process exits.
ExitReturns == main = "join_pool" ~> main = "exited"
=============================================================================
