------------------------------- MODULE Future -------------------------------
(***************************************************************************)
(* The lifetime of futures (runtime/future.rs): the header's completed     *)
(* flag and reference count, the LIVE_FUTURES registry that lets an entry  *)
(* point reject a pointer to a deallocated future, mimi_await_future's     *)
(* condition variable, the jobs handed to pool workers, and the executor's *)
(* queue.  Addresses are not reused: a future is one allocation.           *)
(*                                                                         *)
(* Each entry point retains the header, works on it, and releases it; the  *)
(* last release unregisters and then deallocates.  future_try_retain runs  *)
(* under the registry lock, which unregistering also takes, so retaining   *)
(* is one step; a release is up to three.                                  *)
(***************************************************************************)
EXTENDS Integers, FiniteSets

CONSTANTS
  Fut,         \* futures
  Caller,      \* threads of compiled code and C hosts that call the API
  Worker       \* threads of the spawn pool

ASSUME FutureAssumption ==
  /\ Fut # {}
  /\ IsFiniteSet(Caller) /\ IsFiniteSet(Worker) /\ Caller \cap Worker = {}

Thread == Caller \cup Worker

VARIABLES
  owner,       \* the caller that allocated the future, if any
  completed,   \* header: 0 pending, 1 ready, -1 freed intent
  refs,        \* header: reference count
  registered,  \* LIVE_FUTURES
  deallocs,    \* how often the allocation was passed to dealloc
  freeCalled,  \* the owner called mimi_future_free
  jobs,        \* SpawnJobs waiting for a worker
  spawned,     \* history: futures that were handed to the pool
  queue,       \* EXECUTOR_QUEUE; entries are distinct, their order is left out
  submitted,   \* history: futures that were handed to the executor
  pc,          \* the next step of the call a thread is in
  cur,         \* the future that call is about
  owed         \* references each thread's call still has to release

header == <<completed, refs, registered, deallocs>>
vars == <<owner, header, freeCalled, jobs, spawned, queue, submitted, pc, cur, owed>>

Init ==
  /\ owner = [f \in Fut |-> {}]
  /\ completed = [f \in Fut |-> 0]
  /\ refs = [f \in Fut |-> 0]
  /\ registered = {}
  /\ deallocs = [f \in Fut |-> 0]
  /\ freeCalled = {}
  /\ jobs = {}
  /\ spawned = {}
  /\ queue = {}
  /\ submitted = {}
  /\ pc = [t \in Thread |-> "idle"]
  /\ cur = [t \in Thread |-> CHOOSE f \in Fut : TRUE]
  /\ owed = [t \in Thread |-> [f \in Fut |-> 0]]

Goto(t, l) == pc' = [pc EXCEPT ![t] = l]

----------------------------------------------------------------------------
(* Retain and release *)

Retainable(f) == f \in registered /\ refs[f] > 0

\* Thread t starts a call on f with a reference of its own; the call's next
\* step is l, and it will release n references.
Enter(t, f, l, n) ==
  /\ Retainable(f)
  /\ refs' = [refs EXCEPT ![f] = @ + 1]
  /\ pc' = [pc EXCEPT ![t] = l]
  /\ cur' = [cur EXCEPT ![t] = f]
  /\ owed' = [owed EXCEPT ![t][f] = n]

\* Where a thread that owes ow goes when a release is done.
Returned(ow) == IF \A f \in Fut : ow[f] = 0 THEN "idle" ELSE "release"

\* Mutant: the thread that drops the last reference does not notice.
ReleaseNeverLast(t, f) ==
  /\ pc[t] = "release"
  /\ owed[t][f] > 0
  /\ refs' = [refs EXCEPT ![f] = @ - 1]
  /\ owed' = [owed EXCEPT ![t][f] = @ - 1]
  /\ cur' = [cur EXCEPT ![t] = f]
  /\ Goto(t, Returned(owed'[t]))
  /\ UNCHANGED <<owner, completed, registered, deallocs, freeCalled, jobs, spawned,
                 queue, submitted>>

\* future_release: refs.fetch_sub.
Release(t, f) ==
  /\ pc[t] = "release"
  /\ owed[t][f] > 0
  /\ refs' = [refs EXCEPT ![f] = @ - 1]
  /\ owed' = [owed EXCEPT ![t][f] = @ - 1]
  /\ cur' = [cur EXCEPT ![t] = f]
  /\ Goto(t, IF refs[f] = 1 THEN "unregister" ELSE Returned(owed'[t]))
  /\ UNCHANGED <<owner, completed, registered, deallocs, freeCalled, jobs, spawned,
                 queue, submitted>>

\* future_unregister, by the thread that dropped the last reference.
Unregister(t) ==
  /\ pc[t] = "unregister"
  /\ registered' = registered \ {cur[t]}
  /\ Goto(t, "dealloc")
  /\ UNCHANGED <<owner, completed, refs, deallocs, freeCalled, jobs, spawned,
                 queue, submitted, cur, owed>>

\* The end of future_release: the allocation goes back to the allocator.
Dealloc(t) ==
  /\ pc[t] = "dealloc"
  /\ deallocs' = [deallocs EXCEPT ![cur[t]] = @ + 1]
  /\ Goto(t, Returned(owed[t]))
  /\ UNCHANGED <<owner, completed, refs, registered, freeCalled, jobs, spawned,
                 queue, submitted, cur, owed>>

----------------------------------------------------------------------------
(* Entry points.  A call that fails to retain returns and changes nothing. *)

\* mimi_future_alloc, with future_register.
Alloc(t, f) ==
  /\ pc[t] = "idle"
  /\ owner[f] = {}
  /\ owner' = [owner EXCEPT ![f] = {t}]
  /\ refs' = [refs EXCEPT ![f] = 1]
  /\ registered' = registered \cup {f}
  /\ UNCHANGED <<completed, deallocs, freeCalled, jobs, spawned, queue, submitted,
                 pc, cur, owed>>

\* The calls whose first step is to retain: mimi_future_set_completed,
\* mimi_future_is_completed and mimi_executor_spawn by any thread,
\* mimi_await_future by any thread or by the owner.
Call(t, f, l) ==
  /\ pc[t] = "idle"
  /\ Enter(t, f, l, 1)
  /\ UNCHANGED <<owner, completed, registered, deallocs, freeCalled, jobs, spawned,
                 queue, submitted>>

\* mimi_future_free, which the owner calls once.
Free(t, f) ==
  /\ pc[t] = "idle"
  /\ t \in owner[f]
  /\ f \notin freeCalled
  /\ Enter(t, f, "mark", 2)
  /\ freeCalled' = freeCalled \cup {f}
  /\ UNCHANGED <<owner, completed, registered, deallocs, jobs, spawned, queue, submitted>>

\* Mutant: the worker gets the job without a reference of its own.
SpawnWithoutRetain(t, f) ==
  /\ pc[t] = "idle"
  /\ f \notin spawned
  /\ Retainable(f)
  /\ jobs' = jobs \cup {f}
  /\ spawned' = spawned \cup {f}
  /\ UNCHANGED <<owner, header, freeCalled, queue, submitted, pc, cur, owed>>

\* mimi_spawn_future: retains for the worker; spawned once, by compiled code.
Spawn(t, f) ==
  /\ pc[t] = "idle"
  /\ f \notin spawned
  /\ Retainable(f)
  /\ refs' = [refs EXCEPT ![f] = @ + 1]
  /\ jobs' = jobs \cup {f}
  /\ spawned' = spawned \cup {f}
  /\ UNCHANGED <<owner, completed, registered, deallocs, freeCalled, queue, submitted,
                 pc, cur, owed>>

\* worker_loop receives a job and calls its poll function.
TakeJob(w, f) ==
  /\ pc[w] = "idle"
  /\ f \in jobs
  /\ jobs' = jobs \ {f}
  /\ Goto(w, "poll")
  /\ cur' = [cur EXCEPT ![w] = f]
  /\ owed' = [owed EXCEPT ![w][f] = 1]
  /\ UNCHANGED <<owner, header, freeCalled, spawned, queue, submitted>>

\* The poll function finishes: it calls mimi_future_set_completed, and the
\* reference of the job or of the queue is released when it returns.
PollCompletes(t) ==
  /\ pc[t] = "poll"
  /\ IF Retainable(cur[t])
       THEN Enter(t, cur[t], "set", 2)
       ELSE Goto(t, "release") /\ UNCHANGED <<refs, cur, owed>>
  /\ UNCHANGED <<owner, completed, registered, deallocs, freeCalled, jobs, spawned,
                 queue, submitted>>

\* A poll function given to the executor may also return with the future
\* still pending.
PollPends(t) ==
  /\ pc[t] = "poll"
  /\ t \in Caller
  /\ Goto(t, "release")
  /\ UNCHANGED <<owner, header, freeCalled, jobs, spawned, queue, submitted, cur, owed>>

\* Mutant: the compare-exchange is not followed by notify_all.
SetWithoutNotify(t) ==
  /\ pc[t] = "set"
  /\ completed' = [completed EXCEPT ![cur[t]] = IF @ = 0 THEN 1 ELSE @]
  /\ Goto(t, "release")
  /\ UNCHANGED <<owner, refs, registered, deallocs, freeCalled, jobs, spawned, queue,
                 submitted, cur, owed>>

\* mimi_future_set_completed under AWAIT_LOCK: compare-exchange and notify_all.
Set(t) ==
  /\ pc[t] = "set"
  /\ completed' = [completed EXCEPT ![cur[t]] = IF @ = 0 THEN 1 ELSE @]
  /\ pc' = [u \in Thread |->
              IF u = t THEN "release"
              ELSE IF completed[cur[t]] = 0 /\ pc[u] = "asleep" THEN "locked"
              ELSE pc[u]]
  /\ UNCHANGED <<owner, refs, registered, deallocs, freeCalled, jobs, spawned, queue,
                 submitted, cur, owed>>

\* mimi_future_is_completed reads the flag.
Read(t) ==
  /\ pc[t] = "read"
  /\ Goto(t, "release")
  /\ UNCHANGED <<owner, header, freeCalled, jobs, spawned, queue, submitted, cur, owed>>

\* mimi_await_future: a fast path without the lock, and then a loop that reads
\* the flag under AWAIT_LOCK and waits on the condition variable.
Check(t) ==
  /\ pc[t] \in {"check", "locked"}
  /\ Goto(t, IF completed[cur[t]] # 0 THEN "release"
             ELSE IF pc[t] = "check" THEN "locked" ELSE "asleep")
  /\ UNCHANGED <<owner, header, freeCalled, jobs, spawned, queue, submitted, cur, owed>>

\* mimi_future_free stores the freed intent: no lock, no notification.
Mark(t) ==
  /\ pc[t] = "mark"
  /\ completed' = [completed EXCEPT ![cur[t]] = -1]
  /\ Goto(t, "release")
  /\ UNCHANGED <<owner, refs, registered, deallocs, freeCalled, jobs, spawned, queue,
                 submitted, cur, owed>>

\* mimi_executor_spawn under the queue lock: the new reference goes to the
\* queue, or is dropped if the future is queued already.
Push(t) ==
  /\ pc[t] = "push"
  /\ queue' = queue \cup {cur[t]}
  /\ submitted' = submitted \cup {cur[t]}
  /\ IF cur[t] \in queue
       THEN Goto(t, "release") /\ UNCHANGED owed
       ELSE Goto(t, "idle") /\ owed' = [owed EXCEPT ![t][cur[t]] = 0]
  /\ UNCHANGED <<owner, header, freeCalled, jobs, spawned, cur>>

\* Mutant: the entry is polled with the queue's reference already released.
RunOneUnprotected(t, f) ==
  /\ pc[t] = "idle"
  /\ f \in queue
  /\ completed[f] = 0
  /\ queue' = queue \ {f}
  /\ refs' = [refs EXCEPT ![f] = @ - 1]
  /\ Goto(t, "poll")
  /\ cur' = [cur EXCEPT ![t] = f]
  /\ owed' = [owed EXCEPT ![t][f] = 1]
  /\ UNCHANGED <<owner, completed, registered, deallocs, freeCalled, jobs, spawned, submitted>>

\* mimi_executor_run: some queued future is pending, it leaves the queue and is
\* polled.  A flag never returns to 0, so the scan is one step.
RunOne(t, f) ==
  /\ pc[t] = "idle"
  /\ f \in queue
  /\ completed[f] = 0
  /\ queue' = queue \ {f}
  /\ Goto(t, "poll")
  /\ cur' = [cur EXCEPT ![t] = f]
  /\ owed' = [owed EXCEPT ![t][f] = 1]
  /\ UNCHANGED <<owner, header, freeCalled, jobs, spawned, submitted>>

\* No queued future is pending: the queue is drained, and its references are
\* released in turn.
RunDrain(t) ==
  /\ pc[t] = "idle"
  /\ queue # {}
  /\ \A f \in queue : completed[f] # 0
  /\ queue' = {}
  /\ Goto(t, "release")
  /\ owed' = [owed EXCEPT ![t] = [f \in Fut |-> IF f \in queue THEN 1 ELSE 0]]
  /\ UNCHANGED <<owner, header, freeCalled, jobs, spawned, submitted, cur>>

----------------------------------------------------------------------------
\* A step of the call a thread is in.
CallStep(t) ==
  \/ \E f \in Fut : Release(t, f)
  \/ Unregister(t)
  \/ Dealloc(t)
  \/ PollCompletes(t)
  \/ Set(t)
  \/ Read(t)
  \/ Check(t)
  \/ Mark(t)
  \/ Push(t)

Next ==
  \/ \E t \in Thread : CallStep(t) \/ PollPends(t)
  \/ \E t \in Caller, f \in Fut :
       \/ Alloc(t, f)
       \/ \E l \in {"set", "read", "check", "push"} : Call(t, f, l)
       \/ Free(t, f)
       \/ Spawn(t, f)
       \/ RunOne(t, f)
  \/ \E t \in Caller : RunDrain(t)
  \/ \E w \in Worker, f \in Fut : TakeJob(w, f)

Spec == Init /\ [][Next]_vars

\* A call that is under way goes on, and some worker receives each job.
FairSpec ==
  /\ Spec
  /\ \A t \in Thread : WF_vars(CallStep(t))
  /\ WF_vars(\E w \in Worker, f \in Fut : TakeJob(w, f))

----------------------------------------------------------------------------
(* What callers see of a future *)

\* A role and who has it: a thread in a call, the owner before free, a job of
\* the pool, an entry of the executor's queue.
HoldersOf(f) ==
  ({"call"} \X {t \in Thread : owed[t][f] > 0})
    \cup ({"owner"} \X {t \in owner[f] : f \notin freeCalled})
    \cup ({"job"} \X ({f} \cap jobs))
    \cup ({"queue"} \X ({f} \cap queue))

FlagOf(f) ==
  IF owner[f] = {} THEN "unborn"
  ELSE IF completed[f] = 0 THEN "pending"
  ELSE IF completed[f] = 1 THEN "ready"
  ELSE "abandoned"

AsleepOn(f) == {t \in Thread : pc[t] = "asleep" /\ cur[t] = f}

Ideal == INSTANCE FutureLife WITH
  Future <- Fut,
  Holder <- ({"call"} \X Thread) \cup ({"owner"} \X Caller) \cup ({"job", "queue"} \X Fut),
  Owner <- {"owner"} \X Caller,
  flag <- [f \in Fut |-> FlagOf(f)],
  holders <- [f \in Fut |-> HoldersOf(f)],
  waiting <- [f \in Fut |-> {"call"} \X AsleepOn(f)],
  known <- registered,
  returned <- deallocs

----------------------------------------------------------------------------
(* Properties *)

\* Every variable has its type.
TypeOK ==
  /\ owner \in [Fut -> SUBSET Caller]
  /\ completed \in [Fut -> {-1, 0, 1}]
  /\ refs \in [Fut -> Nat]
  /\ deallocs \in [Fut -> 0 .. 1]
  /\ registered \subseteq Fut /\ freeCalled \subseteq Fut
  /\ jobs \subseteq spawned /\ spawned \subseteq Fut
  /\ queue \subseteq submitted /\ submitted \subseteq Fut
  /\ pc \in [Thread -> {"idle", "release", "unregister", "dealloc", "set", "read",
                        "check", "locked", "asleep", "mark", "push", "poll"}]
  /\ cur \in [Thread -> Fut]
  /\ owed \in [Thread -> [Fut -> 0 .. 2]]

\* The references to f that calls still have to release: each is a pair of the
\* thread and a number.
CallRefs(f) == {r \in Thread \X (1 .. 2) : r[2] <= owed[r[1]][f]}

\* The count is the references that exist: the owner's until free gives it
\* back, one per waiting job, one per queue entry, and those of the calls.
RefsExact ==
  \A f \in Fut :
    refs[f] = Cardinality(CallRefs(f))
            + Cardinality({f} \cap jobs) + Cardinality({f} \cap queue)
            + Cardinality(owner[f]) - Cardinality({f} \cap freeCalled)

\* No use after free: a future that a call, a job or the queue will still
\* touch is allocated, and so is every registered address, because the
\* registry's answer is trusted before the header is read.
TouchedIsAllocated ==
  \A f \in Fut :
    (\/ f \in registered \cup jobs \cup queue
     \/ \E t \in Thread :
          \/ owed[t][f] > 0
          \/ cur[t] = f /\ pc[t] \in {"unregister", "dealloc"})
      => deallocs[f] = 0

\* The header, its count, the registry and the condition variable implement
\* the life of FutureLife for every future: whoever is about to touch it keeps
\* it, its memory is given back once and after its last holder, it completes
\* once, and a completion leaves no sleeper behind.
ImplementsFutureLife == Ideal!Spec

\* A future handed to the pool is not forgotten: its job waits, or a worker is
\* on its way to complete it, until the flag is set.
SpawnedIsServed ==
  \A f \in spawned :
    \/ completed[f] # 0
    \/ f \in jobs
    \/ \E w \in Worker : cur[w] = f /\ pc[w] \in {"poll", "set"}

\* No completion is missed: who sleeps in await sleeps on a future that is not
\* ready, and unless its owner freed it, a spawned one will still be completed
\* by a job or a worker.
SleeperIsOwedAWakeup ==
  \A t \in Thread :
    pc[t] = "asleep" =>
      /\ completed[cur[t]] # 1
      /\ (cur[t] \in spawned \ freeCalled) =>
           \/ cur[t] \in jobs
           \/ \E w \in Worker : cur[w] = cur[t] /\ pc[w] \in {"poll", "set"}

\* A future whose owner freed it and that nobody uses any more is deallocated.
FreedFutureGoes ==
  \A f \in freeCalled :
    (f \notin jobs \cup queue /\ \A t \in Thread : pc[t] = "idle") => deallocs[f] = 1

\* await on a spawned future returns, unless the owner frees the future under
\* the waiter: mimi_future_free stores its mark without a notification.
AwaitReturns ==
  \A t \in Caller :
    (pc[t] \in {"check", "locked", "asleep"} /\ cur[t] \in spawned)
      ~> (pc[t] = "idle" \/ cur[t] \in freeCalled)

\* Does not hold.  mimi_executor_run's comment: "Poll all pending futures in the executor until
\* all are completed.  Futures that become completed are removed".  A pending
\* future that was submitted is queued or being polled.
ExecutorKeepsPending ==
  \A f \in submitted :
    completed[f] = 0 => f \in queue \/ \E t \in Thread : owed[t][f] > 0
=============================================================================
