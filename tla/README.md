# Mimi native runtime: TLA+ verification project

Mimi is a compiled language: a front end (lexer, parser, loader, type checker,
flow and ownership analyses), an intermediate representation, two back ends (a
bytecode virtual machine and LLVM), a contract verifier, and a native runtime
that compiled programs and C hosts call through an `extern "C"` interface. The
state machines, the threads and the lifecycles are in the runtime,
`src/src/runtime/`, and in the cache through which every build on a machine
shares one compiled runtime. The front end is sequential and functional; what it
has that a state model can judge is the promise it makes about running programs,
and the project models that promise for session types: which functions the
checker accepts, and what two accepted functions then do on the channels of the
runtime.

Paths below are relative to the directory above this one.

## 1. Inventory

### Runtime components

| Component | State | Operations | What makes it correct |
|---|---|---|---|
| Map and Set handle tables, `runtime/handle.rs` | slots with generation, lease owner, pins, retired and pending_free flags; free stack; generation floor; one mutex and one condvar per table | alloc, acquire and release of a lease, pin, unpin, begin_destroy, finish_destroy, destroy, MapRoot set and drop | no object goes while leased or pinned, one owner at a time, deferred reclamation happens once and does happen, a stale handle is never accepted again |
| JSON serializers, `runtime/handle.rs`, `runtime/mod.rs` | a process-wide reentrant gate, a per-thread path of containers | scope entry and exit around the lease of each nested container | walks do not deadlock, a cyclic container is found before its lease is asked for again, every walk ends |
| Shared reference counts, `runtime/mod.rs` (`mimi_rc_*`) | strong and weak count in a header | alloc, retain, release, weak_retain, weak_release, upgrade | counts are exact, zero strong is final, the allocation is freed once and after the last reference |
| Futures and executor, `runtime/future.rs` | registry of live futures, reference count, completion flag, condvar, executor queue | alloc, free, set_completed, await, is_completed, executor spawn and run | no use after free, no missed completion, await returns |
| Spawn pool, `runtime/future.rs` | job queue, workers, list of dedicated thread handles | spawn, worker loop, atexit join | a task that waits for its children never waits for a worker, exit joins everybody |
| Actors, `runtime/actor.rs` | mailbox, depth, mute and fault flags, worker thread; registry, parent ids, count and quota | spawn, call, drop, kill (cascading), drop_all, set limits, set quota | calls return, depth does not leak, joins do not deadlock, a kill leaves no child behind |
| Packed Flow epochs, `runtime/epoch.rs` | slots with epoch, payload and live flag; free stack | pack, bump, unpack, drop | a consumed or dropped handle stays refused |
| Channels and sessions, `runtime/concurrency.rs` | handle table, per-endpoint sender and receiver slot | new, session_pair, send, recv, try_recv, drop | one owner per receiver, blocked receivers end when their sender goes |
| Mutexes and atomics, `runtime/concurrency.rs` | handle table, thread-local guards | new, lock, unlock, load, store, cas, drop | a guard keeps its mutex alive |

### Build and front-end components

| Component | State | Operations | What makes it correct |
|---|---|---|---|
| Runtime library cache, `main/build.rs`, `runtime_cache.rs` | a directory with a lock file, archives named by the hash of the runtime's sources, temporaries named by process; nothing else survives a build | lock, hash the sources, sweep temporaries, look up, compile, hash again, retry once, publish by rename | an archive is what its name says although sources change and builds are killed, a published archive stays, every build ends |
| Session checking, `session.rs`, `core/check_stmt.rs`, `core/infer/helpers.rs`, `core/infer/call/simple.rs`, `core/checker/func.rs` | the residual of every endpoint variable, the consumed variables | dual, resolve, check of send, recv, close, let, if, while, end of function | two functions checked apart against a type and its dual fit at run time |
| Linear resources, `core/cfg/` | the graph of a function, a fact per block, a worklist | lowering, transfer, join, worklist, checks at the returns | an endpoint is closed exactly once on every path |

The components interact through calls and threads: compiled code calls all of
them; a pool worker runs a poll function that completes a future; an actor's
worker runs methods that call, spawn, drop and kill actors, itself included;
whoever drops the last reference of an actor joins its worker; serializers hold
several leases of the handle tables at once; the functions that the session
checker accepts are what calls the channel operations.

### The rest of the repository

The component ABI (`src/src/component/`) has a second generational registry and
a wire format; `src/src/ffi/` generates bindings and keeps a callback table; the
compiler proper is `src/src/{lexer,parser,loader,core,codegen,interp,verifier}`;
`src/src/{manifest,lockfile,pkg_resolve,pkg_registry}.rs` manage packages,
`src/src/lsp/` is the language server, and `fmt.rs`, `lint.rs`, `doc_core.rs` are tools. PROJECT.json
lists all of them with the reason each one is or is not modelled.

### What is hard in it

* Critical sections that end before the operation does: destroy is two of them,
  a spawn is three, a recv takes the receiver out and blocks with no lock.
* Condition variables shared by unrelated waiters.
* Counters that are decremented and only then compared with another counter.
* Reclamation that somebody else has to perform later.
* Threads joined from destructors, and exit that joins threads which still spawn.
* Handles whose index is reused, at generations and epochs with limits.
* Builds that are killed half-way, whose compiler may outlive them, in a
  directory that all builds share; a hash of sources that are read file by file
  while somebody edits them.
* Two ends of a session that are checked apart and run together.
* A worklist whose blocks become ready in an order that loops decide.

PROJECT.json lists each hazard at its line, with the property that would catch
it or the reason none does.

## 2. Modules

| Module | Models | Extends |
|---|---|---|
| `HandleLife` | abstract: what a handle table promises its callers | |
| `HandleTable` | both handle tables; `IsMap` selects the code of one; instantiates `HandleLife` | |
| `SerializerWalk` | the JSON walks, composed with the table they lease from | `HandleTable` |
| `HandleTableProofs` | theorems about `HandleTable`, that it implements `HandleLife`, and theorems about `SerializerWalk` | `SerializerWalk`, TLAPS |
| `RefCount` | one shared allocation | |
| `RefCountProofs` | theorems about `RefCount` | `RefCount`, TLAPS |
| `FutureLife` | abstract: what a future promises its holders | |
| `Future` | futures, completion, the executor queue; instantiates `FutureLife` | |
| `FutureProofs` | theorems about `Future`, and that it implements `FutureLife` | `Future`, TLAPS |
| `SpawnPool` | the pool, dedicated threads, exit | |
| `SpawnPoolProofs` | theorems about `SpawnPool` | `SpawnPool`, TLAPS |
| `ActorCall` | abstract: what a call on an actor promises | |
| `ActorMailbox` | one actor, its callers and its worker; instantiates `ActorCall` | |
| `ActorMailboxProofs` | theorems about `ActorMailbox`, and that it implements `ActorCall` | `ActorMailbox`, TLAPS |
| `ActorTree` | the registry, ownership and the quota | |
| `ActorTreeProofs` | theorems about `ActorTree` | `ActorTree`, TLAPS |
| `FlowEpoch` | the Flow slot table | |
| `Channel` | channels and session endpoints at run time | |
| `ChannelProofs` | theorems about `Channel` | `Channel`, TLAPS |
| `SessionTypes` | session types: dual, resolution, one step | |
| `LinearFlow` | the graph of a function and its linear analysis | |
| `Session` | the checker of sessions, composed with the channels its programs run on | `Channel`, `SessionTypes`, `LinearFlow` |
| `RuntimeCache` | the runtime library cache, with crashes and edits | |
| `RuntimeCacheProofs` | theorems about `RuntimeCache` | `RuntimeCache`, TLAPS |
| `MC*` | the instances TLC runs | the module they are named after |

How state and actions correspond to the code:

**HandleTable.** One action is one critical section of the table mutex. `slots`,
`len`, `free`, `floor` and `exhausted` are the fields of `Table`; a slot has the
fields of `Slot`, with the object abstracted to who wrote it last, which is what
the privacy of a lease is about. `pc` and `arg` are where a thread is inside a
blocking acquire or between the two phases of destroy; `held` are the
`MapLease` and `SetLease` guards it owns; `issued` is a history of the handles
given out. `FinishFree` is `finish_map_free` or `finish_set_free`, with
compaction as part of it. Callers may use any handle ever issued, stale ones
included. The code's limits of 2^32 - 1 are the constants `MaxIndex`, `MaxGen`.

**HandleLife.** The promise behind the table: a handle is unissued, live, doomed
(begin_destroy), dying (finish_destroy, deferred) or dead, has one user and a
number of pins, and no operation on one handle shows at another. `LifeOf`,
`UserOf` and `PinsOf` in `HandleTable` read those three off the slots; slots,
generations, reuse, the floor and compaction disappear. `FlowEpoch` does not
keep such a promise, which is what `flow_epoch_dropped` shows.

**SerializerWalk.** `gate` is `OPERATION_GATE`, `path` is `JSON_CONTAINER_PATH`
with what each node has left to visit. A walk enters the scope of a node, leases
it with the `Acquire` of `HandleTable`, visits the children and releases. Plain
operations and destroys of other threads run beside it. `Children` is the graph
of containers. `aborted` is the abort of `map_from_handle` on a dead handle.

**RefCount.** One action is one atomic access of the header. Threads use
references they own. Accesses are sequentially consistent; a load of a
deallocated header returns an arbitrary value. What the acquire and release
orderings of the code (`mod.rs:2888`) add to that is not modelled.

**Future.** `refs`, `completed`, `registered` and `deallocs` are the header and
the registry; `owed` counts the references each call still has to release, `jobs`
and `queue` are the pool's and the executor's entries. The check and the wait of
await are one step under `AWAIT_LOCK`, and so is a completion with its
notification. `Mark`, the store of free, takes no lock.

**FutureLife.** The promise behind futures: a set of holders, which grows only
while it is not empty; an address that is vouched for until the last holder left,
and memory that is given back once after that; a flag that completes once and
leaves nobody asleep, or is abandoned by an owner that gave the future up. `HoldersOf`,
`FlagOf` and `AsleepOn` in `Future` read them off: a holder is a role (owner, call,
job, entry of the executor's queue) and who has it; counts, registry lookups, the
lock and the program counters disappear. Sleepers of an abandoned future are left
asleep, as in the code.

**SpawnPool.** Tasks spawn children, await some of them and complete; the
constants `Kids`, `Awaits` and `MainAwaits` are the shape of the program. A task
that runs in the pool starts dedicated threads. Main exits through the atexit
handler, step by step.

**ActorMailbox.** One actor. The threads are callers and `Self`, its own methods
that drop or kill it. A call is a sequence of steps: the pin under the registry
lock, the fault check, the back-pressure loop with its 50 ms time to live
(`TimeToLive`), the reservation of a depth slot, the send, the wait for the
reply, the unpin, and a join if that was the last reference.

**ActorCall.** The promise behind the mailbox: a call is accepted or refused,
accepted calls run one at a time in the order they were accepted, a call that got
zero did not run, and an actor that became unreachable serves what it accepted,
or, once killed, sends it away, before it ends. `PhaseOf` and `Line` in
`ActorMailbox` read it off; depth, mute, the time to live, pins, the two flags of
the mailbox and the join disappear. A method that was running when its actor was
killed still answers.

**ActorTree.** A spawn is the quota test, the insertion with the parent check,
and the increment of the count. `SystemKill` removes the least closed set of
registered actors that contains its root. `killed` is a history.

**FlowEpoch.** Every entry point is one step under the table lock. A handle is an
index and the epoch modulo `Tags`.

**Channel.** A call finds its endpoint under the table lock and goes on without
it. `slot` are the endpoints whose receiver is in its slot, `queue` the messages
that wait at each receiver, `val` what a thread sends or has received, and `Peer`
tells a channel from a session. `End` is the end of a call together with the
destruction of what only that call kept alive. `Session` drives these actions.

**SessionTypes.** `dual`, `resolve_inner`, `residual_from_chan_type` and
`apply_action` are the functions of `session.rs`, case by case, over session types
as records. Two results of theirs look odd and are kept: the dual of a name is
left standing until it is resolved, and a name that reaches itself resolves to
nothing, so that a recursive protocol keeps its unresolved name as a residual that
no operation fits.

**LinearFlow.** A function body is a sequence of calls, aliases and control
statements; `Lower` gives the graph that `resolved_lower.rs` builds of it, with its
kinds of edges, `transfer` and `join_predecessors` are those of `dataflow.rs` for
one resource, `analyze` is the worklist, and `validate_return_resources` looks at
the returns and at the blocks that only loop. The codes E0304 and E0256 are the
code's. The readiness test matters: a block that is taken off the worklist before
its predecessors have a state is dropped, and comes back only if one of them
changes.

**Session.** A behaviour starts either with untyped threads, which call the
channel operations in any order (`UntypedBegin`, `UntypedStep`), or with a program
being written. Writing is the check: each step appends a statement that
`check_stmt.rs` and `call/simple.rs` let pass, `chk` is what the checker knows, and
`Accept` is the end of a function, where the residuals must be `end` (E0425) and
the linear analysis must find nothing. After the function on `SessionChan<X>` the
one on `SessionChan<dual X>` is written, with no knowledge of the first. Then both
run (`Call`, `CallStep`, `Branch`) on the two endpoints of a pair. Conditions are
not evaluated: a branch is a choice. Every function that the checker accepts
within the bounds is thus run against every other one of the dual type.

The checker has two rules for an `if` with an `else`, and the model an action for
each. `CheckIf` is the one of `check_stmt`: both arms start where the `if` does and
have to agree. `CheckTailIf` is the one for an `if` that a body ends with, which
`check_block_with_implicit_return` gives to `check_if_branch_types`
(`core/infer/helpers.rs`): the else arm starts with the residuals that the then arm
left, nothing is compared, and nothing can follow. The statements of a body are
those that concern its endpoint, so a body here may end with an `if` of the first
kind: in the program, something else follows it. Both kinds have the same graph.

Three things the model made visible about the checker. A loop whose body falls
through or continues with the endpoint open is refused (a block that only loops
counts as a return, E0256), so the loops of accepted functions run at most once
with the endpoint open. What follows an `if` without `else`, or a loop, is checked
as if its body had not run. And the else arm of an `if` at the end of a body is
checked as if it ran after the then arm. `strayed` records that a run went where
one of the last two makes the check say nothing about it (section 5).

**RuntimeCache.** `source` are the contents of the runtime's files, numbered in the
order they were written; a key is the contents it was computed from. A build is a
process `p`: `Acquire`, one `HashFile` per file, `LookUp` (which first sweeps every
temporary), the compiler, `CompileDone`, one `RehashFile` per file, `KeyStable` or
`KeyChanged`, `Publish`. The compiler reads the files one by one and writes to a
temporary that anybody's sweep may unlink. `Crash` kills a build between any two
steps: the kernel frees the lock, no guard runs, and the compiler dies or lives on.
`Edit` and `Revert` change sources at any time; `reverted` is a history of the
files that were ever set back.

## 3. Runs

| Run | Instance | Checks |
|---|---|---|
| `handle_map` | Map table, 2 threads, 2 slots, 2 generations, 1 pin, fair | `LeaseKeepsObject`, `DeferredFreeHasHolder`, `FreeStackExact`, `ImplementsHandleLife`, `LeasedContentIsPrivate`, `DeferredFreeHappens` |
| `serializer` | Set table, 3 threads, 3 containers of which two contain each other, 1 call per thread, fair | `NoWaitCycle`, `WalkNeverReenters`, `SleepersHaveReason`, `CallsEnd`, `DestroyedNodeGoes` |
| `refcount` | 3 threads, counts up to 2 | `CountsExact`, `StrongKeepsObject`, `LastReferenceFrees`, `ZeroStrongIsFinal` |
| `refcount_freed_once` | 2 threads | `FreedOnce`, violated |
| `future` | 1 future, 3 callers, 1 pool worker, fair | `RefsExact`, `FreedFutureGoes`, `ImplementsFutureLife`, `AwaitReturns` |
| `spawn_pool` | 7 tasks in chains of spawn and await, 2 workers, fair | `ExitJoinsAll`, `TasksComplete`, `ExitReturns` |
| `spawn_pool_exit` | 3 tasks, none awaited by its parent, 1 worker, fair | `ExitReturns`, violated |
| `actor_mailbox` | 2 callers and the actor's own methods, limit 1, default 2, fair | `DepthExact`, `MutedHasMessage`, `JoinFindsIdleWorker`, `ImplementsActorCall`, `CallsReturn` |
| `actor_tree` | 3 actors, 1 plain thread, quota 2 | `NoChildOfKilled`, `CountCoversRegistry` |
| `flow_epoch_dropped` | 1 slot, epochs up to 2 | `DroppedStaysStale`, violated |
| `session` | a channel and a session pair, 2 threads, 2 queued messages per endpoint; functions of up to 4 statements, one of them control flow in the first function, arms of up to 2; 16 declarations of X; fair | `OneReceiver`, `PeerDropUnblocks`, `Fidelity`, `NothingLost`, `ClosedOnce`, `ReturnsAreReached`, `SessionEnds` |
| `runtime_cache` | 2 builds, 2 files, 2 contents each, fair | `ArchiveMatchesKey`, `TempSurvives`, `ArchiveImmutable`, `EveryCallEnds` |

Why the bounds are enough for the cases that matter:

* Two slots and two generations make the Map table reuse a slot, exhaust its
  generations, compact, and refuse to compact beside an occupied or exhausted
  slot. A waiter, an owner and a destroyer are three threads, which `serializer`
  has, on the Set table: there a waiter is woken because its container goes. The
  theorems hold for both tables and any number of threads.
* Three containers, two of them in a cycle, give walks from opposite ends, a walk
  that meets itself, and a plain operation on a node a walk waits for.
* Three owners of references give a release, a weak release and an upgrade at a
  time.
* One future is enough as futures share only the condvar, whose notification of
  all waiters is modelled as such; three callers are an owner that frees, one
  that awaits and one that completes or polls.
* Two chains of tasks block the two workers while their grandchildren have yet to
  start, and a third root leaves a child that nobody awaits.
* With a mailbox limit of 1 and a default of 2, two calls mute the actor and the
  difference between the configured and the default limit shows.
* Three actors are a chain of two parents, so a cascade has two levels.
* Two builds are one that dies, leaving a temporary and perhaps its compiler, and
  one that meets them; two files are enough for a key that mixes old and new
  contents, two contents for an edit between the two looks and for one that is
  undone.
* Two actions and a name, a dual name or the type itself at the end make protocols
  in which both ends send first, one that resolves through a dual, and one that does
  not resolve. Two integer types make the one coercion the checker allows. Four
  statements are two actions, an alias and a close, or control flow with a close
  behind it; control flow in one of the two functions is enough, since each is
  checked alone.

Symmetry is declared only in runs without liveness properties. Deadlock is
checked where the instance never legitimately stops; `serializer` (its calls are
bounded), `future` (its future is used up) and `session` (its functions return, and
some functions are never finished) stop, and say so. The type invariants
(`TypeOK`) are stated in the modules and no run lists them; they are proved for
every module that section 4 names. `NoRevival` of `HandleTable` is proved too, and
follows from `ImplementsHandleLife`.

### Fairness

Weak fairness of a thread's own next step says that the operating system runs
every thread that can run. Stronger or further assumptions are:

* `handle_map`: an operation releases its lease (a Rust guard that lives for one
  call), and a C caller that pinned a handle unpins it, whatever else it calls in
  between. The second one is an obligation of the client, stated as strong
  fairness of the unpin that a reclamation waits for.
* `actor_mailbox`: 50 ms pass, so the back-pressure loop ends however often the
  flag flickers (strong fairness of `TimeToLive`), and a method returns however
  often it looks at its own actor (strong fairness of `Answer`).
* `future`: a worker takes a queued job; a poll from the pool completes its
  future, a poll from the executor need not.
* `runtime_cache`: a build and its compiler go on until they end or are killed;
  `flock` gives a free lock to a waiter. Nobody has to edit, and nobody has to stop:
  the identity retries are bounded.
* `session`: the threads run. No statement has to be written.
* No fairness is assumed of starting new calls, spawning, killing or dropping.

## 4. Proofs

Checked by TLAPS, for every value of the constants that satisfies the named
assumptions, which TLC evaluates in the runs:

| Assumption | Says |
|---|---|
| `TableAssumption` | the special values are no threads, the bounds are positive |
| `WalkAssumption` | the children of a container are containers |
| `RefAssumption` | the set of threads is finite, the bound on references positive |
| `FutureAssumption` | callers and workers are finite and distinct, there is a future |
| `PoolAssumption` | a task awaits what it spawned, main's tasks are nobody's children, no task is its own ancestor, there is a worker (`spawn_worker_count` gives 2 to 8) |
| `MailboxAssumption` | the set of callers is finite, limits are positive |
| `TreeAssumption` | actors and threads are finite and distinct, `None` is no actor |
| `ChannelAssumption` | `Peer` is its own inverse |
| `CacheAssumption` | the special values are no builds and no keys, the bound on edits is a natural number |

Finiteness is assumed where a property counts threads or actors: a process has
finitely many. TLC finds each inductive invariant below to hold on the instances of
section 3 (that of `Channel`: on its own specification, with a channel, a session
pair and two threads).

Counts are stated as cardinalities of sets of references, `StrongRefs` in
`RefCount` and `CallRefs` in `Future`: a reference is a pair of its owner and a
number. A sum over the threads would say the same and need an induction over the
set of threads; with a set, a step adds an element or removes one.

**HandleTableProofs.** `IInv` is the conjunction of

* `TypeOK`;
* `TableInv`: slots beyond the length of the vector are absent (`TailAbsent`), the
  free stack is exact (`FreeStackExact`), no generation of a Map slot exceeds the
  floor (`FloorBound`), a deferred reclamation has a lease or a pin
  (`DeferredFreeHasHolder`), pins need an object (`PinsNeedObject`);
* `ThreadInv`: leases keep objects (`LeaseKeepsObject`), owners hold their guard
  (`OwnerHoldsGuard`), sleepers have a reason (`SleepersHaveReason`);
* `IssuedLiveOrBuried`: a handle that was issued is live, or its slot has moved
  past its generation, or is retired at the last one, or was compacted away below
  the floor.

None of the safety properties is inductive alone: that a lease keeps its object
needs that an owner is recorded only while its guard exists and that a slot on
the free stack has no object; that no handle is revived needs the floor, since
compaction forgets the generations of the slots. Each action has a lemma that it
preserves `IInv`; the lemmas rest on lemmas about updating an occupied slot
(`TouchKeeps`), about reclamation with and without compaction, and about the
notification. From `Invariance` follow

* `TypeCorrect`, `LeaseSafety`, `NoLostWakeup`, `DeferredFreeSafety`,
  `FreeStackSafety`: the invariants of the runs, for any number of threads,
  slots, generations and pins, for Maps and for Sets;
* `NoResurrection`: the action property `NoRevival`;
* `LeasePrivacy`: the action property `LeasedContentIsPrivate`. A guard that is
  still there after a step names an object after it, by `IInv` of the second state.
  So if the content changed it was written, and of the steps that write
  (allocation, use of a lease, MapRoot) only the owner's can meet a leased slot
  (`StepWrites`).

**Refinement**, second part of `HandleTableProofs`: `HandleTable` implements `HandleLife`, for any
number of threads, slots, generations and pins, for Maps and for Sets. To the
`IInv` above it adds that a recorded lease has an owner and that a live handle was
issued (`MapInv`), without which the mapping would show a user the table does not
have. The argument has two halves: what a step does to its own handle
(`TouchedLife`, `FreedLife`, one lemma per action), and that every other handle
looks as before (`TouchedOthers`, `FreedOthers`, `IssueOthers`), where compaction
is the hard case: it discards slots, and every handle that named one of them must
have been dead already and stay dead, which is `IssuedLiveOrBuried` again.

**Walks**, third part of `HandleTableProofs`. The table's `IInv` holds under the
walks too, though a walk acquires with leases in hand. `WalkInv` adds for every
thread that it has a path if and only if it owns the gate, whose depth is the
length of the path (`Owner`), that the nodes of the path are distinct
(`PathDistinct`), that the leases of a walk are those of its path, without the last
node while that one is being leased or left (`LeasesOnPath`), and that who waits
outside a walk has no lease (`WaitsClean`). For any object graph, any number of
threads and calls follow

* `NoDeadlock`: `NoWaitCycle`. Who owns a lease and waits is in a walk and owns the
  gate; so all threads of a circle would wait for the owner of the gate, and that
  one for itself, which `SleepersHaveReason` excludes;
* `NoReentry`: `WalkNeverReenters`, and `WalkNoLostWakeup`: `SleepersHaveReason`;
* `GateNoLostWakeup`: `GateSleepersHaveReason`, the same for the condition variable
  of the gate, which needs only that whoever leaves the gate to nobody wakes all;
* `WalkProgress`: `SomeCallGoesOn`. While a call is under way, one of them sleeps
  neither at the gate nor for a lease: else the owner of the gate would sleep for a
  lease whose owner sleeps too, and so owns the gate. This is stronger than the
  absence of circles, as it counts on both condition variables being notified.

**RefCountProofs.** `IInv` is `TypeOK`, `CountsExact`, `Final` (the strong
count is zero after a deallocation and while its last release goes on, and an
upgrade swaps only a count it saw above zero) and `Duty` (while both counts
are zero and nothing was deallocated, some release has yet to look at the other
count). `CountsExact` is nearly inductive; `LastReferenceFrees` is not, and `Duty`
is what the two-counter protocol gets right, as `FreedOnce` is what it gets wrong.
Theorems `RefTypeCorrect`, `CountSafety`, `StrongSafety` (`StrongKeepsObject`),
`NoLeak` (`LastReferenceFrees`) and `StrongFinality` (`ZeroStrongIsFinal`).
`StrongOnlyFreedOnce` says how far the defect of `refcount_freed_once` goes: a value
of which no weak reference is ever taken (`[]NoWeak`, a hypothesis on the behaviour,
which programs without `weak` satisfy) is freed at most once. `OneChecker` is its
invariant: of the releases only one takes the strong count to zero.

**FutureProofs.** `IInv` is `TypeOK`, `Calls` (what a thread owes at each
step of a call), `Life` (a future is unborn, referenced and registered, being ended
by exactly one thread, or deallocated) and `RefsExact`. That nothing is
touched after deallocation rests on the count: who still has to touch a future owns
a reference, and one step alone takes the count to zero. Theorems
`FutureTypeCorrect` (with it, at most one deallocation), `RefsSafety`,
`NoUseAfterFree` (`TouchedIsAllocated`) and `NoFutureLeak` (`FreedFutureGoes`), for
any number of futures, callers and workers. `TouchedIsAllocated` is not in the run:
`ImplementsFutureLife`, which is, includes that memory goes after the last holder.

*Completion*, second part: `DoneInv` adds that a call holds the future it is about,
that flags move only on futures that exist, that nobody sleeps on a completed one,
and `SpawnedIsServed`: a future handed to the pool has a job or a worker until it is
completed. `SpawnedSafety` and `NoMissedCompletion` (`SleeperIsOwedAWakeup`) follow,
the part of `AwaitReturns` that is not about fairness.

*Refinement*, third part: `FutureRefinement` is `ImplementsFutureLife`. For each
action there is a lemma that says what the step shows at every future: nothing
(`SameLook`), or holders that change hands (`Hands`), or one step of `FutureLife`.
What makes it hold is that a reference passes from a call to a job or to the queue in
one step, so that the set of holders is empty exactly when the count is zero, which
is `RefsExact` once more.

**SpawnPoolProofs.** `IInv` adds to `TypeOK` that what runs has a thread
(`OnThread`), that what is queued is in the channel (`InQueue`), that a dedicated
thread is on the list or has a running parent about to put it there
(`Registered`, `Families`), and that workers return only after the last job
(`Drained`). `ExitSafety` (`ExitJoinsAll`): when the handler has joined every thread
on the list, a thread that was left would have a parent that was left, and so on
without end, which a forest of tasks excludes. That the handler gets there at all
is liveness, and `spawn_pool_exit` shows that it need not.

`PoolProgress` is the other half, `NeverStuck`: while a task is queued or runs,
somebody has a step to take, unless the exit handler joins with the list locked,
for any forest of tasks, finite or not, and any number of workers. `StuckInv` says
that a child its parent has spawned runs or is done, never queued (`KidsRun`), that a
worker keeps only a job that runs, and that finitely many tasks run. If all running
tasks waited, each would have a running child, and a finite set of tasks in a forest
cannot be like that (`FiniteEnds`, by the least size of a set that is). A pool that
queues the children of its own tasks violates `KidsRun`, and TLC then finds
`NeverStuck` violated.

**ActorMailboxProofs.** `IInv` is the conjunction of `Types`, `Pins` (a thread
inside a call holds the actor, who joins was the last to hold it), `Mail` (a message
in the mailbox or with the worker is the one its caller waits for), `Runs` (a method
runs while its caller waits and the worker holds the message), `DepthExact`, `MutedHasMessage` and
`FailedCallDidNotRun`. Theorems `MailboxTypeCorrect`, `DepthSafety`, `MuteSafety`,
`JoinSafety` (`JoinFindsIdleWorker`) and `AbsorptionSafety`
(`FailedCallDidNotRun`), for any number of callers. `FailedCallDidNotRun` is not in
the run, whose `ImplementsActorCall` includes it.

*No lost reply*, second part: `ServedInv` adds that the mailbox closes only after the
actor was unlinked and the worker exits only when it is closed and empty (`Ends`),
and that who waits has its message in the mailbox or with the worker (`Served`).
`NoLostReply` (`WaiterIsServed`) is the part of `CallsReturn` that is not about
fairness. That the worker may exit at all rests on the pins: a caller that could
still send keeps the mailbox open.

*Refinement*, third part: `ActorRefinement` is `ImplementsActorCall`, one lemma per
action, on top of both invariants: that the next message is that of the caller first
in line, that the method in the worker is that of the message at hand, and that nobody
waits or runs when the worker ends.

**ChannelProofs.** `IInv` is `Types`, `Exclusive` (a receiver that a thread took is
in no slot and with no other thread) and `Queued` (messages wait only for a receiver
that exists). `ReceiverSafety` is `OneReceiver` for the specification of
`Channel`, whose threads call in any order, as the untyped threads of the `session`
run do.

The second part is about the life of a receiver. `LifeInv` says that an endpoint in
the table has its receiver, in the slot or with a thread that will put it back, that
a drop clears a slot only after it took the endpoint off the table (`Live`), and that
a receiver in the slot of a dropped endpoint has a call that ends later (`Arcs`).
For any number of endpoints and threads follow

* `LiveSafety`: `LiveReceives`, a message to a live endpoint finds its receiver;
* `MailSafety`: the action property `MailIsKept`, what waits at a live endpoint
  leaves it oldest first, by a recv and in no other way;
* `ReclaimSafety`: `DroppedIsReclaimed`, no receiver and no message outlives the last
  call on a dropped endpoint. The late put-back of section 5 (`NoPutBackAfterDrop`)
  thus does no lasting harm.

**RuntimeCacheProofs.** `IInv` is `TypeOK`, `Exclusive` (one call at a time is past
the lock), `Stage` (how far the compiler of a call is and what it left under the
temporary's name), `Readings` and `ArchiveMatchesKey`. `Readings` is the argument
for hashing twice: while a file only moves forward, the first pass, the compiler
and the second pass read it in this order, so that equal ends leave no room for
another value between them. It speaks of files that were never set back; a file
that is edited and undone within one build can deceive the code, and the theorem
does not cover it. For any number of builds and files follow

* `ContentAddressed`: `ArchiveMatchesKey`, no archive is incomplete or compiled
  from other sources than its name says;
* `Immutable`: `ArchiveImmutable`, a published archive is never replaced;
* `TempSafety`: `TempSurvives`, no sweep takes the temporary of a running call;
* `LinkerSafety`: `LinkerFindsArchive`, the path that a build returned leads to a
  whole archive of its key's contents, long after the lock was given back. To `IInv`
  it needs what a call saw when it looked up (`Found`), and `Immutable` for the rest;
* `LockSafety`: `LockIsGivenBack`, a call that cannot go on waits for the lock of one
  that can. `Held` says that the lock's holder is past `Acquire` and not over, which
  a return, an error and a death must each keep.

**ActorTreeProofs.** `IInv` is `TypeOK`, `SpawnIsPrivate` (an actor that is being
spawned is known to its spawner only), `CountBounded` (the count never exceeds
the handles given out) and `NoChildOfKilled`; `Covered` is a second invariant on top
of it (the count, with the spawns that have yet to raise it, covers the registered
actors and the removed ones that have yet to lower it). The insertion step preserves it
because a registered parent is not killed; the kill preserves it because the set
it removes is closed under registered children (`SubtreeClosed`). `TreeTypeCorrect`,
`NoOrphanOfKill` and `QuotaSafety` (`CountCoversRegistry`) follow. `Covered` is an
inequality because the decrement saturates: a drop that overtakes the increment of
its spawn leaves the count too high, never too low.

The third part measures the gap in the cascade (`KillReachesDescendants`, section 5).
`Orphans` are the registered actors whose owner was dropped. `CascadeComplete` is the
action property `OnlyDropOrphans`: no kill and no spawn makes one, whatever races.
`KillSafety` is `KillReachesOwned`: while there are no orphans no kill has missed a
descendant. So a dropped owner is the only way to lose one.

**Only model-checked.** Liveness under fairness (`DeferredFreeHappens`,
`DestroyedNodeGoes`, `CallsEnd`, `AwaitReturns`, `TasksComplete`, `ExitReturns`,
`CallsReturn`, `PeerDropUnblocks`, `SessionEnds`, `EveryCallEnds`), which the prover
does not do. Of these the safety part is proved where there is one: somebody is left
to perform a deferred reclamation (`DeferredFreeSafety`), to complete a future
(`SpawnedSafety`, `NoMissedCompletion`), to answer a call (`NoLostReply`), to go on
with the walks (`WalkProgress`), the tasks (`PoolProgress`) and the builds
(`LockSafety`). The steps that these name (`CanGoOn`, `Awake`) stand for `ENABLED`,
which the prover does not have either; TLC finds them to imply it on the instances
of section 3.

`Fidelity`, `NothingLost`, `ClosedOnce` and `ReturnsAreReached` of `Session`, too:
they are about what the recursive definitions of `SessionTypes` and `LinearFlow`
compute for every type and every function body, the prover has no induction over
data, and it loses its SMT backend beside recursive operators. Of the channels below
them everything is proved, in `ChannelProofs`, but for threads that call in any order.
`FlowEpoch` has no passing run and no theorem: the one promise it makes is the one
that it breaks.

## 5. Where the code and its comments disagree

Three runs show a statement of the repository violated by the code:

* `refcount_freed_once`: `mimi_rc_release` and `mimi_rc_weak_release` each
  decrement their own count and then read the other one. When both decrements
  come first, both sides find zero and deallocate; the comment at
  `src/src/runtime/mod.rs:2897` says "strong==0 and weak==0 guarantee exclusive
  access".
* `spawn_pool_exit`: the exit handler joins the dedicated threads with
  `SPAWN_HANDLES` locked (`src/src/runtime/future.rs:457-462`), and a dedicated
  thread that spawns needs that lock (`future.rs:511`); `future.rs:548` says the
  handler is there "to join all workers before exit".
* `flow_epoch_dropped`: a reused slot starts at the initial epoch again
  (`src/src/runtime/epoch.rs:162`), so the handle of a dropped flow is the handle
  of its successor; `epoch.rs:251` says "Subsequent use of the handle is
  EPOCH_ERR_STALE".

The modules also state what other comments say, in definitions marked "Does not
hold". No run checks them; naming one in a copy of the module's configuration
makes TLC print a behaviour that violates it:

| Definition | Comment | What the code does |
|---|---|---|
| `RefCount!WeakKeepsHeader` | `mod.rs:2914` | a weak release reads the strong count late and misses a weak reference taken since |
| `Future!ExecutorKeepsPending` | `future.rs:655` | the executor polls a future once and forgets it |
| `ActorMailbox!UnmutesAtHalf` | `actor.rs:278` | the worker unmutes against the limit it was started with |
| `ActorTree!CountExact` | `actor.rs:134` | a decrement that overtakes an increment saturates at zero |
| `ActorTree!QuotaHolds` | `actor.rs:132` | concurrent spawns all pass the quota test |
| `ActorTree!KillReachesDescendants` | `actor.rs:630` | the cascade does not pass an actor that was dropped |
| `Session!FidelityOnEveryPath` | `src/docs/language-spec.md:494`: "Any Session program that cannot prove residual completeness must be rejected" | a call in an `if` without `else`, or in a loop that breaks, is not counted (`core/check_stmt.rs:1069`): the same call behind it is accepted too and happens twice |
| `Session!FidelityOfTailIf` | the same, and `language-spec.md:487`: "Alias, fields, return values, and branch merge preserve residual" | an `if` with an `else` at the end of a body goes on into the else arm with what the then arm left (`core/infer/helpers.rs:48-52`). Against `!i64.end`, `if c { session_send(a, 1); session_close(a) } else { session_close(a) }` is accepted, and on the else path the peer's recv finds the channel disconnected; against `?i32.end`, an else arm that only closes loses the message. The same `if` with the send in both arms is refused (E0414), unless another statement follows it |
| `Channel!DropUnblocks` | `concurrency.rs:603` | dropping a session endpoint does not end a recv on it |
| `Channel!NoPutBackAfterDrop` | `concurrency.rs:600` | the put-back uses a check made under a lock since released (it takes a third thread, `Thread = {t1, t2, t3}`, that keeps the slot alive) |

The two of `Channel` are checked with a configuration of that module alone, with
specification `Spec`.
`Fidelity`, `NothingLost` and `SessionEnds` are stated for the runs on which
`strayed` stays empty: those that enter no skippable arm with a call in it ("skipped",
unless the arm returns), and no else arm at the end of a body whose then arm sends or
receives ("tail"). What they say is that a function is right wherever the checker
followed it, not that every function it accepts is right. `ClosedOnce` and
`ReturnsAreReached` are stated for all runs and all functions.

A hazard that no module has: an actor's worker is no pool worker, so a method that
spawns and awaits has its task queued in the pool (`future.rs:491` tests a flag that
only pool threads and their dedicated children set), while each task of the pool may
be blocked in a call on that actor, which blocks until the method returns
(`actor.rs:445`). The comment there says a child is "never queued behind a full
pool" and means children of pool tasks. Reading the code finds nothing that breaks
this cycle; no run shows it, and it is on the plan.

## 6. Not modelled, and why

The models cover about 4400 lines of an implementation of 448 000, one line in a
hundred. That is what carries shared state, concurrency, failures and the one
static promise above. Most of the rest is passes over syntax trees, code
generation, an interpreter and byte conversions, whose state is the program being
compiled: a model of them would be a second compiler, and a small instance of one
says little. A share of the lines that would be called broad is out of reach of
models that stay shorter than the code and true to it.

* Byte and text conversions: JSON text, wire formats, generated bindings, quoting,
  formatting. They have no state, and tests reach them.
* The compiler passes, but for the session checks: recursive functions over
  unbounded trees. Of the session checks: nested control flow, `match`, loans,
  functions with several endpoints, calls that pass an endpoint on, endpoints bound
  by `let (a, b) = session_pair()` (their residual appears at the first use, see the
  hazard at `core/check_stmt.rs:881`), the note that avoids checking a call twice,
  and `detect_session_cycle`, which only tests call.
* File, network, environment and crypto functions of the runtime: pure I/O.
* Of the runtime cache: the scanner that finds the included files (the set of files
  is a constant), the contents of the key beyond the sources (compiler version,
  target), reuse of a process id while a temporary of its former owner is still
  written, and the early returns on I/O errors of the key, the sweep and the lookup
  (for what may be on disk afterwards, `Crash` at the same step covers them). The compiler itself is external: it reads, writes, succeeds or fails.
* Memory orderings weaker than sequential consistency.
* Poisoned locks: the runtime takes the lock of a panicked thread over
  (`unwrap_or_else(|e| e.into_inner())`), and panics inside a critical section are
  not modelled.
* `mimi_broadcast`, the method-name table of actors, and the refusal of an argument
  buffer of an impossible size (`actor.rs:497`), a return before anything changes.
* Mutex and atomic handles: one lock or one atomic access per call; what can go
  wrong, two mutexes in opposite orders, is up to the program.
* The composition of actors and the pool: a worker, two tasks, an actor and its
  callers in one model are beyond the time a run has here.
* The component registry, packages and the language server: see the plan and the
  notes in PROJECT.json.

## 7. Plan

Done, with proofs of every safety property: the handle tables, their serializer
composition, the abstract handle life and the proof that the tables implement it;
reference counts; futures and actors, with the proofs that they implement
`FutureLife` and `ActorCall`; the spawn pool; the actor tree; channels; the runtime
library cache with crashes and edits. Done, model-checked: flow epochs; the session
checker and the linear analysis, composed with the channels.

Left, in this order:

1. The component registry (`src/src/component/handle.rs`) as a second
   implementation of `HandleLife`; its destroy clears a slot before it finds that
   the generation cannot advance (hazard at line 415).
2. Actors on the pool, in a model reduced to what the cycle of section 5 needs:
   `ActorCall` and `FutureLife` are what such a composition would be built from.
3. The bindings of `session_pair` and endpoints passed to calls in `Session`.
4. The flow matrix and the package resolver, against a reference definition.

## 8. Running it

    tlc -workers 2 -config HandleTableMap.cfg MCHandleTable
    tlapm HandleTableProofs.tla

PROJECT.json names the module and the configuration of each run, and for each
property a mutated definition, kept in the modules beside the original and marked
"Mutant", that makes TLC report the property violated.
