-------------------------- MODULE SpawnPoolProofs --------------------------
(***************************************************************************)
(* Proof, for every forest of tasks and every number of workers, that no   *)
(* thread of the spawn pool outlives the exit handler, and that the pool   *)
(* never gets stuck before it.                                             *)
(***************************************************************************)
EXTENDS SpawnPool, SequenceTheorems, FiniteSetTheorems, WellFoundedInduction, TLAPS

USE PoolAssumption

----------------------------------------------------------------------------
(* The inductive invariant *)

\* A task spawns its own children, and is running while it registers one.
Families ==
  \A t \in Task :
    /\ todo[t] \subseteq Kids[t]
    /\ pushing[t] # NoTask => pushing[t] \in Kids[t] /\ state[t] = "running"

\* What runs has a thread: its dedicated one or a worker.
OnThread ==
  \A t \in Task :
    state[t] = "running" => t \in dedicated \/ \E w \in Worker : job[w] = t

\* What is queued is in the channel.
InQueue ==
  \A t \in Task : state[t] = "queued" => \E n \in 1 .. Len(queue) : queue[n] = t

\* A dedicated thread is on the list, or its parent is about to put it there.
Registered ==
  main # "exited" =>
    \A c \in dedicated : c \in handles \/ \E t \in Task : pushing[t] = c

\* Workers return only after the last job, and the handler waits for them.
Drained ==
  /\ sender = "closed" => main # "run"
  /\ (\E w \in Worker : job[w] = Gone) => sender = "closed" /\ queue = << >>
  /\ main \in {"join_handles", "exited"} => \A w \in Worker : job[w] = Gone

IInv == TypeOK /\ Families /\ OnThread /\ InQueue /\ Registered /\ Drained /\ ExitJoinsAll

----------------------------------------------------------------------------
(* Each action preserves it *)

LEMMA InvInit == Init => IInv
<1> SUFFICES ASSUME Init PROVE IInv
  OBVIOUS
<1>1. Kids \in [Task -> SUBSET Task]
  OBVIOUS
<1>2. TypeOK
  BY <1>1 DEF Init, TypeOK
<1>3. Families /\ OnThread /\ InQueue /\ Registered
  BY DEF Init, Families, OnThread, InQueue, Registered
<1>4. Drained /\ ExitJoinsAll
  BY DEF Init, Drained, ExitJoinsAll
<1> QED BY <1>2, <1>3, <1>4 DEF IInv

\* While somebody is left to run, the process has not exited.
LEMMA MainStepKeeps ==
  ASSUME IInv, main # "exited", MainStep
  PROVE  IInv'
<1>1. ASSUME NEW t \in Root, MainSpawn(t) PROVE IInv'
  <2>1. TypeOK'
    BY <1>1 DEF IInv, TypeOK, MainSpawn
  <2>2. Families' /\ OnThread' /\ Registered'
    BY <1>1 DEF IInv, TypeOK, MainSpawn, Families, OnThread, Registered
  <2>3. InQueue'
    BY <1>1, AppendProperties DEF IInv, TypeOK, MainSpawn, InQueue
  <2>4. Drained' /\ ExitJoinsAll'
    BY <1>1 DEF IInv, TypeOK, MainSpawn, Drained, ExitJoinsAll
  <2> QED BY <2>1, <2>2, <2>3, <2>4 DEF IInv
<1>2. CASE MainExit
  BY <1>2 DEF IInv, TypeOK, MainExit, Families, OnThread, InQueue, Registered, Drained,
              ExitJoinsAll
<1>3. CASE JoinPool
  BY <1>3 DEF IInv, TypeOK, JoinPool, Families, OnThread, InQueue, Registered, Drained,
              ExitJoinsAll
<1>4. CASE JoinHandles
  <2>1. TypeOK' /\ Families' /\ OnThread' /\ InQueue' /\ Registered' /\ Drained'
    BY <1>4 DEF IInv, TypeOK, JoinHandles, Families, OnThread, InQueue, Registered,
                Drained
  <2>2. \A w \in Worker : job[w] = Gone
    BY <1>4 DEF IInv, Drained, JoinHandles
  <2>3. queue = << >>
    BY <2>2 DEF IInv, Drained
  <2>4. \A t \in Task : state[t] # "queued"
    <3>1. 1 .. Len(queue) = {}
      BY <2>3
    <3> QED BY <3>1, Zenon DEF IInv, InQueue
  <2>5. \A t \in Task : state[t] = "running" => t \in dedicated
    BY <2>2 DEF IInv, OnThread
  \* A dedicated thread that is not joined was started by another one.
  <2>6. \A c \in dedicated : \E t \in dedicated : c \in Kids[t]
    BY <1>4, <2>5 DEF IInv, Registered, Families, JoinHandles, TypeOK
  <2>7. dedicated = {}
    <3>1. dedicated \in SUBSET Task
      BY DEF IInv, TypeOK
    <3> QED BY <2>6, <3>1
  <2>8. ExitJoinsAll'
    BY <1>4, <2>3, <2>4, <2>5, <2>7 DEF IInv, TypeOK, ExitJoinsAll, JoinHandles
  <2> QED BY <2>1, <2>8 DEF IInv
<1> QED BY <1>1, <1>2, <1>3, <1>4 DEF MainStep

LEMMA WorkerStepKeeps ==
  ASSUME IInv, main # "exited", NEW w \in Worker, WorkerStep(w)
  PROVE  IInv'
<1>1. CASE Take(w)
  <2>1. Head(queue) \in Root /\ Tail(queue) \in Seq(Root)
    BY <1>1 DEF IInv, TypeOK, Take
  <2>2. TypeOK'
    BY <1>1, <2>1 DEF IInv, TypeOK, Take
  <2>3. Families' /\ Registered' /\ ExitJoinsAll'
    BY <1>1, <2>1 DEF IInv, TypeOK, Take, Families, Registered, ExitJoinsAll
  <2>4. OnThread'
    BY <1>1, <2>1 DEF IInv, TypeOK, Take, OnThread
  <2>5. InQueue'
    <3> SUFFICES ASSUME NEW t \in Task, state'[t] = "queued"
                 PROVE  \E n \in 1 .. Len(queue') : queue'[n] = t
      BY DEF InQueue
    <3>1. t # Head(queue) /\ state[t] = "queued"
      BY <1>1 DEF IInv, TypeOK, Take
    <3>2. PICK n \in 1 .. Len(queue) : queue[n] = t
      BY <3>1 DEF IInv, InQueue
    <3>3. n # 1 /\ n - 1 \in 1 .. Len(Tail(queue)) /\ Tail(queue)[n - 1] = t
      BY <1>1, <3>1, <3>2 DEF IInv, TypeOK, Take
    <3> QED BY <1>1, <3>3 DEF Take
  <2>6. Drained'
    BY <1>1 DEF IInv, TypeOK, Take, Drained
  <2> QED BY <2>2, <2>3, <2>4, <2>5, <2>6 DEF IInv
<1>2. CASE WorkerReturns(w)
  <2>1. TypeOK' /\ Families' /\ InQueue' /\ Registered' /\ ExitJoinsAll'
    BY <1>2 DEF IInv, TypeOK, WorkerReturns, Families, InQueue, Registered, ExitJoinsAll
  <2>2. OnThread'
    BY <1>2 DEF IInv, TypeOK, WorkerReturns, OnThread
  <2>3. Drained'
    BY <1>2 DEF IInv, TypeOK, WorkerReturns, Drained
  <2> QED BY <2>1, <2>2, <2>3 DEF IInv
<1> QED BY <1>1, <1>2 DEF WorkerStep

LEMMA TaskStepKeeps ==
  ASSUME IInv, main # "exited", NEW t \in Task, TaskStep(t)
  PROVE  IInv'
<1>1. ASSUME NEW c \in Task, SpawnKid(t, c) PROVE IInv'
  <2>1. c \in Task \ Root /\ c \in Kids[t] /\ c # NoTask
    BY <1>1 DEF IInv, Families, SpawnKid
  <2>2. TypeOK'
    BY <1>1, <2>1 DEF IInv, TypeOK, SpawnKid
  <2>3. Families' /\ InQueue' /\ Drained' /\ ExitJoinsAll'
    BY <1>1, <2>1 DEF IInv, TypeOK, SpawnKid, Families, InQueue, Drained, ExitJoinsAll
  <2>4. OnThread' /\ Registered'
    BY <1>1, <2>1 DEF IInv, TypeOK, SpawnKid, OnThread, Registered
  <2> QED BY <2>2, <2>3, <2>4 DEF IInv
<1>2. ASSUME NEW c \in Task, AwaitKid(t, c) PROVE IInv'
  BY <1>2 DEF IInv, TypeOK, AwaitKid, Families, OnThread, InQueue, Registered, Drained,
              ExitJoinsAll
<1>3. CASE PushHandle(t)
  <2>1. pushing[t] \in Task \ Root
    BY <1>3 DEF IInv, Families, PushHandle
  <2>2. TypeOK'
    BY <1>3, <2>1 DEF IInv, TypeOK, PushHandle
  <2>3. Families' /\ OnThread' /\ InQueue' /\ Drained' /\ ExitJoinsAll'
    BY <1>3 DEF IInv, TypeOK, PushHandle, Families, OnThread, InQueue, Drained,
                ExitJoinsAll
  <2>4. Registered'
    BY <1>3 DEF IInv, TypeOK, PushHandle, Registered
  <2> QED BY <2>2, <2>3, <2>4 DEF IInv
<1>4. CASE Finish(t)
  <2>1. TypeOK'
    BY <1>4 DEF IInv, TypeOK, Finish
  <2>2. Families' /\ InQueue' /\ Registered' /\ ExitJoinsAll'
    BY <1>4 DEF IInv, TypeOK, Finish, Families, InQueue, Registered, ExitJoinsAll
  <2>3. OnThread' /\ Drained'
    BY <1>4 DEF IInv, TypeOK, Finish, OnThread, Drained
  <2> QED BY <2>1, <2>2, <2>3 DEF IInv
<1> QED BY <1>1, <1>2, <1>3, <1>4 DEF TaskStep

LEMMA InvStep == IInv /\ [Next]_vars => IInv'
<1> SUFFICES ASSUME IInv, [Next]_vars PROVE IInv'
  OBVIOUS
<1>1. CASE UNCHANGED vars
  BY <1>1 DEF vars, IInv, TypeOK, Families, OnThread, InQueue, Registered, Drained,
              ExitJoinsAll
<1> QED BY <1>1, MainStepKeeps, WorkerStepKeeps, TaskStepKeeps DEF Next

----------------------------------------------------------------------------
(* Results *)

\* The inductive invariant holds in every reachable state: whatever runs has a
\* thread, and every dedicated thread is on the list or has a running parent.
THEOREM Invariance == Spec => []IInv
BY InvInit, InvStep, PTL DEF Spec

\* Every variable keeps its type; only main's own tasks pass through the queue.
THEOREM PoolTypeCorrect == Spec => []TypeOK
BY Invariance, PTL DEF IInv

\* When the exit handler has returned, no job is queued and no task runs, though
\* a task may spawn while the handler waits and pushes its child's join handle
\* only after the child's thread started.
THEOREM ExitSafety == Spec => []ExitJoinsAll
BY Invariance, PTL DEF IInv

----------------------------------------------------------------------------
(* II. The pool never gets stuck *)

Running == {t \in Task : state[t] = "running"}

\* A child that its parent has spawned runs or is done: it never waits for a
\* worker.
KidsRun ==
  \A t \in Task :
    /\ awaiting[t] \subseteq Kids[t]
    /\ \A c \in Kids[t] \ todo[t] : state[c] \in {"running", "done"}

\* A worker holds on to its job only while that runs.
JobsRun == \A w \in Worker : job[w] \in Task => state[job[w]] = "running"

StuckInv == KidsRun /\ JobsRun /\ IsFiniteSet(Running)

LEMMA StuckInit == Init => StuckInv
<1> SUFFICES ASSUME Init PROVE StuckInv
  OBVIOUS
<1>1. KidsRun /\ JobsRun
  BY DEF Init, KidsRun, JobsRun
<1>2. Running = {}
  BY DEF Init, Running
<1>3. QED
  BY <1>1, <1>2, FS_EmptySet DEF StuckInv

LEMMA RunningGrows ==
  ASSUME IInv, IsFiniteSet(Running), NEW t \in Task, state' = [state EXCEPT ![t] = "running"]
  PROVE  IsFiniteSet(Running')
<1>1. Running' = Running \cup {t}
  BY DEF Running, IInv, TypeOK
<1>2. QED
  BY <1>1, FS_AddElement

LEMMA RunningShrinks ==
  ASSUME IInv, IsFiniteSet(Running), NEW t \in Task, NEW s, s # "running",
         state' = [state EXCEPT ![t] = s]
  PROVE  IsFiniteSet(Running')
<1>1. Running' \in SUBSET Running
  BY DEF Running, IInv, TypeOK
<1>2. QED
  BY <1>1, FS_Subset

LEMMA StuckNext == IInv /\ StuckInv /\ [Next]_vars => StuckInv'
<1> SUFFICES ASSUME IInv, StuckInv, [Next]_vars PROVE StuckInv'
  OBVIOUS
<1>0. Root \subseteq Task /\ DOMAIN state = Task /\ DOMAIN job = Worker
  BY DEF IInv, TypeOK
<1>1. ASSUME NEW t \in Root, MainSpawn(t) PROVE StuckInv'
  <2>1. KidsRun'
    BY <1>1 DEF IInv, TypeOK, StuckInv, KidsRun, MainSpawn
  <2>2. JobsRun'
    BY <1>1 DEF IInv, TypeOK, StuckInv, JobsRun, MainSpawn
  <2>3. IsFiniteSet(Running')
    BY <1>0, <1>1, RunningShrinks DEF MainSpawn, StuckInv
  <2>4. QED
    BY <2>1, <2>2, <2>3 DEF StuckInv
<1>2. CASE MainExit \/ JoinPool \/ JoinHandles \/ UNCHANGED vars
  BY <1>2 DEF MainExit, JoinPool, JoinHandles, vars, StuckInv, KidsRun, JobsRun, Running
<1>3. ASSUME NEW w \in Worker, Take(w) PROVE StuckInv'
  <2>1. PICK r \in Root : r = Head(queue)
    BY <1>3 DEF Take, IInv, TypeOK
  <2>2. /\ job' = [job EXCEPT ![w] = r] /\ state' = [state EXCEPT ![r] = "running"]
        /\ UNCHANGED <<todo, awaiting>> /\ r \in Task
    BY <1>3, <2>1 DEF Take
  <2>3. KidsRun'
    BY <1>0, <2>2 DEF StuckInv, KidsRun
  <2>4. JobsRun'
    BY <1>0, <2>2 DEF StuckInv, JobsRun
  <2>5. IsFiniteSet(Running')
    BY <2>2, RunningGrows DEF StuckInv
  <2>6. QED
    BY <2>3, <2>4, <2>5 DEF StuckInv
<1>4. ASSUME NEW w \in Worker, WorkerReturns(w) PROVE StuckInv'
  BY <1>0, <1>4 DEF WorkerReturns, StuckInv, KidsRun, JobsRun, Running
<1>5. ASSUME NEW t \in Task, NEW c \in Task, SpawnKid(t, c) PROVE StuckInv'
  <2>1. KidsRun'
    BY <1>5 DEF SpawnKid, IInv, TypeOK, StuckInv, KidsRun
  <2>2. JobsRun'
    BY <1>0, <1>5 DEF SpawnKid, StuckInv, JobsRun
  <2>3. IsFiniteSet(Running')
    BY <1>5, RunningGrows DEF SpawnKid, StuckInv
  <2>4. QED
    BY <2>1, <2>2, <2>3 DEF StuckInv
<1>6. ASSUME NEW t \in Task, NEW c \in Task, AwaitKid(t, c) PROVE StuckInv'
  BY <1>6 DEF AwaitKid, IInv, TypeOK, StuckInv, KidsRun, JobsRun, Running
<1>7. ASSUME NEW t \in Task, PushHandle(t) PROVE StuckInv'
  BY <1>7 DEF PushHandle, StuckInv, KidsRun, JobsRun, Running
<1>8. ASSUME NEW t \in Task, Finish(t) PROVE StuckInv'
  <2>1. KidsRun'
    BY <1>0, <1>8 DEF Finish, StuckInv, KidsRun
  <2>2. JobsRun'
    BY <1>0, <1>8 DEF Finish, StuckInv, JobsRun
  <2>3. IsFiniteSet(Running')
    BY <1>8, RunningShrinks DEF Finish, StuckInv
  <2>4. QED
    BY <2>1, <2>2, <2>3 DEF StuckInv
<1>9. QED
  BY <1>1, <1>2, <1>3, <1>4, <1>5, <1>6, <1>7, <1>8
     DEF Next, MainStep, WorkerStep, TaskStep

LEMMA LeastNat ==
  ASSUME NEW B, B \subseteq Nat, B # {}
  PROVE  \E n \in B : \A m \in B : n <= m
<1>1. PICK n \in B : \A m \in B : ~(<<m, n>> \in OpToRel(<, Nat))
  BY NatLessThanWellFounded, WFMin, Zenon
<1>2. ASSUME NEW m \in B PROVE ~(m < n)
  <2>1. m \in Nat /\ n \in Nat /\ ~(<<m, n>> \in OpToRel(<, Nat))
    BY <1>1, Zenon
  <2>2. QED
    BY <2>1 DEF OpToRel
<1>3. QED
  BY <1>2

\* A set of tasks in which each has a child of its own in the set.
Endless(S) == S # {} /\ \A c \in S : Kids[c] \cap S # {}

\* A finite set of tasks is not endless: of a smallest one, take a task without a
\* parent in it; nobody in the rest has lost a child.
LEMMA FiniteEnds ==
  ASSUME NEW S \in SUBSET Task, IsFiniteSet(S)
  PROVE  ~Endless(S)
<1> DEFINE Bad == {n \in Nat : \E T \in SUBSET Task :
                      IsFiniteSet(T) /\ Cardinality(T) = n /\ Endless(T)}
<1>1. ASSUME Bad # {} PROVE FALSE
  <2>1. PICK n \in Bad : \A m \in Bad : n <= m
    <3>1. Bad \subseteq Nat
      OBVIOUS
    <3> HIDE DEF Bad
    <3>2. QED
      BY <1>1, <3>1, LeastNat
  <2>2. PICK T \in SUBSET Task : IsFiniteSet(T) /\ Cardinality(T) = n /\ Endless(T)
    OBVIOUS
  <2>3. PICK c \in T : \A t \in T : c \notin Kids[t]
    BY <2>2 DEF Endless
  <2>4. IsFiniteSet(T \ {c}) /\ Cardinality(T \ {c}) = n - 1
    BY <2>2, <2>3, FS_RemoveElement
  <2>5. n - 1 \in Nat
    BY <2>4, FS_CardinalityType
  <2>6. Endless(T \ {c})
    <3>1. PICK d \in T : d \in Kids[c]
      BY <2>2 DEF Endless
    <3>2. d # c
      BY <2>3, <3>1
    <3>3. ASSUME NEW t \in T \ {c} PROVE Kids[t] \cap (T \ {c}) # {}
      BY <2>2, <2>3, <3>3 DEF Endless
    <3>4. QED
      BY <3>1, <3>2, <3>3 DEF Endless
  <2>7. n - 1 \in Bad
    BY <2>4, <2>5, <2>6
  <2>8. QED
    BY <2>1, <2>5, <2>7
<1>2. Cardinality(S) \in Nat
  BY FS_CardinalityType
<1>3. QED
  BY <1>1, <1>2

LEMMA StuckImplies == IInv /\ StuckInv => NeverStuck
<1> SUFFICES ASSUME IInv, StuckInv, main # "exited",
                    main = "join_handles" => \A t \in Task : pushing[t] = NoTask,
                    \E t \in Task : state[t] \in {"queued", "running"},
                    \A t \in Task : ~CanGoOn(t)
             PROVE  queue # << >> /\ \E w \in Worker : job[w] = NoTask
  BY DEF NeverStuck
<1>1. ASSUME NEW t \in Running PROVE Kids[t] \cap Running # {}
  <2>1. /\ pushing[t] = NoTask /\ todo[t] = {} /\ awaiting[t] # {}
        /\ \A c \in awaiting[t] : state[c] # "done"
    BY <1>1 DEF Running, CanGoOn
  <2>2. PICK c \in awaiting[t] : state[c] # "done"
    BY <2>1
  <2>3. c \in Kids[t] /\ c \in Task /\ state[c] = "running"
    BY <2>1, <2>2 DEF StuckInv, KidsRun, Running
  <2>4. QED
    BY <2>3 DEF Running
<1>2. Running = {}
  BY <1>1, FiniteEnds DEF Endless, StuckInv, Running
<1>3. PICK t \in Task : state[t] = "queued"
  BY <1>2 DEF Running
<1>4. queue # << >>
  BY <1>3 DEF IInv, InQueue
<1>5. PICK w \in Worker : TRUE
  OBVIOUS
<1>6. job[w] # Gone
  BY <1>4 DEF IInv, Drained
<1>7. job[w] \notin Task
  BY <1>2 DEF StuckInv, JobsRun, Running
<1>8. job[w] = NoTask
  BY <1>6, <1>7 DEF IInv, TypeOK
<1>9. QED
  BY <1>4, <1>8

\* For any forest of tasks, finite or not, and any number of workers, a task that
\* is queued or runs always leaves somebody who can go on, except under an exit
\* handler that joins with the list of handles locked: a nested spawn gets its
\* own thread, so that no await waits for a worker, and a chain of awaits ends.
THEOREM PoolProgress == Spec => []NeverStuck
BY StuckInit, StuckNext, StuckImplies, Invariance, PTL DEF Spec
=============================================================================
