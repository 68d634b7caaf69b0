--------------------------- MODULE SerializerWalk ---------------------------
(***************************************************************************)
(* Recursive JSON serialization of Maps and Sets (the mimi_*_to_json_*     *)
(* functions of runtime/mod.rs), the one kind of runtime function that     *)
(* holds several leases of a HandleTable at a time.  Each node of a walk   *)
(* enters json_container_scope, takes the node's lease, serializes its     *)
(* children recursively, releases the lease and leaves the scope.  The     *)
(* scope takes a thread-reentrant, process-wide gate first, so that two    *)
(* walks cannot hold opposite ends of a handle graph; a per-thread path    *)
(* stops a walk from entering a node it is already inside of.              *)
(*                                                                         *)
(* The walks run beside ordinary operations, which hold one lease and take *)
(* no gate, and beside map_destroy.                                        *)
(***************************************************************************)
EXTENDS HandleTable, SequencesExt

CONSTANTS
  Children,  \* Children[i]: the containers stored in the container at index i
  MaxCalls   \* bound on the runtime calls each thread makes

ASSUME WalkAssumption ==
  /\ Children \in [Index -> SUBSET Index]
  /\ MaxCalls \in Nat

VARIABLES
  gate,     \* OPERATION_GATE.owner_depth: owner (or NoThread) and depth
  path,     \* JSON_CONTAINER_PATH of each thread, with each node's to-do set
  walk,     \* where the thread is in its walk
  target,   \* the node it wants to enter or lease
  calls,    \* calls made so far
  aborted   \* the process called abort()

walkVars == <<gate, path, walk, target, calls, aborted>>
allVars == <<vars, walkVars>>

HandleOf(i) == pack(i, 1)

\* The table after MaxIndex allocations, before any other call.
WalkInit ==
  /\ slots = [i \in Index |-> NewSlot(1)]
  /\ len = MaxIndex
  /\ free = << >>
  /\ floor = 1
  /\ exhausted = FALSE
  /\ pc = [t \in Thread |-> "run"]
  /\ arg = [t \in Thread |-> NoArg]
  /\ held = [t \in Thread |-> {}]
  /\ issued = {HandleOf(i) : i \in Index}
  /\ gate = [owner |-> NoThread, depth |-> 0]
  /\ path = [t \in Thread |-> << >>]
  /\ walk = [t \in Thread |-> "out"]
  /\ target = [t \in Thread |-> 1]
  /\ calls = [t \in Thread |-> 0]
  /\ aborted = FALSE

----------------------------------------------------------------------------
(* json_container_scope *)

\* Mutant: the path remembers no node.
OnPathForgets(p, i) == FALSE

\* JSON_CONTAINER_PATH contains the container.
OnPath(p, i) == \E n \in 1 .. Len(p) : p[n].node = i

\* SerializerGraphLease::acquire waits on the gate's condition variable.
GateSleeps(t, i, p) ==
  /\ gate.owner \notin {NoThread, t}
  /\ walk' = [walk EXCEPT ![t] = "gate_asleep"]
  /\ path' = [path EXCEPT ![t] = p]
  /\ target' = [target EXCEPT ![t] = i]
  /\ UNCHANGED gate

\* The gate is entered (or re-entered) and the node goes on the path.
GateEnters(t, i, p) ==
  /\ gate.owner \in {NoThread, t}
  /\ ~OnPath(p, i)
  /\ gate' = [owner |-> t, depth |-> gate.depth + 1]
  /\ path' = [path EXCEPT ![t] = Append(p, [node |-> i, todo |-> Children[i]])]
  /\ walk' = [walk EXCEPT ![t] = "lease"]
  /\ target' = [target EXCEPT ![t] = i]

\* The node is on the path already: the gate is dropped again and the caller
\* writes the cycle error into its output.
GateFindsCycle(t, i, p) ==
  /\ gate.owner = t
  /\ OnPath(p, i)
  /\ path' = [path EXCEPT ![t] = p]
  /\ UNCHANGED <<gate, walk, target>>

\* Mutant: the scope takes no gate, only the path is checked.
EnterScopeWithoutGate(t, i, p) ==
  \/ /\ ~OnPath(p, i)
     /\ path' = [path EXCEPT ![t] = Append(p, [node |-> i, todo |-> Children[i]])]
     /\ walk' = [walk EXCEPT ![t] = "lease"]
     /\ target' = [target EXCEPT ![t] = i]
     /\ UNCHANGED gate
  \/ /\ OnPath(p, i)
     /\ path' = [path EXCEPT ![t] = p]
     /\ UNCHANGED <<gate, walk, target>>

\* Thread t, whose path is p, enters the scope of node i.
EnterScope(t, i, p) ==
  GateSleeps(t, i, p) \/ GateEnters(t, i, p) \/ GateFindsCycle(t, i, p)

\* Mutant: the gate's condition variable is never notified.
GateNotifiesNobody == walk

\* notify_all on the gate's condition variable.
GateNotified ==
  [t \in Thread |-> IF walk[t] = "gate_asleep" THEN "gate_woken" ELSE walk[t]]

\* Drop of JsonContainerScope and of its SerializerGraphLease.
LeaveScope(t) ==
  /\ walk[t] = "leave"
  /\ LET rest == Front(path[t])
         next == IF rest = << >> THEN "out" ELSE "node"
     IN  /\ path' = [path EXCEPT ![t] = rest]
         /\ IF gate.depth = 1
              THEN /\ gate' = [owner |-> NoThread, depth |-> 0]
                   /\ walk' = [GateNotified EXCEPT ![t] = next]
              ELSE /\ gate' = [gate EXCEPT !.depth = @ - 1]
                   /\ walk' = [walk EXCEPT ![t] = next]
  /\ UNCHANGED <<vars, target, calls, aborted>>

----------------------------------------------------------------------------
(* The walk *)

\* A thread that is in no runtime call.
Idle(t) == walk[t] = "out" /\ pc[t] = "run" /\ held[t] = {}

CountCall(t) ==
  /\ Idle(t)
  /\ calls[t] < MaxCalls
  /\ calls' = [calls EXCEPT ![t] = @ + 1]

StartWalk(t, i) ==
  /\ CountCall(t)
  /\ EnterScope(t, i, << >>)
  /\ UNCHANGED <<vars, aborted>>

GateWoken(t) ==
  /\ walk[t] = "gate_woken"
  /\ EnterScope(t, target[t], path[t])
  /\ UNCHANGED <<vars, calls, aborted>>

\* map_from_handle / set_from_handle: take the lease, wait, or abort.
LeaseNode(t) ==
  /\ walk[t] = "lease"
  /\ LET h == HandleOf(target[t])
     IN  /\ Acquire(t, h) \/ Reacquire(t)
         /\ aborted' = (h \notin held'[t] /\ pc'[t] # "asleep")
         /\ walk' = IF h \in held'[t] THEN [walk EXCEPT ![t] = "node"] ELSE walk
  /\ UNCHANGED <<gate, path, target, calls>>

\* The next entry of the node is itself a container: recurse into it.
VisitChild(t) ==
  /\ walk[t] = "node"
  /\ \E c \in Last(path[t]).todo :
       EnterScope(t, c, [path[t] EXCEPT ![Len(path[t])].todo = @ \ {c}])
  /\ UNCHANGED <<vars, calls, aborted>>

\* All entries are written: the lease guard is dropped before the scope.
FinishNode(t) ==
  /\ walk[t] = "node"
  /\ Last(path[t]).todo = {}
  /\ Release(t, HandleOf(Last(path[t]).node))
  /\ walk' = [walk EXCEPT ![t] = "leave"]
  /\ UNCHANGED <<gate, path, target, calls, aborted>>

----------------------------------------------------------------------------
(* Ordinary operations beside the walks *)

PlainCall(t, h) ==
  /\ CountCall(t)
  /\ Acquire(t, h) \/ Destroy(t, h)
  /\ UNCHANGED <<gate, path, walk, target, aborted>>

PlainContinue(t) ==
  /\ walk[t] = "out"
  /\ \/ Reacquire(t)
     \/ DestroyFinish(t)
     \/ \E h \in issued : Release(t, h)
  /\ UNCHANGED walkVars

WalkStep(t) ==
  \/ LeaseNode(t)
  \/ VisitChild(t)
  \/ FinishNode(t)
  \/ LeaveScope(t)
  \/ GateWoken(t)

WalkNext ==
  /\ ~aborted
  /\ \E t \in Thread :
       \/ WalkStep(t)
       \/ PlainContinue(t)
       \/ \E i \in Index : StartWalk(t, i) \/ PlainCall(t, HandleOf(i))

\* Every thread that is inside a runtime call keeps running.
WalkSpec ==
  /\ WalkInit
  /\ [][WalkNext]_allVars
  /\ \A t \in Thread : WF_allVars(~aborted /\ (WalkStep(t) \/ PlainContinue(t)))

----------------------------------------------------------------------------
(* Properties *)

\* The thread a blocked thread waits for.
WaitsFor(t) ==
  CASE walk[t] = "gate_asleep" -> gate.owner
    [] pc[t] = "asleep"        -> slots[arg[t].index].owner
    [] OTHER                   -> NoThread

\* Walks and operations never wait for each other in a circle, although a
\* walk waits for leases while it owns the gate and other leases, and two
\* walks may start from opposite ends of a cyclic object graph.
NoWaitCycle ==
  ~ \E S \in SUBSET Thread :
      S # {} /\ \A t \in S : WaitsFor(t) \in S

\* A walk never finds itself the owner of the lease it asks for, which would
\* abort the process: cycles are caught by the path before the lease.
WalkNeverReenters ==
  \A t \in Thread :
    walk[t] = "lease" => slots[target[t]].owner # t

\* No lost wake-up at the gate: a thread sleeps on the gate's condition variable
\* only while another thread is inside of a walk, and will leave it.
GateSleepersHaveReason ==
  \A t \in Thread : walk[t] = "gate_asleep" => gate.owner \notin {NoThread, t}

\* The thread is inside of a runtime call and has a step to take: it sleeps
\* neither at the gate nor for a lease.
Awake(t) == ~Idle(t) /\ walk[t] # "gate_asleep" /\ pc[t] # "asleep"

\* While any call is under way, some call can go on: the sleepers at the gate
\* and those for a lease never make up all of them.
SomeCallGoesOn == (\E t \in Thread : ~Idle(t)) => \E t \in Thread : Awake(t)

\* Once the threads stop making new calls, every walk and every operation
\* ends, unless a destroyed node made the process abort.
CallsEnd ==
  \A t \in Thread : ~Idle(t) ~> (Idle(t) \/ aborted)

\* A container that is destroyed while a walk or an operation leases it is
\* reclaimed, by whoever ends that lease, unless the process aborts first.
DestroyedNodeGoes ==
  \A i \in Index : slots[i].pending_free ~> (slots[i].obj = "none" \/ aborted)
=============================================================================
