------------------------------- MODULE TaskPool -------------------------------
(***************************************************************************)
(* Task pools and the life of services: SAMGR_CreateFixedTaskPool,         *)
(* SAMGR_StartTaskPool, SAMGR_ReferenceTaskPool, SAMGR_ReleaseTaskPool and *)
(* TaskEntry of task_manager.c; AddTaskPool, GetSpecifiedTaskPool,         *)
(* InitializeAllServices, RegisterService and UnregisterService of         *)
(* samgr_lite.c; QUEUE_Destroy.                                            *)
(*                                                                         *)
(* Pools and ServiceImpl objects are heap objects with a number; numbers   *)
(* are not used again.  Clients register and unregister services and send  *)
(* requests, one thread runs SAMGR_Bootstrap, and every started pool has   *)
(* its task (DEFAULT_SIZE = SINGLE_SIZE = 1).  The samgr mutex is held     *)
(* across steps only by SAMGR_Bootstrap.                                   *)
(*                                                                         *)
(* Assumed of clients: a service is unregistered only when its             *)
(* initialisation is over, and nobody sends to the Identity of a service   *)
(* after it was unregistered.  With Quiet, a service is unregistered only  *)
(* when none of its requests is queued or running either.                  *)
(***************************************************************************)
EXTENDS Vector

CONSTANTS
  Svcs,       \* the services, by name
  Config,     \* Config[s]: what GetTaskConfig of s returns
  Positions,  \* indices of sharedPool
  MaxRef,     \* MAX_REF_NUM
  QueueSize,  \* queueSize of a pool
  MaxPool, MaxImpl, MaxFail, \* bounds: pools, ServiceImpls, failed creations
  MaxRequests, \* bound: requests queued or running at one time
  Quiet       \* see above

Pools == 1 .. MaxPool
Impls == 1 .. MaxImpl
Message == [type : {"MSG_DIRECT", "MSG_NON", "MSG_EXIT"}, serviceId : Int,
            impl : Impls \cup {NULL}]
Flags == {"SHARED_TASK", "SPECIFIED_TASK", "SINGLE_TASK", "NO_TASK"}

ASSUME TaskPoolAssumption ==
  /\ Config \in [Svcs -> [taskFlags : Flags, pos : Positions]]
  /\ MaxRef \in Nat \ {0, 1} /\ QueueSize \in Nat \ {0}
  /\ MaxPool \in Nat /\ MaxImpl \in Nat /\ MaxFail \in Nat /\ MaxRequests \in Nat
  /\ Quiet \in BOOLEAN
  /\ IsFiniteSet(Positions)
  /\ NULL \notin Pools \cup Impls \cup Message

VARIABLES
  services,    \* samgr->services, a vector of ServiceImpls
  impl,        \* impl[m]: the object m, see ImplType
  sharedPool,  \* samgr->sharedPool
  pool,        \* pool[p]: the object p, see PoolType
  queue,       \* the messages in the queue of each pool
  task,        \* where the task of each pool is
  serviceImpl, \* the local variable of each task: the last service
  msg,         \* the message each task is processing
  bootPc,      \* where SAMGR_Bootstrap is
  todo,        \* the services it collected
  next,        \* its loop index
  failures     \* history: creations that failed

registryVars == <<services, impl>>
poolVars == <<sharedPool, pool>>
taskVars == <<task, serviceImpl, msg>>
bootVars == <<bootPc, todo, next, failures>>
vars == <<services, impl, sharedPool, pool, queue, task, serviceImpl, msg,
          bootPc, todo, next, failures>>

\* st: "none", "init" and "idle" (registered, SVC_INIT or not), "freed".
ImplType == [st : {"none", "init", "idle", "freed"}, name : Svcs \cup {NULL},
             serviceId : Int, taskPool : Pools \cup {NULL}]
\* st: "none", "live", "freed"; running: pool->top > 0.
PoolType == [st : {"none", "live", "freed"}, ref : 0 .. MaxRef, running : BOOLEAN,
             destroyed : BOOLEAN]

Nothing == [st |-> "none", name |-> NULL, serviceId |-> INVALID_INDEX, taskPool |-> NULL]

Init ==
  /\ services = VECTOR_Make
  /\ impl = [m \in Impls |-> Nothing]
  /\ sharedPool = [i \in Positions |-> NULL]
  /\ pool = [p \in Pools |-> [st |-> "none", ref |-> 0, running |-> FALSE,
                              destroyed |-> FALSE]]
  /\ queue = [p \in Pools |-> <<>>]
  /\ task = [p \in Pools |-> "none"]
  /\ serviceImpl = [p \in Pools |-> NULL]
  /\ msg = [p \in Pools |-> NULL]
  /\ bootPc = "idle" /\ todo = <<>> /\ next = 1
  /\ failures = 0

Registered == {m \in Impls : impl[m].st \in {"init", "idle"}}
ImplsOf(p) == {m \in Registered : impl[m].taskPool = p}
Lockable == bootPc \in {"idle", "collected"}

InitMsg(m) == [type |-> "MSG_DIRECT", serviceId |-> impl[m].serviceId, impl |-> m]
RequestMsg(m) == [type |-> "MSG_NON", serviceId |-> impl[m].serviceId, impl |-> NULL]
ExitMsg == [type |-> "MSG_EXIT", serviceId |-> INVALID_INDEX, impl |-> NULL]

HasRoom(p) == Len(queue[p]) < QueueSize

\* QUEUE_Put with DONT_WAIT.
Put(p, m) == queue' = IF HasRoom(p) THEN [queue EXCEPT ![p] = Append(@, m)] ELSE queue

-----------------------------------------------------------------------------
(* Clients *)

\* GetService: the registered object with this name.
Find(s) == VECTOR_First({i \in Held(services) : impl[VECTOR_At(services, i)].name = s})

Fresh(objects, kind) == {x \in objects : kind[x].st = "none" /\
                           \A y \in objects : kind[y].st = "none" => x <= y}

RegisterService(s) ==
  /\ Lockable /\ Find(s) = INVALID_INDEX
  /\ \E m \in Fresh(Impls, impl) :
       /\ services' = VECTOR_Add(services, m)
       /\ impl' = [impl EXCEPT ![m] = [st |-> "init", name |-> s, taskPool |-> NULL,
                                       serviceId |-> AddIndex(services)]]
  /\ UNCHANGED <<poolVars, queue, taskVars, bootVars>>

\* Nothing that belongs to m's initialisation is still to happen.
Settled(m) ==
  /\ \A i \in DOMAIN todo : todo[i] # m
  /\ \A p \in Pools : \A i \in DOMAIN queue[p] :
       ~ (queue[p][i].type = "MSG_DIRECT" /\ queue[p][i].impl = m)
  /\ \A p \in Pools :
       msg[p] # NULL => ~ (msg[p].type = "MSG_DIRECT" /\ msg[p].impl = m)

\* No request for m is queued or running.
Idle(m) ==
  LET p == impl[m].taskPool
      mine(r) == r.serviceId = impl[m].serviceId
  IN p # NULL => /\ \A i \in DOMAIN queue[p] : ~ mine(queue[p][i])
                 /\ msg[p] # NULL => ~ mine(msg[p])

\* Mutant: the pool is released while one service still refers to it.
ReleaseTaskPoolEarly(p) ==
  LET last == p # NULL /\ pool[p].ref <= 2
  IN /\ pool' = IF p = NULL THEN pool
                ELSE [pool EXCEPT ![p].ref = @ - 1, ![p].st = IF last THEN "freed" ELSE @]
     /\ IF last THEN Put(p, ExitMsg) ELSE UNCHANGED queue

\* SAMGR_ReleaseTaskPool: the last reference sends the task the exit
\* message, which a full queue refuses, and frees the pool.
SAMGR_ReleaseTaskPool(p) ==
  LET last == p # NULL /\ pool[p].ref = 1
  IN /\ pool' = IF p = NULL THEN pool
                ELSE [pool EXCEPT ![p].ref = @ - 1, ![p].st = IF last THEN "freed" ELSE @]
     /\ IF last THEN Put(p, ExitMsg) ELSE UNCHANGED queue

UnregisterService(s) ==
  /\ Lockable /\ Find(s) # INVALID_INDEX
  /\ LET m == VECTOR_At(services, Find(s))
     IN /\ Settled(m) /\ (Quiet => Idle(m))
        /\ services' = VECTOR_Release(services, Find(s))
        /\ SAMGR_ReleaseTaskPool(impl[m].taskPool)
        /\ impl' = [impl EXCEPT ![m] = [Nothing EXCEPT !.st = "freed"]]
  /\ UNCHANGED <<sharedPool, taskVars, bootVars>>

\* The requests queued, and the messages that tasks work on.
Requests == {e \in Pools \X (0 .. QueueSize) :
               LET p == e[1]  i == e[2]
               IN \/ i \in DOMAIN queue[p] /\ queue[p][i].type = "MSG_NON"
                  \/ i = 0 /\ msg[p] # NULL}

\* SAMGR_SendRequest to a registered service, by the Identity of GetServiceId.
SendRequest(s) ==
  /\ Lockable /\ Find(s) # INVALID_INDEX
  /\ Cardinality(Requests) < MaxRequests
  /\ LET m == VECTOR_At(services, Find(s))
     IN /\ impl[m].taskPool # NULL
        /\ Put(impl[m].taskPool, RequestMsg(m))
  /\ UNCHANGED <<registryVars, poolVars, taskVars, bootVars>>

-----------------------------------------------------------------------------
(* SAMGR_Bootstrap *)

\* The services in the vector that are not initialised, in the order of the
\* slots.
Collect ==
  /\ bootPc = "idle"
  /\ LET S == {i \in Held(services) : impl[VECTOR_At(services, i)].st = "init"}
     IN /\ S # {}
        /\ \E order \in [1 .. Cardinality(S) -> S] :
             /\ \A j, k \in DOMAIN order : j < k => order[j] < order[k]
             /\ todo' = [k \in DOMAIN order |-> VECTOR_At(services, order[k])]
  /\ bootPc' = "collected"
  /\ UNCHANGED <<registryVars, poolVars, queue, taskVars, next, failures>>

\* InitializeAllServices takes the mutex.
LockSamgr ==
  /\ bootPc = "collected"
  /\ bootPc' = "addPool" /\ next' = 1
  /\ UNCHANGED <<registryVars, poolVars, queue, taskVars, todo, failures>>

\* SAMGR_CreateFixedTaskPool, which may find no memory for pool or queue.
CreateFixedTaskPool(p) == [pool EXCEPT ![p].st = "live", ![p].ref = 1]

\* Mutant: one reference too many.
TakesReferenceMore(p) == pool[p].ref <= MaxRef

\* SAMGR_ReferenceTaskPool, which refuses at MAX_REF_NUM.
TakesReference(p) == pool[p].ref < MaxRef
Reference(p) == [pool EXCEPT ![p].ref = @ + 1]

\* Mutant: a full shared pool stays in its slot.
AddSharedKeep(m, i) ==
  /\ sharedPool[i] # NULL /\ ~ TakesReference(sharedPool[i])
  /\ impl' = [impl EXCEPT ![m].taskPool = sharedPool[i]]
  /\ UNCHANGED <<pool, sharedPool, failures>>

\* A shared pool that takes no more references passes the reference of its
\* slot to this service, and the slot is cleared.
AddSharedFull(m, i) ==
  /\ sharedPool[i] # NULL /\ ~ TakesReference(sharedPool[i])
  /\ impl' = [impl EXCEPT ![m].taskPool = sharedPool[i]]
  /\ sharedPool' = [sharedPool EXCEPT ![i] = NULL]
  /\ UNCHANGED <<pool, failures>>

AddShared(m, i) ==
  \/ /\ sharedPool[i] # NULL /\ TakesReference(sharedPool[i])
     /\ impl' = [impl EXCEPT ![m].taskPool = sharedPool[i]]
     /\ pool' = Reference(sharedPool[i])
     /\ UNCHANGED <<sharedPool, failures>>
  \/ AddSharedFull(m, i)
  \/ /\ sharedPool[i] = NULL
     /\ \E p \in Fresh(Pools, pool) :
          /\ sharedPool' = [sharedPool EXCEPT ![i] = p]
          /\ impl' = [impl EXCEPT ![m].taskPool = p]
          /\ pool' = [CreateFixedTaskPool(p) EXCEPT ![p].ref = 2]
     /\ UNCHANGED failures
  \/ /\ sharedPool[i] = NULL /\ failures < MaxFail
     /\ failures' = failures + 1
     /\ UNCHANGED <<impl, pool, sharedPool>>

\* GetSpecifiedTaskPool: the pool of the first service with the same
\* configuration whose pool takes a reference; the search ends at a service
\* that has no pool yet.
Alike(m) == {i \in Held(services) :
               Config[impl[VECTOR_At(services, i)].name] = Config[impl[m].name]}
PoolAt(i) == impl[VECTOR_At(services, i)].taskPool
SpecifiedPool(m) ==
  LET stop == {i \in Alike(m) : PoolAt(i) = NULL}
      usable == {i \in Alike(m) : PoolAt(i) # NULL /\ TakesReference(PoolAt(i))
                                  /\ \A j \in stop : i < j}
  IN IF usable = {} THEN NULL ELSE PoolAt(VECTOR_First(usable))

AddSpecified(m) ==
  /\ SpecifiedPool(m) # NULL
  /\ impl' = [impl EXCEPT ![m].taskPool = SpecifiedPool(m)]
  /\ pool' = Reference(SpecifiedPool(m))
  /\ UNCHANGED <<sharedPool, failures>>

AddSingle(m) ==
  \/ /\ \E p \in Fresh(Pools, pool) :
          /\ impl' = [impl EXCEPT ![m].taskPool = p]
          /\ pool' = CreateFixedTaskPool(p)
     /\ UNCHANGED <<sharedPool, failures>>
  \/ /\ failures < MaxFail /\ failures' = failures + 1
     /\ UNCHANGED <<impl, pool, sharedPool>>

\* AddTaskPool for the next collected service.
AddTaskPool ==
  /\ bootPc = "addPool" /\ next <= Len(todo)
  /\ LET m == todo[next]  cfg == Config[impl[m].name]
     IN IF impl[m].taskPool # NULL \/ cfg.taskFlags = "NO_TASK"
        THEN UNCHANGED <<impl, pool, sharedPool, failures>>
        ELSE \/ cfg.taskFlags = "SHARED_TASK" /\ AddShared(m, cfg.pos)
             \/ cfg.taskFlags = "SPECIFIED_TASK" /\ AddSpecified(m)
             \/ /\ \/ cfg.taskFlags = "SINGLE_TASK"
                   \/ cfg.taskFlags = "SPECIFIED_TASK" /\ SpecifiedPool(m) = NULL
                /\ AddSingle(m)
  /\ next' = next + 1
  /\ UNCHANGED <<services, queue, taskVars, bootPc, todo>>

Loop(from, to) == /\ bootPc = from /\ next > Len(todo)
                  /\ bootPc' = to /\ next' = 1
                  /\ UNCHANGED <<registryVars, poolVars, queue, taskVars, todo, failures>>

\* InitializeSingleService: without a pool the service is initialised here
\* and stays SVC_INIT.
InitializeSingleService ==
  /\ bootPc = "sendInit" /\ next <= Len(todo)
  /\ LET m == todo[next]
     IN IF impl[m].taskPool = NULL THEN UNCHANGED queue
        ELSE Put(impl[m].taskPool, InitMsg(m))
  /\ next' = next + 1
  /\ UNCHANGED <<registryVars, poolVars, taskVars, bootPc, todo, failures>>

\* SAMGR_StartTaskPool; the thread may fail to start.
StartTaskPool ==
  /\ bootPc = "start" /\ next <= Len(todo)
  /\ LET p == impl[todo[next]].taskPool
     IN IF p = NULL \/ pool[p].running
        THEN UNCHANGED <<pool, task, failures>>
        ELSE \/ /\ pool' = [pool EXCEPT ![p].running = TRUE]
                /\ task' = [task EXCEPT ![p] = "recv"]
                /\ UNCHANGED failures
             \/ /\ failures < MaxFail /\ failures' = failures + 1
                /\ UNCHANGED <<pool, task>>
  /\ next' = next + 1
  /\ UNCHANGED <<registryVars, sharedPool, queue, serviceImpl, msg,
                 bootPc, todo>>

\* Unlock; VECTOR_Clear(&initServices).
UnlockSamgr ==
  /\ bootPc = "start" /\ next > Len(todo)
  /\ bootPc' = "idle" /\ todo' = <<>> /\ next' = 1
  /\ UNCHANGED <<registryVars, poolVars, queue, taskVars, failures>>

-----------------------------------------------------------------------------
(* The task of a pool *)

Recv(p) ==
  /\ task[p] = "recv" /\ queue[p] # <<>>
  /\ msg' = [msg EXCEPT ![p] = Head(queue[p])]
  /\ queue' = [queue EXCEPT ![p] = Tail(@)]
  /\ task' = [task EXCEPT ![p] = IF Head(queue[p]).type = "MSG_EXIT" THEN "destroy"
                                 ELSE "correct"]
  /\ UNCHANGED <<registryVars, poolVars, serviceImpl, bootVars>>

\* CorrectServiceImpl: keep the service of the last message if its id is
\* that of the message, otherwise look the id up.  In a service that was
\* freed any id may be read.
CorrectServiceImpl(p) ==
  LET cached == serviceImpl[p]
      lookup == VECTOR_At(services, msg[p].serviceId)
  IN IF cached = NULL THEN {lookup}
     ELSE IF impl[cached].st = "freed" THEN {cached, lookup}
     ELSE IF impl[cached].serviceId = msg[p].serviceId THEN {cached} ELSE {lookup}

\* SAMGR_GetServiceByID takes the mutex, unless the last service is kept.
Correct(p) ==
  /\ task[p] = "correct"
  /\ \E m \in CorrectServiceImpl(p) :
       /\ m = serviceImpl[p] \/ Lockable
       /\ serviceImpl' = [serviceImpl EXCEPT ![p] = m]
  /\ task' = [task EXCEPT ![p] = "work"]
  /\ UNCHANGED <<registryVars, poolVars, queue, msg, bootVars>>

\* ProcDirectRequest runs HandleInitRequest for the service the message
\* points to, ProcRequest the service CorrectServiceImpl chose.
Work(p) ==
  /\ task[p] = "work"
  /\ IF msg[p].type = "MSG_DIRECT"
     THEN impl' = [impl EXCEPT ![msg[p].impl].st = "idle"]
     ELSE UNCHANGED impl
  /\ task' = [task EXCEPT ![p] = "recv"]
  /\ msg' = [msg EXCEPT ![p] = NULL]
  /\ UNCHANGED <<services, poolVars, queue, serviceImpl, bootVars>>

\* Mutant: the task ends and the queue stays.
DestroyNot(p) ==
  /\ task[p] = "destroy"
  /\ task' = [task EXCEPT ![p] = "gone"]
  /\ UNCHANGED <<registryVars, poolVars, queue, serviceImpl, msg, bootVars>>

\* The task ends and QUEUE_Destroy frees the queue and what is left in it.
Destroy(p) ==
  /\ task[p] = "destroy"
  /\ task' = [task EXCEPT ![p] = "gone"]
  /\ msg' = [msg EXCEPT ![p] = NULL]
  /\ queue' = [queue EXCEPT ![p] = <<>>]
  /\ pool' = [pool EXCEPT ![p].destroyed = TRUE]
  /\ serviceImpl' = [serviceImpl EXCEPT ![p] = NULL]
  /\ UNCHANGED <<registryVars, sharedPool, bootVars>>

-----------------------------------------------------------------------------
TaskEntry(p) == Recv(p) \/ Correct(p) \/ Work(p) \/ Destroy(p)
Bootstrap == \/ Collect \/ LockSamgr \/ AddTaskPool \/ Loop("addPool", "sendInit")
             \/ InitializeSingleService \/ Loop("sendInit", "start")
             \/ StartTaskPool \/ UnlockSamgr

Next == \/ \E s \in Svcs : RegisterService(s) \/ UnregisterService(s) \/ SendRequest(s)
        \/ Bootstrap
        \/ \E p \in Pools : TaskEntry(p)

Spec == Init /\ [][Next]_vars

\* Tasks and a bootstrap that has begun go on; clients need do nothing.
FairSpec == /\ Spec
            /\ \A p \in Pools : SF_vars(TaskEntry(p))
            /\ WF_vars(bootPc # "idle" /\ Bootstrap)

-----------------------------------------------------------------------------
(* Properties *)

\* The state has its types; a pool's ref stays within MAX_REF_NUM, far from
\* the end of its int8.
TypeOK ==
  /\ services \in [max : Nat, free : Int, data : Seq(Impls \cup {NULL})]
  /\ impl \in [Impls -> ImplType] /\ pool \in [Pools -> PoolType]
  /\ sharedPool \in [Positions -> Pools \cup {NULL}]
  /\ task \in [Pools -> {"none", "recv", "correct", "work", "destroy", "gone"}]
  /\ serviceImpl \in [Pools -> Impls \cup {NULL}]
  /\ bootPc \in {"idle", "collected", "addPool", "sendInit", "start"}
  /\ todo \in Seq(Impls) /\ next \in Nat \ {0} /\ failures \in Nat
  /\ msg \in [Pools -> Message \cup {NULL}]
  /\ queue \in [Pools -> Seq(Message)]
  /\ \A p \in Pools : Len(queue[p]) <= QueueSize

\* The slots of sharedPool that hold pool p.
Slots(p) == {i \in Positions : sharedPool[i] = p}

\* "release task pool must be in the lock to keep atomicity of the reference"
\* (samgr_lite.c): the count of a live pool is the number of registered
\* services that run in it, plus one for the slot of sharedPool it is in,
\* also when the pool was full and the slot's reference passed to a service.
RefExact ==
  \A p \in Pools : pool[p].st = "live" =>
    pool[p].ref = Cardinality(ImplsOf(p)) + Cardinality(Slots(p))

\* A registered service, and a slot of sharedPool, never refer to a pool that
\* was freed or whose queue was destroyed: the task of a pool that is still
\* used does not exit, whatever was unregistered meanwhile.
UsedPoolsLive ==
  \A p \in Pools : ImplsOf(p) # {} \/ Slots(p) # {} =>
    /\ pool[p].st = "live" /\ ~ pool[p].destroyed /\ task[p] \notin {"destroy", "gone"}
    /\ \A i \in DOMAIN queue[p] : queue[p][i].type # "MSG_EXIT"

\* The exit message of a released pool was accepted, and its task runs.
Exiting(p) == pool[p].st = "freed" /\ pool[p].running /\
              (task[p] = "destroy" \/ \E i \in DOMAIN queue[p] : queue[p][i] = ExitMsg)

\* A released pool whose task runs and whose queue took the exit message ends
\* its task and destroys its queue, whatever requests were queued before.
ReleasedPoolEnds ==
  \A p \in Pools : Exiting(p) ~> (task[p] = "gone" /\ pool[p].destroyed)

\* samgr_lite.h on UnregisterService: it "[r]eturns the unregistered service
\* object" and "The memory is released by the caller", so no task handles a
\* request with a service that was unregistered.
ReturnedServiceUnused ==
  \A p \in Pools : task[p] = "work" /\ msg[p].type = "MSG_NON" =>
    (serviceImpl[p] # NULL => impl[serviceImpl[p]].st # "freed")
=============================================================================
