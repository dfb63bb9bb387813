------------------------------ MODULE Bootstrap ------------------------------
(***************************************************************************)
(* The staged start of all services: SAMGR_Bootstrap, InitializeAll-       *)
(* Services, HandleInitRequest and InitCompleted of samgr_lite.c, the      *)
(* bootstrap service of bootstrap_service.c and OHOS_SystemInit.           *)
(*                                                                         *)
(* The main thread registers the system services and calls                 *)
(* SAMGR_Bootstrap.  It gives every service its task pool, queues one      *)
(* initialisation request per service and starts the pools.  Whoever finds *)
(* that no registered service is uninitialised (main, or the task that     *)
(* initialised the last one) advances the boot status and sends the        *)
(* bootstrap service a boot message; its task then registers the services  *)
(* of the next stage, one by one, and calls SAMGR_Bootstrap again.         *)
(*                                                                         *)
(* Queues are those of QueueAdapter: atomic, non-blocking puts.  The       *)
(* recursive samgr mutex is held across steps only in                      *)
(* InitializeAllServices; every other critical section is one step.        *)
(***************************************************************************)
EXTENDS Naturals, Sequences, FiniteSets, SequencesExt

CONSTANTS
  SysServices, AppServices, TestServices, DynServices,  \* by stage
  LoadServices, \* services of a dynamic library Main loads later
  BootService,  \* the bootstrap service, one of SysServices
  Pools,        \* task pools, each with one queue and one task
  PoolOf,       \* PoolOf[s]: the pool AddTaskPool gives s (TaskPool), or NULL
  QueueSize,    \* QueueSize[p]: queueSize of pool p
  Main,         \* the thread that runs OHOS_SystemInit
  NULL

\* What is registered together.
Stages == {SysServices, AppServices, TestServices, DynServices, LoadServices}
Services == UNION Stages
Threads == Pools \cup {Main}

ASSUME BootAssumption ==
  /\ IsFiniteSet(Services) /\ \A S, T \in Stages : S = T \/ S \cap T = {}
  /\ BootService \in SysServices
  /\ PoolOf \in [Services -> Pools \cup {NULL}] /\ PoolOf[BootService] # NULL
  /\ QueueSize \in [Pools -> Nat \ {0}]
  /\ Main \notin Pools /\ NULL \notin Services \cup Pools \cup {Main}

VARIABLES
  status,      \* samgr->status
  registered,  \* the services in samgr->services
  inited,      \* serviceImpl->inited (SVC_BUSY counts as SVC_IDLE)
  hasPool,     \* the services whose taskPool is set
  queue,       \* the messages in each pool's queue
  started,     \* the pools whose task runs
  lock,        \* who holds samgr->mutex across steps, or NULL
  pc,          \* where each thread is
  msg,         \* the message a task is processing
  todo,        \* the services each thread's SAMGR_Bootstrap collected
  pos,         \* the services counted by each thread's GetUninitializedPos
  left,        \* the services each thread has still to register
  found,       \* history: what was registered when each thread collected todo
  known,       \* history: what was registered when the initialisation of each
               \* service was asked for
  initCount,   \* history: how often each service was initialised
  sent         \* history: <<boot message, registered, uninitialised>> when sent

askVars == <<left, found, known>>
vars == <<status, registered, inited, hasPool, queue, started, lock, pc, msg, todo,
          pos, left, found, known, initCount, sent>>

BOOT_SYS == 0
BOOT_SYS_WAIT == 1
BOOT_APP == 2
BOOT_APP_WAIT == 3
BOOT_DYNAMIC == 4
BOOT_DYNAMIC_WAIT == 5

\* TO_NEXT_STATUS sets the lowest bit: a stage becomes its WAIT.
ToNextStatus(s) == IF s % 2 = 0 THEN s + 1 ELSE s

InitMsg(s) == [type |-> "init", service |-> s]
BootMsg(m) == [type |-> m, service |-> BootService]

\* OHOS_SystemInit after SYS_INIT(service), about to call SAMGR_Bootstrap.
Init == /\ status = BOOT_SYS
        /\ registered = SysServices
        /\ inited = [s \in Services |-> "SVC_INIT"]
        /\ hasPool = {}
        /\ queue = [p \in Pools |-> <<>>]
        /\ started = {}
        /\ lock = NULL
        /\ pc = [th \in Threads |-> IF th = Main THEN "bootstrap" ELSE "recv"]
        /\ msg = [th \in Threads |-> NULL]
        /\ todo = [th \in Threads |-> <<>>]
        /\ pos = [th \in Threads |-> 0]
        /\ left = [th \in Threads |-> {}]
        /\ found = [th \in Threads |-> {}]
        /\ known = [s \in Services |-> {}]
        /\ initCount = [s \in Services |-> 0]
        /\ sent = {}

Goto(th, label) == pc' = [pc EXCEPT ![th] = label]
Lockable == lock = NULL
Uninitialised == {s \in registered : inited[s] = "SVC_INIT"}

\* QUEUE_Put with DONT_WAIT; its callers here ignore that it may be refused.
Put(p, m) == queue' = IF Len(queue[p]) < QueueSize[p]
                      THEN [queue EXCEPT ![p] = Append(@, m)] ELSE queue

\* Where a thread goes on after SAMGR_Bootstrap or InitCompleted.
Return(th) == IF th = Main THEN "done" ELSE "recv"

-----------------------------------------------------------------------------
(* SAMGR_Bootstrap *)

\* Mutant: services are collected whether or not they are initialised.
CollectAll(th) ==
  /\ pc[th] = "bootstrap" /\ Lockable
  /\ status' = ToNextStatus(status)
  /\ \E order \in SetToSeqs(registered) : todo' = [todo EXCEPT ![th] = order]
  /\ found' = [found EXCEPT ![th] = registered]
  /\ Goto(th, "decide")
  /\ UNCHANGED <<registered, inited, hasPool, queue, started, lock, msg, pos,
                 initCount, sent, left, known>>

\* The first critical section: next status, collect the uninitialised.
Collect(th) ==
  /\ pc[th] = "bootstrap" /\ Lockable
  /\ status' = ToNextStatus(status)
  /\ \E order \in SetToSeqs(Uninitialised) : todo' = [todo EXCEPT ![th] = order]
  /\ found' = [found EXCEPT ![th] = registered]
  /\ Goto(th, "decide")
  /\ UNCHANGED <<registered, inited, hasPool, queue, started, lock, msg, pos,
                 initCount, sent, left, known>>

\* The unlocked test that ends the chain of boot stages.
Decide(th) ==
  /\ pc[th] = "decide"
  /\ Goto(th, IF todo[th] = <<>> /\ status = BOOT_DYNAMIC_WAIT
              THEN Return(th) ELSE "initAll")
  /\ UNCHANGED <<status, registered, inited, hasPool, queue, started, lock, msg,
                 todo, pos, initCount, sent, askVars>>

\* Mutant: pools are assigned one by one, together with the requests.
AddTaskPoolsFirstOnly(th) ==
  /\ pc[th] = "initAll" /\ Lockable
  /\ lock' = th
  /\ hasPool' = hasPool \cup {s \in {todo[th][i] : i \in 1 .. Len(todo[th]) \div 2} :
                                PoolOf[s] # NULL}
  /\ Goto(th, "sendInit")
  /\ UNCHANGED <<status, registered, inited, queue, started, msg, todo, pos,
                 initCount, sent, askVars>>

\* InitializeAllServices takes the mutex and first gives every collected
\* service its task pool, and with it its queue.
AddTaskPools(th) ==
  /\ pc[th] = "initAll" /\ Lockable
  /\ lock' = th
  /\ hasPool' = hasPool \cup {s \in ToSet(todo[th]) : PoolOf[s] # NULL}
  /\ Goto(th, "sendInit")
  /\ UNCHANGED <<status, registered, inited, queue, started, msg, todo, pos,
                 initCount, sent, askVars>>

\* Mutant: a service without a pool is skipped.
SendInitPooled(th) ==
  /\ pc[th] = "sendInit" /\ todo[th] # <<>>
  /\ IF Head(todo[th]) \in hasPool
     THEN Put(PoolOf[Head(todo[th])], InitMsg(Head(todo[th]))) ELSE UNCHANGED queue
  /\ known' = [known EXCEPT ![Head(todo[th])] = @ \cup found[th]]
  /\ todo' = [todo EXCEPT ![th] = Tail(@)]
  /\ UNCHANGED <<status, registered, inited, hasPool, started, lock, pc, msg, pos,
                 initCount, sent, left, found>>

\* InitializeSingleService: a request to the service's queue, or, for a
\* service without a pool, a direct call that leaves inited at SVC_INIT.
SendInit(th) ==
  /\ pc[th] = "sendInit" /\ todo[th] # <<>>
  /\ LET s == Head(todo[th])
     IN IF s \in hasPool
        THEN Put(PoolOf[s], InitMsg(s)) /\ UNCHANGED initCount
        ELSE /\ initCount' = [initCount EXCEPT ![s] = @ + 1]
             /\ UNCHANGED queue
  /\ known' = [known EXCEPT ![Head(todo[th])] = @ \cup found[th]]
  /\ todo' = [todo EXCEPT ![th] = Tail(@)]
  /\ UNCHANGED <<status, registered, inited, hasPool, started, lock, pc, msg, pos, sent, left, found>>

\* SAMGR_StartTaskPool for the pools of the services, and unlock.
StartTaskPools(th) ==
  /\ pc[th] = "sendInit" /\ todo[th] = <<>>
  /\ started' = started \cup {PoolOf[s] : s \in hasPool}
  /\ lock' = NULL
  /\ found' = [found EXCEPT ![th] = {}]
  /\ Goto(th, "pos")
  /\ UNCHANGED <<status, registered, inited, hasPool, queue, msg, todo, pos,
                 initCount, sent, left, known>>

-----------------------------------------------------------------------------
(* InitCompleted *)

\* GetUninitializedPos, the only test of initialisation, in a critical
\* section of its own.
GetUninitializedPos(th) ==
  /\ pc[th] = "pos" /\ Lockable
  /\ IF Uninitialised # {}
     THEN Goto(th, Return(th)) /\ UNCHANGED pos
     ELSE Goto(th, "size") /\ pos' = [pos EXCEPT ![th] = Cardinality(registered)]
  /\ UNCHANGED <<status, registered, inited, hasPool, queue, started, lock, msg,
                 todo, initCount, sent, askVars>>

\* VECTOR_Size without the mutex: a service may have been registered since.
CompareSize(th) ==
  /\ pc[th] = "size"
  /\ Goto(th, IF pos[th] < Cardinality(registered) THEN Return(th) ELSE "advance")
  /\ UNCHANGED <<status, registered, inited, hasPool, queue, started, lock, msg,
                 todo, pos, initCount, sent, askVars>>

\* What each WAIT status is followed by, and the message that announces it.
After == [s \in {BOOT_SYS_WAIT, BOOT_APP_WAIT, BOOT_DYNAMIC_WAIT} |->
            CASE s = BOOT_SYS_WAIT -> <<BOOT_APP, "BOOT_SYS_COMPLETED">>
              [] s = BOOT_APP_WAIT -> <<BOOT_DYNAMIC, "BOOT_APP_COMPLETED">>
              [] s = BOOT_DYNAMIC_WAIT -> <<BOOT_DYNAMIC, "BOOT_REG_SERVICE">>]

\* The second critical section: it looks at the status only.
AdvanceStatus(th) ==
  /\ pc[th] = "advance" /\ Lockable
  /\ IF status \in DOMAIN After
     THEN /\ status' = After[status][1]
          /\ msg' = [msg EXCEPT ![th] = BootMsg(After[status][2])]
          /\ sent' = sent \cup {<<After[status][2], registered, Uninitialised>>}
          /\ Goto(th, "sendBoot")
     ELSE Goto(th, Return(th)) /\ UNCHANGED <<status, msg, sent>>
  /\ UNCHANGED <<registered, inited, hasPool, queue, started, lock, todo, pos, initCount, askVars>>

SendBootRequest(th) ==
  /\ pc[th] = "sendBoot" /\ Lockable
  /\ Put(PoolOf[BootService], msg[th])
  /\ Goto(th, Return(th))
  /\ UNCHANGED <<status, registered, inited, hasPool, started, lock, msg, todo, pos,
                 initCount, sent, askVars>>

-----------------------------------------------------------------------------
(* The tasks *)

Recv(p) == /\ pc[p] = "recv" /\ p \in started /\ queue[p] # <<>>
           /\ msg' = [msg EXCEPT ![p] = Head(queue[p])]
           /\ queue' = [queue EXCEPT ![p] = Tail(@)]
           /\ Goto(p, IF Head(queue[p]).type = "init" THEN "initialize" ELSE "boot")
           /\ UNCHANGED <<status, registered, inited, hasPool, started, lock, todo,
                          pos, initCount, sent, askVars>>

\* HandleInitRequest: DEFAULT_Initialize ...
Initialize(p) == /\ pc[p] = "initialize"
                 /\ initCount' = [initCount EXCEPT ![msg[p].service] = @ + 1]
                 /\ Goto(p, "idle")
                 /\ UNCHANGED <<status, registered, inited, hasPool, queue, started,
                                lock, msg, todo, pos, sent, askVars>>

\* ... and, without the mutex, inited = SVC_IDLE.
SetIdle(p) == /\ pc[p] = "idle"
              /\ inited' = [inited EXCEPT ![msg[p].service] = "SVC_IDLE"]
              /\ Goto(p, "pos")
              /\ UNCHANGED <<status, registered, hasPool, queue, started, lock, msg,
                             todo, pos, initCount, sent, askVars>>

\* The bootstrap service registers the services of the stage and calls
\* SAMGR_Bootstrap.
StageOf == [m \in {"BOOT_SYS_COMPLETED", "BOOT_APP_COMPLETED", "BOOT_REG_SERVICE"} |->
              CASE m = "BOOT_SYS_COMPLETED" -> AppServices
                [] m = "BOOT_APP_COMPLETED" -> TestServices
                [] m = "BOOT_REG_SERVICE" -> DynServices]

\* Thread th sets out to register the services of S.
RegisterAll(th, S) == /\ left' = [left EXCEPT ![th] = S]
                      /\ Goto(th, IF S = {} THEN "bootstrap" ELSE "register")

BootMessage(p) == /\ pc[p] = "boot"
                  /\ RegisterAll(p, StageOf[msg[p].type])
                  /\ UNCHANGED <<status, registered, inited, hasPool, queue, started, lock,
                                 msg, todo, pos, initCount, sent, found, known>>

\* RegisterService, a critical section for each service; registering one again
\* is refused.
RegisterService(th) ==
  /\ pc[th] = "register" /\ Lockable
  /\ \E s \in left[th] : /\ registered' = registered \cup {s}
                          /\ RegisterAll(th, left[th] \ {s})
  /\ UNCHANGED <<status, inited, hasPool, queue, started, lock, msg, todo, pos,
                 initCount, sent, found, known>>

\* A dynamic library is loaded once the system runs; its services register
\* themselves and SAMGR_Bootstrap is called after that.
Load == /\ pc[Main] = "done"
        /\ status = BOOT_DYNAMIC_WAIT
        /\ ~ LoadServices \subseteq registered
        /\ RegisterAll(Main, LoadServices)
        /\ UNCHANGED <<status, registered, inited, hasPool, queue, started, lock, msg, todo,
                       pos, initCount, sent, found, known>>

-----------------------------------------------------------------------------
SAMGR_Bootstrap(th) == \/ Collect(th) \/ Decide(th) \/ AddTaskPools(th)
                       \/ SendInit(th) \/ StartTaskPools(th)
InitCompleted(th) == \/ GetUninitializedPos(th) \/ CompareSize(th)
                     \/ AdvanceStatus(th) \/ SendBootRequest(th)
Task(p) == Recv(p) \/ Initialize(p) \/ SetIdle(p) \/ BootMessage(p)

Step(th) == \/ SAMGR_Bootstrap(th) \/ InitCompleted(th) \/ RegisterService(th)
            \/ th \in Pools /\ Task(th)

Next == (\E th \in Threads : Step(th)) \/ Load

Spec == Init /\ [][Next]_vars

\* Every thread runs, and the samgr mutex is granted to a waiting thread.
FairSpec == Spec /\ \A th \in Threads : SF_vars(Step(th))

-----------------------------------------------------------------------------
(* Properties *)

\* "must luanch initialize callback only when all services have been assigned
\* with queueid" (samgr_lite.c): when a service is initialised, every service
\* that was registered when the call of SAMGR_Bootstrap that asked for it
\* collected its services has its queue, be it collected by this call or by
\* another one, whatever other threads register and initialise meanwhile.
QueuesBeforeInitialize ==
  \A s \in Services : initCount[s] > 0 =>
    /\ s \in known[s]
    /\ \A r \in known[s] : PoolOf[r] # NULL => r \in hasPool

\* The core services are initialised exactly once each, and the application
\* services are registered only after that.
CoreOnceAndFirst ==
  /\ \A s \in SysServices : initCount[s] <= 1
  /\ registered # SysServices => \A s \in SysServices : inited[s] = "SVC_IDLE"

\* Nothing is running and no message is waiting.
Quiet == /\ \A p \in Pools : queue[p] = <<>> /\ pc[p] = "recv"
         /\ pc[Main] = "done"

\* All stages were run and every service registered was initialised; only
\* services without a task pool stay SVC_INIT.
Booted == /\ status = BOOT_DYNAMIC_WAIT
          /\ SysServices \cup AppServices \cup TestServices \subseteq registered
          /\ \A s \in registered : initCount[s] > 0
          /\ \A s \in Uninitialised : PoolOf[s] = NULL

\* The boot "start[s] all services" (samgr_lite.h on SAMGR_Bootstrap), and the
\* chain of boot messages stops (no "dead loop", samgr_lite.c).
BootCompletes == <>[](Quiet /\ Booted)

\* samgr_lite.h on BOOT_APP_COMPLETED: "Message indicating that the system
\* and application-layer services are initialized".
AppCompletedMeansInitialised ==
  \A e \in sent : e[1] = "BOOT_APP_COMPLETED" =>
    AppServices \subseteq e[2] /\ e[3] \cap AppServices = {}
=============================================================================
