---------------------------- MODULE BootstrapProofs ----------------------------
(***************************************************************************)
(* The order in which the boot initialises services, for any services,     *)
(* stages, pools and queue sizes: no service before all services that were *)
(* registered when it was collected have their queues, no core service     *)
(* twice, no application service before the core.                          *)
(***************************************************************************)
EXTENDS Bootstrap, FiniteSetTheorems, TLAPS

\* Where a thread holds services SAMGR_Bootstrap collected.
Collecting == {"decide", "initAll", "sendInit"}
Labels == Collecting \cup {"bootstrap", "register", "pos", "size", "advance", "sendBoot", "recv",
                           "initialize", "idle", "boot", "done"}

\* All services of S that get a queue have it.
QueuesOf(S) == \A r \in S : PoolOf[r] # NULL => r \in hasPool

\* s was asked for, when the services registered by then had their queues.
Pooled(s) == s \in known[s] /\ QueuesOf(known[s])

\* The core services are initialised.
CoreUp == \A s \in SysServices : inited[s] = "SVC_IDLE"

\* What may be in the queue of pool p: requests for services of p that were
\* asked for and, once the core is up, boot messages.
Boots == {BootMsg(m) : m \in DOMAIN StageOf}
AllMessages == {InitMsg(s) : s \in Services} \cup Boots
Inits(p) == {InitMsg(s) : s \in {t \in hasPool : PoolOf[t] = p /\ Pooled(t)}}
Allowed(p) == Inits(p) \cup {m \in Boots : CoreUp}

(***************************************************************************)
(* The state: types, and what each thread may hold.                        *)
(***************************************************************************)
Types ==
  /\ status \in 0 .. 5
  /\ registered \subseteq Services /\ SysServices \subseteq registered
  /\ inited \in [Services -> {"SVC_INIT", "SVC_IDLE"}]
  /\ hasPool \subseteq {s \in Services : PoolOf[s] # NULL}
  /\ pc \in [Threads -> Labels]
  /\ queue \in [Pools -> Seq(AllMessages)]
  /\ msg \in [Threads -> AllMessages \cup {NULL}]
  /\ todo \in [Threads -> Seq(Services)]
  /\ initCount \in [Services -> Nat]
  /\ left \in [Threads -> SUBSET Services] /\ found \in [Threads -> SUBSET Services]
  /\ known \in [Services -> SUBSET Services]

Messages ==
  /\ \A p \in Pools :
       /\ queue[p] \in Seq(Allowed(p))
       /\ pc[p] \in {"initialize", "idle"} => msg[p] \in Inits(p)
       /\ pc[p] = "boot" => msg[p] \in Boots
  /\ \A th \in Threads : pc[th] = "sendBoot" => msg[th] \in Boots

\* What was registered when a thread collected its services has queues, or was
\* collected and gets them before the first request is sent.
Collected ==
  \A th \in Threads :
    /\ pc[th] \notin Collecting => todo[th] = << >>
    /\ ToSet(todo[th]) \subseteq found[th]
    /\ pc[th] \in {"decide", "initAll"} => QueuesOf(found[th] \ ToSet(todo[th]))
    /\ pc[th] = "sendInit" => QueuesOf(found[th])

\* A service is idle only after a task served its request.
IdlePooled == \A s \in Services : inited[s] = "SVC_IDLE" => s \in hasPool

\* Nothing is asked for before the queues are there.
KnownPooled == \A s \in Services : QueuesOf(known[s])

QueuesInv == /\ Types /\ Messages /\ Collected /\ IdlePooled /\ KnownPooled
             /\ QueuesBeforeInitialize

(***************************************************************************)
(* The core.                                                               *)
(***************************************************************************)

\* Nothing goes past the core stage while a core service is not initialised.
CoreFirst ==
  /\ status \notin {BOOT_SYS, BOOT_SYS_WAIT} => CoreUp
  /\ registered # SysServices => CoreUp
  /\ \A th \in Threads : pc[th] \in {"size", "advance", "sendBoot", "register"} => CoreUp
  /\ \A p \in Pools : pc[p] \in {"boot", "bootstrap"} => CoreUp

\* Where a request for the core service s can be.
Waits(s) == s \in ToSet(todo[Main])
Queued(s) == \E p \in Pools : InitMsg(s) \in ToSet(queue[p])
Running(s) == \E p \in Pools : pc[p] = "initialize" /\ msg[p] = InitMsg(s)
Fresh(s) == pc[Main] = "bootstrap" /\ inited[s] = "SVC_INIT"

Distinct(s, q) == \A i, j \in DOMAIN q : q[i] = s /\ q[j] = s => i = j

\* It is at one place only, once, and then the service was not initialised.
Once(s) ==
  /\ initCount[s] <= 1
  /\ Fresh(s) \/ Waits(s) \/ Queued(s) \/ Running(s) => initCount[s] = 0
  /\ Fresh(s) \/ Waits(s) => ~ Queued(s) /\ ~ Running(s)
  /\ Queued(s) => ~ Running(s)
  /\ Distinct(s, todo[Main])
  /\ \A p \in Pools : Distinct(InitMsg(s), queue[p]) /\ s \notin ToSet(todo[p])

CoreInv == CoreFirst /\ \A s \in SysServices : Once(s)

IInv == QueuesInv /\ CoreInv

-----------------------------------------------------------------------------
(* Sequences. *)

LEMMA SeqMono == ASSUME NEW S, NEW T, S \subseteq T, NEW q \in Seq(S) PROVE q \in Seq(T)
OBVIOUS

LEMMA SetOfAppend ==
  ASSUME NEW T, NEW q \in Seq(T), NEW m \in T
  PROVE  /\ ToSet(Append(q, m)) = ToSet(q) \cup {m}
         /\ \A s : Distinct(s, q) /\ (m = s => s \notin ToSet(q)) => Distinct(s, Append(q, m))
<1>1. /\ DOMAIN Append(q, m) = DOMAIN q \cup {Len(q) + 1} /\ Len(q) + 1 \notin DOMAIN q
      /\ \A i \in DOMAIN q : Append(q, m)[i] = q[i]
      /\ Append(q, m)[Len(q) + 1] = m
  OBVIOUS
<1> DEFINE r == Append(q, m)
           n == Len(q) + 1
<1> HIDE DEF r, n
<1>2. ToSet(r) = ToSet(q) \cup {m}
  BY ONLY <1>1 DEF ToSet, r, n
<1>3. ASSUME NEW s, Distinct(s, q), m = s => s \notin ToSet(q)
      PROVE  Distinct(s, r)
  BY ONLY <1>1, <1>3 DEF Distinct, ToSet, r, n
<1> QED BY <1>2, <1>3 DEF r

LEMMA SetOfTail ==
  ASSUME NEW T, NEW q \in Seq(T), q # << >>
  PROVE  /\ Head(q) \in ToSet(q) /\ ToSet(Tail(q)) \subseteq ToSet(q)
         /\ \A s : Distinct(s, q) => /\ Distinct(s, Tail(q))
                                     /\ Head(q) = s => s \notin ToSet(Tail(q))
<1>1. /\ Head(q) = q[1] /\ 1 \in DOMAIN q /\ DOMAIN q = 1 .. Len(q) /\ Len(q) \in Nat
      /\ DOMAIN Tail(q) = 1 .. Len(q) - 1
      /\ \A i \in DOMAIN Tail(q) : Tail(q)[i] = q[i + 1] /\ i + 1 \in DOMAIN q
  OBVIOUS
<1>2. Head(q) \in ToSet(q) /\ ToSet(Tail(q)) \subseteq ToSet(q)
  BY ONLY <1>1 DEF ToSet
<1>3. ASSUME NEW s, Distinct(s, q) PROVE Distinct(s, Tail(q))
  BY ONLY <1>1, <1>3 DEF Distinct
<1>4. ASSUME NEW s, Distinct(s, q), Head(q) = s PROVE s \notin ToSet(Tail(q))
  BY ONLY <1>1, <1>4 DEF Distinct, ToSet
<1> QED BY <1>2, <1>3, <1>4

\* An order of a finite set is a sequence of all its elements, each once.
LEMMA Orders ==
  ASSUME NEW S, IsFiniteSet(S), NEW q \in SetToSeqs(S)
  PROVE  q \in Seq(S) /\ ToSet(q) = S /\ \A s : Distinct(s, q)
<1> DEFINE D == 1 .. Cardinality(S)
<1>1. Cardinality(S) \in Nat
  BY FS_CardinalityType
<1>2. q \in [D -> S] /\ \A i, j \in D : i # j => q[i] # q[j]
  BY DEF SetToSeqs
<1>3. IsFiniteSet(D) /\ Cardinality(D) = Cardinality(S)
  BY <1>1, FS_Interval
<1>4. q \in Surjection(D, S)
  <2>1. q \in Injection(D, S)
    BY <1>2 DEF Injection, IsInjective
  <2> QED BY <2>1, <1>3, FS_Injection
<1>5. q \in Seq(S) /\ DOMAIN q = D
  BY <1>1, <1>2
<1> HIDE DEF D
<1>6. ToSet(q) = S
  BY ONLY <1>2, <1>4, <1>5 DEF Surjection, ToSet
<1>7. \A s : Distinct(s, q)
  BY ONLY <1>2, <1>5 DEF Distinct
<1> QED BY <1>5, <1>6, <1>7

-----------------------------------------------------------------------------
(* What every step keeps. *)

\* Pools and initialised services only become more; what is asked for then
\* has been given its queues.
Grows == /\ hasPool \subseteq hasPool'
         /\ \A s \in Services : /\ known[s] \subseteq known'[s]
                               /\ QueuesOf(known'[s] \ known[s])
         /\ \A s \in Services : inited[s] = "SVC_IDLE" => inited'[s] = "SVC_IDLE"

\* Thread th goes to label; what the others hold stays.
Moves(th, label) ==
  /\ pc' = [pc EXCEPT ![th] = label] /\ label \in Labels
  /\ \A t \in Threads \ {th} :
       msg'[t] = msg[t] /\ todo'[t] = todo[t] /\ found'[t] = found[t]

\* A boot message names no service's initialisation, a request names one, and
\* what may wait for or run in p is for a service of p.
LEMMA MessageFacts ==
  /\ \A s \in Services : InitMsg(s) \notin Boots /\ InitMsg(s).type = "init"
  /\ \A m \in Boots : m.type # "init" /\ m.type \in DOMAIN StageOf
  /\ \A s, t \in Services : InitMsg(s) = InitMsg(t) => s = t
  /\ \A p \in Pools : \A m \in Inits(p) :
       /\ m.service \in hasPool /\ PoolOf[m.service] = p /\ Pooled(m.service)
       /\ m = InitMsg(m.service)
  /\ \A p \in Pools : \A s \in Services : InitMsg(s) \in Allowed(p) => PoolOf[s] = p
<1>1. \A m \in Boots : m.type # "init" /\ m.type \in DOMAIN StageOf
  BY DEF Boots, BootMsg, StageOf
<1>2. \A s : InitMsg(s).type = "init" /\ InitMsg(s).service = s
  BY DEF InitMsg
<1>3. \A p \in Pools : \A m \in Inits(p) :
        /\ m.service \in hasPool /\ PoolOf[m.service] = p /\ Pooled(m.service)
        /\ m = InitMsg(m.service)
  BY <1>2 DEF Inits
<1>4. \A p \in Pools : \A s \in Services : InitMsg(s) \in Allowed(p) => PoolOf[s] = p
  BY <1>1, <1>2, <1>3 DEF Allowed
<1> QED BY <1>1, <1>2, <1>3, <1>4

LEMMA Monotone ==
  ASSUME Types, Grows
  PROVE  /\ \A s \in Services : Pooled(s) => Pooled(s)'
         /\ \A p \in Pools : Inits(p) \subseteq Inits(p)' /\ Allowed(p) \subseteq Allowed(p)'
         /\ CoreUp => CoreUp'
<1>1. \A s \in Services : Pooled(s) => Pooled(s)'
  BY DEF Pooled, QueuesOf, Grows
<1>2. CoreUp => CoreUp'
  BY DEF CoreUp, Grows, Services, Stages
<1>3. \A p \in Pools : Inits(p) \subseteq Inits(p)'
  BY <1>1 DEF Inits, Types, Grows
<1> QED BY <1>1, <1>2, <1>3 DEF Allowed

LEMMA MessagesKeep ==
  ASSUME IInv, Grows, NEW th \in Threads, NEW label, Moves(th, label),
         \A p \in Pools : queue'[p] \in Seq(Allowed(p)'),
         label \in {"initialize", "idle"} /\ th \in Pools => msg'[th] \in Inits(th),
         label \in {"boot", "sendBoot"} => msg'[th] \in Boots
  PROVE  Messages'
<1>1. /\ \A p \in Pools : Inits(p) \subseteq Inits(p)' /\ Allowed(p) \subseteq Allowed(p)'
      /\ Boots' = Boots
  BY Monotone DEF IInv, QueuesInv, Boots
<1>2. /\ \A t \in Threads : pc'[t] = IF t = th THEN label ELSE pc[t]
      /\ \A t \in Threads : t # th => msg'[t] = msg[t]
      /\ \A p \in Pools : p \in Threads
  BY DEF Moves, IInv, QueuesInv, Types, Threads
<1>3. /\ \A p \in Pools : pc[p] \in {"initialize", "idle"} => msg[p] \in Inits(p)
      /\ \A p \in Pools : pc[p] = "boot" => msg[p] \in Boots
      /\ \A t \in Threads : pc[t] = "sendBoot" => msg[t] \in Boots
  BY DEF IInv, QueuesInv, Messages
<1>4. \A p \in Pools : queue'[p] \in Seq(Allowed(p)')
  OBVIOUS
<1>5. \A p \in Pools : pc'[p] \in {"initialize", "idle"} => msg'[p] \in Inits(p)'
  BY <1>1, <1>2, <1>3
<1>6. \A p \in Pools : pc'[p] = "boot" => msg'[p] \in Boots'
  BY <1>1, <1>2, <1>3
<1>7. \A t \in Threads : pc'[t] = "sendBoot" => msg'[t] \in Boots'
  BY <1>1, <1>2, <1>3
<1> QED BY <1>4, <1>5, <1>6, <1>7 DEF Messages

LEMMA CollectedKeep ==
  ASSUME IInv, Grows, NEW th \in Threads, NEW label, Moves(th, label),
         label \notin Collecting => todo'[th] = << >>,
         ToSet(todo'[th]) \subseteq found'[th],
         label \in {"decide", "initAll"} => QueuesOf(found[th] \ ToSet(todo[th]))',
         label = "sendInit" => QueuesOf(found[th])'
  PROVE  Collected'
<1>1. \A t \in Threads : /\ pc'[t] = IF t = th THEN label ELSE pc[t]
                         /\ t # th => todo'[t] = todo[t] /\ found'[t] = found[t]
  BY DEF Moves, IInv, QueuesInv, Types
<1>2. ASSUME NEW t \in Threads, t # th
      PROVE  /\ pc[t] \notin Collecting => todo[t] = << >>
             /\ ToSet(todo[t]) \subseteq found[t]
             /\ pc[t] \in {"decide", "initAll"} => QueuesOf(found[t] \ ToSet(todo[t]))'
             /\ pc[t] = "sendInit" => QueuesOf(found[t])'
  <2>1. /\ pc[t] \notin Collecting => todo[t] = << >>
        /\ ToSet(todo[t]) \subseteq found[t]
        /\ pc[t] \in {"decide", "initAll"} => QueuesOf(found[t] \ ToSet(todo[t]))
        /\ pc[t] = "sendInit" => QueuesOf(found[t])
    BY DEF IInv, QueuesInv, Collected
  <2>2. todo'[t] = todo[t] /\ found'[t] = found[t] /\ hasPool \subseteq hasPool'
    BY <1>1, <1>2 DEF Grows
  <2> QED BY <2>1, <2>2 DEF QueuesOf
<1>3. ASSUME NEW t \in Threads
      PROVE  /\ pc'[t] \notin Collecting => todo'[t] = << >>
             /\ ToSet(todo'[t]) \subseteq found'[t]
             /\ pc'[t] \in {"decide", "initAll"} => QueuesOf(found[t] \ ToSet(todo[t]))'
             /\ pc'[t] = "sendInit" => QueuesOf(found[t])'
  BY <1>1, <1>2
<1> QED BY <1>3 DEF Collected

LEMMA CoreFirstKeep ==
  ASSUME IInv, Grows, NEW th \in Threads, NEW label, Moves(th, label),
         status' \notin {BOOT_SYS, BOOT_SYS_WAIT} =>
           status \notin {BOOT_SYS, BOOT_SYS_WAIT} \/ CoreUp,
         registered' # SysServices => registered # SysServices \/ CoreUp,
         label \in {"size", "advance", "sendBoot", "register"} => CoreUp,
         th \in Pools /\ label \in {"boot", "bootstrap"} => CoreUp
  PROVE  CoreFirst'
<1>1. /\ \A t \in Threads : pc'[t] = IF t = th THEN label ELSE pc[t]
      /\ \A p \in Pools : p \in Threads
  BY DEF Moves, IInv, QueuesInv, Types, Threads
<1>2. CoreUp => CoreUp'
  BY Monotone DEF IInv, QueuesInv
<1> QED BY <1>1, <1>2 DEF CoreFirst, IInv, CoreInv

\* Where nothing about a core service changes, it stays as it was.
LEMMA OnceSame ==
  ASSUME NEW s \in Services, Once(s), initCount'[s] = initCount[s],
         Fresh(s)' => Fresh(s), Waits(s)' => Waits(s), Queued(s)' => Queued(s),
         Running(s)' => Running(s), Distinct(s, todo'[Main]),
         \A p \in Pools : Distinct(InitMsg(s), queue'[p]) /\ s \notin ToSet(todo'[p])
  PROVE  Once(s)'
BY DEF Once, InitMsg, Distinct

\* A thread that does not touch the requests keeps them.
LEMMA OnceKeep ==
  ASSUME IInv, Grows, NEW th \in Threads, NEW label, Moves(th, label),
         UNCHANGED <<queue, todo, initCount>>,
         label # "initialize",
         th = Main /\ label = "bootstrap" => CoreUp
  PROVE  \A s \in SysServices : Once(s)'
<1> SUFFICES ASSUME NEW s \in SysServices PROVE Once(s)'
  OBVIOUS
<1>1. s \in Services /\ Once(s) /\ Main \in Threads /\ \A p \in Pools : p \in Threads
  BY DEF IInv, CoreInv, Services, Stages, Threads
<1>2. /\ \A t \in Threads : pc'[t] = IF t = th THEN label ELSE pc[t]
      /\ \A t \in Threads : t # th => msg'[t] = msg[t]
  BY DEF Moves, IInv, QueuesInv, Types
<1>3. Running(s)' => Running(s)
  BY <1>1, <1>2 DEF Running, InitMsg
<1>4. Fresh(s)' => Fresh(s)
  <2>1. CoreUp => inited'[s] = "SVC_IDLE"
    BY <1>1 DEF CoreUp, Grows
  <2>2. inited[s] # "SVC_INIT" => inited'[s] # "SVC_INIT"
    BY <1>1 DEF Grows, IInv, QueuesInv, Types
  <2> QED BY <1>1, <1>2, <2>1, <2>2 DEF Fresh
<1>5. (Waits(s)' => Waits(s)) /\ (Queued(s)' => Queued(s))
  BY DEF Waits, Queued, InitMsg
<1>6. /\ Distinct(s, todo'[Main]) /\ initCount'[s] = initCount[s]
      /\ \A p \in Pools : Distinct(InitMsg(s), queue'[p]) /\ s \notin ToSet(todo'[p])
  BY <1>1 DEF Once
<1> QED BY ONLY <1>1, <1>3, <1>4, <1>5, <1>6, OnceSame

-----------------------------------------------------------------------------
LEMMA InitIInv == Init => IInv
<1> SUFFICES ASSUME Init PROVE IInv
  OBVIOUS
<1>1. /\ BootService \in SysServices /\ Main \notin Pools /\ SysServices \in Stages
      /\ SysServices \subseteq Services
  BY BootAssumption DEF Stages, Services
<1>2. Types
  BY <1>1 DEF Init, Types, BOOT_SYS, Threads, Labels, Collecting
<1>4. Messages
  BY <1>1 DEF Init, Messages, Threads
<1>5. Collected
  BY DEF Init, Collected, ToSet
<1>6. IdlePooled /\ KnownPooled /\ QueuesBeforeInitialize
  BY DEF Init, IdlePooled, KnownPooled, QueuesOf, QueuesBeforeInitialize
<1>7. CoreFirst
  BY <1>1 DEF Init, CoreFirst, Threads
<1>8. ASSUME NEW s \in SysServices PROVE Once(s)
  <2>1. /\ initCount[s] = 0 /\ todo[Main] = << >>
        /\ \A p \in Pools : queue[p] = << >> /\ todo[p] = << >> /\ pc[p] = "recv"
    BY <1>1 DEF Init, Threads
  <2>2. ~ Waits(s) /\ ~ Queued(s) /\ ~ Running(s)
    BY <2>1 DEF Waits, Queued, Running, ToSet
  <2>3. /\ Distinct(s, todo[Main])
        /\ \A p \in Pools : Distinct(InitMsg(s), queue[p]) /\ s \notin ToSet(todo[p])
    BY <2>1 DEF Distinct, ToSet
  <2> QED BY <2>1, <2>2, <2>3 DEF Once
<1> QED BY <1>2, <1>4, <1>5, <1>6, <1>7, <1>8 DEF IInv, QueuesInv, CoreInv

\* The parts of IInv that a step has to keep.
LEMMA Parts ==
  ASSUME IInv, Grows, Types', Messages', Collected', IdlePooled', QueuesBeforeInitialize',
         CoreFirst', \A s \in SysServices : Once(s)'
  PROVE  IInv'
<1>1. KnownPooled'
  BY DEF KnownPooled, QueuesOf, Grows, IInv, QueuesInv
<1> QED BY <1>1 DEF IInv, QueuesInv, CoreInv

\* Where nothing is put into or taken out of a queue.
LEMMA QueuesSame ==
  ASSUME IInv, Grows, queue' = queue PROVE \A p \in Pools : queue'[p] \in Seq(Allowed(p)')
<1>1. \A p \in Pools : Allowed(p) \subseteq Allowed(p)' /\ queue[p] \in Seq(Allowed(p))
  BY Monotone DEF IInv, QueuesInv, Messages
<1> QED BY <1>1, SeqMono

\* Where the services stay as they are.
LEMMA ServicesSame ==
  ASSUME IInv, UNCHANGED <<inited, hasPool, known, initCount>>
  PROVE  IdlePooled' /\ QueuesBeforeInitialize' /\ Grows
BY DEF IInv, QueuesInv, IdlePooled, QueuesBeforeInitialize, Grows, QueuesOf

\* A thread with no services collected has none after.
LEMMA NothingCollected ==
  ASSUME IInv, NEW th \in Threads, pc[th] \notin Collecting, todo' = todo
  PROVE  todo'[th] = << >> /\ ToSet(todo'[th]) = {}
<1>1. todo'[th] = << >>
  BY DEF IInv, QueuesInv, Collected
<1> QED BY ONLY <1>1 DEF ToSet

\* The lowest bit is set and no other.
LEMMA NextStatus ==
  ASSUME NEW n \in 0 .. 5
  PROVE  ToNextStatus(n) \in 0 .. 5 /\ (ToNextStatus(n) \notin {0, 1} => n \notin {0, 1})
<1>1. 0 % 2 = 0 /\ 1 % 2 = 1 /\ n % 2 \in {0, 1} /\ 5 % 2 = 1
  OBVIOUS
<1>2. n # 5 \/ n % 2 = 1
  BY <1>1
<1> QED BY ONLY <1>1, <1>2, n \in 0 .. 5 DEF ToNextStatus

LEMMA CollectKeeps ==
  ASSUME IInv, NEW th \in Threads, Collect(th)
  PROVE  IInv'
<1>1. /\ UNCHANGED <<registered, inited, hasPool, initCount>> /\ UNCHANGED queue
      /\ UNCHANGED <<msg, left, known>> /\ pc[th] = "bootstrap"
      /\ pc' = [pc EXCEPT ![th] = "decide"]
      /\ status' = ToNextStatus(status) /\ found' = [found EXCEPT ![th] = registered]
  BY DEF Collect, Goto
<1>2. PICK order \in SetToSeqs(Uninitialised) : todo' = [todo EXCEPT ![th] = order]
  BY DEF Collect
<1>3. /\ registered \subseteq Services /\ status \in 0 .. 5 /\ Types
      /\ todo \in [Threads -> Seq(Services)] /\ pc \in [Threads -> Labels]
      /\ found \in [Threads -> SUBSET Services]
  BY DEF IInv, QueuesInv, Types
<1>4. Uninitialised \subseteq Services /\ IsFiniteSet(Uninitialised)
  BY <1>3, BootAssumption, FS_Subset DEF Uninitialised
<1>5. /\ order \in Seq(Services) /\ ToSet(order) = Uninitialised
      /\ \A s : Distinct(s, order)
  BY <1>2, <1>4, Orders, SeqMono
<1>6. /\ todo'[th] = order /\ \A t \in Threads \ {th} : todo'[t] = todo[t]
      /\ todo' \in [Threads -> Seq(Services)]
      /\ found'[th] = registered /\ \A t \in Threads \ {th} : found'[t] = found[t]
      /\ found' \in [Threads -> SUBSET Services]
  BY <1>1, <1>2, <1>3, <1>5
<1>7. status' \in 0 .. 5 /\ (status' \notin {BOOT_SYS, BOOT_SYS_WAIT} =>
                             status \notin {BOOT_SYS, BOOT_SYS_WAIT})
  BY <1>1, <1>3, NextStatus DEF BOOT_SYS, BOOT_SYS_WAIT
<1>8. Moves(th, "decide") /\ Grows /\ IdlePooled' /\ QueuesBeforeInitialize'
  BY <1>1, <1>6, ServicesSame DEF Moves, Labels, Collecting
<1>9. Types'
  BY <1>1, <1>3, <1>6, <1>7 DEF Types, Labels, Collecting
<1>10. Messages'
  BY <1>1, <1>8, MessagesKeep, QueuesSame
<1>11. ToSet(todo'[th]) \subseteq found'[th] /\ QueuesOf(found[th] \ ToSet(todo[th]))'
  <2>1. \A r \in registered : inited[r] = "SVC_INIT" \/ r \in hasPool
    BY <1>3 DEF IInv, QueuesInv, Types, IdlePooled
  <2>2. \A r \in registered : r \in Uninitialised \/ r \in hasPool
    BY <2>1 DEF Uninitialised
  <2>3. Uninitialised \subseteq registered
    BY DEF Uninitialised
  <2> QED BY <2>2, <2>3, <1>1, <1>5, <1>6 DEF QueuesOf
<1>12. Collected'
  BY <1>8, <1>11, CollectedKeep DEF Collecting
<1>13. CoreFirst'
  BY <1>1, <1>7, <1>8, CoreFirstKeep
<1>14. ASSUME NEW s \in SysServices PROVE Once(s)'
  <2>1. s \in Services /\ Once(s) /\ Main \in Threads /\ \A p \in Pools : p \in Threads
    BY DEF IInv, CoreInv, Services, Stages, Threads
  <2>2. (Queued(s)' <=> Queued(s)) /\ (Running(s)' => Running(s)) /\ (Fresh(s)' => Fresh(s))
    BY <1>1, <1>3, <2>1 DEF Queued, Running, Fresh, InitMsg
  <2>3. \A p \in Pools : Distinct(InitMsg(s), queue'[p]) /\ queue' = queue
    BY <2>1, <1>1 DEF Once
  <2>4. CASE th = Main
    <3>1. Distinct(s, todo'[Main]) /\ ~ Fresh(s)'
      BY <2>4, <1>1, <1>3, <1>5, <1>6 DEF Fresh
    <3>2. \A p \in Pools : s \notin ToSet(todo'[p])
      BY <2>1, <2>4, <1>6, BootAssumption DEF Once
    <3>3. Waits(s)' => Fresh(s)
      BY <2>4, <1>1, <1>5, <1>6 DEF Waits, Fresh, Uninitialised
    <3> QED BY <3>1, <3>2, <3>3, <2>1, <2>2, <2>3, <1>1 DEF Once, InitMsg
  <2>5. CASE th # Main
    <3>1. th \in Pools /\ CoreUp
      BY <2>5, <1>1 DEF Threads, IInv, CoreInv, CoreFirst
    <3>2. s \notin Uninitialised
      BY <3>1 DEF CoreUp, Uninitialised
    <3>3. /\ todo'[Main] = todo[Main]
          /\ \A p \in Pools : s \notin ToSet(todo'[p])
      BY <3>2, <2>1, <2>5, <1>5, <1>6 DEF Once
    <3>4. Distinct(s, todo'[Main]) /\ (Waits(s)' => Waits(s))
      BY <3>3, <2>1 DEF Once, Waits
    <3> QED BY <3>3, <3>4, <2>1, <2>2, <2>3, <1>1, OnceSame
  <2> QED BY <2>4, <2>5
<1> QED BY <1>8, <1>9, <1>10, <1>12, <1>13, <1>14, Parts

\* The steps that only let a thread go on.
LEMMA GoKeeps ==
  ASSUME IInv, NEW th \in Threads, NEW label \in Labels, pc' = [pc EXCEPT ![th] = label],
         UNCHANGED <<status, registered, inited, hasPool, queue, msg, todo, initCount, left,
                     known>>,
         found' = found \/ (found' = [found EXCEPT ![th] = {}] /\ todo[th] = << >>),
         label \notin Collecting => todo[th] = << >>,
         label \in Collecting => pc[th] = "decide" /\ found' = found,
         label # "sendInit" /\ label \notin {"initialize", "idle", "boot", "sendBoot"},
         label \in {"size", "advance"} => CoreUp, label \notin {"bootstrap", "register"}
  PROVE  IInv'
<1>0. /\ found' \in [Threads -> SUBSET Services]
      /\ \A t \in Threads \ {th} : found'[t] = found[t]
  BY DEF IInv, QueuesInv, Types
<1>1. Moves(th, label) /\ Grows /\ IdlePooled' /\ QueuesBeforeInitialize'
  BY <1>0, ServicesSame DEF Moves
<1>2. Types'
  BY <1>0 DEF IInv, QueuesInv, Types
<1>3. Messages'
  BY <1>1, MessagesKeep, QueuesSame
<1>4. Collected'
  <2>1. /\ ToSet(todo[th]) \subseteq found[th]
        /\ label \in Collecting => QueuesOf(found[th] \ ToSet(todo[th]))
    BY DEF IInv, QueuesInv, Collected
  <2>2. ToSet(todo'[th]) \subseteq found'[th]
    <3>1. todo[th] = << >> => ToSet(todo[th]) = {}
      BY DEF ToSet
    <3> QED BY <2>1, <3>1
  <2>3. label \in Collecting => QueuesOf(found[th] \ ToSet(todo[th]))'
    BY <2>1 DEF QueuesOf
  <2> QED BY <1>1, <2>2, <2>3, CollectedKeep DEF Collecting
<1>5. CoreFirst'
  BY <1>1, CoreFirstKeep
<1>6. \A s \in SysServices : Once(s)'
  BY <1>1, OnceKeep
<1> QED BY <1>1, <1>2, <1>3, <1>4, <1>5, <1>6, Parts

LEMMA ReturnLabel == \A th : Return(th) \in {"done", "recv"} /\ {"done", "recv"} \subseteq Labels
BY DEF Return, Labels

LEMMA DecideKeeps ==
  ASSUME IInv, NEW th \in Threads, Decide(th)
  PROVE  IInv'
<1> DEFINE label == IF todo[th] = << >> /\ status = BOOT_DYNAMIC_WAIT
                    THEN Return(th) ELSE "initAll"
<1>1. label \in Labels /\ (label = "initAll" \/ (label \in {"done", "recv"} /\ todo[th] = << >>))
  BY ReturnLabel DEF Labels, Collecting
<1>2. /\ pc' = [pc EXCEPT ![th] = label]
      /\ UNCHANGED <<status, registered, inited, hasPool, queue, msg, todo, initCount, left, found,
                     known>>
      /\ pc[th] = "decide"
  BY DEF Decide, Goto, askVars
<1> HIDE DEF label
<1> QED BY <1>1, <1>2, GoKeeps DEF Collecting

LEMMA GetUninitializedPosKeeps ==
  ASSUME IInv, NEW th \in Threads, GetUninitializedPos(th)
  PROVE  IInv'
<1> DEFINE label == IF Uninitialised # {} THEN Return(th) ELSE "size"
<1>1. label \in Labels /\ (label = "size" \/ label \in {"done", "recv"})
  BY ReturnLabel DEF Labels
<1>2. /\ pc' = [pc EXCEPT ![th] = label] /\ pc[th] \notin Collecting
      /\ UNCHANGED <<status, registered, inited, hasPool, queue, msg, todo, initCount, left, found,
                     known>>
  BY DEF GetUninitializedPos, Goto, Collecting, askVars
<1>3. label = "size" => CoreUp
  <2>1. label = "size" => Uninitialised = {}
    BY ReturnLabel
  <2> QED BY <2>1 DEF Uninitialised, CoreUp, IInv, QueuesInv, Types
<1>4. todo[th] = << >>
  BY <1>2, NothingCollected
<1> HIDE DEF label
<1> QED BY <1>1, <1>2, <1>3, <1>4, GoKeeps DEF Collecting

LEMMA CompareSizeKeeps ==
  ASSUME IInv, NEW th \in Threads, CompareSize(th)
  PROVE  IInv'
<1> DEFINE label == IF pos[th] < Cardinality(registered) THEN Return(th) ELSE "advance"
<1>1. label \in Labels /\ (label = "advance" \/ label \in {"done", "recv"})
  BY ReturnLabel DEF Labels
<1>2. /\ pc' = [pc EXCEPT ![th] = label] /\ pc[th] = "size"
      /\ UNCHANGED <<status, registered, inited, hasPool, queue, msg, todo, initCount, left, found,
                     known>>
  BY DEF CompareSize, Goto, askVars
<1>3. todo[th] = << >> /\ CoreUp
  BY <1>2 DEF IInv, QueuesInv, Collected, Collecting, CoreInv, CoreFirst
<1> HIDE DEF label
<1> QED BY <1>1, <1>2, <1>3, GoKeeps DEF Collecting

LEMMA StartTaskPoolsKeeps ==
  ASSUME IInv, NEW th \in Threads, StartTaskPools(th)
  PROVE  IInv'
<1>1. /\ pc' = [pc EXCEPT ![th] = "pos"] /\ todo[th] = << >> /\ "pos" \in Labels
      /\ UNCHANGED <<status, registered, inited, hasPool, queue, msg, todo, initCount, left, known>>
      /\ found' = [found EXCEPT ![th] = {}]
  BY DEF StartTaskPools, Goto, Labels
<1> QED BY <1>1, GoKeeps DEF Collecting

LEMMA AddTaskPoolsKeeps ==
  ASSUME IInv, NEW th \in Threads, AddTaskPools(th)
  PROVE  IInv'
<1>1. /\ pc' = [pc EXCEPT ![th] = "sendInit"] /\ pc[th] = "initAll"
      /\ hasPool' = hasPool \cup {s \in ToSet(todo[th]) : PoolOf[s] # NULL}
      /\ UNCHANGED <<status, registered, inited, queue, msg, todo, initCount, left, found, known>>
  BY DEF AddTaskPools, Goto, askVars
<1>2. Moves(th, "sendInit") /\ Grows
  BY <1>1 DEF Moves, Labels, Collecting, Grows, QueuesOf
<1>3. ToSet(todo[th]) \subseteq Services
  BY DEF IInv, QueuesInv, Types, ToSet
<1>4. Types'
  BY <1>1, <1>3 DEF IInv, QueuesInv, Types, Labels, Collecting
<1>5. Messages'
  BY <1>1, <1>2, MessagesKeep, QueuesSame
<1>6. /\ ToSet(todo[th]) \subseteq found[th]
      /\ QueuesOf(found[th] \ ToSet(todo[th]))
  BY <1>1 DEF IInv, QueuesInv, Collected
<1>7. Collected'
  <2>1. QueuesOf(found[th])'
    BY <1>1, <1>6 DEF QueuesOf
  <2> QED BY <1>1, <1>2, <1>6, <2>1, CollectedKeep DEF Collecting
<1>8. IdlePooled' /\ QueuesBeforeInitialize'
  BY <1>1 DEF IInv, QueuesInv, IdlePooled, QueuesBeforeInitialize
<1>9. CoreFirst'
  BY <1>1, <1>2, CoreFirstKeep
<1>10. \A s \in SysServices : Once(s)'
  BY <1>1, <1>2, OnceKeep
<1> QED BY <1>2, <1>4, <1>5, <1>7, <1>8, <1>9, <1>10, Parts

LEMMA SetIdleKeeps ==
  ASSUME IInv, NEW p \in Pools, SetIdle(p)
  PROVE  IInv'
<1>1. /\ pc' = [pc EXCEPT ![p] = "pos"] /\ pc[p] = "idle"
      /\ inited' = [inited EXCEPT ![msg[p].service] = "SVC_IDLE"]
      /\ UNCHANGED <<status, registered, hasPool, queue, msg, todo, initCount, left, found, known>>
  BY DEF SetIdle, Goto, askVars
<1>2. p \in Threads /\ Moves(p, "pos") /\ msg[p].service \in hasPool /\ msg[p].service \in Services
  BY <1>1, MessageFacts DEF Moves, Labels, Threads, IInv, QueuesInv, Messages, Types
<1>3. Grows /\ Types'
  BY <1>1, <1>2 DEF Grows, QueuesOf, IInv, QueuesInv, Types, Labels
<1>4. Messages'
  BY <1>1, <1>2, <1>3, MessagesKeep, QueuesSame
<1>5. todo'[p] = << >> /\ ToSet(todo'[p]) = {}
  BY <1>1, <1>2, NothingCollected DEF Collecting
<1>6. Collected'
  BY <1>2, <1>3, <1>5, CollectedKeep DEF Collecting
<1>7. IdlePooled' /\ QueuesBeforeInitialize'
  BY <1>1, <1>2 DEF IInv, QueuesInv, Types, IdlePooled, QueuesBeforeInitialize
<1>8. CoreFirst'
  BY <1>1, <1>2, <1>3, CoreFirstKeep
<1>9. \A s \in SysServices : Once(s)'
  BY <1>1, <1>2, <1>3, OnceKeep
<1> QED BY <1>3, <1>4, <1>6, <1>7, <1>8, <1>9, Parts

LEMMA AdvanceStatusKeeps ==
  ASSUME IInv, NEW th \in Threads, AdvanceStatus(th)
  PROVE  IInv'
<1>1. /\ pc[th] = "advance" /\ CoreUp
      /\ UNCHANGED <<registered, inited, hasPool, queue, todo, initCount, left, found, known>>
  BY DEF AdvanceStatus, askVars, IInv, CoreInv, CoreFirst
<1>2. Grows /\ IdlePooled' /\ QueuesBeforeInitialize'
  BY <1>1, ServicesSame
<1>3. todo[th] = << >> /\ ToSet(todo'[th]) = {}
  BY <1>1, NothingCollected DEF Collecting
<1>4. CASE status \in DOMAIN After
  <2>1. /\ pc' = [pc EXCEPT ![th] = "sendBoot"] /\ status' = After[status][1]
        /\ msg' = [msg EXCEPT ![th] = BootMsg(After[status][2])]
    BY <1>4 DEF AdvanceStatus, Goto
  <2>2. After[status][1] \in 0 .. 5 /\ After[status][2] \in DOMAIN StageOf
    BY <1>4 DEF After, StageOf, BOOT_APP, BOOT_DYNAMIC, BOOT_SYS_WAIT, BOOT_APP_WAIT,
                BOOT_DYNAMIC_WAIT
  <2>3. BootMsg(After[status][2]) \in Boots
    BY <2>2 DEF Boots
  <2>4. msg'[th] \in Boots /\ Moves(th, "sendBoot")
    BY <1>1, <2>1, <2>3 DEF Moves, Labels, IInv, QueuesInv, Types
  <2>5. Types'
    BY <1>1, <2>1, <2>2, <2>3 DEF IInv, QueuesInv, Types, Labels, AllMessages
  <2>6. Messages'
    BY <1>1, <1>2, <2>4, MessagesKeep, QueuesSame
  <2>7. Collected'
    BY <1>1, <1>2, <1>3, <2>4, CollectedKeep DEF Collecting
  <2>8. CoreFirst'
    BY <1>1, <1>2, <2>4, CoreFirstKeep
  <2>9. \A s \in SysServices : Once(s)'
    BY <1>1, <1>2, <2>4, OnceKeep
  <2> QED BY <1>2, <2>5, <2>6, <2>7, <2>8, <2>9, Parts
<1>5. CASE status \notin DOMAIN After
  <2>1. pc' = [pc EXCEPT ![th] = Return(th)] /\ UNCHANGED <<status, msg>>
    BY <1>5 DEF AdvanceStatus, Goto
  <2> QED BY <1>1, <1>3, <2>1, ReturnLabel, GoKeeps DEF Collecting
<1> QED BY <1>4, <1>5

\* The steps that register services once the core is up.
LEMMA RegisterKeeps ==
  ASSUME IInv, NEW th \in Threads, NEW S \in SUBSET Services, NEW T \in SUBSET Services, CoreUp,
         registered' = registered \cup S, RegisterAll(th, T), pc[th] \notin Collecting,
         UNCHANGED <<status, inited, hasPool, queue, msg, todo, initCount, found, known>>
  PROVE  IInv'
<1> DEFINE label == IF T = {} THEN "bootstrap" ELSE "register"
<1>0. pc' = [pc EXCEPT ![th] = label] /\ left' = [left EXCEPT ![th] = T]
  BY DEF RegisterAll, Goto
<1>1. label \in {"bootstrap", "register"} /\ label \in Labels
  BY DEF Labels
<1> HIDE DEF label
<1>2. Moves(th, label) /\ Grows /\ IdlePooled' /\ QueuesBeforeInitialize'
  BY <1>0, <1>1, ServicesSame DEF Moves
<1>3. Types'
  BY <1>0, <1>1 DEF IInv, QueuesInv, Types
<1>4. Messages'
  BY <1>1, <1>2, MessagesKeep, QueuesSame
<1>5. Collected'
  BY <1>1, <1>2, CollectedKeep, NothingCollected DEF Collecting
<1>6. CoreFirst'
  BY <1>1, <1>2, CoreFirstKeep
<1>7. \A s \in SysServices : Once(s)'
  BY <1>1, <1>2, OnceKeep
<1> QED BY <1>2, <1>3, <1>4, <1>5, <1>6, <1>7, Parts

LEMMA RegisterServiceKeeps ==
  ASSUME IInv, NEW th \in Threads, RegisterService(th)
  PROVE  IInv'
<1>1. /\ pc[th] = "register" /\ CoreUp
      /\ UNCHANGED <<status, inited, hasPool, queue, msg, todo, initCount, found, known>>
  BY DEF RegisterService, IInv, CoreInv, CoreFirst
<1>2. PICK s \in left[th] : registered' = registered \cup {s} /\ RegisterAll(th, left[th] \ {s})
  BY DEF RegisterService
<1>3. left[th] \in SUBSET Services
  BY DEF IInv, QueuesInv, Types
<1>4. {s} \in SUBSET Services /\ left[th] \ {s} \in SUBSET Services
  BY <1>3
<1>5. pc[th] \notin Collecting
  BY <1>1 DEF Collecting
<1> QED BY <1>1, <1>2, <1>4, <1>5, RegisterKeeps

LEMMA BootMessageKeeps ==
  ASSUME IInv, NEW p \in Pools, BootMessage(p)
  PROVE  IInv'
<1>1. msg[p] \in Boots /\ CoreUp /\ p \in Threads
  BY DEF BootMessage, IInv, QueuesInv, Messages, CoreInv, CoreFirst, Threads
<1>2. StageOf[msg[p].type] \in SUBSET Services
  BY <1>1, MessageFacts DEF StageOf, Stages, Services
<1>3. /\ registered' = registered \cup {} /\ RegisterAll(p, StageOf[msg[p].type])
      /\ pc[p] \notin Collecting
      /\ UNCHANGED <<status, inited, hasPool, queue, msg, todo, initCount, found, known>>
  BY DEF BootMessage, Collecting
<1>4. {} \in SUBSET Services
  OBVIOUS
<1> QED BY ONLY IInv, <1>1, <1>2, <1>3, <1>4, RegisterKeeps

LEMMA LoadKeeps == IInv /\ Load => IInv'
<1> SUFFICES ASSUME IInv, Load PROVE IInv'
  OBVIOUS
<1>1. CoreUp /\ Main \in Threads /\ LoadServices \in SUBSET Services
  BY DEF Load, IInv, CoreInv, CoreFirst, Threads, Stages, Services, BOOT_SYS, BOOT_SYS_WAIT,
         BOOT_DYNAMIC_WAIT
<1>2. /\ registered' = registered \cup {} /\ RegisterAll(Main, LoadServices)
      /\ pc[Main] \notin Collecting
      /\ UNCHANGED <<status, inited, hasPool, queue, msg, todo, initCount, found, known>>
  BY DEF Load, Collecting
<1>3. {} \in SUBSET Services
  OBVIOUS
<1> QED BY ONLY IInv, <1>1, <1>2, <1>3, RegisterKeeps

-----------------------------------------------------------------------------
(* The steps that put a message into a queue or take one out. *)

\* A put leaves the messages there were and at most the one put.
LEMMA PutFacts ==
  ASSUME IInv, NEW p \in Pools, NEW m \in AllMessages, Put(p, m)
  PROVE  /\ queue' \in [Pools -> Seq(AllMessages)]
         /\ \A t \in Pools : t # p => queue'[t] = queue[t]
         /\ \/ queue'[p] = queue[p]
            \/ /\ ToSet(queue'[p]) = ToSet(queue[p]) \cup {m}
               /\ \A s : Distinct(s, queue[p]) /\ (m = s => s \notin ToSet(queue[p])) =>
                           Distinct(s, queue'[p])
<1>1. queue \in [Pools -> Seq(AllMessages)]
  BY DEF IInv, QueuesInv, Types
<1>2. CASE queue' = queue
  BY <1>1, <1>2
<1>3. CASE queue' = [queue EXCEPT ![p] = Append(queue[p], m)]
  <2>1. queue[p] \in Seq(AllMessages)
    BY <1>1
  <2>2. Append(queue[p], m) \in Seq(AllMessages)
    BY <2>1
  <2>3. /\ queue'[p] = Append(queue[p], m)
        /\ \A t \in Pools : t # p => queue'[t] = queue[t]
    BY <1>1, <1>3
  <2>4. /\ ToSet(queue'[p]) = ToSet(queue[p]) \cup {m}
        /\ \A s : Distinct(s, queue[p]) /\ (m = s => s \notin ToSet(queue[p])) =>
                    Distinct(s, queue'[p])
    BY ONLY <2>1, <2>3, m \in AllMessages, SetOfAppend
  <2> QED BY <1>1, <1>3, <2>2, <2>3, <2>4
<1> QED BY <1>2, <1>3 DEF Put

\* A put of a message that is allowed then leaves allowed messages.
LEMMA PutAllowed ==
  ASSUME IInv, Grows, NEW p \in Pools, NEW m, m \in Allowed(p)', Put(p, m)
  PROVE  \A t \in Pools : queue'[t] \in Seq(Allowed(t)')
<1>1. queue \in [Pools -> Seq(AllMessages)]
  BY DEF IInv, QueuesInv, Types
<1>2. \A t \in Pools : queue[t] \in Seq(Allowed(t)')
  <2>1. \A t \in Pools : Allowed(t) \subseteq Allowed(t)' /\ queue[t] \in Seq(Allowed(t))
    BY Monotone DEF IInv, QueuesInv, Messages
  <2> QED BY <2>1, SeqMono
<1>3. CASE queue' = queue
  BY <1>2, <1>3
<1>4. CASE queue' = [queue EXCEPT ![p] = Append(queue[p], m)]
  <2> DEFINE A == Allowed(p)'
  <2>1. queue[p] \in Seq(A) /\ m \in A
    BY <1>2
  <2> HIDE DEF A
  <2>2. Append(queue[p], m) \in Seq(A)
    BY <2>1
  <2>3. /\ queue'[p] = Append(queue[p], m)
        /\ \A t \in Pools : t # p => queue'[t] = queue[t]
    BY <1>1, <1>4
  <2> QED BY <1>2, <2>2, <2>3 DEF A
<1> QED BY <1>3, <1>4 DEF Put

LEMMA SendBootRequestKeeps ==
  ASSUME IInv, NEW th \in Threads, SendBootRequest(th)
  PROVE  IInv'
<1> DEFINE P == PoolOf[BootService]
<1>1. /\ pc[th] = "sendBoot" /\ pc' = [pc EXCEPT ![th] = Return(th)] /\ Put(P, msg[th])
      /\ UNCHANGED <<status, registered, inited, hasPool, msg, todo, initCount, left, found, known>>
  BY DEF SendBootRequest, Goto, askVars
<1>2. CoreUp /\ msg[th] \in Boots /\ P \in Pools
  BY <1>1, BootAssumption DEF IInv, QueuesInv, Messages, CoreInv, CoreFirst, Services, Stages
<1>3. msg[th] \in Allowed(P) /\ msg[th] \in AllMessages
  BY <1>2 DEF Allowed, AllMessages
<1> HIDE DEF P
<1>4. /\ queue' \in [Pools -> Seq(AllMessages)]
      /\ \A t \in Pools : t # P => queue'[t] = queue[t]
      /\ \/ queue'[P] = queue[P]
         \/ /\ ToSet(queue'[P]) = ToSet(queue[P]) \cup {msg[th]}
            /\ \A s : Distinct(s, queue[P]) /\ (msg[th] = s => s \notin ToSet(queue[P])) =>
                        Distinct(s, queue'[P])
  BY <1>1, <1>2, <1>3, PutFacts
<1>5. Moves(th, Return(th)) /\ Grows /\ IdlePooled' /\ QueuesBeforeInitialize'
  BY <1>1, ReturnLabel, ServicesSame DEF Moves
<1>6. Types'
  BY <1>1, <1>4, ReturnLabel DEF IInv, QueuesInv, Types
<1>7. Messages'
  <2>1. msg[th] \in Allowed(P)'
    BY <1>2, <1>3, <1>5, Monotone DEF IInv, QueuesInv
  <2>2. \A t \in Pools : queue'[t] \in Seq(Allowed(t)')
    BY <1>1, <1>2, <1>5, <2>1, PutAllowed
  <2> QED BY <1>5, <2>2, ReturnLabel, MessagesKeep
<1>8. Collected'
  BY <1>1, <1>5, ReturnLabel, NothingCollected, CollectedKeep DEF Collecting
<1>9. CoreFirst'
  BY <1>1, <1>5, ReturnLabel, CoreFirstKeep
<1>10. ASSUME NEW s \in SysServices PROVE Once(s)'
  <2>1. /\ s \in Services /\ Once(s) /\ Main \in Threads
        /\ \A p \in Pools : p \in Threads /\ Distinct(InitMsg(s), queue[p])
                            /\ s \notin ToSet(todo[p])
    BY DEF IInv, CoreInv, Services, Stages, Threads, Once
  <2>2. msg[th] # InitMsg(s)
    BY <1>2, <2>1, MessageFacts
  <2>3. \A p \in Pools : Distinct(InitMsg(s), queue'[p])
    BY <1>4, <2>1, <2>2
  <2>4. Queued(s)' => Queued(s)
    BY <1>4, <2>2 DEF Queued, InitMsg
  <2>5. (Waits(s)' => Waits(s)) /\ (Running(s)' => Running(s)) /\ (Fresh(s)' => Fresh(s))
    BY <1>1, <2>1, ReturnLabel DEF Waits, Running, Fresh, InitMsg, IInv, QueuesInv, Types
  <2>6. Distinct(s, todo'[Main]) /\ initCount'[s] = initCount[s] /\ todo' = todo
    BY <1>1, <2>1 DEF Once
  <2> QED BY <2>1, <2>3, <2>4, <2>5, <2>6, OnceSame
<1> QED BY <1>5, <1>6, <1>7, <1>8, <1>9, <1>10, Parts

LEMMA SendInitKeeps ==
  ASSUME IInv, NEW th \in Threads, SendInit(th)
  PROVE  IInv'
<1>0. PICK h : h = Head(todo[th])
  OBVIOUS
<1> DEFINE P == PoolOf[h]
<1>1. /\ pc[th] = "sendInit" /\ pc' = pc /\ todo[th] # << >>
      /\ todo' = [todo EXCEPT ![th] = Tail(todo[th])]
      /\ UNCHANGED <<status, registered, inited, hasPool, msg, left, found>>
      /\ known' = [known EXCEPT ![h] = known[h] \cup found[th]]
      /\ IF h \in hasPool
         THEN Put(P, InitMsg(h)) /\ initCount' = initCount
         ELSE initCount' = [initCount EXCEPT ![h] = initCount[h] + 1] /\ queue' = queue
  BY <1>0 DEF SendInit
<1>2. /\ pc \in [Threads -> Labels] /\ todo \in [Threads -> Seq(Services)]
      /\ todo[th] \in Seq(Services) /\ initCount \in [Services -> Nat]
      /\ hasPool \subseteq {s \in Services : PoolOf[s] # NULL}
      /\ queue \in [Pools -> Seq(AllMessages)]
      /\ found \in [Threads -> SUBSET Services] /\ known \in [Services -> SUBSET Services]
  BY DEF IInv, QueuesInv, Types
<1>3. /\ h \in ToSet(todo[th]) /\ ToSet(Tail(todo[th])) \subseteq ToSet(todo[th])
      /\ \A s : Distinct(s, todo[th]) => /\ Distinct(s, Tail(todo[th]))
                                         /\ h = s => s \notin ToSet(Tail(todo[th]))
      /\ h \in Services /\ Tail(todo[th]) \in Seq(Services)
  <2>1. h \in Services /\ Tail(todo[th]) \in Seq(Services)
    BY ONLY <1>0, <1>1, <1>2
  <2> QED BY ONLY <1>0, <1>1, <1>2, <2>1, SetOfTail
<1>4. /\ todo'[th] = Tail(todo[th]) /\ \A t \in Threads \ {th} : todo'[t] = todo[t]
      /\ todo' \in [Threads -> Seq(Services)]
  BY ONLY <1>1, <1>2, <1>3, th \in Threads
<1>5. /\ ToSet(todo[th]) \subseteq found[th] /\ QueuesOf(found[th])
      /\ \A s \in Services : known'[s] = IF s = h THEN known[h] \cup found[th] ELSE known[s]
      /\ known' \in [Services -> SUBSET Services]
  <2>1. ToSet(todo[th]) \subseteq found[th] /\ QueuesOf(found[th])
    BY <1>1, <1>2 DEF IInv, QueuesInv, Collected
  <2>2. found[th] \in SUBSET Services /\ known[h] \in SUBSET Services
    BY <1>2, <1>3
  <2> QED BY ONLY <1>1, <1>2, <1>3, <2>1, <2>2
<1>6. Moves(th, "sendInit") /\ Grows
  <2>1. Moves(th, "sendInit")
    BY <1>1, <1>2, <1>4 DEF Moves, Labels, Collecting
  <2>2. Grows
    BY <1>1, <1>5 DEF Grows, QueuesOf
  <2> QED BY <2>1, <2>2
<1>6a. Pooled(h)'
  <2>1. h \in known'[h] /\ known'[h] = known[h] \cup found[th]
    BY <1>3, <1>5
  <2>2. QueuesOf(known[h])
    BY <1>3 DEF IInv, QueuesInv, KnownPooled
  <2> QED BY <1>1, <1>5, <2>1, <2>2 DEF Pooled, QueuesOf
<1>7. h \in hasPool => P \in Pools /\ InitMsg(h) \in Allowed(P)' /\ InitMsg(h) \in AllMessages
  BY <1>1, <1>2, <1>3, <1>6a, BootAssumption DEF Allowed, Inits, AllMessages, InitMsg
<1> HIDE DEF P
<1>8. /\ queue' \in [Pools -> Seq(AllMessages)]
      /\ \A t \in Pools : queue'[t] \in Seq(Allowed(t)')
      /\ \/ \A t \in Pools : queue'[t] = queue[t]
         \/ /\ h \in hasPool /\ \A t \in Pools : t # P => queue'[t] = queue[t]
            /\ P \in Pools /\ ToSet(queue'[P]) = ToSet(queue[P]) \cup {InitMsg(h)}
            /\ \A s : Distinct(s, queue[P]) /\ (InitMsg(h) = s => s \notin ToSet(queue[P])) =>
                        Distinct(s, queue'[P])
  <2>1. CASE h \in hasPool
    <3>1. \A t \in Pools : queue'[t] \in Seq(Allowed(t)')
      BY <2>1, <1>1, <1>6, <1>7, PutAllowed
    <3> QED BY <2>1, <1>1, <1>7, <3>1, PutFacts
  <2>2. CASE h \notin hasPool
    BY <2>2, <1>1, <1>2, <1>6, QueuesSame
  <2> QED BY <2>1, <2>2
<1>9. /\ \A s \in Services : s # h => initCount'[s] = initCount[s]
      /\ h \in hasPool => initCount'[h] = initCount[h]
      /\ h \notin hasPool => queue' = queue /\ initCount'[h] = initCount[h] + 1
      /\ initCount' \in [Services -> Nat]
  <2>1. CASE h \in hasPool
    BY ONLY <2>1, <1>1, <1>2
  <2>2. CASE h \notin hasPool
    <3>1. initCount' = [initCount EXCEPT ![h] = initCount[h] + 1] /\ queue' = queue
      BY ONLY <2>2, <1>1
    <3>2. initCount[h] + 1 \in Nat
      BY ONLY <1>2, <1>3
    <3> QED BY ONLY <2>2, <3>1, <3>2, <1>2, <1>3
  <2> QED BY ONLY <2>1, <2>2
<1>10. Types'
  BY <1>1, <1>4, <1>5, <1>8, <1>9 DEF IInv, QueuesInv, Types
<1>11. Messages'
  BY <1>6, <1>8, MessagesKeep
<1>12. ToSet(todo'[th]) \subseteq found'[th] /\ QueuesOf(found[th])'
  BY <1>1, <1>3, <1>4, <1>5 DEF QueuesOf
<1>13. Collected'
  BY <1>6, <1>12, CollectedKeep DEF Collecting
<1>14. IdlePooled'
  BY <1>1 DEF IInv, QueuesInv, IdlePooled
<1>15. QueuesBeforeInitialize'
  <2>1. \A s \in Services : initCount[s] > 0 => Pooled(s)
    BY DEF IInv, QueuesInv, QueuesBeforeInitialize, Pooled, QueuesOf
  <2>2. \A s \in Services : Pooled(s) => Pooled(s)'
    BY <1>6, Monotone DEF IInv, QueuesInv
  <2>3. \A s \in Services : initCount'[s] > 0 => Pooled(s)'
    BY <1>9, <1>6a, <2>1, <2>2
  <2> QED BY <2>3 DEF QueuesBeforeInitialize, Pooled, QueuesOf
<1>16. CoreFirst'
  BY <1>1, <1>6, CoreFirstKeep
<1>17. ASSUME NEW s \in SysServices PROVE Once(s)'
  <2>1. /\ s \in Services /\ Once(s) /\ Main \in Threads
        /\ \A p \in Pools : p \in Threads /\ Distinct(InitMsg(s), queue[p])
                            /\ s \notin ToSet(todo[p])
        /\ Distinct(s, todo[Main])
    BY DEF IInv, CoreInv, Services, Stages, Threads, Once
  <2>2. (Running(s)' <=> Running(s)) /\ (Fresh(s)' <=> Fresh(s))
    BY <1>1 DEF Running, Fresh, InitMsg
  <2>3. /\ Waits(s)' => Waits(s) /\ (th = Main => s # h)
        /\ Distinct(s, todo'[Main]) /\ \A p \in Pools : s \notin ToSet(todo'[p])
    <3>1. CASE th = Main
      <4>1. todo'[Main] = Tail(todo[Main]) /\ \A p \in Pools : todo'[p] = todo[p]
        BY <3>1, <2>1, <1>4, BootAssumption
      <4>2. Distinct(s, todo'[Main]) /\ (h = s => s \notin ToSet(todo'[Main]))
        BY ONLY <4>1, <3>1, <2>1, <1>3
      <4>3. Waits(s)' => Waits(s)
        BY ONLY <4>1, <3>1, <1>3 DEF Waits
      <4>4. Waits(s)' => s \in ToSet(todo'[Main])
        BY DEF Waits
      <4>5. \A p \in Pools : s \notin ToSet(todo'[p])
        BY <4>1, <2>1
      <4> QED BY ONLY <4>2, <4>3, <4>4, <4>5
    <3>2. CASE th # Main
      <4>1. todo'[Main] = todo[Main] /\ \A p \in Pools : ToSet(todo'[p]) \subseteq ToSet(todo[p])
        BY <3>2, <2>1, <1>3, <1>4
      <4> QED BY <4>1, <3>2, <2>1 DEF Waits
    <3> QED BY <3>1, <3>2
  <2>4. CASE s # h
    <3>1. InitMsg(h) # InitMsg(s)
      BY <2>4, <2>1, <1>3, MessageFacts
    <3>2. (Queued(s)' => Queued(s)) /\ \A p \in Pools : Distinct(InitMsg(s), queue'[p])
      BY <3>1, <2>1, <1>8 DEF Queued, InitMsg
    <3> QED BY <3>2, <2>1, <2>2, <2>3, <2>4, <1>9, OnceSame
  <2>5. CASE s = h
    <3>1. th = Main
      BY <2>5, <2>1, <1>3 DEF Threads
    <3>2. Waits(s) /\ ~ Waits(s)'
      BY <3>1, <2>3, <2>5, <1>3 DEF Waits
    <3>3. /\ initCount[s] = 0 /\ ~ Queued(s) /\ ~ Running(s)'
          /\ ~ Fresh(s)'
      BY <3>1, <3>2, <2>1, <2>2, <1>1 DEF Once, Fresh
    <3>4. CASE h \in hasPool
      <4>1. \A p \in Pools : InitMsg(s) \notin ToSet(queue[p])
        BY <3>3 DEF Queued
      <4>2. \A p \in Pools : Distinct(InitMsg(s), queue'[p])
        BY <4>1, <2>1, <1>8
      <4> QED BY <4>2, <3>2, <3>3, <3>4, <2>3, <2>5, <1>9 DEF Once, InitMsg
    <3>5. CASE h \notin hasPool
      <4>1. queue' = queue /\ initCount'[s] = 1
        BY <3>3, <3>5, <2>5, <1>9
      <4>2. ~ Queued(s)'
        BY <4>1, <3>3 DEF Queued, InitMsg
      <4> QED BY <4>1, <4>2, <3>2, <3>3, <2>1, <2>3 DEF Once, InitMsg
    <3> QED BY <3>4, <3>5
  <2> QED BY <2>4, <2>5
<1> QED BY <1>6, <1>10, <1>11, <1>13, <1>14, <1>15, <1>16, <1>17, Parts

LEMMA RecvKeeps ==
  ASSUME IInv, NEW p \in Pools, Recv(p)
  PROVE  IInv'
<1> DEFINE m == Head(queue[p])
           label == IF m.type = "init" THEN "initialize" ELSE "boot"
<1>1. /\ pc[p] = "recv" /\ pc' = [pc EXCEPT ![p] = label] /\ queue[p] # << >>
      /\ msg' = [msg EXCEPT ![p] = m] /\ queue' = [queue EXCEPT ![p] = Tail(queue[p])]
      /\ UNCHANGED <<status, registered, inited, hasPool, todo, initCount, left, found, known>>
  BY DEF Recv, Goto, askVars
<1>2. /\ queue \in [Pools -> Seq(AllMessages)] /\ msg \in [Threads -> AllMessages \cup {NULL}]
      /\ pc \in [Threads -> Labels] /\ \A t \in Pools : queue[t] \in Seq(Allowed(t))
      /\ p \in Threads
  BY DEF IInv, QueuesInv, Types, Messages, Threads
<1>3. /\ m \in Allowed(p) /\ m \in AllMessages
      /\ Tail(queue[p]) \in Seq(Allowed(p)) /\ Tail(queue[p]) \in Seq(AllMessages)
      /\ m \in ToSet(queue[p]) /\ ToSet(Tail(queue[p])) \subseteq ToSet(queue[p])
      /\ \A s : Distinct(s, queue[p]) => /\ Distinct(s, Tail(queue[p]))
                                         /\ m = s => s \notin ToSet(Tail(queue[p]))
  <2>1. queue[p] \in Seq(Allowed(p)) /\ queue[p] \in Seq(AllMessages)
    BY <1>2
  <2>2. Tail(queue[p]) \in Seq(Allowed(p)) /\ m \in Allowed(p)
    BY ONLY <2>1, <1>1
  <2>3. Tail(queue[p]) \in Seq(AllMessages) /\ m \in AllMessages
    BY ONLY <2>1, <1>1
  <2> QED BY ONLY <2>1, <2>2, <2>3, <1>1, SetOfTail
<1> HIDE DEF m
<1>4. /\ label \in Labels /\ label \in {"initialize", "boot"}
      /\ label = "initialize" => m \in Inits(p)
      /\ label = "boot" => m \in Boots /\ CoreUp
  <2>1. m \in Inits(p) \/ (m \in Boots /\ CoreUp)
    BY <1>3 DEF Allowed
  <2>2. m \in Inits(p) => m.type = "init"
    BY DEF Inits, InitMsg
  <2>3. m \in Boots => m.type # "init"
    BY MessageFacts
  <2> QED BY ONLY <2>1, <2>2, <2>3 DEF Labels
<1> HIDE DEF label
<1>5. /\ queue'[p] = Tail(queue[p]) /\ \A t \in Pools : t # p => queue'[t] = queue[t]
      /\ queue' \in [Pools -> Seq(AllMessages)]
      /\ \A t \in Pools : queue'[t] \in Seq(Allowed(t))
      /\ msg'[p] = m /\ msg' \in [Threads -> AllMessages \cup {NULL}]
      /\ \A t \in Threads : t # p => msg'[t] = msg[t]
      /\ \A t \in Threads : pc'[t] = IF t = p THEN label ELSE pc[t]
  BY <1>1, <1>2, <1>3
<1>6. Moves(p, label) /\ Grows /\ IdlePooled' /\ QueuesBeforeInitialize'
  BY <1>1, <1>4, <1>5, ServicesSame DEF Moves
<1>7. Types'
  BY <1>1, <1>2, <1>4, <1>5 DEF IInv, QueuesInv, Types
<1>8. Messages'
  <2>1. \A t \in Pools : Allowed(t) \subseteq Allowed(t)'
    BY <1>6, Monotone DEF IInv, QueuesInv
  <2>2. \A t \in Pools : queue'[t] \in Seq(Allowed(t)')
    BY <1>5, <2>1, SeqMono
  <2> QED BY <1>2, <1>4, <1>5, <1>6, <2>2, MessagesKeep
<1>9. Collected'
  BY <1>1, <1>2, <1>4, <1>6, NothingCollected, CollectedKeep DEF Collecting
<1>10. CoreFirst'
  BY <1>1, <1>2, <1>4, <1>6, CoreFirstKeep
<1>11. ASSUME NEW s \in SysServices PROVE Once(s)'
  <2>1. /\ s \in Services /\ Once(s) /\ Main \in Threads /\ Main \notin Pools
        /\ \A t \in Pools : /\ t \in Threads /\ Distinct(InitMsg(s), queue[t])
                            /\ s \notin ToSet(todo[t])
        /\ Distinct(s, todo[Main])
    BY BootAssumption DEF IInv, CoreInv, Services, Stages, Threads, Once
  <2>2. (Waits(s)' => Waits(s)) /\ (Fresh(s)' <=> Fresh(s)) /\ InitMsg(s)' = InitMsg(s)
    BY <2>1, <1>1, <1>5 DEF Waits, Fresh, InitMsg
  <2>3. \A t \in Pools : /\ ToSet(queue'[t]) \subseteq ToSet(queue[t])
                         /\ Distinct(InitMsg(s), queue'[t])
    BY <2>1, <1>3, <1>5
  <2>4. Queued(s)' => Queued(s)
    BY <2>2, <2>3 DEF Queued
  <2>5. /\ \A t \in Pools : s \notin ToSet(todo'[t])
        /\ Distinct(s, todo'[Main]) /\ initCount'[s] = initCount[s]
    BY <2>1, <1>1
  <2>6. CASE m # InitMsg(s)
    <3>1. Running(s)' => Running(s)
      BY <2>1, <2>2, <2>6, <1>5 DEF Running
    <3> QED BY <2>1, <2>2, <2>3, <2>4, <2>5, <3>1, OnceSame
  <2>7. CASE m = InitMsg(s)
    <3>1. Queued(s)
      BY <2>7, <1>3 DEF Queued
    <3>2. ~ Queued(s)'
      <4>1. ASSUME NEW t \in Pools, InitMsg(s) \in ToSet(queue[t]) PROVE t = p
        <5>1. ASSUME NEW u \in Pools, InitMsg(s) \in ToSet(queue[u]) PROVE PoolOf[s] = u
          <6>1. InitMsg(s) \in Allowed(u)
            BY <1>2, <5>1 DEF ToSet
          <6> QED BY <6>1, <2>1, MessageFacts
        <5> QED BY <4>1, <5>1, <2>7, <1>3
      <4>2. InitMsg(s) \notin ToSet(queue'[p])
        BY <2>1, <2>7, <1>3, <1>5
      <4> QED BY <4>1, <4>2, <2>2, <2>3 DEF Queued
    <3>3. initCount[s] = 0 /\ ~ Waits(s) /\ ~ Fresh(s)
      BY <3>1, <2>1 DEF Once
    <3> QED BY <3>2, <3>3, <2>2, <2>3, <2>5 DEF Once
  <2> QED BY <2>6, <2>7
<1> QED BY <1>6, <1>7, <1>8, <1>9, <1>10, <1>11, Parts

LEMMA InitializeKeeps ==
  ASSUME IInv, NEW p \in Pools, Initialize(p)
  PROVE  IInv'
<1> DEFINE h == msg[p].service
<1>1. /\ pc[p] = "initialize" /\ pc' = [pc EXCEPT ![p] = "idle"]
      /\ initCount' = [initCount EXCEPT ![h] = initCount[h] + 1]
      /\ UNCHANGED <<status, registered, inited, hasPool, queue, msg, todo, left, found, known>>
  BY DEF Initialize, Goto, askVars
<1> HIDE DEF h
<1>2. /\ msg[p] \in Inits(p) /\ p \in Threads /\ pc \in [Threads -> Labels]
      /\ initCount \in [Services -> Nat] /\ hasPool \subseteq Services
  BY <1>1 DEF IInv, QueuesInv, Types, Messages, Threads
<1>3. h \in Services /\ PoolOf[h] = p /\ Pooled(h) /\ msg[p] = InitMsg(h)
  BY <1>2, MessageFacts DEF h
<1>4. /\ \A s \in Services : s # h => initCount'[s] = initCount[s]
      /\ initCount'[h] = initCount[h] + 1 /\ initCount' \in [Services -> Nat]
      /\ \A t \in Threads : pc'[t] = IF t = p THEN "idle" ELSE pc[t]
  BY <1>1, <1>2, <1>3
<1>5. Moves(p, "idle") /\ Grows
  BY <1>1 DEF Moves, Grows, QueuesOf, Labels
<1>6. Types'
  BY <1>1, <1>4 DEF IInv, QueuesInv, Types, Labels
<1>7. Messages'
  BY <1>1, <1>2, <1>5, MessagesKeep, QueuesSame
<1>8. Collected'
  BY <1>1, <1>2, <1>5, NothingCollected, CollectedKeep DEF Collecting
<1>9. IdlePooled'
  BY <1>1 DEF IInv, QueuesInv, IdlePooled
<1>10. QueuesBeforeInitialize'
  BY <1>1, <1>3, <1>4 DEF IInv, QueuesInv, QueuesBeforeInitialize, Pooled, QueuesOf
<1>11. CoreFirst'
  BY <1>1, <1>2, <1>5, CoreFirstKeep
<1>12. ASSUME NEW s \in SysServices PROVE Once(s)'
  <2>1. /\ s \in Services /\ Once(s) /\ Main \in Threads /\ Main \notin Pools
        /\ \A t \in Pools : /\ t \in Threads /\ Distinct(InitMsg(s), queue[t])
                            /\ s \notin ToSet(todo[t])
        /\ Distinct(s, todo[Main]) /\ InitMsg(s)' = InitMsg(s)
    BY BootAssumption DEF IInv, CoreInv, Services, Stages, Threads, Once, InitMsg
  <2>2. /\ Waits(s)' <=> Waits(s)
        /\ Fresh(s)' <=> Fresh(s)
        /\ Queued(s)' <=> Queued(s)
        /\ Running(s)' => Running(s)
    BY <2>1, <1>1, <1>4 DEF Waits, Fresh, Queued, Running
  <2>3. /\ \A t \in Pools : s \notin ToSet(todo'[t]) /\ Distinct(InitMsg(s), queue'[t])
        /\ Distinct(s, todo'[Main])
    BY <2>1, <1>1
  <2>4. CASE s # h
    BY <2>1, <2>2, <2>3, <2>4, <1>4, OnceSame
  <2>5. CASE s = h
    <3>1. Running(s)
      BY <2>5, <1>1, <1>3 DEF Running
    <3>2. ~ Running(s)'
      <4>1. ASSUME NEW t \in Pools, t # p PROVE ~ (pc[t] = "initialize" /\ msg[t] = InitMsg(s))
        <5>1. pc[t] = "initialize" => msg[t] \in Allowed(t)
          BY DEF IInv, QueuesInv, Messages, Allowed
        <5> QED BY <5>1, <4>1, <2>1, <2>5, <1>3, MessageFacts
      <4> QED BY <4>1, <2>1, <1>1, <1>4 DEF Running
    <3>3. initCount[s] = 0 /\ ~ Waits(s) /\ ~ Fresh(s) /\ ~ Queued(s)
      BY <3>1, <2>1 DEF Once
    <3> QED BY <3>2, <3>3, <2>1, <2>2, <2>3, <2>5, <1>4 DEF Once
  <2> QED BY <2>4, <2>5
<1> QED BY <1>5, <1>6, <1>7, <1>8, <1>9, <1>10, <1>11, <1>12, Parts

-----------------------------------------------------------------------------
\* A step that changes no variable.
LEMMA StutterKeeps == IInv /\ UNCHANGED vars => IInv'
<1> SUFFICES ASSUME IInv, UNCHANGED vars PROVE IInv'
  OBVIOUS
<1> USE DEF vars
<1>1. Types' /\ IdlePooled' /\ QueuesBeforeInitialize'
  BY DEF IInv, QueuesInv, Types, IdlePooled, QueuesBeforeInitialize, AllMessages,
         InitMsg, Boots
<1>2. Grows /\ Collected' /\ CoreFirst'
  BY DEF IInv, QueuesInv, CoreInv, Grows, QueuesOf, Collected, CoreFirst, CoreUp
<1>3. \A p \in Pools : Allowed(p)' = Allowed(p) /\ Inits(p)' = Inits(p)
  BY DEF Allowed, Inits, Boots, BootMsg, InitMsg, CoreUp, Pooled, QueuesOf
<1>4. Messages'
  BY <1>3 DEF IInv, QueuesInv, Messages, Boots, BootMsg
<1>5. ASSUME NEW s \in SysServices PROVE Once(s)'
  BY DEF IInv, CoreInv, Once, Fresh, Waits, Queued, Running, Distinct, InitMsg
<1> QED BY <1>1, <1>2, <1>4, <1>5, Parts

LEMMA NextIInv == IInv /\ [Next]_vars => IInv'
<1> SUFFICES ASSUME IInv, [Next]_vars PROVE IInv'
  OBVIOUS
<1>1. ASSUME NEW th \in Threads, SAMGR_Bootstrap(th) PROVE IInv'
  BY <1>1, CollectKeeps, DecideKeeps, AddTaskPoolsKeeps, SendInitKeeps, StartTaskPoolsKeeps
  DEF SAMGR_Bootstrap
<1>2. ASSUME NEW th \in Threads, InitCompleted(th) PROVE IInv'
  BY <1>2, GetUninitializedPosKeeps, CompareSizeKeeps, AdvanceStatusKeeps,
     SendBootRequestKeeps
  DEF InitCompleted
<1>3. ASSUME NEW p \in Pools, Task(p) PROVE IInv'
  BY <1>3, RecvKeeps, InitializeKeeps, SetIdleKeeps, BootMessageKeeps DEF Task
<1> QED BY <1>1, <1>2, <1>3, RegisterServiceKeeps, LoadKeeps, StutterKeeps DEF Next, Step

LEMMA SpecIInv == Spec => []IInv
BY InitIInv, NextIInv, PTL DEF Spec

\* When a service is initialised, whichever way, every service that was
\* registered when SAMGR_Bootstrap collected it has its queue, whatever other
\* threads register, collect and initialise meanwhile.
THEOREM QueuesFirst == Spec => []QueuesBeforeInitialize
<1>1. IInv => QueuesBeforeInitialize
  BY DEF IInv, QueuesInv
<1> QED BY <1>1, SpecIInv, PTL

\* No core service is initialised twice, and no other service is registered
\* before all core services are idle: the unlocked ends of InitCompleted
\* cannot start the next stage early.
THEOREM CoreUpFirst == Spec => []CoreOnceAndFirst
<1>1. IInv => CoreOnceAndFirst
  BY DEF IInv, CoreInv, CoreFirst, CoreUp, Once, CoreOnceAndFirst
<1> QED BY <1>1, SpecIInv, PTL
=============================================================================
