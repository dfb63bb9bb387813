---------------------------- MODULE TaskPoolProofs ----------------------------
(***************************************************************************)
(* Proofs about TaskPool for every set of services, every configuration,   *)
(* every MAX_REF_NUM and queue size, and every number of pools.            *)
(***************************************************************************)
EXTENDS TaskPool, FiniteSetTheorems, NaturalsInduction, TLAPS

-----------------------------------------------------------------------------
(* The vector of services: what is found and what adding leaves alone.     *)

\* A set of naturals has a smallest member.
LEMMA Smallest ==
  ASSUME NEW S \in SUBSET Nat, S # {}
  PROVE  \E x \in S : \A y \in S : x <= y
<1> DEFINE less == OpToRel(<, Nat)
<1>1. \A x, y \in Nat : x < y => <<x, y>> \in less
  BY Zenon DEF OpToRel
<1>2. PICK x \in S : \A y \in S : ~ (<<y, x>> \in less)
  BY NatLessThanWellFounded, WFMin
<1> HIDE DEF less
<1>3. \A y \in S : x \in Nat /\ y \in Nat /\ ~ (y < x)
  BY <1>1, <1>2
<1>4. \A y \in S : x <= y
  BY <1>3
<1> QED BY <1>4

\* VECTOR_First of some indices is one of them: VECTOR_FindByKey returns a
\* slot whose element has the key.
LEMMA FirstFound ==
  ASSUME NEW S \in SUBSET Nat, S # {}
  PROVE  VECTOR_First(S) \in S
BY Smallest DEF VECTOR_First

\* VECTOR_Add reuses a slot that was released.
LEMMA HighestFound ==
  ASSUME NEW n \in Nat, NEW S \in SUBSET (0 .. n), S # {}
  PROVE  Highest(S) \in S
<1> DEFINE T == {n - i : i \in S}
<1>1. T \in SUBSET Nat /\ T # {}
  <2>1. \A i \in 0 .. n : n - i \in Nat
    OBVIOUS
  <2> QED BY <2>1
<1>2. PICK x \in T : \A y \in T : x <= y
  BY <1>1, Smallest
<1>4. PICK i \in S : x = n - i
  OBVIOUS
<1>5. \A j \in S : j <= i
  BY <1>2, <1>4
<1> QED BY <1>5 DEF Highest

\* w is v with at most e added, at index k.
OnlyAdded(v, w, e, k) == \A i \in DOMAIN w.data :
                           \/ i = k + 1 /\ w.data[i] = e
                           \/ i \in DOMAIN v.data /\ w.data[i] = v.data[i]

\* VECTOR_Add writes the element to the index it returns, where there was no
\* other, and leaves every other slot as it was.
LEMMA AddKeepsOthers ==
  ASSUME NEW E, NEW e \in E, NEW v \in Vectors(E)
  PROVE  /\ VECTOR_Add(v, e) \in Vectors(E)
         /\ AddIndex(v) \in Int
         /\ OnlyAdded(v, VECTOR_Add(v, e), e, AddIndex(v))
<1> USE DEF Vectors, OnlyAdded
<1>1. Len(v.data) \in Nat /\ DOMAIN v.data = 1 .. Len(v.data) /\ GrowStep \in Nat
  BY VectorAssumption
<1>2. CASE AtCapacity(v) /\ Released(v) # {}
  <2>1. Len(v.data) # 0
    BY <1>1, <1>2 DEF Released
  <2>2. Highest(Released(v)) \in Released(v)
    BY <1>1, <1>2, <2>1, HighestFound, Len(v.data) - 1 \in Nat DEF Released
  <2>3. AddIndex(v) \in 0 .. Len(v.data) - 1
    BY <1>2, <2>2 DEF AddIndex, Released
  <2>4. VECTOR_Add(v, e) = [v EXCEPT !.data[AddIndex(v) + 1] = e, !.free = @ - 1]
    BY <1>1, <2>3 DEF VECTOR_Add
  <2>5. VECTOR_Add(v, e).data = [v.data EXCEPT ![AddIndex(v) + 1] = e]
    BY <2>4
  <2>6. VECTOR_Add(v, e).data \in Seq(E \cup {NULL})
    BY <1>1, <2>3, <2>5
  <2>7. VECTOR_Add(v, e) \in [max : Nat, free : Int, data : Seq(E \cup {NULL})]
    <3>1. VECTOR_Add(v, e) = [max |-> v.max, free |-> v.free - 1,
                              data |-> VECTOR_Add(v, e).data]
      BY <2>4
    <3> QED BY <2>6, <3>1
  <2> QED BY <1>1, <2>3, <2>5, <2>7
<1>3. CASE ~ (AtCapacity(v) /\ Released(v) # {})
  <2>1. AddIndex(v) = Len(v.data)
    BY <1>3 DEF AddIndex
  <2>2. VECTOR_Add(v, e) = [v EXCEPT !.data = Append(@, e),
                 !.max = IF AtCapacity(v) THEN @ + GrowStep ELSE @]
    BY <1>1, <2>1 DEF VECTOR_Add
  <2>3. VECTOR_Add(v, e).data = Append(v.data, e)
    BY <2>2
  <2>4. VECTOR_Add(v, e) \in [max : Nat, free : Int, data : Seq(E \cup {NULL})]
    <3>1. VECTOR_Add(v, e) = [max |-> VECTOR_Add(v, e).max, free |-> v.free,
                              data |-> Append(v.data, e)]
      BY <2>2
    <3>2. VECTOR_Add(v, e).max \in Nat
      BY <1>1, <2>2
    <3>3. Append(v.data, e) \in Seq(E \cup {NULL})
      OBVIOUS
    <3> QED BY <3>1, <3>2, <3>3
  <2> QED BY <1>1, <2>1, <2>3, <2>4
<1> QED BY <1>2, <1>3

-----------------------------------------------------------------------------
(* The invariant.                                                          *)

(***************************************************************************)
(* The inductive invariant.  RefExact and UsedPoolsLive alone are not      *)
(* inductive: that UnregisterService takes the last reference of a pool    *)
(* only together with its last user needs that the slot it found holds a   *)
(* registered service, the only one with that slot; that AddTaskPool       *)
(* counts for somebody, that what SAMGR_Bootstrap collected is registered; *)
(* and that HandleInitRequest revives no freed service, that the init      *)
(* messages point to registered services.                                  *)
(***************************************************************************)
SlotsRegistered ==
  \A i \in DOMAIN services.data : services.data[i] # NULL =>
    services.data[i] \in Registered /\ impl[services.data[i]].serviceId = i - 1

Named == \A m \in Registered : impl[m].name \in Svcs
Collected == \A i \in DOMAIN todo : todo[i] \in Registered
QueuedDirect ==
  \A p \in Pools : \A i \in DOMAIN queue[p] :
    queue[p][i].type = "MSG_DIRECT" => queue[p][i].impl \in Registered
RunningDirect ==
  \A p \in Pools : msg[p] # NULL =>
    (msg[p].type = "MSG_DIRECT" => msg[p].impl \in Registered)
Busy == \A p \in Pools : task[p] \in {"correct", "work"} => msg[p] # NULL
Unborn == \A p \in Pools : pool[p].st = "none" =>
            task[p] = "none" /\ queue[p] = <<>> /\ ~ pool[p].destroyed
IInv == /\ TypeOK /\ RefExact /\ UsedPoolsLive
        /\ SlotsRegistered /\ Named /\ Collected /\ QueuedDirect /\ RunningDirect
        /\ Busy /\ Unborn

-----------------------------------------------------------------------------
(* The helpers of the actions *)

\* GetService returns the slot of a service of that name.
LEMMA FindIsHeld ==
  ASSUME IInv, NEW s \in Svcs, Find(s) # INVALID_INDEX
  PROVE  /\ Find(s) + 1 \in DOMAIN services.data
         /\ VECTOR_At(services, Find(s)) = services.data[Find(s) + 1]
         /\ VECTOR_At(services, Find(s)) \in Registered
         /\ impl[VECTOR_At(services, Find(s))].serviceId = Find(s)
<1> DEFINE S == {i \in Held(services) : impl[VECTOR_At(services, i)].name = s}
<1>1. services.data \in Seq(Impls \cup {NULL})
  BY DEF IInv, TypeOK
<1>2. S \in SUBSET Nat
  BY <1>1 DEF Held
<1>3. Find(s) \in S
  BY <1>2, FirstFound DEF Find, VECTOR_First
<1>4. Find(s) \in 0 .. Len(services.data) - 1 /\ services.data[Find(s) + 1] # NULL
  BY <1>1, <1>3 DEF Held, Released
<1> QED BY <1>1, <1>4 DEF VECTOR_At, IInv, SlotsRegistered

\* QUEUE_Put keeps the types and bounds of the queues, and a message that is
\* queued afterwards was queued before or is the one that was put.
LEMMA PutTypes ==
  ASSUME TypeOK, NEW p \in Pools, NEW m \in Message, Put(p, m)
  PROVE  /\ queue' \in [Pools -> Seq(Message)]
         /\ \A q \in Pools : Len(queue'[q]) <= QueueSize
         /\ \A q \in Pools : \A i \in DOMAIN queue'[q] :
              \/ q = p /\ queue'[q][i] = m
              \/ i \in DOMAIN queue[q] /\ queue'[q][i] = queue[q][i]
         /\ \A q \in Pools : q # p => queue'[q] = queue[q]
<1>1. queue \in [Pools -> Seq(Message)] /\ \A q \in Pools : Len(queue[q]) <= QueueSize
  BY DEF TypeOK
<1>2. CASE ~ HasRoom(p)
  BY <1>1, <1>2 DEF Put
<1>3. CASE HasRoom(p)
  <2>1. queue' = [queue EXCEPT ![p] = Append(@, m)]
    BY <1>3 DEF Put
  <2>2. /\ Append(queue[p], m) \in Seq(Message)
        /\ Len(Append(queue[p], m)) = Len(queue[p]) + 1
        /\ \A i \in DOMAIN Append(queue[p], m) :
             \/ Append(queue[p], m)[i] = m
             \/ i \in DOMAIN queue[p] /\ Append(queue[p], m)[i] = queue[p][i]
    BY <1>1
  <2>3. Len(queue[p]) + 1 <= QueueSize
    BY <1>1, <1>3, TaskPoolAssumption DEF HasRoom
  <2> QED BY <1>1, <2>1, <2>2, <2>3
<1> QED BY <1>2, <1>3

\* The messages the code builds.
LEMMA MessageTypes ==
  ASSUME TypeOK, NEW m \in Impls
  PROVE  /\ InitMsg(m) \in Message /\ RequestMsg(m) \in Message /\ ExitMsg \in Message
         /\ InitMsg(m).type = "MSG_DIRECT" /\ InitMsg(m).impl = m
         /\ RequestMsg(m).type = "MSG_NON" /\ ExitMsg.type = "MSG_EXIT"
BY DEF InitMsg, RequestMsg, ExitMsg, Message, TypeOK, ImplType, INVALID_INDEX

\* Finite sets count: the users of a pool.
LEMMA UsersFinite ==
  ASSUME NEW p \in Pools
  PROVE  /\ IsFiniteSet(ImplsOf(p)) /\ IsFiniteSet(Slots(p))
         /\ Cardinality(ImplsOf(p)) \in Nat /\ Cardinality(Slots(p)) \in Nat
<1>1. IsFiniteSet(Impls) /\ IsFiniteSet(Positions)
  BY FS_Interval, TaskPoolAssumption DEF Impls
<1>2. ImplsOf(p) \in SUBSET Impls /\ Slots(p) \in SUBSET Positions
  BY DEF ImplsOf, Registered, Slots
<1> QED BY <1>1, <1>2, FS_Subset, FS_CardinalityType

\* The next service of a loop of InitializeAllServices is registered.
LEMMA NextRegistered ==
  ASSUME IInv, next <= Len(todo)
  PROVE  todo[next] \in Registered /\ todo[next] \in Impls /\ impl[todo[next]].name \in Svcs
<1>1. next \in DOMAIN todo
  BY DEF IInv, TypeOK
<1> QED BY <1>1 DEF IInv, Collected, Named, Registered

\* A pool that is referred to is live: what UsedPoolsLive says of a user.
LEMMA UserLive ==
  ASSUME IInv, NEW p \in Pools, ImplsOf(p) # {} \/ Slots(p) # {}
  PROVE  /\ pool[p].st = "live" /\ ~ pool[p].destroyed
         /\ task[p] \notin {"destroy", "gone"}
         /\ \A i \in DOMAIN queue[p] : queue[p][i].type # "MSG_EXIT"
         /\ pool[p].ref = Cardinality(ImplsOf(p)) + Cardinality(Slots(p))
         /\ pool[p].ref \in 1 .. MaxRef
<1>1. /\ pool[p].st = "live" /\ ~ pool[p].destroyed
      /\ task[p] \notin {"destroy", "gone"}
      /\ \A i \in DOMAIN queue[p] : queue[p][i].type # "MSG_EXIT"
  BY DEF IInv, UsedPoolsLive
<1>2. pool[p].ref = Cardinality(ImplsOf(p)) + Cardinality(Slots(p))
  BY <1>1 DEF IInv, RefExact
<1>3. Cardinality(ImplsOf(p)) # 0 \/ Cardinality(Slots(p)) # 0
  BY UsersFinite, FS_EmptySet
<1>4. pool[p].ref \in 0 .. MaxRef
  BY DEF IInv, TypeOK, PoolType
<1> QED BY <1>1, <1>2, <1>3, <1>4, UsersFinite

-----------------------------------------------------------------------------
(* Types *)

\* The initial state satisfies the invariant.
LEMMA InitIInv == Init => IInv
<1> SUFFICES ASSUME Init PROVE IInv
  OBVIOUS
<1>0. \A p \in Pools : ImplsOf(p) = {} /\ Slots(p) = {}
  BY TaskPoolAssumption DEF Init, ImplsOf, Registered, Nothing, Slots
<1>1. TypeOK
  BY TaskPoolAssumption DEF Init, TypeOK, VECTOR_Make, Nothing, ImplType, PoolType,
     INVALID_INDEX, Pools
<1>2. RefExact /\ UsedPoolsLive
  BY <1>0 DEF Init, RefExact, UsedPoolsLive
<1>3. SlotsRegistered /\ Named /\ Collected /\ QueuedDirect /\ RunningDirect
  BY DEF Init, SlotsRegistered, Named, Collected, QueuedDirect, RunningDirect, VECTOR_Make,
     Registered, Nothing
<1>4. Busy /\ Unborn
  BY DEF Init, Busy, Unborn
<1> QED BY <1>1, <1>2, <1>3, <1>4 DEF IInv

\* SAMGR_ReleaseTaskPool of a pool that has a user keeps the types.
LEMMA ReleaseTypes ==
  ASSUME IInv, NEW p \in Pools, ImplsOf(p) # {}, SAMGR_ReleaseTaskPool(p)
  PROVE  /\ pool' \in [Pools -> PoolType]
         /\ pool' = [pool EXCEPT ![p].ref = pool[p].ref - 1,
                                 ![p].st = IF pool[p].ref = 1 THEN "freed" ELSE pool[p].st]
         /\ IF pool[p].ref = 1 THEN Put(p, ExitMsg) ELSE queue' = queue
<1>1. p # NULL
  BY TaskPoolAssumption
<1>2. pool' = [pool EXCEPT ![p].ref = pool[p].ref - 1,
                           ![p].st = IF pool[p].ref = 1 THEN "freed" ELSE pool[p].st]
  BY <1>1 DEF SAMGR_ReleaseTaskPool, IInv, TypeOK
<1>3. pool[p].ref - 1 \in 0 .. MaxRef
  BY UserLive, TaskPoolAssumption
<1>4. pool \in [Pools -> PoolType]
  BY DEF IInv, TypeOK
<1>5. pool' \in [Pools -> PoolType]
  <2>1. ASSUME NEW n \in 0 .. MaxRef
        PROVE  [pool[p] EXCEPT !.ref = n,
                               !.st = IF pool[p].ref = 1 THEN "freed" ELSE pool[p].st]
                 \in PoolType
    BY ONLY <1>4, <2>1, p \in Pools DEF PoolType
  <2>2. pool' = [pool EXCEPT ![p] = [pool[p] EXCEPT
                   !.ref = pool[p].ref - 1,
                   !.st = IF pool[p].ref = 1 THEN "freed" ELSE pool[p].st]]
    BY ONLY <1>2, <1>4, p \in Pools
  <2> QED BY ONLY <2>1, <2>2, <1>3, <1>4, p \in Pools
<1> QED BY <1>1, <1>2, <1>5 DEF SAMGR_ReleaseTaskPool

\* What AddTaskPool can do for a service that has no pool: the service runs
\* in p, which was referred to already and gets one reference more, is
\* referred to by a slot of sharedPool that gives its reference up, or is
\* new; or nothing is done.
SharesPool(m, p) ==
  /\ ImplsOf(p) # {} \/ Slots(p) # {}
  /\ TakesReference(p)
  /\ impl' = [impl EXCEPT ![m].taskPool = p]
  /\ pool' = Reference(p) /\ sharedPool' = sharedPool
TakesSlot(m, p, i) ==
  /\ sharedPool[i] = p
  /\ impl' = [impl EXCEPT ![m].taskPool = p]
  /\ pool' = pool /\ sharedPool' = [sharedPool EXCEPT ![i] = NULL]
NewShared(m, p, i) ==
  /\ pool[p].st = "none" /\ sharedPool[i] = NULL
  /\ impl' = [impl EXCEPT ![m].taskPool = p]
  /\ pool' = [CreateFixedTaskPool(p) EXCEPT ![p].ref = 2]
  /\ sharedPool' = [sharedPool EXCEPT ![i] = p]
NewOwn(m, p) ==
  /\ pool[p].st = "none"
  /\ impl' = [impl EXCEPT ![m].taskPool = p]
  /\ pool' = CreateFixedTaskPool(p) /\ sharedPool' = sharedPool

\* AddTaskPool does one of these things, by the branches of AddTaskPool and
\* GetSpecifiedTaskPool.
LEMMA AddTaskPoolCases ==
  ASSUME IInv, AddTaskPool
  PROVE  \/ impl' = impl /\ pool' = pool /\ sharedPool' = sharedPool
         \/ /\ impl[todo[next]].taskPool = NULL
            /\ \E p \in Pools :
                 \/ SharesPool(todo[next], p)
                 \/ \E i \in Positions : TakesSlot(todo[next], p, i)
                 \/ \E i \in Positions : NewShared(todo[next], p, i)
                 \/ NewOwn(todo[next], p)
<1> DEFINE m == todo[next]
           cfg == Config[impl[m].name]
<1>1. m \in Registered /\ m \in Impls /\ impl[m].name \in Svcs
  BY NextRegistered DEF AddTaskPool
<1>2. cfg.pos \in Positions
  BY <1>1, TaskPoolAssumption
<1>3. sharedPool \in [Positions -> Pools \cup {NULL}]
  BY DEF IInv, TypeOK
<1>4. CASE impl[m].taskPool # NULL \/ cfg.taskFlags = "NO_TASK"
  BY <1>4 DEF AddTaskPool
<1>5. CASE impl[m].taskPool = NULL /\ AddShared(m, cfg.pos)
  <2>1. CASE sharedPool[cfg.pos] # NULL /\ TakesReference(sharedPool[cfg.pos])
    <3>1. sharedPool[cfg.pos] \in Pools /\ Slots(sharedPool[cfg.pos]) # {}
      BY <1>2, <1>3, <2>1 DEF Slots
    <3>2. SharesPool(m, sharedPool[cfg.pos])
      BY <1>5, <2>1, <3>1 DEF AddShared, AddSharedFull, SharesPool
    <3> QED BY <1>5, <3>1, <3>2
  <2>2. CASE sharedPool[cfg.pos] # NULL /\ ~ TakesReference(sharedPool[cfg.pos])
    <3>1. sharedPool[cfg.pos] \in Pools
      BY <1>2, <1>3, <2>2
    <3>2. TakesSlot(m, sharedPool[cfg.pos], cfg.pos)
      BY <1>5, <2>2 DEF AddShared, AddSharedFull, TakesSlot
    <3> QED BY <1>2, <1>5, <3>1, <3>2
  <2>3. CASE sharedPool[cfg.pos] = NULL
    <3>1. CASE \E p \in Fresh(Pools, pool) : NewShared(m, p, cfg.pos)
      BY <1>2, <1>5, <3>1 DEF Fresh
    <3>2. CASE impl' = impl /\ pool' = pool /\ sharedPool' = sharedPool
      BY <3>2
    <3> QED BY <1>5, <2>3, <3>1, <3>2 DEF AddShared, AddSharedFull, NewShared, Fresh
  <2> QED BY <2>1, <2>2, <2>3
<1>6. CASE impl[m].taskPool = NULL /\ AddSpecified(m)
  <2> DEFINE stop == {i \in Alike(m) : PoolAt(i) = NULL}
             usable == {i \in Alike(m) : PoolAt(i) # NULL /\ TakesReference(PoolAt(i))
                                         /\ \A j \in stop : i < j}
  <2>1. usable # {} /\ SpecifiedPool(m) = PoolAt(VECTOR_First(usable))
    BY <1>6 DEF AddSpecified, SpecifiedPool
  <2>2. services.data \in Seq(Impls \cup {NULL})
    BY DEF IInv, TypeOK
  <2>3. usable \in SUBSET Nat
    BY <2>2 DEF Alike, Held
  <2>4. VECTOR_First(usable) \in usable
    BY <2>1, <2>3, FirstFound
  <2>5. PICK i \in usable : SpecifiedPool(m) = PoolAt(i)
    BY <2>1, <2>4
  <2>6. i \in 0 .. Len(services.data) - 1 /\ services.data[i + 1] # NULL
    BY <2>5 DEF Alike, Held, Released
  <2>7. services.data[i + 1] \in Registered /\ PoolAt(i) = impl[services.data[i + 1]].taskPool
    BY <2>2, <2>6 DEF IInv, SlotsRegistered, PoolAt, VECTOR_At
  <2>8. PoolAt(i) \in Pools /\ ImplsOf(PoolAt(i)) # {}
    BY <2>5, <2>7 DEF IInv, TypeOK, ImplType, ImplsOf, Registered
  <2>9. SharesPool(m, PoolAt(i))
    BY <1>6, <2>5, <2>8 DEF AddSpecified, SharesPool
  <2> QED BY <1>6, <2>8, <2>9
<1>7. CASE impl[m].taskPool = NULL /\ AddSingle(m)
  BY <1>7 DEF AddSingle, Fresh, NewOwn
<1> QED BY <1>4, <1>5, <1>6, <1>7 DEF AddTaskPool

\* Creating, starting and destroying a pool keeps the records' type.
LEMMA PoolRecords ==
  ASSUME NEW p \in Pools, pool \in [Pools -> PoolType]
  PROVE  /\ [pool EXCEPT ![p].running = TRUE] \in [Pools -> PoolType]
         /\ [pool EXCEPT ![p].destroyed = TRUE] \in [Pools -> PoolType]
         /\ \A n \in 0 .. MaxRef :
              [pool EXCEPT ![p].st = "live", ![p].ref = n] \in [Pools -> PoolType]
<1>1. [pool EXCEPT ![p].running = TRUE] \in [Pools -> PoolType]
  BY DEF PoolType
<1>2. [pool EXCEPT ![p].destroyed = TRUE] \in [Pools -> PoolType]
  BY DEF PoolType
<1>3. ASSUME NEW n \in 0 .. MaxRef
      PROVE  [pool EXCEPT ![p].st = "live", ![p].ref = n] \in [Pools -> PoolType]
  BY DEF PoolType
<1> QED BY <1>1, <1>2, <1>3

\* Marking a service initialised keeps the record's type.
LEMMA ImplRecords ==
  ASSUME NEW r \in ImplType
  PROVE  [r EXCEPT !.st = "idle"] \in ImplType
<1>1. [r EXCEPT !.st = "idle"] =
      [st |-> "idle", name |-> r.name, serviceId |-> r.serviceId, taskPool |-> r.taskPool]
  BY DEF ImplType
<1> QED BY <1>1 DEF ImplType

\* A service that gets a pool stays what it was, and the pools keep their types.
LEMMA AddTaskPoolTypes ==
  ASSUME IInv, AddTaskPool
  PROVE  /\ impl' \in [Impls -> ImplType]
         /\ pool' \in [Pools -> PoolType]
         /\ sharedPool' \in [Positions -> Pools \cup {NULL}]
<1>1. /\ impl \in [Impls -> ImplType] /\ pool \in [Pools -> PoolType]
      /\ sharedPool \in [Positions -> Pools \cup {NULL}]
  BY DEF IInv, TypeOK
<1>2. MaxRef \in Nat /\ MaxRef >= 2
  BY TaskPoolAssumption
<1>3. CASE impl' = impl /\ pool' = pool /\ sharedPool' = sharedPool
  BY <1>1, <1>3
<1>4. ASSUME NEW p \in Pools, impl' = [impl EXCEPT ![todo[next]].taskPool = p]
      PROVE  impl' \in [Impls -> ImplType]
  BY <1>1, <1>4 DEF ImplType
<1>5. ASSUME NEW p \in Pools, SharesPool(todo[next], p)
      PROVE  pool' \in [Pools -> PoolType]
  <2>1. pool[p].ref + 1 \in 0 .. MaxRef
    BY <1>1, <1>2, <1>5 DEF SharesPool, TakesReference, PoolType
  <2> QED BY <1>1, <1>5, <2>1 DEF SharesPool, Reference, PoolType
<1>6. ASSUME NEW p \in Pools, NEW i \in Positions, NewShared(todo[next], p, i)
      PROVE  pool' \in [Pools -> PoolType]
  <2>1. pool' = [pool EXCEPT ![p].st = "live", ![p].ref = 2]
    BY <1>1, <1>6 DEF NewShared, CreateFixedTaskPool
  <2>2. 2 \in 0 .. MaxRef
    BY <1>2
  <2> QED BY <1>1, <2>1, <2>2, PoolRecords
<1>7. ASSUME NEW p \in Pools, NewOwn(todo[next], p)
      PROVE  pool' \in [Pools -> PoolType]
  <2>1. 1 \in 0 .. MaxRef
    BY <1>2
  <2> QED BY <1>1, <1>7, <2>1, PoolRecords DEF NewOwn, CreateFixedTaskPool
<1>8. CASE \E p \in Pools : SharesPool(todo[next], p)
  BY <1>1, <1>4, <1>5, <1>8 DEF SharesPool
<1>9. CASE \E p \in Pools : \E i \in Positions : TakesSlot(todo[next], p, i)
  BY <1>1, <1>4, <1>9 DEF TakesSlot
<1>10. CASE \E p \in Pools : \E i \in Positions : NewShared(todo[next], p, i)
  <2>1. PICK p \in Pools, i \in Positions : NewShared(todo[next], p, i)
    BY <1>10
  <2>2. sharedPool' = [sharedPool EXCEPT ![i] = p]
        /\ impl' = [impl EXCEPT ![todo[next]].taskPool = p]
    BY <2>1 DEF NewShared
  <2> QED BY <1>1, <1>4, <1>6, <2>1, <2>2
<1>11. CASE \E p \in Pools : NewOwn(todo[next], p)
  BY <1>1, <1>4, <1>7, <1>11 DEF NewOwn
<1> QED BY <1>3, <1>8, <1>9, <1>10, <1>11, AddTaskPoolCases

\* SAMGR_Bootstrap collects registered services.
LEMMA CollectsRegistered ==
  ASSUME IInv, Collect
  PROVE  todo' \in Seq(Impls) /\ \A k \in DOMAIN todo' : todo'[k] \in Registered
<1> DEFINE S == {i \in Held(services) : impl[VECTOR_At(services, i)].st = "init"}
<1>1. PICK order \in [1 .. Cardinality(S) -> S] :
        todo' = [k \in DOMAIN order |-> VECTOR_At(services, order[k])]
  BY DEF Collect
<1>2. services.data \in Seq(Impls \cup {NULL})
  BY DEF IInv, TypeOK
<1>3. S \in SUBSET (0 .. Len(services.data) - 1) /\ Len(services.data) \in Nat
  BY <1>2 DEF Held
<1>4. IsFiniteSet(S) /\ Cardinality(S) \in Nat
  <2>1. IsFiniteSet(0 .. Len(services.data) - 1)
    <3>1. 0 \in Int /\ Len(services.data) - 1 \in Int
      BY <1>3
    <3> QED BY <3>1, FS_Interval
  <2> QED BY <1>3, <2>1, FS_Subset, FS_CardinalityType
<1>5. \A i \in S : VECTOR_At(services, i) \in Registered /\ VECTOR_At(services, i) \in Impls
  BY <1>2, <1>3 DEF Held, Released, VECTOR_At, IInv, SlotsRegistered, Registered
<1> HIDE DEF S
<1>6. \A k \in 1 .. Cardinality(S) : VECTOR_At(services, order[k]) \in Registered /\
                                     VECTOR_At(services, order[k]) \in Impls
  BY <1>1, <1>5
<1>7. todo' = [k \in 1 .. Cardinality(S) |-> VECTOR_At(services, order[k])]
  BY <1>1
<1> QED BY <1>4, <1>6, <1>7

\* Every step preserves the types.
LEMMA TypeStep == IInv /\ [Next]_vars => TypeOK'
<1> SUFFICES ASSUME IInv, [Next]_vars PROVE TypeOK'
  OBVIOUS
<1>0. TypeOK
  BY DEF IInv
<1> USE DEF registryVars, poolVars, taskVars, bootVars
<1>1. ASSUME NEW s \in Svcs, RegisterService(s) PROVE TypeOK'
  <2>1. PICK m \in Impls :
          /\ services' = VECTOR_Add(services, m)
          /\ impl' = [impl EXCEPT ![m] = [st |-> "init", name |-> s, taskPool |-> NULL,
                                          serviceId |-> AddIndex(services)]]
    BY <1>1 DEF RegisterService, Fresh
  <2>2. AddIndex(services) \in Int
    BY <1>0, AddKeepsOthers DEF TypeOK, Vectors
  <2>3. impl' \in [Impls -> ImplType]
    BY <1>0, <2>1, <2>2 DEF TypeOK, ImplType
  <2>4. services' \in [max : Nat, free : Int, data : Seq(Impls \cup {NULL})]
    BY <1>0, <2>1, AddKeepsOthers DEF TypeOK, Vectors
  <2> QED BY <1>0, <1>1, <2>3, <2>4 DEF RegisterService, TypeOK
<1>2. ASSUME NEW s \in Svcs, UnregisterService(s) PROVE TypeOK'
  <2> DEFINE m == VECTOR_At(services, Find(s))
             p == impl[m].taskPool
  <2>1. m \in Registered /\ m \in Impls /\ Find(s) + 1 \in DOMAIN services.data
    BY <1>2, FindIsHeld DEF UnregisterService, Registered
  <2>2. impl' = [impl EXCEPT ![m] = [Nothing EXCEPT !.st = "freed"]]
    BY <1>2 DEF UnregisterService
  <2>3. impl' \in [Impls -> ImplType]
    BY <1>0, <2>1, <2>2 DEF TypeOK, ImplType, Nothing, INVALID_INDEX
  <2>4. services' \in [max : Nat, free : Int, data : Seq(Impls \cup {NULL})]
    <3>1. services' = [services EXCEPT !.data[Find(s) + 1] = NULL, !.free = @ + 1]
      BY <1>2 DEF UnregisterService, VECTOR_Release
    <3>2. services' = [max |-> services.max, free |-> services.free + 1,
                       data |-> [services.data EXCEPT ![Find(s) + 1] = NULL]]
      BY <1>0, <3>1 DEF TypeOK
    <3>3. [services.data EXCEPT ![Find(s) + 1] = NULL] \in Seq(Impls \cup {NULL})
      BY <1>0, <2>1 DEF TypeOK
    <3> QED BY <1>0, <3>2, <3>3 DEF TypeOK
  <2>5. /\ pool' \in [Pools -> PoolType]
        /\ queue' \in [Pools -> Seq(Message)]
        /\ \A q \in Pools : Len(queue'[q]) <= QueueSize
    <3>1. CASE p = NULL
      <4>1. pool' = pool /\ queue' = queue
        BY <1>2, <3>1, TaskPoolAssumption DEF UnregisterService, SAMGR_ReleaseTaskPool
      <4> QED BY <1>0, <4>1 DEF TypeOK
    <3>2. CASE p # NULL
      <4>1. p \in Pools /\ ImplsOf(p) # {}
        BY <1>0, <2>1, <3>2 DEF TypeOK, ImplType, ImplsOf, Registered
      <4>2. /\ pool' \in [Pools -> PoolType]
            /\ IF pool[p].ref = 1 THEN Put(p, ExitMsg) ELSE queue' = queue
        BY <1>2, <4>1, ReleaseTypes DEF UnregisterService
      <4> QED BY <1>0, <2>1, <4>1, <4>2, PutTypes, MessageTypes DEF TypeOK
    <3> QED BY <3>1, <3>2
  <2> QED BY <1>0, <1>2, <2>3, <2>4, <2>5 DEF UnregisterService, TypeOK
<1>3. ASSUME NEW s \in Svcs, SendRequest(s) PROVE TypeOK'
  <2> DEFINE m == VECTOR_At(services, Find(s))
  <2>1. m \in Impls /\ impl[m].taskPool \in Pools /\ Put(impl[m].taskPool, RequestMsg(m))
    BY <1>0, <1>3, FindIsHeld DEF SendRequest, Registered, TypeOK, ImplType
  <2> QED BY <1>0, <1>3, <2>1, PutTypes, MessageTypes DEF SendRequest, TypeOK
<1>4. ASSUME Collect PROVE TypeOK'
  <2>1. todo' \in Seq(Impls)
    BY <1>4, CollectsRegistered DEF Registered
  <2> QED BY <1>0, <1>4, <2>1 DEF Collect, TypeOK
<1>5. CASE LockSamgr
  BY <1>0, <1>5 DEF LockSamgr, TypeOK
<1>6. CASE AddTaskPool
  <2>1. failures' \in Nat
    <3>1. failures \in Nat
      BY <1>0 DEF TypeOK
    <3>2. failures' = failures \/ failures' = failures + 1
      BY <1>6 DEF AddTaskPool, AddShared, AddSharedFull, AddSpecified, AddSingle
    <3> QED BY ONLY <3>1, <3>2
  <2>2. next' = next + 1
    BY <1>6 DEF AddTaskPool
  <2> QED BY <1>0, <1>6, <2>1, <2>2, AddTaskPoolTypes DEF AddTaskPool, TypeOK
<1>7. CASE Loop("addPool", "sendInit") \/ Loop("sendInit", "start")
  BY <1>0, <1>7 DEF Loop, TypeOK
<1>8. CASE InitializeSingleService
  <2> DEFINE m == todo[next]
  <2>1. m \in Impls
    BY <1>8, NextRegistered DEF InitializeSingleService
  <2>2. CASE impl[m].taskPool = NULL
    BY <1>0, <1>8, <2>2 DEF InitializeSingleService, TypeOK
  <2>3. CASE impl[m].taskPool # NULL
    <3>1. impl[m].taskPool \in Pools /\ Put(impl[m].taskPool, InitMsg(m))
      BY <1>0, <1>8, <2>1, <2>3 DEF InitializeSingleService, TypeOK, ImplType
    <3> QED BY <1>0, <1>8, <2>1, <3>1, PutTypes, MessageTypes DEF InitializeSingleService, TypeOK
  <2> QED BY <2>2, <2>3
<1>9. CASE StartTaskPool
  <2> DEFINE p == impl[todo[next]].taskPool
  <2>1. pool' \in [Pools -> PoolType]
    <3>1. CASE pool' = pool
      BY <1>0, <3>1 DEF TypeOK
    <3>2. CASE pool' = [pool EXCEPT ![p].running = TRUE]
      <4>1. p \in Pools \cup {NULL}
        BY <1>0, <1>9, NextRegistered DEF StartTaskPool, TypeOK, ImplType
      <4>2. CASE p \in Pools
        BY <1>0, <3>2, <4>2, PoolRecords DEF TypeOK
      <4>3. CASE p \notin Pools
        BY <1>0, <3>2, <4>3 DEF TypeOK
      <4> QED BY <4>2, <4>3
    <3> QED BY <1>9, <3>1, <3>2 DEF StartTaskPool
  <2>2. task' \in [Pools -> {"none", "recv", "correct", "work", "destroy", "gone"}]
    BY <1>0, <1>9 DEF StartTaskPool, TypeOK
  <2>3. failures' \in Nat /\ next' \in Nat \ {0}
    BY <1>0, <1>9 DEF StartTaskPool, TypeOK
  <2> QED BY <1>0, <1>9, <2>1, <2>2, <2>3 DEF StartTaskPool, TypeOK
<1>10. CASE UnlockSamgr
  BY <1>0, <1>10 DEF UnlockSamgr, TypeOK
<1>11. ASSUME NEW p \in Pools, Recv(p) PROVE TypeOK'
  <2>1. Head(queue[p]) \in Message /\ Tail(queue[p]) \in Seq(Message)
        /\ Len(Tail(queue[p])) = Len(queue[p]) - 1
    BY <1>0, <1>11 DEF Recv, TypeOK
  <2>2. /\ queue' \in [Pools -> Seq(Message)]
        /\ \A q \in Pools : Len(queue'[q]) <= QueueSize
    BY <1>0, <1>11, <2>1, TaskPoolAssumption DEF Recv, TypeOK
  <2> QED BY <1>0, <1>11, <2>1, <2>2 DEF Recv, TypeOK
<1>12. ASSUME NEW p \in Pools, Correct(p) PROVE TypeOK'
  <2>1. \A i : VECTOR_At(services, i) \in Impls \cup {NULL}
    BY <1>0 DEF VECTOR_At, TypeOK
  <2>2. CorrectServiceImpl(p) \in SUBSET (Impls \cup {NULL})
    BY <1>0, <2>1 DEF CorrectServiceImpl, TypeOK
  <2> QED BY <1>0, <1>12, <2>2 DEF Correct, TypeOK
<1>13. ASSUME NEW p \in Pools, Work(p) PROVE TypeOK'
  <2> DEFINE m == msg[p].impl
  <2>1. impl' \in [Impls -> ImplType]
    <3>1. CASE impl' = impl
      BY <1>0, <3>1 DEF TypeOK
    <3>2. CASE m \in Impls /\ impl' = [impl EXCEPT ![m].st = "idle"]
      <4>1. [impl[m] EXCEPT !.st = "idle"] \in ImplType
        BY <1>0, <3>2, ImplRecords DEF TypeOK
      <4>2. impl' = [impl EXCEPT ![m] = [impl[m] EXCEPT !.st = "idle"]]
        BY <3>2
      <4> QED BY <1>0, <4>1, <4>2 DEF TypeOK
    <3>3. msg[p] # NULL
      BY <1>13 DEF Work, IInv, Busy
    <3> QED BY <1>13, <3>1, <3>2, <3>3 DEF Work, IInv, RunningDirect, Registered
  <2> QED BY <1>0, <1>13, <2>1 DEF Work, TypeOK
<1>14. ASSUME NEW p \in Pools, Destroy(p) PROVE TypeOK'
  <2>1. pool' \in [Pools -> PoolType]
    BY <1>0, <1>14, PoolRecords DEF Destroy, TypeOK
  <2>2. queue' \in [Pools -> Seq(Message)] /\ \A q \in Pools : Len(queue'[q]) <= QueueSize
    BY <1>0, <1>14, TaskPoolAssumption DEF Destroy, TypeOK
  <2> QED BY <1>0, <1>14, <2>1, <2>2 DEF Destroy, TypeOK
<1>15. CASE UNCHANGED vars
  BY <1>0, <1>15 DEF vars, TypeOK
<1> QED
  BY <1>1, <1>2, <1>3, <1>4, <1>5, <1>6, <1>7, <1>8, <1>9, <1>10, <1>11, <1>12, <1>13,
     <1>14, <1>15 DEF Next, Bootstrap, TaskEntry

-----------------------------------------------------------------------------
(* The registry and what refers to it *)

\* What the registry says of the registered services and of all that points
\* to them.
RegistryInv == SlotsRegistered /\ Named /\ Collected /\ QueuedDirect /\ RunningDirect

\* A step that keeps every service registered under its name and id, and that
\* collects, queues and receives nothing new.
LEMMA RegistryFrame ==
  ASSUME IInv, services' = services,
         \A m \in Registered : m \in Registered' /\ impl'[m].name = impl[m].name
                               /\ impl'[m].serviceId = impl[m].serviceId,
         Registered' \subseteq Registered,
         \A i \in DOMAIN todo' : todo'[i] \in Registered,
         \A p \in Pools : \A i \in DOMAIN queue'[p] :
           queue'[p][i].type = "MSG_DIRECT" => queue'[p][i].impl \in Registered,
         \A p \in Pools : msg'[p] # NULL =>
           (msg'[p].type = "MSG_DIRECT" => msg'[p].impl \in Registered)
  PROVE  RegistryInv'
BY DEF RegistryInv, IInv, SlotsRegistered, Named, Collected, QueuedDirect, RunningDirect

\* A step that leaves the services alone.
LEMMA RegistrySame ==
  ASSUME IInv, services' = services, impl' = impl,
         \A i \in DOMAIN todo' : todo'[i] \in Registered,
         \A p \in Pools : \A i \in DOMAIN queue'[p] :
           queue'[p][i].type = "MSG_DIRECT" => queue'[p][i].impl \in Registered,
         \A p \in Pools : msg'[p] # NULL =>
           (msg'[p].type = "MSG_DIRECT" => msg'[p].impl \in Registered)
  PROVE  RegistryInv'
<1>1. Registered' = Registered
  BY DEF Registered
<1> QED BY <1>1 DEF RegistryInv, IInv, SlotsRegistered, Named, Collected, QueuedDirect,
           RunningDirect

\* Every step preserves it.
LEMMA RegistryStep == IInv /\ [Next]_vars => RegistryInv'
<1> SUFFICES ASSUME IInv, [Next]_vars PROVE RegistryInv'
  OBVIOUS
<1> USE DEF registryVars, poolVars, taskVars, bootVars
<1>0. /\ TypeOK
      /\ \A i \in DOMAIN todo : todo[i] \in Registered
      /\ \A p \in Pools : \A i \in DOMAIN queue[p] :
           queue[p][i].type = "MSG_DIRECT" => queue[p][i].impl \in Registered
      /\ \A p \in Pools : msg[p] # NULL =>
           (msg[p].type = "MSG_DIRECT" => msg[p].impl \in Registered)
  BY DEF IInv, Collected, QueuedDirect, RunningDirect
<1>1. ASSUME NEW s \in Svcs, RegisterService(s) PROVE RegistryInv'
  <2>1. PICK m \in Impls :
          /\ impl[m].st = "none"
          /\ services' = VECTOR_Add(services, m)
          /\ impl' = [impl EXCEPT ![m] = [st |-> "init", name |-> s, taskPool |-> NULL,
                                          serviceId |-> AddIndex(services)]]
    BY <1>1 DEF RegisterService, Fresh
  <2>2. m \notin Registered
    BY <2>1 DEF Registered
  <2>3. /\ m \in Registered' /\ impl'[m].name = s /\ impl'[m].serviceId = AddIndex(services)
        /\ \A n \in Registered : n \in Registered' /\ impl'[n] = impl[n]
        /\ Registered' = Registered \cup {m}
    BY <1>0, <2>1 DEF TypeOK, Registered
  <2>4. SlotsRegistered'
    <3>0. services \in Vectors(Impls)
      BY <1>0 DEF TypeOK, Vectors
    <3>1. AddIndex(services) \in Int /\ OnlyAdded(services, services', m, AddIndex(services))
      BY <2>1, <3>0, AddKeepsOthers
    <3>2. AddIndex(services) = (AddIndex(services) + 1) - 1
      BY <3>1
    <3> QED BY <2>3, <3>1, <3>2 DEF IInv, SlotsRegistered, OnlyAdded
  <2>5. Named'
    BY <2>3 DEF IInv, Named
  <2>6. todo' = todo /\ queue' = queue /\ msg' = msg
    BY <1>1 DEF RegisterService
  <2> QED BY <1>0, <2>3, <2>4, <2>5, <2>6 DEF RegistryInv, Collected, QueuedDirect, RunningDirect
<1>2. ASSUME NEW s \in Svcs, UnregisterService(s) PROVE RegistryInv'
  <2> DEFINE k == Find(s)
             m == VECTOR_At(services, k)
             p == impl[m].taskPool
  <2>1. /\ m \in Registered /\ m \in Impls /\ k + 1 \in DOMAIN services.data
        /\ impl[m].serviceId = k /\ m = services.data[k + 1]
    BY <1>2, FindIsHeld DEF UnregisterService, Registered
  <2>2. /\ impl' = [impl EXCEPT ![m] = [Nothing EXCEPT !.st = "freed"]]
        /\ Settled(m) /\ todo' = todo /\ msg' = msg
    BY <1>2 DEF UnregisterService
  <2>3. /\ Registered' = Registered \ {m}
        /\ \A n \in Registered : n # m => impl'[n] = impl[n]
    BY <1>0, <2>1, <2>2 DEF Registered, Nothing, TypeOK
  <2>4. services'.data = [services.data EXCEPT ![k + 1] = NULL]
    BY <1>0, <1>2 DEF UnregisterService, VECTOR_Release, TypeOK
  <2>5. SlotsRegistered'
    <3> SUFFICES ASSUME NEW i \in DOMAIN services'.data, services'.data[i] # NULL
                 PROVE  services'.data[i] \in Registered' /\
                        impl'[services'.data[i]].serviceId = i - 1
      BY DEF SlotsRegistered
    <3>1. i \in DOMAIN services.data /\ services'.data[i] = services.data[i] /\ i # k + 1
      BY <2>1, <2>4
    <3>2. services.data[i] \in Registered /\ impl[services.data[i]].serviceId = i - 1
      BY <3>1 DEF IInv, SlotsRegistered
    <3>3. services.data[i] # m
      BY <1>0, <2>1, <3>1, <3>2 DEF TypeOK
    <3> QED BY <2>3, <3>1, <3>2, <3>3
  <2>6. Named'
    BY <2>3 DEF IInv, Named
  <2>7. Collected' /\ RunningDirect'
    BY <1>0, <2>2, <2>3 DEF Settled, Collected, RunningDirect
  <2>8. QueuedDirect'
    <3>1. \A q \in Pools : \A i \in DOMAIN queue[q] :
            queue[q][i].type = "MSG_DIRECT" => queue[q][i].impl \in Registered'
      BY <1>0, <2>2, <2>3 DEF Settled
    <3>2. CASE queue' = queue
      BY <3>1, <3>2 DEF QueuedDirect
    <3>3. CASE p \in Pools /\ Put(p, ExitMsg)
      BY <1>0, <2>1, <3>1, <3>3, PutTypes, MessageTypes DEF QueuedDirect
    <3>4. p \in Pools \/ p = NULL
      BY <1>0, <2>1 DEF TypeOK, ImplType
    <3> QED BY <1>2, <3>2, <3>3, <3>4, TaskPoolAssumption
        DEF UnregisterService, SAMGR_ReleaseTaskPool
  <2> QED BY <2>5, <2>6, <2>7, <2>8 DEF RegistryInv
<1>3. ASSUME NEW s \in Svcs, SendRequest(s) PROVE RegistryInv'
  <2> DEFINE m == VECTOR_At(services, Find(s))
  <2>1. m \in Impls /\ impl[m].taskPool \in Pools /\ Put(impl[m].taskPool, RequestMsg(m))
    BY <1>0, <1>3, FindIsHeld DEF SendRequest, Registered, TypeOK, ImplType
  <2>2. \A p \in Pools : \A i \in DOMAIN queue'[p] :
           queue'[p][i].type = "MSG_DIRECT" => queue'[p][i].impl \in Registered
    BY <1>0, <2>1, PutTypes, MessageTypes
  <2> QED BY <1>0, <1>3, <2>2, RegistrySame DEF SendRequest
<1>4. ASSUME Collect PROVE RegistryInv'
  BY <1>0, <1>4, CollectsRegistered, RegistrySame DEF Collect
<1>5. CASE LockSamgr \/ Loop("addPool", "sendInit") \/ Loop("sendInit", "start") \/ StartTaskPool
  BY <1>0, <1>5, RegistrySame DEF LockSamgr, Loop, StartTaskPool
<1>6. CASE AddTaskPool
  <2>1. PICK m \in Impls : impl' = impl \/ \E p \in Pools : impl' = [impl EXCEPT ![m].taskPool = p]
    BY <1>6, NextRegistered, AddTaskPoolCases
       DEF AddTaskPool, SharesPool, TakesSlot, NewShared, NewOwn
  <2>2. ASSUME NEW n \in Impls
        PROVE  /\ impl'[n].st = impl[n].st /\ impl'[n].name = impl[n].name
               /\ impl'[n].serviceId = impl[n].serviceId
    <3>1. impl \in [Impls -> ImplType]
      BY <1>0 DEF TypeOK
    <3>2. ASSUME NEW p \in Pools, impl' = [impl EXCEPT ![m].taskPool = p]
          PROVE  impl'[n] = IF n = m THEN [impl[n] EXCEPT !.taskPool = p] ELSE impl[n]
      BY <3>1, <3>2
    <3> QED BY <2>1, <3>1, <3>2 DEF ImplType
  <2>3. Registered' = Registered
    BY <2>2 DEF Registered
  <2>4. services' = services /\ todo' = todo /\ queue' = queue /\ msg' = msg
    BY <1>6 DEF AddTaskPool
  <2>5. \A n \in Registered : n \in Impls
    BY DEF Registered
  <2> QED BY <1>0, <2>2, <2>3, <2>4, <2>5, RegistryFrame
<1>8. CASE InitializeSingleService
  <2> DEFINE m == todo[next]
  <2>1. m \in Impls /\ m \in Registered
    BY <1>8, NextRegistered DEF InitializeSingleService
  <2>2. \A p \in Pools : \A i \in DOMAIN queue'[p] :
           queue'[p][i].type = "MSG_DIRECT" => queue'[p][i].impl \in Registered
    <3>1. CASE impl[m].taskPool = NULL
      BY <1>0, <1>8, <3>1 DEF InitializeSingleService
    <3>2. CASE impl[m].taskPool # NULL
      <4>1. impl[m].taskPool \in Pools /\ Put(impl[m].taskPool, InitMsg(m))
        BY <1>0, <1>8, <2>1, <3>2 DEF InitializeSingleService, TypeOK, ImplType
      <4> QED BY <1>0, <2>1, <4>1, PutTypes, MessageTypes
    <3> QED BY <3>1, <3>2
  <2> QED BY <1>0, <1>8, <2>2, RegistrySame DEF InitializeSingleService
<1>10. CASE UnlockSamgr
  BY <1>0, <1>10, RegistrySame DEF UnlockSamgr
<1>11. ASSUME NEW p \in Pools, Recv(p) PROVE RegistryInv'
  <2>1. /\ Len(queue[p]) \in Nat \ {0} /\ DOMAIN queue[p] = 1 .. Len(queue[p])
        /\ Head(queue[p]) = queue[p][1]
        /\ \A i \in DOMAIN Tail(queue[p]) : /\ i + 1 \in DOMAIN queue[p]
                                            /\ Tail(queue[p])[i] = queue[p][i + 1]
    BY <1>0, <1>11 DEF Recv, TypeOK
  <2>2. \A q \in Pools : \A i \in DOMAIN queue'[q] :
           queue'[q][i].type = "MSG_DIRECT" => queue'[q][i].impl \in Registered
    BY <1>0, <1>11, <2>1 DEF Recv, TypeOK
  <2>3. \A q \in Pools : msg'[q] # NULL =>
           (msg'[q].type = "MSG_DIRECT" => msg'[q].impl \in Registered)
    <3>1. 1 \in DOMAIN queue[p]
      BY <2>1
    <3> QED BY <1>0, <1>11, <2>1, <3>1 DEF Recv, TypeOK
  <2> QED BY <1>0, <1>11, <2>2, <2>3, RegistrySame DEF Recv
<1>12. ASSUME NEW p \in Pools, Correct(p) PROVE RegistryInv'
  BY <1>0, <1>12, RegistrySame DEF Correct
<1>13. ASSUME NEW p \in Pools, Work(p) PROVE RegistryInv'
  <2>1. msg[p] # NULL
    BY <1>13 DEF Work, IInv, Busy
  <2>2. /\ services' = services /\ todo' = todo /\ queue' = queue
        /\ \A q \in Pools : msg'[q] = NULL \/ msg'[q] = msg[q]
    BY <1>0, <1>13 DEF Work, TypeOK
  <2>3. CASE impl' = impl
    BY <1>0, <2>2, <2>3, RegistrySame
  <2>4. ASSUME NEW m \in Registered, impl' = [impl EXCEPT ![m].st = "idle"]
        PROVE  RegistryInv'
    <3>1. impl \in [Impls -> ImplType] /\ m \in Impls
      BY <1>0 DEF TypeOK, Registered
    <3>2. \A n \in Impls :
            /\ impl'[n].name = impl[n].name /\ impl'[n].serviceId = impl[n].serviceId
            /\ impl'[n].st = IF n = m THEN "idle" ELSE impl[n].st
      BY <2>4, <3>1 DEF ImplType
    <3>3. Registered' = Registered
      BY <3>2 DEF Registered
    <3>4. \A n \in Registered : n \in Impls
      BY DEF Registered
    <3> QED BY <1>0, <2>2, <3>2, <3>3, <3>4, RegistryFrame
  <2> QED BY <1>0, <1>13, <2>1, <2>3, <2>4 DEF Work
<1>14. ASSUME NEW p \in Pools, Destroy(p) PROVE RegistryInv'
  <2>1. /\ services' = services /\ impl' = impl /\ todo' = todo
        /\ \A q \in Pools : msg'[q] = NULL \/ msg'[q] = msg[q]
        /\ \A q \in Pools : queue'[q] = <<>> \/ queue'[q] = queue[q]
    BY <1>0, <1>14 DEF Destroy, TypeOK
  <2> QED BY <1>0, <2>1, RegistrySame
<1>15. CASE UNCHANGED vars
  BY <1>0, <1>15, RegistrySame DEF vars
<1> QED
  BY <1>1, <1>2, <1>3, <1>4, <1>5, <1>6, <1>8, <1>10, <1>11, <1>12, <1>13, <1>14, <1>15
  DEF Next, Bootstrap, TaskEntry

-----------------------------------------------------------------------------
(* The pools and their users *)

PoolInv == RefExact /\ UsedPoolsLive /\ Busy /\ Unborn

\* A step that changes no reference and no count, and that neither sends the
\* exit message to a used pool nor ends its task.
LEMMA PoolFrame ==
  ASSUME IInv,
         \A q \in Pools : ImplsOf(q)' = ImplsOf(q) /\ Slots(q)' = Slots(q),
         \A q \in Pools : pool'[q].st = pool[q].st /\ pool'[q].ref = pool[q].ref,
         \A q \in Pools : ImplsOf(q) # {} \/ Slots(q) # {} =>
           /\ ~ pool'[q].destroyed /\ task'[q] \notin {"destroy", "gone"}
           /\ \A i \in DOMAIN queue'[q] : queue'[q][i].type # "MSG_EXIT",
         \A q \in Pools : task'[q] \in {"correct", "work"} => msg'[q] # NULL,
         \A q \in Pools : pool[q].st = "none" =>
           task'[q] = "none" /\ queue'[q] = <<>> /\ ~ pool'[q].destroyed
  PROVE  PoolInv'
<1>1. RefExact'
  BY DEF IInv, RefExact
<1>2. UsedPoolsLive'
  BY DEF IInv, UsedPoolsLive
<1>3. Busy' /\ Unborn'
  BY DEF Busy, Unborn
<1> QED BY <1>1, <1>2, <1>3 DEF PoolInv

\* The users of a pool change only with the services and sharedPool.
LEMMA UsersSame ==
  ASSUME impl' = impl, sharedPool' = sharedPool
  PROVE  \A q \in Pools : ImplsOf(q)' = ImplsOf(q) /\ Slots(q)' = Slots(q)
BY DEF ImplsOf, Registered, Slots

\* A message other than the exit message, put into the queue of a used pool.
LEMMA PutKeepsPools ==
  ASSUME IInv, NEW p \in Pools, ImplsOf(p) # {}, NEW m \in Message, m.type # "MSG_EXIT",
         Put(p, m), impl' = impl, sharedPool' = sharedPool, pool' = pool, task' = task,
         msg' = msg
  PROVE  PoolInv'
<1>1. \A q \in Pools : ImplsOf(q) # {} \/ Slots(q) # {} =>
        /\ ~ pool[q].destroyed /\ task[q] \notin {"destroy", "gone"}
        /\ \A i \in DOMAIN queue'[q] : queue'[q][i].type # "MSG_EXIT"
  BY PutTypes, UserLive DEF IInv
<1>2. \A q \in Pools : pool[q].st = "none" => q # p /\ queue'[q] = queue[q]
  BY PutTypes, UserLive DEF IInv
<1> QED BY <1>1, <1>2, PoolFrame, UsersSame DEF IInv, Busy, Unborn

\* A step that touches neither pools, queues nor tasks.
LEMMA PoolSame ==
  ASSUME IInv, impl' = impl, sharedPool' = sharedPool, pool' = pool, queue' = queue,
         task' = task, msg' = msg
  PROVE  PoolInv'
BY PoolFrame, UsersSame, UserLive DEF IInv, Busy, Unborn

\* UnregisterService: the count of the pool and its users go down together,
\* and the last user takes the pool with it.
LEMMA UnregisterKeepsPools ==
  ASSUME IInv, NEW s \in Svcs, UnregisterService(s)
  PROVE  PoolInv'
<1> DEFINE m == VECTOR_At(services, Find(s))
           taskPool == impl[m].taskPool
<1>0. TypeOK
  BY DEF IInv
<1>1. m \in Registered /\ m \in Impls
  BY FindIsHeld DEF UnregisterService, Registered
<1>2. /\ impl' = [impl EXCEPT ![m] = [Nothing EXCEPT !.st = "freed"]]
      /\ sharedPool' = sharedPool /\ task' = task /\ msg' = msg
      /\ SAMGR_ReleaseTaskPool(taskPool)
  BY DEF UnregisterService, taskVars
<1>3. \A q \in Pools : ImplsOf(q)' = ImplsOf(q) \ {m} /\ Slots(q)' = Slots(q)
  <2>1. /\ impl'[m].st = "freed" /\ \A n \in Impls : n # m => impl'[n] = impl[n]
    BY <1>0, <1>1, <1>2 DEF TypeOK, Nothing
  <2>2. Registered' = Registered \ {m}
    BY <2>1 DEF Registered
  <2>3. \A n \in Registered \ {m} : impl'[n] = impl[n]
    BY <2>1 DEF Registered
  <2> QED BY <1>2, <2>2, <2>3 DEF ImplsOf, Slots
<1>4. \A q \in Pools : m \in ImplsOf(q) <=> q = taskPool
  BY <1>1 DEF ImplsOf
<1>5. CASE taskPool = NULL
  <2>1. pool' = pool /\ queue' = queue
    BY <1>2, <1>5, TaskPoolAssumption DEF SAMGR_ReleaseTaskPool
  <2>2. \A q \in Pools : ImplsOf(q)' = ImplsOf(q)
    BY <1>3, <1>4, <1>5, TaskPoolAssumption
  <2> QED BY <1>2, <1>3, <2>1, <2>2, PoolFrame, UserLive DEF IInv, Busy, Unborn
<1>6. ASSUME NEW p \in Pools, taskPool = p PROVE PoolInv'
  <2>1. p \in Pools /\ m \in ImplsOf(p)
    BY <1>4, <1>6
  <2>2. /\ pool' = [pool EXCEPT ![p].ref = pool[p].ref - 1,
                                ![p].st = IF pool[p].ref = 1 THEN "freed" ELSE pool[p].st]
        /\ IF pool[p].ref = 1 THEN Put(p, ExitMsg) ELSE queue' = queue
    BY <1>2, <1>6, <2>1, ReleaseTypes
  <2>3. /\ pool'[p].ref = pool[p].ref - 1
        /\ pool'[p].st = IF pool[p].ref = 1 THEN "freed" ELSE pool[p].st
        /\ pool'[p].destroyed = pool[p].destroyed
        /\ \A q \in Pools : q # p => pool'[q] = pool[q]
    BY <1>0, <2>1, <2>2 DEF TypeOK, PoolType
  <2>4. /\ pool[p].st = "live" /\ ~ pool[p].destroyed
        /\ task[p] \notin {"destroy", "gone"}
        /\ \A i \in DOMAIN queue[p] : queue[p][i].type # "MSG_EXIT"
        /\ pool[p].ref = Cardinality(ImplsOf(p)) + Cardinality(Slots(p))
    BY <2>1, UserLive
  <2>5. /\ Cardinality(ImplsOf(p)') = Cardinality(ImplsOf(p)) - 1
        /\ IsFiniteSet(ImplsOf(p)') /\ IsFiniteSet(Slots(p))
        /\ Cardinality(ImplsOf(p)) \in Nat /\ Cardinality(Slots(p)) \in Nat
        /\ Cardinality(ImplsOf(p)') \in Nat
    BY <1>3, <2>1, UsersFinite, FS_RemoveElement, FS_CardinalityType
  <2>6. \A q \in Pools : q # p => ImplsOf(q)' = ImplsOf(q)
    BY <1>3, <1>4, <1>6
  <2>7. \A q \in Pools : q # p => queue'[q] = queue[q]
    BY <1>0, <2>1, <2>2, PutTypes, MessageTypes, <1>1
  <2>8. RefExact'
    <3>1. pool'[p].ref = Cardinality(ImplsOf(p)') + Cardinality(Slots(p)')
      BY <1>3, <2>1, <2>3, <2>4, <2>5
    <3> QED BY <1>3, <2>3, <2>6, <3>1 DEF IInv, RefExact
  <2>9. UsedPoolsLive'
    <3>1. CASE pool[p].ref = 1
      <4>1. ImplsOf(p)' = {} /\ Slots(p)' = {}
        <5>1. Cardinality(ImplsOf(p)) # 0
          BY <2>1, UsersFinite, FS_EmptySet
        <5>2. Cardinality(ImplsOf(p)') = 0 /\ Cardinality(Slots(p)) = 0
          BY <2>4, <2>5, <3>1, <5>1
        <5> QED BY <1>3, <2>5, <5>2, FS_EmptySet
      <4> QED BY <1>2, <1>3, <2>3, <2>6, <2>7, <4>1 DEF IInv, UsedPoolsLive
    <3>2. CASE pool[p].ref # 1
      <4>1. queue' = queue /\ pool'[p].st = "live" /\ ~ pool'[p].destroyed
        BY <2>2, <2>3, <2>4, <3>2
      <4> QED BY <1>2, <1>3, <2>3, <2>4, <2>6, <4>1 DEF IInv, UsedPoolsLive
    <3> QED BY <3>1, <3>2
  <2>10. Busy' /\ Unborn'
    BY <1>2, <2>3, <2>4, <2>7 DEF IInv, Busy, Unborn
  <2> QED BY <2>8, <2>9, <2>10 DEF PoolInv
<1>7. taskPool = NULL \/ taskPool \in Pools
  BY <1>0, <1>1 DEF TypeOK, ImplType
<1> QED BY <1>5, <1>6, <1>7

\* AddTaskPool: a service that gets a pool is counted for.
LEMMA AddTaskPoolKeepsPools ==
  ASSUME IInv, AddTaskPool
  PROVE  PoolInv'
<1> DEFINE m == todo[next]
<1>0. TypeOK
  BY DEF IInv
<1>1. m \in Registered /\ m \in Impls
  BY NextRegistered DEF AddTaskPool
<1>2. queue' = queue /\ task' = task /\ msg' = msg
  BY DEF AddTaskPool, taskVars
<1>3. CASE impl' = impl /\ pool' = pool /\ sharedPool' = sharedPool
  BY <1>2, <1>3, PoolSame
<1>4. ASSUME impl[m].taskPool = NULL, NEW p \in Pools, impl' = [impl EXCEPT ![m].taskPool = p]
      PROVE  /\ ImplsOf(p)' = ImplsOf(p) \cup {m} /\ m \notin ImplsOf(p)
             /\ \A q \in Pools : q # p => ImplsOf(q)' = ImplsOf(q)
             /\ Cardinality(ImplsOf(p)') = Cardinality(ImplsOf(p)) + 1
  <2>1. \A n \in Impls : /\ impl'[n].st = impl[n].st
                         /\ impl'[n].taskPool = IF n = m THEN p ELSE impl[n].taskPool
    BY <1>0, <1>4 DEF TypeOK, ImplType
  <2>2. Registered' = Registered /\ \A n \in Registered : n \in Impls
    BY <2>1 DEF Registered
  <2>3. m \notin ImplsOf(p)
    BY <1>4, TaskPoolAssumption DEF ImplsOf
  <2>4. ImplsOf(p)' = ImplsOf(p) \cup {m}
    BY <1>1, <2>1, <2>2 DEF ImplsOf
  <2>5. \A q \in Pools : q # p => ImplsOf(q)' = ImplsOf(q)
    BY <1>4, <2>1, <2>2, TaskPoolAssumption DEF ImplsOf
  <2> QED BY <2>3, <2>4, <2>5, UsersFinite, FS_AddElement
<1>5. ASSUME NEW p \in Pools, pool[p].st = "none"
      PROVE  /\ ImplsOf(p) = {} /\ Slots(p) = {}
             /\ task[p] = "none" /\ queue[p] = <<>> /\ ~ pool[p].destroyed
  BY <1>5 DEF IInv, UsedPoolsLive, Unborn
<1>6. ASSUME NEW p \in Pools, impl[m].taskPool = NULL, SharesPool(m, p)
      PROVE  PoolInv'
  <2>1. /\ pool'[p].ref = pool[p].ref + 1 /\ pool'[p].st = pool[p].st
        /\ pool'[p].destroyed = pool[p].destroyed
        /\ \A q \in Pools : q # p => pool'[q] = pool[q]
    BY <1>0, <1>6 DEF SharesPool, Reference, TypeOK, PoolType
  <2>2. \A q \in Pools : Slots(q)' = Slots(q)
    BY <1>6 DEF SharesPool, Slots
  <2>3. /\ pool[p].st = "live" /\ ~ pool[p].destroyed /\ task[p] \notin {"destroy", "gone"}
        /\ \A i \in DOMAIN queue[p] : queue[p][i].type # "MSG_EXIT"
        /\ pool[p].ref = Cardinality(ImplsOf(p)) + Cardinality(Slots(p))
    BY <1>6, UserLive DEF SharesPool
  <2>4. /\ Cardinality(ImplsOf(p)') = Cardinality(ImplsOf(p)) + 1
        /\ \A q \in Pools : q # p => ImplsOf(q)' = ImplsOf(q)
    BY <1>4, <1>6 DEF SharesPool
  <2>5. RefExact'
    BY <2>1, <2>2, <2>3, <2>4, UsersFinite DEF IInv, RefExact
  <2>6. UsedPoolsLive'
    BY <1>2, <2>1, <2>2, <2>3, <2>4 DEF IInv, UsedPoolsLive
  <2>7. Busy' /\ Unborn'
    BY <1>2, <2>1, <2>3 DEF IInv, Busy, Unborn
  <2> QED BY <2>5, <2>6, <2>7 DEF PoolInv
<1>7. ASSUME NEW p \in Pools, NEW i \in Positions, impl[m].taskPool = NULL, TakesSlot(m, p, i)
      PROVE  PoolInv'
  <2>1. pool' = pool /\ i \in Slots(p)
    BY <1>7 DEF TakesSlot, Slots
  <2>2. /\ Slots(p)' = Slots(p) \ {i}
        /\ \A q \in Pools : q # p => Slots(q)' = Slots(q)
    BY <1>0, <1>7, TaskPoolAssumption DEF TakesSlot, Slots, TypeOK
  <2>3. /\ pool[p].st = "live" /\ ~ pool[p].destroyed /\ task[p] \notin {"destroy", "gone"}
        /\ \A j \in DOMAIN queue[p] : queue[p][j].type # "MSG_EXIT"
        /\ pool[p].ref = Cardinality(ImplsOf(p)) + Cardinality(Slots(p))
    BY <2>1, UserLive
  <2>4. /\ Cardinality(ImplsOf(p)') = Cardinality(ImplsOf(p)) + 1
        /\ \A q \in Pools : q # p => ImplsOf(q)' = ImplsOf(q)
    BY <1>4, <1>7 DEF TakesSlot
  <2>5. Cardinality(Slots(p)') = Cardinality(Slots(p)) - 1
    BY <2>1, <2>2, UsersFinite, FS_RemoveElement
  <2>6. RefExact'
    <3>1. pool'[p].ref = Cardinality(ImplsOf(p)') + Cardinality(Slots(p)')
      BY <2>1, <2>3, <2>4, <2>5, UsersFinite
    <3> QED BY <2>1, <2>2, <2>4, <3>1 DEF IInv, RefExact
  <2>7. UsedPoolsLive'
    BY <1>2, <2>1, <2>2, <2>3, <2>4 DEF IInv, UsedPoolsLive
  <2>8. Busy' /\ Unborn'
    BY <1>2, <2>1 DEF IInv, Busy, Unborn
  <2> QED BY <2>6, <2>7, <2>8 DEF PoolInv
<1>8. ASSUME NEW p \in Pools, NEW i \in Positions, impl[m].taskPool = NULL, NewShared(m, p, i)
      PROVE  PoolInv'
  <2>1. /\ pool'[p].ref = 2 /\ pool'[p].st = "live"
        /\ pool'[p].destroyed = pool[p].destroyed
        /\ \A q \in Pools : q # p => pool'[q] = pool[q]
    BY <1>0, <1>8 DEF NewShared, CreateFixedTaskPool, TypeOK, PoolType
  <2>2. /\ Slots(p)' = Slots(p) \cup {i}
        /\ \A q \in Pools : q # p => Slots(q)' = Slots(q)
    BY <1>0, <1>8, TaskPoolAssumption DEF NewShared, Slots, TypeOK
  <2>3. /\ ImplsOf(p) = {} /\ Slots(p) = {}
        /\ task[p] = "none" /\ queue[p] = <<>> /\ ~ pool[p].destroyed
    BY <1>5, <1>8 DEF NewShared
  <2>4. /\ Cardinality(ImplsOf(p)') = Cardinality(ImplsOf(p)) + 1
        /\ \A q \in Pools : q # p => ImplsOf(q)' = ImplsOf(q)
    BY <1>4, <1>8 DEF NewShared
  <2>5. Cardinality(ImplsOf(p)') = 1 /\ Cardinality(Slots(p)') = 1
    <3>1. Cardinality(ImplsOf(p)) = 0
      BY <2>3, FS_EmptySet
    <3>2. Slots(p)' = {i}
      BY <2>2, <2>3
    <3>3. Cardinality({i}) = 1
      BY FS_Singleton
    <3> QED BY <2>4, <3>1, <3>2, <3>3
  <2>6. RefExact'
    <3>1. pool'[p].ref = Cardinality(ImplsOf(p)') + Cardinality(Slots(p)')
      BY <2>1, <2>5
    <3> QED BY <2>1, <2>2, <2>4, <3>1 DEF IInv, RefExact
  <2>7. UsedPoolsLive'
    BY <1>2, <2>1, <2>2, <2>3, <2>4 DEF IInv, UsedPoolsLive
  <2>8. Busy' /\ Unborn'
    BY <1>2, <2>1 DEF IInv, Busy, Unborn
  <2> QED BY <2>6, <2>7, <2>8 DEF PoolInv
<1>9. ASSUME NEW p \in Pools, impl[m].taskPool = NULL, NewOwn(m, p)
      PROVE  PoolInv'
  <2>1. /\ pool'[p].ref = 1 /\ pool'[p].st = "live"
        /\ pool'[p].destroyed = pool[p].destroyed
        /\ \A q \in Pools : q # p => pool'[q] = pool[q]
    BY <1>0, <1>9 DEF NewOwn, CreateFixedTaskPool, TypeOK, PoolType
  <2>2. \A q \in Pools : Slots(q)' = Slots(q)
    BY <1>9 DEF NewOwn, Slots
  <2>3. /\ ImplsOf(p) = {} /\ Slots(p) = {}
        /\ task[p] = "none" /\ queue[p] = <<>> /\ ~ pool[p].destroyed
    BY <1>5, <1>9 DEF NewOwn
  <2>4. /\ Cardinality(ImplsOf(p)') = Cardinality(ImplsOf(p)) + 1
        /\ \A q \in Pools : q # p => ImplsOf(q)' = ImplsOf(q)
    BY <1>4, <1>9 DEF NewOwn
  <2>5. Cardinality(ImplsOf(p)') = 1 /\ Cardinality(Slots(p)') = 0
    <3>1. Cardinality(ImplsOf(p)) = 0 /\ Cardinality(Slots(p)) = 0
      BY <2>3, FS_EmptySet
    <3> QED BY <2>2, <2>4, <3>1
  <2>6. RefExact'
    <3>1. pool'[p].ref = Cardinality(ImplsOf(p)') + Cardinality(Slots(p)')
      BY <2>1, <2>5
    <3> QED BY <2>1, <2>2, <2>4, <3>1 DEF IInv, RefExact
  <2>7. UsedPoolsLive'
    BY <1>2, <2>1, <2>2, <2>3, <2>4 DEF IInv, UsedPoolsLive
  <2>8. Busy' /\ Unborn'
    BY <1>2, <2>1 DEF IInv, Busy, Unborn
  <2> QED BY <2>6, <2>7, <2>8 DEF PoolInv
<1> QED BY <1>3, <1>6, <1>7, <1>8, <1>9, AddTaskPoolCases

\* Every step preserves what holds of the pools.
LEMMA PoolStep == IInv /\ [Next]_vars => PoolInv'
<1> SUFFICES ASSUME IInv, [Next]_vars PROVE PoolInv'
  OBVIOUS
<1> USE DEF registryVars, poolVars, taskVars, bootVars
<1>0. TypeOK /\ Busy /\ Unborn
  BY DEF IInv
<1>1. ASSUME NEW s \in Svcs, RegisterService(s) PROVE PoolInv'
  <2>1. PICK m \in Impls :
          /\ impl[m].st = "none"
          /\ impl' = [impl EXCEPT ![m] = [st |-> "init", name |-> s, taskPool |-> NULL,
                                          serviceId |-> AddIndex(services)]]
    BY <1>1 DEF RegisterService, Fresh
  <2>2. /\ impl'[m].taskPool = NULL /\ m \notin Registered
        /\ Registered' = Registered \cup {m}
        /\ \A n \in Registered : impl'[n] = impl[n]
    BY <1>0, <2>1 DEF TypeOK, Registered
  <2>3. \A q \in Pools : ImplsOf(q)' = ImplsOf(q)
    BY <2>2, TaskPoolAssumption DEF ImplsOf
  <2>4. /\ sharedPool' = sharedPool /\ pool' = pool /\ queue' = queue /\ task' = task
        /\ msg' = msg
    BY <1>1 DEF RegisterService
  <2>5. \A q \in Pools : Slots(q)' = Slots(q)
    BY <2>4 DEF Slots
  <2> QED BY <1>0, <2>3, <2>4, <2>5, PoolFrame, UserLive DEF Busy, Unborn
<1>2. ASSUME NEW s \in Svcs, UnregisterService(s) PROVE PoolInv'
  BY <1>2, UnregisterKeepsPools
<1>3. ASSUME NEW s \in Svcs, SendRequest(s) PROVE PoolInv'
  <2> DEFINE m == VECTOR_At(services, Find(s))
  <2>1. m \in Impls /\ m \in Registered /\ impl[m].taskPool \in Pools
    BY <1>0, <1>3, FindIsHeld DEF SendRequest, Registered, TypeOK, ImplType
  <2>2. PICK p \in Pools : p = impl[m].taskPool
    BY <2>1
  <2>3. ImplsOf(p) # {} /\ Put(p, RequestMsg(m))
    BY <1>3, <2>1, <2>2 DEF SendRequest, ImplsOf
  <2> QED BY <1>0, <1>3, <2>1, <2>3, PutKeepsPools, MessageTypes DEF SendRequest
<1>4. CASE Collect \/ LockSamgr \/ Loop("addPool", "sendInit") \/ Loop("sendInit", "start")
           \/ UnlockSamgr
  BY <1>4, PoolSame DEF Collect, LockSamgr, Loop, UnlockSamgr
<1>6. CASE AddTaskPool
  BY <1>6, AddTaskPoolKeepsPools
<1>8. CASE InitializeSingleService
  <2> DEFINE m == todo[next]
  <2>1. m \in Impls /\ m \in Registered
    BY <1>8, NextRegistered DEF InitializeSingleService
  <2>2. CASE impl[m].taskPool = NULL
    BY <1>8, <2>2, PoolSame DEF InitializeSingleService
  <2>3. CASE impl[m].taskPool # NULL
    <3>1. impl[m].taskPool \in Pools
      BY <1>0, <2>1, <2>3 DEF TypeOK, ImplType
    <3>2. PICK p \in Pools : p = impl[m].taskPool
      BY <3>1
    <3>3. ImplsOf(p) # {} /\ Put(p, InitMsg(m))
      BY <1>8, <2>1, <2>3, <3>2 DEF InitializeSingleService, ImplsOf
    <3> QED BY <1>0, <1>8, <2>1, <3>3, PutKeepsPools, MessageTypes DEF InitializeSingleService
  <2> QED BY <2>2, <2>3
<1>9. CASE StartTaskPool
  <2> DEFINE m == todo[next]
  <2>1. m \in Impls /\ m \in Registered
    BY <1>9, NextRegistered DEF StartTaskPool
  <2>2. CASE pool' = pool /\ task' = task
    BY <1>9, <2>2, PoolSame DEF StartTaskPool
  <2>3. ASSUME NEW p \in Pools, p = impl[m].taskPool,
               pool' = [pool EXCEPT ![p].running = TRUE], task' = [task EXCEPT ![p] = "recv"]
        PROVE  PoolInv'
    <3>1. ImplsOf(p) # {} /\ pool[p].st = "live"
      BY <2>1, <2>3, UserLive DEF ImplsOf
    <3>2. \A q \in Pools : /\ pool'[q].st = pool[q].st /\ pool'[q].ref = pool[q].ref
                           /\ pool'[q].destroyed = pool[q].destroyed
                           /\ task'[q] = IF q = p THEN "recv" ELSE task[q]
      BY <1>0, <2>3 DEF TypeOK, PoolType
    <3> QED BY <1>0, <1>9, <3>1, <3>2, PoolFrame, UsersSame, UserLive
            DEF StartTaskPool, Busy, Unborn
  <2>4. impl[m].taskPool = NULL \/ impl[m].taskPool \in Pools
    BY <1>0, <2>1 DEF TypeOK, ImplType
  <2> QED BY <1>9, <2>2, <2>3, <2>4 DEF StartTaskPool
<1>11. ASSUME NEW p \in Pools, Recv(p) PROVE PoolInv'
  <2>1. /\ queue[p] # <<>> /\ pool[p].st # "none"
        /\ impl' = impl /\ sharedPool' = sharedPool /\ pool' = pool
    BY <1>0, <1>11 DEF Recv, Unborn
  <2>2. /\ 1 \in DOMAIN queue[p] /\ Head(queue[p]) = queue[p][1] /\ Head(queue[p]) # NULL
        /\ \A i \in DOMAIN Tail(queue[p]) : /\ i + 1 \in DOMAIN queue[p]
                                            /\ Tail(queue[p])[i] = queue[p][i + 1]
    <3>1. queue[p] \in Seq(Message) /\ Len(queue[p]) \in Nat \ {0}
      BY <1>0, <2>1 DEF TypeOK
    <3>2. queue[p][1] \in Message
      BY <3>1
    <3> QED BY <3>1, <3>2, TaskPoolAssumption
  <2>3. \A q \in Pools : ImplsOf(q) # {} \/ Slots(q) # {} =>
          /\ ~ pool[q].destroyed /\ task'[q] \notin {"destroy", "gone"}
          /\ \A i \in DOMAIN queue'[q] : queue'[q][i].type # "MSG_EXIT"
    BY <1>0, <1>11, <2>2, UserLive DEF Recv, TypeOK
  <2>4. \A q \in Pools : task'[q] \in {"correct", "work"} => msg'[q] # NULL
    BY <1>0, <1>11, <2>2 DEF Recv, TypeOK, Busy
  <2>5. \A q \in Pools : pool[q].st = "none" =>
          task'[q] = "none" /\ queue'[q] = <<>> /\ ~ pool'[q].destroyed
    BY <1>0, <1>11, <2>1 DEF Recv, TypeOK, Unborn
  <2> QED BY <2>1, <2>3, <2>4, <2>5, PoolFrame, UsersSame
<1>12. ASSUME NEW p \in Pools, Correct(p) PROVE PoolInv'
  <2>1. /\ task[p] = "correct" /\ msg[p] # NULL /\ pool[p].st # "none"
        /\ task' = [task EXCEPT ![p] = "work"]
        /\ impl' = impl /\ sharedPool' = sharedPool /\ pool' = pool /\ queue' = queue
        /\ msg' = msg
    BY <1>0, <1>12 DEF Correct, Busy, Unborn
  <2> QED BY <1>0, <2>1, PoolFrame, UsersSame, UserLive DEF TypeOK, Busy, Unborn
<1>13. ASSUME NEW p \in Pools, Work(p) PROVE PoolInv'
  <2>1. /\ task[p] = "work" /\ msg[p] # NULL /\ pool[p].st # "none"
        /\ task' = [task EXCEPT ![p] = "recv"] /\ msg' = [msg EXCEPT ![p] = NULL]
        /\ sharedPool' = sharedPool /\ pool' = pool /\ queue' = queue
    BY <1>0, <1>13 DEF Work, Busy, Unborn
  <2>2. \A q \in Pools : ImplsOf(q)' = ImplsOf(q)
    <3>1. CASE impl' = impl
      BY <3>1 DEF ImplsOf, Registered
    <3>2. ASSUME NEW m \in Registered, impl' = [impl EXCEPT ![m].st = "idle"]
          PROVE  \A q \in Pools : ImplsOf(q)' = ImplsOf(q)
      <4>1. impl \in [Impls -> ImplType] /\ m \in Impls
        BY <1>0 DEF TypeOK, Registered
      <4>2. \A n \in Impls : /\ impl'[n].taskPool = impl[n].taskPool
                             /\ impl'[n].st = IF n = m THEN "idle" ELSE impl[n].st
        BY <3>2, <4>1 DEF ImplType
      <4>3. Registered' = Registered /\ \A n \in Registered : n \in Impls
        BY <4>2 DEF Registered
      <4> QED BY <4>2, <4>3 DEF ImplsOf
    <3> QED BY <1>13, <2>1, <3>1, <3>2 DEF Work, IInv, RunningDirect
  <2>3. \A q \in Pools : Slots(q)' = Slots(q)
    BY <2>1 DEF Slots
  <2> QED BY <1>0, <2>1, <2>2, <2>3, PoolFrame, UserLive DEF TypeOK, Busy, Unborn
<1>14. ASSUME NEW p \in Pools, Destroy(p) PROVE PoolInv'
  <2>1. /\ task[p] = "destroy" /\ pool[p].st # "none"
        /\ task' = [task EXCEPT ![p] = "gone"] /\ msg' = [msg EXCEPT ![p] = NULL]
        /\ queue' = [queue EXCEPT ![p] = <<>>]
        /\ impl' = impl /\ sharedPool' = sharedPool
    BY <1>0, <1>14 DEF Destroy, Unborn
  <2>2. \A q \in Pools : /\ pool'[q].st = pool[q].st /\ pool'[q].ref = pool[q].ref
                         /\ q # p => pool'[q].destroyed = pool[q].destroyed
    <3>1. pool' = [pool EXCEPT ![p].destroyed = TRUE] /\ pool \in [Pools -> PoolType]
      BY <1>0, <1>14 DEF Destroy, TypeOK
    <3> QED BY ONLY <3>1 DEF PoolType
  <2>3. ImplsOf(p) = {} /\ Slots(p) = {}
    BY <2>1, UserLive
  <2>4. \A q \in Pools : ImplsOf(q)' = ImplsOf(q) /\ Slots(q)' = Slots(q)
    BY <2>1, UsersSame
  <2>5. \A q \in Pools : /\ q # p => task'[q] = task[q] /\ msg'[q] = msg[q] /\ queue'[q] = queue[q]
                         /\ task'[p] = "gone"
    BY <1>0, <2>1 DEF TypeOK
  <2>6. \A q \in Pools : ImplsOf(q) # {} \/ Slots(q) # {} =>
          /\ ~ pool'[q].destroyed /\ task'[q] \notin {"destroy", "gone"}
          /\ \A i \in DOMAIN queue'[q] : queue'[q][i].type # "MSG_EXIT"
    BY <2>2, <2>3, <2>5, UserLive
  <2>7. \A q \in Pools : task'[q] \in {"correct", "work"} => msg'[q] # NULL
    BY <1>0, <2>5 DEF Busy
  <2>8. \A q \in Pools : pool[q].st = "none" =>
          task'[q] = "none" /\ queue'[q] = <<>> /\ ~ pool'[q].destroyed
    BY <1>0, <2>1, <2>2, <2>5 DEF Unborn
  <2> QED BY <2>2, <2>4, <2>6, <2>7, <2>8, PoolFrame
<1>15. CASE UNCHANGED vars
  BY <1>15, PoolSame DEF vars
<1> QED
  BY <1>1, <1>2, <1>3, <1>4, <1>6, <1>8, <1>9, <1>11, <1>12, <1>13, <1>14, <1>15
  DEF Next, Bootstrap, TaskEntry

-----------------------------------------------------------------------------
(* The theorems *)

\* The strengthening holds of every reachable state.
THEOREM Invariance == Spec => []IInv
<1>1. IInv /\ [Next]_vars => IInv'
  BY TypeStep, RegistryStep, PoolStep DEF IInv, RegistryInv, PoolInv
<1> QED BY InitIInv, <1>1, PTL DEF Spec

\* The state has its types, and a pool's count never leaves 0 .. MAX_REF_NUM,
\* whatever SAMGR_ReferenceTaskPool and SAMGR_ReleaseTaskPool are called for.
THEOREM TypeCorrect == Spec => []TypeOK
<1>1. IInv => TypeOK
  BY DEF IInv
<1> QED BY Invariance, <1>1, PTL

\* The count of a live pool is the number of registered services that run in
\* it plus its slot of sharedPool, through AddTaskPool, the hand-over of the
\* slot's reference at MAX_REF_NUM and UnregisterService.
THEOREM ReferencesExact == Spec => []RefExact
<1>1. IInv => RefExact
  BY DEF IInv
<1> QED BY Invariance, <1>1, PTL

\* UnregisterService never frees, and no task destroys, the pool of a service
\* that is still registered or the pool in a slot of sharedPool.
THEOREM PoolsInUseAreLive == Spec => []UsedPoolsLive
<1>1. IInv => UsedPoolsLive
  BY DEF IInv
<1> QED BY Invariance, <1>1, PTL
=============================================================================
