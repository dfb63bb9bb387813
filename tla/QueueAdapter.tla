---------------------------- MODULE QueueAdapter -----------------------------
(***************************************************************************)
(* ohos_adapter/posix/queue_adapter.c: the blocking message queue around   *)
(* the lock-free ring.  Any number of producers call QUEUE_Put with        *)
(* DONT_WAIT; one task calls QUEUE_Pop with WAIT_FOREVER.  Producers are   *)
(* serialised by wMutex; the consumer first pops without a lock and takes  *)
(* rMutex only to sleep on cond.                                           *)
(*                                                                         *)
(* The ring is at the level of BoundedFifo, which LockFreeQueue shows it   *)
(* to be for one producer and one consumer; the test of LFQUE_Push and     *)
(* LFQUE_Pop and the publication of their cursor stay two steps.           *)
(***************************************************************************)
EXTENDS Naturals, Sequences, SequencesExt

CONSTANTS Producers, Count, Free, NoElement, MaxPuts

ASSUME QueueAssumption == /\ Count \in Nat \ {0}
                          /\ MaxPuts \in Nat   \* bound: puts of each producer
                          /\ Free \notin Producers \cup {"consumer"}

VARIABLES
  items,       \* the elements between the cursors of the ring
  wMutex,      \* who holds wMutex, or Free
  rMutex,      \* who holds rMutex, or Free
  putPc,       \* where each producer is in QUEUE_Put
  puts,        \* how many puts each producer has started
  putRet,      \* ret of each producer's QUEUE_Put
  popPc,       \* where the consumer is in QUEUE_Pop
  got,         \* *element of the consumer, NoElement while in QUEUE_Pop
  accepted,    \* history: the elements of each producer that were pushed
  taken        \* history: the elements popped

putVars == <<putPc, puts, putRet, accepted>>
popVars == <<popPc, got, taken>>
vars == <<items, wMutex, rMutex, putPc, puts, putRet, accepted, popPc, got, taken>>

Elements == Producers \X (0 .. MaxPuts)
ElementOf(p) == <<p, puts[p]>>

QUEUE_Create == items = <<>> /\ wMutex = Free /\ rMutex = Free

Init == /\ QUEUE_Create
        /\ putPc = [p \in Producers |-> "idle"]
        /\ puts = [p \in Producers |-> 0]
        /\ putRet = [p \in Producers |-> "EC_SUCCESS"]
        /\ accepted = [p \in Producers |-> <<>>]
        /\ popPc = "idle" /\ got = NoElement /\ taken = <<>>

-----------------------------------------------------------------------------
(* QUEUE_Put *)

PutCall(p) == /\ putPc[p] = "idle" /\ puts[p] < MaxPuts
              /\ puts' = [puts EXCEPT ![p] = @ + 1]
              /\ putPc' = [putPc EXCEPT ![p] = "push"]
              /\ UNCHANGED <<items, wMutex, rMutex, putRet, accepted, popVars>>

\* Mutant: wMutex is not taken.
PutLockFree(p) == /\ putPc[p] = "push"
                  /\ putPc' = [putPc EXCEPT ![p] = "check"]
                  /\ UNCHANGED <<items, wMutex, rMutex, puts, putRet, accepted, popVars>>

PutLock(p) == /\ putPc[p] = "push" /\ wMutex = Free
              /\ wMutex' = p
              /\ putPc' = [putPc EXCEPT ![p] = "check"]
              /\ UNCHANGED <<items, rMutex, puts, putRet, accepted, popVars>>

\* Mutants: no test for a full ring; a test that refuses one slot early.
PutCheckNone(p) == /\ putPc[p] = "check"
                   /\ putPc' = [putPc EXCEPT ![p] = "publish"]
                   /\ UNCHANGED <<items, wMutex, rMutex, puts, putRet, accepted, popVars>>
PutCheckEarly(p) == /\ putPc[p] = "check"
                    /\ IF Len(items) >= Count - 1
                       THEN /\ putPc' = [putPc EXCEPT ![p] = "unlock"]
                            /\ putRet' = [putRet EXCEPT ![p] = "EC_BUSBUSY"]
                       ELSE /\ putPc' = [putPc EXCEPT ![p] = "publish"]
                            /\ UNCHANGED putRet
                    /\ UNCHANGED <<items, wMutex, rMutex, puts, accepted, popVars>>

\* LFQUE_IsFull in LFQUE_Push; a full ring also goes on to signal.
PutCheck(p) == /\ putPc[p] = "check"
               /\ IF Len(items) = Count
                  THEN /\ putPc' = [putPc EXCEPT ![p] = "unlock"]
                       /\ putRet' = [putRet EXCEPT ![p] = "EC_BUSBUSY"]
                  ELSE /\ putPc' = [putPc EXCEPT ![p] = "publish"]
                       /\ UNCHANGED putRet
               /\ UNCHANGED <<items, wMutex, rMutex, puts, accepted, popVars>>

PutPublish(p) == /\ putPc[p] = "publish"
                 /\ items' = Append(items, ElementOf(p))
                 /\ accepted' = [accepted EXCEPT ![p] = Append(@, ElementOf(p))]
                 /\ putRet' = [putRet EXCEPT ![p] = "EC_SUCCESS"]
                 /\ putPc' = [putPc EXCEPT ![p] = "unlock"]
                 /\ UNCHANGED <<wMutex, rMutex, puts, popVars>>

PutUnlock(p) == /\ putPc[p] = "unlock"
                /\ wMutex' = Free
                /\ putPc' = [putPc EXCEPT ![p] = "signal"]
                /\ UNCHANGED <<items, rMutex, puts, putRet, accepted, popVars>>

\* pthread_cond_signal wakes the consumer if it sleeps on cond, else nothing.
Signal == popPc' = IF popPc = "asleep" THEN "awake" ELSE popPc

\* Mutant: the signal is sent without rMutex.
PutSignalUnlocked(p) ==
  /\ putPc[p] = "signal"
  /\ Signal
  /\ putPc' = [putPc EXCEPT ![p] = "idle"]
  /\ UNCHANGED <<items, wMutex, rMutex, puts, putRet, accepted, got, taken>>

PutSignal(p) == /\ putPc[p] = "signal" /\ rMutex = Free
                /\ Signal
                /\ putPc' = [putPc EXCEPT ![p] = "idle"]
                /\ UNCHANGED <<items, wMutex, rMutex, puts, putRet, accepted, got, taken>>

-----------------------------------------------------------------------------
(* QUEUE_Pop *)

PopCall == /\ popPc = "idle"
           /\ popPc' = "fastCheck"
           /\ got' = NoElement
           /\ UNCHANGED <<items, wMutex, rMutex, taken, putVars>>

\* LFQUE_IsEmpty in the LFQUE_Pop before rMutex, and in the loop under it.
FastCheck == /\ popPc = "fastCheck"
             /\ popPc' = IF items = <<>> THEN "lock" ELSE "fastTake"
             /\ UNCHANGED <<items, wMutex, rMutex, got, taken, putVars>>

PopLock == /\ popPc \in {"lock", "awake"} /\ rMutex = Free
           /\ rMutex' = "consumer"
           /\ popPc' = "check"
           /\ UNCHANGED <<items, wMutex, got, taken, putVars>>

PopCheck == /\ popPc = "check"
            /\ popPc' = IF items = <<>> THEN "sleep" ELSE "take"
            /\ UNCHANGED <<items, wMutex, rMutex, got, taken, putVars>>

\* Mutant: read is not moved.
TakeNoMove(from, to) == /\ popPc = from
                        /\ got' = Head(items)
                        /\ taken' = Append(taken, Head(items))
                        /\ items' = items
                        /\ popPc' = to

\* The rest of a successful LFQUE_Pop: copy the oldest element, move read.
Take(from, to) == /\ popPc = from
                  /\ got' = Head(items)
                  /\ taken' = Append(taken, Head(items))
                  /\ items' = Tail(items)
                  /\ popPc' = to

FastTake == Take("fastTake", "idle") /\ UNCHANGED <<wMutex, rMutex, putVars>>

PopTake == Take("take", "idle") /\ rMutex' = Free /\ UNCHANGED <<wMutex, putVars>>

\* pthread_cond_wait starts to sleep and releases rMutex in one step.
PopSleep == /\ popPc = "sleep"
            /\ rMutex' = Free
            /\ popPc' = "asleep"
            /\ UNCHANGED <<items, wMutex, got, taken, putVars>>

\* POSIX lets pthread_cond_wait return without a signal.
SpuriousWakeup == /\ popPc = "asleep"
                  /\ popPc' = "awake"
                  /\ UNCHANGED <<items, wMutex, rMutex, got, taken, putVars>>

-----------------------------------------------------------------------------
PutStep(p) == PutLock(p) \/ PutCheck(p) \/ PutPublish(p) \/ PutUnlock(p) \/ PutSignal(p)
PopStep == FastCheck \/ FastTake \/ PopLock \/ PopCheck \/ PopTake \/ PopSleep

Next == \/ \E p \in Producers : PutCall(p) \/ PutStep(p)
        \/ PopCall
        \/ PopStep
        \/ SpuriousWakeup

Spec == Init /\ [][Next]_vars

\* Threads that can run do run; a task calls QUEUE_Pop in a loop for ever.
\* Nothing makes a producer call QUEUE_Put or a wakeup spurious.
Fairness == /\ \A p \in Producers : WF_vars(PutStep(p))
            /\ WF_vars(PopCall \/ PopStep)
FairSpec == Spec /\ Fairness

-----------------------------------------------------------------------------
(* Properties *)

\* The state has its types.
TypeOK == /\ items \in Seq(Elements) /\ Len(items) <= Count
          /\ wMutex \in Producers \cup {Free}
          /\ rMutex \in {Free, "consumer"}
          /\ putPc \in [Producers -> {"idle", "push", "check", "publish", "unlock", "signal"}]
          /\ puts \in [Producers -> 0 .. MaxPuts]
          /\ putRet \in [Producers -> {"EC_SUCCESS", "EC_BUSBUSY"}]
          /\ popPc \in {"idle", "fastCheck", "fastTake", "lock", "check", "take",
                        "sleep", "asleep", "awake"}
          /\ got \in Elements \cup {NoElement}
          /\ accepted \in [Producers -> Seq(Elements)]
          /\ taken \in Seq(Elements)

\* LFQUE_Push never runs in two threads at once: what the lock-free ring,
\* which has no lock of its own, needs from QUEUE_Put.
OneProducerInRing ==
  \A p, q \in Producers :
    putPc[p] \in {"check", "publish"} /\ putPc[q] \in {"check", "publish"} => p = q

\* s is the part of queued that p put: its elements are those at the places at.
PartOf(p, queued, s) ==
  \E at \in [1 .. Len(s) -> 1 .. Len(queued)] :
    /\ \A i, j \in 1 .. Len(s) : i < j => at[i] < at[j]
    /\ \A i \in 1 .. Len(s) : queued[at[i]] = s[i]
    /\ \A k \in 1 .. Len(queued) : queued[k][1] = p => \E i \in 1 .. Len(s) : at[i] = k

\* What a producer was told was queued is delivered once and in its order,
\* whatever the interleaving with other producers and with refused puts.
DeliveredInOrder ==
  \A p \in Producers : PartOf(p, taken \o items, accepted[p])

\* No wakeup is lost: an element QUEUE_Put accepted reaches the consumer,
\* also when it was pushed between the consumer's last look and its sleep.
EventuallyTaken ==
  \A e \in Elements : e \in ToSet(items) ~> e \in ToSet(taken)

\* QUEUE_Put and QUEUE_Pop together are the bounded FIFO: a put is refused
\* only when Count elements are queued at that instant.  QUEUE_Pop returns
\* only with an element.
Fifo == INSTANCE BoundedFifo WITH
  Capacity <- Count,
  arg <- [p \in Producers |-> ElementOf(p)],
  putRet <- [p \in Producers |->
               IF putPc[p] \in {"push", "check", "publish"} THEN "pending" ELSE putRet[p]],
  getRet <- IF popPc = "idle" THEN "EC_SUCCESS" ELSE "pending"
ImplementsFifo == Fifo!Spec
=============================================================================
