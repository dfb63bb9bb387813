---------------------------- MODULE QueueHubProofs ----------------------------
(***************************************************************************)
(* Proofs about QueueAdapter, for every set of producers, ring size and    *)
(* number of puts: the mutexes of QUEUE_Put make producers take turns in   *)
(* the ring, and QUEUE_Put and QUEUE_Pop implement the bounded FIFO.       *)
(*                                                                         *)
(* Proofs about EventHub, which is served through such a queue, for any    *)
(* nodes, clients and queue sizes: every node has the one owner that frees *)
(* it, and the hub implements PubSub.  Two things make the second hard:    *)
(* the abstract state is that once all requests are handled (Worked), so   *)
(* that a step at the head of the queue has to be followed through the     *)
(* requests behind it; and the lists hold nodes, whose contents change     *)
(* under them when others are freed.                                       *)
(***************************************************************************)
EXTENDS QueueAdapter, EventHub, FiniteSetTheorems, NaturalsInduction, SequenceTheorems, TLAPS

-----------------------------------------------------------------------------
(* The queue adapter *)

(***************************************************************************)
(* The inductive invariant.  A producer past its full test publishes later:*)
(* it needs that nobody else fills the ring meanwhile, which only wMutex   *)
(* (WHeld) guarantees.  The consumer past its empty test needs that nobody *)
(* else takes, which holds because it is the only one.                     *)
(***************************************************************************)
WHeld == \A p \in Producers :
           putPc[p] \in {"check", "publish", "unlock"} => wMutex = p
Room == \A p \in Producers : putPc[p] = "publish" => Len(items) < Count
Some == popPc \in {"fastTake", "take"} => items # <<>>
IInv == TypeOK /\ WHeld /\ Room /\ Some

LEMMA InitIInv == Init => IInv
<1> SUFFICES ASSUME Init PROVE IInv
  OBVIOUS
<1>1. Count \in Nat /\ MaxPuts \in Nat
  BY QueueAssumption
<1>2. TypeOK
  BY <1>1 DEF Init, QUEUE_Create, TypeOK, Elements
<1>3. WHeld /\ Room /\ Some
  BY DEF Init, WHeld, Room, Some
<1> QED BY <1>2, <1>3 DEF IInv

\* A producer knows its element, and nobody is both a producer and Free.
LEMMA Element == ASSUME TypeOK, NEW p \in Producers
                 PROVE  ElementOf(p) \in Elements /\ p # Free
BY QueueAssumption DEF TypeOK, ElementOf, Elements

\* Every step keeps IInv: one step per action of queue_adapter.c.
LEMMA NextIInv == IInv /\ [Next]_vars => IInv'
<1> SUFFICES ASSUME IInv, [Next]_vars PROVE IInv'
  OBVIOUS
<1> USE DEF IInv
<1>0. Count \in Nat /\ Count > 0 /\ MaxPuts \in Nat
  BY QueueAssumption
<1>1. ASSUME NEW p \in Producers, PutCall(p) PROVE IInv'
  <2>1. puts[p] + 1 \in 0 .. MaxPuts
    BY <1>0, <1>1 DEF PutCall, TypeOK
  <2>2. TypeOK'
    BY <1>1, <2>1 DEF PutCall, TypeOK, popVars
  <2>3. WHeld' /\ Room' /\ Some'
    BY <1>1 DEF PutCall, TypeOK, popVars, WHeld, Room, Some
  <2> QED BY <2>2, <2>3
<1>2. ASSUME NEW p \in Producers, PutLock(p) PROVE IInv'
  <2>1. TypeOK'
    BY <1>2 DEF PutLock, TypeOK, popVars
  <2>2. WHeld'
    BY <1>2, Element DEF PutLock, TypeOK, WHeld
  <2>3. Room' /\ Some'
    BY <1>2 DEF PutLock, TypeOK, popVars, Room, Some
  <2> QED BY <2>1, <2>2, <2>3
<1>3. ASSUME NEW p \in Producers, PutCheck(p) PROVE IInv'
  <2>1. TypeOK'
    BY <1>3 DEF PutCheck, TypeOK, popVars
  <2>2. WHeld'
    BY <1>3 DEF PutCheck, TypeOK, WHeld
  <2>3. Room' /\ Some'
    BY <1>0, <1>3 DEF PutCheck, TypeOK, popVars, Room, Some
  <2> QED BY <2>1, <2>2, <2>3
<1>4. ASSUME NEW p \in Producers, PutPublish(p) PROVE IInv'
  <2>1. ElementOf(p) \in Elements
    BY Element
  <2>2. /\ items' \in Seq(Elements) /\ items' # <<>>
        /\ Len(items') = Len(items) + 1
    BY <1>4, <2>1 DEF PutPublish, TypeOK
  <2>3. Append(accepted[p], ElementOf(p)) \in Seq(Elements)
    BY <2>1 DEF TypeOK
  <2>4. TypeOK'
    BY <1>0, <1>4, <2>2, <2>3 DEF PutPublish, TypeOK, popVars, Room
  <2>5. WHeld' /\ Some'
    BY <1>4, <2>2 DEF PutPublish, TypeOK, popVars, WHeld, Some
  <2>6. Room'
    \* Nobody else is past its full test, for p holds wMutex.
    BY <1>4 DEF PutPublish, TypeOK, WHeld, Room
  <2> QED BY <2>4, <2>5, <2>6
<1>5. ASSUME NEW p \in Producers, PutUnlock(p) PROVE IInv'
  <2>1. TypeOK'
    BY <1>5 DEF PutUnlock, TypeOK, popVars
  <2>2. WHeld'
    BY <1>5 DEF PutUnlock, TypeOK, WHeld
  <2>3. Room' /\ Some'
    BY <1>5 DEF PutUnlock, TypeOK, popVars, Room, Some
  <2> QED BY <2>1, <2>2, <2>3
<1>6. ASSUME NEW p \in Producers, PutSignal(p) PROVE IInv'
  <2>1. TypeOK'
    BY <1>6 DEF PutSignal, Signal, TypeOK
  <2>2. WHeld' /\ Room' /\ Some'
    BY <1>6 DEF PutSignal, Signal, TypeOK, WHeld, Room, Some
  <2> QED BY <2>1, <2>2
<1>7. CASE \/ PopCall \/ FastCheck \/ PopLock \/ PopCheck \/ PopSleep
           \/ SpuriousWakeup
  <2>1. TypeOK'
    BY <1>7 DEF PopCall, FastCheck, PopLock, PopCheck, PopSleep, SpuriousWakeup,
                TypeOK, putVars
  <2>2. WHeld' /\ Room' /\ Some'
    BY <1>7 DEF PopCall, FastCheck, PopLock, PopCheck, PopSleep, SpuriousWakeup,
                putVars, WHeld, Room, Some
  <2> QED BY <2>1, <2>2
<1>8. CASE FastTake \/ PopTake
  <2>1. /\ popPc \in {"fastTake", "take"} /\ popPc' = "idle"
        /\ got' = Head(items) /\ taken' = Append(taken, Head(items))
        /\ items' = Tail(items) /\ UNCHANGED <<wMutex, putVars>>
        /\ rMutex' \in {rMutex, Free}
    BY <1>8 DEF FastTake, PopTake, Take
  <2>2. /\ Head(items) \in Elements /\ Tail(items) \in Seq(Elements)
        /\ Len(Tail(items)) = Len(items) - 1
    BY <2>1 DEF TypeOK, Some
  <2>3. TypeOK'
    BY <1>0, <2>1, <2>2 DEF TypeOK, putVars
  <2>4. WHeld' /\ Some'
    BY <2>1 DEF WHeld, Some, putVars
  <2>5. Room'
    BY <1>0, <2>1, <2>2 DEF Room, TypeOK, putVars
  <2> QED BY <2>3, <2>4, <2>5
<1>9. CASE UNCHANGED vars
  BY <1>9 DEF vars, TypeOK, WHeld, Room, Some
<1> QED BY <1>1, <1>2, <1>3, <1>4, <1>5, <1>6, <1>7, <1>8, <1>9
        DEF Next, PutStep, PopStep

LEMMA Invariant == Spec => []IInv
BY InitIInv, NextIInv, PTL DEF Spec

\* The types of queue_adapter.c's queue hold for any number of producers; in
\* particular the ring never holds more than Count elements.
THEOREM QueueTypeCorrect == Spec => []TypeOK
BY Invariant, PTL DEF IInv

\* For any number of producers, wMutex keeps LFQUE_Push to one thread at a
\* time: the assumption under which the ring itself was proved.
THEOREM OneProducer == Spec => []OneProducerInRing
<1>1. IInv => OneProducerInRing
  BY DEF IInv, WHeld, OneProducerInRing
<1> QED BY <1>1, Invariant, PTL

-----------------------------------------------------------------------------
(* Delivery                                                                  *)

\* An element of p is put behind its others.
LEMMA PartAppend ==
  ASSUME NEW S, NEW queued \in Seq(S), NEW s \in Seq(S), NEW p, NEW e \in S,
         PartOf(p, queued, s), e[1] = p
  PROVE  PartOf(p, Append(queued, e), Append(s, e))
<1> DEFINE m == Len(s)
           n == Len(queued)
<1>1. PICK at \in [1 .. m -> 1 .. n] :
        /\ \A i, j \in 1 .. m : i < j => at[i] < at[j]
        /\ \A i \in 1 .. m : queued[at[i]] = s[i]
        /\ \A k \in 1 .. n : queued[k][1] = p => \E i \in 1 .. m : at[i] = k
  BY DEF PartOf
<1>2. /\ m \in Nat /\ n \in Nat
      /\ Len(Append(s, e)) = m + 1 /\ Len(Append(queued, e)) = n + 1
      /\ \A i \in 1 .. m + 1 : Append(s, e)[i] = IF i = m + 1 THEN e ELSE s[i]
      /\ \A i \in 1 .. n + 1 : Append(queued, e)[i] = IF i = n + 1 THEN e ELSE queued[i]
  OBVIOUS
<1> HIDE DEF m, n
<1> DEFINE at2 == [i \in 1 .. m + 1 |-> IF i = m + 1 THEN n + 1 ELSE at[i]]
<1>3. /\ at2 \in [1 .. m + 1 -> 1 .. n + 1] /\ at2[m + 1] = n + 1
      /\ \A i \in 1 .. m : at2[i] = at[i] /\ at[i] \in 1 .. n /\ i # m + 1 /\ i \in 1 .. m + 1
  <2>1. \A i \in 1 .. m + 1 : i # m + 1 => i \in 1 .. m
    BY ONLY <1>2
  <2>2. \A i \in 1 .. m : at[i] \in 1 .. n /\ i # m + 1 /\ i \in 1 .. m + 1
    BY ONLY <1>2, at \in [1 .. m -> 1 .. n]
  <2>3. 1 .. n \subseteq 1 .. n + 1 /\ n + 1 \in 1 .. n + 1 /\ m + 1 \in 1 .. m + 1
    BY ONLY <1>2
  <2> QED BY ONLY <2>1, <2>2, <2>3
<1> HIDE DEF at2
<1>a. \A i \in 1 .. m + 1 : i = m + 1 \/ i \in 1 .. m
  BY ONLY <1>2
<1>4. ASSUME NEW i \in 1 .. m + 1, NEW j \in 1 .. m + 1, i < j PROVE at2[i] < at2[j]
  <2>1. i \in 1 .. m
    BY ONLY <1>2, <1>4
  <2>2. CASE j = m + 1
    BY ONLY <1>2, <1>3, <2>1, <2>2
  <2>3. CASE j \in 1 .. m
    BY ONLY <1>1, <1>3, <1>4, <2>1, <2>3
  <2> QED BY <1>a, <2>2, <2>3
<1>5. ASSUME NEW i \in 1 .. m + 1 PROVE Append(queued, e)[at2[i]] = Append(s, e)[i]
  <2>1. CASE i = m + 1
    <3>1. n + 1 \in 1 .. n + 1
      BY ONLY <1>2
    <3> QED BY ONLY <1>2, <1>3, <2>1, <3>1
  <2>2. CASE i \in 1 .. m
    <3>1. at[i] \in 1 .. n + 1 /\ at[i] # n + 1
      BY ONLY <1>2, <1>3, <2>2
    <3> QED BY ONLY <1>1, <1>2, <1>3, <2>2, <3>1
  <2> QED BY <1>a, <2>1, <2>2
<1>6. ASSUME NEW k \in 1 .. n + 1, Append(queued, e)[k][1] = p
      PROVE  \E i \in 1 .. m + 1 : at2[i] = k
  <2>1. CASE k = n + 1
    <3>1. m + 1 \in 1 .. m + 1
      BY ONLY <1>2
    <3> QED BY ONLY <1>3, <2>1, <3>1
  <2>2. CASE k # n + 1
    <3>1. k \in 1 .. n
      BY ONLY <1>2, <2>2
    <3> QED BY ONLY <1>1, <1>2, <1>3, <1>6, <2>2, <3>1
  <2> QED BY <2>1, <2>2
<1>7. \E a \in [1 .. m + 1 -> 1 .. n + 1] :
        /\ \A i, j \in 1 .. m + 1 : i < j => a[i] < a[j]
        /\ \A i \in 1 .. m + 1 : Append(queued, e)[a[i]] = Append(s, e)[i]
        /\ \A k \in 1 .. n + 1 : Append(queued, e)[k][1] = p => \E i \in 1 .. m + 1 : a[i] = k
  BY ONLY <1>3, <1>4, <1>5, <1>6
<1> DEFINE queued2 == Append(queued, e)
           s2 == Append(s, e)
<1>8. Len(queued2) = n + 1 /\ Len(s2) = m + 1
  BY <1>2
<1>9. PartOf(p, queued2, s2)
  <2>1. \E a \in [1 .. m + 1 -> 1 .. n + 1] :
          /\ \A i, j \in 1 .. m + 1 : i < j => a[i] < a[j]
          /\ \A i \in 1 .. m + 1 : queued2[a[i]] = s2[i]
          /\ \A k \in 1 .. n + 1 : queued2[k][1] = p => \E i \in 1 .. m + 1 : a[i] = k
    BY <1>7
  <2> HIDE DEF queued2, s2
  <2>2. PICK a \in [1 .. m + 1 -> 1 .. n + 1] :
          /\ \A i, j \in 1 .. m + 1 : i < j => a[i] < a[j]
          /\ \A i \in 1 .. m + 1 : queued2[a[i]] = s2[i]
          /\ \A k \in 1 .. n + 1 : queued2[k][1] = p => \E i \in 1 .. m + 1 : a[i] = k
    BY ONLY <2>1
  <2>3. 1 .. Len(s2) = 1 .. m + 1 /\ 1 .. Len(queued2) = 1 .. n + 1
    BY ONLY <1>8
  <2>4. /\ \A i, j \in 1 .. Len(s2) : i < j => a[i] < a[j]
        /\ \A i \in 1 .. Len(s2) : queued2[a[i]] = s2[i]
        /\ \A k \in 1 .. Len(queued2) : queued2[k][1] = p => \E i \in 1 .. Len(s2) : a[i] = k
    BY ONLY <2>2, <2>3
  <2>5. a \in [1 .. Len(s2) -> 1 .. Len(queued2)]
    BY ONLY <2>3, a \in [1 .. m + 1 -> 1 .. n + 1]
  <2> QED BY ONLY <2>4, <2>5 DEF PartOf
<1> QED BY <1>9

\* An element of another producer changes nothing for p.
LEMMA PartOther ==
  ASSUME NEW S, NEW queued \in Seq(S), NEW s \in Seq(S), NEW p, NEW e \in S,
         PartOf(p, queued, s), e[1] # p
  PROVE  PartOf(p, Append(queued, e), s)
<1> DEFINE m == Len(s)
           n == Len(queued)
<1>1. PICK at \in [1 .. m -> 1 .. n] :
        /\ \A i, j \in 1 .. m : i < j => at[i] < at[j]
        /\ \A i \in 1 .. m : queued[at[i]] = s[i]
        /\ \A k \in 1 .. n : queued[k][1] = p => \E i \in 1 .. m : at[i] = k
  BY DEF PartOf
<1>2. /\ m \in Nat /\ n \in Nat /\ Len(Append(queued, e)) = n + 1
      /\ \A i \in 1 .. n + 1 : Append(queued, e)[i] = IF i = n + 1 THEN e ELSE queued[i]
  OBVIOUS
<1> HIDE DEF m, n
<1>3. /\ \A k \in 1 .. n : k \in 1 .. n + 1 /\ k # n + 1
      /\ \A k \in 1 .. n + 1 : k = n + 1 \/ k \in 1 .. n
  BY ONLY <1>2
<1>4. at \in [1 .. m -> 1 .. n + 1]
  BY ONLY <1>3, at \in [1 .. m -> 1 .. n]
<1>5. ASSUME NEW i \in 1 .. m PROVE Append(queued, e)[at[i]] = s[i]
  <2>1. at[i] \in 1 .. n
    BY ONLY <1>5, at \in [1 .. m -> 1 .. n]
  <2> QED BY ONLY <1>1, <1>2, <1>3, <2>1
<1>6. ASSUME NEW k \in 1 .. n + 1, Append(queued, e)[k][1] = p
      PROVE  \E i \in 1 .. m : at[i] = k
  BY ONLY <1>1, <1>2, <1>3, <1>6, e[1] # p
<1>7. \E a \in [1 .. m -> 1 .. n + 1] :
        /\ \A i, j \in 1 .. m : i < j => a[i] < a[j]
        /\ \A i \in 1 .. m : Append(queued, e)[a[i]] = s[i]
        /\ \A k \in 1 .. n + 1 : Append(queued, e)[k][1] = p => \E i \in 1 .. m : a[i] = k
  BY ONLY <1>1, <1>4, <1>5, <1>6
<1> DEFINE queued2 == Append(queued, e)
<1>8. PartOf(p, queued2, s)
  <2>1. \E a \in [1 .. m -> 1 .. n + 1] :
          /\ \A i, j \in 1 .. m : i < j => a[i] < a[j]
          /\ \A i \in 1 .. m : queued2[a[i]] = s[i]
          /\ \A k \in 1 .. n + 1 : queued2[k][1] = p => \E i \in 1 .. m : a[i] = k
    BY <1>7
  <2>2. 1 .. Len(queued2) = 1 .. n + 1 /\ 1 .. Len(s) = 1 .. m
    BY <1>2 DEF m
  <2> HIDE DEF queued2
  <2>3. PICK a \in [1 .. m -> 1 .. n + 1] :
          /\ \A i, j \in 1 .. m : i < j => a[i] < a[j]
          /\ \A i \in 1 .. m : queued2[a[i]] = s[i]
          /\ \A k \in 1 .. n + 1 : queued2[k][1] = p => \E i \in 1 .. m : a[i] = k
    BY ONLY <2>1
  <2>4. /\ \A i, j \in 1 .. Len(s) : i < j => a[i] < a[j]
        /\ \A i \in 1 .. Len(s) : queued2[a[i]] = s[i]
        /\ \A k \in 1 .. Len(queued2) : queued2[k][1] = p => \E i \in 1 .. Len(s) : a[i] = k
    BY ONLY <2>2, <2>3
  <2>5. a \in [1 .. Len(s) -> 1 .. Len(queued2)]
    BY ONLY <2>2, a \in [1 .. m -> 1 .. n + 1]
  <2> QED BY ONLY <2>4, <2>5 DEF PartOf
<1> QED BY <1>8

LEMMA DeliveryInit == Init => DeliveredInOrder
<1> SUFFICES ASSUME Init, NEW p \in Producers PROVE PartOf(p, taken \o items, accepted[p])
  BY DEF DeliveredInOrder
<1>1. taken = <<>> /\ items = <<>> /\ accepted[p] = <<>>
  BY DEF Init, QUEUE_Create
<1>2. taken \o items = <<>> /\ Len(taken \o items) = 0 /\ Len(accepted[p]) = 0 /\ 1 .. 0 = {}
  BY <1>1
<1> DEFINE at == [i \in {} |-> i]
<1>3. at \in [1 .. Len(accepted[p]) -> 1 .. Len(taken \o items)]
  BY <1>2
<1> HIDE DEF at
<1> QED BY ONLY <1>2, <1>3 DEF PartOf

LEMMA DeliveryStep == IInv /\ DeliveredInOrder /\ [Next]_vars => DeliveredInOrder'
<1> SUFFICES ASSUME IInv, DeliveredInOrder, [Next]_vars PROVE DeliveredInOrder'
  OBVIOUS
<1>1. /\ taken \in Seq(Elements) /\ items \in Seq(Elements)
      /\ accepted \in [Producers -> Seq(Elements)] /\ taken \o items \in Seq(Elements)
  BY DEF IInv, TypeOK
<1>2. ASSUME (taken \o items)' = taken \o items, accepted' = accepted
      PROVE  DeliveredInOrder'
  <2>1. ASSUME NEW p \in Producers PROVE PartOf(p, (taken \o items)', accepted'[p])
    BY ONLY <1>2, DeliveredInOrder DEF DeliveredInOrder
  <2> QED BY ONLY <2>1 DEF DeliveredInOrder, PartOf
<1>3. ASSUME NEW q \in Producers, PutPublish(q) PROVE DeliveredInOrder'
  <2> DEFINE e == ElementOf(q)
  <2>1. e \in Elements /\ e[1] = q
    BY Element DEF IInv, ElementOf
  <2>2. (taken \o items)' = Append(taken \o items, e)
    <3>1. items' = Append(items, e) /\ taken' = taken
      BY <1>3 DEF PutPublish, popVars
    <3> HIDE DEF e
    <3>2. Append(items, e) = items \o <<e>> /\ <<e>> \in Seq(Elements)
          /\ Append(taken \o items, e) = (taken \o items) \o <<e>>
      BY ONLY <1>1, <2>1, AppendIsConcat
    <3>3. (taken \o items) \o <<e>> = taken \o (items \o <<e>>)
      BY ONLY <1>1, <3>2, ConcatAssociative
    <3> QED BY ONLY <3>1, <3>2, <3>3
  <2>3. accepted' = [accepted EXCEPT ![q] = Append(@, e)]
    BY <1>3 DEF PutPublish
  <2> HIDE DEF e
  <2>4. ASSUME NEW p \in Producers PROVE PartOf(p, (taken \o items)', accepted'[p])
    <3>1. PartOf(p, taken \o items, accepted[p]) /\ accepted[p] \in Seq(Elements)
      BY <1>1 DEF DeliveredInOrder
    <3>2. CASE p = q
      <4>1. PartOf(p, Append(taken \o items, e), Append(accepted[p], e))
        BY ONLY <1>1, <2>1, <3>1, <3>2, PartAppend
      <4>2. accepted'[p] = Append(accepted[p], e)
        BY <1>1, <2>3, <3>2
      <4> QED BY ONLY <2>2, <4>1, <4>2
    <3>3. CASE p # q
      <4>1. PartOf(p, Append(taken \o items, e), accepted[p])
        BY ONLY <1>1, <2>1, <3>1, <3>3, PartOther
      <4>2. accepted'[p] = accepted[p]
        BY <1>1, <2>3, <3>3
      <4> QED BY ONLY <2>2, <4>1, <4>2
    <3> QED BY <3>2, <3>3
  <2> QED BY ONLY <2>4 DEF DeliveredInOrder, PartOf
<1>4. CASE FastTake \/ PopTake
  <2>1. /\ items # <<>> /\ taken' = Append(taken, Head(items)) /\ items' = Tail(items)
        /\ accepted' = accepted
    BY <1>4 DEF FastTake, PopTake, Take, putVars, IInv, Some
  <2>2. /\ Head(items) \in Elements /\ <<Head(items)>> \in Seq(Elements)
        /\ Tail(items) \in Seq(Elements) /\ items = <<Head(items)>> \o Tail(items)
    <3>1. Head(items) \in Elements /\ Tail(items) \in Seq(Elements)
      BY ONLY <1>1, <2>1, HeadTailProperties
    <3>2. <<Head(items)>> \in Seq(Elements) /\ Len(<<Head(items)>>) = 1
          /\ <<Head(items)>>[1] = Head(items)
      BY ONLY <3>1
    <3>3. /\ <<Head(items)>> \o Tail(items) \in Seq(Elements)
          /\ Len(<<Head(items)>> \o Tail(items)) = Len(items)
          /\ \A i \in 1 .. Len(items) : (<<Head(items)>> \o Tail(items))[i] = items[i]
      BY ONLY <1>1, <2>1, <3>1, <3>2
    <3>4. <<Head(items)>> \o Tail(items) = items
      BY ONLY <1>1, <3>3, SeqEqual
    <3> QED BY ONLY <3>1, <3>2, <3>4
  <2>3. (taken \o items)' = taken \o items
    <3>1. Append(taken, Head(items)) = taken \o <<Head(items)>>
      BY ONLY <1>1, <2>2, AppendIsConcat
    <3>2. (taken \o <<Head(items)>>) \o Tail(items) = taken \o (<<Head(items)>> \o Tail(items))
      BY ONLY <1>1, <2>2, ConcatAssociative
    <3> QED BY ONLY <2>1, <2>2, <3>1, <3>2
  <2> QED BY <1>2, <2>1, <2>3
<1>5. ASSUME NEW p \in Producers, PutCall(p) \/ PutLock(p) \/ PutCheck(p) \/ PutUnlock(p)
                                  \/ PutSignal(p)
      PROVE  UNCHANGED <<taken, items, accepted>>
  BY <1>5 DEF PutCall, PutLock, PutCheck, PutUnlock, PutSignal, popVars
<1>6. PopCall \/ FastCheck \/ PopLock \/ PopCheck \/ PopSleep \/ SpuriousWakeup
        => UNCHANGED <<taken, items, accepted>>
  BY DEF PopCall, FastCheck, PopLock, PopCheck, PopSleep, SpuriousWakeup, putVars
<1>7. UNCHANGED vars => UNCHANGED <<taken, items, accepted>>
  BY DEF vars
<1> QED BY <1>2, <1>3, <1>4, <1>5, <1>6, <1>7 DEF Next, PutStep, PopStep

\* What a producer was told was queued is taken once and in its order, for any
\* number of producers, any ring size and any number of puts.
THEOREM AcceptedDelivered == Spec => []DeliveredInOrder
BY Invariant, DeliveryInit, DeliveryStep, PTL DEF Spec

-----------------------------------------------------------------------------
(* Refinement.  A put takes effect at its full test when it is refused and   *)
(* at the publication of the cursor when it is accepted; a get takes effect  *)
(* when the consumer moves its cursor.  All other steps stutter.             *)

\* The abstract return codes and elements (the substitutions of Fifo).
Arg == [p \in Producers |-> ElementOf(p)]
PutRet == [p \in Producers |->
             IF putPc[p] \in {"push", "check", "publish"} THEN "pending" ELSE putRet[p]]
GetRet == IF popPc = "idle" THEN "EC_SUCCESS" ELSE "pending"

LEMMA InitFifo == Init => Fifo!Init
<1> SUFFICES ASSUME Init PROVE Fifo!Init
  OBVIOUS
<1>1. TypeOK
  BY InitIInv DEF IInv
<1>2. Arg \in [Producers -> Elements]
  BY <1>1, Element DEF Arg
<1>3. PutRet = [p \in Producers |-> "EC_SUCCESS"] /\ GetRet = "EC_SUCCESS"
  BY DEF Init, PutRet, GetRet
<1> QED BY <1>2, <1>3 DEF Init, QUEUE_Create, Fifo!Init, Arg, PutRet, GetRet

\* Every step of the queue is a step of the FIFO or a stutter.
LEMMA NextFifo == IInv /\ [Next]_vars => [Fifo!Next]_(Fifo!vars)
<1> SUFFICES ASSUME IInv, [Next]_vars PROVE [Fifo!Next]_(Fifo!vars)
  OBVIOUS
<1> USE DEF IInv
<1>a. ASSUME UNCHANGED <<items, Arg, PutRet, GetRet, got>>
      PROVE  [Fifo!Next]_(Fifo!vars)
  BY <1>a DEF Fifo!vars, Arg, PutRet, GetRet
<1>b. ASSUME UNCHANGED <<puts, putPc, putRet>>
      PROVE  UNCHANGED <<Arg, PutRet>>
  BY <1>b DEF Arg, PutRet, ElementOf
<1>1. ASSUME NEW p \in Producers, PutCall(p) PROVE [Fifo!Next]_(Fifo!vars)
  <2> DEFINE e == <<p, puts[p] + 1>>
  <2>1. e \in Elements
    BY <1>1, QueueAssumption DEF PutCall, TypeOK, Elements
  <2>2. Arg' = [Arg EXCEPT ![p] = e]
    BY <1>1 DEF PutCall, TypeOK, Arg, ElementOf
  <2>3. PutRet[p] # "pending" /\ PutRet' = [PutRet EXCEPT ![p] = "pending"]
    BY <1>1 DEF PutCall, TypeOK, PutRet
  <2>4. GetRet' = GetRet /\ items' = items /\ got' = got
    BY <1>1 DEF PutCall, GetRet, popVars
  <2>5. Fifo!CallPut(p, e)
    BY <2>2, <2>3, <2>4 DEF Fifo!CallPut, Arg, PutRet, GetRet
  <2>6. \E f \in Elements : Fifo!CallPut(p, f)
    <3> HIDE DEF e
    <3> QED BY <2>1, <2>5 DEF Fifo!CallPut
  <2> QED BY <2>6 DEF Fifo!Next
<1>2. ASSUME NEW p \in Producers, PutLock(p) \/ PutUnlock(p) \/ PutSignal(p)
      PROVE [Fifo!Next]_(Fifo!vars)
  <2>1. PutRet' = PutRet
    BY <1>2 DEF PutLock, PutUnlock, PutSignal, TypeOK, PutRet
  <2>2. Arg' = Arg
    BY <1>2 DEF PutLock, PutUnlock, PutSignal, Arg, ElementOf
  <2>3. GetRet' = GetRet /\ items' = items /\ got' = got
    BY <1>2 DEF PutLock, PutUnlock, PutSignal, Signal, GetRet, popVars
  <2> QED BY <1>a, <2>1, <2>2, <2>3
<1>3. ASSUME NEW p \in Producers, PutCheck(p) PROVE [Fifo!Next]_(Fifo!vars)
  <2>1. Arg' = Arg /\ GetRet' = GetRet /\ items' = items /\ got' = got
    BY <1>3 DEF PutCheck, Arg, ElementOf, GetRet, popVars
  <2>2. CASE Len(items) = Count
    <3>1. PutRet[p] = "pending"
      BY <1>3 DEF PutCheck, PutRet
    <3>2. PutRet' = [PutRet EXCEPT ![p] = "EC_BUSBUSY"]
      BY <1>3, <2>2 DEF PutCheck, TypeOK, PutRet
    <3>3. Fifo!RefusePut(p)
      BY <2>1, <2>2, <3>1, <3>2 DEF Fifo!RefusePut, Arg, PutRet, GetRet
    <3> QED BY <3>3 DEF Fifo!Next
  <2>3. CASE Len(items) # Count
    <3>1. PutRet' = PutRet
      BY <1>3, <2>3 DEF PutCheck, TypeOK, PutRet
    <3> QED BY <1>a, <2>1, <3>1
  <2> QED BY <2>2, <2>3
<1>4. ASSUME NEW p \in Producers, PutPublish(p) PROVE [Fifo!Next]_(Fifo!vars)
  <2>1. Arg' = Arg /\ GetRet' = GetRet /\ got' = got
    BY <1>4 DEF PutPublish, Arg, ElementOf, GetRet, popVars
  <2>2. PutRet[p] = "pending" /\ PutRet' = [PutRet EXCEPT ![p] = "EC_SUCCESS"]
    BY <1>4 DEF PutPublish, TypeOK, PutRet
  <2>3. Len(items) < Count /\ items' = Append(items, Arg[p])
    BY <1>4 DEF PutPublish, Room, Arg
  <2>4. Fifo!Put(p)
    BY <2>1, <2>2, <2>3 DEF Fifo!Put, Arg, PutRet, GetRet
  <2> QED BY <2>4 DEF Fifo!Next
<1>5. CASE PopCall
  <2>1. UNCHANGED <<Arg, PutRet>> /\ items' = items
    BY <1>5, <1>b DEF PopCall, putVars
  <2>2. GetRet # "pending" /\ GetRet' = "pending" /\ got' = NoElement
    BY <1>5 DEF PopCall, GetRet
  <2>3. Fifo!CallGet
    BY <2>1, <2>2 DEF Fifo!CallGet, Arg, PutRet, GetRet
  <2> QED BY <2>3 DEF Fifo!Next
<1>6. CASE FastCheck \/ PopLock \/ PopCheck \/ PopSleep \/ SpuriousWakeup
  <2>1. UNCHANGED <<Arg, PutRet>> /\ items' = items /\ got' = got
    BY <1>6, <1>b DEF FastCheck, PopLock, PopCheck, PopSleep, SpuriousWakeup, putVars
  <2>2. GetRet' = GetRet
    BY <1>6 DEF FastCheck, PopLock, PopCheck, PopSleep, SpuriousWakeup, GetRet
  <2> QED BY <1>a, <2>1, <2>2
<1>7. CASE FastTake \/ PopTake
  <2>1. UNCHANGED <<Arg, PutRet>>
    BY <1>7, <1>b DEF FastTake, PopTake, putVars
  <2>2. GetRet = "pending" /\ GetRet' = "EC_SUCCESS"
    BY <1>7 DEF FastTake, PopTake, Take, GetRet
  <2>3. items # <<>> /\ items' = Tail(items) /\ got' = Head(items)
    BY <1>7 DEF FastTake, PopTake, Take, Some
  <2>4. Fifo!Get
    BY <2>1, <2>2, <2>3 DEF Fifo!Get, Arg, PutRet, GetRet
  <2> QED BY <2>4 DEF Fifo!Next
<1>8. CASE UNCHANGED vars
  <2>1. UNCHANGED <<items, Arg, PutRet, GetRet, got>>
    BY <1>8, <1>b DEF vars, GetRet
  <2> QED BY <1>a, <2>1
<1> QED BY <1>1, <1>2, <1>3, <1>4, <1>5, <1>6, <1>7, <1>8
        DEF Next, PutStep, PopStep

\* QUEUE_Put and QUEUE_Pop implement the bounded FIFO for any number of
\* producers, any ring size and any number of puts.
THEOREM QueueImplementsFifo == Spec => ImplementsFifo
BY InitFifo, NextFifo, Invariant, PTL DEF Spec, ImplementsFifo, Fifo!Spec

-----------------------------------------------------------------------------
(* Positions *)

\* A set of numbers has a least one: what replaces induction below.
LEMMA Smallest ==
  ASSUME NEW S \in SUBSET Nat, S # {}
  PROVE  \E x \in S : \A y \in S : x <= y
<1> DEFINE less == OpToRel(<, Nat)
<1>1. \A x, y \in Nat : x < y => <<x, y>> \in less
  BY Zenon DEF OpToRel
<1>2. PICK x \in S : \A y \in S : ~ (<<y, x>> \in less)
  BY NatLessThanWellFounded, WFMin
<1> HIDE DEF less
<1>3. \A y \in S : x \in Nat /\ y \in Nat /\ ~ (y < x)
  BY <1>1, <1>2
<1>4. \A y \in S : x <= y
  BY <1>3
<1> QED BY <1>4

\* What holds at 0 and passes from each number to the next holds up to n.
LEMMA UpTo ==
  ASSUME NEW n \in Nat, NEW G, 0 \in G, \A k \in 1 .. n : k - 1 \in G => k \in G
  PROVE  \A k \in 0 .. n : k \in G
<1> DEFINE bad == {k \in 0 .. n : k \notin G}
<1> SUFFICES ASSUME bad # {} PROVE FALSE
  OBVIOUS
<1>1. PICK x \in bad : \A y \in bad : x <= y
  <2>1. bad \in SUBSET Nat
    OBVIOUS
  <2> HIDE DEF bad
  <2> QED BY <2>1, Smallest
<1>2. x \in 1 .. n /\ x - 1 \in 0 .. n
  BY ONLY x \in bad, 0 \in G, n \in Nat
<1>3. x - 1 \in bad
  BY <1>2
<1> QED BY ONLY <1>1, <1>2, <1>3

\* f is computed from base on by the steps G.
Computes(f, n, base, G) == f[0] = base /\ \A k \in 1 .. n : f[k] = G[k][f[k - 1]]

\* Such a function exists.
LEMMA Iterate ==
  ASSUME NEW X, NEW n \in Nat, NEW base \in X, NEW G \in [1 .. n -> [X -> X]]
  PROVE  \E f \in [0 .. n -> X] : Computes(f, n, base, G)
<1> DEFINE Upto(f, m) == /\ f \in [0 .. n -> X] /\ f[0] = base
                         /\ \A k \in 1 .. m : f[k] = G[k][f[k - 1]]
           good == {m \in 0 .. n : \E f : Upto(f, m)}
<1>1. 0 \in good
  <2>1. Upto([k \in 0 .. n |-> base], 0)
    OBVIOUS
  <2> HIDE DEF Upto
  <2>2. 0 \in 0 .. n
    OBVIOUS
  <2> QED BY ONLY <2>1, <2>2
<1>2. ASSUME NEW m \in 1 .. n, m - 1 \in good PROVE m \in good
  <2>1. PICK f : Upto(f, m - 1)
    BY <1>2
  <2> DEFINE g == [f EXCEPT ![m] = G[m][f[m - 1]]]
  <2>2. m - 1 \in 0 .. n /\ G[m][f[m - 1]] \in X
    BY <2>1
  <2>3. /\ g \in [0 .. n -> X] /\ g[m] = G[m][f[m - 1]]
        /\ \A k \in 0 .. n : k # m => g[k] = f[k]
    BY <2>1, <2>2
  <2> HIDE DEF g
  <2>4. ASSUME NEW k \in 1 .. m PROVE g[k] = G[k][g[k - 1]]
    <3>1. CASE k = m
      <4>1. m - 1 \in 0 .. n /\ m - 1 # m
        OBVIOUS
      <4> QED BY <2>3, <3>1, <4>1
    <3>2. CASE k # m
      <4>1. /\ k \in 0 .. n /\ k - 1 \in 0 .. n /\ k - 1 # m /\ k \in 1 .. m - 1
        BY <3>2
      <4> QED BY ONLY <2>1, <2>3, <3>2, <4>1
    <3> QED BY <3>1, <3>2
  <2>5. Upto(g, m)
    <3>1. 0 \in 0 .. n /\ 0 # m
      OBVIOUS
    <3> QED BY <2>1, <2>3, <2>4, <3>1
  <2> QED BY <2>5
<1> HIDE DEF good
<1>3. n \in good
  <2>1. \A m \in 0 .. n : m \in good
    BY ONLY <1>1, <1>2, UpTo, n \in Nat
  <2> QED BY <2>1
<1>4. PICK f : Upto(f, n)
  BY <1>3 DEF good
<1> QED BY <1>4 DEF Computes

-----------------------------------------------------------------------------
(* Lists without duplicates *)

\* No node is twice in the list.
Distinct(list) == \A i, j \in DOMAIN list : list[i] = list[j] => i = j

\* The first position of those where a list matches is one of them.
LEMMA MinIn == ASSUME NEW S \in SUBSET Nat, S # {} PROVE Min(S) \in S
<1>1. \E x \in S : \A y \in S : x <= y
  BY Smallest
<1> QED BY <1>1 DEF Min

\* A list without the element at position p.
LEMMA RemovedAt ==
  ASSUME NEW T, NEW list \in Seq(T), NEW p \in DOMAIN list
  PROVE  /\ RemoveAt(list, p) \in Seq(T) /\ Len(RemoveAt(list, p)) = Len(list) - 1
         /\ \A j \in 1 .. Len(list) - 1 :
              RemoveAt(list, p)[j] = list[IF j < p THEN j ELSE j + 1]
<1> DEFINE n == Len(list)
           r == RemoveAt(list, p)
           a == SubSeq(list, 1, p - 1)
           q == p + 1
           b == SubSeq(list, q, n)
<1>0. n \in Nat /\ DOMAIN list = 1 .. n /\ p \in 1 .. n /\ \A i \in 1 .. n : list[i] \in T
  OBVIOUS
<1>1. r = a \o b
  BY DEF RemoveAt
<1> HIDE DEF n, r
<1>2. a \in Seq(T) /\ Len(a) = p - 1 /\ \A j \in 1 .. p - 1 : a[j] = list[j]
  BY ONLY <1>0, SubSeqProperties
<1>3. b \in Seq(T) /\ Len(b) = n - p /\ \A j \in 1 .. n - p : b[j] = list[p + j]
  <2>1. p \in Int /\ n \in Int /\ p <= n
    BY ONLY <1>0
  <2>2. q \in Int /\ n - q + 1 = n - p /\ (q <= n \/ n - p = 0)
    BY ONLY <2>1
  <2>3. \A j \in 1 .. n - p : q + j - 1 = p + j
    BY ONLY <2>1
  <2>4. \A i \in q .. n : list[i] \in T
    BY ONLY <1>0
  <2> HIDE DEF q
  <2>5. /\ b \in Seq(T) /\ Len(b) = IF q <= n THEN n - q + 1 ELSE 0
        /\ \A j \in 1 .. n - q + 1 : b[j] = list[q + j - 1]
    BY ONLY <2>1, <2>2, <2>4, SubSeqProperties
  <2> HIDE DEF b
  <2> QED BY ONLY <2>1, <2>2, <2>3, <2>5
<1> HIDE DEF a, b
<1>4. /\ r \in Seq(T) /\ Len(r) = n - 1
      /\ \A j \in 1 .. n - 1 : r[j] = IF j < p THEN a[j] ELSE b[j - p + 1]
  <2>1. /\ r \in Seq(T) /\ Len(r) = Len(a) + Len(b)
        /\ \A j \in 1 .. Len(a) + Len(b) : r[j] = IF j <= Len(a) THEN a[j] ELSE b[j - Len(a)]
    BY ONLY <1>1, <1>2, <1>3, ConcatProperties
  <2>2. /\ Len(a) + Len(b) = n - 1
        /\ \A j \in 1 .. n - 1 : (j <= Len(a) <=> j < p) /\ j - Len(a) = j - p + 1
    BY ONLY <1>0, <1>2, <1>3
  <2> QED BY ONLY <2>1, <2>2
<1> DEFINE old(j) == IF j < p THEN j ELSE j + 1
<1>5. ASSUME NEW j \in 1 .. n - 1 PROVE r[j] = list[old(j)]
  <2>1. CASE j < p
    BY ONLY <1>0, <1>2, <1>4, <2>1, j \in 1 .. n - 1
  <2>2. CASE ~ (j < p)
    <3>1. j - p + 1 \in 1 .. n - p /\ p + (j - p + 1) = j + 1
      BY ONLY <1>0, <2>2, j \in 1 .. n - 1
    <3> QED BY ONLY <1>3, <1>4, <2>2, <3>1, j \in 1 .. n - 1
  <2> QED BY <2>1, <2>2
<1> QED BY <1>4, <1>5 DEF r, n

\* UtilsListDelete takes one node out of the list.
LEMMA Removed ==
  ASSUME NEW T, NEW list \in Seq(T), Distinct(list), NEW p \in DOMAIN list
  PROVE  /\ RemoveAt(list, p) \in Seq(T) /\ Distinct(RemoveAt(list, p))
         /\ ToSet(RemoveAt(list, p)) = ToSet(list) \ {list[p]}
<1> DEFINE n == Len(list)
           r == RemoveAt(list, p)
           old(j) == IF j < p THEN j ELSE j + 1
<1>0. n \in Nat /\ DOMAIN list = 1 .. n /\ p \in 1 .. n
  OBVIOUS
<1>1. r \in Seq(T) /\ Len(r) = n - 1 /\ \A j \in 1 .. n - 1 : r[j] = list[old(j)]
  BY RemovedAt
<1> HIDE DEF n, r
<1>2. DOMAIN r = 1 .. n - 1
  BY ONLY <1>0, <1>1
<1>3. \A j \in DOMAIN r : old(j) \in DOMAIN list /\ old(j) # p
  BY ONLY <1>0, <1>2
<1>4. \A i, j \in DOMAIN r : old(i) = old(j) => i = j
  BY ONLY <1>0, <1>2
<1>5. \A i \in DOMAIN list : i # p => \E j \in DOMAIN r : old(j) = i
  <2> TAKE i \in DOMAIN list
  <2> HAVE i # p
  <2>1. CASE i < p
    BY ONLY <1>0, <1>2, <2>1, i \in DOMAIN list
  <2>2. CASE i > p
    <3>1. i - 1 \in DOMAIN r /\ ~ (i - 1 < p) /\ (i - 1) + 1 = i
      BY ONLY <1>0, <1>2, <2>2, i \in DOMAIN list
    <3> QED BY ONLY <3>1
  <2> QED BY ONLY <1>0, <2>1, <2>2, i \in DOMAIN list, i # p
<1> HIDE DEF old
<1>6. \A j \in DOMAIN r : r[j] = list[old(j)]
  BY ONLY <1>1, <1>2
<1>7. \A i \in DOMAIN list : list[i] = list[p] <=> i = p
  BY ONLY Distinct(list), p \in DOMAIN list DEF Distinct
<1>8. ToSet(r) = ToSet(list) \ {list[p]}
  BY ONLY <1>3, <1>5, <1>6, <1>7 DEF ToSet
<1>9. Distinct(r)
  BY ONLY <1>3, <1>4, <1>6, Distinct(list) DEF Distinct
<1> QED BY ONLY <1>1, <1>8, <1>9 DEF r

\* UtilsListAdd puts a new node at the head.
LEMMA Prepended ==
  ASSUME NEW T, NEW list \in Seq(T), Distinct(list), NEW x \in T, x \notin ToSet(list)
  PROVE  /\ <<x>> \o list \in Seq(T) /\ Distinct(<<x>> \o list)
         /\ ToSet(<<x>> \o list) = ToSet(list) \cup {x}
<1> DEFINE n == Len(list)
           one == <<x>>
           r == one \o list
<1>0. n \in Nat /\ DOMAIN list = 1 .. n
  OBVIOUS
<1>1. one \in Seq(T) /\ Len(one) = 1 /\ one[1] = x
  OBVIOUS
<1> HIDE DEF one
<1>2. /\ r \in Seq(T) /\ Len(r) = 1 + n
      /\ \A i \in 1 .. 1 + n : r[i] = IF i <= 1 THEN one[i] ELSE list[i - 1]
  <2>1. /\ r \in Seq(T) /\ Len(r) = Len(one) + Len(list)
        /\ \A i \in 1 .. Len(one) + Len(list) :
             r[i] = IF i <= Len(one) THEN one[i] ELSE list[i - Len(one)]
    BY ONLY <1>1, list \in Seq(T), ConcatProperties
  <2> HIDE DEF r
  <2> QED BY ONLY <1>1, <2>1
<1> HIDE DEF n, r
<1>3. DOMAIN r = 1 .. n + 1
  BY ONLY <1>0, <1>2
<1>4. 1 \in DOMAIN r /\ r[1] = x
  BY ONLY <1>0, <1>1, <1>2, <1>3
<1>5. \A i \in DOMAIN r : i # 1 => i - 1 \in DOMAIN list /\ r[i] = list[i - 1]
  BY ONLY <1>0, <1>2, <1>3
<1>6. \A i \in DOMAIN list : i + 1 \in DOMAIN r /\ r[i + 1] = list[i]
  <2>1. \A i \in DOMAIN list : i + 1 \in DOMAIN r /\ i + 1 # 1 /\ (i + 1) - 1 = i
    BY ONLY <1>0, <1>3
  <2> QED BY ONLY <1>5, <2>1
<1>7. ToSet(r) = ToSet(list) \cup {x}
  BY ONLY <1>4, <1>5, <1>6 DEF ToSet
<1>8. Distinct(r)
  <2> SUFFICES ASSUME NEW i \in DOMAIN r, NEW j \in DOMAIN r, r[i] = r[j] PROVE i = j
    BY DEF Distinct
  <2>1. CASE i = 1 /\ j = 1
    BY ONLY <2>1
  <2>2. CASE i = 1 /\ j # 1
    BY ONLY <1>4, <1>5, <2>2, r[i] = r[j], x \notin ToSet(list), j \in DOMAIN r DEF ToSet
  <2>3. CASE i # 1 /\ j = 1
    BY ONLY <1>4, <1>5, <2>3, r[i] = r[j], x \notin ToSet(list), i \in DOMAIN r DEF ToSet
  <2>4. CASE i # 1 /\ j # 1
    <3>1. i - 1 = j - 1
      BY ONLY <1>5, <2>4, r[i] = r[j], i \in DOMAIN r, j \in DOMAIN r, Distinct(list)
         DEF Distinct
    <3> QED BY ONLY <1>0, <1>3, <3>1, i \in DOMAIN r, j \in DOMAIN r
  <2> QED BY ONLY <2>1, <2>2, <2>3, <2>4
<1> QED BY ONLY <1>2, <1>7, <1>8 DEF r, one


-----------------------------------------------------------------------------
(* The event hub *)

\* The nodes of the requests in the hub's queue and of the one being handled.
Queued == {n \in Nodes : \E j \in DOMAIN queue : Carries(queue[j], n)}
Handled == {n \in Nodes : msg # NULL /\ Carries(msg, n)}

\* The nodes that somebody is to free.
Owned == {n \in Nodes : node[n] # NULL /\ n \notin lost}

(***************************************************************************)
(* The inductive invariant: the queue, the hub's task and the two lists    *)
(* hold different nodes, each of them once (Once, Apart), together the     *)
(* nodes that are allocated and not lost (Complete); a node that was never *)
(* allocated is NULL, so that MEM_Malloc gives one that nobody holds.      *)
(***************************************************************************)
HubTyped ==
  /\ queue \in Seq(HubRequests) /\ msg \in HubRequests \cup {NULL}
  /\ senderList \in Seq(Nodes) /\ receiverList \in Seq(Nodes)
  /\ node \in [Nodes -> SenderNode \cup ReceiverNode \cup {NULL}]
  /\ used \in 0 .. MaxNodes /\ lost \subseteq 1 .. used /\ events \in 0 .. MaxEvents
Fresh == \A n \in Nodes : n > used => node[n] = NULL
OnceQueued(q) ==
  \A i, j \in DOMAIN q : \A n \in Nodes : Carries(q[i], n) /\ Carries(q[j], n) => i = j
Once == OnceQueued(queue) /\ Distinct(senderList) /\ Distinct(receiverList)
Apart ==
  /\ Queued \cap Handled = {} /\ (Queued \cup Handled) \cap ToSet(senderList) = {}
  /\ (Queued \cup Handled) \cap ToSet(receiverList) = {}
  /\ ToSet(senderList) \cap ToSet(receiverList) = {}
Complete == Queued \cup Handled \cup ToSet(senderList) \cup ToSet(receiverList) = Owned
HubInv == HubTyped /\ Fresh /\ Once /\ Apart /\ Complete


LEMMA InitHub == HubInit => HubInv
<1> SUFFICES ASSUME HubInit PROVE HubInv
  OBVIOUS
<1>1. MaxNodes \in Nat /\ MaxEvents \in Nat
  BY EventHubAssumption
<1>2. HubTyped /\ Fresh
  BY <1>1 DEF HubInit, HubTyped, Fresh, Nodes
<1>3. Once
  BY DEF HubInit, Once, OnceQueued, Distinct
<1>4. Queued = {} /\ Handled = {} /\ ToSet(senderList) = {} /\ ToSet(receiverList) = {}
  BY DEF HubInit, Queued, Handled, ToSet
<1>5. Owned = {}
  BY DEF HubInit, Owned
<1> QED BY <1>2, <1>3, <1>4, <1>5 DEF HubInv, Apart, Complete

\* An accepted request adds its node, if it has one, to those of the queue.
LEMMA QueueGrows ==
  ASSUME HubTyped, OnceQueued(queue), NEW r \in HubRequests, queue' = Append(queue, r),
         \A n \in Queued : ~ Carries(r, n)
  PROVE  /\ queue' \in Seq(HubRequests) /\ OnceQueued(queue')
         /\ Queued' = Queued \cup {n \in Nodes : Carries(r, n)}
<1>1. queue \in Seq(HubRequests)
  BY DEF HubTyped
<1> DEFINE k == Len(queue) + 1
<1>2. /\ queue' \in Seq(HubRequests) /\ Len(queue') = k
      /\ \A i \in 1 .. Len(queue) : queue'[i] = queue[i]
      /\ queue'[k] = r
  BY <1>1, AppendProperties
<1>3. Len(queue) \in Nat /\ DOMAIN queue = 1 .. Len(queue) /\ DOMAIN queue' = 1 .. k
  BY <1>1, <1>2
<1>4. DOMAIN queue' = DOMAIN queue \cup {k} /\ k \notin DOMAIN queue
  BY ONLY <1>3
<1>5. \A i \in DOMAIN queue : queue'[i] = queue[i]
  BY ONLY <1>2, <1>3
<1>6. queue'[k] = r
  BY <1>2
<1> HIDE DEF k
<1>7. Queued' = Queued \cup {n \in Nodes : Carries(r, n)}
  <2>1. Queued' = {n \in Nodes : \E j \in DOMAIN queue' : Carries(queue'[j], n)}
    BY DEF Queued, Carries, Nodes
  <2>2. \A n \in Nodes : (\E j \in DOMAIN queue' : Carries(queue'[j], n))
                         <=> (\E j \in DOMAIN queue : Carries(queue[j], n)) \/ Carries(r, n)
    BY ONLY <1>4, <1>5, <1>6
  <2> QED BY ONLY <2>1, <2>2 DEF Queued
<1>8. OnceQueued(queue')
  <2> SUFFICES ASSUME NEW i \in DOMAIN queue', NEW j \in DOMAIN queue', NEW n \in Nodes,
                      Carries(queue'[i], n), Carries(queue'[j], n)
               PROVE  i = j
    BY DEF OnceQueued
  <2>1. CASE i \in DOMAIN queue /\ j \in DOMAIN queue
    BY <1>5, <2>1 DEF OnceQueued
  <2>2. CASE i = k /\ j = k
    BY <2>2
  <2>3. CASE i = k /\ j \in DOMAIN queue
    BY <1>5, <1>6, <2>3 DEF Queued
  <2>4. CASE i \in DOMAIN queue /\ j = k
    BY <1>5, <1>6, <2>4 DEF Queued
  <2> QED BY ONLY <1>4, <2>1, <2>2, <2>3, <2>4, i \in DOMAIN queue', j \in DOMAIN queue'
<1> QED BY <1>2, <1>7, <1>8

\* What depends on one of the variables only.
LEMMA Kept ==
  /\ queue' = queue => Queued' = Queued
  /\ msg' = msg => Handled' = Handled
  /\ node' = node /\ lost' = lost => Owned' = Owned
BY DEF Queued, Handled, Owned, Nodes, Carries

\* A call allocates a node; it goes into the queue, or gets lost.
LEMMA SendNodeHub ==
  ASSUME HubInv, NEW id \in {"ADD_SENDER", "ADD_RECEIVER"},
         NEW contents \in SenderNode \cup ReceiverNode, SendNode(id, contents)
  PROVE  HubInv'
<1> USE DEF HubInv
<1> DEFINE m == used + 1
           r == [msgId |-> id, data |-> m]
<1>0. MaxNodes \in Nat /\ NULL \notin SenderNode \cup ReceiverNode /\ used \in 0 .. MaxNodes
  BY EventHubAssumption DEF HubTyped
<1>1. m \in Nodes /\ used' = m /\ m \notin lost /\ m > used
  BY <1>0 DEF SendNode, HubTyped, Nodes
<1>2. node[m] = NULL /\ m \notin Owned
  BY <1>0, <1>1 DEF Fresh, Owned
<1>3. /\ node' = [node EXCEPT ![m] = contents]
      /\ queue' = (IF Accepted THEN Append(queue, r) ELSE queue)
      /\ lost' = (IF Accepted THEN lost ELSE lost \cup {m})
      /\ UNCHANGED <<msg, senderList, receiverList, events>>
  BY DEF SendNode, lists
<1>4. r \in HubRequests /\ \A n \in Nodes : Carries(r, n) <=> n = m
  BY <1>1 DEF HubRequests, Carries
<1> HIDE DEF m, r
<1>5. Fresh'
  <2>1. node \in [Nodes -> SenderNode \cup ReceiverNode \cup {NULL}]
    BY DEF HubTyped
  <2>2. \A n \in 1 .. MaxNodes : n > m => n > used /\ n # m
    BY <1>0, <1>1 DEF m
  <2>3. \A n \in Nodes : n # m => node'[n] = node[n]
    BY <1>3, <2>1
  <2> QED BY <1>1, <2>2, <2>3 DEF Fresh, Nodes
<1>6. /\ node' \in [Nodes -> SenderNode \cup ReceiverNode \cup {NULL}]
      /\ \A n \in Nodes : node'[n] = IF n = m THEN contents ELSE node[n]
      /\ node'[m] # NULL
  BY <1>0, <1>1, <1>3 DEF HubTyped
<1>7. used' \in 0 .. MaxNodes /\ lost' \subseteq 1 .. used'
  <2>1. \A n \in lost : n \in 1 .. m
    BY <1>0, <1>1 DEF HubTyped, m
  <2>2. m \in 1 .. m /\ m \in 0 .. MaxNodes
    BY <1>0, <1>1 DEF m, Nodes
  <2> QED BY <1>1, <1>3, <2>1, <2>2
<1>8. Handled' = Handled
  BY <1>3, Kept
<1>9. CASE Accepted
  <2>1. queue' = Append(queue, r) /\ lost' = lost
    BY <1>3, <1>9
  <2>2. \A n \in Queued : ~ Carries(r, n)
    BY <1>2, <1>4 DEF Complete, Queued
  <2>3. /\ queue' \in Seq(HubRequests) /\ OnceQueued(queue')
        /\ Queued' = Queued \cup {m}
    BY <1>1, <1>4, <2>1, <2>2, QueueGrows DEF Once
  <2>4. Owned' = Owned \cup {m}
    BY <1>1, <1>6, <2>1 DEF Owned, Nodes
  <2>5. HubTyped'
    BY <1>3, <1>6, <1>7, <2>3 DEF HubTyped, Nodes, HubRequests, SenderNode, ReceiverNode
  <2>6. Once'
    BY <1>3, <2>3 DEF Once, OnceQueued, Distinct, Nodes, Carries
  <2>7. m \notin Queued \cup Handled \cup ToSet(senderList) \cup ToSet(receiverList)
    BY <1>2 DEF Complete
  <2>8. Apart' /\ Complete'
    BY <1>3, <1>8, <2>3, <2>4, <2>7 DEF Apart, Complete
  <2> QED BY <1>5, <2>5, <2>6, <2>8
<1>10. CASE ~ Accepted
  <2>1. queue' = queue /\ lost' = lost \cup {m}
    BY <1>3, <1>10
  <2>2. Queued' = Queued
    BY <2>1, Kept
  <2>3. Owned' = Owned
    BY <1>1, <1>2, <1>6, <2>1 DEF Owned, Nodes
  <2>4. HubTyped'
    BY <1>3, <1>6, <1>7, <2>1 DEF HubTyped, Nodes, HubRequests, SenderNode, ReceiverNode
  <2>5. Once'
    BY <1>3, <2>1 DEF Once, OnceQueued, Distinct, Nodes, Carries
  <2>6. Apart' /\ Complete'
    BY <1>3, <1>8, <2>2, <2>3 DEF Apart, Complete
  <2> QED BY <1>5, <2>4, <2>5, <2>6
<1> QED BY <1>9, <1>10


\* Steps that leave the nodes and those who hold them alone.
LEMMA NodesAlone ==
  ASSUME HubInv, UNCHANGED <<queue, node, used, lost, msg, senderList, receiverList>>,
         events' \in 0 .. MaxEvents
  PROVE  HubInv'
<1> USE DEF HubInv
<1>1. Queued' = Queued /\ Handled' = Handled /\ Owned' = Owned
  BY Kept
<1>2. HubTyped'
  BY DEF HubTyped, Nodes, HubRequests, SenderNode, ReceiverNode
<1>3. Fresh' /\ Once'
  BY DEF Fresh, Once, OnceQueued, Distinct, Nodes, Carries
<1>4. Apart' /\ Complete'
  BY <1>1 DEF Apart, Complete
<1> QED BY <1>2, <1>3, <1>4

\* An event carries a handle and no node.
LEMMA SendEventHub ==
  ASSUME HubInv, NEW h \in Handles, EventHub_SendEvent(h) PROVE HubInv'
<1> USE DEF HubInv
<1> DEFINE r == [msgId |-> "SEND_EVENT", data |-> h, msgValue |-> events']
<1>1. /\ events < MaxEvents /\ events' = events + 1
      /\ queue' = (IF Accepted THEN Append(queue, r) ELSE queue)
      /\ UNCHANGED <<node, used, lost, msg, senderList, receiverList>>
  BY DEF EventHub_SendEvent, lists
<1>2. events' \in 1 .. MaxEvents /\ events' \in 0 .. MaxEvents
  BY <1>1, EventHubAssumption DEF HubTyped
<1>3. CASE ~ Accepted
  BY <1>1, <1>2, <1>3, NodesAlone
<1>4. CASE Accepted
  <2>1. r \in HubRequests /\ \A n \in Nodes : ~ Carries(r, n)
    BY <1>2 DEF HubRequests, Carries
  <2> HIDE DEF r
  <2>2. queue' \in Seq(HubRequests) /\ OnceQueued(queue') /\ Queued' = Queued
    <3>1. queue' = Append(queue, r) /\ \A n \in Queued : ~ Carries(r, n)
      BY <1>1, <1>4, <2>1 DEF Queued
    <3> QED BY <2>1, <3>1, QueueGrows DEF Once
  <2>3. Handled' = Handled /\ Owned' = Owned
    BY <1>1, Kept
  <2>4. HubTyped'
    BY <1>1, <1>2, <2>2 DEF HubTyped, Nodes, HubRequests, SenderNode, ReceiverNode
  <2>5. Fresh' /\ Once'
    BY <1>1, <2>2 DEF Fresh, Once, OnceQueued, Distinct, Nodes, Carries
  <2>6. Apart' /\ Complete'
    BY <1>1, <2>2, <2>3 DEF Apart, Complete
  <2> QED BY <2>4, <2>5, <2>6
<1> QED BY <1>3, <1>4

\* The hub's task takes the first request over from the queue.
LEMMA RecvHub == ASSUME HubInv, Recv PROVE HubInv'
<1> USE DEF HubInv
<1>1. /\ msg = NULL /\ queue # <<>> /\ msg' = Head(queue) /\ queue' = Tail(queue)
      /\ UNCHANGED <<node, used, lost, senderList, receiverList, events>>
  BY DEF Recv, lists
<1>2. queue \in Seq(HubRequests)
  BY DEF HubTyped
<1> DEFINE k == Len(queue)
<1>3. k \in Nat /\ k > 0 /\ DOMAIN queue = 1 .. k /\ Head(queue) = queue[1]
  BY <1>1, <1>2
<1>4. /\ Head(queue) \in HubRequests /\ queue' \in Seq(HubRequests) /\ Len(queue') = k - 1
      /\ \A i \in 1 .. Len(queue') : queue'[i] = queue[i + 1]
  BY <1>1, <1>2, HeadTailProperties
<1>5. DOMAIN queue' = 1 .. k - 1
  BY <1>4
<1> HIDE DEF k
<1>6. \A i \in DOMAIN queue' : i + 1 \in DOMAIN queue /\ i + 1 # 1 /\ queue'[i] = queue[i + 1]
  BY ONLY <1>3, <1>4, <1>5
<1>7. \A i \in DOMAIN queue : i # 1 => \E j \in DOMAIN queue' : queue'[j] = queue[i]
  <2> TAKE i \in DOMAIN queue
  <2> HAVE i # 1
  <2>1. i - 1 \in DOMAIN queue' /\ (i - 1) + 1 = i
    BY ONLY <1>3, <1>5, i \in DOMAIN queue, i # 1
  <2> QED BY ONLY <1>6, <2>1
<1>8. 1 \in DOMAIN queue /\ msg' = queue[1] /\ msg' # NULL /\ msg' \in HubRequests
  BY <1>1, <1>3, <1>4, EventHubAssumption
<1>9. Queued' = {n \in Nodes : \E j \in DOMAIN queue' : Carries(queue'[j], n)}
  BY DEF Queued, Carries, Nodes
<1>10. Handled' = {n \in Nodes : Carries(queue[1], n)}
  BY <1>8 DEF Handled, Carries, Nodes
<1>11. Handled = {}
  BY <1>1 DEF Handled
<1>12. Queued' \cup Handled' = Queued
  <2>1. \A n \in Nodes : (\E j \in DOMAIN queue' : Carries(queue'[j], n)) \/ Carries(queue[1], n)
                         <=> \E j \in DOMAIN queue : Carries(queue[j], n)
    BY ONLY <1>6, <1>7, <1>8
  <2> QED BY ONLY <1>9, <1>10, <2>1 DEF Queued
<1>13. Queued' \cap Handled' = {}
  <2>1. ASSUME NEW n \in Nodes, NEW j \in DOMAIN queue', Carries(queue'[j], n),
               Carries(queue[1], n)
        PROVE  FALSE
    BY <1>6, <1>8, <2>1 DEF Once, OnceQueued
  <2> QED BY ONLY <1>9, <1>10, <2>1
<1>14. OnceQueued(queue')
  <2> SUFFICES ASSUME NEW i \in DOMAIN queue', NEW j \in DOMAIN queue', NEW n \in Nodes,
                      Carries(queue'[i], n), Carries(queue'[j], n)
               PROVE  i = j
    BY DEF OnceQueued
  <2>1. i + 1 = j + 1
    BY <1>6 DEF Once, OnceQueued
  <2> QED BY ONLY <1>3, <1>5, <2>1, i \in DOMAIN queue', j \in DOMAIN queue'
<1>15. Owned' = Owned
  BY <1>1, Kept
<1>16. HubTyped'
  BY <1>1, <1>4, <1>8 DEF HubTyped, Nodes, HubRequests, SenderNode, ReceiverNode
<1>17. Fresh' /\ Once'
  BY <1>1, <1>14 DEF Fresh, Once, OnceQueued, Distinct, Nodes, Carries
<1>18. Apart' /\ Complete'
  BY ONLY <1>1, <1>11, <1>12, <1>13, <1>15, Apart, Complete DEF Apart, Complete
<1> QED BY <1>16, <1>17, <1>18

(***************************************************************************)
(* An update: the node that is handled goes into the list or is freed, the *)
(* first one it replaces leaves the list and is freed, the others stay.    *)
(***************************************************************************)
LEMMA Updated ==
  ASSUME NEW list \in Seq(Nodes), Distinct(list), NEW n \in Nodes, n \notin ToSet(list),
         NEW same \in SUBSET DOMAIN list
  PROVE  /\ Update(list, n, same).list \in Seq(Nodes) /\ Distinct(Update(list, n, same).list)
         /\ Update(list, n, same).freed \subseteq ToSet(list) \cup {n}
         /\ ToSet(Update(list, n, same).list)
              = (ToSet(list) \cup {n}) \ Update(list, n, same).freed
<1> DEFINE rest == Without(list, same)
           old == Old(list, same)
<1>1. /\ rest \in Seq(Nodes) /\ Distinct(rest)
      /\ old \subseteq ToSet(list) /\ ToSet(rest) = ToSet(list) \ old
  <2>1. CASE same = {}
    BY <2>1 DEF Without, Old
  <2>2. CASE same # {}
    <3>1. same \in SUBSET Nat
      OBVIOUS
    <3>2. Min(same) \in DOMAIN list
      BY <2>2, <3>1, MinIn
    <3>3. rest = RemoveAt(list, Min(same)) /\ old = {list[Min(same)]}
      BY <2>2 DEF Without, Old
    <3> HIDE DEF rest, old
    <3> QED BY <3>2, <3>3, Removed DEF ToSet
  <2> QED BY <2>1, <2>2
<1> DEFINE u == Update(list, n, same)
<1> HIDE DEF rest, old
<1>2. CASE node[n].sendIdentity \in Queueless
  <2>1. u = [freed |-> old \cup {n}, list |-> rest]
    BY <1>2 DEF Update, rest, old
  <2>2. u.freed = old \cup {n} /\ u.list = rest
    BY <2>1
  <2> HIDE DEF u
  <2>3. /\ u.list \in Seq(Nodes) /\ Distinct(u.list) /\ u.freed \subseteq ToSet(list) \cup {n}
        /\ ToSet(u.list) = (ToSet(list) \cup {n}) \ u.freed
    BY <1>1, <2>2
  <2> QED BY <2>3 DEF u
<1>3. CASE node[n].sendIdentity \notin Queueless
  <2>1. u = [freed |-> old \cup {}, list |-> <<n>> \o rest]
    BY <1>3 DEF Update, rest, old
  <2>2. u.freed = old /\ u.list = <<n>> \o rest
    BY <2>1
  <2> HIDE DEF u
  <2>3. /\ <<n>> \o rest \in Seq(Nodes) /\ Distinct(<<n>> \o rest)
        /\ ToSet(<<n>> \o rest) = ToSet(rest) \cup {n}
    BY <1>1, Prepended
  <2>4. /\ u.list \in Seq(Nodes) /\ Distinct(u.list) /\ u.freed \subseteq ToSet(list) \cup {n}
        /\ ToSet(u.list) = (ToSet(list) \cup {n}) \ u.freed
    BY <1>1, <2>2, <2>3
  <2> QED BY <2>4 DEF u
<1> QED BY <1>2, <1>3


\* SAMGR_FreeMsg and MEM_Free: the freed nodes are owned no more.
LEMMA FreedNodes ==
  ASSUME HubTyped, Fresh, NEW S \in SUBSET Nodes, FreeNodes(S),
         UNCHANGED <<used, lost>>
  PROVE  /\ node' \in [Nodes -> SenderNode \cup ReceiverNode \cup {NULL}]
         /\ Fresh' /\ Owned' = Owned \ S
<1>1. node' = [n \in Nodes |-> IF n \in S THEN NULL ELSE node[n]]
  BY DEF FreeNodes
<1>2. \A n \in Nodes : node'[n] = IF n \in S THEN NULL ELSE node[n]
  BY <1>1
<1>3. node' \in [Nodes -> SenderNode \cup ReceiverNode \cup {NULL}]
  BY <1>1 DEF HubTyped
<1>4. Fresh'
  BY <1>2 DEF Fresh, Nodes
<1>5. Owned' = {n \in Nodes : node'[n] # NULL /\ n \notin lost}
  BY DEF Owned, Nodes
<1>6. Owned' = Owned \ S
  BY <1>2, <1>5 DEF Owned
<1> QED BY <1>3, <1>4, <1>6

\* The request that is handled has a node that is in no list.
LEMMA HandledNode ==
  ASSUME HubInv, msg # NULL, msg.msgId # "SEND_EVENT"
  PROVE  /\ msg.data \in Nodes /\ Handled = {msg.data} /\ msg.data \notin Queued
         /\ msg.data \notin ToSet(senderList) /\ msg.data \notin ToSet(receiverList)
<1> USE DEF HubInv
<1>1. msg \in HubRequests
  BY DEF HubTyped
<1>2. msg.data \in Nodes
  BY <1>1 DEF HubRequests
<1>3. Handled = {msg.data}
  BY <1>2 DEF Handled, Carries
<1> QED BY <1>2, <1>3 DEF Apart

LEMMA UpdateSenderHub == ASSUME HubInv, EventHub_UpdateSenderNode PROVE HubInv'
<1> USE DEF HubInv
<1> DEFINE n == msg.data
           same == SameSender(n)
           u == Update(senderList, n, same)
<1>1. /\ msg # NULL /\ msg.msgId # "SEND_EVENT" /\ msg' = NULL
      /\ senderList' = u.list /\ FreeNodes(u.freed)
      /\ UNCHANGED <<queue, used, lost, receiverList, events>>
  BY DEF EventHub_UpdateSenderNode
<1>2. /\ n \in Nodes /\ Handled = {n} /\ n \notin Queued
      /\ n \notin ToSet(senderList) /\ n \notin ToSet(receiverList)
  BY <1>1, HandledNode
<1>3. same \in SUBSET DOMAIN senderList
  BY DEF SameSender
<1>4. senderList \in Seq(Nodes) /\ Distinct(senderList)
  BY DEF HubTyped, Once
<1> HIDE DEF n, same
<1>5. /\ u.list \in Seq(Nodes) /\ Distinct(u.list)
      /\ u.freed \subseteq ToSet(senderList) \cup {n}
      /\ ToSet(u.list) = (ToSet(senderList) \cup {n}) \ u.freed
  BY <1>2, <1>3, <1>4, Updated
<1> DEFINE freed == u.freed
<1>6. ToSet(senderList) \subseteq Nodes
  BY <1>4 DEF ToSet
<1>7. freed \in SUBSET Nodes /\ FreeNodes(freed)
  BY <1>1, <1>2, <1>5, <1>6
<1>8. /\ node' \in [Nodes -> SenderNode \cup ReceiverNode \cup {NULL}]
      /\ Fresh' /\ Owned' = Owned \ freed
  <2> HIDE DEF freed
  <2> QED BY <1>1, <1>7, FreedNodes
<1>9. /\ senderList' \in Seq(Nodes) /\ Distinct(senderList')
      /\ freed \subseteq ToSet(senderList) \cup {n}
      /\ ToSet(senderList') = (ToSet(senderList) \cup {n}) \ freed
  BY <1>1, <1>5
<1> HIDE DEF freed
<1>10. Queued' = Queued /\ Handled' = {}
  BY <1>1, Kept DEF Handled, Nodes
<1>11. HubTyped'
  BY <1>1, <1>8, <1>9 DEF HubTyped, Nodes, HubRequests, SenderNode, ReceiverNode
<1>12. Once'
  BY <1>1, <1>9 DEF Once, OnceQueued, Distinct, Nodes, Carries
<1>13. /\ Queued \cap ToSet(senderList') = {}
       /\ ToSet(senderList') \cap ToSet(receiverList) = {}
       /\ Queued \cup ToSet(senderList') \cup ToSet(receiverList) = Owned \ freed
  <2>1. /\ Queued \cap ToSet(senderList) = {} /\ Queued \cap ToSet(receiverList) = {}
        /\ ToSet(senderList) \cap ToSet(receiverList) = {}
        /\ Queued \cup {n} \cup ToSet(senderList) \cup ToSet(receiverList) = Owned
    BY <1>2 DEF Apart, Complete
  <2> QED BY ONLY <1>2, <1>9, <2>1
<1>14. Apart'
  BY <1>1, <1>10, <1>13 DEF Apart
<1>15. Complete'
  BY <1>1, <1>8, <1>10, <1>13 DEF Complete
<1> QED BY <1>8, <1>11, <1>12, <1>14, <1>15

LEMMA UpdateReceiverHub == ASSUME HubInv, EventHub_UpdateReceiverNode PROVE HubInv'
<1> USE DEF HubInv
<1> DEFINE n == msg.data
           same == SameReceiver(n)
           u == Update(receiverList, n, same)
<1>1. /\ msg # NULL /\ msg.msgId # "SEND_EVENT" /\ msg' = NULL
      /\ receiverList' = u.list /\ FreeNodes(u.freed)
      /\ UNCHANGED <<queue, used, lost, senderList, events>>
  BY DEF EventHub_UpdateReceiverNode
<1>2. /\ n \in Nodes /\ Handled = {n} /\ n \notin Queued
      /\ n \notin ToSet(senderList) /\ n \notin ToSet(receiverList)
  BY <1>1, HandledNode
<1>3. same \in SUBSET DOMAIN receiverList
  BY DEF SameReceiver
<1>4. receiverList \in Seq(Nodes) /\ Distinct(receiverList)
  BY DEF HubTyped, Once
<1> HIDE DEF n, same
<1>5. /\ u.list \in Seq(Nodes) /\ Distinct(u.list)
      /\ u.freed \subseteq ToSet(receiverList) \cup {n}
      /\ ToSet(u.list) = (ToSet(receiverList) \cup {n}) \ u.freed
  BY <1>2, <1>3, <1>4, Updated
<1> DEFINE freed == u.freed
<1>6. ToSet(receiverList) \subseteq Nodes
  BY <1>4 DEF ToSet
<1>7. freed \in SUBSET Nodes /\ FreeNodes(freed)
  BY <1>1, <1>2, <1>5, <1>6
<1>8. /\ node' \in [Nodes -> SenderNode \cup ReceiverNode \cup {NULL}]
      /\ Fresh' /\ Owned' = Owned \ freed
  <2> HIDE DEF freed
  <2> QED BY <1>1, <1>7, FreedNodes
<1>9. /\ receiverList' \in Seq(Nodes) /\ Distinct(receiverList')
      /\ freed \subseteq ToSet(receiverList) \cup {n}
      /\ ToSet(receiverList') = (ToSet(receiverList) \cup {n}) \ freed
  BY <1>1, <1>5
<1> HIDE DEF freed
<1>10. Queued' = Queued /\ Handled' = {}
  BY <1>1, Kept DEF Handled, Nodes
<1>11. HubTyped'
  BY <1>1, <1>8, <1>9 DEF HubTyped, Nodes, HubRequests, SenderNode, ReceiverNode
<1>12. Once'
  BY <1>1, <1>9 DEF Once, OnceQueued, Distinct, Nodes, Carries
<1>13. /\ Queued \cap ToSet(receiverList') = {}
       /\ ToSet(receiverList') \cap ToSet(senderList) = {}
       /\ Queued \cup ToSet(receiverList') \cup ToSet(senderList) = Owned \ freed
  <2>1. /\ Queued \cap ToSet(receiverList) = {} /\ Queued \cap ToSet(senderList) = {}
        /\ ToSet(receiverList) \cap ToSet(senderList) = {}
        /\ Queued \cup {n} \cup ToSet(receiverList) \cup ToSet(senderList) = Owned
    BY <1>2 DEF Apart, Complete
  <2> QED BY ONLY <1>2, <1>9, <2>1
<1>14. Queued \cap ToSet(senderList) = {}
  BY DEF Apart
<1>15. Apart'
  BY <1>1, <1>10, <1>13, <1>14 DEF Apart
<1>16. Complete'
  BY <1>1, <1>8, <1>10, <1>13 DEF Complete
<1> QED BY <1>8, <1>11, <1>12, <1>15, <1>16

\* Firing an event sends requests of its own: no node changes hands.
LEMMA FireHub == ASSUME HubInv, EventHub_FireEvents PROVE HubInv'
<1> USE DEF HubInv
<1>1. /\ msg # NULL /\ msg.msgId = "SEND_EVENT" /\ msg' = NULL
      /\ UNCHANGED <<queue, node, used, lost, senderList, receiverList, events>>
  BY Zenon DEF EventHub_FireEvents, lists
<1>2. Handled = {} /\ Handled' = {} /\ Queued' = Queued /\ Owned' = Owned
  BY <1>1, Kept DEF Handled, Carries, Nodes
<1>3. HubTyped'
  BY <1>1 DEF HubTyped, Nodes, HubRequests, SenderNode, ReceiverNode
<1>4. Fresh' /\ Once'
  BY <1>1 DEF Fresh, Once, OnceQueued, Distinct, Nodes, Carries
<1>5. Apart' /\ Complete'
  BY <1>1, <1>2 DEF Apart, Complete
<1> QED BY <1>3, <1>4, <1>5

LEMMA NextHub == HubInv /\ [HubNext]_hubVars => HubInv'
<1> SUFFICES ASSUME HubInv, [HubNext]_hubVars PROVE HubInv'
  OBVIOUS
<1>0. events \in 0 .. MaxEvents
  BY DEF HubInv, HubTyped
<1>1. CASE Ready
  BY <1>0, <1>1, NodesAlone DEF Ready, lists
<1>2. ASSUME NEW h \in Handles, NEW id \in Identities, EventHub_AddSender(h, id) PROVE HubInv'
  <2>1. [handle |-> h, sendIdentity |-> id] \in SenderNode
    BY DEF SenderNode
  <2> QED BY <1>2, <2>1, SendNodeHub DEF EventHub_AddSender
<1>3. ASSUME NEW r \in Receivers, NEW id \in Identities, NEW m \in MsgIds,
             EventHub_ListenToEvent(r, id, m)
      PROVE  HubInv'
  <2>1. [recvIdentity |-> r, sendIdentity |-> id, msgId |-> m] \in ReceiverNode
    BY DEF ReceiverNode
  <2> QED BY <1>3, <2>1, SendNodeHub DEF EventHub_ListenToEvent
<1>4. ASSUME NEW h \in Handles, EventHub_SendEvent(h) PROVE HubInv'
  BY <1>4, SendEventHub
<1>5. CASE Recv
  BY <1>5, RecvHub
<1>6. CASE MessageHandle
  BY <1>6, UpdateSenderHub, UpdateReceiverHub, FireHub DEF MessageHandle
<1>7. ASSUME NEW r \in Receivers, Receive(r) PROVE HubInv'
  BY <1>0, <1>7, NodesAlone DEF Receive, lists
<1>8. CASE UNCHANGED hubVars
  BY <1>0, <1>8, NodesAlone DEF hubVars, lists
<1> QED BY <1>1, <1>2, <1>3, <1>4, <1>5, <1>6, <1>7, <1>8 DEF HubNext


\* A sequence with an element before it.
LEMMA Behind ==
  ASSUME NEW T, NEW r \in T, NEW q \in Seq(T)
  PROVE  /\ <<r>> \o q \in Seq(T) /\ Len(<<r>> \o q) = Len(q) + 1
         /\ 1 \in DOMAIN (<<r>> \o q) /\ (<<r>> \o q)[1] = r
         /\ \A j \in DOMAIN q : j + 1 \in DOMAIN (<<r>> \o q) /\ (<<r>> \o q)[j + 1] = q[j]
         /\ \A j \in DOMAIN (<<r>> \o q) :
              j # 1 => j - 1 \in DOMAIN q /\ (<<r>> \o q)[j] = q[j - 1]
<1> DEFINE k == Len(q)
           one == <<r>>
           all == one \o q
<1>0. k \in Nat /\ DOMAIN q = 1 .. k
  OBVIOUS
<1>1. one \in Seq(T) /\ Len(one) = 1 /\ one[1] = r
  OBVIOUS
<1> HIDE DEF one
<1>2. /\ all \in Seq(T) /\ Len(all) = Len(one) + k
      /\ \A i \in 1 .. Len(one) + k : all[i] = IF i <= Len(one) THEN one[i] ELSE q[i - Len(one)]
  BY <1>1, ConcatProperties
<1> HIDE DEF k, all
<1>3. DOMAIN all = 1 .. k + 1 /\ Len(all) = k + 1
  BY ONLY <1>0, <1>1, <1>2
<1>4. \A i \in DOMAIN all : all[i] = IF i = 1 THEN r ELSE q[i - 1]
  BY ONLY <1>0, <1>1, <1>2, <1>3
<1>5. 1 \in DOMAIN all /\ \A j \in DOMAIN all : j # 1 => j - 1 \in DOMAIN q
  BY ONLY <1>0, <1>3
<1>6. ASSUME NEW j \in DOMAIN q PROVE j + 1 \in DOMAIN all /\ all[j + 1] = q[j]
  <2> DEFINE i == j + 1
  <2>1. i \in DOMAIN all /\ i # 1 /\ i - 1 = j
    BY ONLY <1>0, <1>3, j \in DOMAIN q
  <2> HIDE DEF i
  <2>2. all[i] = q[j]
    BY ONLY <1>4, <2>1
  <2> QED BY ONLY <2>1, <2>2 DEF i
<1>7. all[1] = r /\ \A j \in DOMAIN all : j # 1 => all[j] = q[j - 1]
  BY ONLY <1>4, <1>5
<1>8. /\ all \in Seq(T) /\ Len(all) = k + 1 /\ 1 \in DOMAIN all /\ all[1] = r
      /\ \A j \in DOMAIN q : j + 1 \in DOMAIN all /\ all[j + 1] = q[j]
      /\ \A j \in DOMAIN all : j # 1 => j - 1 \in DOMAIN q /\ all[j] = q[j - 1]
  BY ONLY <1>2, <1>3, <1>5, <1>6, <1>7
<1> QED BY ONLY <1>8 DEF all, one, k

\* The requests not yet handled: msg, and behind it those of the queue.
LEMMA RequestPlaces ==
  ASSUME HubTyped
  PROVE  /\ msg = NULL => Requests = queue
         /\ msg # NULL =>
              /\ Requests = <<msg>> \o queue
              /\ 1 \in DOMAIN Requests /\ Requests[1] = msg
              /\ \A j \in DOMAIN queue : j + 1 \in DOMAIN Requests /\ Requests[j + 1] = queue[j]
              /\ \A j \in DOMAIN Requests :
                   j # 1 => j - 1 \in DOMAIN queue /\ Requests[j] = queue[j - 1]
         /\ Requests \in Seq(HubRequests)
<1>0. queue \in Seq(HubRequests) /\ msg \in HubRequests \cup {NULL}
  BY DEF HubTyped
<1>1. CASE msg = NULL
  <2>1. Requests = queue
    BY <1>0, <1>1, ConcatEmptySeq DEF Requests
  <2> QED BY <1>0, <1>1, <2>1
<1>2. CASE msg # NULL
  <2>1. Requests = <<msg>> \o queue
    BY <1>2 DEF Requests
  <2> QED BY <1>0, <1>2, <2>1, Behind
<1> QED BY <1>1, <1>2

\* A node that is held once, by one of the places, has one owner; a node that
\* nobody holds has none.
LEMMA HubOwners == ASSUME HubInv, NEW n \in Nodes
                   PROVE  Cardinality(Owners(n)) = IF n \in Owned THEN 1 ELSE 0
<1> USE DEF HubInv
<1> DEFINE requests == {j \in DOMAIN Requests : Carries(Requests[j], n)}
           senders == {j \in DOMAIN senderList : senderList[j] = n}
           receivers == {j \in DOMAIN receiverList : receiverList[j] = n}
<1>1. Owners(n) = {<<"request", i>> : i \in requests} \cup {<<"sender", i>> : i \in senders}
                  \cup {<<"receiver", i>> : i \in receivers}
  BY DEF Owners
<1>2. (\A i, j \in requests : i = j) /\ (requests # {} <=> n \in Queued \cup Handled)
  <2>1. n \in Queued <=> \E j \in DOMAIN queue : Carries(queue[j], n)
    BY DEF Queued
  <2>2. n \in Handled <=> msg # NULL /\ Carries(msg, n)
    BY DEF Handled
  <2>3. ~ (n \in Queued /\ n \in Handled)
    BY DEF Apart
  <2>4. \A i, j \in DOMAIN queue : Carries(queue[i], n) /\ Carries(queue[j], n) => i = j
    BY DEF Once, OnceQueued
  <2>5. CASE msg = NULL
    BY <2>1, <2>2, <2>4, <2>5, RequestPlaces
  <2>6. CASE msg # NULL
    <3>1. /\ 1 \in DOMAIN Requests /\ Requests[1] = msg
          /\ \A j \in DOMAIN queue : j + 1 \in DOMAIN Requests /\ Requests[j + 1] = queue[j]
          /\ \A j \in DOMAIN Requests :
               j # 1 => j - 1 \in DOMAIN queue /\ Requests[j] = queue[j - 1]
      BY <2>6, RequestPlaces
    <3>2. \A j \in DOMAIN Requests : j \in Int
      BY RequestPlaces
    <3>3. ASSUME NEW i \in requests, NEW j \in requests PROVE i = j
      <4>1. CASE i = 1 /\ j = 1
        BY ONLY <4>1
      <4>2. CASE i = 1 /\ j # 1
        BY <2>1, <2>2, <2>3, <2>6, <3>1, <4>2
      <4>3. CASE i # 1 /\ j = 1
        BY <2>1, <2>2, <2>3, <2>6, <3>1, <4>3
      <4>4. CASE i # 1 /\ j # 1
        <5>1. i - 1 = j - 1
          BY <2>4, <3>1, <4>4
        <5> QED BY <3>2, <5>1
      <4> QED BY ONLY <4>1, <4>2, <4>3, <4>4
    <3>4. requests # {} <=> n \in Queued \cup Handled
      <4>1. ASSUME NEW i \in requests PROVE n \in Queued \cup Handled
        BY <2>1, <2>2, <2>6, <3>1
      <4>2. CASE n \in Queued
        BY <2>1, <3>1, <4>2
      <4>3. CASE n \in Handled
        BY <2>2, <3>1, <4>3
      <4> QED BY <4>1, <4>2, <4>3
    <3> QED BY <3>3, <3>4
  <2> QED BY <2>5, <2>6
<1>3. (\A i, j \in senders : i = j) /\ (senders # {} <=> n \in ToSet(senderList))
  BY DEF Once, Distinct, ToSet
<1>4. (\A i, j \in receivers : i = j) /\ (receivers # {} <=> n \in ToSet(receiverList))
  BY DEF Once, Distinct, ToSet
<1>5. n \in Owned <=> requests # {} \/ senders # {} \/ receivers # {}
  BY <1>2, <1>3, <1>4 DEF Complete
<1>6. /\ ~ (requests # {} /\ senders # {}) /\ ~ (requests # {} /\ receivers # {})
      /\ ~ (senders # {} /\ receivers # {})
  BY <1>2, <1>3, <1>4 DEF Apart
<1> HIDE DEF requests, senders, receivers
<1>7. CASE n \notin Owned
  <2>1. Owners(n) = {}
    BY <1>1, <1>5, <1>7
  <2> QED BY <1>7, <2>1, FS_EmptySet
<1>8. CASE n \in Owned
  <2>1. \E x : Owners(n) = {x}
    <3>1. CASE requests # {}
      <4>1. PICK i \in requests : TRUE
        BY ONLY <3>1
      <4>2. requests = {i}
        BY ONLY <1>2, <4>1
      <4>3. senders = {} /\ receivers = {}
        BY ONLY <1>6, <3>1
      <4>4. Owners(n) = {<<"request", i>>}
        BY ONLY <1>1, <4>2, <4>3
      <4> QED BY ONLY <4>4
    <3>2. CASE senders # {}
      <4>1. PICK i \in senders : TRUE
        BY ONLY <3>2
      <4>2. senders = {i}
        BY ONLY <1>3, <4>1
      <4>3. requests = {} /\ receivers = {}
        BY ONLY <1>6, <3>2
      <4>4. Owners(n) = {<<"sender", i>>}
        BY ONLY <1>1, <4>2, <4>3
      <4> QED BY ONLY <4>4
    <3>3. CASE receivers # {}
      <4>1. PICK i \in receivers : TRUE
        BY ONLY <3>3
      <4>2. receivers = {i}
        BY ONLY <1>4, <4>1
      <4>3. requests = {} /\ senders = {}
        BY ONLY <1>6, <3>3
      <4>4. Owners(n) = {<<"receiver", i>>}
        BY ONLY <1>1, <4>2, <4>3
      <4> QED BY ONLY <4>4
    <3> QED BY <1>5, <1>8, <3>1, <3>2, <3>3
  <2> QED BY <1>8, <2>1, FS_Singleton
<1> QED BY <1>7, <1>8

\* The hub, its clients and the framework agree on who frees a node, for any
\* number of nodes, clients and queue slots: a node that EventHub_AddSender or
\* EventHub_ListenToEvent allocated has one owner until it is freed, unless the
\* queue refused its request.
THEOREM NodesOwned == HubSpec => []OneOwner
<1>1. HubInv => OneOwner
  BY HubOwners DEF OneOwner, Owned
<1> QED BY <1>1, InitHub, NextHub, PTL DEF HubSpec


-----------------------------------------------------------------------------
(* The abstract states of the hub *)

Sends == [handle : Handles, send : Identities]
Listens == [recv : Receivers, send : Identities, msgId : MsgIds]
EventMsgs == [msgId : MsgIds, value : 1 .. MaxEvents]
Records == [sender : SUBSET Sends, listener : SUBSET Listens,
            due : [Receivers -> Seq(EventMsgs)]]

\* A handle names one sender, and a receiver listens to a sender once.
SoleSenders(S) == \A k, l \in S : k.handle = l.handle => k = l
SoleListeners(S) == \A k, l \in S : k.recv = l.recv /\ k.send = l.send => k = l

States == {s \in Records : SoleSenders(s.sender) /\ SoleListeners(s.listener)}

\* A request, whose node heap has when it has one.
Served(r, heap) ==
  /\ r \in HubRequests
  /\ r.msgId = "ADD_SENDER" => heap[r.data] \in SenderNode
  /\ r.msgId = "ADD_RECEIVER" => heap[r.data] \in ReceiverNode

\* What event v under handle h adds to the queue of r.
Heard(s, h, r) == {l \in s.listener : l.recv = r /\ [handle |-> h, send |-> l.send] \in s.sender}
News(s, h, v, r) ==
  IF Heard(s, h, r) = {} THEN <<>>
  ELSE <<[msgId |-> (CHOOSE l \in Heard(s, h, r) : TRUE).msgId, value |-> v]>>

\* An event goes to a receiver once at most.
LEMMA NewsOnce ==
  ASSUME NEW s \in States, NEW h \in Handles, NEW v \in 1 .. MaxEvents, NEW r \in Receivers
  PROVE  /\ Heard(s, h, r) = {} => News(s, h, v, r) = <<>>
         /\ \A l \in Heard(s, h, r) : News(s, h, v, r) = <<[msgId |-> l.msgId, value |-> v]>>
         /\ News(s, h, v, r) \in Seq(EventMsgs)
<1> DEFINE H == Heard(s, h, r)
<1>1. s.listener \subseteq Listens /\ SoleSenders(s.sender) /\ SoleListeners(s.listener)
  BY DEF States, Records
<1>2. \A k, l \in H : k.recv = l.recv /\ k.send = l.send
  BY <1>1 DEF Heard, SoleSenders
<1>3. \A k, l \in H : k = l
  BY <1>1, <1>2 DEF Heard, SoleListeners
<1>4. \A l \in H : [msgId |-> l.msgId, value |-> v] \in EventMsgs
  BY <1>1 DEF Heard, Listens, EventMsgs
<1> HIDE DEF H
<1>5. CASE H = {}
  BY <1>5 DEF News, H
<1>6. CASE H # {}
  <2> DEFINE x == CHOOSE l \in H : TRUE
             e == [msgId |-> x.msgId, value |-> v]
  <2>1. x \in H
    BY <1>6
  <2>2. News(s, h, v, r) = <<e>>
    BY <1>6 DEF News, H
  <2> HIDE DEF x
  <2>3. \A l \in H : News(s, h, v, r) = <<[msgId |-> l.msgId, value |-> v]>>
    BY <1>3, <2>1, <2>2
  <2>4. e \in EventMsgs
    BY <1>4, <2>1
  <2> HIDE DEF e
  <2> QED BY <1>6, <2>2, <2>3, <2>4 DEF H
<1> QED BY <1>5, <1>6

LEMMA StateEqual ==
  ASSUME NEW s \in States, NEW t \in States, s.sender = t.sender, s.listener = t.listener,
         s.due = t.due
  PROVE  s = t
BY DEF States, Records

\* The queues, the senders and the listeners that a request leaves.
SentTo(s, h, v) == [q \in Receivers |-> s.due[q] \o News(s, h, v, q)]
AddedTo(S, n) ==
  {k \in S : k.handle # n.handle}
  \cup (IF n.sendIdentity \in Queueless THEN {}
        ELSE {[handle |-> n.handle, send |-> n.sendIdentity]})
ListenedTo(S, n) ==
  IF n.sendIdentity \in Queueless THEN S
  ELSE {l \in S : ~ (l.recv = n.recvIdentity /\ l.send = n.sendIdentity)}
       \cup {[recv |-> n.recvIdentity, send |-> n.sendIdentity, msgId |-> n.msgId]}

\* What handling a request does to a state.
LEMMA AfterSent ==
  ASSUME NEW s \in States, NEW heap, NEW r, Served(r, heap), r.msgId = "SEND_EVENT"
  PROVE  /\ After(s, r, heap) \in States
         /\ After(s, r, heap) = Effect!Sent(s, r.data, r.msgValue)
         /\ After(s, r, heap).sender = s.sender /\ After(s, r, heap).listener = s.listener
         /\ After(s, r, heap).due = SentTo(s, r.data, r.msgValue)
<1> DEFINE d == [q \in Receivers |-> s.due[q] \o News(s, r.data, r.msgValue, q)]
           t == After(s, r, heap)
<1>1. r.data \in Handles /\ r.msgValue \in 1 .. MaxEvents
  BY DEF Served, HubRequests
<1>2. t = Effect!Sent(s, r.data, r.msgValue)
  BY DEF After
<1>3. Effect!Sent(s, r.data, r.msgValue) = [s EXCEPT !.due = d]
  BY Zenon DEF Effect!Sent, News, Heard
<1>4. d \in [Receivers -> Seq(EventMsgs)]
  <2>1. ASSUME NEW q \in Receivers PROVE s.due[q] \o News(s, r.data, r.msgValue, q) \in Seq(EventMsgs)
    <3>1. s.due[q] \in Seq(EventMsgs)
      BY DEF States, Records
    <3>2. News(s, r.data, r.msgValue, q) \in Seq(EventMsgs)
      BY <1>1, NewsOnce
    <3> QED BY <3>1, <3>2, ConcatProperties
  <2> QED BY <2>1
<1> HIDE DEF d, t
<1>5. /\ [s EXCEPT !.due = d] \in States /\ [s EXCEPT !.due = d].sender = s.sender
      /\ [s EXCEPT !.due = d].listener = s.listener /\ [s EXCEPT !.due = d].due = d
  BY <1>4 DEF States, Records
<1> QED BY <1>2, <1>3, <1>5 DEF t, d, SentTo

LEMMA AfterAdded ==
  ASSUME NEW s \in States, NEW heap, NEW r, Served(r, heap), r.msgId = "ADD_SENDER"
  PROVE  /\ After(s, r, heap) \in States
         /\ After(s, r, heap) = Effect!Added(s, heap[r.data].handle, heap[r.data].sendIdentity)
         /\ After(s, r, heap).sender = AddedTo(s.sender, heap[r.data])
         /\ After(s, r, heap).listener = s.listener /\ After(s, r, heap).due = s.due
<1> DEFINE n == heap[r.data]
           h == n.handle
           id == n.sendIdentity
           new == {k \in s.sender : k.handle # h}
                  \cup (IF id \in Queueless THEN {} ELSE {[handle |-> h, send |-> id]})
           t == After(s, r, heap)
<1>1. h \in Handles /\ id \in Identities
  BY DEF Served, SenderNode
<1>2. t = Effect!Added(s, h, id)
  BY DEF After
<1>3. Effect!Added(s, h, id) = [s EXCEPT !.sender = new]
  BY DEF Effect!Added
<1>4. new \in SUBSET Sends /\ SoleSenders(new)
  BY <1>1 DEF States, Records, Sends, SoleSenders
<1> HIDE DEF new, t, h, id
<1>5. /\ [s EXCEPT !.sender = new] \in States /\ [s EXCEPT !.sender = new].sender = new
      /\ [s EXCEPT !.sender = new].listener = s.listener
      /\ [s EXCEPT !.sender = new].due = s.due
  BY <1>4 DEF States, Records
<1> QED BY <1>2, <1>3, <1>5 DEF t, new, h, id, AddedTo

LEMMA AfterListened ==
  ASSUME NEW s \in States, NEW heap, NEW r, Served(r, heap), r.msgId = "ADD_RECEIVER"
  PROVE  /\ After(s, r, heap) \in States
         /\ After(s, r, heap) = Effect!Listened(s, heap[r.data].recvIdentity,
                                                heap[r.data].sendIdentity, heap[r.data].msgId)
         /\ After(s, r, heap).listener = ListenedTo(s.listener, heap[r.data])
         /\ After(s, r, heap).sender = s.sender /\ After(s, r, heap).due = s.due
<1> DEFINE n == heap[r.data]
           q == n.recvIdentity
           id == n.sendIdentity
           m == n.msgId
           new == {l \in s.listener : ~ (l.recv = q /\ l.send = id)}
                  \cup {[recv |-> q, send |-> id, msgId |-> m]}
           t == After(s, r, heap)
<1>1. q \in Receivers /\ id \in Identities /\ m \in MsgIds
  BY DEF Served, ReceiverNode
<1>2. t = Effect!Listened(s, q, id, m)
  BY DEF After
<1>3. Effect!Listened(s, q, id, m) = IF id \in Queueless THEN s ELSE [s EXCEPT !.listener = new]
  BY DEF Effect!Listened
<1>4. new \in SUBSET Listens /\ SoleListeners(new)
  BY <1>1 DEF States, Records, Listens, SoleListeners
<1> HIDE DEF new, t, q, id, m
<1>5. /\ [s EXCEPT !.listener = new] \in States /\ [s EXCEPT !.listener = new].listener = new
      /\ [s EXCEPT !.listener = new].sender = s.sender
      /\ [s EXCEPT !.listener = new].due = s.due
  BY <1>4 DEF States, Records
<1>6. CASE id \in Queueless
  BY <1>2, <1>3, <1>6 DEF t, q, id, m, ListenedTo
<1>7. CASE id \notin Queueless
  BY <1>2, <1>3, <1>5, <1>7 DEF t, new, q, id, m, ListenedTo
<1> QED BY <1>6, <1>7


LEMMA AfterState ==
  ASSUME NEW s \in States, NEW heap, NEW r, Served(r, heap) PROVE After(s, r, heap) \in States
<1>1. r.msgId \in {"SEND_EVENT", "ADD_SENDER", "ADD_RECEIVER"}
  BY DEF Served, HubRequests
<1> QED BY <1>1, AfterSent, AfterAdded, AfterListened

AllServed(q, heap) == \A k \in DOMAIN q : Served(q[k], heap)

\* f has the states on the way from s over the requests of q.
WorksTo(f, s, q, heap) ==
  /\ f[0] = s /\ Worked(s, q, heap) = f[Len(q)]
  /\ \A k \in 1 .. Len(q) : f[k] = After(f[k - 1], q[k], heap)

LEMMA WorkSteps ==
  ASSUME NEW s \in States, NEW heap, NEW q \in Seq(HubRequests), AllServed(q, heap)
  PROVE  \E f \in [0 .. Len(q) -> States] : WorksTo(f, s, q, heap)
<1> DEFINE n == Len(q)
           IsWork(f) == f = [k \in 0 .. n |-> IF k = 0 THEN s ELSE After(f[k - 1], q[k], heap)]
           G == [k \in 1 .. n |-> [t \in States |-> After(t, q[k], heap)]]
           worked == CHOOSE f : IsWork(f)
<1>1. n \in Nat /\ \A k \in 1 .. n : Served(q[k], heap)
  BY DEF AllServed
<1>2. G \in [1 .. n -> [States -> States]]
  BY <1>1, AfterState
<1>3. PICK g \in [0 .. n -> States] : Computes(g, n, s, G)
  <2> HIDE DEF G, n
  <2> QED BY ONLY <1>1, <1>2, Iterate, s \in States
<1>4. \A k \in 1 .. n : k - 1 \in 0 .. n /\ g[k] = After(g[k - 1], q[k], heap)
  <2> TAKE k \in 1 .. n
  <2>1. k - 1 \in 0 .. n
    BY <1>1
  <2>2. g[k - 1] \in States /\ g[k] = G[k][g[k - 1]]
    BY <1>3, <2>1 DEF Computes
  <2> QED BY <2>1, <2>2
<1>5. g[0] = s
  BY <1>3 DEF Computes
<1> HIDE DEF G, n
<1>6. IsWork(g)
  <2>1. ASSUME NEW k \in 0 .. n PROVE g[k] = IF k = 0 THEN s ELSE After(g[k - 1], q[k], heap)
    <3>1. CASE k = 0
      BY <1>5, <3>1
    <3>2. CASE k # 0
      <4>1. k \in 1 .. n
        BY <1>1, <3>2
      <4> QED BY <1>4, <3>2, <4>1
    <3> QED BY <3>1, <3>2
  <2> QED BY <2>1
<1>7. IsWork(worked) /\ Worked(s, q, heap) = worked[n]
  <2>1. IsWork(worked)
    <3> HIDE DEF IsWork
    <3> QED BY <1>6
  <2>2. Worked(s, q, heap) = worked[n]
    BY DEF Worked, n
  <2> QED BY <2>1, <2>2
<1> HIDE DEF worked
<1>8. \A k \in 0 .. n : worked[k] = IF k = 0 THEN s ELSE After(worked[k - 1], q[k], heap)
  BY Zenon, <1>7
<1>9. 0 \in 0 .. n /\ n \in 0 .. n /\ \A k \in 1 .. n : k \in 0 .. n /\ k # 0
  BY ONLY <1>1
<1>10. \A k \in 0 .. n : worked[k] = g[k]
  <2> DEFINE good == {k \in 0 .. n : worked[k] = g[k]}
  <2>1. 0 \in good
    BY ONLY <1>5, <1>8, <1>9
  <2>2. ASSUME NEW k \in 1 .. n, k - 1 \in good PROVE k \in good
    BY ONLY <1>4, <1>8, <1>9, <2>2
  <2> HIDE DEF good
  <2>3. \A k \in 0 .. n : k \in good
    BY ONLY <1>1, <2>1, <2>2, UpTo
  <2> QED BY <2>3 DEF good
<1>11. WorksTo(g, s, q, heap)
  <2>1. Worked(s, q, heap) = g[n]
    BY ONLY <1>7, <1>9, <1>10
  <2> QED BY <1>4, <1>5, <2>1 DEF WorksTo, n
<1> QED BY <1>3, <1>11 DEF n

LEMMA WorkedState ==
  ASSUME NEW s \in States, NEW heap, NEW q \in Seq(HubRequests), AllServed(q, heap)
  PROVE  Worked(s, q, heap) \in States
<1>1. PICK f \in [0 .. Len(q) -> States] : WorksTo(f, s, q, heap)
  BY WorkSteps
<1>2. Len(q) \in 0 .. Len(q)
  OBVIOUS
<1> QED BY <1>1, <1>2 DEF WorksTo

LEMMA WorkedNone ==
  ASSUME NEW s \in States, NEW heap PROVE Worked(s, <<>>, heap) = s
<1> DEFINE q == <<>>
<1>1. q \in Seq(HubRequests) /\ AllServed(q, heap) /\ Len(q) = 0
  BY DEF AllServed
<1> HIDE DEF q
<1>2. PICK f \in [0 .. Len(q) -> States] : WorksTo(f, s, q, heap)
  BY <1>1, WorkSteps
<1>3. Worked(s, q, heap) = s
  BY <1>1, <1>2 DEF WorksTo
<1> QED BY <1>3 DEF q

\* A request that is accepted takes effect after those before it.
LEMMA WorkedAppend ==
  ASSUME NEW s \in States, NEW heap, NEW q \in Seq(HubRequests), AllServed(q, heap),
         NEW r, Served(r, heap)
  PROVE  /\ Append(q, r) \in Seq(HubRequests) /\ AllServed(Append(q, r), heap)
         /\ Worked(s, Append(q, r), heap) = After(Worked(s, q, heap), r, heap)
<1> DEFINE n == Len(q)
           a == Append(q, r)
<1>0. r \in HubRequests
  BY DEF Served
<1>1. /\ a \in Seq(HubRequests) /\ Len(a) = n + 1 /\ a[n + 1] = r
      /\ \A k \in 1 .. n : a[k] = q[k]
  BY <1>0, AppendProperties
<1>2. n \in Nat /\ DOMAIN q = 1 .. n
  OBVIOUS
<1> HIDE DEF a, n
<1>3. DOMAIN a = 1 .. n + 1
  BY ONLY <1>1, <1>2
<1>4. AllServed(a, heap)
  <2> SUFFICES ASSUME NEW k \in DOMAIN a PROVE Served(a[k], heap)
    BY DEF AllServed
  <2>1. CASE k = n + 1
    BY <1>1, <2>1
  <2>2. CASE k # n + 1
    <3>1. k \in 1 .. n
      BY ONLY <1>2, <1>3, <2>2, k \in DOMAIN a
    <3> QED BY <1>1, <1>2, <3>1 DEF AllServed
  <2> QED BY <2>1, <2>2
<1>5. PICK f \in [0 .. n -> States] : WorksTo(f, s, q, heap)
  BY WorkSteps DEF n
<1>6. PICK g \in [0 .. Len(a) -> States] : WorksTo(g, s, a, heap)
  BY <1>1, <1>4, WorkSteps
<1>7. /\ f[0] = s /\ g[0] = s /\ Worked(s, q, heap) = f[n] /\ Worked(s, a, heap) = g[n + 1]
      /\ \A k \in 1 .. n : f[k] = After(f[k - 1], q[k], heap)
      /\ \A k \in 1 .. n + 1 : g[k] = After(g[k - 1], a[k], heap)
  BY <1>1, <1>5, <1>6 DEF WorksTo, n
<1>8. \A k \in 1 .. n : k \in 1 .. n + 1
  BY ONLY <1>2
<1>9. \A k \in 0 .. n : g[k] = f[k]
  <2> DEFINE good == {k \in 0 .. n : g[k] = f[k]}
  <2>1. 0 \in good
    BY ONLY <1>2, <1>7
  <2>2. ASSUME NEW k \in 1 .. n, k - 1 \in good PROVE k \in good
    BY ONLY <1>1, <1>2, <1>7, <1>8, <2>2
  <2> HIDE DEF good
  <2>3. \A k \in 0 .. n : k \in good
    BY ONLY <1>2, <2>1, <2>2, UpTo
  <2> QED BY <2>3 DEF good
<1>10. n + 1 \in 1 .. n + 1 /\ (n + 1) - 1 = n /\ n \in 0 .. n
  BY ONLY <1>2
<1>11. Worked(s, a, heap) = After(Worked(s, q, heap), r, heap)
  <2>1. g[n + 1] = After(g[n], r, heap)
    BY ONLY <1>1, <1>7, <1>10
  <2> QED BY ONLY <1>7, <1>9, <1>10, <2>1
<1> QED BY <1>1, <1>4, <1>11 DEF a


\* Taking an element out of a queue commutes with putting others behind.
LEMMA RemoveConcat ==
  ASSUME NEW T, NEW a \in Seq(T), NEW b \in Seq(T), NEW i \in DOMAIN a
  PROVE  i \in DOMAIN (a \o b) /\ RemoveAt(a, i) \o b = RemoveAt(a \o b, i)
<1> DEFINE n == Len(a)
           m == Len(b)
           c == a \o b
           ra == RemoveAt(a, i)
           rc == RemoveAt(c, i)
           l == ra \o b
<1>1. n \in Nat /\ m \in Nat /\ i \in 1 .. n
  OBVIOUS
<1>2. /\ c \in Seq(T) /\ Len(c) = n + m
      /\ \A k \in 1 .. n + m : c[k] = IF k <= n THEN a[k] ELSE b[k - n]
  BY ConcatProperties
<1> HIDE DEF c
<1>3. DOMAIN c = 1 .. n + m
  BY <1>1, <1>2
<1>4. i \in DOMAIN c
  BY <1>1, <1>3
<1>5. /\ ra \in Seq(T) /\ Len(ra) = n - 1
      /\ \A k \in 1 .. n - 1 : ra[k] = a[IF k < i THEN k ELSE k + 1]
  BY RemovedAt
<1>6. /\ rc \in Seq(T) /\ Len(rc) = n + m - 1
      /\ \A k \in 1 .. n + m - 1 : rc[k] = c[IF k < i THEN k ELSE k + 1]
  <2>1. /\ rc \in Seq(T) /\ Len(rc) = Len(c) - 1
        /\ \A k \in 1 .. Len(c) - 1 : rc[k] = c[IF k < i THEN k ELSE k + 1]
    BY ONLY <1>2, <1>4, RemovedAt
  <2> HIDE DEF rc
  <2> QED BY ONLY <1>2, <2>1
<1> HIDE DEF ra, rc
<1>7. /\ l \in Seq(T) /\ Len(l) = (n - 1) + m
      /\ \A k \in 1 .. (n - 1) + m : l[k] = IF k <= n - 1 THEN ra[k] ELSE b[k - (n - 1)]
  <2>1. /\ l \in Seq(T) /\ Len(l) = Len(ra) + Len(b)
        /\ \A k \in 1 .. Len(ra) + Len(b) : l[k] = IF k <= Len(ra) THEN ra[k] ELSE b[k - Len(ra)]
    BY ONLY <1>5, b \in Seq(T), ConcatProperties
  <2> HIDE DEF l
  <2> QED BY ONLY <1>5, <2>1
<1> HIDE DEF l, n, m
<1>8. (n - 1) + m = n + m - 1
  BY ONLY <1>1
<1>9. ASSUME NEW k \in 1 .. n + m - 1 PROVE l[k] = rc[k]
  <2> DEFINE o == IF k < i THEN k ELSE k + 1
  <2>1. l[k] = IF k <= n - 1 THEN ra[k] ELSE b[k - (n - 1)]
    BY ONLY <1>7, <1>8, k \in 1 .. n + m - 1
  <2>2. rc[k] = c[o]
    BY ONLY <1>6, k \in 1 .. n + m - 1
  <2>3. CASE k <= n - 1
    <3>1. k \in 1 .. n - 1 /\ o \in 1 .. n + m /\ o <= n
      BY ONLY <1>1, <2>3, k \in 1 .. n + m - 1
    <3>2. l[k] = a[o]
      BY ONLY <1>5, <2>1, <2>3, <3>1
    <3> HIDE DEF o
    <3> QED BY ONLY <1>2, <2>2, <3>1, <3>2
  <2>4. CASE ~ (k <= n - 1)
    <3>1. ~ (k < i) /\ k + 1 \in 1 .. n + m /\ ~ (k + 1 <= n) /\ (k + 1) - n = k - (n - 1)
      BY ONLY <1>1, <2>4, k \in 1 .. n + m - 1
    <3>2. o = k + 1
      BY ONLY <3>1
    <3>3. c[k + 1] = b[(k + 1) - n]
      BY ONLY <1>2, <3>1
    <3> QED BY ONLY <2>1, <2>2, <2>4, <3>1, <3>2, <3>3
  <2> QED BY ONLY <2>3, <2>4
<1>10. l = rc
  BY ONLY <1>6, <1>7, <1>8, <1>9, SeqEqual
<1> QED BY <1>4, <1>10 DEF l, ra, rc, c

LEMMA TailConcat ==
  ASSUME NEW T, NEW a \in Seq(T), NEW b \in Seq(T), a # <<>>
  PROVE  a \o b # <<>> /\ Tail(a) \o b = Tail(a \o b)
<1> DEFINE n == Len(a)
           m == Len(b)
           c == a \o b
           ta == Tail(a)
           tc == Tail(c)
           l == ta \o b
<1>1. n \in Nat /\ m \in Nat /\ n > 0
  OBVIOUS
<1>2. /\ c \in Seq(T) /\ Len(c) = n + m
      /\ \A k \in 1 .. n + m : c[k] = IF k <= n THEN a[k] ELSE b[k - n]
  BY ConcatProperties
<1> HIDE DEF c
<1>3. c # <<>>
  BY <1>1, <1>2
<1>4. ta \in Seq(T) /\ Len(ta) = n - 1 /\ \A k \in 1 .. n - 1 : ta[k] = a[k + 1]
  BY HeadTailProperties
<1>5. tc \in Seq(T) /\ Len(tc) = n + m - 1 /\ \A k \in 1 .. n + m - 1 : tc[k] = c[k + 1]
  BY <1>2, <1>3, HeadTailProperties
<1> HIDE DEF ta, tc
<1>6. /\ l \in Seq(T) /\ Len(l) = (n - 1) + m
      /\ \A k \in 1 .. (n - 1) + m : l[k] = IF k <= n - 1 THEN ta[k] ELSE b[k - (n - 1)]
  <2>1. /\ l \in Seq(T) /\ Len(l) = Len(ta) + Len(b)
        /\ \A k \in 1 .. Len(ta) + Len(b) : l[k] = IF k <= Len(ta) THEN ta[k] ELSE b[k - Len(ta)]
    BY ONLY <1>4, b \in Seq(T), ConcatProperties
  <2> HIDE DEF l
  <2> QED BY ONLY <1>4, <2>1
<1> HIDE DEF l, n, m
<1>7. (n - 1) + m = n + m - 1
  BY ONLY <1>1
<1>8. ASSUME NEW k \in 1 .. n + m - 1 PROVE l[k] = tc[k]
  <2>1. l[k] = IF k <= n - 1 THEN ta[k] ELSE b[k - (n - 1)]
    BY ONLY <1>6, <1>7, k \in 1 .. n + m - 1
  <2>2. tc[k] = c[k + 1]
    BY ONLY <1>5, k \in 1 .. n + m - 1
  <2>3. CASE k <= n - 1
    <3>1. k \in 1 .. n - 1 /\ k + 1 \in 1 .. n + m /\ k + 1 <= n
      BY ONLY <1>1, <2>3, k \in 1 .. n + m - 1
    <3> QED BY ONLY <1>2, <1>4, <2>1, <2>2, <2>3, <3>1
  <2>4. CASE ~ (k <= n - 1)
    <3>1. k + 1 \in 1 .. n + m /\ ~ (k + 1 <= n) /\ (k + 1) - n = k - (n - 1)
      BY ONLY <1>1, <2>4, k \in 1 .. n + m - 1
    <3>2. c[k + 1] = b[(k + 1) - n]
      BY ONLY <1>2, <3>1
    <3> QED BY ONLY <2>1, <2>2, <2>4, <3>1, <3>2
  <2> QED BY ONLY <2>3, <2>4
<1>9. l = tc
  BY ONLY <1>5, <1>6, <1>7, <1>8, SeqEqual
<1> QED BY <1>3, <1>9 DEF l, ta, tc, c


\* The first request takes effect before those behind it.
LEMMA WorkedFirst ==
  ASSUME NEW s \in States, NEW heap, NEW q \in Seq(HubRequests), AllServed(q, heap),
         NEW r, Served(r, heap)
  PROVE  Worked(s, <<r>> \o q, heap) = Worked(After(s, r, heap), q, heap)
<1> DEFINE n == Len(q)
           a == <<r>> \o q
           t == After(s, r, heap)
<1>0. r \in HubRequests /\ t \in States
  BY AfterState DEF Served
<1>1. /\ a \in Seq(HubRequests) /\ Len(a) = n + 1 /\ a[1] = r
      /\ \A j \in DOMAIN q : a[j + 1] = q[j]
      /\ \A j \in DOMAIN a : j # 1 => j - 1 \in DOMAIN q /\ a[j] = q[j - 1]
  BY <1>0, Behind
<1>2. n \in Nat /\ DOMAIN q = 1 .. n
  OBVIOUS
<1> HIDE DEF a, n, t
<1>3. AllServed(a, heap)
  BY <1>1 DEF AllServed
<1>4. PICK f \in [0 .. n -> States] : WorksTo(f, t, q, heap)
  BY <1>0, WorkSteps DEF n
<1>5. PICK g \in [0 .. Len(a) -> States] : WorksTo(g, s, a, heap)
  BY <1>1, <1>3, WorkSteps
<1>6. /\ f[0] = t /\ g[0] = s /\ Worked(t, q, heap) = f[n] /\ Worked(s, a, heap) = g[n + 1]
      /\ \A k \in 1 .. n : f[k] = After(f[k - 1], q[k], heap)
      /\ \A k \in 1 .. n + 1 : g[k] = After(g[k - 1], a[k], heap)
  BY <1>1, <1>4, <1>5 DEF WorksTo, n
<1>7. g[1] = t
  <2>1. 1 \in 1 .. n + 1 /\ 1 - 1 = 0
    BY ONLY <1>2
  <2>2. g[1] = After(g[0], a[1], heap)
    BY ONLY <1>6, <2>1
  <2> QED BY ONLY <1>1, <1>6, <2>2 DEF t
<1>8. \A k \in 0 .. n : g[k + 1] = f[k]
  <2> DEFINE good == {k \in 0 .. n : g[k + 1] = f[k]}
  <2>1. 0 \in good
    <3>1. 0 \in 0 .. n /\ 0 + 1 = 1
      BY ONLY <1>2
    <3> QED BY ONLY <1>6, <1>7, <3>1
  <2>2. ASSUME NEW k \in 1 .. n, k - 1 \in good PROVE k \in good
    <3>1. k \in 0 .. n /\ k + 1 \in 1 .. n + 1 /\ (k - 1) + 1 = k /\ (k + 1) - 1 = k
      BY ONLY <1>2, k \in 1 .. n
    <3>2. g[k] = f[k - 1]
      BY ONLY <2>2, <3>1
    <3>3. a[k + 1] = q[k] /\ f[k] = After(f[k - 1], q[k], heap)
      BY ONLY <1>1, <1>2, <1>6, k \in 1 .. n
    <3>4. g[k + 1] = After(g[k], a[k + 1], heap)
      <4> DEFINE j == k + 1
      <4>1. j \in 1 .. n + 1 /\ j - 1 = k
        BY ONLY <3>1
      <4> HIDE DEF j
      <4>2. g[j] = After(g[k], a[j], heap)
        BY ONLY <1>6, <4>1
      <4> QED BY ONLY <4>2 DEF j
    <3>5. g[k + 1] = f[k]
      BY ONLY <3>2, <3>3, <3>4
    <3> QED BY ONLY <3>1, <3>5
  <2> HIDE DEF good
  <2>3. \A k \in 0 .. n : k \in good
    BY ONLY <1>2, <2>1, <2>2, UpTo
  <2> QED BY <2>3 DEF good
<1>9. n \in 0 .. n
  BY ONLY <1>2
<1>10. Worked(s, a, heap) = Worked(t, q, heap)
  BY ONLY <1>6, <1>8, <1>9
<1> QED BY <1>10 DEF a, t

\* Only the nodes of the requests matter.
LEMMA WorkedHeap ==
  ASSUME NEW s \in States, NEW heap, NEW other, NEW q \in Seq(HubRequests), AllServed(q, heap),
         \A k \in DOMAIN q : q[k].msgId # "SEND_EVENT" => other[q[k].data] = heap[q[k].data]
  PROVE  AllServed(q, other) /\ Worked(s, q, other) = Worked(s, q, heap)
<1> DEFINE n == Len(q)
<1>1. n \in Nat /\ DOMAIN q = 1 .. n
  OBVIOUS
<1>2. AllServed(q, other)
  BY DEF AllServed, Served
<1>3. \A t, k : k \in 1 .. n => After(t, q[k], other) = After(t, q[k], heap)
  <2> SUFFICES ASSUME NEW t, NEW k \in 1 .. n
               PROVE  After(t, q[k], other) = After(t, q[k], heap)
    OBVIOUS
  <2>1. q[k].msgId # "SEND_EVENT" => other[q[k].data] = heap[q[k].data]
    BY <1>1
  <2>2. q[k].msgId \in {"SEND_EVENT", "ADD_SENDER", "ADD_RECEIVER"}
    BY <1>1 DEF AllServed, Served, HubRequests
  <2> QED BY ONLY <2>1, <2>2 DEF After
<1>4. PICK f \in [0 .. n -> States] : WorksTo(f, s, q, heap)
  BY WorkSteps
<1>5. PICK g \in [0 .. n -> States] : WorksTo(g, s, q, other)
  BY <1>2, WorkSteps
<1>6. /\ f[0] = s /\ g[0] = s /\ Worked(s, q, heap) = f[n] /\ Worked(s, q, other) = g[n]
      /\ \A k \in 1 .. n : f[k] = After(f[k - 1], q[k], heap)
      /\ \A k \in 1 .. n : g[k] = After(g[k - 1], q[k], other)
  BY <1>4, <1>5 DEF WorksTo
<1> HIDE DEF n
<1>7. \A k \in 0 .. n : g[k] = f[k]
  <2> DEFINE good == {k \in 0 .. n : g[k] = f[k]}
  <2>1. 0 \in good
    BY ONLY <1>1, <1>6
  <2>2. ASSUME NEW k \in 1 .. n, k - 1 \in good PROVE k \in good
    <3>1. k \in 0 .. n
      BY ONLY <1>1, k \in 1 .. n
    <3> QED BY ONLY <1>3, <1>6, <2>2, <3>1
  <2> HIDE DEF good
  <2>3. \A k \in 0 .. n : k \in good
    BY ONLY <1>1, <2>1, <2>2, UpTo
  <2> QED BY <2>3 DEF good
<1>8. n \in 0 .. n
  BY ONLY <1>1
<1> QED BY ONLY <1>2, <1>6, <1>7, <1>8

\* State t, in which receivers miss an event each that they have in s.
Shorter(s, t) ==
  /\ t.sender = s.sender /\ t.listener = s.listener
  /\ \A r \in Receivers :
       \/ t.due[r] = s.due[r]
       \/ \E i \in DOMAIN s.due[r] : t.due[r] = RemoveAt(s.due[r], i)

\* State t, in which r has taken the first event it has in s.
Taken(s, t, r) ==
  /\ t.sender = s.sender /\ t.listener = s.listener /\ s.due[r] # <<>>
  /\ t.due[r] = Tail(s.due[r]) /\ \A q \in Receivers : q # r => t.due[q] = s.due[q]

LEMMA NewsSame ==
  ASSUME NEW s, NEW t, t.sender = s.sender, t.listener = s.listener, NEW h, NEW v, NEW r
  PROVE  News(t, h, v, r) = News(s, h, v, r)
BY DEF News, Heard

\* The queues of u have those of s, and the queues of w those of t, with the
\* same events behind.
AlsoDue(s, t, u, w) ==
  \E more \in [Receivers -> Seq(EventMsgs)] : \A q \in Receivers :
    u.due[q] = s.due[q] \o more[q] /\ w.due[q] = t.due[q] \o more[q]

\* A request does to the one state what it does to the other.
LEMMA AfterDue ==
  ASSUME NEW s \in States, NEW t \in States, t.sender = s.sender, t.listener = s.listener,
         NEW heap, NEW r, Served(r, heap)
  PROVE  /\ After(t, r, heap).sender = After(s, r, heap).sender
         /\ After(t, r, heap).listener = After(s, r, heap).listener
         /\ AlsoDue(s, t, After(s, r, heap), After(t, r, heap))
<1>0. \A q \in Receivers : s.due[q] \in Seq(EventMsgs) /\ t.due[q] \in Seq(EventMsgs)
  BY DEF States, Records
<1>1. CASE r.msgId = "SEND_EVENT"
  <2> DEFINE more == [q \in Receivers |-> News(s, r.data, r.msgValue, q)]
  <2>1. \A q \in Receivers : News(t, r.data, r.msgValue, q) = News(s, r.data, r.msgValue, q)
    BY NewsSame
  <2>2. r.data \in Handles /\ r.msgValue \in 1 .. MaxEvents
    BY <1>1 DEF Served, HubRequests
  <2>3. more \in [Receivers -> Seq(EventMsgs)]
    BY <2>2, NewsOnce
  <2>4. /\ After(s, r, heap).sender = s.sender /\ After(s, r, heap).listener = s.listener
        /\ After(t, r, heap).sender = t.sender /\ After(t, r, heap).listener = t.listener
        /\ \A q \in Receivers :
             After(s, r, heap).due[q] = s.due[q] \o News(s, r.data, r.msgValue, q)
        /\ \A q \in Receivers :
             After(t, r, heap).due[q] = t.due[q] \o News(t, r.data, r.msgValue, q)
    <3>1. /\ After(s, r, heap).sender = s.sender /\ After(s, r, heap).listener = s.listener
          /\ After(s, r, heap).due = SentTo(s, r.data, r.msgValue)
      BY ONLY s \in States, Served(r, heap), <1>1, AfterSent
    <3>2. /\ After(t, r, heap).sender = t.sender /\ After(t, r, heap).listener = t.listener
          /\ After(t, r, heap).due = SentTo(t, r.data, r.msgValue)
      BY ONLY t \in States, Served(r, heap), <1>1, AfterSent
    <3> QED BY ONLY <3>1, <3>2 DEF SentTo
  <2>5. \A q \in Receivers : more[q] = News(s, r.data, r.msgValue, q)
    OBVIOUS
  <2> HIDE DEF more
  <2>6. /\ After(t, r, heap).sender = After(s, r, heap).sender
        /\ After(t, r, heap).listener = After(s, r, heap).listener
    BY <2>4
  <2>7. \A q \in Receivers : /\ After(s, r, heap).due[q] = s.due[q] \o more[q]
                             /\ After(t, r, heap).due[q] = t.due[q] \o more[q]
    BY ONLY <2>1, <2>4, <2>5
  <2> QED BY ONLY <2>3, <2>6, <2>7 DEF AlsoDue
<1>2. CASE r.msgId # "SEND_EVENT"
  <2> DEFINE more == [q \in Receivers |-> <<>>]
  <2>1. more \in [Receivers -> Seq(EventMsgs)] /\ \A q \in Receivers : more[q] = <<>>
    OBVIOUS
  <2>2. \A q \in Receivers : s.due[q] \o <<>> = s.due[q] /\ t.due[q] \o <<>> = t.due[q]
    BY <1>0, ConcatEmptySeq
  <2>3. r.msgId = "ADD_SENDER" \/ r.msgId = "ADD_RECEIVER"
    BY <1>2 DEF Served, HubRequests
  <2>4. /\ After(s, r, heap).due = s.due /\ After(t, r, heap).due = t.due
        /\ After(t, r, heap).sender = After(s, r, heap).sender
        /\ After(t, r, heap).listener = After(s, r, heap).listener
    <3>1. CASE r.msgId = "ADD_SENDER"
      <4>1. /\ After(s, r, heap).due = s.due /\ After(s, r, heap).listener = s.listener
            /\ After(s, r, heap).sender = AddedTo(s.sender, heap[r.data])
        BY ONLY s \in States, Served(r, heap), <3>1, AfterAdded
      <4>2. /\ After(t, r, heap).due = t.due /\ After(t, r, heap).listener = t.listener
            /\ After(t, r, heap).sender = AddedTo(t.sender, heap[r.data])
        BY ONLY t \in States, Served(r, heap), <3>1, AfterAdded
      <4> QED BY ONLY <4>1, <4>2, t.sender = s.sender, t.listener = s.listener
    <3>2. CASE r.msgId = "ADD_RECEIVER"
      <4>1. /\ After(s, r, heap).due = s.due /\ After(s, r, heap).sender = s.sender
            /\ After(s, r, heap).listener = ListenedTo(s.listener, heap[r.data])
        BY ONLY s \in States, Served(r, heap), <3>2, AfterListened
      <4>2. /\ After(t, r, heap).due = t.due /\ After(t, r, heap).sender = t.sender
            /\ After(t, r, heap).listener = ListenedTo(t.listener, heap[r.data])
        BY ONLY t \in States, Served(r, heap), <3>2, AfterListened
      <4> QED BY ONLY <4>1, <4>2, t.sender = s.sender, t.listener = s.listener
    <3> QED BY <2>3, <3>1, <3>2
  <2> HIDE DEF more
  <2>5. \A q \in Receivers : /\ After(s, r, heap).due[q] = s.due[q] \o more[q]
                             /\ After(t, r, heap).due[q] = t.due[q] \o more[q]
    BY ONLY <2>1, <2>2, <2>4
  <2> QED BY ONLY <2>1, <2>4, <2>5 DEF AlsoDue
<1> QED BY <1>1, <1>2


LEMMA AfterShorter ==
  ASSUME NEW s \in States, NEW t \in States, Shorter(s, t), NEW heap, NEW r, Served(r, heap)
  PROVE  Shorter(After(s, r, heap), After(t, r, heap))
<1> DEFINE u == After(s, r, heap)
           w == After(t, r, heap)
<1>1. t.sender = s.sender /\ t.listener = s.listener
  BY DEF Shorter
<1>2. /\ w.sender = u.sender /\ w.listener = u.listener
      /\ AlsoDue(s, t, u, w)
  BY <1>1, AfterDue
<1> HIDE DEF u, w
<1>3. PICK more \in [Receivers -> Seq(EventMsgs)] : \A q \in Receivers :
        u.due[q] = s.due[q] \o more[q] /\ w.due[q] = t.due[q] \o more[q]
  BY ONLY <1>2 DEF AlsoDue
<1>4. ASSUME NEW q \in Receivers
      PROVE  \/ w.due[q] = u.due[q]
             \/ \E i \in DOMAIN u.due[q] : w.due[q] = RemoveAt(u.due[q], i)
  <2> DEFINE a == s.due[q]
             b == more[q]
  <2>1. a \in Seq(EventMsgs) /\ b \in Seq(EventMsgs)
    BY DEF States, Records
  <2>2. u.due[q] = a \o b /\ w.due[q] = t.due[q] \o b
    BY <1>3
  <2>3. t.due[q] = a \/ \E i \in DOMAIN a : t.due[q] = RemoveAt(a, i)
    BY DEF Shorter
  <2> HIDE DEF a, b
  <2>4. CASE t.due[q] = a
    BY ONLY <2>2, <2>4
  <2>5. CASE \E i \in DOMAIN a : t.due[q] = RemoveAt(a, i)
    <3>1. PICK i \in DOMAIN a : t.due[q] = RemoveAt(a, i)
      BY ONLY <2>5
    <3>2. i \in DOMAIN (a \o b) /\ RemoveAt(a, i) \o b = RemoveAt(a \o b, i)
      BY ONLY <2>1, RemoveConcat, i \in DOMAIN a
    <3>3. i \in DOMAIN u.due[q] /\ w.due[q] = RemoveAt(u.due[q], i)
      BY ONLY <2>2, <3>1, <3>2
    <3> QED BY ONLY <3>3
  <2> QED BY ONLY <2>3, <2>4, <2>5
<1>5. Shorter(u, w)
  BY ONLY <1>2, <1>4 DEF Shorter
<1> QED BY <1>5 DEF u, w

LEMMA AfterTaken ==
  ASSUME NEW s \in States, NEW t \in States, NEW p \in Receivers, Taken(s, t, p),
         NEW heap, NEW r, Served(r, heap)
  PROVE  Taken(After(s, r, heap), After(t, r, heap), p)
<1> DEFINE u == After(s, r, heap)
           w == After(t, r, heap)
<1>1. t.sender = s.sender /\ t.listener = s.listener
  BY DEF Taken
<1>2. /\ w.sender = u.sender /\ w.listener = u.listener
      /\ AlsoDue(s, t, u, w)
  BY <1>1, AfterDue
<1> HIDE DEF u, w
<1>3. PICK more \in [Receivers -> Seq(EventMsgs)] : \A q \in Receivers :
        u.due[q] = s.due[q] \o more[q] /\ w.due[q] = t.due[q] \o more[q]
  BY ONLY <1>2 DEF AlsoDue
<1>4. \A q \in Receivers : q # p => w.due[q] = u.due[q]
  BY <1>3 DEF Taken
<1>5. u.due[p] # <<>> /\ w.due[p] = Tail(u.due[p])
  <2> DEFINE a == s.due[p]
             b == more[p]
  <2>1. a \in Seq(EventMsgs) /\ b \in Seq(EventMsgs)
    BY DEF States, Records
  <2>2. u.due[p] = a \o b /\ w.due[p] = t.due[p] \o b
    BY <1>3
  <2>3. a # <<>> /\ t.due[p] = Tail(a)
    BY DEF Taken
  <2> HIDE DEF a, b
  <2>4. a \o b # <<>> /\ Tail(a) \o b = Tail(a \o b)
    BY ONLY <2>1, <2>3, TailConcat
  <2> QED BY ONLY <2>2, <2>3, <2>4
<1>6. Taken(u, w, p)
  BY ONLY <1>2, <1>4, <1>5 DEF Taken
<1> QED BY <1>6 DEF u, w

\* A missed event is still missed, and one taken still taken, once the requests
\* have been handled.
LEMMA WorkedShorter ==
  ASSUME NEW s \in States, NEW t \in States, Shorter(s, t),
         NEW heap, NEW q \in Seq(HubRequests), AllServed(q, heap)
  PROVE  Shorter(Worked(s, q, heap), Worked(t, q, heap))
<1> DEFINE n == Len(q)
<1>1. n \in Nat /\ \A k \in 1 .. n : Served(q[k], heap)
  BY DEF AllServed
<1>2. PICK f \in [0 .. n -> States] : WorksTo(f, s, q, heap)
  BY ONLY s \in States, q \in Seq(HubRequests), AllServed(q, heap), WorkSteps
<1>3. PICK g \in [0 .. n -> States] : WorksTo(g, t, q, heap)
  BY ONLY t \in States, q \in Seq(HubRequests), AllServed(q, heap), WorkSteps
<1>4. /\ f[0] = s /\ g[0] = t /\ Worked(s, q, heap) = f[n] /\ Worked(t, q, heap) = g[n]
      /\ \A k \in 1 .. n : f[k] = After(f[k - 1], q[k], heap)
      /\ \A k \in 1 .. n : g[k] = After(g[k - 1], q[k], heap)
  BY <1>2, <1>3 DEF WorksTo
<1> HIDE DEF n
<1>5. \A k \in 0 .. n : Shorter(f[k], g[k])
  <2> DEFINE good == {k \in 0 .. n : Shorter(f[k], g[k])}
  <2>1. 0 \in good
    BY ONLY <1>1, <1>4, Shorter(s, t)
  <2>2. ASSUME NEW k \in 1 .. n, k - 1 \in good PROVE k \in good
    <3> DEFINE j == k - 1
    <3>1. k \in 0 .. n /\ j \in 0 .. n
      BY ONLY <1>1, k \in 1 .. n
    <3>2. f[k] = After(f[j], q[k], heap) /\ g[k] = After(g[j], q[k], heap) /\ Served(q[k], heap)
      BY ONLY <1>1, <1>4, k \in 1 .. n
    <3>3. Shorter(f[j], g[j])
      BY ONLY <2>2
    <3> HIDE DEF j
    <3>4. f[j] \in States /\ g[j] \in States
      BY ONLY <1>2, <1>3, <3>1
    <3>5. Shorter(After(f[j], q[k], heap), After(g[j], q[k], heap))
      BY ONLY <3>2, <3>3, <3>4, AfterShorter
    <3> QED BY ONLY <3>1, <3>2, <3>5
  <2> HIDE DEF good
  <2>3. \A k \in 0 .. n : k \in good
    BY ONLY <1>1, <2>1, <2>2, UpTo
  <2> QED BY <2>3 DEF good
<1>6. n \in 0 .. n
  BY ONLY <1>1
<1> QED BY ONLY <1>4, <1>5, <1>6

LEMMA WorkedTaken ==
  ASSUME NEW s \in States, NEW t \in States, NEW p \in Receivers, Taken(s, t, p),
         NEW heap, NEW q \in Seq(HubRequests), AllServed(q, heap)
  PROVE  Taken(Worked(s, q, heap), Worked(t, q, heap), p)
<1> DEFINE n == Len(q)
<1>1. n \in Nat /\ \A k \in 1 .. n : Served(q[k], heap)
  BY DEF AllServed
<1>2. PICK f \in [0 .. n -> States] : WorksTo(f, s, q, heap)
  BY ONLY s \in States, q \in Seq(HubRequests), AllServed(q, heap), WorkSteps
<1>3. PICK g \in [0 .. n -> States] : WorksTo(g, t, q, heap)
  BY ONLY t \in States, q \in Seq(HubRequests), AllServed(q, heap), WorkSteps
<1>4. /\ f[0] = s /\ g[0] = t /\ Worked(s, q, heap) = f[n] /\ Worked(t, q, heap) = g[n]
      /\ \A k \in 1 .. n : f[k] = After(f[k - 1], q[k], heap)
      /\ \A k \in 1 .. n : g[k] = After(g[k - 1], q[k], heap)
  BY <1>2, <1>3 DEF WorksTo
<1> HIDE DEF n
<1>5. \A k \in 0 .. n : Taken(f[k], g[k], p)
  <2> DEFINE good == {k \in 0 .. n : Taken(f[k], g[k], p)}
  <2>1. 0 \in good
    BY ONLY <1>1, <1>4, Taken(s, t, p)
  <2>2. ASSUME NEW k \in 1 .. n, k - 1 \in good PROVE k \in good
    <3> DEFINE j == k - 1
    <3>1. k \in 0 .. n /\ j \in 0 .. n
      BY ONLY <1>1, k \in 1 .. n
    <3>2. f[k] = After(f[j], q[k], heap) /\ g[k] = After(g[j], q[k], heap) /\ Served(q[k], heap)
      BY ONLY <1>1, <1>4, k \in 1 .. n
    <3>3. Taken(f[j], g[j], p)
      BY ONLY <2>2
    <3> HIDE DEF j
    <3>4. f[j] \in States /\ g[j] \in States
      BY ONLY <1>2, <1>3, <3>1
    <3>5. Taken(After(f[j], q[k], heap), After(g[j], q[k], heap), p)
      BY ONLY <3>2, <3>3, <3>4, AfterTaken, p \in Receivers
    <3> QED BY ONLY <3>1, <3>2, <3>5
  <2> HIDE DEF good
  <2>3. \A k \in 0 .. n : k \in good
    BY ONLY <1>1, <2>1, <2>2, UpTo
  <2> QED BY <2>3 DEF good
<1>6. n \in 0 .. n
  BY ONLY <1>1
<1> QED BY ONLY <1>4, <1>5, <1>6


-----------------------------------------------------------------------------
(* The receivers of an event *)

\* f has the results of Keep for the beginnings of the list.
Keeps(f, list, S) ==
  /\ f[0] = <<>> /\ Keep(list, S) = f[Len(list)]
  /\ \A k \in 1 .. Len(list) :
       f[k] = IF list[k] \in S THEN Append(f[k - 1], list[k]) ELSE f[k - 1]

LEMMA KeepSteps ==
  ASSUME NEW T, NEW list \in Seq(T), NEW S PROVE \E f : Keeps(f, list, S)
<1> DEFINE n == Len(list)
           IsKept(f) == f = [k \in 0 .. n |->
                               IF k = 0 THEN <<>>
                               ELSE IF list[k] \in S THEN Append(f[k - 1], list[k]) ELSE f[k - 1]]
           G == [k \in 1 .. n |-> [s \in Seq(T) |->
                   IF list[k] \in S THEN Append(s, list[k]) ELSE s]]
           kept == CHOOSE f : IsKept(f)
<1>1. n \in Nat /\ \A k \in 1 .. n : list[k] \in T
  OBVIOUS
<1>2. G \in [1 .. n -> [Seq(T) -> Seq(T)]] /\ <<>> \in Seq(T)
  BY <1>1
<1>3. PICK g \in [0 .. n -> Seq(T)] : g[0] = <<>> /\ \A k \in 1 .. n : g[k] = G[k][g[k - 1]]
  <2> DEFINE X == Seq(T)
             e == <<>>
  <2>1. G \in [1 .. n -> [X -> X]] /\ e \in X
    BY <1>2
  <2> HIDE DEF G, n, X, e
  <2>2. \E g \in [0 .. n -> X] : Computes(g, n, e, G)
    BY ONLY <1>1, <2>1, Iterate
  <2> QED BY <2>2 DEF X, e, Computes
<1>4. ASSUME NEW k \in 0 .. n
      PROVE  g[k] = IF k = 0 THEN <<>>
                    ELSE IF list[k] \in S THEN Append(g[k - 1], list[k]) ELSE g[k - 1]
  <2>1. CASE k = 0
    BY <1>3, <2>1
  <2>2. CASE k # 0
    <3>1. k \in 1 .. n /\ k - 1 \in 0 .. n
      BY <2>2, <1>1
    <3> QED BY <1>3, <2>2, <3>1
  <2> QED BY <2>1, <2>2
<1>5. IsKept(g)
  <2> HIDE DEF G, n
  <2> QED BY <1>3, <1>4
<1>6. IsKept(kept) /\ Keep(list, S) = kept[n]
  <2>1. IsKept(kept)
    <3> HIDE DEF IsKept
    <3> QED BY <1>5
  <2>2. Keep(list, S) = kept[n]
    BY DEF Keep
  <2> QED BY <2>1, <2>2
<1>7. /\ kept[0] = <<>>
      /\ \A k \in 1 .. n :
           kept[k] = IF list[k] \in S THEN Append(kept[k - 1], list[k]) ELSE kept[k - 1]
  <2> HIDE DEF G, n, kept
  <2>1. kept = [k \in 0 .. n |->
                  IF k = 0 THEN <<>>
                  ELSE IF list[k] \in S THEN Append(kept[k - 1], list[k]) ELSE kept[k - 1]]
    BY Zenon, <1>6
  <2>2. \A k \in 0 .. n : kept[k] =
          IF k = 0 THEN <<>>
          ELSE IF list[k] \in S THEN Append(kept[k - 1], list[k]) ELSE kept[k - 1]
    BY ONLY Zenon, <2>1
  <2>3. 0 \in 0 .. n /\ \A k \in 1 .. n : k \in 0 .. n /\ k # 0
    BY ONLY <1>1
  <2> QED BY ONLY <2>2, <2>3
<1>8. Keeps(kept, list, S)
  BY <1>6, <1>7 DEF Keeps
<1> QED BY <1>8

\* Keep gives what a list without duplicates has in S, when that is one node at
\* most.
LEMMA KeptNone ==
  ASSUME NEW T, NEW list \in Seq(T), NEW S, \A x \in ToSet(list) : x \notin S
  PROVE  Keep(list, S) = <<>>
<1> DEFINE n == Len(list)
<1>0. PICK f : Keeps(f, list, S)
  BY KeepSteps
<1>1. /\ f[0] = <<>> /\ Keep(list, S) = f[n]
      /\ \A k \in 1 .. n : f[k] = IF list[k] \in S THEN Append(f[k - 1], list[k]) ELSE f[k - 1]
  BY <1>0 DEF Keeps
<1>2. n \in Nat /\ \A k \in 1 .. n : list[k] \notin S
  BY DEF ToSet
<1> HIDE DEF n
<1> DEFINE good == {k \in 0 .. n : f[k] = <<>>}
<1>3. 0 \in good
  BY ONLY <1>1, <1>2
<1>4. ASSUME NEW k \in 1 .. n, k - 1 \in good PROVE k \in good
  BY ONLY <1>1, <1>2, <1>4
<1> HIDE DEF good
<1>5. \A k \in 0 .. n : k \in good
  BY ONLY <1>2, <1>3, <1>4, UpTo
<1>6. n \in 0 .. n
  BY ONLY <1>2
<1> QED BY ONLY <1>1, <1>5, <1>6 DEF good

LEMMA KeptOne ==
  ASSUME NEW T, NEW list \in Seq(T), Distinct(list), NEW S, NEW x \in ToSet(list), x \in S,
         \A y \in ToSet(list) : y \in S => y = x
  PROVE  Keep(list, S) = <<x>>
<1> DEFINE n == Len(list)
<1>0. PICK f : Keeps(f, list, S)
  BY KeepSteps
<1>1. /\ f[0] = <<>> /\ Keep(list, S) = f[n]
      /\ \A k \in 1 .. n : f[k] = IF list[k] \in S THEN Append(f[k - 1], list[k]) ELSE f[k - 1]
  BY <1>0 DEF Keeps
<1>2. n \in Nat /\ DOMAIN list = 1 .. n
  OBVIOUS
<1>3. PICK p \in 1 .. n : list[p] = x
  BY <1>2 DEF ToSet
<1>4. \A k \in 1 .. n : list[k] \in S <=> k = p
  BY <1>2, <1>3 DEF ToSet, Distinct
<1> HIDE DEF n
<1> DEFINE e == <<>>
           one == <<x>>
           good == {k \in 0 .. n : f[k] = IF k < p THEN e ELSE one}
<1>5. Append(e, x) = one
  OBVIOUS
<1>6. f[0] = e
  BY <1>1
<1> HIDE DEF e, one
<1>7. 0 \in good
  BY ONLY <1>2, <1>3, <1>6
<1>8. ASSUME NEW k \in 1 .. n, k - 1 \in good PROVE k \in good
  <2>1. f[k - 1] = (IF k - 1 < p THEN e ELSE one) /\ k \in 0 .. n
    BY ONLY <1>2, <1>8
  <2>2. f[k] = IF k = p THEN Append(f[k - 1], list[k]) ELSE f[k - 1]
    BY ONLY <1>1, <1>4, k \in 1 .. n
  <2>3. CASE k = p
    <3>1. k - 1 < p /\ ~ (k < p)
      BY ONLY <1>2, <2>3, k \in 1 .. n
    <3> QED BY ONLY <1>3, <1>5, <2>1, <2>2, <2>3, <3>1
  <2>4. CASE k # p
    <3>1. k - 1 < p <=> k < p
      BY ONLY <1>2, <1>3, <2>4, k \in 1 .. n
    <3> QED BY ONLY <2>1, <2>2, <2>4, <3>1
  <2> QED BY ONLY <2>3, <2>4
<1> HIDE DEF good
<1>9. \A k \in 0 .. n : k \in good
  BY ONLY <1>2, <1>7, <1>8, UpTo
<1>10. n \in 0 .. n /\ ~ (n < p)
  BY ONLY <1>2, <1>3
<1> QED BY ONLY <1>1, <1>9, <1>10 DEF good, one

\* A receiver's queue takes an event, or is full and refuses it.
LEMMA PutNone ==
  ASSUME NEW T, NEW q \in Seq(T), Len(q) <= InSize PROVE PutAll(q, <<>>) = q
<1> DEFINE none == <<>>
           m == Min({InSize - Len(q), Len(none)})
<1>1. InSize - Len(q) \in Nat /\ Len(none) = 0
  BY EventHubAssumption
<1>2. PutAll(q, none) = q \o SubSeq(none, 1, m)
  BY DEF PutAll
<1>3. m = 0
  <2> HIDE DEF none
  <2> QED BY <1>1 DEF Min
<1>4. SubSeq(none, 1, 0) = <<>>
  OBVIOUS
<1>5. q \o <<>> = q
  BY ConcatEmptySeq
<1> HIDE DEF m
<1>6. PutAll(q, none) = q
  BY ONLY <1>2, <1>3, <1>4, <1>5
<1> QED BY <1>6

LEMMA PutOne ==
  ASSUME NEW T, NEW q \in Seq(T), Len(q) <= InSize, NEW e \in T
  PROVE  PutAll(q, <<e>>) = IF Len(q) < InSize THEN q \o <<e>> ELSE q
<1> DEFINE one == <<e>>
           m == Min({InSize - Len(q), Len(one)})
<1>0. Len(one) = 1
  OBVIOUS
<1>1. InSize \in Nat /\ Len(q) \in Nat
  BY EventHubAssumption
<1>2. PutAll(q, one) = q \o SubSeq(one, 1, m)
  BY DEF PutAll
<1>3. CASE Len(q) < InSize
  <2>1. InSize - Len(q) \in Nat /\ InSize - Len(q) >= 1
    BY <1>1, <1>3
  <2>2. m = 1
    BY <1>0, <2>1 DEF Min
  <2>3. SubSeq(one, 1, 1) = one
    <3>1. one \in Seq(T)
      OBVIOUS
    <3> HIDE DEF one
    <3> QED BY ONLY <1>0, <3>1, SubSeqFull
  <2> QED BY <1>2, <1>3, <2>2, <2>3
<1>4. CASE ~ (Len(q) < InSize)
  <2>1. InSize - Len(q) = 0
    BY <1>1, <1>4
  <2>2. m = 0
    BY <1>0, <2>1 DEF Min
  <2>3. SubSeq(one, 1, 0) = <<>>
    OBVIOUS
  <2> QED BY <1>2, <1>4, <2>2, <2>3, ConcatEmptySeq
<1> QED BY <1>3, <1>4

\* Without the last element.
LEMMA RemoveLast ==
  ASSUME NEW T, NEW q \in Seq(T), NEW e \in T
  PROVE  Len(q) + 1 \in DOMAIN (q \o <<e>>) /\ q = RemoveAt(q \o <<e>>, Len(q) + 1)
<1> DEFINE n == Len(q)
           i == n + 1
           one == <<e>>
           c == q \o one
           r == RemoveAt(c, i)
<1>0. n \in Nat /\ one \in Seq(T) /\ Len(one) = 1
  OBVIOUS
<1> HIDE DEF one
<1>1. /\ c \in Seq(T) /\ Len(c) = n + Len(one)
      /\ \A k \in 1 .. n + Len(one) : c[k] = IF k <= n THEN q[k] ELSE one[k - n]
  BY <1>0, ConcatProperties
<1> HIDE DEF c
<1>2. Len(c) = n + 1 /\ DOMAIN c = 1 .. n + 1 /\ \A k \in 1 .. n : c[k] = q[k]
  BY <1>0, <1>1
<1>3. i \in DOMAIN c
  BY <1>0, <1>2
<1> HIDE DEF n
<1>4. /\ r \in Seq(T) /\ Len(r) = Len(c) - 1
      /\ \A j \in 1 .. Len(c) - 1 : r[j] = c[IF j < i THEN j ELSE j + 1]
  <2> HIDE DEF i
  <2> QED BY ONLY <1>1, <1>3, RemovedAt
<1> HIDE DEF r
<1>5. Len(r) = n /\ \A j \in 1 .. n : r[j] = q[j]
  <2>0. n \in Nat /\ Len(c) = n + 1
    BY <1>0, <1>2
  <2>1. Len(c) - 1 = n /\ \A j \in 1 .. n : j < i
    BY ONLY <2>0
  <2> HIDE DEF i
  <2> QED BY ONLY <1>2, <1>4, <2>1
<1>6. q = r
  BY ONLY <1>4, <1>5, q \in Seq(T), SeqEqual DEF n
<1> QED BY <1>3, <1>6 DEF r, c, i, n, one


-----------------------------------------------------------------------------
(* What is queued and listed *)

SenderRecs(S, heap) ==
  {[handle |-> heap[n].handle, send |-> heap[n].sendIdentity] : n \in S}
ListenRecs(S, heap) ==
  {[recv |-> heap[n].recvIdentity, send |-> heap[n].sendIdentity, msgId |-> heap[n].msgId] :
     n \in S}

(***************************************************************************)
(* What the refinement needs besides HubInv: the node of a request is of   *)
(* the kind the request says; senderList has one node for a handle, and    *)
(* receiverList one for a receiver and a sender, which has a queue; the    *)
(* receivers' queues keep to their size.                                   *)
(***************************************************************************)
SendersListed(S, heap) ==
  /\ \A n \in S : heap[n] \in SenderNode
  /\ \A n, m \in S : heap[n].handle = heap[m].handle => n = m
ReceiversListed(S, heap) ==
  /\ \A n \in S : heap[n] \in ReceiverNode /\ heap[n].sendIdentity \notin Queueless
  /\ \A n, m \in S : /\ heap[n].recvIdentity = heap[m].recvIdentity
                     /\ heap[n].sendIdentity = heap[m].sendIdentity
                     => n = m
Inboxes == inbox \in [Receivers -> Seq(EventMsgs)] /\ \A r \in Receivers : Len(inbox[r]) <= InSize
Filled ==
  /\ AllServed(Requests, node) /\ Inboxes
  /\ SendersListed(ToSet(senderList), node) /\ ReceiversListed(ToSet(receiverList), node)

LEMMA RecordState ==
  ASSUME NEW S, NEW L, NEW heap, NEW d \in [Receivers -> Seq(EventMsgs)],
         SendersListed(S, heap), ReceiversListed(L, heap)
  PROVE  [sender |-> SenderRecs(S, heap), listener |-> ListenRecs(L, heap), due |-> d] \in States
<1> DEFINE A == SenderRecs(S, heap)
           B == ListenRecs(L, heap)
<1>1. A \in SUBSET Sends
  BY DEF SenderRecs, SendersListed, Sends, SenderNode
<1>2. SoleSenders(A)
  BY DEF SenderRecs, SendersListed, SoleSenders
<1>3. B \in SUBSET Listens
  BY DEF ListenRecs, ReceiversListed, Listens, ReceiverNode
<1>4. SoleListeners(B)
  BY DEF ListenRecs, ReceiversListed, SoleListeners
<1> HIDE DEF A, B
<1>5. [sender |-> A, listener |-> B, due |-> d] \in States
  BY <1>1, <1>2, <1>3, <1>4 DEF States, Records
<1> QED BY <1>5 DEF A, B

LEMMA NowIs ==
  /\ Now = [sender |-> SenderRecs(ToSet(senderList), node),
            listener |-> ListenRecs(ToSet(receiverList), node), due |-> inbox]
  /\ Now' = [sender |-> SenderRecs(ToSet(senderList'), node'),
             listener |-> ListenRecs(ToSet(receiverList'), node'), due |-> inbox']
BY Zenon DEF Now, SenderRecs, ListenRecs

LEMMA ThenIs == Then = Worked(Now, Requests, node) /\ Then' = Worked(Now', Requests', node')
BY DEF Then

LEMMA NowState == ASSUME HubInv, Filled PROVE Now \in States
BY NowIs, RecordState DEF Filled, Inboxes

\* Only the listed nodes matter.
LEMMA SameRecs ==
  ASSUME NEW S, NEW heap, NEW other, \A n \in S : other[n] = heap[n]
  PROVE  /\ SenderRecs(S, other) = SenderRecs(S, heap)
         /\ ListenRecs(S, other) = ListenRecs(S, heap)
         /\ SendersListed(S, heap) => SendersListed(S, other)
         /\ ReceiversListed(S, heap) => ReceiversListed(S, other)
<1>1. SenderRecs(S, other) = SenderRecs(S, heap)
  BY DEF SenderRecs
<1>2. ListenRecs(S, other) = ListenRecs(S, heap)
  BY DEF ListenRecs
<1>3. SendersListed(S, heap) => SendersListed(S, other)
  BY DEF SendersListed
<1>4. ReceiversListed(S, heap) => ReceiversListed(S, other)
  BY DEF ReceiversListed
<1> QED BY <1>1, <1>2, <1>3, <1>4

LEMMA InitFilled == HubInit => Filled /\ Abstract!Init
<1> SUFFICES ASSUME HubInit PROVE Filled /\ Abstract!Init
  OBVIOUS
<1>1. ToSet(senderList) = {} /\ ToSet(receiverList) = {}
  BY DEF HubInit, ToSet
<1>2. Requests = <<>>
  <2>1. <<>> \o <<>> = <<>>
    OBVIOUS
  <2> QED BY <2>1 DEF HubInit, Requests
<1>3. inbox = [r \in Receivers |-> <<>>]
  BY DEF HubInit
<1>4. Inboxes
  BY <1>3, EventHubAssumption DEF Inboxes
<1>5. Filled
  BY <1>1, <1>2, <1>4 DEF Filled, AllServed, SendersListed, ReceiversListed
<1>6. Now = [sender |-> {}, listener |-> {}, due |-> inbox]
  BY <1>1, NowIs DEF SenderRecs, ListenRecs
<1>7. Now \in States
  BY <1>5, InitHub, NowState
<1>8. Then = Now
  BY ONLY <1>2, <1>7, ThenIs, WorkedNone
<1>9. Abstract!Init
  BY <1>3, <1>6, <1>8 DEF Abstract!Init
<1> QED BY <1>5, <1>9


-----------------------------------------------------------------------------
(* The steps of the hub, and what they are to PubSub *)

\* A request that is accepted waits behind those before it.
LEMMA RequestsGrow ==
  ASSUME HubTyped, NEW r \in HubRequests, queue' = Append(queue, r), msg' = msg
  PROVE  Requests' = Append(Requests, r)
<1> DEFINE x == IF msg = NULL THEN <<>> ELSE <<msg>>
           one == <<r>>
<1>1. queue \in Seq(HubRequests) /\ x \in Seq(HubRequests) /\ one \in Seq(HubRequests)
  BY DEF HubTyped
<1>2. Requests = x \o queue /\ Requests' = x \o queue'
  BY DEF Requests
<1> HIDE DEF x
<1>3. Requests \in Seq(HubRequests)
  BY RequestPlaces
<1>4. queue' = queue \o one /\ Append(Requests, r) = Requests \o one
  BY <1>1, <1>3, AppendIsConcat
<1> HIDE DEF one
<1>5. (x \o queue) \o one = x \o (queue \o one)
  BY ONLY <1>1, ConcatAssociative
<1> QED BY ONLY <1>2, <1>4, <1>5

\* The node of a request is owned.
LEMMA RequestNodes ==
  ASSUME HubInv, NEW k \in DOMAIN Requests, Requests[k].msgId # "SEND_EVENT"
  PROVE  Requests[k].data \in Queued \cup Handled
<1> USE DEF HubInv
<1>0. Requests \in Seq(HubRequests)
  BY RequestPlaces
<1>1. Requests[k] \in HubRequests
  BY <1>0
<1>2. Requests[k].data \in Nodes
  BY <1>1 DEF HubRequests
<1>3. CASE msg = NULL
  BY <1>2, <1>3, RequestPlaces DEF Queued, Carries
<1>4. CASE msg # NULL
  <2>1. CASE k = 1
    BY <1>2, <1>4, <2>1, RequestPlaces DEF Handled, Carries
  <2>2. CASE k # 1
    <3>1. k - 1 \in DOMAIN queue /\ Requests[k] = queue[k - 1]
      BY <1>4, <2>2, RequestPlaces
    <3> QED BY <1>2, <3>1 DEF Queued, Carries
  <2> QED BY <2>1, <2>2
<1> QED BY <1>3, <1>4

\* A node that is allocated changes nothing of what the hub has.
LEMMA AllocatedNode ==
  ASSUME HubInv, Filled, NEW m \in Nodes, m \notin Owned, NEW contents,
         node' = [node EXCEPT ![m] = contents],
         UNCHANGED <<senderList, receiverList, inbox>>
  PROVE  /\ Now' = Now /\ AllServed(Requests, node')
         /\ Worked(Now, Requests, node') = Then
         /\ SendersListed(ToSet(senderList), node')
         /\ ReceiversListed(ToSet(receiverList), node')
<1> USE DEF HubInv
<1>0. Now \in States /\ Requests \in Seq(HubRequests) /\ AllServed(Requests, node)
  BY NowState, RequestPlaces DEF Filled
<1>1. /\ \A n \in ToSet(senderList) : n # m
      /\ \A n \in ToSet(receiverList) : n # m
      /\ \A n \in Queued \cup Handled : n # m
  BY DEF Complete
<1>2. \A n \in Nodes : n # m => node'[n] = node[n]
  BY DEF HubTyped
<1>3. /\ \A n \in ToSet(senderList) : n \in Nodes
      /\ \A n \in ToSet(receiverList) : n \in Nodes
      /\ \A n \in Queued \cup Handled : n \in Nodes
  BY DEF Complete, Owned
<1>4. /\ \A n \in ToSet(senderList) : node'[n] = node[n]
      /\ \A n \in ToSet(receiverList) : node'[n] = node[n]
      /\ \A n \in Queued \cup Handled : node'[n] = node[n]
  BY ONLY <1>1, <1>2, <1>3
<1>5. /\ SenderRecs(ToSet(senderList), node') = SenderRecs(ToSet(senderList), node)
      /\ SendersListed(ToSet(senderList), node')
  <2>1. \A n \in ToSet(senderList) : node'[n] = node[n]
    BY <1>4
  <2> QED BY ONLY <2>1, Filled, SameRecs DEF Filled
<1>6. /\ ListenRecs(ToSet(receiverList), node') = ListenRecs(ToSet(receiverList), node)
      /\ ReceiversListed(ToSet(receiverList), node')
  <2>1. \A n \in ToSet(receiverList) : node'[n] = node[n]
    BY <1>4
  <2> QED BY ONLY <2>1, Filled, SameRecs DEF Filled
<1>7. Now' = Now
  BY ONLY <1>5, <1>6, NowIs, UNCHANGED <<senderList, receiverList, inbox>>
<1>8. \A k \in DOMAIN Requests :
        Requests[k].msgId # "SEND_EVENT" => node'[Requests[k].data] = node[Requests[k].data]
  BY <1>4, RequestNodes
<1>9. AllServed(Requests, node') /\ Worked(Now, Requests, node') = Worked(Now, Requests, node)
  BY ONLY <1>0, <1>8, WorkedHeap
<1> QED BY <1>5, <1>6, <1>7, <1>9, ThenIs

\* A call that allocates a node takes effect when its request is accepted.
LEMMA SendNodeStep ==
  ASSUME HubInv, Filled, NEW id \in {"ADD_SENDER", "ADD_RECEIVER"},
         NEW contents \in SenderNode \cup ReceiverNode, SendNode(id, contents),
         id = "ADD_SENDER" => contents \in SenderNode,
         id = "ADD_RECEIVER" => contents \in ReceiverNode
  PROVE  /\ Filled'
         /\ \/ Then' = Then
            \/ \E r : /\ r.msgId = id /\ Served(r, node') /\ node'[r.data] = contents
                      /\ Then \in States /\ Then' = After(Then, r, node')
<1> USE DEF HubInv
<1> DEFINE m == used + 1
           r == [msgId |-> id, data |-> m]
<1>0. MaxNodes \in Nat /\ used \in 0 .. MaxNodes
  BY EventHubAssumption DEF HubTyped
<1>1. m \in Nodes /\ used' = m /\ m > used
  BY <1>0 DEF SendNode, Nodes
<1>2. m \notin Owned
  BY <1>0, <1>1 DEF Fresh, Owned
<1>3. /\ node' = [node EXCEPT ![m] = contents]
      /\ queue' = (IF Accepted THEN Append(queue, r) ELSE queue)
      /\ UNCHANGED <<msg, senderList, receiverList, inbox>>
  BY DEF SendNode, lists
<1>4. /\ r \in HubRequests /\ r.msgId = id /\ r.data = m /\ node'[m] = contents
  BY <1>1, <1>3 DEF HubRequests, HubTyped
<1>5. Served(r, node')
  BY <1>4 DEF Served
<1> HIDE DEF m, r
<1>6. /\ Now' = Now /\ AllServed(Requests, node') /\ Worked(Now, Requests, node') = Then
      /\ SendersListed(ToSet(senderList), node') /\ ReceiversListed(ToSet(receiverList), node')
  BY <1>1, <1>2, <1>3, AllocatedNode
<1>7. /\ SendersListed(ToSet(senderList), node)'
      /\ ReceiversListed(ToSet(receiverList), node)' /\ Inboxes'
  BY <1>3, <1>6 DEF Filled, Inboxes, EventMsgs
<1>8. Now \in States /\ Requests \in Seq(HubRequests)
  BY NowState, RequestPlaces
<1>9. CASE ~ Accepted
  <2>1. Requests' = Requests
    BY <1>3, <1>9 DEF Requests
  <2>2. Then' = Then
    BY ONLY <1>6, <2>1, ThenIs
  <2> QED BY <1>6, <1>7, <2>1, <2>2 DEF Filled
<1>10. CASE Accepted
  <2>1. Requests' = Append(Requests, r)
    BY <1>3, <1>4, <1>10, RequestsGrow
  <2>2. /\ AllServed(Append(Requests, r), node')
        /\ Worked(Now, Append(Requests, r), node') = After(Worked(Now, Requests, node'), r, node')
    BY ONLY <1>5, <1>6, <1>8, WorkedAppend
  <2>3. Then' = After(Then, r, node')
    BY ONLY <1>6, <2>1, <2>2, ThenIs
  <2>4. Then \in States
    BY ONLY <1>6, <1>8, WorkedState
  <2>5. Filled'
    BY <1>7, <2>1, <2>2 DEF Filled
  <2> QED BY <1>4, <1>5, <2>3, <2>4, <2>5
<1> QED BY <1>9, <1>10


LEMMA AddSenderStep ==
  ASSUME HubInv, Filled, NEW h \in Handles, NEW id \in Identities, EventHub_AddSender(h, id)
  PROVE  Filled' /\ [Abstract!Next]_Then
<1> DEFINE c == [handle |-> h, sendIdentity |-> id]
<1>1. c \in SenderNode /\ c.handle = h /\ c.sendIdentity = id
  BY DEF SenderNode
<1>2. SendNode("ADD_SENDER", c)
  BY DEF EventHub_AddSender
<1> HIDE DEF c
<1>3. /\ Filled'
      /\ \/ Then' = Then
         \/ \E r : /\ r.msgId = "ADD_SENDER" /\ Served(r, node') /\ node'[r.data] = c
                   /\ Then \in States /\ Then' = After(Then, r, node')
  BY <1>1, <1>2, SendNodeStep
<1>4. ASSUME NEW r, r.msgId = "ADD_SENDER", Served(r, node'), node'[r.data] = c,
             Then \in States, Then' = After(Then, r, node')
      PROVE  Abstract!AddSender(h, id)
  <2>1. After(Then, r, node')
          = Effect!Added(Then, node'[r.data].handle, node'[r.data].sendIdentity)
    BY ONLY <1>4, AfterAdded
  <2>2. Then' = Effect!Added(Then, h, id)
    BY ONLY <1>1, <1>4, <2>1
  <2>3. Effect!Added(Then, h, id) = Abstract!Added(Then, h, id)
    BY DEF Effect!Added, Abstract!Added
  <2> QED BY ONLY <2>2, <2>3 DEF Abstract!AddSender
<1>5. CASE Then' = Then
  BY <1>3, <1>5
<1>6. CASE Then' # Then
  <2>1. Abstract!AddSender(h, id)
    BY <1>3, <1>4, <1>6
  <2>2. Abstract!Next
    BY <2>1 DEF Abstract!Next
  <2> QED BY <1>3, <2>2
<1> QED BY <1>5, <1>6

LEMMA ListenStep ==
  ASSUME HubInv, Filled, NEW q \in Receivers, NEW id \in Identities, NEW m \in MsgIds,
         EventHub_ListenToEvent(q, id, m)
  PROVE  Filled' /\ [Abstract!Next]_Then
<1> DEFINE c == [recvIdentity |-> q, sendIdentity |-> id, msgId |-> m]
<1>1. c \in ReceiverNode /\ c.recvIdentity = q /\ c.sendIdentity = id /\ c.msgId = m
  BY DEF ReceiverNode
<1>2. SendNode("ADD_RECEIVER", c)
  BY DEF EventHub_ListenToEvent
<1> HIDE DEF c
<1>3. /\ Filled'
      /\ \/ Then' = Then
         \/ \E r : /\ r.msgId = "ADD_RECEIVER" /\ Served(r, node') /\ node'[r.data] = c
                   /\ Then \in States /\ Then' = After(Then, r, node')
  BY <1>1, <1>2, SendNodeStep
<1>4. ASSUME NEW r, r.msgId = "ADD_RECEIVER", Served(r, node'), node'[r.data] = c,
             Then \in States, Then' = After(Then, r, node')
      PROVE  Abstract!ListenToEvent(q, id, m)
  <2>1. After(Then, r, node')
          = Effect!Listened(Then, node'[r.data].recvIdentity, node'[r.data].sendIdentity,
                            node'[r.data].msgId)
    BY ONLY <1>4, AfterListened
  <2>2. Then' = Effect!Listened(Then, q, id, m)
    BY ONLY <1>1, <1>4, <2>1
  <2>3. Effect!Listened(Then, q, id, m) = Abstract!Listened(Then, q, id, m)
    BY DEF Effect!Listened, Abstract!Listened
  <2> QED BY ONLY <2>2, <2>3 DEF Abstract!ListenToEvent
<1>5. CASE Then' = Then
  BY <1>3, <1>5
<1>6. CASE Then' # Then
  <2>1. Abstract!ListenToEvent(q, id, m)
    BY <1>3, <1>4, <1>6
  <2>2. Abstract!Next
    BY <2>1 DEF Abstract!Next
  <2> QED BY <1>3, <2>2
<1> QED BY <1>5, <1>6

\* Steps that leave the lists and the nodes alone.
LEMMA ListsAlone ==
  ASSUME Filled, UNCHANGED <<node, senderList, receiverList>>, Inboxes',
         AllServed(Requests', node)
  PROVE  Filled'
<1>1. SendersListed(ToSet(senderList), node)' /\ ReceiversListed(ToSet(receiverList), node)'
  BY DEF Filled
<1>2. AllServed(Requests, node)'
  OBVIOUS
<1> QED BY <1>1, <1>2 DEF Filled

LEMMA SendEventStep ==
  ASSUME HubInv, Filled, NEW h \in Handles, EventHub_SendEvent(h)
  PROVE  Filled' /\ [Abstract!Next]_Then
<1> USE DEF HubInv
<1> DEFINE v == events + 1
           r == [msgId |-> "SEND_EVENT", data |-> h, msgValue |-> v]
<1>1. /\ queue' = (IF Accepted THEN Append(queue, r) ELSE queue)
      /\ UNCHANGED <<node, msg, senderList, receiverList, inbox>>
  BY DEF EventHub_SendEvent, lists
<1>2. v \in 1 .. MaxEvents
  BY EventHubAssumption DEF HubTyped, EventHub_SendEvent
<1>3. r \in HubRequests /\ r.msgId = "SEND_EVENT" /\ r.data = h /\ r.msgValue = v
  BY <1>2 DEF HubRequests
<1>4. Served(r, node)
  BY <1>3 DEF Served
<1> HIDE DEF r, v
<1>5. Now \in States /\ Requests \in Seq(HubRequests) /\ AllServed(Requests, node)
  BY NowState, RequestPlaces DEF Filled
<1>6. Inboxes'
  BY <1>1 DEF Filled, Inboxes, EventMsgs
<1>7. Now' = Now
  BY ONLY <1>1, NowIs
<1>8. CASE ~ Accepted
  <2>1. Requests' = Requests
    BY <1>1, <1>8 DEF Requests
  <2>2. Filled'
    BY <1>1, <1>5, <1>6, <2>1, ListsAlone
  <2> QED BY ONLY <1>1, <1>7, <2>1, <2>2, ThenIs
<1>9. CASE Accepted
  <2>1. Requests' = Append(Requests, r)
    BY <1>1, <1>3, <1>9, RequestsGrow
  <2>2. /\ AllServed(Append(Requests, r), node)
        /\ Worked(Now, Append(Requests, r), node) = After(Worked(Now, Requests, node), r, node)
    BY ONLY <1>4, <1>5, WorkedAppend
  <2>3. Filled'
    BY <1>1, <1>6, <2>1, <2>2, ListsAlone
  <2>4. Then' = After(Then, r, node)
    BY ONLY <1>1, <1>7, <2>1, <2>2, ThenIs
  <2>5. Then \in States
    BY ONLY <1>5, ThenIs, WorkedState
  <2>6. After(Then, r, node) = Effect!Sent(Then, r.data, r.msgValue)
    BY ONLY <1>3, <1>4, <2>5, AfterSent
  <2>7. Then' = Effect!Sent(Then, h, v)
    BY ONLY <1>3, <2>4, <2>6
  <2>8. Effect!Sent(Then, h, v) = Abstract!Sent(Then, h, v)
    BY Zenon DEF Effect!Sent, Abstract!Sent
  <2>9. Abstract!SendEvent(h, v)
    BY ONLY <2>7, <2>8 DEF Abstract!SendEvent
  <2>10. Abstract!Next
    BY <1>2, <2>9 DEF Abstract!Next
  <2> QED BY <2>3, <2>10
<1> QED BY <1>8, <1>9

\* The request the hub's task takes over is still the first of those to come.
LEMMA RecvStep == ASSUME HubInv, Filled, Recv PROVE Filled' /\ Then' = Then
<1> USE DEF HubInv
<1>1. /\ msg = NULL /\ queue # <<>> /\ msg' = Head(queue) /\ queue' = Tail(queue)
      /\ UNCHANGED <<node, senderList, receiverList, inbox>>
  BY DEF Recv, lists
<1>2. queue \in Seq(HubRequests)
  BY DEF HubTyped
<1>3. /\ Head(queue) \in HubRequests /\ Tail(queue) \in Seq(HubRequests)
      /\ Len(Tail(queue)) = Len(queue) - 1
      /\ \A i \in 1 .. Len(queue) - 1 : Tail(queue)[i] = queue[i + 1]
  BY <1>1, <1>2, HeadTailProperties
<1>4. Len(queue) \in Nat /\ Len(queue) > 0 /\ Head(queue) = queue[1]
  BY <1>1, <1>2
<1>5. <<Head(queue)>> \o Tail(queue) = queue
  <2> DEFINE t == Tail(queue)
             x == Head(queue)
             c == <<x>> \o t
  <2>1. x \in HubRequests /\ t \in Seq(HubRequests)
    BY <1>3
  <2> HIDE DEF t, x
  <2>2. /\ c \in Seq(HubRequests) /\ Len(c) = Len(t) + 1 /\ c[1] = x
        /\ \A j \in DOMAIN c : j # 1 => j - 1 \in DOMAIN t /\ c[j] = t[j - 1]
    BY ONLY <2>1, Behind
  <2> HIDE DEF c
  <2>3. Len(c) = Len(queue)
    BY <1>3, <1>4, <2>2 DEF t
  <2>4. ASSUME NEW j \in 1 .. Len(queue) PROVE c[j] = queue[j]
    <3>1. CASE j = 1
      BY <1>4, <2>2, <3>1 DEF x
    <3>2. CASE j # 1
      <4>1. j - 1 \in 1 .. Len(queue) - 1 /\ (j - 1) + 1 = j /\ j \in DOMAIN c
        BY ONLY <1>4, <2>2, <2>3, <3>2, j \in 1 .. Len(queue)
      <4>2. c[j] = t[j - 1]
        BY ONLY <2>2, <3>2, <4>1
      <4>3. t[j - 1] = queue[j]
        BY ONLY <1>3, <4>1 DEF t
      <4> QED BY ONLY <4>2, <4>3
    <3> QED BY ONLY <3>1, <3>2
  <2>5. c = queue
    BY ONLY <1>2, <2>2, <2>3, <2>4, SeqEqual
  <2> QED BY <2>5 DEF c, t, x
<1>6. msg' # NULL
  BY <1>1, <1>3, EventHubAssumption
<1>7. Requests' = <<Head(queue)>> \o Tail(queue)
  BY <1>1, <1>6 DEF Requests
<1>8. Requests = queue
  BY <1>1, RequestPlaces
<1>9. Requests' = Requests /\ Now' = Now
  BY ONLY <1>1, <1>5, <1>7, <1>8, NowIs
<1>10. Then' = Then
  BY ONLY <1>1, <1>9, ThenIs
<1>11. Inboxes' /\ AllServed(Requests', node)
  BY <1>1, <1>9 DEF Filled, Inboxes, EventMsgs
<1>12. Filled'
  BY <1>1, <1>11, ListsAlone
<1> QED BY <1>10, <1>12


\* A state in which an event was taken is that of PubSub!Receive, one in which
\* events are missed that of PubSub!Miss.
LEMMA ReceiveState ==
  ASSUME NEW r \in Receivers, Then \in States, Then' \in States, Taken(Then, Then', r)
  PROVE  Abstract!Next
<1> DEFINE s == Then
           t == Then'
           d == [s.due EXCEPT ![r] = Tail(s.due[r])]
<1>1. s.due \in [Receivers -> Seq(EventMsgs)] /\ t.due \in [Receivers -> Seq(EventMsgs)]
  BY DEF States, Records
<1>2. t.due = d
  BY <1>1 DEF Taken
<1>3. t = [s EXCEPT !.due = t.due]
  BY DEF Taken, States, Records
<1>4. t = [s EXCEPT !.due = d]
  BY ONLY <1>2, <1>3
<1>5. [s EXCEPT !.due = d] = [s EXCEPT !.due[r] = Tail(@)]
  BY DEF States, Records
<1>6. Abstract!Receive(r)
  BY <1>4, <1>5 DEF Abstract!Receive, Taken
<1> QED BY <1>6 DEF Abstract!Next

LEMMA MissState ==
  ASSUME Then \in States, Then' \in States, Shorter(Then, Then') PROVE Abstract!Next
<1>1. Then' = [Then EXCEPT !.due = Then'.due]
  BY DEF Shorter, States, Records
<1>2. Abstract!Miss
  BY <1>1 DEF Shorter, Abstract!Miss, Abstract!RemoveAt, RemoveAt
<1> QED BY <1>2 DEF Abstract!Next

\* A receiver takes an event: the first that is due, also once the requests have
\* been handled.
LEMMA ReceiveStep ==
  ASSUME HubInv, Filled, NEW r \in Receivers, Receive(r) PROVE Filled' /\ Abstract!Next
<1> USE DEF HubInv
<1>1. /\ inbox[r] # <<>> /\ inbox' = [inbox EXCEPT ![r] = Tail(inbox[r])]
      /\ UNCHANGED <<queue, node, msg, senderList, receiverList>>
  BY DEF Receive, lists
<1>2. Inboxes
  BY DEF Filled
<1>3. Tail(inbox[r]) \in Seq(EventMsgs) /\ Len(Tail(inbox[r])) <= InSize
  <2>1. inbox[r] \in Seq(EventMsgs) /\ Len(inbox[r]) <= InSize /\ InSize \in Nat
    BY <1>2, EventHubAssumption DEF Inboxes
  <2>2. Tail(inbox[r]) \in Seq(EventMsgs) /\ Len(Tail(inbox[r])) = Len(inbox[r]) - 1
    BY <1>1, <2>1, HeadTailProperties
  <2> QED BY <2>1, <2>2
<1>4. inbox' \in [Receivers -> Seq(EventMsgs)] /\ inbox'[r] = Tail(inbox[r])
  BY <1>1, <1>2, <1>3 DEF Inboxes
<1>5. \A q \in Receivers : q # r => inbox'[q] = inbox[q]
  BY <1>1, <1>2 DEF Inboxes
<1>6. Inboxes'
  <2>1. \A q \in Receivers : Len(inbox'[q]) <= InSize
    BY <1>2, <1>3, <1>4, <1>5 DEF Inboxes
  <2> QED BY <1>4, <2>1 DEF Inboxes, EventMsgs
<1>7. Requests' = Requests
  BY <1>1 DEF Requests
<1>8. AllServed(Requests, node) /\ Requests \in Seq(HubRequests) /\ Now \in States
  BY NowState, RequestPlaces DEF Filled
<1>9. Filled'
  BY <1>1, <1>6, <1>7, <1>8, ListsAlone
<1>10. /\ Now = [sender |-> SenderRecs(ToSet(senderList), node),
                 listener |-> ListenRecs(ToSet(receiverList), node), due |-> inbox]
       /\ Now' = [sender |-> SenderRecs(ToSet(senderList), node),
                  listener |-> ListenRecs(ToSet(receiverList), node), due |-> inbox']
  BY ONLY <1>1, NowIs
<1>11. Now' \in States
  BY <1>4, <1>10, RecordState DEF Filled
<1>12. Taken(Now, Now', r)
  <2>1. /\ Now'.sender = Now.sender /\ Now'.listener = Now.listener
        /\ Now.due = inbox /\ Now'.due = inbox'
    BY ONLY <1>10
  <2> QED BY ONLY <1>1, <1>4, <1>5, <2>1 DEF Taken
<1> DEFINE t == Now'
<1>13. t \in States /\ Taken(Now, t, r) /\ Then' = Worked(t, Requests, node)
  BY ONLY <1>1, <1>7, <1>11, <1>12, ThenIs
<1> HIDE DEF t
<1>14. Then \in States
  BY ONLY <1>8, ThenIs, WorkedState
<1>15. Then' \in States
  BY ONLY <1>8, <1>13, WorkedState
<1>16. Taken(Then, Then', r)
  <2>1. Taken(Worked(Now, Requests, node), Worked(t, Requests, node), r)
    BY ONLY <1>8, <1>13, WorkedTaken, r \in Receivers
  <2> QED BY ONLY <1>13, <2>1, ThenIs
<1>17. Abstract!Next
  BY <1>14, <1>15, <1>16, ReceiveState
<1> QED BY <1>9, <1>17

\* The request that is handled is the first to take effect.
LEMMA FirstHandled ==
  ASSUME HubInv, Filled, msg # NULL
  PROVE  /\ Now \in States /\ Served(msg, node) /\ After(Now, msg, node) \in States
         /\ queue \in Seq(HubRequests) /\ AllServed(queue, node)
         /\ Then = Worked(After(Now, msg, node), queue, node)
<1> USE DEF HubInv
<1>1. Now \in States /\ queue \in Seq(HubRequests) /\ AllServed(Requests, node)
  BY NowState DEF Filled, HubTyped
<1>2. /\ Requests = <<msg>> \o queue /\ 1 \in DOMAIN Requests /\ Requests[1] = msg
      /\ \A j \in DOMAIN queue : j + 1 \in DOMAIN Requests /\ Requests[j + 1] = queue[j]
  BY RequestPlaces
<1>3. Served(msg, node)
  BY ONLY <1>1, <1>2 DEF AllServed
<1>4. AllServed(queue, node)
  BY ONLY <1>1, <1>2 DEF AllServed
<1>5. After(Now, msg, node) \in States
  BY ONLY <1>1, <1>3, AfterState
<1>6. Worked(Now, <<msg>> \o queue, node) = Worked(After(Now, msg, node), queue, node)
  BY ONLY <1>1, <1>3, <1>4, WorkedFirst
<1>7. Then = Worked(After(Now, msg, node), queue, node)
  BY ONLY <1>2, <1>6, ThenIs
<1> QED BY ONLY <1>1, <1>3, <1>4, <1>5, <1>7

\* The task gets ready for the next request.
LEMMA NoneHandled ==
  ASSUME HubTyped, msg' = NULL, queue' = queue PROVE Requests' = queue
<1>1. queue \in Seq(HubRequests)
  BY DEF HubTyped
<1>2. Requests' = <<>> \o queue
  BY DEF Requests
<1> QED BY <1>1, <1>2, ConcatEmptySeq

\* An update does what the request does to the abstract state, and frees no node
\* that a request has.
LEMMA UpdateStep ==
  ASSUME HubInv, Filled, msg # NULL, msg' = NULL, queue' = queue,
         Now' = After(Now, msg, node), \A n \in Queued : node'[n] = node[n]
  PROVE  Then' = Then /\ AllServed(Requests', node')
<1> USE DEF HubInv
<1> DEFINE s == After(Now, msg, node)
<1>1. /\ s \in States /\ queue \in Seq(HubRequests) /\ AllServed(queue, node)
      /\ Then = Worked(s, queue, node)
  BY FirstHandled
<1>2. Requests' = queue
  BY NoneHandled
<1> HIDE DEF s
<1>3. \A k \in DOMAIN queue :
        queue[k].msgId # "SEND_EVENT" => node'[queue[k].data] = node[queue[k].data]
  <2> SUFFICES ASSUME NEW k \in DOMAIN queue, queue[k].msgId # "SEND_EVENT"
               PROVE  queue[k].data \in Queued
    OBVIOUS
  <2>1. queue[k] \in HubRequests
    BY <1>1
  <2>2. queue[k].data \in Nodes
    BY <2>1 DEF HubRequests
  <2> QED BY <2>2 DEF Queued, Carries
<1>4. AllServed(queue, node') /\ Worked(s, queue, node') = Worked(s, queue, node)
  BY ONLY <1>1, <1>3, WorkedHeap
<1>5. Then' = Worked(s, queue, node')
  BY <1>2, ThenIs DEF s
<1> QED BY ONLY <1>1, <1>2, <1>4, <1>5


\* A list that has one matching node at most loses all that match.
LEMMA OldAll ==
  ASSUME NEW list \in Seq(Nodes), NEW same \in SUBSET DOMAIN list, \A i, j \in same : i = j
  PROVE  Old(list, same) = {list[i] : i \in same}
<1>1. CASE same = {}
  BY <1>1 DEF Old
<1>2. CASE same # {}
  <2>1. same \in SUBSET Nat
    OBVIOUS
  <2>2. Min(same) \in same
    BY <1>2, <2>1, MinIn
  <2>3. Old(list, same) = {list[Min(same)]}
    BY <1>2 DEF Old
  <2> QED BY ONLY <2>2, <2>3, \A i, j \in same : i = j
<1> QED BY <1>1, <1>2

\* What an update frees, and leaves in the list.
LEMMA UpdatedNodes ==
  ASSUME NEW list \in Seq(Nodes), Distinct(list), NEW n \in Nodes, n \notin ToSet(list),
         NEW same \in SUBSET DOMAIN list, \A i, j \in same : i = j
  PROVE  /\ Update(list, n, same).freed
              = {list[i] : i \in same}
                \cup (IF node[n].sendIdentity \in Queueless THEN {n} ELSE {})
         /\ ToSet(Update(list, n, same).list)
              = (ToSet(list) \cup {n}) \ Update(list, n, same).freed
<1>1. Update(list, n, same).freed
        = Old(list, same) \cup (IF node[n].sendIdentity \in Queueless THEN {n} ELSE {})
  BY DEF Update
<1>2. Old(list, same) = {list[i] : i \in same}
  BY OldAll
<1>3. ToSet(Update(list, n, same).list) = (ToSet(list) \cup {n}) \ Update(list, n, same).freed
  BY Updated
<1> QED BY ONLY <1>1, <1>2, <1>3

LEMMA UpdateSenderStep ==
  ASSUME HubInv, Filled, EventHub_UpdateSenderNode PROVE Filled' /\ Then' = Then
<1> USE DEF HubInv
<1> DEFINE n == msg.data
           c == node[n]
           L == ToSet(senderList)
           R == ToSet(receiverList)
           same == SameSender(n)
           u == Update(senderList, n, same)
           freed == u.freed
           new == ToSet(senderList')
           undo == c.sendIdentity \in Queueless
           old == {x \in L : node[x].handle = c.handle}
<1>1. /\ msg # NULL /\ msg.msgId = "ADD_SENDER" /\ msg' = NULL
      /\ senderList' = u.list /\ FreeNodes(freed)
      /\ UNCHANGED <<queue, receiverList, inbox>>
  BY DEF EventHub_UpdateSenderNode
<1>2. n \in Nodes /\ n \notin Queued /\ n \notin L /\ n \notin R
  BY <1>1, HandledNode
<1>3. /\ Now \in States /\ Served(msg, node) /\ After(Now, msg, node) \in States
  BY <1>1, FirstHandled
<1>4. c \in SenderNode
  BY <1>1, <1>3 DEF Served
<1>5. senderList \in Seq(Nodes) /\ Distinct(senderList) /\ SendersListed(L, node)
  BY DEF HubTyped, Once, Filled
<1>6. L \cap R = {} /\ Queued \cap L = {} /\ L \subseteq Nodes /\ R \subseteq Nodes /\ Queued \subseteq Nodes
  BY DEF Apart, Complete, Owned
<1>7. same = {i \in DOMAIN senderList : node[senderList[i]].handle = c.handle}
  BY DEF SameSender
<1>8. \A i, j \in same : i = j
  BY <1>5, <1>7 DEF SendersListed, Distinct, ToSet
<1>9. {senderList[i] : i \in same} = old
  BY <1>7 DEF ToSet
<1> HIDE DEF same
<1>10. freed = old \cup (IF undo THEN {n} ELSE {}) /\ new = (L \cup {n}) \ freed
  <2>1. same \in SUBSET DOMAIN senderList
    BY <1>7
  <2>2. /\ u.freed = {senderList[i] : i \in same} \cup (IF undo THEN {n} ELSE {})
        /\ ToSet(u.list) = (L \cup {n}) \ u.freed
    BY <1>2, <1>5, <1>8, <2>1, UpdatedNodes
  <2> HIDE DEF u
  <2> QED BY <1>1, <1>9, <2>2
<1> HIDE DEF u, freed
<1>11. \A x \in Nodes : x \notin freed => node'[x] = node[x]
  BY <1>1 DEF FreeNodes
<1> HIDE DEF L, R, new, n, c
<1>12. new \subseteq Nodes /\ (\A x \in new : x \notin freed) /\ (\A x \in R \cup Queued : x \notin freed)
  BY ONLY <1>2, <1>6, <1>10
<1>13. /\ \A x \in new : node'[x] = node[x]
       /\ \A x \in R : node'[x] = node[x]
       /\ \A x \in Queued : node'[x] = node[x]
  BY ONLY <1>6, <1>11, <1>12
<1>14. new = {x \in L : node[x].handle # c.handle} \cup (IF undo THEN {} ELSE {n})
  BY ONLY <1>2, <1>10
<1> HIDE DEF undo
<1>15. SendersListed(new, node)
  <2>1. (undo => \A x \in new : x \in L /\ node[x].handle # c.handle)
        /\ (~ undo => \A x \in new : x = n \/ (x \in L /\ node[x].handle # c.handle))
    BY ONLY <1>14
  <2>2. node[n] = c
    BY DEF c
  <2> QED BY ONLY <1>4, <1>5, <2>1, <2>2 DEF SendersListed
<1>16. SendersListed(new, node') /\ SenderRecs(new, node') = SenderRecs(new, node)
  <2>1. \A x \in new : node'[x] = node[x]
    BY <1>13
  <2> QED BY ONLY <1>15, <2>1, SameRecs
<1>17. ReceiversListed(R, node') /\ ListenRecs(R, node') = ListenRecs(R, node)
  <2>1. \A x \in R : node'[x] = node[x]
    BY <1>13
  <2>2. ReceiversListed(R, node)
    BY DEF Filled, R
  <2> QED BY ONLY <2>1, <2>2, SameRecs
<1>18. SenderRecs(new, node) = AddedTo(SenderRecs(L, node), c)
  <2> DEFINE rec(x) == [handle |-> node[x].handle, send |-> node[x].sendIdentity]
             e == [handle |-> c.handle, send |-> c.sendIdentity]
  <2>1. SenderRecs(new, node) = {rec(x) : x \in new} /\ SenderRecs(L, node) = {rec(x) : x \in L}
    BY DEF SenderRecs
  <2>2. AddedTo(SenderRecs(L, node), c)
          = {k \in SenderRecs(L, node) : k.handle # c.handle} \cup (IF undo THEN {} ELSE {e})
    BY DEF AddedTo, undo
  <2>3. rec(n) = e /\ \A x : rec(x).handle = node[x].handle
    BY DEF c
  <2> HIDE DEF rec, e
  <2>4. {k \in {rec(x) : x \in L} : k.handle # c.handle}
          = {rec(x) : x \in {y \in L : node[y].handle # c.handle}}
    BY ONLY <2>3
  <2>5. {rec(x) : x \in new}
          = {rec(x) : x \in {y \in L : node[y].handle # c.handle}} \cup (IF undo THEN {} ELSE {e})
    BY ONLY <1>14, <2>3
  <2> QED BY ONLY <2>1, <2>2, <2>4, <2>5
<1> DEFINE t == Now'
           s == After(Now, msg, node)
<1>19. t = [sender |-> SenderRecs(new, node), listener |-> ListenRecs(R, node), due |-> inbox]
  BY ONLY <1>1, <1>16, <1>17, NowIs DEF new, R
<1>20. t \in States
  <2>1. ReceiversListed(R, node) /\ inbox \in [Receivers -> Seq(EventMsgs)]
    BY DEF Filled, R, Inboxes
  <2> QED BY ONLY <1>15, <1>19, <2>1, RecordState
<1>21. /\ s \in States /\ s.sender = AddedTo(Now.sender, c)
       /\ s.listener = Now.listener /\ s.due = Now.due
  BY <1>1, <1>3, AfterAdded DEF c, n
<1>22. /\ Now.sender = SenderRecs(L, node) /\ Now.listener = ListenRecs(R, node)
       /\ Now.due = inbox
  BY NowIs DEF L, R
<1>23. t = s
  <2>1. t.sender = s.sender /\ t.listener = s.listener /\ t.due = s.due
    BY ONLY <1>18, <1>19, <1>21, <1>22
  <2> HIDE DEF t, s
  <2> QED BY ONLY <1>20, <1>21, <2>1, StateEqual
<1>24. Then' = Then /\ AllServed(Requests', node')
  BY <1>1, <1>13, <1>23, UpdateStep
<1>25. Filled'
  <2>1. Inboxes'
    BY <1>1 DEF Filled, Inboxes, EventMsgs
  <2>2. SendersListed(ToSet(senderList), node)' /\ ReceiversListed(ToSet(receiverList), node)'
    BY <1>1, <1>16, <1>17 DEF new, R
  <2> QED BY <1>24, <2>1, <2>2 DEF Filled
<1> QED BY <1>24, <1>25


LEMMA UpdateReceiverStep ==
  ASSUME HubInv, Filled, EventHub_UpdateReceiverNode PROVE Filled' /\ Then' = Then
<1> USE DEF HubInv
<1> DEFINE n == msg.data
           c == node[n]
           L == ToSet(senderList)
           R == ToSet(receiverList)
           same == SameReceiver(n)
           u == Update(receiverList, n, same)
           freed == u.freed
           new == ToSet(receiverList')
           undo == c.sendIdentity \in Queueless
           Match(x) == /\ node[x].recvIdentity = c.recvIdentity
                       /\ node[x].sendIdentity = c.sendIdentity
           old == {x \in R : Match(x)}
<1>1. /\ msg # NULL /\ msg.msgId = "ADD_RECEIVER" /\ msg' = NULL
      /\ receiverList' = u.list /\ FreeNodes(freed)
      /\ UNCHANGED <<queue, senderList, inbox>>
  BY DEF EventHub_UpdateReceiverNode
<1>2. n \in Nodes /\ n \notin Queued /\ n \notin L /\ n \notin R
  BY <1>1, HandledNode
<1>3. /\ Now \in States /\ Served(msg, node) /\ After(Now, msg, node) \in States
  BY <1>1, FirstHandled
<1>4. c \in ReceiverNode
  BY <1>1, <1>3 DEF Served
<1>5. receiverList \in Seq(Nodes) /\ Distinct(receiverList) /\ ReceiversListed(R, node)
  BY DEF HubTyped, Once, Filled
<1>6. /\ L \cap R = {} /\ Queued \cap R = {}
      /\ L \subseteq Nodes /\ R \subseteq Nodes /\ Queued \subseteq Nodes
  BY DEF Apart, Complete, Owned
<1>7. same = {i \in DOMAIN receiverList : Match(receiverList[i])}
  BY DEF SameReceiver
<1>8. \A i, j \in same : i = j
  BY <1>5, <1>7 DEF ReceiversListed, Distinct, ToSet
<1>9. {receiverList[i] : i \in same} = old
  BY <1>7 DEF ToSet
<1> HIDE DEF same
<1>10. freed = old \cup (IF undo THEN {n} ELSE {}) /\ new = (R \cup {n}) \ freed
  <2>1. same \in SUBSET DOMAIN receiverList
    BY <1>7
  <2>2. /\ u.freed = {receiverList[i] : i \in same} \cup (IF undo THEN {n} ELSE {})
        /\ ToSet(u.list) = (R \cup {n}) \ u.freed
    BY <1>2, <1>5, <1>8, <2>1, UpdatedNodes
  <2> HIDE DEF u
  <2> QED BY <1>1, <1>9, <2>2
<1> HIDE DEF u, freed
<1>11. \A x \in Nodes : x \notin freed => node'[x] = node[x]
  BY <1>1 DEF FreeNodes
<1>12. undo => old = {}
  BY <1>5 DEF ReceiversListed
<1>13. \A x \in R : Match(x) <=> x \in old
  OBVIOUS
<1> HIDE DEF L, R, new, n, c, undo, old
<1>14. old \subseteq R
  BY DEF old
<1>15. /\ new \subseteq Nodes /\ (\A x \in new : x \notin freed)
       /\ (\A x \in L \cup Queued : x \notin freed)
  BY ONLY <1>2, <1>6, <1>10, <1>14
<1>16. /\ \A x \in new : node'[x] = node[x]
       /\ \A x \in L : node'[x] = node[x]
       /\ \A x \in Queued : node'[x] = node[x]
  BY ONLY <1>6, <1>11, <1>15
<1>17. new = IF undo THEN R ELSE (R \ old) \cup {n}
  BY ONLY <1>2, <1>10, <1>12, <1>14
<1>18. ReceiversListed(new, node)
  <2>1. CASE undo
    BY <1>5, <1>17, <2>1
  <2>2. CASE ~ undo
    <3>1. \A x \in new : x = n \/ (x \in R /\ ~ Match(x))
      BY ONLY <1>13, <1>17, <2>2
    <3>2. node[n] = c /\ c.sendIdentity \notin Queueless
      BY <2>2 DEF c, undo
    <3> QED BY ONLY <1>4, <1>5, <3>1, <3>2 DEF ReceiversListed
  <2> QED BY <2>1, <2>2
<1>19. ReceiversListed(new, node') /\ ListenRecs(new, node') = ListenRecs(new, node)
  <2>1. \A x \in new : node'[x] = node[x]
    BY <1>16
  <2> QED BY ONLY <1>18, <2>1, SameRecs
<1>20. SendersListed(L, node') /\ SenderRecs(L, node') = SenderRecs(L, node)
  <2>1. \A x \in L : node'[x] = node[x]
    BY <1>16
  <2>2. SendersListed(L, node)
    BY DEF Filled, L
  <2> QED BY ONLY <2>1, <2>2, SameRecs
<1>21. ListenRecs(new, node) = ListenedTo(ListenRecs(R, node), c)
  <2>1. CASE undo
    BY <1>17, <2>1 DEF ListenedTo, undo
  <2>2. CASE ~ undo
    <3> DEFINE rec(x) == [recv |-> node[x].recvIdentity, send |-> node[x].sendIdentity,
                          msgId |-> node[x].msgId]
               e == [recv |-> c.recvIdentity, send |-> c.sendIdentity, msgId |-> c.msgId]
               Other(k) == ~ (k.recv = c.recvIdentity /\ k.send = c.sendIdentity)
    <3>1. ListenRecs(new, node) = {rec(x) : x \in new} /\ ListenRecs(R, node) = {rec(x) : x \in R}
      BY DEF ListenRecs
    <3>2. ListenedTo(ListenRecs(R, node), c) = {k \in ListenRecs(R, node) : Other(k)} \cup {e}
      BY <2>2 DEF ListenedTo, undo
    <3>3. rec(n) = e /\ \A x : Other(rec(x)) <=> ~ Match(x)
      BY DEF c
    <3> HIDE DEF rec, e, Other, Match
    <3>4. {k \in {rec(x) : x \in R} : Other(k)} = {rec(x) : x \in R \ old}
      BY ONLY <1>13, <3>3
    <3>5. {rec(x) : x \in new} = {rec(x) : x \in R \ old} \cup {e}
      BY ONLY <1>17, <2>2, <3>3
    <3> QED BY ONLY <3>1, <3>2, <3>4, <3>5
  <2> QED BY <2>1, <2>2
<1> DEFINE t == Now'
           s == After(Now, msg, node)
<1>22. t = [sender |-> SenderRecs(L, node), listener |-> ListenRecs(new, node), due |-> inbox]
  BY ONLY <1>1, <1>19, <1>20, NowIs DEF new, L
<1>23. t \in States
  <2>1. SendersListed(L, node) /\ inbox \in [Receivers -> Seq(EventMsgs)]
    BY DEF Filled, L, Inboxes
  <2> QED BY ONLY <1>18, <1>22, <2>1, RecordState
<1>24. /\ s \in States /\ s.listener = ListenedTo(Now.listener, c)
       /\ s.sender = Now.sender /\ s.due = Now.due
  BY <1>1, <1>3, AfterListened DEF c, n
<1>25. /\ Now.sender = SenderRecs(L, node) /\ Now.listener = ListenRecs(R, node)
       /\ Now.due = inbox
  BY NowIs DEF L, R
<1>26. t = s
  <2>1. t.sender = s.sender /\ t.listener = s.listener /\ t.due = s.due
    BY ONLY <1>21, <1>22, <1>24, <1>25
  <2> HIDE DEF t, s
  <2> QED BY ONLY <1>23, <1>24, <2>1, StateEqual
<1>27. Then' = Then /\ AllServed(Requests', node')
  BY <1>1, <1>16, <1>26, UpdateStep
<1>28. Filled'
  <2>1. Inboxes'
    BY <1>1 DEF Filled, Inboxes, EventMsgs
  <2>2. SendersListed(ToSet(senderList), node)' /\ ReceiversListed(ToSet(receiverList), node)'
    BY <1>1, <1>19, <1>20 DEF new, L
  <2> QED BY <1>27, <2>1, <2>2 DEF Filled
<1> QED BY <1>27, <1>28

\* An event goes to the node of receiver r that listens to the sender for handle
\* h, if r has one.
LEMMA FiredIs ==
  ASSUME HubInv, Filled, NEW h \in Handles, NEW v \in 1 .. MaxEvents, NEW r \in Receivers
  PROVE  Firings(h, v, r) = News(Now, h, v, r)
<1> USE DEF HubInv
<1> DEFINE L == ToSet(senderList)
           R == ToSet(receiverList)
           S == Senders(h)
           p == Min(S)
           sender == node[senderList[p]]
           id == sender.sendIdentity
           M == {n \in R : node[n].recvIdentity = r /\ node[n].sendIdentity = id}
           H == Heard(Now, h, r)
           rec(x) == [recv |-> node[x].recvIdentity, send |-> node[x].sendIdentity,
                      msgId |-> node[x].msgId]
<1>1. /\ senderList \in Seq(Nodes) /\ SendersListed(L, node)
      /\ receiverList \in Seq(Nodes) /\ Distinct(receiverList) /\ ReceiversListed(R, node)
  BY DEF HubTyped, Once, Filled
<1>2. Now \in States
  BY NowState
<1>3. /\ Now.sender = SenderRecs(L, node) /\ Now.listener = ListenRecs(R, node)
  BY NowIs
<1>4. H = {l \in Now.listener : l.recv = r /\ [handle |-> h, send |-> l.send] \in Now.sender}
  BY DEF Heard
<1>5. Now.listener = {rec(x) : x \in R}
  BY <1>3 DEF ListenRecs
<1>6. ASSUME NEW k PROVE [handle |-> h, send |-> k] \in Now.sender
                         <=> \E n \in L : node[n].handle = h /\ node[n].sendIdentity = k
  BY <1>3 DEF SenderRecs
<1>7. S = {i \in DOMAIN senderList : node[senderList[i]].handle = h}
  BY DEF Senders
<1>8. CASE S = {}
  <2>1. \A n \in L : node[n].handle # h
    BY <1>7, <1>8 DEF ToSet
  <2>2. H = {}
    BY ONLY <1>4, <1>6, <2>1
  <2>3. Fired(h, r) = <<>>
    BY <1>8 DEF Fired
  <2>4. Firings(h, v, r) = <<>>
    BY <2>3 DEF Firings
  <2> QED BY <1>2, <2>2, <2>4, NewsOnce
<1>9. CASE S # {}
  <2>1. p \in S
    <3>1. S \in SUBSET Nat
      BY <1>1, <1>7
    <3> HIDE DEF S
    <3> QED BY ONLY <1>9, <3>1, MinIn
  <2> HIDE DEF p
  <2>2. p \in DOMAIN senderList /\ sender.handle = h /\ senderList[p] \in L
    BY <1>7, <2>1 DEF ToSet
  <2>3. \A k : [handle |-> h, send |-> k] \in Now.sender <=> k = id
    BY <1>1, <1>6, <2>2 DEF SendersListed
  <2>4. Fired(h, r) = Keep(receiverList, M)
    BY <1>9 DEF Fired, p
  <2>5. H = {rec(x) : x \in M}
    BY ONLY <1>4, <1>5, <2>3
  <2>6. \A x, y \in M : x = y
    BY <1>1 DEF ReceiversListed
  <2> HIDE DEF L, S, sender, id
  <2>7. CASE M = {}
    <3>1. Fired(h, r) = <<>>
      <4>1. \A x \in ToSet(receiverList) : x \notin M
        BY <2>7
      <4> QED BY ONLY <1>1, <2>4, <4>1, KeptNone
    <3>2. Firings(h, v, r) = <<>> /\ H = {}
      BY <2>5, <2>7, <3>1 DEF Firings
    <3> QED BY <1>2, <3>2, NewsOnce
  <2>8. CASE M # {}
    <3>1. PICK x \in M : TRUE
      BY ONLY <2>8
    <3>2. x \in R /\ x \in M /\ \A y \in R : y \in M => y = x
      BY <2>6
    <3> HIDE DEF M
    <3>3. Fired(h, r) = <<x>>
      BY ONLY <1>1, <2>4, <3>2, KeptOne
    <3>4. Firings(h, v, r) = <<[msgId |-> node[x].msgId, value |-> v]>>
      <4> DEFINE f == Fired(h, r)
                 g == [i \in DOMAIN f |-> [msgId |-> node[f[i]].msgId, value |-> v]]
      <4>1. Firings(h, v, r) = g
        BY DEF Firings
      <4>2. f = <<x>>
        BY <3>3
      <4> HIDE DEF f
      <4>3. DOMAIN f = {1} /\ f[1] = x
        BY ONLY <4>2
      <4>4. g = [i \in {1} |-> [msgId |-> node[x].msgId, value |-> v]]
        BY ONLY <4>3
      <4> QED BY ONLY <4>1, <4>4
    <3>5. rec(x) \in H /\ rec(x).msgId = node[x].msgId
      BY ONLY <2>5, <3>2
    <3>6. News(Now, h, v, r) = <<[msgId |-> rec(x).msgId, value |-> v]>>
      <4> HIDE DEF rec
      <4> QED BY <1>2, <3>5, NewsOnce
    <3> QED BY ONLY <3>4, <3>5, <3>6
  <2> QED BY <2>7, <2>8
<1> QED BY <1>8, <1>9


\* Firing an event does what the request does, but for the receivers whose queue
\* is full: they miss it.
LEMMA FireStep ==
  ASSUME HubInv, Filled, EventHub_FireEvents PROVE Filled' /\ Abstract!Next
<1> USE DEF HubInv
<1> DEFINE h == msg.data
           v == msg.msgValue
           s == After(Now, msg, node)
           t == Now'
<1>1. /\ msg # NULL /\ msg.msgId = "SEND_EVENT" /\ msg' = NULL
      /\ inbox' = [r \in Receivers |-> PutAll(inbox[r], Firings(h, v, r))]
      /\ UNCHANGED <<queue, node, senderList, receiverList>>
  BY Zenon DEF EventHub_FireEvents, lists
<1>2. /\ Now \in States /\ Served(msg, node) /\ s \in States
      /\ queue \in Seq(HubRequests) /\ AllServed(queue, node)
      /\ Then = Worked(s, queue, node)
  BY <1>1, FirstHandled
<1>3. h \in Handles /\ v \in 1 .. MaxEvents
  BY <1>1, <1>2 DEF Served, HubRequests
<1>4. /\ s.sender = Now.sender /\ s.listener = Now.listener /\ s.due = SentTo(Now, h, v)
  BY ONLY <1>1, <1>2, AfterSent
<1>5. Now.due = inbox
  BY NowIs
<1> HIDE DEF h, v, s, t
<1>6. ASSUME NEW r \in Receivers
      PROVE  /\ inbox'[r] \in Seq(EventMsgs) /\ Len(inbox'[r]) <= InSize
             /\ \/ inbox'[r] = s.due[r]
                \/ \E i \in DOMAIN s.due[r] : inbox'[r] = RemoveAt(s.due[r], i)
  <2> DEFINE q == inbox[r]
             w == News(Now, h, v, r)
             H == Heard(Now, h, r)
  <2>1. q \in Seq(EventMsgs) /\ Len(q) <= InSize /\ InSize \in Nat
    BY EventHubAssumption DEF Filled, Inboxes
  <2>2. inbox'[r] = PutAll(q, w)
    <3>1. Firings(h, v, r) = w
      BY <1>3, FiredIs
    <3>2. inbox'[r] = PutAll(q, Firings(h, v, r))
      BY <1>1
    <3> QED BY ONLY <3>1, <3>2
  <2>3. s.due[r] = q \o w
    BY <1>4, <1>5 DEF SentTo
  <2>4. /\ H = {} => w = <<>>
        /\ \A l \in H : w = <<[msgId |-> l.msgId, value |-> v]>>
        /\ \A l \in H : [msgId |-> l.msgId, value |-> v] \in EventMsgs
    <3>1. \A l \in H : l.msgId \in MsgIds
      BY <1>2 DEF Heard, States, Records, Listens
    <3> QED BY <1>2, <1>3, <3>1, NewsOnce DEF EventMsgs
  <2> HIDE DEF q, w, H
  <2>5. CASE w = <<>>
    <3>1. PutAll(q, w) = q
      BY ONLY <2>1, <2>5, PutNone
    <3>2. q \o w = q
      BY ONLY <2>1, <2>5, ConcatEmptySeq
    <3> QED BY ONLY <2>1, <2>2, <2>3, <3>1, <3>2
  <2>6. CASE w # <<>>
    <3>1. PICK e \in EventMsgs : w = <<e>>
      BY ONLY <2>4, <2>6
    <3>2. PutAll(q, w) = IF Len(q) < InSize THEN q \o <<e>> ELSE q
      BY ONLY <2>1, <3>1, PutOne
    <3>3. CASE Len(q) < InSize
      <4>1. q \o <<e>> \in Seq(EventMsgs) /\ Len(q \o <<e>>) = Len(q) + 1
        <5> DEFINE one == <<e>>
        <5>1. one \in Seq(EventMsgs) /\ Len(one) = 1
          OBVIOUS
        <5> HIDE DEF one
        <5>2. q \o one \in Seq(EventMsgs) /\ Len(q \o one) = Len(q) + 1
          <6>1. q \in Seq(EventMsgs)
            BY <2>1
          <6>2. q \o one \in Seq(EventMsgs) /\ Len(q \o one) = Len(q) + Len(one)
            BY ONLY <5>1, <6>1, ConcatProperties
          <6> QED BY ONLY <5>1, <6>2
        <5> QED BY <5>2 DEF one
      <4>2. inbox'[r] = q \o <<e>> /\ s.due[r] = q \o <<e>>
        BY ONLY <2>2, <2>3, <3>1, <3>2, <3>3
      <4>3. Len(q) + 1 <= InSize
        BY <2>1, <3>3
      <4> QED BY ONLY <4>1, <4>2, <4>3
    <3>4. CASE ~ (Len(q) < InSize)
      <4>1. inbox'[r] = q /\ s.due[r] = q \o <<e>>
        BY ONLY <2>2, <2>3, <3>1, <3>2, <3>4
      <4>2. Len(q) + 1 \in DOMAIN (q \o <<e>>) /\ q = RemoveAt(q \o <<e>>, Len(q) + 1)
        BY ONLY <2>1, RemoveLast, e \in EventMsgs
      <4> DEFINE i == Len(q) + 1
      <4>3. i \in DOMAIN s.due[r] /\ inbox'[r] = RemoveAt(s.due[r], i)
        BY ONLY <4>1, <4>2
      <4> HIDE DEF i
      <4> QED BY ONLY <2>1, <4>1, <4>3
    <3> QED BY ONLY <3>3, <3>4
  <2> QED BY ONLY <2>5, <2>6
<1>7. inbox' \in [Receivers -> Seq(EventMsgs)]
  BY ONLY <1>1, <1>6
<1>8. Inboxes'
  BY <1>6, <1>7 DEF Inboxes, EventMsgs
<1>9. Requests' = queue
  BY <1>1, NoneHandled
<1>10. Filled'
  BY <1>1, <1>2, <1>8, <1>9, ListsAlone
<1>11. t = [sender |-> SenderRecs(ToSet(senderList), node),
            listener |-> ListenRecs(ToSet(receiverList), node), due |-> inbox']
  BY ONLY <1>1, NowIs DEF t
<1>12. t \in States
  BY <1>7, <1>11, RecordState DEF Filled
<1>13. Shorter(s, t)
  <2>1. t.sender = s.sender /\ t.listener = s.listener /\ t.due = inbox'
    BY ONLY <1>4, <1>11, NowIs
  <2> QED BY ONLY <1>6, <2>1 DEF Shorter
<1>14. Then' = Worked(t, queue, node)
  BY ONLY <1>1, <1>9, ThenIs DEF t
<1>15. Then \in States
  BY ONLY <1>2, WorkedState
<1>16. Then' \in States
  BY ONLY <1>2, <1>12, <1>14, WorkedState
<1>17. Shorter(Then, Then')
  <2>1. Shorter(Worked(s, queue, node), Worked(t, queue, node))
    BY ONLY <1>2, <1>12, <1>13, WorkedShorter
  <2> QED BY ONLY <1>2, <1>14, <2>1
<1>18. Abstract!Next
  BY <1>15, <1>16, <1>17, MissState
<1> QED BY <1>10, <1>18

\* Steps that change nothing the hub has.
LEMMA HubAlone ==
  ASSUME HubInv, Filled, UNCHANGED <<queue, node, msg, senderList, receiverList, inbox>>
  PROVE  Filled' /\ Then' = Then
<1>1. Requests' = Requests
  BY DEF Requests
<1>2. Now' = Now
  BY ONLY NowIs, UNCHANGED <<node, senderList, receiverList, inbox>>
<1>3. Then' = Then
  BY ONLY <1>1, <1>2, ThenIs, UNCHANGED node
<1>4. Inboxes' /\ AllServed(Requests', node)
  BY <1>1 DEF Filled, Inboxes, EventMsgs
<1>5. Filled'
  BY <1>4, ListsAlone
<1> QED BY <1>3, <1>5

LEMMA NextFilled ==
  HubInv /\ Filled /\ [HubNext]_hubVars => Filled' /\ [Abstract!Next]_Then
<1> SUFFICES ASSUME HubInv, Filled, [HubNext]_hubVars
             PROVE  Filled' /\ [Abstract!Next]_Then
  OBVIOUS
<1>1. CASE Ready
  BY <1>1, HubAlone DEF Ready, lists
<1>2. ASSUME NEW h \in Handles, NEW id \in Identities, EventHub_AddSender(h, id)
      PROVE  Filled' /\ [Abstract!Next]_Then
  BY <1>2, AddSenderStep
<1>3. ASSUME NEW r \in Receivers, NEW id \in Identities, NEW m \in MsgIds,
             EventHub_ListenToEvent(r, id, m)
      PROVE  Filled' /\ [Abstract!Next]_Then
  BY <1>3, ListenStep
<1>4. ASSUME NEW h \in Handles, EventHub_SendEvent(h) PROVE Filled' /\ [Abstract!Next]_Then
  BY <1>4, SendEventStep
<1>5. CASE Recv
  BY <1>5, RecvStep
<1>6. CASE MessageHandle
  BY <1>6, UpdateSenderStep, UpdateReceiverStep, FireStep DEF MessageHandle
<1>7. ASSUME NEW r \in Receivers, Receive(r) PROVE Filled' /\ [Abstract!Next]_Then
  BY <1>7, ReceiveStep
<1>8. CASE UNCHANGED hubVars
  BY <1>8, HubAlone DEF hubVars, lists
<1> QED BY <1>1, <1>2, <1>3, <1>4, <1>5, <1>6, <1>7, <1>8 DEF HubNext

\* The event hub implements PubSub, for any number of clients, nodes, events and
\* queue slots: EventHub_AddSender, EventHub_ListenToEvent and EventHub_SendEvent
\* take effect when their request is accepted, although MessageHandle works
\* through the queue later; an event goes to those who listened to the sender
\* its handle named then, and every receiver gets its events in their order,
\* each once at most, missing those that its full queue refused.
THEOREM HubImplementsPubSub == HubSpec => ImplementsPubSub
<1>1. HubInit => HubInv /\ Filled /\ Abstract!Init
  BY InitHub, InitFilled
<1>2. HubInv /\ Filled /\ [HubNext]_hubVars => (HubInv /\ Filled)' /\ [Abstract!Next]_Then
  BY NextHub, NextFilled
<1> QED BY <1>1, <1>2, PTL DEF HubSpec, ImplementsPubSub, Abstract!Spec
=============================================================================
