------------------------- MODULE LockFreeQueueProofs -------------------------
(***************************************************************************)
(* Proofs about LockFreeQueue for every slot size and slot count.          *)
(*                                                                         *)
(* Distances between the cursors are multiples n * ItemSize.  The provers  *)
(* treat such a product as an atom, so the only fact about multiplication  *)
(* that is needed is stated once, in Products.                             *)
(***************************************************************************)
EXTENDS LockFreeQueue, SequenceTheorems, TLAPS

\* Going up by one slot adds ItemSize bytes, and n < m slots leave room for
\* one more among m: the arithmetic of slots behind the cursor moves of
\* lock_free_queue.c.
LEMMA Products ==
  /\ ItemSize \in Nat /\ ItemSize > 0 /\ Count \in Nat /\ Count > 0
  /\ 0 * ItemSize = 0
  /\ totalSize \in Nat /\ totalSize = Count * ItemSize + 1
  /\ \A n \in Nat : n * ItemSize \in Nat
  /\ \A n \in Nat : (n + 1) * ItemSize = n * ItemSize + ItemSize
  /\ \A n, m \in Nat : n < m => n * ItemSize + ItemSize <= m * ItemSize
<1>1. ItemSize \in Nat /\ ItemSize > 0 /\ Count \in Nat /\ Count > 0
  BY SizeAssumption
<1>2. \A n \in Nat : n * ItemSize \in Nat
  BY <1>1
<1>3. \A n \in Nat : (n + 1) * ItemSize = n * ItemSize + ItemSize
  BY <1>1
<1>4. ASSUME NEW n \in Nat, NEW m \in Nat, n < m
      PROVE  n * ItemSize + ItemSize <= m * ItemSize
  <2>1. PICK d \in Nat : m = n + 1 + d
    <3>1. m - n - 1 \in Nat /\ m = n + 1 + (m - n - 1)
      BY <1>4
    <3> QED BY <3>1
  <2>2. m * ItemSize = n * ItemSize + ItemSize + d * ItemSize
    BY <1>1, <2>1
  <2>3. d * ItemSize \in Nat /\ n * ItemSize \in Nat
    BY <1>2
  <2> QED BY <1>1, <2>2, <2>3
<1>5. totalSize \in Nat /\ totalSize = Count * ItemSize + 1
  BY <1>1, <1>2 DEF totalSize
<1>6. 0 * ItemSize = 0
  BY <1>1
<1> QED BY <1>1, <1>2, <1>3, <1>4, <1>5, <1>6

(***************************************************************************)
(* The inductive invariant.  WholeSlots alone is not inductive: a push     *)
(* publishes after its full test, so while it copies there must be room    *)
(* for a slot, whatever the consumer did meanwhile; and the same for a     *)
(* pop and the slot it is about to release.                                *)
(***************************************************************************)
PushRoom == pushPc \in {"head", "rest", "publish"} =>
              \E n \in 0 .. Count - 1 : Occupied = n * ItemSize
PopSome == popPc \in {"head", "rest", "publish"} =>
             \E n \in 1 .. Count : Occupied = n * ItemSize
IInv == TypeOK /\ WholeSlots /\ PushRoom /\ PopSome

LEMMA InitIInv == Init => IInv
<1> SUFFICES ASSUME Init PROVE IInv
  OBVIOUS
<1> USE Products
<1>1. TypeOK
  BY DEF Init, LFQUE_Create, TypeOK, Cells, Bytes, BytesOf, Offsets
<1>2. Occupied = 0 * ItemSize
  BY DEF Init, LFQUE_Create, Occupied
<1>3. WholeSlots
  BY <1>2 DEF WholeSlots
<1>4. PushRoom /\ PopSome
  BY DEF Init, PushRoom, PopSome
<1> QED BY <1>1, <1>3, <1>4 DEF IInv

\* A step that moves no cursor keeps the distance of the cursors.
LEMMA SameOccupied ==
  ASSUME write' = write, read' = read
  PROVE  Occupied' = Occupied /\ (WholeSlots => WholeSlots')
BY DEF Occupied, WholeSlots

\* LFQUE_IsFull is exact: a ring that is not full has room for a whole slot.
LEMMA NotFull ==
  ASSUME IInv, ~IsFull
  PROVE  \E n \in 0 .. Count - 1 : Occupied = n * ItemSize
<1> USE Products
<1>1. PICK n \in 0 .. Count : Occupied = n * ItemSize
  BY DEF IInv, WholeSlots
<1>2. write \in Nat /\ read \in Nat /\ write < totalSize /\ read < totalSize
  BY DEF IInv, TypeOK, Cells
<1>3. Occupied # totalSize - 1
  BY <1>2 DEF Occupied, IsFull, Advance
<1>4. n # Count
  BY <1>1, <1>3
<1> QED BY <1>1, <1>4

\* Publishing a push adds one slot to the distance of the cursors.
LEMMA PublishAdds ==
  ASSUME IInv, read' = read, write' = Advance(write, ItemSize),
         NEW n \in 0 .. Count - 1, Occupied = n * ItemSize
  PROVE  /\ write' \in Cells
         /\ n + 1 \in 1 .. Count
         /\ Occupied' = (n + 1) * ItemSize
<1> USE Products
<1>1. write \in Nat /\ read \in Nat /\ write < totalSize /\ read < totalSize
  BY DEF IInv, TypeOK, Cells
<1>2. n * ItemSize + ItemSize <= Count * ItemSize
  OBVIOUS
<1>3. Occupied + ItemSize < totalSize /\ Occupied + ItemSize = (n + 1) * ItemSize
  BY <1>2
<1>4. ItemSize <= totalSize
  BY <1>2, n * ItemSize \in Nat
<1>5. write' \in Cells
  BY <1>1, <1>4 DEF Advance, Cells
<1>6. Occupied' = Occupied + ItemSize
  BY <1>1, <1>3 DEF Advance, Occupied
<1> QED BY <1>3, <1>5, <1>6

\* Publishing a pop removes one slot from the distance of the cursors.
LEMMA PublishRemoves ==
  ASSUME IInv, write' = write, read' = Advance(read, ItemSize),
         NEW n \in 1 .. Count, Occupied = n * ItemSize
  PROVE  /\ read' \in Cells
         /\ n - 1 \in 0 .. Count - 1
         /\ Occupied' = (n - 1) * ItemSize
<1> USE Products
<1>1. write \in Nat /\ read \in Nat /\ write < totalSize /\ read < totalSize
  BY DEF IInv, TypeOK, Cells
<1>2. n - 1 \in Nat /\ (n - 1) + 1 = n
  OBVIOUS
<1>3. n * ItemSize = (n - 1) * ItemSize + ItemSize
  BY <1>2
<1>4. (n - 1) * ItemSize \in Nat
  BY <1>2
<1>5. ItemSize <= Occupied
  BY <1>3, <1>4
<1>6. read' \in Cells
  BY <1>1, <1>5 DEF Advance, Cells, Occupied
<1>7. Occupied' = Occupied - ItemSize
  BY <1>1, <1>5 DEF Advance, Occupied
<1> QED BY <1>2, <1>3, <1>4, <1>6, <1>7

\* The bytes copied by the four memcpy calls keep the types.
LEMMA CopyTypes ==
  ASSUME IInv
  PROVE  /\ CopyLen(write) \in 1 .. ItemSize
         /\ CopyLen(read) \in 1 .. ItemSize
         /\ write + CopyLen(write) <= totalSize
         /\ read + CopyLen(read) <= totalSize
BY Products DEF IInv, TypeOK, Cells, CopyLen

\* Every step of the specification preserves the types.
LEMMA TypeStep == IInv /\ [Next]_vars => TypeOK'
<1> SUFFICES ASSUME IInv, [Next]_vars PROVE TypeOK'
  OBVIOUS
<1> USE Products
<1>0. TypeOK
  BY DEF IInv
<1>1. CASE \E e \in Elements : PushCall(e)
  BY <1>0, <1>1 DEF PushCall, TypeOK, consumer, producer
<1>2. CASE PushCheck
  BY <1>0, <1>2 DEF PushCheck, TypeOK, consumer, producer
<1>3. CASE PushHead
  <2>1. \A c \in Cells : c \in write .. write + CopyLen(write) - 1 => c - write \in Offsets
    BY <1>0, CopyTypes DEF TypeOK, Cells, Offsets
  <2>2. buffer' \in [Cells -> Bytes]
    BY <1>0, <1>3, <2>1 DEF PushHead, TypeOK, Bytes
  <2> QED BY <1>0, <1>3, <2>2 DEF PushHead, TypeOK, consumer, producer
<1>4. CASE PushRest
  <2>1. \A c \in Cells : c \in 0 .. ItemSize - CopyLen(write) - 1 =>
                           c + CopyLen(write) \in Offsets
    BY <1>0, CopyTypes DEF TypeOK, Cells, Offsets
  <2>2. buffer' \in [Cells -> Bytes]
    BY <1>0, <1>4, <2>1 DEF PushRest, TypeOK, Bytes
  <2> QED BY <1>0, <1>4, <2>2 DEF PushRest, TypeOK, consumer, producer
<1>5. CASE PushPublish
  <2>1. PICK n \in 0 .. Count - 1 : Occupied = n * ItemSize
    BY <1>5 DEF IInv, PushRoom, PushPublish
  <2>2. write' \in Cells
    BY <1>5, <2>1, PublishAdds DEF PushPublish
  <2> QED BY <1>0, <1>5, <2>2 DEF PushPublish, TypeOK, consumer, producer
<1>6. CASE PopCall
  BY <1>0, <1>6 DEF PopCall, TypeOK, consumer, producer
<1>7. CASE PopCheck
  BY <1>0, <1>7 DEF PopCheck, TypeOK, consumer, producer
<1>8. CASE PopHead
  <2>1. \A o \in Offsets : o < CopyLen(read) => read + o \in Cells
    BY <1>0, CopyTypes DEF TypeOK, Cells, Offsets
  <2>2. out' \in [Offsets -> Bytes]
    BY <1>0, <1>8, <2>1 DEF PopHead, TypeOK
  <2> QED BY <1>0, <1>8, <2>2 DEF PopHead, TypeOK, consumer, producer
<1>9. CASE PopRest
  <2>1. \A o \in Offsets : ~(o < CopyLen(read)) => o - CopyLen(read) \in Cells
    <3>1. ItemSize < totalSize
      <4>1. 0 * ItemSize + ItemSize <= Count * ItemSize
        OBVIOUS
      <4> QED BY <4>1
    <3> QED BY <1>0, <3>1, CopyTypes DEF TypeOK, Cells, Offsets
  <2>2. out' \in [Offsets -> Bytes]
    BY <1>0, <1>9, <2>1 DEF PopRest, TypeOK
  <2> QED BY <1>0, <1>9, <2>2 DEF PopRest, TypeOK, consumer, producer
<1>10. CASE PopPublish
  <2>1. PICK n \in 1 .. Count : Occupied = n * ItemSize
    BY <1>10 DEF IInv, PopSome, PopPublish
  <2>2. read' \in Cells
    BY <1>10, <2>1, PublishRemoves DEF PopPublish
  <2> QED BY <1>0, <1>10, <2>2 DEF PopPublish, TypeOK, consumer, producer
<1>11. CASE UNCHANGED vars
  BY <1>0, <1>11 DEF vars, TypeOK
<1> QED BY <1>1, <1>2, <1>3, <1>4, <1>5, <1>6, <1>7, <1>8, <1>9, <1>10, <1>11
         DEF Next, Push, Pop

\* Every step keeps whole slots between the cursors, room for the slot that
\* is being pushed and the slot that is being popped.
LEMMA SlotStep == IInv /\ [Next]_vars => (WholeSlots /\ PushRoom /\ PopSome)'
<1> SUFFICES ASSUME IInv, [Next]_vars PROVE (WholeSlots /\ PushRoom /\ PopSome)'
  OBVIOUS
<1> USE Products
<1>0. WholeSlots /\ PushRoom /\ PopSome
  BY DEF IInv
<1>1. CASE /\ \/ \E e \in Elements : PushCall(e)
              \/ PushHead \/ PushRest \/ PopCall \/ PopHead \/ PopRest
              \/ UNCHANGED vars
  <2>1. write' = write /\ read' = read
    BY <1>1 DEF PushCall, PushHead, PushRest, PopCall, PopHead, PopRest, vars
  <2>2. /\ pushPc' \in {"head", "rest", "publish"} => pushPc \in {"head", "rest", "publish"}
        /\ popPc' \in {"head", "rest", "publish"} => popPc \in {"head", "rest", "publish"}
    BY <1>1 DEF PushCall, PushHead, PushRest, PopCall, PopHead, PopRest, vars,
                consumer, producer
  <2> QED BY <1>0, <2>1, <2>2, SameOccupied DEF PushRoom, PopSome
<1>2. CASE PushCheck
  <2>1. write' = write /\ read' = read /\ popPc' = popPc
    BY <1>2 DEF PushCheck, consumer
  <2>2. CASE IsFull
    BY <1>0, <1>2, <2>1, <2>2, SameOccupied DEF PushCheck, PushRoom, PopSome
  <2>3. CASE ~IsFull
    BY <1>0, <2>1, <2>3, SameOccupied, NotFull DEF PushRoom, PopSome
  <2> QED BY <2>2, <2>3
<1>3. CASE PushPublish
  <2>1. PICK n \in 0 .. Count - 1 : Occupied = n * ItemSize
    BY <1>0, <1>3 DEF PushRoom, PushPublish
  <2>2. n + 1 \in 1 .. Count /\ Occupied' = (n + 1) * ItemSize
    BY <1>3, <2>1, PublishAdds DEF PushPublish
  <2>3. pushPc' = "idle"
    BY <1>3 DEF PushPublish
  <2>4. WholeSlots'
    BY <2>2 DEF WholeSlots
  <2>5. PushRoom'
    BY <2>3 DEF PushRoom
  <2>6. PopSome'
    BY <2>2 DEF PopSome
  <2> QED BY <2>4, <2>5, <2>6
<1>4. CASE PopCheck
  <2>1. write' = write /\ read' = read /\ pushPc' = pushPc
    BY <1>4 DEF PopCheck, producer
  <2>2. CASE IsEmpty
    BY <1>0, <1>4, <2>1, <2>2, SameOccupied DEF PopCheck, PushRoom, PopSome
  <2>3. CASE ~IsEmpty
    <3>1. PICK n \in 0 .. Count : Occupied = n * ItemSize
      BY <1>0 DEF WholeSlots
    <3>2. Occupied # 0
      BY <2>3 DEF IInv, TypeOK, Cells, Occupied, IsEmpty
    <3>3. n \in 1 .. Count
      BY <3>1, <3>2
    <3> QED BY <1>0, <2>1, <3>1, <3>3, SameOccupied DEF PushRoom, PopSome
  <2> QED BY <2>2, <2>3
<1>5. CASE PopPublish
  <2>1. PICK n \in 1 .. Count : Occupied = n * ItemSize
    BY <1>0, <1>5 DEF PopSome, PopPublish
  <2>2. n - 1 \in 0 .. Count - 1 /\ Occupied' = (n - 1) * ItemSize
    BY <1>5, <2>1, PublishRemoves DEF PopPublish
  <2>3. popPc' = "idle"
    BY <1>5 DEF PopPublish
  <2>4. WholeSlots'
    BY <2>2 DEF WholeSlots
  <2>5. PushRoom'
    BY <2>2 DEF PushRoom
  <2>6. PopSome'
    BY <2>3 DEF PopSome
  <2> QED BY <2>4, <2>5, <2>6
<1> QED BY <1>1, <1>2, <1>3, <1>4, <1>5 DEF Next, Push, Pop

\* The inductive invariant holds in every reachable state.
LEMMA Invariance == Spec => []IInv
<1>1. IInv /\ [Next]_vars => IInv'
  BY TypeStep, SlotStep DEF IInv
<1> QED BY <1>1, InitIInv, PTL DEF Spec

\* Types: no cursor ever leaves the buffer and no memcpy of lock_free_queue.c
\* reads or writes outside it, for every slot size and count.
THEOREM TypeCorrect == Spec => []TypeOK
<1>1. IInv => TypeOK
  BY DEF IInv
<1> QED BY <1>1, Invariance, PTL

\* The distance of the cursors is always a whole number of slots, whatever
\* the interleaving of LFQUE_Push and LFQUE_Pop.
THEOREM CursorsWhole == Spec => []WholeSlots
<1>1. IInv => WholeSlots
  BY DEF IInv
<1> QED BY <1>1, Invariance, PTL

\* The memcpy calls of the producer and of the consumer never touch the same
\* byte: the lock-free ring has no data race on its buffer.
THEOREM CopiesDisjoint == Spec => []NoOverlap
<1>1. ASSUME IInv PROVE NoOverlap
  <2> USE Products
  <2>0. write \in Nat /\ read \in Nat /\ write < totalSize /\ read < totalSize
    BY <1>1 DEF IInv, TypeOK, Cells
  <2>1. ASSUME pushPc \in {"head", "rest", "publish"}
        PROVE  Slot(write) \cap OccupiedCells = {}
    <3>1. PICK n \in 0 .. Count - 1 : Occupied = n * ItemSize
      BY <1>1, <2>1 DEF IInv, PushRoom
    <3>2. Occupied + ItemSize < totalSize
      <4>1. n * ItemSize + ItemSize <= Count * ItemSize
        OBVIOUS
      <4> QED BY <3>1, <4>1
    <3>3. ASSUME NEW o \in Offsets PROVE Advance(write, o) \notin OccupiedCells
      BY <2>0, <3>2 DEF Offsets, Advance, OccupiedCells, Occupied
    <3> QED BY <3>3 DEF Slot
  <2>2. ASSUME popPc \in {"head", "rest", "publish"}
        PROVE  Slot(read) \subseteq OccupiedCells
    <3>1. PICK n \in 1 .. Count : Occupied = n * ItemSize
      BY <1>1, <2>2 DEF IInv, PopSome
    <3>2. ItemSize <= Occupied
      <4>1. 0 * ItemSize + ItemSize <= n * ItemSize
        OBVIOUS
      <4> QED BY <3>1, <4>1
    <3>3. ASSUME NEW o \in Offsets PROVE Advance(read, o) \in OccupiedCells
      BY <2>0, <3>2 DEF Offsets, Advance, OccupiedCells, Occupied, Cells
    <3> QED BY <3>3 DEF Slot
  <2> QED BY <2>1, <2>2 DEF NoOverlap
<1> QED BY <1>1, Invariance, PTL

(***************************************************************************)
(* The bytes.  What the slots between the cursors hold, what a push has    *)
(* written behind write so far, and what a pop has read so far.            *)
(***************************************************************************)
Stored == \A n \in 0 .. Count : Occupied = n * ItemSize =>
            \A k \in 0 .. n - 1 : \E e \in Elements : \A o \in Offsets :
              buffer[Advance(read, k * ItemSize + o)] = <<e, o>>
HalfPushed ==
  /\ pushPc = "rest" => /\ CopyLen(write) < ItemSize
                        /\ \A o \in Offsets : o < CopyLen(write) =>
                             buffer[Advance(write, o)] = <<element, o>>
  /\ pushPc = "publish" => \A o \in Offsets : buffer[Advance(write, o)] = <<element, o>>
HalfPopped ==
  /\ popPc \in {"idle", "check", "head"} =>
       \E e \in Elements \cup {NoElement} : out = BytesOf(e)
  /\ popPc = "rest" => /\ CopyLen(read) < ItemSize
                       /\ \A o \in Offsets : o < CopyLen(read) =>
                            out[o] = buffer[Advance(read, o)]
  /\ popPc = "publish" => \A o \in Offsets : out[o] = buffer[Advance(read, o)]
Whole == IInv /\ Stored /\ HalfPushed /\ HalfPopped

\* The cursors, and the bytes of slots, stay in the buffer.
LEMMA Bounds ==
  ASSUME IInv
  PROVE  /\ write \in Nat /\ read \in Nat /\ write < totalSize /\ read < totalSize
         /\ ItemSize < totalSize
         /\ \A n \in 0 .. Count : n * ItemSize \in Nat /\ n * ItemSize < totalSize
         /\ \A n \in 0 .. Count : \A k \in 0 .. n - 1 : \A o \in Offsets :
              k * ItemSize + o \in Nat /\ k * ItemSize + o < n * ItemSize
<1> USE Products
<1>1. write \in Nat /\ read \in Nat /\ write < totalSize /\ read < totalSize
  BY DEF IInv, TypeOK, Cells
<1>2. 0 * ItemSize + ItemSize <= Count * ItemSize
  OBVIOUS
<1>3. ASSUME NEW n \in 0 .. Count
      PROVE  n * ItemSize \in Nat /\ n * ItemSize < totalSize
  <2>1. n < Count => n * ItemSize + ItemSize <= Count * ItemSize
    OBVIOUS
  <2>2. n = Count \/ n < Count
    OBVIOUS
  <2> QED BY <2>1, <2>2
<1>4. ASSUME NEW n \in 0 .. Count, NEW k \in 0 .. n - 1, NEW o \in Offsets
      PROVE  k * ItemSize + o \in Nat /\ k * ItemSize + o < n * ItemSize
  <2>1. k \in Nat /\ k < n /\ n \in Nat /\ o \in Nat /\ o < ItemSize
    BY DEF Offsets
  <2>2. k * ItemSize + ItemSize <= n * ItemSize /\ k * ItemSize \in Nat
    BY <2>1
  <2> QED BY <2>1, <2>2
<1> QED BY <1>1, <1>2, <1>3, <1>4

\* Moving a cursor twice moves it by the sum, as long as it goes round once.
LEMMA AdvanceTwice ==
  ASSUME NEW cursor \in Nat, cursor < totalSize, NEW a \in Nat, NEW b \in Nat,
         a + b < totalSize
  PROVE  /\ Advance(Advance(cursor, a), b) = Advance(cursor, a + b)
         /\ Advance(cursor, a) \in Nat /\ Advance(cursor, a) < totalSize
         /\ Advance(cursor, 0) = cursor
BY Products DEF Advance

\* write is as far ahead of read as bytes are occupied.
LEMMA WriteAhead ==
  ASSUME IInv
  PROVE  Occupied \in Nat /\ Occupied < totalSize /\ write = Advance(read, Occupied)
BY Products, Bounds DEF Occupied, Advance

\* The copies of a push leave the bytes between the cursors alone.
LEMMA Untouched ==
  ASSUME IInv, PushHead \/ PushRest, NEW j \in Nat, j < Occupied
  PROVE  buffer'[Advance(read, j)] = buffer[Advance(read, j)]
<1> USE Products
<1>1. /\ write \in Nat /\ read \in Nat /\ write < totalSize /\ read < totalSize
      /\ Occupied \in Nat
  BY Bounds, WriteAhead
<1>2. PICK n \in 0 .. Count - 1 : Occupied = n * ItemSize
  BY DEF IInv, PushRoom, PushHead, PushRest
<1>3. Occupied + ItemSize < totalSize
  <2>1. n * ItemSize + ItemSize <= Count * ItemSize
    OBVIOUS
  <2> QED BY <1>2, <2>1
<1> DEFINE c == Advance(read, j)
<1>4. c \in Cells
  BY <1>1, <1>3 DEF Advance, Cells
<1>5. CASE PushHead
  <2>1. c \notin write .. write + CopyLen(write) - 1
    BY <1>1, <1>3 DEF Advance, Occupied, CopyLen
  <2> QED BY <1>4, <1>5, <2>1 DEF PushHead
<1>6. CASE PushRest
  <2>1. c \notin 0 .. ItemSize - CopyLen(write) - 1
    BY <1>1, <1>3 DEF Advance, Occupied, CopyLen
  <2> QED BY <1>4, <1>6, <2>1 DEF PushRest
<1> QED BY <1>5, <1>6

\* What the copies of a push write behind write.
LEMMA Pushed ==
  ASSUME IInv, HalfPushed, PushHead \/ PushRest
  PROVE  HalfPushed'
<1> USE Products
<1>1. /\ write \in Nat /\ write < totalSize /\ ItemSize < totalSize /\ write' = write
      /\ element' = element /\ CopyLen(write) \in 1 .. ItemSize /\ CopyLen(write)' = CopyLen(write)
  BY Bounds, CopyTypes DEF PushHead, PushRest, CopyLen
<1>2. CASE PushHead
  <2>1. ASSUME NEW o \in Offsets, o < CopyLen(write)
        PROVE  buffer'[Advance(write, o)] = <<element, o>>
    <3>1. /\ Advance(write, o) = write + o /\ o \in Nat
          /\ write + o \in Cells /\ write + o \in write .. write + CopyLen(write) - 1
      BY <1>1, <2>1 DEF Offsets, Advance, CopyLen, Cells
    <3>2. (write + o) - write = o
      BY <1>1, <3>1
    <3> QED BY <1>2, <3>1, <3>2 DEF PushHead
  <2>2. /\ pushPc' = IF ItemSize > CopyLen(write) THEN "rest" ELSE "publish"
    BY <1>2 DEF PushHead
  <2>3. CopyLen(write) = ItemSize => \A o \in Offsets : o < CopyLen(write)
    BY DEF Offsets
  <2> QED BY <1>1, <2>1, <2>2, <2>3 DEF HalfPushed, Advance
<1>3. CASE PushRest
  <2>1. ASSUME NEW o \in Offsets
        PROVE  buffer'[Advance(write, o)] = <<element, o>>
    <3>1. CopyLen(write) < ItemSize /\ CopyLen(write) = totalSize - write
      BY <1>1, <1>3 DEF HalfPushed, PushRest, CopyLen
    <3>2. CASE o < CopyLen(write)
      <4>1. Advance(write, o) = write + o /\ o \in Nat /\ write + o \in Cells
        BY <1>1, <3>1, <3>2 DEF Offsets, Advance, Cells
      <4>2. write + o \notin 0 .. ItemSize - CopyLen(write) - 1
        BY <1>1, <3>1, <4>1 DEF Offsets
      <4>3. buffer[write + o] = <<element, o>>
        BY <1>3, <3>2, <4>1 DEF HalfPushed, PushRest
      <4> QED BY <1>3, <4>1, <4>2, <4>3 DEF PushRest
    <3>3. CASE ~ (o < CopyLen(write))
      <4> DEFINE c == o - CopyLen(write)
      <4>1. Advance(write, o) = c /\ c \in Cells /\ c \in 0 .. ItemSize - CopyLen(write) - 1
            /\ c + CopyLen(write) = o
        BY <1>1, <3>1, <3>3 DEF Offsets, Advance, Cells
      <4> HIDE DEF c
      <4> QED BY <1>3, <4>1 DEF PushRest
    <3> QED BY <3>2, <3>3
  <2>2. pushPc' = "publish"
    BY <1>3 DEF PushRest
  <2> QED BY <1>1, <2>1, <2>2 DEF HalfPushed, Advance
<1> QED BY <1>2, <1>3

\* What the copies of a pop have read, from bytes no push touches.
LEMMA Popped ==
  ASSUME IInv, HalfPopped, PopHead \/ PopRest
  PROVE  HalfPopped'
<1> USE Products
<1>1. /\ read \in Nat /\ read < totalSize /\ ItemSize < totalSize /\ read' = read
      /\ buffer' = buffer /\ CopyLen(read) \in 1 .. ItemSize /\ CopyLen(read)' = CopyLen(read)
  BY Bounds, CopyTypes DEF PopHead, PopRest, CopyLen, producer
<1>2. CASE PopHead
  <2>1. ASSUME NEW o \in Offsets, o < CopyLen(read)
        PROVE  out'[o] = buffer[Advance(read, o)]
    <3>1. Advance(read, o) = read + o
      BY <1>1, <2>1 DEF Offsets, Advance, CopyLen
    <3> QED BY <1>2, <2>1, <3>1 DEF PopHead
  <2>2. popPc' = IF ItemSize > CopyLen(read) THEN "rest" ELSE "publish"
    BY <1>2 DEF PopHead
  <2>3. popPc' = "publish" => \A o \in Offsets : o < CopyLen(read)
    BY <1>1, <2>2 DEF Offsets
  <2>4. popPc' = "publish" => \A o \in Offsets : out'[o] = buffer'[Advance(read', o)]
    BY <1>1, <2>1, <2>3
  <2>5. popPc' = "rest" => CopyLen(read) < ItemSize
    BY <1>1, <2>2
  <2> QED BY <1>1, <2>1, <2>2, <2>4, <2>5 DEF HalfPopped, Advance
<1>3. CASE PopRest
  <2>1. ASSUME NEW o \in Offsets
        PROVE  out'[o] = buffer[Advance(read, o)]
    <3>1. CopyLen(read) < ItemSize /\ CopyLen(read) = totalSize - read
      BY <1>1, <1>3 DEF HalfPopped, PopRest, CopyLen
    <3>2. CASE o < CopyLen(read)
      BY <1>3, <3>2 DEF HalfPopped, PopRest
    <3>3. CASE ~ (o < CopyLen(read))
      <4>1. Advance(read, o) = o - CopyLen(read)
        BY <1>1, <3>1, <3>3 DEF Offsets, Advance
      <4> QED BY <1>3, <3>3, <4>1 DEF PopRest
    <3> QED BY <3>2, <3>3
  <2>2. popPc' = "publish"
    BY <1>3 DEF PopRest
  <2> QED BY <1>1, <2>1, <2>2 DEF HalfPopped, Advance
<1> QED BY <1>2, <1>3

\* What is stored stays while the cursors and the bytes between them do.
LEMMA StoredKept ==
  ASSUME IInv, Stored, write' = write, read' = read,
         \A j \in Nat : j < Occupied => buffer'[Advance(read, j)] = buffer[Advance(read, j)]
  PROVE  Stored'
<1> SUFFICES ASSUME NEW n \in 0 .. Count, Occupied = n * ItemSize, NEW k \in 0 .. n - 1
             PROVE  \E e \in Elements : \A o \in Offsets :
                      buffer'[Advance(read, k * ItemSize + o)] = <<e, o>>
  BY SameOccupied DEF Stored, Advance
<1>1. PICK e \in Elements : \A o \in Offsets : buffer[Advance(read, k * ItemSize + o)] = <<e, o>>
  BY DEF Stored
<1>2. \A o \in Offsets : k * ItemSize + o \in Nat /\ k * ItemSize + o < Occupied
  BY Bounds
<1> QED BY <1>1, <1>2

\* A published push adds the element it has written.
LEMMA StoredPush == ASSUME Whole, PushPublish PROVE Stored'
<1> USE Products
<1>0. IInv /\ Stored /\ HalfPushed
  BY DEF Whole
<1>1. PICK n \in 0 .. Count - 1 : Occupied = n * ItemSize
  BY <1>0 DEF IInv, PushRoom, PushPublish
<1>2. /\ n + 1 \in 1 .. Count /\ Occupied' = (n + 1) * ItemSize
      /\ buffer' = buffer /\ read' = read
  BY <1>0, <1>1, PublishAdds DEF PushPublish, consumer
<1>3. ASSUME NEW m \in 0 .. Count, Occupied' = m * ItemSize PROVE m = n + 1
  <2>1. m < n + 1 => m * ItemSize + ItemSize <= (n + 1) * ItemSize
    OBVIOUS
  <2>2. n + 1 < m => (n + 1) * ItemSize + ItemSize <= m * ItemSize
    OBVIOUS
  <2>3. m * ItemSize \in Nat /\ (n + 1) * ItemSize = m * ItemSize
    BY <1>2, <1>3
  <2> QED BY <2>1, <2>2, <2>3
<1>4. ASSUME NEW k \in 0 .. n
      PROVE  \E e \in Elements : \A o \in Offsets :
               buffer[Advance(read, k * ItemSize + o)] = <<e, o>>
  <2>0. n \in 0 .. Count /\ (k = n \/ k \in 0 .. n - 1)
    BY <1>1
  <2>1. CASE k \in 0 .. n - 1
    BY ONLY <1>0, <1>1, <2>0, <2>1 DEF Stored
  <2>2. CASE k = n
    <3>1. ASSUME NEW o \in Offsets
          PROVE  Advance(read, n * ItemSize + o) = Advance(write, o)
      <4>1. write = Advance(read, n * ItemSize)
        BY <1>0, <1>1, WriteAhead
      <4>2. o \in Nat /\ n * ItemSize \in Nat /\ n * ItemSize + o < totalSize
        <5>1. n * ItemSize + ItemSize <= Count * ItemSize
          OBVIOUS
        <5> QED BY <5>1 DEF Offsets
      <4> QED BY <1>0, <4>1, <4>2, Bounds, AdvanceTwice
    <3>2. \A o \in Offsets : buffer[Advance(write, o)] = <<element, o>>
      BY <1>0 DEF HalfPushed, PushPublish
    <3>3. element \in Elements
      BY <1>0 DEF IInv, TypeOK
    <3> QED BY <2>2, <3>1, <3>2, <3>3
  <2> QED BY <2>0, <2>1, <2>2
<1>5. ASSUME NEW m \in 0 .. Count, Occupied' = m * ItemSize, NEW k \in 0 .. m - 1
      PROVE  \E e \in Elements : \A o \in Offsets :
               buffer'[Advance(read', k * ItemSize + o)] = <<e, o>>
  <2>1. m = n + 1
    BY <1>3, <1>5
  <2>2. k \in 0 .. n
    BY <1>1, <1>5, <2>1
  <2> QED BY ONLY <1>2, <1>4, <2>2
<1> QED BY <1>5 DEF Stored, Advance

\* A published pop takes the first element, which is the one it has read.
LEMMA StoredPop ==
  ASSUME Whole, PopPublish
  PROVE  /\ Stored'
         /\ \E e \in Elements : out = BytesOf(e) /\ buffer[read] = <<e, 0>>
<1> USE Products
<1>0. IInv /\ Stored /\ HalfPopped
  BY DEF Whole
<1>1. PICK n \in 1 .. Count : Occupied = n * ItemSize
  BY <1>0 DEF IInv, PopSome, PopPublish
<1>2. /\ n - 1 \in 0 .. Count - 1 /\ Occupied' = (n - 1) * ItemSize
      /\ buffer' = buffer /\ read' = Advance(read, ItemSize)
  BY <1>0, <1>1, PublishRemoves DEF PopPublish, producer
<1>3. ASSUME NEW m \in 0 .. Count, Occupied' = m * ItemSize PROVE m = n - 1
  <2>1. m < n - 1 => m * ItemSize + ItemSize <= (n - 1) * ItemSize
    BY <1>2
  <2>2. n - 1 < m => (n - 1) * ItemSize + ItemSize <= m * ItemSize
    BY <1>2
  <2>3. m * ItemSize \in Nat /\ (n - 1) * ItemSize = m * ItemSize
    BY <1>2, <1>3
  <2> QED BY <2>1, <2>2, <2>3
<1>4. ASSUME NEW k \in 0 .. n - 2
      PROVE  \E e \in Elements : \A o \in Offsets :
               buffer[Advance(read', k * ItemSize + o)] = <<e, o>>
  <2>1. k + 1 \in 0 .. n - 1 /\ (k + 1) * ItemSize = k * ItemSize + ItemSize
    OBVIOUS
  <2>2. PICK e \in Elements : \A o \in Offsets :
          buffer[Advance(read, (k + 1) * ItemSize + o)] = <<e, o>>
    <3>1. n \in 0 .. Count
      BY <1>1
    <3> QED BY ONLY <1>0, <1>1, <2>1, <3>1 DEF Stored
  <2>3. ASSUME NEW o \in Offsets
        PROVE  Advance(read', k * ItemSize + o) = Advance(read, (k + 1) * ItemSize + o)
    <3>0. n \in 0 .. Count
      BY <1>1
    <3>1. (k + 1) * ItemSize + o < n * ItemSize /\ n * ItemSize < totalSize
      BY ONLY <1>0, <2>1, <2>3, <3>0, Bounds
    <3>2. k * ItemSize + o \in Nat
      BY DEF Offsets
    <3>3. ItemSize + (k * ItemSize + o) = (k + 1) * ItemSize + o
      BY <2>1, <3>2 DEF Offsets
    <3> QED BY <1>0, <1>2, <3>1, <3>2, <3>3, Bounds, AdvanceTwice
  <2> QED BY <2>2, <2>3
<1>5. Stored'
  <2>1. ASSUME NEW m \in 0 .. Count, Occupied' = m * ItemSize, NEW k \in 0 .. m - 1
        PROVE  \E e \in Elements : \A o \in Offsets :
                 buffer'[Advance(read', k * ItemSize + o)] = <<e, o>>
    <3>1. m = n - 1
      BY <1>3, <2>1
    <3>2. k \in 0 .. n - 2
      BY <1>1, <2>1, <3>1
    <3> QED BY ONLY <1>2, <1>4, <3>2
  <2> QED BY <2>1 DEF Stored, Advance
<1>6. \E e \in Elements : out = BytesOf(e) /\ buffer[read] = <<e, 0>>
  <2>0. n \in 0 .. Count /\ 0 \in 0 .. n - 1
    BY <1>1
  <2>1. PICK e \in Elements : \A o \in Offsets : buffer[Advance(read, 0 * ItemSize + o)] = <<e, o>>
    BY ONLY <1>0, <1>1, <2>0 DEF Stored
  <2>2. \A o \in Offsets : buffer[Advance(read, o)] = <<e, o>>
    <3>1. \A o \in Offsets : 0 * ItemSize + o = o
      BY 0 * ItemSize = 0 DEF Offsets
    <3> QED BY ONLY <2>1, <3>1
  <2>3. \A o \in Offsets : out[o] = <<e, o>>
    BY <1>0, <2>2 DEF HalfPopped, PopPublish
  <2>4. out = BytesOf(e)
    BY <1>0, <2>3 DEF IInv, TypeOK, BytesOf
  <2>5. 0 \in Offsets /\ Advance(read, 0) = read
    BY <1>0, Bounds DEF Offsets, Advance
  <2> QED BY <2>2, <2>4, <2>5
<1> QED BY <1>5, <1>6

\* The bytes, like the cursors, are an invariant.
LEMMA WholeStep == Whole /\ [Next]_vars => Whole'
<1> SUFFICES ASSUME Whole, [Next]_vars PROVE Whole'
  OBVIOUS
<1>0. IInv /\ Stored /\ HalfPushed /\ HalfPopped
  BY DEF Whole
<1>1. IInv'
  BY <1>0, TypeStep, SlotStep DEF IInv
<1>2. ASSUME UNCHANGED <<buffer, write, read>>
      PROVE  Stored'
  BY <1>0, <1>2, StoredKept
<1>3. CASE (\E e \in Elements : PushCall(e)) \/ PushCheck
  <2>1. /\ UNCHANGED <<buffer, write, read, popPc, out>>
        /\ pushPc' \in {"idle", "check", "head"}
    BY <1>3 DEF PushCall, PushCheck, consumer
  <2> QED BY <1>0, <1>1, <1>2, <2>1 DEF Whole, HalfPushed, HalfPopped, CopyLen, Advance
<1>4. CASE PushHead \/ PushRest
  <2>1. UNCHANGED <<write, read, popPc, out>>
    BY <1>4 DEF PushHead, PushRest, consumer
  <2>2. \A j \in Nat : j < Occupied => buffer'[Advance(read, j)] = buffer[Advance(read, j)]
    BY <1>0, <1>4, Untouched
  <2>3. Stored'
    BY <1>0, <2>1, <2>2, StoredKept
  <2>4. HalfPopped'
    <3>1. ASSUME popPc \in {"rest", "publish"}, NEW o \in Offsets
          PROVE  buffer'[Advance(read, o)] = buffer[Advance(read, o)]
      <4>1. PICK n \in 1 .. Count : Occupied = n * ItemSize
        BY <1>0, <3>1 DEF IInv, PopSome
      <4>2. 0 \in 0 .. n - 1 /\ n \in 0 .. Count /\ 0 * ItemSize + o = o
        BY Products DEF Offsets
      <4>3. o \in Nat /\ o < Occupied
        BY <1>0, <4>1, <4>2, Bounds
      <4> QED BY <2>2, <4>3
    <3> QED BY <1>0, <2>1, <3>1 DEF HalfPopped, CopyLen, Advance
  <2> QED BY <1>0, <1>1, <1>4, <2>3, <2>4, Pushed DEF Whole
<1>5. CASE PushPublish
  <2>1. UNCHANGED <<buffer, read, popPc, out>> /\ pushPc' = "idle"
    BY <1>5 DEF PushPublish, consumer
  <2> QED BY <1>0, <1>1, <1>5, <2>1, StoredPush DEF Whole, HalfPushed, HalfPopped, CopyLen, Advance
<1>6. CASE PopCall \/ PopCheck
  <2>1. /\ UNCHANGED <<buffer, write, read, pushPc, element, out>>
        /\ popPc' \in {"idle", "check", "head"} /\ popPc \in {"idle", "check"}
    BY <1>6 DEF PopCall, PopCheck, producer
  <2> QED BY <1>0, <1>1, <1>2, <2>1 DEF Whole, HalfPushed, HalfPopped, CopyLen, Advance
<1>7. CASE PopHead \/ PopRest
  <2>1. UNCHANGED <<buffer, write, read, pushPc, element>>
    BY <1>7 DEF PopHead, PopRest, producer
  <2> QED BY <1>0, <1>1, <1>2, <1>7, <2>1, Popped DEF Whole, HalfPushed, CopyLen, Advance
<1>8. CASE PopPublish
  <2>1. UNCHANGED <<buffer, write, pushPc, element, out>> /\ popPc' = "idle"
    BY <1>8 DEF PopPublish, producer
  <2>2. Stored' /\ \E e \in Elements : out = BytesOf(e)
    BY <1>8, StoredPop
  <2> QED BY <1>0, <1>1, <2>1, <2>2 DEF Whole, HalfPushed, HalfPopped, CopyLen, Advance, BytesOf
<1>9. CASE UNCHANGED vars
  <2>1. UNCHANGED <<buffer, write, read, pushPc, element, popPc, out>>
    BY <1>9 DEF vars
  <2> QED BY <1>0, <1>1, <1>2, <2>1 DEF Whole, HalfPushed, HalfPopped, CopyLen, Advance
<1> QED BY <1>3, <1>4, <1>5, <1>6, <1>7, <1>8, <1>9 DEF Next, Push, Pop

\* It holds of the ring that LFQUE_Create returns.
LEMMA InitWhole == Init => Whole
<1> SUFFICES ASSUME Init PROVE Whole
  OBVIOUS
<1>1. Occupied = 0
  BY Products DEF Init, LFQUE_Create, Occupied
<1>2. \A n \in 0 .. Count : Occupied = n * ItemSize => n = 0
  <2> TAKE n \in 0 .. Count
  <2>1. 0 < n => 0 * ItemSize + ItemSize <= n * ItemSize
    BY Products
  <2> QED BY <1>1, <2>1, Products
<1>3. Stored
  BY <1>2 DEF Stored
<1> QED BY <1>3, InitIInv DEF Whole, HalfPushed, HalfPopped, Init

\* In every reachable state.
LEMMA AlwaysWhole == Spec => []Whole
BY InitWhole, WholeStep, PTL DEF Spec

-----------------------------------------------------------------------------
(* The elements between the cursors, as a sequence. *)

\* A distance of n slots holds n elements.
LEMMA ItemsAre ==
  ASSUME Whole, NEW n \in 0 .. Count, Occupied = n * ItemSize
  PROVE  /\ Items = [k \in 1 .. n |-> buffer[Advance(read, (k - 1) * ItemSize)][1]]
         /\ Items \in Seq(Elements) /\ Len(Items) = n
         /\ \A k \in 1 .. n : \A o \in Offsets :
              buffer[Advance(read, (k - 1) * ItemSize + o)] = <<Items[k], o>>
<1> USE Products
<1>1. Occupied \div ItemSize = n
  <2>1. n \in Nat /\ ItemSize \in Nat /\ ItemSize > 0
    OBVIOUS
  <2>2. (n * ItemSize) \div ItemSize = n
    BY <2>1
  <2> QED BY <2>2
<1>2. Items = [k \in 1 .. n |-> buffer[Advance(read, (k - 1) * ItemSize)][1]]
  BY <1>1 DEF Items
<1>3. ASSUME NEW k \in 1 .. n
      PROVE  /\ Items[k] \in Elements
             /\ \A o \in Offsets : buffer[Advance(read, (k - 1) * ItemSize + o)] = <<Items[k], o>>
  <2>1. k - 1 \in 0 .. n - 1 /\ (k - 1) * ItemSize \in Nat
    OBVIOUS
  <2>2. PICK e \in Elements : \A o \in Offsets :
          buffer[Advance(read, (k - 1) * ItemSize + o)] = <<e, o>>
    BY <2>1 DEF Whole, Stored
  <2>3. 0 \in Offsets /\ (k - 1) * ItemSize + 0 = (k - 1) * ItemSize
    BY <2>1 DEF Offsets
  <2>4. Items[k] = e
    BY <1>2, <2>2, <2>3
  <2> QED BY <2>2, <2>4
<1>4. Items \in [1 .. n -> Elements]
  BY <1>2, <1>3
<1>5. n \in Nat
  OBVIOUS
<1>6. Items \in Seq(Elements) /\ Len(Items) = n
  BY ONLY <1>4, <1>5
<1> QED BY ONLY <1>2, <1>3, <1>6

\* No element that is stored or handed over mixes the bytes of two pushes, for
\* every slot size and count.
THEOREM ElementsWhole == Spec => []NoTearing
<1>1. Whole => NoTearing
  <2> SUFFICES ASSUME Whole PROVE NoTearing
    OBVIOUS
  <2>0. IInv /\ HalfPopped
    BY DEF Whole
  <2>1. PICK n \in 0 .. Count : Occupied = n * ItemSize
    BY <2>0 DEF IInv, WholeSlots
  <2>2. ASSUME NEW k \in 1 .. Len(Items), NEW o \in Offsets
        PROVE  buffer[Advance(Advance(read, (k - 1) * ItemSize), o)] = <<Items[k], o>>
    <3>1. k \in 1 .. n
      BY <2>1, ItemsAre
    <3>2. k - 1 \in 0 .. n - 1 /\ (k - 1) * ItemSize \in Nat
      BY <3>1, Products
    <3>3. (k - 1) * ItemSize + o < totalSize /\ o \in Nat
      <4>1. (k - 1) * ItemSize + o < n * ItemSize /\ n * ItemSize < totalSize
        BY <2>0, <3>2, Bounds
      <4> QED BY <3>2, <4>1, Products DEF Offsets
    <3>4. Advance(Advance(read, (k - 1) * ItemSize), o) = Advance(read, (k - 1) * ItemSize + o)
      BY <2>0, <3>2, <3>3, Bounds, AdvanceTwice
    <3> QED BY <2>1, <3>1, <3>4, ItemsAre
  <2> QED BY <2>0, <2>2 DEF NoTearing, HalfPopped
<1> QED BY <1>1, AlwaysWhole, PTL

-----------------------------------------------------------------------------
(* Refinement.  A push takes effect at its full test when it is refused and  *)
(* at the publication of write when it is accepted; a pop at its empty test  *)
(* or at the publication of read.  All other steps stutter.                  *)

\* A sequence with one more element at its end.
LEMMA AppendIs ==
  ASSUME NEW S, NEW s \in Seq(S), NEW t \in Seq(S), NEW e \in S,
         Len(t) = Len(s) + 1, t[Len(s) + 1] = e,
         \A k \in 1 .. Len(s) : t[k] = s[k]
  PROVE  t = Append(s, e)
<1>1. /\ Append(s, e) \in Seq(S) /\ Len(Append(s, e)) = Len(s) + 1
      /\ \A k \in 1 .. Len(s) : Append(s, e)[k] = s[k]
      /\ Append(s, e)[Len(s) + 1] = e
  BY AppendProperties
<1>2. \A k \in 1 .. Len(t) : t[k] = Append(s, e)[k]
  <2> TAKE k \in 1 .. Len(t)
  <2>1. k \in 1 .. Len(s) \/ k = Len(s) + 1
    OBVIOUS
  <2> QED BY <1>1, <2>1
<1> QED BY <1>1, <1>2, SeqEqual

\* A sequence without its first element.
LEMMA TailIs ==
  ASSUME NEW S, NEW s \in Seq(S), NEW t \in Seq(S), Len(s) = Len(t) + 1,
         \A k \in 1 .. Len(t) : t[k] = s[k + 1]
  PROVE  t = Tail(s) /\ Head(s) = s[1] /\ s # <<>>
<1>1. s # <<>>
  OBVIOUS
<1>2. /\ Tail(s) \in Seq(S) /\ Len(Tail(s)) = Len(s) - 1
      /\ \A k \in 1 .. Len(Tail(s)) : Tail(s)[k] = s[k + 1]
  BY <1>1, HeadTailProperties
<1> QED BY <1>1, <1>2, SeqEqual

\* The elements after a step, for the number of slots they fill.
LEMMA ItemsNext ==
  ASSUME Whole', NEW n \in 0 .. Count, Occupied' = n * ItemSize
  PROVE  /\ Items' \in Seq(Elements) /\ Len(Items') = n
         /\ \A k \in 1 .. n : Items'[k] = buffer'[Advance(read', (k - 1) * ItemSize)][1]
<1> USE Products
<1>1. Occupied' \div ItemSize = n
  <2>1. n \in Nat /\ ItemSize \in Nat /\ ItemSize > 0
    OBVIOUS
  <2>2. (n * ItemSize) \div ItemSize = n
    BY <2>1
  <2> QED BY <2>2
<1>2. Items' = [k \in 1 .. n |-> buffer'[Advance(read', (k - 1) * ItemSize)][1]]
  BY <1>1 DEF Items, Advance, totalSize
<1>3. ASSUME NEW k \in 1 .. n PROVE Items'[k] \in Elements
  <2>1. k - 1 \in 0 .. n - 1 /\ (k - 1) * ItemSize \in Nat
    OBVIOUS
  <2>2. PICK e \in Elements : \A o \in Offsets :
          buffer'[Advance(read', (k - 1) * ItemSize + o)] = <<e, o>>
    BY ONLY Whole', <2>1, n \in 0 .. Count, Occupied' = n * ItemSize DEF Whole, Stored, Advance
  <2>3. 0 \in Offsets /\ (k - 1) * ItemSize + 0 = (k - 1) * ItemSize
    BY <2>1 DEF Offsets
  <2> QED BY <1>2, <2>2, <2>3
<1>4. Items' \in [1 .. n -> Elements]
  BY <1>2, <1>3
<1>5. n \in Nat
  OBVIOUS
<1>6. Items' \in Seq(Elements) /\ Len(Items') = n
  BY ONLY <1>4, <1>5
<1> QED BY ONLY <1>2, <1>6

\* A published push appends its element.
LEMMA ItemsPush ==
  ASSUME Whole, PushPublish
  PROVE  Items' = Append(Items, element) /\ Len(Items) < Count
<1>0. IInv /\ HalfPushed
  BY DEF Whole
<1>1. PICK n \in 0 .. Count - 1 : Occupied = n * ItemSize
  BY <1>0 DEF IInv, PushRoom, PushPublish
<1>2. n \in 0 .. Count /\ n + 1 \in 0 .. Count /\ n \in Nat /\ n < Count
  BY <1>1, Products
<1>3. /\ Occupied' = (n + 1) * ItemSize /\ buffer' = buffer /\ read' = read
  BY <1>0, <1>1, PublishAdds DEF PushPublish, consumer
<1>4. Whole'
  BY WholeStep DEF Next, Push
<1>5. /\ Items \in Seq(Elements) /\ Len(Items) = n
      /\ \A k \in 1 .. n : Items[k] = buffer[Advance(read, (k - 1) * ItemSize)][1]
  BY <1>1, <1>2, ItemsAre
<1>6. /\ Items' \in Seq(Elements) /\ Len(Items') = n + 1
      /\ \A k \in 1 .. n + 1 : Items'[k] = buffer'[Advance(read', (k - 1) * ItemSize)][1]
  BY <1>2, <1>3, <1>4, ItemsNext
<1>7. Items'[n + 1] = element
  <2>1. n + 1 \in 1 .. n + 1 /\ (n + 1) - 1 = n
    BY <1>2
  <2>2. Items'[n + 1] = buffer[Advance(read, n * ItemSize)][1]
    BY <1>3, <1>6, <2>1
  <2>3. write = Advance(read, n * ItemSize)
    BY <1>0, <1>1, WriteAhead
  <2>4. 0 \in Offsets /\ Advance(write, 0) = write
    BY <1>0, Products, Bounds DEF Offsets, Advance
  <2>5. buffer[write] = <<element, 0>>
    BY <1>0, <2>4 DEF HalfPushed, PushPublish
  <2> QED BY <2>2, <2>3, <2>5
<1>8. \A k \in 1 .. n : Items'[k] = Items[k]
  BY <1>2, <1>3, <1>5, <1>6
<1>9. element \in Elements
  BY <1>0 DEF IInv, TypeOK
<1> QED BY <1>2, <1>5, <1>6, <1>7, <1>8, <1>9, AppendIs

\* A published pop takes the first element.
LEMMA ItemsPop ==
  ASSUME Whole, PopPublish
  PROVE  Items # <<>> /\ Items' = Tail(Items) /\ out[0][1] = Head(Items)
<1>0. IInv
  BY DEF Whole
<1>1. PICK n \in 1 .. Count : Occupied = n * ItemSize
  BY <1>0 DEF IInv, PopSome, PopPublish
<1>2. n \in 0 .. Count /\ n - 1 \in 0 .. Count /\ n \in Nat /\ n > 0
  BY <1>1, Products
<1>3. /\ Occupied' = (n - 1) * ItemSize /\ buffer' = buffer
      /\ read' = Advance(read, ItemSize)
  BY <1>0, <1>1, PublishRemoves DEF PopPublish, producer
<1>4. Whole'
  BY WholeStep DEF Next, Pop
<1>5. /\ Items \in Seq(Elements) /\ Len(Items) = n
      /\ \A k \in 1 .. n : Items[k] = buffer[Advance(read, (k - 1) * ItemSize)][1]
  BY <1>1, <1>2, ItemsAre
<1>6. /\ Items' \in Seq(Elements) /\ Len(Items') = n - 1
      /\ \A k \in 1 .. n - 1 : Items'[k] = buffer'[Advance(read', (k - 1) * ItemSize)][1]
  BY <1>2, <1>3, <1>4, ItemsNext
<1>7. ASSUME NEW k \in 1 .. n - 1 PROVE Items'[k] = Items[k + 1]
  <2>1. /\ k + 1 \in 1 .. n /\ (k + 1) - 1 = k /\ k \in Nat
        /\ k - 1 \in Nat /\ (k - 1) + 1 = k /\ k \in 0 .. Count
    <3>1. n \in Nat /\ Count \in Nat /\ n <= Count
      BY <1>1, Products
    <3> QED BY ONLY <3>1, k \in 1 .. n - 1
  <2>2. /\ (k - 1) * ItemSize \in Nat /\ k * ItemSize = (k - 1) * ItemSize + ItemSize
        /\ ItemSize \in Nat
    BY <2>1, Products
  <2>3. k * ItemSize < totalSize
    BY <1>0, <2>1, Bounds
  <2>4. /\ Advance(Advance(read, ItemSize), (k - 1) * ItemSize)
             = Advance(read, ItemSize + (k - 1) * ItemSize)
        /\ ItemSize + (k - 1) * ItemSize = k * ItemSize
    <3>1. ItemSize + (k - 1) * ItemSize = k * ItemSize
      BY ONLY <2>2
    <3>2. read \in Nat /\ read < totalSize
      BY <1>0, Bounds
    <3>3. ASSUME NEW a \in Nat, ItemSize + a < totalSize
          PROVE  Advance(Advance(read, ItemSize), a) = Advance(read, ItemSize + a)
      BY ONLY <2>2, <3>2, <3>3, AdvanceTwice
    <3>4. (k - 1) * ItemSize \in Nat /\ ItemSize + (k - 1) * ItemSize < totalSize
      BY ONLY <2>2, <2>3, <3>1
    <3> QED BY ONLY <3>1, <3>3, <3>4
  <2> QED BY <1>3, <1>5, <1>6, <1>7, <2>1, <2>4
<1>8. out[0][1] = Items[1]
  <2>1. PICK e \in Elements : out = BytesOf(e) /\ buffer[read] = <<e, 0>>
    BY StoredPop
  <2>2. out[0] = <<e, 0>>
    BY <2>1, Products DEF BytesOf, Offsets
  <2>3. 1 \in 1 .. n /\ (1 - 1) * ItemSize = 0
    BY <1>2, Products
  <2>4. Advance(read, 0) = read
    BY <1>0, Bounds, Products DEF Advance
  <2> QED BY <1>5, <2>1, <2>2, <2>3, <2>4
<1>9. Items' = Tail(Items) /\ Head(Items) = Items[1] /\ Items # <<>>
  BY <1>2, <1>5, <1>6, <1>7, TailIs
<1> QED BY <1>8, <1>9

\* A full ring holds Count elements, an empty one none.
LEMMA ItemsEnds ==
  ASSUME Whole
  PROVE  (IsFull => Len(Items) = Count) /\ (IsEmpty => Items = <<>>)
<1> USE Products
<1>0. IInv
  BY DEF Whole
<1>1. PICK n \in 0 .. Count : Occupied = n * ItemSize
  BY <1>0 DEF IInv, WholeSlots
<1>2. /\ write \in Nat /\ read \in Nat /\ write < totalSize /\ read < totalSize
      /\ n \in Nat
  BY <1>0, <1>1, Bounds
<1>3. Items \in Seq(Elements) /\ Len(Items) = n
  BY <1>1, ItemsAre
<1>4. ASSUME IsFull PROVE n = Count
  <2>1. Occupied = Count * ItemSize
    BY <1>2, <1>4 DEF IsFull, Advance, Occupied
  <2>2. n < Count => n * ItemSize + ItemSize <= Count * ItemSize
    BY <1>2
  <2>3. n \in 0 .. Count /\ n * ItemSize \in Nat /\ n * ItemSize = Count * ItemSize
    BY <1>1, <1>2, <2>1
  <2> QED BY <1>2, <2>2, <2>3
<1>5. ASSUME IsEmpty PROVE n = 0
  <2>1. Occupied = 0
    BY <1>2, <1>5 DEF IsEmpty, Occupied
  <2>2. 0 < n => 0 * ItemSize + ItemSize <= n * ItemSize
    BY <1>2
  <2> QED BY <1>1, <1>2, <2>1, <2>2
<1>6. Len(Items) = 0 => Items = <<>>
  BY ONLY <1>3, EmptySeq
<1> QED BY <1>3, <1>4, <1>5, <1>6

\* The cursors and the bytes between them determine the elements.
LEMMA ItemsSame ==
  ASSUME Whole, Whole', write' = write, read' = read,
         \A j \in Nat : j < Occupied => buffer'[Advance(read, j)] = buffer[Advance(read, j)]
  PROVE  Items' = Items
<1>1. IInv
  BY DEF Whole
<1>2. PICK n \in 0 .. Count : Occupied = n * ItemSize
  BY <1>1 DEF IInv, WholeSlots
<1>3. Occupied' = n * ItemSize
  BY <1>2, SameOccupied
<1>4. /\ Items \in Seq(Elements) /\ Len(Items) = n
      /\ \A k \in 1 .. n : Items[k] = buffer[Advance(read, (k - 1) * ItemSize)][1]
  BY <1>2, ItemsAre
<1>5. /\ Items' \in Seq(Elements) /\ Len(Items') = n
      /\ \A k \in 1 .. n : Items'[k] = buffer'[Advance(read', (k - 1) * ItemSize)][1]
  BY <1>3, ItemsNext
<1>6. ASSUME NEW k \in 1 .. n PROVE Items'[k] = Items[k]
  <2>1. k - 1 \in 0 .. n - 1 /\ 0 \in Offsets
    BY Products DEF Offsets
  <2>2. (k - 1) * ItemSize + 0 \in Nat /\ (k - 1) * ItemSize + 0 < Occupied
    BY <1>1, <1>2, <2>1, Bounds
  <2>3. (k - 1) * ItemSize \in Nat /\ (k - 1) * ItemSize < Occupied
    <3>1. k - 1 \in Nat
      BY <2>1
    <3>2. (k - 1) * ItemSize \in Nat
      BY <3>1, Products
    <3> QED BY ONLY <2>2, <3>2
  <2> QED BY <1>4, <1>5, <2>3
<1> QED BY <1>4, <1>5, <1>6, SeqEqual

\* The abstract arguments, return codes and element (the substitutions of Fifo).
Arg == [p \in {0} |-> element]
PutRet == [p \in {0} |-> IF pushPc = "idle" THEN pushRet ELSE "pending"]
GetRet == IF popPc = "idle" THEN popRet ELSE "pending"
Got == IF popPc = "idle" /\ popRet = "EC_SUCCESS" THEN out[0][1] ELSE NoElement

LEMMA InitFifo == Init => Fifo!Init
<1> SUFFICES ASSUME Init PROVE Fifo!Init
  OBVIOUS
<1>1. Items = <<>>
  <2>1. Whole /\ IsEmpty
    BY InitWhole DEF Init, LFQUE_Create, IsEmpty
  <2> QED BY <2>1, ItemsEnds
<1>2. Arg \in [{0} -> Elements] /\ PutRet = [p \in {0} |-> "EC_SUCCESS"] /\ GetRet = "EC_SUCCESS"
  BY DEF Init, Arg, PutRet, GetRet
<1>3. Got = NoElement
  BY Products DEF Init, Got, BytesOf, Offsets
<1> QED BY <1>1, <1>2, <1>3 DEF Fifo!Init, Arg, PutRet, GetRet, Got

\* Every step of the ring is a step of the FIFO or a stutter.
LEMMA NextFifo == Whole /\ [Next]_vars => [Fifo!Next]_(Fifo!vars)
<1> SUFFICES ASSUME Whole, [Next]_vars PROVE [Fifo!Next]_(Fifo!vars)
  OBVIOUS
<1>0. IInv /\ TypeOK /\ Whole'
  BY WholeStep DEF Whole, IInv
<1>a. ASSUME UNCHANGED <<Items, Arg, PutRet, GetRet, Got>>
      PROVE  [Fifo!Next]_(Fifo!vars)
  BY <1>a DEF Fifo!vars, Arg, PutRet, GetRet, Got
<1>b. ASSUME UNCHANGED <<buffer, write, read>>
      PROVE  Items' = Items
  BY <1>0, <1>b, ItemsSame
<1>c. ASSUME UNCHANGED producer PROVE UNCHANGED <<Arg, PutRet>>
  BY <1>c DEF producer, Arg, PutRet
<1>d. ASSUME UNCHANGED consumer PROVE UNCHANGED <<GetRet, Got>>
  BY <1>d DEF consumer, GetRet, Got
<1>1. ASSUME NEW e \in Elements, PushCall(e) PROVE [Fifo!Next]_(Fifo!vars)
  <2>1. Items' = Items /\ UNCHANGED <<GetRet, Got>>
    BY <1>1, <1>b, <1>d DEF PushCall
  <2>2. Arg' = [Arg EXCEPT ![0] = e]
    BY <1>1 DEF PushCall, Arg
  <2>3. PutRet[0] # "pending" /\ PutRet' = [PutRet EXCEPT ![0] = "pending"]
    BY <1>0, <1>1 DEF PushCall, PutRet, TypeOK
  <2>4. Fifo!CallPut(0, e)
    BY <2>1, <2>2, <2>3 DEF Fifo!CallPut, Arg, PutRet, GetRet, Got
  <2> QED BY <2>4 DEF Fifo!Next
<1>2. CASE PushCheck
  <2>1. Items' = Items /\ UNCHANGED <<GetRet, Got>> /\ Arg' = Arg
    BY <1>2, <1>b, <1>d DEF PushCheck, Arg
  <2>2. CASE IsFull
    <3>1. Len(Items) = Count
      BY <2>2, ItemsEnds
    <3>2. PutRet[0] = "pending" /\ PutRet' = [PutRet EXCEPT ![0] = "EC_BUSBUSY"]
      BY <1>2, <2>2 DEF PushCheck, PutRet
    <3>3. Fifo!RefusePut(0)
      BY <2>1, <3>1, <3>2 DEF Fifo!RefusePut, Arg, PutRet, GetRet, Got
    <3> QED BY <3>3 DEF Fifo!Next
  <2>3. CASE ~IsFull
    <3>1. PutRet' = PutRet
      BY <1>2, <2>3 DEF PushCheck, PutRet
    <3> QED BY <1>a, <2>1, <3>1
  <2> QED BY <2>2, <2>3
<1>3. CASE PushHead \/ PushRest
  <2>1. \A j \in Nat : j < Occupied => buffer'[Advance(read, j)] = buffer[Advance(read, j)]
    BY <1>0, <1>3, Untouched
  <2>2. write' = write /\ read' = read /\ UNCHANGED consumer
    BY <1>3 DEF PushHead, PushRest
  <2>3. Items' = Items
    BY <1>0, <2>1, <2>2, ItemsSame
  <2>4. UNCHANGED <<Arg, PutRet>>
    BY <1>3 DEF PushHead, PushRest, Arg, PutRet
  <2> QED BY <1>a, <1>d, <2>2, <2>3, <2>4
<1>4. CASE PushPublish
  <2>1. Arg' = Arg /\ UNCHANGED <<GetRet, Got>> /\ Arg[0] = element
    BY <1>4, <1>d DEF PushPublish, Arg
  <2>2. PutRet[0] = "pending" /\ PutRet' = [PutRet EXCEPT ![0] = "EC_SUCCESS"]
    BY <1>4 DEF PushPublish, PutRet
  <2>3. Len(Items) < Count /\ Items' = Append(Items, Arg[0])
    BY <1>4, <2>1, ItemsPush
  <2>4. Fifo!Put(0)
    BY <2>1, <2>2, <2>3 DEF Fifo!Put, Arg, PutRet, GetRet, Got
  <2> QED BY <2>4 DEF Fifo!Next
<1>5. CASE PopCall
  <2>1. Items' = Items /\ UNCHANGED <<Arg, PutRet>>
    BY <1>5, <1>b, <1>c DEF PopCall
  <2>2. GetRet # "pending" /\ GetRet' = "pending" /\ Got' = NoElement
    BY <1>0, <1>5 DEF PopCall, GetRet, Got, TypeOK
  <2>3. Fifo!CallGet
    BY <2>1, <2>2 DEF Fifo!CallGet, Arg, PutRet, GetRet, Got
  <2> QED BY <2>3 DEF Fifo!Next
<1>6. CASE PopCheck
  <2>1. Items' = Items /\ UNCHANGED <<Arg, PutRet>>
    BY <1>6, <1>b, <1>c DEF PopCheck
  <2>2. Got' = Got
    BY <1>6 DEF PopCheck, Got
  <2>3. CASE IsEmpty
    <3>1. Items = <<>>
      BY <2>3, ItemsEnds
    <3>2. GetRet = "pending" /\ GetRet' = "EC_FAILURE"
      BY <1>6, <2>3 DEF PopCheck, GetRet
    <3>3. Fifo!FailGet
      BY <2>1, <2>2, <3>1, <3>2 DEF Fifo!FailGet, Arg, PutRet, GetRet, Got
    <3> QED BY <3>3 DEF Fifo!Next
  <2>4. CASE ~IsEmpty
    <3>1. GetRet' = GetRet
      BY <1>6, <2>4 DEF PopCheck, GetRet
    <3> QED BY <1>a, <2>1, <2>2, <3>1
  <2> QED BY <2>3, <2>4
<1>7. CASE PopHead \/ PopRest
  <2>1. Items' = Items /\ UNCHANGED <<Arg, PutRet>>
    BY <1>7, <1>b, <1>c DEF PopHead, PopRest
  <2>2. UNCHANGED <<GetRet, Got>>
    BY <1>7 DEF PopHead, PopRest, GetRet, Got
  <2> QED BY <1>a, <2>1, <2>2
<1>8. CASE PopPublish
  <2>1. UNCHANGED <<Arg, PutRet>>
    BY <1>8, <1>c DEF PopPublish
  <2>2. Items # <<>> /\ Items' = Tail(Items) /\ out[0][1] = Head(Items)
    BY <1>8, ItemsPop
  <2>3. GetRet = "pending" /\ GetRet' = "EC_SUCCESS" /\ Got' = Head(Items)
    BY <1>8, <2>2 DEF PopPublish, GetRet, Got
  <2>4. Fifo!Get
    BY <2>1, <2>2, <2>3 DEF Fifo!Get, Arg, PutRet, GetRet, Got
  <2> QED BY <2>4 DEF Fifo!Next
<1>9. CASE UNCHANGED vars
  <2>1. UNCHANGED <<buffer, write, read>> /\ UNCHANGED producer /\ UNCHANGED consumer
    BY <1>9 DEF vars, producer, consumer
  <2> QED BY <1>a, <1>b, <1>c, <1>d, <2>1
<1> QED BY <1>1, <1>2, <1>3, <1>4, <1>5, <1>6, <1>7, <1>8, <1>9 DEF Next, Push, Pop

\* The two unlocked threads of lock_free_queue.c implement the bounded FIFO,
\* for every slot size and count and whatever they interleave.
THEOREM RingImplementsFifo == Spec => ImplementsFifo
BY InitFifo, NextFifo, AlwaysWhole, PTL DEF Spec, ImplementsFifo, Fifo!Spec
=============================================================================
