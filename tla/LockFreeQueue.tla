---------------------------- MODULE LockFreeQueue ----------------------------
(***************************************************************************)
(* ohos_adapter/posix/lock_free_queue.c: a byte ring of Count slots of     *)
(* ItemSize bytes, one byte longer than the slots need, so that equal      *)
(* cursors mean "empty" only.  One producer runs LFQUE_Push while one      *)
(* consumer runs LFQUE_Pop; no lock is shared between them.  Each memcpy   *)
(* and each access to a cursor of the other side is a step of its own.     *)
(*                                                                         *)
(* The ring is not a multiple of the slot size, so an element may wrap     *)
(* around the end of the buffer and is then copied in two pieces, and the  *)
(* "full" test looks at one byte past write instead of a whole slot: both  *)
(* are right only while the distance of the cursors is a multiple of       *)
(* ItemSize.  Steps are sequentially consistent (the loads and stores of   *)
(* the supported targets keep program order).                              *)
(***************************************************************************)
EXTENDS Integers, Sequences

CONSTANTS Elements, ItemSize, Count, NoElement

ASSUME SizeAssumption == ItemSize \in Nat \ {0} /\ Count \in Nat \ {0}
ASSUME ElementAssumption == NoElement \notin Elements

VARIABLES
  buffer,     \* queue->buffer: the byte in each cell, <<element, offset>>
  write,      \* queue->write
  read,       \* queue->read
  pushPc,     \* where the producer is in LFQUE_Push ("idle": not in it)
  element,    \* the producer's argument
  pushRet,    \* what its last LFQUE_Push returned
  popPc,      \* where the consumer is in LFQUE_Pop
  out,        \* the bytes of the consumer's *element
  popRet      \* what its last LFQUE_Pop returned

producer == <<pushPc, element, pushRet>>
consumer == <<popPc, out, popRet>>
vars == <<buffer, write, read, pushPc, element, pushRet, popPc, out, popRet>>

totalSize == ItemSize * Count + 1
Cells == 0 .. totalSize - 1
Offsets == 0 .. ItemSize - 1
Bytes == (Elements \cup {NoElement}) \X Offsets
BytesOf(e) == [o \in Offsets |-> <<e, o>>]

\* Mutant: the cursor wraps one byte too late.
AdvanceLate(cursor, n) == IF cursor + n > totalSize THEN cursor + n - totalSize
                                                    ELSE cursor + n

\* A cursor moved n bytes forward, n at most totalSize.
Advance(cursor, n) == IF cursor + n >= totalSize THEN cursor + n - totalSize
                                                 ELSE cursor + n

\* The bytes of a slot at the cursor that lie before the end of the buffer.
CopyLen(cursor) == IF totalSize - cursor < ItemSize THEN totalSize - cursor
                                                    ELSE ItemSize

\* Mutants: a full test without the wrap of nextWrite, one that looks for a
\* whole slot, and one that gives up a slot too early.
IsFullNoWrap == write + 1 = read
IsFullSlot == Advance(write, ItemSize) = read
IsFullEarly == \/ Advance(write, 1) = read
               \/ Advance(write, ItemSize + 1) = read

IsFull == Advance(write, 1) = read
IsEmpty == write = read

LFQUE_Create == /\ buffer = [c \in Cells |-> <<NoElement, 0>>]
                /\ write = 0
                /\ read = 0

Init == /\ LFQUE_Create
        /\ pushPc = "idle" /\ pushRet = "EC_SUCCESS" /\ element \in Elements
        /\ popPc = "idle" /\ popRet = "EC_SUCCESS" /\ out = BytesOf(NoElement)

-----------------------------------------------------------------------------
(* LFQUE_Push *)

PushCall(e) == /\ pushPc = "idle"
               /\ pushPc' = "check"
               /\ element' = e
               /\ UNCHANGED <<buffer, write, read, pushRet, consumer>>

PushCheck == /\ pushPc = "check"
             /\ IF IsFull THEN pushPc' = "idle" /\ pushRet' = "EC_BUSBUSY"
                          ELSE pushPc' = "head" /\ UNCHANGED pushRet
             /\ UNCHANGED <<buffer, write, read, element, consumer>>

\* The memcpy of the part that fits before the end of the buffer.
PushHead == /\ pushPc = "head"
            /\ buffer' = [c \in Cells |->
                 IF c \in write .. write + CopyLen(write) - 1
                 THEN <<element, c - write>> ELSE buffer[c]]
            /\ pushPc' = IF ItemSize > CopyLen(write) THEN "rest" ELSE "publish"
            /\ UNCHANGED <<write, read, element, pushRet, consumer>>

\* Mutant: the second memcpy without "element += copyLen".
PushRestNoOffset == /\ pushPc = "rest"
                    /\ buffer' = [c \in Cells |->
                         IF c \in 0 .. ItemSize - CopyLen(write) - 1
                         THEN <<element, c>> ELSE buffer[c]]
                    /\ pushPc' = "publish"
                    /\ UNCHANGED <<write, read, element, pushRet, consumer>>

\* The memcpy of the rest, to the start of the buffer.
PushRest == /\ pushPc = "rest"
            /\ buffer' = [c \in Cells |->
                 IF c \in 0 .. ItemSize - CopyLen(write) - 1
                 THEN <<element, c + CopyLen(write)>> ELSE buffer[c]]
            /\ pushPc' = "publish"
            /\ UNCHANGED <<write, read, element, pushRet, consumer>>

PushPublish == /\ pushPc = "publish"
               /\ write' = Advance(write, ItemSize)
               /\ pushPc' = "idle"
               /\ pushRet' = "EC_SUCCESS"
               /\ UNCHANGED <<buffer, read, element, consumer>>

-----------------------------------------------------------------------------
(* LFQUE_Pop *)

PopCall == /\ popPc = "idle"
           /\ popPc' = "check"
           /\ UNCHANGED <<buffer, write, read, out, popRet, producer>>

PopCheck == /\ popPc = "check"
            /\ IF IsEmpty THEN popPc' = "idle" /\ popRet' = "EC_FAILURE"
                          ELSE popPc' = "head" /\ UNCHANGED popRet
            /\ UNCHANGED <<buffer, write, read, out, producer>>

PopHead == /\ popPc = "head"
           /\ out' = [o \in Offsets |->
                IF o < CopyLen(read) THEN buffer[read + o] ELSE out[o]]
           /\ popPc' = IF ItemSize > CopyLen(read) THEN "rest" ELSE "publish"
           /\ UNCHANGED <<buffer, write, read, popRet, producer>>

PopRest == /\ popPc = "rest"
           /\ out' = [o \in Offsets |->
                IF o < CopyLen(read) THEN out[o] ELSE buffer[o - CopyLen(read)]]
           /\ popPc' = "publish"
           /\ UNCHANGED <<buffer, write, read, popRet, producer>>

PopPublish == /\ popPc = "publish"
              /\ read' = Advance(read, ItemSize)
              /\ popPc' = "idle"
              /\ popRet' = "EC_SUCCESS"
              /\ UNCHANGED <<buffer, write, out, producer>>

-----------------------------------------------------------------------------
Push == PushCheck \/ PushHead \/ PushRest \/ PushPublish
Pop == PopCheck \/ PopHead \/ PopRest \/ PopPublish

Next == \/ \E e \in Elements : PushCall(e)
        \/ Push
        \/ PopCall
        \/ Pop

Spec == Init /\ [][Next]_vars

-----------------------------------------------------------------------------
(* Properties *)

\* The bytes between the cursors, going up from read.
Occupied == IF write >= read THEN write - read ELSE write + totalSize - read

\* The cells of the slot that starts at a cursor.
Slot(cursor) == {Advance(cursor, o) : o \in Offsets}

\* The cells from read up to write: bytes of elements not yet taken.
OccupiedCells == {c \in Cells :
                    IF write >= read THEN c \in read .. write - 1
                                     ELSE c >= read \/ c < write}

\* The states of the queue, the producer and the consumer have their types.
TypeOK == /\ buffer \in [Cells -> Bytes]
          /\ write \in Cells
          /\ read \in Cells
          /\ element \in Elements
          /\ out \in [Offsets -> Bytes]
          /\ pushPc \in {"idle", "check", "head", "rest", "publish"}
          /\ popPc \in {"idle", "check", "head", "rest", "publish"}
          /\ pushRet \in {"EC_SUCCESS", "EC_BUSBUSY"}
          /\ popRet \in {"EC_SUCCESS", "EC_FAILURE"}

\* The distance of the cursors is always a whole number of slots, at most
\* Count: what the one-byte full test of LFQUE_IsFull and the unlocked empty
\* test rely on, although the cursors are moved by different threads.
WholeSlots == \E n \in 0 .. Count : Occupied = n * ItemSize

\* The producer's memcpy never touches a byte of an element the consumer has
\* not released yet, and the consumer copies only published bytes: the two
\* unlocked memcpy pairs of LFQUE_Push and LFQUE_Pop never race.
NoOverlap ==
  /\ pushPc \in {"head", "rest", "publish"} => Slot(write) \cap OccupiedCells = {}
  /\ popPc \in {"head", "rest", "publish"} => Slot(read) \subseteq OccupiedCells

\* The elements between the cursors, read off the first byte of each slot.
Items == [k \in 1 .. Occupied \div ItemSize |->
            buffer[Advance(read, (k - 1) * ItemSize)][1]]

\* Every element handed over is whole: no popped or stored element mixes the
\* bytes of two pushes, also when it wraps around the end of the buffer.
NoTearing ==
  /\ popPc = "idle" => \E e \in Elements \cup {NoElement} : out = BytesOf(e)
  /\ \A k \in 1 .. Len(Items), o \in Offsets :
       buffer[Advance(Advance(read, (k - 1) * ItemSize), o)] = <<Items[k], o>>

\* The two unlocked threads together see a FIFO of exactly Count elements: a
\* push is refused only at an instant at which Count elements are stored, a
\* pop fails only at one at which none is, and elements come out in order.
\* A push takes effect in PushPublish and a pop in PopPublish.
Fifo == INSTANCE BoundedFifo WITH
  Producers <- {0},
  Capacity <- Count,
  items <- Items,
  arg <- [p \in {0} |-> element],
  putRet <- [p \in {0} |-> IF pushPc = "idle" THEN pushRet ELSE "pending"],
  getRet <- IF popPc = "idle" THEN popRet ELSE "pending",
  got <- IF popPc = "idle" /\ popRet = "EC_SUCCESS" THEN out[0][1]
                                                  ELSE NoElement
ImplementsFifo == Fifo!Spec
=============================================================================
