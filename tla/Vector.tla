-------------------------------- MODULE Vector --------------------------------
(***************************************************************************)
(* The growing vector of samgr_lite/samgr/source/common.c, in which the    *)
(* service manager keeps its services and a service its features.  The     *)
(* index of an element is its identity: it never moves, and a released     *)
(* slot (NULL) is given to another element only when the vector is full.   *)
(*                                                                         *)
(* A vector is a record: max and free as in SimpleVector, and data, the    *)
(* sequence of the slots below top (the memory above is never read), so    *)
(* that top is its length.  Indices are those of the code, from 0.         *)
(***************************************************************************)
EXTENDS Integers, Sequences, FiniteSets

CONSTANTS GrowStep,  \* GROW_STEP
          NULL

ASSUME VectorAssumption == GrowStep \in Nat \ {0}

INVALID_INDEX == -1

\* The vectors of elements of E.
Vectors(E) == [max : Nat, free : Int, data : Seq(E \cup {NULL})]

VECTOR_Make == [max |-> 0, free |-> 0, data |-> <<>>]

\* The indices whose slot was released.
Released(v) == {i \in 0 .. Len(v.data) - 1 : v.data[i + 1] = NULL}

\* The indices that hold an element.
Held(v) == (0 .. Len(v.data) - 1) \ Released(v)

\* vector->top >= vector->max
AtCapacity(v) == Len(v.data) >= v.max

\* The largest member of a non-empty set of indices.
Highest(S) == CHOOSE i \in S : \A j \in S : j <= i

\* Mutant: reused slots are not counted as used again.
VECTOR_AddKeepFree(v, e) ==
  IF AtCapacity(v) /\ Released(v) # {}
  THEN [v EXCEPT !.data[Highest(Released(v)) + 1] = e]
  ELSE [v EXCEPT !.data = Append(@, e),
                 !.max = IF AtCapacity(v) THEN @ + GrowStep ELSE @]

\* The index VECTOR_Add uses: the highest released slot of a full vector,
\* otherwise the slot above all others.
AddIndex(v) == IF AtCapacity(v) /\ Released(v) # {} THEN Highest(Released(v))
               ELSE Len(v.data)

\* VECTOR_Add, when the memory to grow is there.
VECTOR_Add(v, e) ==
  IF AddIndex(v) < Len(v.data)
  THEN [v EXCEPT !.data[AddIndex(v) + 1] = e, !.free = @ - 1]
  ELSE [v EXCEPT !.data = Append(@, e),
                 !.max = IF AtCapacity(v) THEN @ + GrowStep ELSE @]

VECTOR_At(v, i) == IF i \in 0 .. Len(v.data) - 1 THEN v.data[i + 1] ELSE NULL

\* Mutant: the slots above the released one move down.
VECTOR_ReleaseShift(v, i) ==
  [v EXCEPT !.data = SubSeq(@, 1, i) \o SubSeq(@, i + 2, Len(@))]

\* VECTOR_Swap(v, i, NULL): release a slot.
VECTOR_Release(v, i) == [v EXCEPT !.data[i + 1] = NULL, !.free = @ + 1]

\* VECTOR_Size and VECTOR_Num.
VECTOR_Size(v) == Len(v.data)
VECTOR_Num(v) == Len(v.data) - v.free

\* VECTOR_FindByKey, given the indices whose element has the key.
VECTOR_First(found) == IF found = {} THEN INVALID_INDEX
                       ELSE CHOOSE i \in found : \A j \in found : i <= j
=============================================================================
