---------------------------- MODULE RegistryProofs ----------------------------
(***************************************************************************)
(* The safety properties of Registry, for any names, interfaces, limits    *)
(* and GROW_STEP.                                                          *)
(***************************************************************************)
EXTENDS Registry, FiniteSetTheorems, NaturalsInduction, TLAPS

-----------------------------------------------------------------------------
(* The vector: what its operations do, for any elements.                   *)

\* A set of naturals has a smallest member.
LEMMA Smallest ==
  ASSUME NEW S \in SUBSET Nat, S # {}
  PROVE  \E x \in S : \A y \in S : x <= y
<1> DEFINE less == OpToRel(<, Nat)
<1>1. \A x, y \in Nat : x < y => <<x, y>> \in less
  BY Zenon DEF OpToRel
<1>2. PICK x \in S : \A y \in S : ~ (<<y, x>> \in less)
  BY NatLessThanWellFounded, WFMin
<1> HIDE DEF less
<1>3. \A y \in S : x \in Nat /\ y \in Nat /\ ~ (y < x)
  BY <1>1, <1>2
<1>4. \A y \in S : x <= y
  BY <1>3
<1> QED BY <1>4

\* VECTOR_First of some indices is one of them: VECTOR_FindByKey returns a
\* slot whose element has the key.
LEMMA FirstFound ==
  ASSUME NEW S \in SUBSET Nat, S # {}
  PROVE  VECTOR_First(S) \in S
BY Smallest DEF VECTOR_First

\* VECTOR_Add reuses a slot that was released.
LEMMA HighestFound ==
  ASSUME NEW n \in Nat, NEW S \in SUBSET (0 .. n), S # {}
  PROVE  Highest(S) \in S
<1> DEFINE T == {n - i : i \in S}
<1>1. T \in SUBSET Nat /\ T # {}
  <2>1. \A i \in 0 .. n : n - i \in Nat
    OBVIOUS
  <2> QED BY <2>1
<1>2. PICK x \in T : \A y \in T : x <= y
  BY <1>1, Smallest
<1>4. PICK i \in S : x = n - i
  OBVIOUS
<1>5. \A j \in S : j <= i
  BY <1>2, <1>4
<1> QED BY <1>5 DEF Highest

\* w is v with at most e added, at index k.
OnlyAdded(v, w, e, k) == \A i \in DOMAIN w.data :
                           \/ i = k + 1 /\ w.data[i] = e
                           \/ i \in DOMAIN v.data /\ w.data[i] = v.data[i]

\* VECTOR_Add writes the element to the index it returns, where there was no
\* other, and leaves every other slot as it was.
LEMMA AddKeepsOthers ==
  ASSUME NEW E, NEW e \in E, NEW v \in Vectors(E)
  PROVE  /\ VECTOR_Add(v, e) \in Vectors(E)
         /\ AddIndex(v) \in Int
         /\ OnlyAdded(v, VECTOR_Add(v, e), e, AddIndex(v))
<1> USE DEF Vectors, OnlyAdded
<1>1. Len(v.data) \in Nat /\ DOMAIN v.data = 1 .. Len(v.data) /\ GrowStep \in Nat
  BY VectorAssumption
<1>2. CASE AtCapacity(v) /\ Released(v) # {}
  <2>1. Len(v.data) # 0
    BY <1>1, <1>2 DEF Released
  <2>2. Highest(Released(v)) \in Released(v)
    BY <1>1, <1>2, <2>1, HighestFound, Len(v.data) - 1 \in Nat DEF Released
  <2>3. AddIndex(v) \in 0 .. Len(v.data) - 1
    BY <1>2, <2>2 DEF AddIndex, Released
  <2>4. VECTOR_Add(v, e) = [v EXCEPT !.data[AddIndex(v) + 1] = e, !.free = @ - 1]
    BY <1>1, <2>3 DEF VECTOR_Add
  <2>5. VECTOR_Add(v, e).data = [v.data EXCEPT ![AddIndex(v) + 1] = e]
    BY <2>4
  <2>6. VECTOR_Add(v, e).data \in Seq(E \cup {NULL})
    BY <1>1, <2>3, <2>5
  <2>7. VECTOR_Add(v, e) \in [max : Nat, free : Int, data : Seq(E \cup {NULL})]
    <3>1. VECTOR_Add(v, e) = [max |-> v.max, free |-> v.free - 1,
                              data |-> VECTOR_Add(v, e).data]
      BY <2>4
    <3> QED BY <2>6, <3>1
  <2> QED BY <1>1, <2>3, <2>5, <2>7
<1>3. CASE ~ (AtCapacity(v) /\ Released(v) # {})
  <2>1. AddIndex(v) = Len(v.data)
    BY <1>3 DEF AddIndex
  <2>2. VECTOR_Add(v, e) = [v EXCEPT !.data = Append(@, e),
                 !.max = IF AtCapacity(v) THEN @ + GrowStep ELSE @]
    BY <1>1, <2>1 DEF VECTOR_Add
  <2>3. VECTOR_Add(v, e).data = Append(v.data, e)
    BY <2>2
  <2>4. VECTOR_Add(v, e) \in [max : Nat, free : Int, data : Seq(E \cup {NULL})]
    <3>1. VECTOR_Add(v, e) = [max |-> VECTOR_Add(v, e).max, free |-> v.free,
                              data |-> Append(v.data, e)]
      BY <2>2
    <3>2. VECTOR_Add(v, e).max \in Nat
      BY <1>1, <2>2
    <3>3. Append(v.data, e) \in Seq(E \cup {NULL})
      OBVIOUS
    <3> QED BY <3>1, <3>2, <3>3
  <2> QED BY <1>1, <2>1, <2>3, <2>4
<1> QED BY <1>2, <1>3

\* VECTOR_Num and the index VECTOR_Add uses are numbers.
LEMMA AddIndexInt ==
  ASSUME NEW E, NEW v \in Vectors(E)
  PROVE  AddIndex(v) \in Int /\ VECTOR_Num(v) \in Int
<1>1. Len(v.data) \in Nat /\ v.free \in Int
  BY DEF Vectors
<1>2. CASE Released(v) # {}
  <2>1. Len(v.data) # 0
    BY <1>1, <1>2 DEF Released
  <2>2. Highest(Released(v)) \in Released(v)
    BY <1>1, <1>2, <2>1, HighestFound, Len(v.data) - 1 \in Nat DEF Released
  <2> QED BY <1>1, <2>2 DEF AddIndex, VECTOR_Num, Released
<1>3. CASE Released(v) = {}
  BY <1>1, <1>3 DEF AddIndex, VECTOR_Num
<1> QED BY <1>2, <1>3

\* The two ways VECTOR_Add works.
LEMMA AddCases ==
  ASSUME NEW E, NEW e \in E, NEW v \in Vectors(E)
  PROVE  LET k == AddIndex(v)  w == VECTOR_Add(v, e)
         IN \/ /\ AtCapacity(v) /\ k \in Released(v)
               /\ w.data = [v.data EXCEPT ![k + 1] = e]
               /\ w.free = v.free - 1 /\ w.max = v.max
            \/ /\ AtCapacity(v) => Released(v) = {}
               /\ k = Len(v.data)
               /\ w.data = Append(v.data, e) /\ w.free = v.free
               /\ w.max = IF AtCapacity(v) THEN v.max + GrowStep ELSE v.max
<1>1. Len(v.data) \in Nat /\ DOMAIN v.data = 1 .. Len(v.data)
  BY DEF Vectors
<1>2. CASE AtCapacity(v) /\ Released(v) # {}
  <2>1. Len(v.data) # 0
    BY <1>1, <1>2 DEF Released
  <2>2. Highest(Released(v)) \in Released(v)
    BY <1>1, <1>2, <2>1, HighestFound, Len(v.data) - 1 \in Nat DEF Released
  <2>3. AddIndex(v) \in Released(v) /\ AddIndex(v) < Len(v.data)
    BY <1>1, <1>2, <2>2 DEF AddIndex, Released
  <2> QED BY <1>2, <2>3 DEF VECTOR_Add, Vectors
<1>3. CASE ~ (AtCapacity(v) /\ Released(v) # {})
  <2>1. AddIndex(v) = Len(v.data)
    BY <1>3 DEF AddIndex
  <2> QED BY <1>1, <1>3, <2>1 DEF VECTOR_Add, Vectors
<1> QED BY <1>2, <1>3

\* VECTOR_Add fills one slot that held nothing; what was held stays where it
\* is.
LEMMA AddHeld ==
  ASSUME NEW E, NULL \notin E, NEW e \in E, NEW v \in Vectors(E)
  PROVE  LET k == AddIndex(v)  w == VECTOR_Add(v, e)
         IN /\ k \in Nat /\ k \notin Held(v) /\ k \in Held(w) /\ w.data[k + 1] = e
            /\ Held(w) = Held(v) \cup {k}
            /\ Released(w) = Released(v) \ {k}
            /\ \A i \in Held(v) : w.data[i + 1] = v.data[i + 1]
<1> DEFINE k == AddIndex(v)
           w == VECTOR_Add(v, e)
<1>1. v.data \in Seq(E \cup {NULL}) /\ Len(v.data) \in Nat /\ DOMAIN v.data = 1 .. Len(v.data)
  BY DEF Vectors
<1>2. e # NULL
  OBVIOUS
<1>3. CASE k \in Released(v) /\ w.data = [v.data EXCEPT ![k + 1] = e]
  <2>1. /\ k \in 0 .. Len(v.data) - 1 /\ v.data[k + 1] = NULL
        /\ Len(w.data) = Len(v.data) /\ w.data[k + 1] = e
        /\ \A i \in 0 .. Len(v.data) - 1 : i # k => w.data[i + 1] = v.data[i + 1]
    BY <1>1, <1>3 DEF Released
  <2> HIDE DEF w, k
  <2>2. Released(w) = Released(v) \ {k}
    BY <1>2, <2>1 DEF Released
  <2>3. Held(w) = Held(v) \cup {k} /\ k \notin Held(v) /\ k \in Held(w)
    BY <1>3, <2>1, <2>2 DEF Held
  <2>4. \A i \in Held(v) : w.data[i + 1] = v.data[i + 1]
    BY <2>1, <2>3 DEF Held
  <2> QED BY <2>1, <2>2, <2>3, <2>4 DEF w, k
<1>4. CASE k = Len(v.data) /\ w.data = Append(v.data, e)
  <2>1. /\ Len(w.data) = Len(v.data) + 1 /\ w.data[k + 1] = e
        /\ \A i \in 0 .. Len(v.data) - 1 : w.data[i + 1] = v.data[i + 1]
    BY <1>1, <1>4
  <2> HIDE DEF w, k
  <2>2. k \in Nat /\ k \notin Held(v) /\ k \notin Released(v)
    BY <1>1, <1>4 DEF Held, Released
  <2>3. Released(w) = Released(v)
    BY <1>1, <1>2, <1>4, <2>1 DEF Released
  <2>4. Held(w) = Held(v) \cup {k} /\ k \in Held(w)
    BY <1>1, <1>4, <2>1, <2>2, <2>3 DEF Held
  <2>5. \A i \in Held(v) : w.data[i + 1] = v.data[i + 1]
    BY <2>1 DEF Held
  <2> QED BY <2>1, <2>2, <2>3, <2>4, <2>5 DEF w, k
<1> QED BY <1>3, <1>4, AddCases

\* The slots of a vector that were released are finitely many.
LEMMA ReleasedFinite ==
  ASSUME NEW E, NEW v \in Vectors(E)
  PROVE  /\ IsFiniteSet(Released(v)) /\ Cardinality(Released(v)) \in Nat
         /\ IsFiniteSet(Held(v)) /\ Cardinality(Held(v)) \in Nat
         /\ Cardinality(Released(v)) + Cardinality(Held(v)) = Len(v.data)
<1> DEFINE I == 0 .. Len(v.data) - 1
<1>1. Len(v.data) \in Nat
  BY DEF Vectors
<1>2. IsFiniteSet(I) /\ Cardinality(I) = Len(v.data)
  <2>1. 0 \in Int /\ Len(v.data) - 1 \in Int
    BY <1>1
  <2>2. /\ IsFiniteSet(I)
        /\ Cardinality(I) = IF 0 > Len(v.data) - 1 THEN 0 ELSE Len(v.data) - 1 - 0 + 1
    BY <2>1, FS_Interval
  <2> HIDE DEF I
  <2> QED BY <1>1, <2>2
<1>3. Released(v) \subseteq I /\ Held(v) = I \ Released(v)
  BY DEF Released, Held
<1>4. /\ IsFiniteSet(I \ Released(v))
      /\ Cardinality(I \ Released(v)) = Cardinality(I) - Cardinality(I \cap Released(v))
  BY <1>2, FS_Difference
<1>5. IsFiniteSet(Released(v)) /\ I \cap Released(v) = Released(v)
  BY <1>2, <1>3, FS_Subset
<1>6. Cardinality(Released(v)) \in Nat
  BY <1>5, FS_CardinalityType
<1>7. Cardinality(Held(v)) = Len(v.data) - Cardinality(Released(v))
  BY <1>2, <1>3, <1>4, <1>5
<1>8. Cardinality(Held(v)) \in Nat /\ IsFiniteSet(Held(v))
  BY <1>3, <1>4, FS_CardinalityType
<1> QED BY <1>1, <1>5, <1>6, <1>7, <1>8

\* What a vector's counters say when they are right: free is the number of
\* released slots, and top does not pass max.
Sound(v) == v.free = Cardinality(Released(v)) /\ Len(v.data) <= v.max

\* VECTOR_Add keeps the counters right, and the memory grows only when every
\* slot is in use, so that it stays below limit + GROW_STEP if fewer than
\* limit elements were held.
LEMMA AddSound ==
  ASSUME NEW E, NULL \notin E, NEW e \in E, NEW v \in Vectors(E), Sound(v),
         NEW limit \in Nat, VECTOR_Num(v) < limit, v.max < limit + GrowStep
  PROVE  LET w == VECTOR_Add(v, e) IN Sound(w) /\ w.max < limit + GrowStep
<1> DEFINE k == AddIndex(v)
           w == VECTOR_Add(v, e)
<1>1. /\ Len(v.data) \in Nat /\ v.max \in Nat /\ v.free \in Int /\ GrowStep \in Nat
      /\ GrowStep > 0 /\ v.data \in Seq(E \cup {NULL})
  BY VectorAssumption DEF Vectors
<1>2. IsFiniteSet(Released(v)) /\ Cardinality(Released(v)) \in Nat
  BY ReleasedFinite
<1>3. Released(w) = Released(v) \ {k}
  BY AddHeld
<1>4. CASE /\ AtCapacity(v) /\ k \in Released(v)
           /\ w.data = [v.data EXCEPT ![k + 1] = e]
           /\ w.free = v.free - 1 /\ w.max = v.max
  <2>1. Cardinality(Released(w)) = Cardinality(Released(v)) - 1
    BY <1>2, <1>3, <1>4, FS_RemoveElement
  <2>2. Len(w.data) = Len(v.data)
    BY <1>1, <1>4
  <2> HIDE DEF w
  <2>3. Sound(w) /\ w.max < limit + GrowStep
    BY <1>1, <1>2, <1>4, <2>1, <2>2 DEF Sound
  <2> QED BY <2>3 DEF w
<1>5. CASE /\ AtCapacity(v) => Released(v) = {}
           /\ k = Len(v.data)
           /\ w.data = Append(v.data, e) /\ w.free = v.free
           /\ w.max = IF AtCapacity(v) THEN v.max + GrowStep ELSE v.max
  <2>1. Released(w) = Released(v)
    BY <1>1, <1>3, <1>5 DEF Released
  <2>2. Len(w.data) = Len(v.data) + 1
    BY <1>1, <1>5
  <2> HIDE DEF w, k
  <2>3. CASE AtCapacity(v)
    <3>1. Cardinality(Released(v)) = 0
      BY <1>5, <2>3, FS_EmptySet
    <3>2. Len(v.data) = v.max /\ v.free = 0 /\ v.max < limit
      BY <1>1, <2>3, <3>1 DEF Sound, AtCapacity, VECTOR_Num
    <3>3. Sound(w) /\ w.max < limit + GrowStep
      BY <1>1, <1>5, <2>1, <2>2, <2>3, <3>2 DEF Sound
    <3> QED BY <3>3 DEF w
  <2>4. CASE ~ AtCapacity(v)
    <3>1. Sound(w) /\ w.max < limit + GrowStep
      BY <1>1, <1>5, <2>1, <2>2, <2>4 DEF Sound, AtCapacity
    <3> QED BY <3>1 DEF w
  <2> QED BY <2>3, <2>4
<1> QED BY <1>4, <1>5, AddCases

\* Releasing a slot leaves all others as they are and the counters right.
LEMMA ReleaseHeld ==
  ASSUME NEW E, NEW v \in Vectors(E), NEW k \in Held(v)
  PROVE  LET w == VECTOR_Release(v, k)
         IN /\ w \in Vectors(E) /\ w.max = v.max
            /\ Held(w) = Held(v) \ {k}
            /\ \A i \in Held(w) : w.data[i + 1] = v.data[i + 1]
            /\ Sound(v) => Sound(w)
<1> DEFINE w == VECTOR_Release(v, k)
<1>1. v.data \in Seq(E \cup {NULL}) /\ Len(v.data) \in Nat /\ DOMAIN v.data = 1 .. Len(v.data)
      /\ v.max \in Nat /\ v.free \in Int
  BY DEF Vectors
<1>2. k \in 0 .. Len(v.data) - 1 /\ k \notin Released(v)
  BY DEF Held
<1>3. w = [max |-> v.max, free |-> v.free + 1, data |-> [v.data EXCEPT ![k + 1] = NULL]]
  <2>1. w = [v EXCEPT !.data[k + 1] = NULL, !.free = @ + 1]
    BY DEF VECTOR_Release
  <2>2. v = [max |-> v.max, free |-> v.free, data |-> v.data]
    BY DEF Vectors
  <2> QED BY <2>1, <2>2
<1>4. [v.data EXCEPT ![k + 1] = NULL] \in Seq(E \cup {NULL})
  BY <1>1, <1>2
<1>5. w \in Vectors(E) /\ w.max = v.max /\ w.free = v.free + 1
  BY <1>1, <1>3, <1>4 DEF Vectors
<1>6. /\ Len(w.data) = Len(v.data) /\ w.data[k + 1] = NULL
      /\ \A i \in 0 .. Len(v.data) - 1 : i # k => w.data[i + 1] = v.data[i + 1]
  BY <1>1, <1>2, <1>3
<1> HIDE DEF w
<1>7. Released(w) = Released(v) \cup {k}
  BY <1>2, <1>6 DEF Released
<1>8. Held(w) = Held(v) \ {k} /\ \A i \in Held(w) : w.data[i + 1] = v.data[i + 1]
  BY <1>6, <1>7 DEF Held
<1>9. Cardinality(Released(w)) = Cardinality(Released(v)) + 1
  BY <1>2, <1>7, ReleasedFinite, FS_AddElement
<1>10. Sound(v) => Sound(w)
  BY <1>1, <1>5, <1>6, <1>9 DEF Sound
<1> QED BY <1>5, <1>8, <1>10 DEF w

\* Writing to an element that is held keeps slots and counters.
LEMMA UpdateHeld ==
  ASSUME NEW E, NULL \notin E, NEW v \in Vectors(E), NEW k \in Held(v), NEW e \in E
  PROVE  LET w == [v EXCEPT !.data[k + 1] = e]
         IN /\ w \in Vectors(E) /\ w.max = v.max /\ w.data[k + 1] = e
            /\ Held(w) = Held(v)
            /\ \A i \in Held(v) : i # k => w.data[i + 1] = v.data[i + 1]
            /\ Sound(v) => Sound(w)
<1> DEFINE w == [v EXCEPT !.data[k + 1] = e]
<1>1. v.data \in Seq(E \cup {NULL}) /\ Len(v.data) \in Nat /\ DOMAIN v.data = 1 .. Len(v.data)
      /\ v.max \in Nat /\ v.free \in Int /\ e # NULL
  BY DEF Vectors
<1>2. k \in 0 .. Len(v.data) - 1 /\ v.data[k + 1] # NULL
  BY DEF Held, Released
<1>3. w = [max |-> v.max, free |-> v.free, data |-> [v.data EXCEPT ![k + 1] = e]]
  <2>1. v = [max |-> v.max, free |-> v.free, data |-> v.data]
    BY ONLY v \in Vectors(E) DEF Vectors
  <2>2. ASSUME NEW d PROVE [v EXCEPT !.data = d] = [max |-> v.max, free |-> v.free, data |-> d]
    BY ONLY <2>1
  <2>3. w = [v EXCEPT !.data = [v.data EXCEPT ![k + 1] = e]]
    OBVIOUS
  <2> QED BY ONLY <2>2, <2>3
<1>4. [v.data EXCEPT ![k + 1] = e] \in Seq(E \cup {NULL})
  BY <1>1, <1>2
<1>5. w \in Vectors(E) /\ w.max = v.max /\ w.free = v.free
  BY <1>1, <1>3, <1>4 DEF Vectors
<1>6. /\ Len(w.data) = Len(v.data) /\ w.data[k + 1] = e
      /\ \A i \in 0 .. Len(v.data) - 1 : i # k => w.data[i + 1] = v.data[i + 1]
  BY <1>1, <1>2, <1>3
<1> HIDE DEF w
<1>7. Released(w) = Released(v)
  BY <1>1, <1>2, <1>6 DEF Released
<1>8. Held(w) = Held(v)
  BY <1>6, <1>7 DEF Held
<1>9. Sound(v) => Sound(w)
  BY <1>5, <1>6, <1>7 DEF Sound
<1> QED BY <1>5, <1>6, <1>8, <1>9 DEF w, Held

-----------------------------------------------------------------------------
(* The registry's vectors.                                                 *)

\* No two elements have the same name.
Unique(v) == \A i, j \in Held(v) : v.data[i + 1].name = v.data[j + 1].name => i = j

\* A vector of elements of E as the registry keeps it.
Good(v, E, limit) == v \in Vectors(E) /\ Counted(v, limit) /\ Unique(v)

\* The element at a held index.
LEMMA AtHeld ==
  ASSUME NEW E, NEW v \in Vectors(E), NEW i \in Held(v)
  PROVE  VECTOR_At(v, i) = v.data[i + 1] /\ v.data[i + 1] \in E /\ i \in Nat
<1>1. v.data \in Seq(E \cup {NULL}) /\ Len(v.data) \in Nat
  BY DEF Vectors
<1>2. i \in 0 .. Len(v.data) - 1 /\ v.data[i + 1] # NULL
  BY DEF Held, Released
<1>3. v.data[i + 1] \in E \cup {NULL}
  BY <1>1, <1>2
<1> QED BY <1>1, <1>2, <1>3 DEF VECTOR_At

\* VECTOR_FindByKey returns the index of an element with the name, or
\* INVALID_INDEX if there is none.
LEMMA Found ==
  ASSUME NEW E, NULL \notin E, NEW v \in Vectors(E), NEW key
  PROVE  LET k == FindByKey(v, key)
         IN \/ /\ k \in Held(v) /\ v.data[k + 1].name = key
               /\ VECTOR_At(v, k) = v.data[k + 1] /\ VECTOR_At(v, k) \in E
               /\ VECTOR_At(v, k) # NULL /\ k # INVALID_INDEX
            \/ /\ k = INVALID_INDEX /\ VECTOR_At(v, k) = NULL
               /\ \A i \in Held(v) : v.data[i + 1].name # key
<1> DEFINE S == {i \in Held(v) : VECTOR_At(v, i).name = key}
           k == FindByKey(v, key)
<1>1. S \in SUBSET Nat
  BY AtHeld
<1>2. CASE S # {}
  <2>1. k \in S
    BY <1>1, <1>2, FirstFound DEF FindByKey
  <2>2. k \in Held(v) /\ VECTOR_At(v, k).name = key
    BY <2>1
  <2> HIDE DEF k
  <2>3. k # INVALID_INDEX
    BY <2>2, AtHeld DEF INVALID_INDEX
  <2> QED BY <2>2, <2>3, AtHeld DEF k
<1>3. CASE S = {}
  <2>1. k = INVALID_INDEX
    BY <1>3 DEF FindByKey, VECTOR_First
  <2> HIDE DEF k
  <2>2. VECTOR_At(v, k) = NULL
    BY <2>1 DEF VECTOR_At, INVALID_INDEX
  <2>3. \A i \in Held(v) : v.data[i + 1].name # key
    BY <1>3, AtHeld
  <2> QED BY <2>1, <2>2, <2>3 DEF k
<1> QED BY <1>2, <1>3

\* A vector that SAMGR_CreateServiceImpl makes is empty and good.
LEMMA MakeGood ==
  ASSUME NEW E, NEW limit \in Nat
  PROVE  Good(VECTOR_Make, E, limit) /\ Held(VECTOR_Make) = {}
<1>1. VECTOR_Make \in Vectors(E)
  BY DEF VECTOR_Make, Vectors
<1>2. Len(VECTOR_Make.data) = 0
  BY DEF VECTOR_Make
<1>3. Released(VECTOR_Make) = {} /\ Held(VECTOR_Make) = {}
  BY <1>2 DEF Released, Held
<1>4. Cardinality(Released(VECTOR_Make)) = 0
  BY <1>3, FS_EmptySet
<1>5. Counted(VECTOR_Make, limit)
  BY <1>2, <1>4, VectorAssumption DEF Counted, VECTOR_Make
<1> QED BY <1>1, <1>3, <1>5 DEF Good, Unique

\* Adding an element whose name is new, below the limit, keeps the vector
\* good and every other element in its slot.
LEMMA AddGood ==
  ASSUME NEW E, NULL \notin E, NEW e \in E, NEW v, NEW limit \in Nat,
         Good(v, E, limit), VECTOR_Num(v) < limit,
         \A i \in Held(v) : v.data[i + 1].name # e.name
  PROVE  LET w == VECTOR_Add(v, e)
         IN Good(w, E, limit) /\ SameSlots(v, w)
<1> DEFINE w == VECTOR_Add(v, e)
           k == AddIndex(v)
<1>1. v \in Vectors(E) /\ Sound(v) /\ v.max < limit + GrowStep /\ Unique(v)
  BY DEF Good, Counted, Sound
<1>2. w \in Vectors(E)
  BY <1>1, AddKeepsOthers
<1>3. Sound(w) /\ w.max < limit + GrowStep
  BY <1>1, AddSound
<1>4. /\ k \in Nat /\ k \notin Held(v) /\ w.data[k + 1] = e
      /\ Held(w) = Held(v) \cup {k}
      /\ \A i \in Held(v) : w.data[i + 1] = v.data[i + 1]
  BY <1>1, AddHeld
<1> HIDE DEF w, k
<1>5. Unique(w) /\ SameSlots(v, w)
  BY <1>1, <1>4 DEF Unique, SameSlots
<1> QED BY <1>2, <1>3, <1>5 DEF Good, Counted, Sound, w

\* So does releasing an element.
LEMMA ReleaseGood ==
  ASSUME NEW E, NEW v, NEW limit \in Nat, Good(v, E, limit), NEW k \in Held(v)
  PROVE  LET w == VECTOR_Release(v, k)
         IN Good(w, E, limit) /\ SameSlots(v, w)
<1> DEFINE w == VECTOR_Release(v, k)
<1>1. v \in Vectors(E) /\ Sound(v) /\ v.max < limit + GrowStep /\ Unique(v)
  BY DEF Good, Counted, Sound
<1>2. /\ w \in Vectors(E) /\ w.max = v.max
      /\ Held(w) = Held(v) \ {k}
      /\ \A i \in Held(w) : w.data[i + 1] = v.data[i + 1]
      /\ Sound(w)
  BY <1>1, ReleaseHeld
<1> HIDE DEF w
<1>3. Unique(w) /\ SameSlots(v, w)
  BY <1>1, <1>2 DEF Unique, SameSlots
<1> QED BY <1>1, <1>2, <1>3 DEF Good, Counted, Sound, w

\* So does writing to an element that keeps its name.
LEMMA UpdateGood ==
  ASSUME NEW E, NULL \notin E, NEW v, NEW limit \in Nat, Good(v, E, limit),
         NEW k \in Held(v), NEW e \in E, e.name = v.data[k + 1].name
  PROVE  LET w == [v EXCEPT !.data[k + 1] = e]
         IN Good(w, E, limit) /\ SameSlots(v, w)
<1> DEFINE w == [v EXCEPT !.data[k + 1] = e]
<1>1. v \in Vectors(E) /\ Sound(v) /\ v.max < limit + GrowStep /\ Unique(v)
  BY DEF Good, Counted, Sound
<1>2. /\ w \in Vectors(E) /\ w.max = v.max /\ w.data[k + 1] = e
      /\ Held(w) = Held(v)
      /\ \A i \in Held(v) : i # k => w.data[i + 1] = v.data[i + 1]
      /\ Sound(w)
  BY <1>1, UpdateHeld
<1> HIDE DEF w
<1>3. Unique(w) /\ SameSlots(v, w)
  BY <1>1, <1>2 DEF Unique, SameSlots
<1> QED BY <1>1, <1>2, <1>3 DEF Good, Counted, Sound, w

-----------------------------------------------------------------------------
(* The services. *)

\* The invariant of the registry: the vectors are good, and a service's id is
\* the index it is kept at.
Registered(v) ==
  /\ Good(v, ServiceImpl, MaxServices)
  /\ \A i \in Held(v) : /\ v.data[i + 1].serviceId = i
                        /\ Good(v.data[i + 1].features, FeatureImpl, MaxFeatures)
IInv == Registered(services)

\* What IdsStable says of a step from v to w.
Stable(v, w) ==
  /\ SameSlots(v, w)
  /\ \A i \in Held(v) \cap Held(w) :
       v.data[i + 1].name = w.data[i + 1].name =>
         SameSlots(v.data[i + 1].features, w.data[i + 1].features)

\* A call that is refused changes nothing.
LEMMA RefusedStable ==
  ASSUME NEW v, Registered(v)
  PROVE  Stable(v, v)
BY DEF Registered, Good, Unique, Stable, SameSlots

\* A service that is registered: what GetService returns, and where.
LEMMA Service ==
  ASSUME IInv, NEW s, GetService(s) # NULL
  PROVE  LET m == GetService(s)  k == FindByKey(services, s)
         IN /\ k \in Held(services) /\ m = services.data[k + 1] /\ m \in ServiceImpl
            /\ m.name = s /\ m.serviceId = k
            /\ Good(m.features, FeatureImpl, MaxFeatures)
<1>1. services \in Vectors(ServiceImpl)
  BY DEF IInv, Registered, Good
<1>2. NULL \notin ServiceImpl
  BY RecordsAssumption
<1>3. /\ FindByKey(services, s) \in Held(services)
      /\ services.data[FindByKey(services, s) + 1].name = s
      /\ GetService(s) = services.data[FindByKey(services, s) + 1]
      /\ GetService(s) \in ServiceImpl
  BY <1>1, <1>2, Found DEF GetService
<1>4. /\ services.data[FindByKey(services, s) + 1].serviceId = FindByKey(services, s)
      /\ Good(services.data[FindByKey(services, s) + 1].features, FeatureImpl, MaxFeatures)
  BY <1>3 DEF IInv, Registered
<1> QED BY <1>3, <1>4

\* Every call on a service that is registered writes to its object and leaves
\* its name, its id and its features' slots as they are.
LEMMA SetStep ==
  ASSUME IInv, NEW s, GetService(s) # NULL, NEW n \in ServiceImpl,
         n.name = GetService(s).name, n.serviceId = GetService(s).serviceId,
         Good(n.features, FeatureImpl, MaxFeatures),
         SameSlots(GetService(s).features, n.features),
         Set(s, n)
  PROVE  IInv' /\ Stable(services, services')
<1> DEFINE k == FindByKey(services, s)
           w == [services EXCEPT !.data[k + 1] = n]
<1>1. /\ k \in Held(services) /\ GetService(s) = services.data[k + 1]
      /\ GetService(s).serviceId = k
  BY Service
<1>2. Good(services, ServiceImpl, MaxServices) /\ services \in Vectors(ServiceImpl)
  BY DEF IInv, Registered, Good
<1>3. NULL \notin ServiceImpl /\ MaxServices \in Nat
  BY RecordsAssumption, RegistryAssumption
<1>4. Good(w, ServiceImpl, MaxServices) /\ SameSlots(services, w)
  BY <1>1, <1>2, <1>3, UpdateGood
<1>5. /\ Held(w) = Held(services) /\ w.data[k + 1] = n
      /\ \A i \in Held(services) : i # k => w.data[i + 1] = services.data[i + 1]
  BY <1>1, <1>2, <1>3, UpdateHeld
<1>6. services' = w
  BY DEF Set
<1> HIDE DEF w, k
<1>7. \A i \in Held(w) : /\ w.data[i + 1].serviceId = i
                         /\ Good(w.data[i + 1].features, FeatureImpl, MaxFeatures)
  BY <1>1, <1>5 DEF IInv, Registered
<1>8. \A i \in Held(services) : SameSlots(services.data[i + 1].features, w.data[i + 1].features)
  <2> TAKE i \in Held(services)
  <2>1. CASE i = k
    BY <1>1, <1>5, <2>1
  <2>2. CASE i # k
    BY <1>5, <2>2 DEF IInv, Registered, Good, Unique, SameSlots
  <2> QED BY <2>1, <2>2
<1> QED BY <1>4, <1>6, <1>7, <1>8 DEF IInv, Registered, Stable

\* Registering a service.
LEMMA RegisterServiceStep ==
  ASSUME IInv, NEW s \in Names, RegisterService(s)
  PROVE  IInv' /\ Stable(services, services')
<1>1. CASE UNCHANGED services
  BY <1>1, RefusedStable DEF IInv
<1>2. CASE /\ FindByKey(services, s) = INVALID_INDEX /\ VECTOR_Num(services) < MaxServices
           /\ services' = VECTOR_Add(services, CreateServiceImpl(s))
  <2> DEFINE e == CreateServiceImpl(s)
             k == AddIndex(services)
             w == VECTOR_Add(services, e)
  <2>1. Good(services, ServiceImpl, MaxServices) /\ services \in Vectors(ServiceImpl)
    BY DEF IInv, Registered, Good
  <2>2. NULL \notin ServiceImpl /\ MaxServices \in Nat /\ MaxFeatures \in Nat
    BY RecordsAssumption, RegistryAssumption
  <2>3. Good(VECTOR_Make, FeatureImpl, MaxFeatures) /\ VECTOR_Make \in Vectors(FeatureImpl)
    BY <2>2, MakeGood DEF Good
  <2>4. k \in Int
    BY <2>1, <2>2, AddIndexInt
  <2>5. e \in ServiceImpl /\ e.name = s /\ e.serviceId = k /\ e.features = VECTOR_Make
    BY <2>3, <2>4 DEF CreateServiceImpl, ServiceImpl
  <2> HIDE DEF e, k
  <2>6. \A i \in Held(services) : services.data[i + 1].name # e.name
    BY <1>2, <2>1, <2>2, <2>5, Found
  <2>7. Good(w, ServiceImpl, MaxServices) /\ SameSlots(services, w)
    BY <1>2, <2>1, <2>2, <2>5, <2>6, AddGood
  <2>8. /\ k \notin Held(services) /\ w.data[k + 1] = e
        /\ Held(w) = Held(services) \cup {k}
        /\ \A i \in Held(services) : w.data[i + 1] = services.data[i + 1]
    BY <2>1, <2>2, <2>5, AddHeld DEF k
  <2>9. services' = w
    BY <1>2 DEF e
  <2> HIDE DEF w
  <2>10. \A i \in Held(w) : /\ w.data[i + 1].serviceId = i
                            /\ Good(w.data[i + 1].features, FeatureImpl, MaxFeatures)
    BY <2>3, <2>5, <2>8 DEF IInv, Registered
  <2>11. \A i \in Held(services) : SameSlots(services.data[i + 1].features, w.data[i + 1].features)
    BY <2>8 DEF IInv, Registered, Good, Unique, SameSlots
  <2> QED BY <2>7, <2>9, <2>10, <2>11 DEF IInv, Registered, Stable
<1>3. VECTOR_Num(services) \in Int /\ MaxServices \in Int
  BY AddIndexInt, RegistryAssumption DEF IInv, Registered, Good
<1>4. ~ (VECTOR_Num(services) >= MaxServices) => VECTOR_Num(services) < MaxServices
  BY <1>3
<1> QED BY <1>1, <1>2, <1>4 DEF RegisterService, Refuse

\* Unregistering one.
LEMMA UnregisterServiceStep ==
  ASSUME IInv, NEW s \in Names, UnregisterService(s)
  PROVE  IInv' /\ Stable(services, services')
<1>1. CASE UNCHANGED services
  BY <1>1, RefusedStable DEF IInv
<1>2. CASE /\ GetService(s) # NULL
           /\ services' = VECTOR_Release(services, FindByKey(services, s))
  <2> DEFINE k == FindByKey(services, s)
             w == VECTOR_Release(services, k)
  <2>1. Good(services, ServiceImpl, MaxServices) /\ services \in Vectors(ServiceImpl)
    BY DEF IInv, Registered, Good
  <2>2. k \in Held(services)
    BY <1>2, Service
  <2>3. Good(w, ServiceImpl, MaxServices) /\ SameSlots(services, w)
    BY <2>1, <2>2, ReleaseGood, RegistryAssumption
  <2>4. /\ Held(w) = Held(services) \ {k}
        /\ \A i \in Held(w) : w.data[i + 1] = services.data[i + 1]
    BY <2>1, <2>2, ReleaseHeld
  <2>5. services' = w
    BY <1>2
  <2> HIDE DEF w, k
  <2>6. \A i \in Held(w) : /\ w.data[i + 1].serviceId = i
                           /\ Good(w.data[i + 1].features, FeatureImpl, MaxFeatures)
    BY <2>4 DEF IInv, Registered
  <2>7. \A i \in Held(w) : SameSlots(services.data[i + 1].features, w.data[i + 1].features)
    BY <2>4 DEF IInv, Registered, Good, Unique, SameSlots
  <2> QED BY <2>3, <2>5, <2>6, <2>7 DEF IInv, Registered, Stable
<1> QED BY <1>1, <1>2 DEF UnregisterService, Refuse

\* Calls that replace the features of a service by w.
LEMMA FeaturesStep ==
  ASSUME IInv, NEW s, GetService(s) # NULL, NEW w,
         Good(w, FeatureImpl, MaxFeatures), SameSlots(GetService(s).features, w),
         Set(s, [GetService(s) EXCEPT !.features = w])
  PROVE  IInv' /\ Stable(services, services')
<1> DEFINE m == GetService(s)
           n == [m EXCEPT !.features = w]
<1>1. m \in ServiceImpl
  BY Service
<1>2. w \in Vectors(FeatureImpl)
  BY DEF Good
<1>3. n \in ServiceImpl /\ n.name = m.name /\ n.serviceId = m.serviceId /\ n.features = w
  BY <1>1, <1>2 DEF ServiceImpl
<1> HIDE DEF n
<1>4. Set(s, n)
  BY DEF n
<1> QED BY <1>3, <1>4, SetStep

\* Registering a feature.
LEMMA RegisterFeatureStep ==
  ASSUME IInv, NEW s \in Names, NEW f \in Features, RegisterFeature(s, f)
  PROVE  IInv' /\ Stable(services, services')
<1> DEFINE m == GetService(s)
           e == [name |-> f, iUnknown |-> NULL]
           w == VECTOR_Add(m.features, e)
<1>1. CASE UNCHANGED services
  BY <1>1, RefusedStable DEF IInv
<1>2. CASE /\ m # NULL /\ DEFAULT_GetFeature(m, f) = NULL
           /\ VECTOR_Num(m.features) < MaxFeatures
           /\ Set(s, [m EXCEPT !.features = w])
  <2>1. Good(m.features, FeatureImpl, MaxFeatures) /\ m.features \in Vectors(FeatureImpl)
    BY <1>2, Service DEF Good
  <2>2. NULL \notin FeatureImpl /\ MaxFeatures \in Nat /\ e \in FeatureImpl /\ e.name = f
    BY RecordsAssumption, RegistryAssumption DEF FeatureImpl
  <2>3. \A i \in Held(m.features) : m.features.data[i + 1].name # e.name
    BY <1>2, <2>1, <2>2, Found DEF DEFAULT_GetFeature
  <2>4. Good(w, FeatureImpl, MaxFeatures) /\ SameSlots(m.features, w)
    BY <1>2, <2>1, <2>2, <2>3, AddGood
  <2> QED BY <1>2, <2>4, FeaturesStep
<1> QED BY <1>1, <1>2 DEF RegisterFeature, Refuse

\* A feature that is registered: what DEFAULT_GetFeature returns, and where.
LEMMA Feature ==
  ASSUME IInv, NEW s, GetService(s) # NULL,
         NEW f, DEFAULT_GetFeature(GetService(s), f) # NULL
  PROVE  LET v == GetService(s).features  k == FindByKey(v, f)
         IN /\ k \in Held(v) /\ v.data[k + 1].name = f
            /\ DEFAULT_GetFeature(GetService(s), f) = v.data[k + 1]
            /\ v.data[k + 1] \in FeatureImpl
<1>1. GetService(s).features \in Vectors(FeatureImpl)
  BY Service DEF Good
<1> QED BY <1>1, RecordsAssumption, Found DEF DEFAULT_GetFeature

\* Unregistering a feature.
LEMMA UnregisterFeatureStep ==
  ASSUME IInv, NEW s \in Names, NEW f \in Features, UnregisterFeature(s, f)
  PROVE  IInv' /\ Stable(services, services')
<1> DEFINE m == GetService(s)
           k == FindByKey(m.features, f)
           w == VECTOR_Release(m.features, k)
<1>1. CASE UNCHANGED services
  BY <1>1, RefusedStable DEF IInv
<1>2. CASE /\ m # NULL /\ DEFAULT_GetFeature(m, f) # NULL
           /\ Set(s, [m EXCEPT !.features = w])
  <2>1. Good(m.features, FeatureImpl, MaxFeatures) /\ k \in Held(m.features)
    BY <1>2, Service, Feature
  <2>2. Good(w, FeatureImpl, MaxFeatures) /\ SameSlots(m.features, w)
    BY <2>1, ReleaseGood, RegistryAssumption
  <2> QED BY <1>2, <2>2, FeaturesStep
<1> QED BY <1>1, <1>2 DEF UnregisterFeature, Refuse

\* Giving a feature an interface, or taking it away.
LEMMA SetFeatureStep ==
  ASSUME IInv, NEW s, NEW f, NEW a \in Apis \cup {NULL}, GetService(s) # NULL,
         DEFAULT_GetFeature(GetService(s), f) # NULL,
         SetFeature(s, f, [DEFAULT_GetFeature(GetService(s), f) EXCEPT !.iUnknown = a])
  PROVE  IInv' /\ Stable(services, services')
<1> DEFINE m == GetService(s)
           k == FindByKey(m.features, f)
           e == [DEFAULT_GetFeature(m, f) EXCEPT !.iUnknown = a]
           w == [m.features EXCEPT !.data[k + 1] = e]
<1>1. /\ Good(m.features, FeatureImpl, MaxFeatures) /\ k \in Held(m.features)
      /\ DEFAULT_GetFeature(m, f) = m.features.data[k + 1]
      /\ m.features.data[k + 1] \in FeatureImpl
  BY Service, Feature
<1>2. e \in FeatureImpl /\ e.name = m.features.data[k + 1].name
  BY <1>1 DEF FeatureImpl
<1>3. Set(s, [m EXCEPT !.features = w])
  BY DEF SetFeature
<1> HIDE DEF e
<1>4. Good(w, FeatureImpl, MaxFeatures) /\ SameSlots(m.features, w)
  BY <1>1, <1>2, RecordsAssumption, RegistryAssumption, UpdateGood
<1> QED BY <1>3, <1>4, FeaturesStep

\* Calls that write to other fields of a service.
LEMMA FieldsStep ==
  ASSUME IInv, NEW s, GetService(s) # NULL,
         \/ Set(s, [GetService(s) EXCEPT !.inited = "SVC_IDLE"])
         \/ \E a \in Apis \cup {NULL} : Set(s, [GetService(s) EXCEPT !.defaultApi = a])
  PROVE  IInv' /\ Stable(services, services')
<1> DEFINE m == GetService(s)
<1>1. m \in ServiceImpl /\ Good(m.features, FeatureImpl, MaxFeatures)
  BY Service
<1>2. SameSlots(m.features, m.features)
  BY <1>1 DEF Good, Unique, SameSlots
<1>3. PICK n \in ServiceImpl : /\ Set(s, n) /\ n.name = m.name /\ n.serviceId = m.serviceId
                               /\ n.features = m.features
  <2>1. CASE Set(s, [m EXCEPT !.inited = "SVC_IDLE"])
    <3> DEFINE n == [m EXCEPT !.inited = "SVC_IDLE"]
    <3>1. /\ n \in ServiceImpl /\ n.name = m.name /\ n.serviceId = m.serviceId
          /\ n.features = m.features
      BY <1>1 DEF ServiceImpl
    <3> QED BY <2>1, <3>1
  <2>2. CASE \E a \in Apis \cup {NULL} : Set(s, [m EXCEPT !.defaultApi = a])
    <3>1. PICK a \in Apis \cup {NULL} : Set(s, [m EXCEPT !.defaultApi = a])
      BY <2>2
    <3> DEFINE n == [m EXCEPT !.defaultApi = a]
    <3>2. /\ n \in ServiceImpl /\ n.name = m.name /\ n.serviceId = m.serviceId
          /\ n.features = m.features
      BY <1>1 DEF ServiceImpl
    <3> QED BY <3>1, <3>2
  <2> QED BY <2>1, <2>2
<1> QED BY <1>1, <1>2, <1>3, SetStep

\* Every call keeps the invariant, and every identity that is in use.
LEMMA NextStep ==
  ASSUME IInv, [Next]_vars
  PROVE  IInv' /\ Stable(services, services')
<1> DEFINE Goal == IInv' /\ Stable(services, services')
<1>1. ASSUME UNCHANGED services PROVE Goal
  BY <1>1, RefusedStable DEF IInv
<1>2. ASSUME NEW s \in Names, Initialised(s) PROVE Goal
  BY <1>2, FieldsStep DEF Initialised
<1>3. ASSUME NEW s \in Names, NEW a \in Apis, RegisterDefaultFeatureApi(s, a) PROVE Goal
  BY <1>1, <1>3, FieldsStep DEF RegisterDefaultFeatureApi, Refuse
<1>4. ASSUME NEW s \in Names, UnregisterDefaultFeatureApi(s) PROVE Goal
  BY <1>1, <1>4, FieldsStep DEF UnregisterDefaultFeatureApi, Refuse
<1>5. ASSUME NEW s \in Names, NEW f \in Features, NEW a \in Apis, RegisterFeatureApi(s, f, a)
      PROVE  Goal
  BY <1>1, <1>5, SetFeatureStep DEF RegisterFeatureApi, Refuse
<1>6. ASSUME NEW s \in Names, NEW f \in Features, UnregisterFeatureApi(s, f) PROVE Goal
  BY <1>1, <1>6, SetFeatureStep DEF UnregisterFeatureApi, Refuse
<1>7. ASSUME NEW s, NEW f, GetFeatureApi(s, f) PROVE Goal
  BY <1>1, <1>7 DEF GetFeatureApi, Refuse
<1>8. CASE UNCHANGED vars
  BY <1>1, <1>8 DEF vars
<1>9. CASE Next
  BY <1>2, <1>3, <1>4, <1>5, <1>6, <1>7, <1>9, RegisterServiceStep, UnregisterServiceStep,
     RegisterFeatureStep, UnregisterFeatureStep DEF Next
<1> QED BY <1>8, <1>9

-----------------------------------------------------------------------------
(* The theorems. *)

\* The invariant holds initially.
LEMMA InitIInv == Init => IInv
<1>1. Good(VECTOR_Make, ServiceImpl, MaxServices) /\ Held(VECTOR_Make) = {}
  BY MakeGood, RegistryAssumption
<1> QED BY <1>1 DEF Init, IInv, Registered

\* The invariant of the registry is one.
LEMMA Invariant == Spec => []IInv
<1>1. IInv /\ [Next]_vars => IInv'
  BY NextStep
<1> QED BY InitIInv, <1>1, PTL DEF Spec

\* The numbers of services and of features that the limits are compared with
\* (VECTOR_Num) are right after any history of calls, nothing is written past
\* the memory of a vector, and slots are reused, so that a vector stays below
\* its limit and one GROW_STEP.
THEOREM CountedAlways == Spec => []SlotsCounted
<1>1. IInv => SlotsCounted
  BY AtHeld DEF IInv, Registered, Good, SlotsCounted
<1> QED BY Invariant, <1>1, PTL

\* The identity GetServiceId and GetFeatureId return leads a message to the
\* service and feature it was asked for.
THEOREM RoutesCorrectly == Spec => []RouteCorrect
<1>1. IInv => RouteCorrect
  <2> SUFFICES ASSUME IInv, NEW i \in Held(services)
               PROVE  LET m == VECTOR_At(services, i)
                      IN /\ \A j \in Held(services) :
                              VECTOR_At(services, j).name = m.name => i = j
                         /\ \A f \in FeaturesOf(m) \cup {DEFAULT} :
                              DEFAULT_MessageHandle(GetFeatureId(m.name, f)) = <<m.name, f>>
    BY DEF RouteCorrect
  <2> DEFINE m == VECTOR_At(services, i)
  <2>1. /\ services \in Vectors(ServiceImpl) /\ Unique(services)
        /\ NULL \notin ServiceImpl /\ NULL \notin FeatureImpl
    BY RecordsAssumption DEF IInv, Registered, Good
  <2>2. m = services.data[i + 1] /\ m \in ServiceImpl /\ i \in Nat
    BY <2>1, AtHeld
  <2>3. \A j \in Held(services) : VECTOR_At(services, j).name = m.name => i = j
    BY <2>1, <2>2, AtHeld DEF Unique
  <2>4. m.serviceId = i /\ m.features \in Vectors(FeatureImpl) /\ Unique(m.features)
    BY <2>2 DEF IInv, Registered, Good
  <2> HIDE DEF m
  <2>5. FindByKey(services, m.name) = i
    BY <2>1, <2>2, Found DEF Unique
  <2>6. GetService(m.name) = m /\ VECTOR_At(services, i) = m /\ m # NULL
    BY <2>1, <2>2, <2>5 DEF GetService, m
  <2>7. ASSUME NEW f \in FeaturesOf(m) \cup {DEFAULT}
        PROVE  DEFAULT_MessageHandle(GetFeatureId(m.name, f)) = <<m.name, f>>
    <3> DEFINE id == GetFeatureId(m.name, f)
    <3>1. CASE f = DEFAULT
      <4>1. id.serviceId = i /\ id.featureId = INVALID_INDEX
        BY <2>4, <2>6, <3>1 DEF GetFeatureId
      <4> HIDE DEF id
      <4>2. DEFAULT_MessageHandle(id) = <<m.name, DEFAULT>>
        BY <2>4, <2>6, <4>1 DEF DEFAULT_MessageHandle, INVALID_INDEX
      <4> QED BY <3>1, <4>2 DEF id
    <3>2. CASE f # DEFAULT
      <4> DEFINE k == FindByKey(m.features, f)
      <4>1. PICK j \in Held(m.features) : VECTOR_At(m.features, j).name = f
        BY <3>2 DEF FeaturesOf
      <4>2. m.features.data[j + 1].name = f
        BY <2>4, <4>1, AtHeld
      <4>3. /\ k \in Held(m.features) /\ m.features.data[k + 1].name = f
            /\ VECTOR_At(m.features, k) = m.features.data[k + 1]
            /\ VECTOR_At(m.features, k) # NULL
        BY <2>1, <2>4, <4>2, Found
      <4>4. k \in Nat
        BY <2>4, <4>3, AtHeld
      <4>5. id.serviceId = i /\ id.featureId = k
        BY <2>4, <2>6, <3>2 DEF GetFeatureId
      <4> HIDE DEF id, k
      <4>6. ~ (id.featureId < 0)
        BY <4>4, <4>5
      <4>7. DEFAULT_MessageHandle(id) = <<m.name, f>>
        BY <2>4, <2>6, <4>3, <4>5, <4>6 DEF DEFAULT_MessageHandle
      <4> QED BY <4>7 DEF id
    <3> QED BY <3>1, <3>2
  <2> QED BY <2>3, <2>7 DEF m
<1> QED BY Invariant, <1>1, PTL

\* An identity a client keeps stays that of the same service and feature as
\* long as they are registered.
THEOREM IdentitiesStable == Spec => IdsStable
<1>1. IInv /\ [Next]_vars =>
        [/\ SameSlots(services, services')
         /\ \A i \in Held(services) \cap Held(services') :
              services.data[i + 1].name = services'.data[i + 1].name =>
                SameSlots(services.data[i + 1].features, services'.data[i + 1].features)]_vars
  BY NextStep DEF Stable
<1> QED BY Invariant, <1>1, PTL DEF Spec, IdsStable

-----------------------------------------------------------------------------
(* The map.  A vector whose names are unique is a function from names to   *)
(* its elements, whatever the order of their slots.                        *)

Keys(v) == {v.data[i + 1].name : i \in Held(v)}
View(v) == [key \in Keys(v) |-> VECTOR_At(v, FindByKey(v, key))]

\* FindByKey finds by the view.
LEMMA ViewFinds ==
  ASSUME NEW E, NULL \notin E, NEW v \in Vectors(E), Unique(v), NEW key
  PROVE  /\ key \in Keys(v) <=> VECTOR_At(v, FindByKey(v, key)) # NULL
         /\ key \in Keys(v) => /\ View(v)[key] = VECTOR_At(v, FindByKey(v, key))
                               /\ View(v)[key] \in E /\ View(v)[key].name = key
<1> DEFINE k == FindByKey(v, key)
<1>1. \/ /\ k \in Held(v) /\ v.data[k + 1].name = key
         /\ VECTOR_At(v, k) = v.data[k + 1] /\ VECTOR_At(v, k) \in E
         /\ VECTOR_At(v, k) # NULL /\ k # INVALID_INDEX
      \/ /\ k = INVALID_INDEX /\ VECTOR_At(v, k) = NULL
         /\ \A i \in Held(v) : v.data[i + 1].name # key
  BY Found
<1>2. key \in Keys(v) => View(v)[key] = VECTOR_At(v, k)
  BY DEF View
<1> HIDE DEF k
<1>3. key \in Keys(v) <=> VECTOR_At(v, k) # NULL
  BY ONLY <1>1 DEF Keys
<1>4. key \in Keys(v) => VECTOR_At(v, k) \in E /\ VECTOR_At(v, k).name = key
  BY ONLY <1>1 DEF Keys
<1> QED BY ONLY <1>2, <1>3, <1>4 DEF k

\* The view of a vector is determined by its elements.
LEMMA ViewAt ==
  ASSUME NEW E, NULL \notin E, NEW v \in Vectors(E), Unique(v), NEW i \in Held(v)
  PROVE  v.data[i + 1].name \in Keys(v) /\ View(v)[v.data[i + 1].name] = v.data[i + 1]
<1> DEFINE key == v.data[i + 1].name
           k == FindByKey(v, key)
<1>1. key \in Keys(v)
  BY DEF Keys
<1>2. k \in Held(v) /\ v.data[k + 1].name = key /\ VECTOR_At(v, k) = v.data[k + 1]
  BY Found
<1> HIDE DEF k
<1>3. i = k
  BY <1>2 DEF Unique
<1> QED BY <1>1, <1>2, <1>3 DEF View, k

LEMMA ViewIs ==
  ASSUME NEW E, NULL \notin E, NEW v \in Vectors(E), Unique(v),
         NEW S, NEW g, S = Keys(v), g = [key \in S |-> g[key]],
         \A i \in Held(v) : g[v.data[i + 1].name] = v.data[i + 1]
  PROVE  View(v) = g
<1>1. ASSUME NEW key \in Keys(v) PROVE View(v)[key] = g[key]
  <2>1. PICK i \in Held(v) : key = v.data[i + 1].name
    BY DEF Keys
  <2> QED BY <2>1, ViewAt
<1>2. View(v) = [key \in Keys(v) |-> View(v)[key]]
  BY DEF View
<1> QED BY <1>1, <1>2

\* Adding an element adds its name to the view.
LEMMA ViewAdd ==
  ASSUME NEW E, NULL \notin E, NEW e \in E, NEW v, NEW limit \in Nat,
         Good(v, E, limit), VECTOR_Num(v) < limit, e.name \notin Keys(v)
  PROVE  View(VECTOR_Add(v, e)) = Map!With(View(v), e.name, e)
<1> DEFINE w == VECTOR_Add(v, e)
           k == AddIndex(v)
<1>1. v \in Vectors(E) /\ Unique(v)
  BY DEF Good
<1>2. \A i \in Held(v) : v.data[i + 1].name # e.name
  BY DEF Keys
<1>3. w \in Vectors(E) /\ Unique(w)
  BY <1>2, AddGood DEF Good
<1>4. /\ w.data[k + 1] = e /\ Held(w) = Held(v) \cup {k}
      /\ \A i \in Held(v) : w.data[i + 1] = v.data[i + 1]
  BY <1>1, AddHeld
<1> HIDE DEF w, k
<1>5. Keys(w) = Keys(v) \cup {e.name} /\ DOMAIN View(v) = Keys(v)
  BY <1>4 DEF Keys, View
<1> DEFINE g == Map!With(View(v), e.name, e)
<1>b. /\ g = [z \in Keys(v) \cup {e.name} |-> g[z]] /\ g[e.name] = e
      /\ \A z \in Keys(v) : z # e.name => g[z] = View(v)[z]
  BY <1>5 DEF Map!With
<1> HIDE DEF g
<1>6. \A i \in Held(w) : g[w.data[i + 1].name] = w.data[i + 1]
  <2> TAKE i \in Held(w)
  <2>1. CASE i \in Held(v)
    <3>1. /\ v.data[i + 1].name # e.name /\ w.data[i + 1] = v.data[i + 1]
          /\ View(v)[v.data[i + 1].name] = v.data[i + 1] /\ v.data[i + 1].name \in Keys(v)
      BY <1>1, <1>2, <1>4, <2>1, ViewAt
    <3> QED BY ONLY <1>b, <3>1
  <2>2. CASE i = k
    BY ONLY <1>4, <1>b, <2>2
  <2> QED BY <1>4, <2>1, <2>2
<1>7. View(w) = g
  <2>1. g = [z \in Keys(w) |-> g[z]]
    BY ONLY <1>5, <1>b
  <2> QED BY ONLY <1>3, <1>6, <2>1, NULL \notin E, ViewIs
<1> QED BY ONLY <1>7 DEF g, w

\* Releasing one takes its name from the view.
LEMMA ViewRelease ==
  ASSUME NEW E, NULL \notin E, NEW v, NEW limit \in Nat, Good(v, E, limit), NEW k \in Held(v)
  PROVE  View(VECTOR_Release(v, k)) = Map!Without(View(v), v.data[k + 1].name)
<1> DEFINE w == VECTOR_Release(v, k)
           key == v.data[k + 1].name
<1>1. v \in Vectors(E) /\ Unique(v)
  BY DEF Good
<1>2. w \in Vectors(E) /\ Unique(w)
  BY ReleaseGood DEF Good
<1>3. /\ Held(w) = Held(v) \ {k}
      /\ \A i \in Held(w) : w.data[i + 1] = v.data[i + 1]
  BY <1>1, ReleaseHeld
<1> HIDE DEF w
<1>4. Keys(w) = Keys(v) \ {key} /\ DOMAIN View(v) = Keys(v)
  <2>1. DOMAIN View(v) = Keys(v)
    BY DEF View
  <2>2. ASSUME NEW i \in Held(w) PROVE w.data[i + 1].name \in Keys(v) \ {key}
    <3>1. i \in Held(v) /\ i # k /\ w.data[i + 1] = v.data[i + 1]
      BY <1>3
    <3>2. v.data[i + 1].name # key
      BY <1>1, <3>1 DEF Unique
    <3> QED BY <3>1, <3>2 DEF Keys
  <2>3. ASSUME NEW z \in Keys(v) \ {key} PROVE z \in Keys(w)
    <3>1. PICK i \in Held(v) : z = v.data[i + 1].name
      BY DEF Keys
    <3>2. i \in Held(w) /\ w.data[i + 1] = v.data[i + 1]
      BY <1>3, <3>1
    <3> QED BY <3>1, <3>2 DEF Keys
  <2>4. Keys(w) \subseteq Keys(v) \ {key}
    BY <2>2 DEF Keys
  <2> QED BY <2>1, <2>3, <2>4
<1>5. \A i \in Held(w) : View(v)[w.data[i + 1].name] = w.data[i + 1]
  BY <1>1, <1>3, ViewAt
<1> DEFINE g == Map!Without(View(v), key)
<1>6. /\ g = [z \in Keys(v) \ {key} |-> g[z]]
      /\ \A z \in Keys(v) \ {key} : g[z] = View(v)[z]
  BY <1>4 DEF Map!Without
<1>7. \A i \in Held(w) : g[w.data[i + 1].name] = w.data[i + 1]
  <2> HIDE DEF g
  <2> TAKE i \in Held(w)
  <2>1. w.data[i + 1].name \in Keys(v) \ {key}
    BY <1>4 DEF Keys
  <2> QED BY ONLY <1>5, <1>6, <2>1
<1> HIDE DEF g, key
<1>8. View(w) = g
  BY ONLY <1>2, <1>4, <1>6, <1>7, NULL \notin E, ViewIs
<1> QED BY ONLY <1>8 DEF g, w, key

\* Writing to one changes the view at its name.
LEMMA ViewUpdate ==
  ASSUME NEW E, NULL \notin E, NEW v, NEW limit \in Nat, Good(v, E, limit),
         NEW k \in Held(v), NEW e \in E, e.name = v.data[k + 1].name
  PROVE  View([v EXCEPT !.data[k + 1] = e]) = Map!With(View(v), e.name, e)
<1> DEFINE w == [v EXCEPT !.data[k + 1] = e]
<1>1. v \in Vectors(E) /\ Unique(v)
  BY DEF Good
<1>2. w \in Vectors(E) /\ Unique(w)
  BY UpdateGood DEF Good
<1>3. /\ w.data[k + 1] = e /\ Held(w) = Held(v)
      /\ \A i \in Held(v) : i # k => w.data[i + 1] = v.data[i + 1]
  BY <1>1, UpdateHeld
<1> HIDE DEF w
<1>4. e.name \in Keys(v) /\ DOMAIN View(v) = Keys(v)
  BY DEF Keys, View
<1>a. \A i \in Held(v) : w.data[i + 1].name = v.data[i + 1].name
  BY <1>3
<1>5. Keys(w) = Keys(v) \cup {e.name} /\ DOMAIN View(v) = Keys(v)
  BY ONLY <1>3, <1>4, <1>a DEF Keys
<1> DEFINE g == Map!With(View(v), e.name, e)
<1>b. /\ g = [z \in Keys(v) \cup {e.name} |-> g[z]] /\ g[e.name] = e
      /\ \A z \in Keys(v) : z # e.name => g[z] = View(v)[z]
  BY <1>5 DEF Map!With
<1> HIDE DEF g
<1>6. \A i \in Held(w) : g[w.data[i + 1].name] = w.data[i + 1]
  <2> TAKE i \in Held(w)
  <2>1. CASE i # k
    <3>1. /\ v.data[i + 1].name # e.name /\ w.data[i + 1] = v.data[i + 1]
          /\ View(v)[v.data[i + 1].name] = v.data[i + 1] /\ v.data[i + 1].name \in Keys(v)
      BY <1>1, <1>3, <2>1, ViewAt DEF Unique
    <3> QED BY ONLY <1>b, <3>1
  <2>2. CASE i = k
    BY ONLY <1>3, <1>b, <2>2, e.name = v.data[k + 1].name
  <2> QED BY <2>1, <2>2
<1>7. View(w) = g
  BY ONLY <1>2, <1>5, <1>6, <1>b, NULL \notin E, ViewIs
<1> QED BY ONLY <1>7 DEF g, w

\* The map that a vector of features, a service and the vector of services
\* stand for.
MapFeatures(v) == [f \in Keys(v) |-> View(v)[f].iUnknown]
MapService(m) == [inited |-> m.inited = "SVC_IDLE", api |-> m.defaultApi,
                  features |-> MapFeatures(m.features)]
MapOf(v) == [s \in Keys(v) |-> MapService(View(v)[s])]

LEMMA KeysView == ASSUME NEW v PROVE Keys(v) = DOMAIN View(v)
BY DEF View

\* One element more or another one in the view is one more or another one in
\* the map.
LEMMA MapWith ==
  ASSUME NEW v, NEW w, NEW x, NEW e, View(w) = Map!With(View(v), x, e)
  PROVE  /\ MapOf(w) = Map!With(MapOf(v), x, MapService(e))
         /\ MapFeatures(w) = Map!With(MapFeatures(v), x, e.iUnknown)
<1>1. Keys(w) = Keys(v) \cup {x} /\ DOMAIN MapOf(v) = Keys(v) /\ DOMAIN MapFeatures(v) = Keys(v)
  BY KeysView DEF Map!With, MapOf, MapFeatures
<1>2. \A z \in Keys(w) : View(w)[z] = IF z = x THEN e ELSE View(v)[z]
  BY <1>1, KeysView DEF Map!With
<1>3. \A z \in Keys(v) : MapOf(v)[z] = MapService(View(v)[z])
                         /\ MapFeatures(v)[z] = View(v)[z].iUnknown
  BY DEF MapOf, MapFeatures
<1>4. MapOf(w) = Map!With(MapOf(v), x, MapService(e))
  <2>1. MapOf(w) = [z \in Keys(v) \cup {x} |-> MapService(View(w)[z])]
    BY ONLY <1>1 DEF MapOf
  <2>2. Map!With(MapOf(v), x, MapService(e))
          = [z \in Keys(v) \cup {x} |-> IF z = x THEN MapService(e) ELSE MapOf(v)[z]]
    BY ONLY <1>1 DEF Map!With
  <2>3. \A z \in Keys(v) \cup {x} : MapService(View(w)[z])
                                      = IF z = x THEN MapService(e) ELSE MapOf(v)[z]
    BY ONLY <1>1, <1>2, <1>3
  <2> QED BY ONLY <2>1, <2>2, <2>3
<1>5. MapFeatures(w) = Map!With(MapFeatures(v), x, e.iUnknown)
  <2>1. MapFeatures(w) = [z \in Keys(v) \cup {x} |-> View(w)[z].iUnknown]
    BY ONLY <1>1 DEF MapFeatures
  <2>2. Map!With(MapFeatures(v), x, e.iUnknown)
          = [z \in Keys(v) \cup {x} |-> IF z = x THEN e.iUnknown ELSE MapFeatures(v)[z]]
    BY ONLY <1>1 DEF Map!With
  <2>3. \A z \in Keys(v) \cup {x} : View(w)[z].iUnknown
                                      = IF z = x THEN e.iUnknown ELSE MapFeatures(v)[z]
    BY ONLY <1>1, <1>2, <1>3
  <2> QED BY ONLY <2>1, <2>2, <2>3
<1> QED BY <1>4, <1>5

LEMMA MapWithout ==
  ASSUME NEW v, NEW w, NEW x, View(w) = Map!Without(View(v), x)
  PROVE  /\ MapOf(w) = Map!Without(MapOf(v), x)
         /\ MapFeatures(w) = Map!Without(MapFeatures(v), x)
<1>1. Keys(w) = Keys(v) \ {x} /\ DOMAIN MapOf(v) = Keys(v) /\ DOMAIN MapFeatures(v) = Keys(v)
  BY KeysView DEF Map!Without, MapOf, MapFeatures
<1>2. \A z \in Keys(w) : View(w)[z] = View(v)[z]
  BY <1>1, KeysView DEF Map!Without
<1>3. \A z \in Keys(v) : MapOf(v)[z] = MapService(View(v)[z])
                         /\ MapFeatures(v)[z] = View(v)[z].iUnknown
  BY DEF MapOf, MapFeatures
<1>4. \A z \in Keys(v) \ {x} : MapService(View(w)[z]) = MapOf(v)[z]
                               /\ View(w)[z].iUnknown = MapFeatures(v)[z]
  BY ONLY <1>1, <1>2, <1>3
<1> QED BY ONLY <1>1, <1>4 DEF MapOf, MapFeatures, Map!Without

\* What the module takes for the map is the one the services stand for.
LEMMA MapIs ==
  ASSUME NEW v, Registered(v)
  PROVE  [s \in {VECTOR_At(v, i).name : i \in Held(v)} |->
            LET m == VECTOR_At(v, FindByKey(v, s))
            IN [inited |-> m.inited = "SVC_IDLE", api |-> m.defaultApi,
                features |-> [f \in FeaturesOf(m) |-> DEFAULT_GetFeature(m, f).iUnknown]]]
         = MapOf(v)
<1>1. v \in Vectors(ServiceImpl) /\ Unique(v) /\ NULL \notin ServiceImpl /\ NULL \notin FeatureImpl
  BY RecordsAssumption DEF Registered, Good
<1>2. {VECTOR_At(v, i).name : i \in Held(v)} = Keys(v)
  BY <1>1, AtHeld DEF Keys
<1>3. ASSUME NEW s \in Keys(v)
      PROVE  LET m == VECTOR_At(v, FindByKey(v, s))
             IN m = View(v)[s] /\ [f \in FeaturesOf(m) |-> DEFAULT_GetFeature(m, f).iUnknown]
                                    = MapFeatures(m.features)
  <2> DEFINE m == VECTOR_At(v, FindByKey(v, s))
  <2>1. m = View(v)[s]
    BY <1>1, ViewFinds
  <2>2. m.features \in Vectors(FeatureImpl) /\ Unique(m.features)
    <3>1. FindByKey(v, s) \in Held(v) /\ m = v.data[FindByKey(v, s) + 1]
      BY <1>1, ViewFinds, Found
    <3> QED BY <3>1 DEF Registered, Good
  <2> HIDE DEF m
  <2>3. FeaturesOf(m) = Keys(m.features)
    BY <2>2, AtHeld DEF FeaturesOf, Keys
  <2>4. \A f \in Keys(m.features) : DEFAULT_GetFeature(m, f) = View(m.features)[f]
    BY <1>1, <2>2, ViewFinds DEF DEFAULT_GetFeature
  <2>5. [f \in FeaturesOf(m) |-> DEFAULT_GetFeature(m, f).iUnknown] = MapFeatures(m.features)
    BY ONLY <2>3, <2>4 DEF MapFeatures
  <2> QED BY <2>1, <2>5 DEF m
<1>4. \A s \in Keys(v) :
        (LET m == VECTOR_At(v, FindByKey(v, s))
         IN [inited |-> m.inited = "SVC_IDLE", api |-> m.defaultApi,
             features |-> [f \in FeaturesOf(m) |-> DEFAULT_GetFeature(m, f).iUnknown]])
        = MapService(View(v)[s])
  <2> TAKE s \in Keys(v)
  <2> DEFINE m == VECTOR_At(v, FindByKey(v, s))
  <2>1. m = View(v)[s] /\ [f \in FeaturesOf(m) |-> DEFAULT_GetFeature(m, f).iUnknown]
                            = MapFeatures(m.features)
    BY <1>3
  <2> QED BY ONLY <2>1 DEF MapService
<1> QED BY ONLY <1>2, <1>4 DEF MapOf

LEMMA ServiceMapIs ==
  ASSUME IInv, IInv'
  PROVE  serviceMap = MapOf(services) /\ serviceMap' = MapOf(services')
<1>1. Registered(services) /\ Registered(services')
  BY DEF IInv
<1>2. serviceMap = MapOf(services)
  BY <1>1, MapIs DEF serviceMap, GetService
<1>3. serviceMap' = MapOf(services')
  BY <1>1, MapIs DEF serviceMap, GetService
<1> QED BY <1>2, <1>3

-----------------------------------------------------------------------------
(* The calls, on the map. *)

\* A service is in the map when GetService finds it, and is what it finds.
LEMMA ServiceKnown ==
  ASSUME IInv, IInv', NEW s
  PROVE  /\ s \in DOMAIN serviceMap <=> GetService(s) # NULL
         /\ GetService(s) # NULL => serviceMap[s] = MapService(GetService(s))
<1>1. services \in Vectors(ServiceImpl) /\ Unique(services) /\ NULL \notin ServiceImpl
  BY RecordsAssumption DEF IInv, Registered, Good
<1>2. /\ s \in Keys(services) <=> GetService(s) # NULL
      /\ s \in Keys(services) => View(services)[s] = GetService(s)
  BY <1>1, ViewFinds DEF GetService
<1>3. serviceMap = MapOf(services)
  BY ServiceMapIs
<1> QED BY ONLY <1>2, <1>3 DEF MapOf

\* So is a feature.
LEMMA FeatureKnown ==
  ASSUME IInv, NEW s, GetService(s) # NULL, NEW f
  PROVE  LET m == GetService(s)
         IN /\ f \in DOMAIN MapFeatures(m.features) <=> DEFAULT_GetFeature(m, f) # NULL
            /\ DEFAULT_GetFeature(m, f) # NULL =>
                 MapFeatures(m.features)[f] = DEFAULT_GetFeature(m, f).iUnknown
<1> DEFINE m == GetService(s)
<1>1. m.features \in Vectors(FeatureImpl) /\ Unique(m.features) /\ NULL \notin FeatureImpl
  BY Service, RecordsAssumption DEF Good
<1>2. /\ f \in Keys(m.features) <=> DEFAULT_GetFeature(m, f) # NULL
      /\ f \in Keys(m.features) => View(m.features)[f] = DEFAULT_GetFeature(m, f)
  BY <1>1, ViewFinds DEF DEFAULT_GetFeature
<1> HIDE DEF m
<1>3. /\ f \in DOMAIN MapFeatures(m.features) <=> DEFAULT_GetFeature(m, f) # NULL
      /\ DEFAULT_GetFeature(m, f) # NULL =>
           MapFeatures(m.features)[f] = DEFAULT_GetFeature(m, f).iUnknown
  BY ONLY <1>2 DEF MapFeatures
<1> QED BY <1>3 DEF m

\* Replacing the value at a name that is there is EXCEPT.
LEMMA WithExcept ==
  ASSUME NEW g, g = [z \in DOMAIN g |-> g[z]], NEW x \in DOMAIN g, NEW y
  PROVE  Map!With(g, x, y) = [g EXCEPT ![x] = y]
<1>1. DOMAIN g \cup {x} = DOMAIN g
  OBVIOUS
<1> QED BY <1>1 DEF Map!With

\* A call that writes to the object of s changes the map at s.
LEMMA SetMaps ==
  ASSUME IInv, IInv', NEW s, GetService(s) # NULL, NEW n \in ServiceImpl, n.name = s, Set(s, n)
  PROVE  serviceMap' = [serviceMap EXCEPT ![s] = MapService(n)]
<1> DEFINE k == FindByKey(services, s)
<1>1. k \in Held(services) /\ services.data[k + 1].name = s
  BY Service
<1>2. Good(services, ServiceImpl, MaxServices) /\ NULL \notin ServiceImpl /\ MaxServices \in Nat
  BY RecordsAssumption, RegistryAssumption DEF IInv, Registered
<1>3. View([services EXCEPT !.data[k + 1] = n]) = Map!With(View(services), s, n)
  BY <1>1, <1>2, ViewUpdate
<1>4. services' = [services EXCEPT !.data[k + 1] = n]
  BY DEF Set
<1>5. MapOf(services') = Map!With(MapOf(services), s, MapService(n))
  BY <1>3, <1>4, MapWith
<1>6. /\ serviceMap = MapOf(services) /\ serviceMap' = MapOf(services')
      /\ s \in DOMAIN serviceMap
  BY ServiceMapIs, ServiceKnown
<1>7. MapOf(services) = [z \in DOMAIN MapOf(services) |-> MapOf(services)[z]]
  BY DEF MapOf
<1> QED BY ONLY <1>5, <1>6, <1>7, WithExcept

\* One that replaces its features changes the features in the map.
LEMMA FeaturesMaps ==
  ASSUME IInv, IInv', NEW s, GetService(s) # NULL, NEW w \in Vectors(FeatureImpl),
         Set(s, [GetService(s) EXCEPT !.features = w])
  PROVE  serviceMap' = [serviceMap EXCEPT ![s].features = MapFeatures(w)]
<1> DEFINE m == GetService(s)
           n == [m EXCEPT !.features = w]
<1>1. m \in ServiceImpl /\ m.name = s
  BY Service
<1>2. n \in ServiceImpl /\ n.name = s /\ n.features = w /\ n.inited = m.inited
      /\ n.defaultApi = m.defaultApi
  BY <1>1 DEF ServiceImpl
<1>3. serviceMap' = [serviceMap EXCEPT ![s] = MapService(n)]
  BY <1>2, SetMaps
<1>4. s \in DOMAIN serviceMap /\ serviceMap[s] = MapService(m)
  BY ServiceKnown
<1> HIDE DEF n, m
<1>5. MapService(n) = [MapService(m) EXCEPT !.features = MapFeatures(w)]
  BY ONLY <1>2 DEF MapService
<1> QED BY ONLY <1>3, <1>4, <1>5

\* One that replaces the interface of a feature, too.
LEMMA FeatureMaps ==
  ASSUME IInv, IInv', NEW s, GetService(s) # NULL, NEW f,
         DEFAULT_GetFeature(GetService(s), f) # NULL, NEW a \in Apis \cup {NULL},
         SetFeature(s, f, [DEFAULT_GetFeature(GetService(s), f) EXCEPT !.iUnknown = a])
  PROVE  serviceMap' = [serviceMap EXCEPT ![s].features = Map!With(@, f, a)]
<1> DEFINE m == GetService(s)
           k == FindByKey(m.features, f)
           e == [DEFAULT_GetFeature(m, f) EXCEPT !.iUnknown = a]
           w == [m.features EXCEPT !.data[k + 1] = e]
<1>1. Good(m.features, FeatureImpl, MaxFeatures)
  BY Service
<1>2. /\ k \in Held(m.features) /\ m.features.data[k + 1].name = f
      /\ DEFAULT_GetFeature(m, f) = m.features.data[k + 1]
      /\ m.features.data[k + 1] \in FeatureImpl
  BY Feature
<1>3. e \in FeatureImpl /\ e.name = f /\ e.iUnknown = a
  BY <1>2 DEF FeatureImpl
<1>4. NULL \notin FeatureImpl /\ MaxFeatures \in Nat
  BY RecordsAssumption, RegistryAssumption
<1> HIDE DEF e, k
<1>5. w \in Vectors(FeatureImpl) /\ View(w) = Map!With(View(m.features), f, e)
  BY <1>1, <1>2, <1>3, <1>4, ViewUpdate, UpdateGood DEF Good
<1>6. Set(s, [m EXCEPT !.features = w])
  BY Service DEF SetFeature, ServiceImpl, e, k
<1>7. MapFeatures(w) = Map!With(MapFeatures(m.features), f, a)
  BY <1>3, <1>5, MapWith
<1>8. serviceMap' = [serviceMap EXCEPT ![s].features = MapFeatures(w)]
  BY <1>5, <1>6, FeaturesMaps
<1>9. s \in DOMAIN serviceMap /\ serviceMap[s].features = MapFeatures(m.features)
  <2>1. s \in DOMAIN serviceMap /\ serviceMap[s] = MapService(m)
    BY ServiceKnown
  <2> HIDE DEF m
  <2> QED BY ONLY <2>1 DEF MapService
<1> HIDE DEF w
<1> QED BY ONLY <1>7, <1>8, <1>9

\* VECTOR_Num is zero when the map of the features is empty.
LEMMA NoFeatures ==
  ASSUME NEW v, Good(v, FeatureImpl, MaxFeatures)
  PROVE  VECTOR_Num(v) <= 0 <=> MapFeatures(v) = << >>
<1>1. v \in Vectors(FeatureImpl) /\ Counted(v, MaxFeatures) /\ Len(v.data) \in Nat
  BY DEF Good, Vectors
<1>2. /\ IsFiniteSet(Held(v)) /\ Cardinality(Held(v)) \in Nat
      /\ Cardinality(Released(v)) \in Nat
      /\ Cardinality(Released(v)) + Cardinality(Held(v)) = Len(v.data)
  BY <1>1, ReleasedFinite
<1>3. VECTOR_Num(v) = Cardinality(Held(v))
  BY <1>1, <1>2 DEF VECTOR_Num, Counted
<1>4. VECTOR_Num(v) <= 0 <=> Held(v) = {}
  BY <1>2, <1>3, FS_EmptySet
<1>5. Held(v) = {} <=> Keys(v) = {}
  BY DEF Keys
<1>6. Keys(v) = {} <=> MapFeatures(v) = << >>
  <2>1. DOMAIN MapFeatures(v) = Keys(v)
    BY DEF MapFeatures
  <2>2. DOMAIN << >> = {}
    OBVIOUS
  <2>3. ASSUME Keys(v) = {} PROVE MapFeatures(v) = << >>
    BY <2>3 DEF MapFeatures
  <2> QED BY <2>1, <2>2, <2>3
<1> QED BY <1>4, <1>5, <1>6

\* A call that leaves the services alone leaves the map alone.
LEMMA Untouched ==
  ASSUME IInv, IInv', UNCHANGED services
  PROVE  UNCHANGED serviceMap
<1>1. serviceMap = MapOf(services) /\ serviceMap' = MapOf(services')
  BY ServiceMapIs
<1>2. MapOf(services') = MapOf(services)
  OBVIOUS
<1> QED BY ONLY <1>1, <1>2

LEMMA RefusedMap ==
  ASSUME IInv, IInv', NEW result, Refuse(result)
  PROVE  Map!Refuse(result)
BY Untouched DEF Refuse, Map!Refuse

LEMMA RegisterServiceMap ==
  ASSUME IInv, IInv', NEW s \in Names, RegisterService(s)
  PROVE  Map!RegisterService(s)
<1>1. CASE Refuse(FALSE)
  BY <1>1, RefusedMap DEF Map!RegisterService
<1>2. CASE /\ FindByKey(services, s) = INVALID_INDEX /\ VECTOR_Num(services) < MaxServices
           /\ services' = VECTOR_Add(services, CreateServiceImpl(s)) /\ Return(TRUE)
  <2> DEFINE e == CreateServiceImpl(s)
  <2>1. Good(services, ServiceImpl, MaxServices) /\ services \in Vectors(ServiceImpl)
        /\ Unique(services)
    BY DEF IInv, Registered, Good
  <2>2. NULL \notin ServiceImpl /\ MaxServices \in Nat /\ MaxFeatures \in Nat
    BY RecordsAssumption, RegistryAssumption
  <2>3. Good(VECTOR_Make, FeatureImpl, MaxFeatures) /\ VECTOR_Make \in Vectors(FeatureImpl)
        /\ Held(VECTOR_Make) = {}
    BY <2>2, MakeGood DEF Good
  <2>4. AddIndex(services) \in Int
    BY <2>1, <2>2, AddIndexInt
  <2>5. /\ e \in ServiceImpl /\ e.name = s /\ e.inited = "SVC_INIT" /\ e.defaultApi = NULL
        /\ e.features = VECTOR_Make
    BY <2>3, <2>4 DEF CreateServiceImpl, ServiceImpl
  <2> HIDE DEF e
  <2>6. GetService(s) = NULL
    BY <1>2, <2>1, <2>2, Found DEF GetService
  <2>7. s \notin DOMAIN serviceMap /\ serviceMap = MapOf(services)
        /\ serviceMap' = MapOf(services')
    BY <2>6, ServiceKnown, ServiceMapIs
  <2>8. e.name \notin Keys(services)
    BY ONLY <2>5, <2>7 DEF MapOf
  <2>9. View(VECTOR_Add(services, e)) = Map!With(View(services), s, e)
    BY <1>2, <2>1, <2>2, <2>5, <2>8, ViewAdd
  <2>10. services' = VECTOR_Add(services, e) /\ reply' = TRUE
    BY <1>2 DEF Return, e
  <2>11. MapOf(services') = Map!With(MapOf(services), s, MapService(e))
    BY <2>9, <2>10, MapWith
  <2>12. MapFeatures(VECTOR_Make) = << >>
    <3>1. Keys(VECTOR_Make) = {}
      BY <2>3 DEF Keys
    <3> QED BY <3>1 DEF MapFeatures
  <2>13. MapService(e) = [inited |-> FALSE, api |-> NULL, features |-> << >>]
    BY ONLY <2>5, <2>12 DEF MapService
  <2> QED BY ONLY <2>7, <2>10, <2>11, <2>13 DEF Map!RegisterService
<1>3. VECTOR_Num(services) \in Int /\ MaxServices \in Int
  BY AddIndexInt, RegistryAssumption DEF IInv, Registered, Good
<1>4. ~ (VECTOR_Num(services) >= MaxServices) => VECTOR_Num(services) < MaxServices
  BY <1>3
<1> QED BY <1>1, <1>2, <1>4 DEF RegisterService

LEMMA UnregisterServiceMap ==
  ASSUME IInv, IInv', NEW s \in Names, UnregisterService(s)
  PROVE  Map!UnregisterService(s)
<1> DEFINE m == GetService(s)
           go == m # NULL /\ m.defaultApi = NULL /\ VECTOR_Num(m.features) <= 0
           k == FindByKey(services, s)
<1>1. go <=> s \in DOMAIN serviceMap /\ serviceMap[s].api = NULL
                /\ serviceMap[s].features = << >>
  <2>1. CASE m = NULL
    BY <2>1, ServiceKnown
  <2>2. CASE m # NULL
    <3>1. s \in DOMAIN serviceMap /\ serviceMap[s] = MapService(m)
      BY <2>2, ServiceKnown
    <3>2. VECTOR_Num(m.features) <= 0 <=> MapFeatures(m.features) = << >>
      BY <2>2, Service, NoFeatures
    <3> HIDE DEF m
    <3> QED BY ONLY <2>2, <3>1, <3>2 DEF MapService
  <2> QED BY <2>1, <2>2
<1>2. CASE go
  <2>1. k \in Held(services) /\ services.data[k + 1].name = s
    BY <1>2, Service
  <2>2. Good(services, ServiceImpl, MaxServices) /\ NULL \notin ServiceImpl /\ MaxServices \in Nat
    BY RecordsAssumption, RegistryAssumption DEF IInv, Registered
  <2>3. services' = VECTOR_Release(services, k) /\ reply' = s
    BY <1>2 DEF UnregisterService, Return
  <2>4. View(VECTOR_Release(services, k)) = Map!Without(View(services), s)
    BY <2>1, <2>2, ViewRelease
  <2>5. MapOf(services') = Map!Without(MapOf(services), s)
    BY <2>3, <2>4, MapWithout
  <2>6. serviceMap' = Map!Without(serviceMap, s)
    BY <2>5, ServiceMapIs
  <2> HIDE DEF go
  <2> QED BY ONLY <1>1, <1>2, <2>3, <2>6 DEF Map!UnregisterService
<1>3. CASE ~ go
  <2>1. Refuse(NULL)
    BY <1>3 DEF UnregisterService
  <2>2. Map!Refuse(NULL)
    BY <2>1, RefusedMap
  <2> HIDE DEF go
  <2> QED BY ONLY <1>1, <1>3, <2>2 DEF Map!UnregisterService
<1> QED BY <1>2, <1>3

LEMMA InitialisedMap ==
  ASSUME IInv, IInv', NEW s \in Names, Initialised(s)
  PROVE  Map!Initialised(s)
<1> DEFINE m == GetService(s)
           n == [m EXCEPT !.inited = "SVC_IDLE"]
<1>1. m # NULL /\ Set(s, n) /\ reply' = reply
  BY DEF Initialised
<1>2. m \in ServiceImpl /\ m.name = s
  BY <1>1, Service
<1>3. /\ n \in ServiceImpl /\ n.name = s /\ n.inited = "SVC_IDLE"
      /\ n.defaultApi = m.defaultApi /\ n.features = m.features
  BY <1>2 DEF ServiceImpl
<1> HIDE DEF n
<1>4. serviceMap' = [serviceMap EXCEPT ![s] = MapService(n)]
  BY <1>1, <1>3, SetMaps
<1>5. s \in DOMAIN serviceMap /\ serviceMap[s] = MapService(m)
  BY <1>1, ServiceKnown
<1> HIDE DEF m
<1>6. MapService(n) = [MapService(m) EXCEPT !.inited = TRUE]
  <2> DEFINE r == [inited |-> TRUE, api |-> m.defaultApi, features |-> MapFeatures(m.features)]
  <2>1. MapService(n) = r
    BY ONLY <1>3 DEF MapService
  <2>2. ASSUME NEW h, h = [MapService(m) EXCEPT !.inited = TRUE] PROVE h = r
    BY ONLY <2>2 DEF MapService
  <2> HIDE DEF r
  <2> QED BY ONLY <2>1, <2>2
<1> QED BY ONLY <1>1, <1>4, <1>5, <1>6 DEF Map!Initialised

\* What GetService and DEFAULT_GetFeature find, as the map has it.
LEMMA FeatureInMap ==
  ASSUME IInv, IInv', NEW s, NEW f
  PROVE  LET m == GetService(s)
         IN /\ m # NULL => /\ s \in DOMAIN serviceMap /\ serviceMap[s].api = m.defaultApi
                           /\ serviceMap[s].features = MapFeatures(m.features)
            /\ m # NULL /\ DEFAULT_GetFeature(m, f) # NULL <=>
                 s \in DOMAIN serviceMap /\ f \in DOMAIN serviceMap[s].features
            /\ m # NULL /\ DEFAULT_GetFeature(m, f) # NULL =>
                 serviceMap[s].features[f] = DEFAULT_GetFeature(m, f).iUnknown
<1> DEFINE m == GetService(s)
<1>1. CASE m = NULL
  BY <1>1, ServiceKnown
<1>2. CASE m # NULL
  <2>1. s \in DOMAIN serviceMap /\ serviceMap[s] = MapService(m)
    BY <1>2, ServiceKnown
  <2>2. /\ f \in DOMAIN MapFeatures(m.features) <=> DEFAULT_GetFeature(m, f) # NULL
        /\ DEFAULT_GetFeature(m, f) # NULL =>
             MapFeatures(m.features)[f] = DEFAULT_GetFeature(m, f).iUnknown
    BY <1>2, FeatureKnown
  <2> HIDE DEF m
  <2>3. /\ s \in DOMAIN serviceMap /\ serviceMap[s].api = m.defaultApi
        /\ serviceMap[s].features = MapFeatures(m.features)
    BY ONLY <2>1 DEF MapService
  <2>4. /\ m # NULL => /\ s \in DOMAIN serviceMap /\ serviceMap[s].api = m.defaultApi
                       /\ serviceMap[s].features = MapFeatures(m.features)
        /\ m # NULL /\ DEFAULT_GetFeature(m, f) # NULL <=>
             s \in DOMAIN serviceMap /\ f \in DOMAIN serviceMap[s].features
        /\ m # NULL /\ DEFAULT_GetFeature(m, f) # NULL =>
             serviceMap[s].features[f] = DEFAULT_GetFeature(m, f).iUnknown
    BY ONLY <1>2, <2>2, <2>3
  <2> QED BY <2>4 DEF m
<1> QED BY <1>1, <1>2

LEMMA RegisterFeatureMap ==
  ASSUME IInv, IInv', NEW s \in Names, NEW f \in Features, RegisterFeature(s, f)
  PROVE  Map!RegisterFeature(s, f)
<1> DEFINE m == GetService(s)
           e == [name |-> f, iUnknown |-> NULL]
           w == VECTOR_Add(m.features, e)
<1>1. CASE Refuse(FALSE)
  BY <1>1, RefusedMap DEF Map!RegisterFeature
<1>2. CASE /\ m # NULL /\ m.inited = "SVC_INIT" /\ DEFAULT_GetFeature(m, f) = NULL
           /\ VECTOR_Num(m.features) < MaxFeatures
           /\ Set(s, [m EXCEPT !.features = w]) /\ Return(TRUE)
  <2>1. Good(m.features, FeatureImpl, MaxFeatures) /\ m.features \in Vectors(FeatureImpl)
    BY <1>2, Service DEF Good
  <2>2. /\ NULL \notin FeatureImpl /\ MaxFeatures \in Nat /\ e \in FeatureImpl
        /\ e.name = f /\ e.iUnknown = NULL
    BY RecordsAssumption, RegistryAssumption DEF FeatureImpl
  <2>3. s \in DOMAIN serviceMap /\ serviceMap[s] = MapService(m)
    BY <1>2, ServiceKnown
  <2>4. f \notin DOMAIN MapFeatures(m.features)
    BY <1>2, FeatureKnown
  <2>5. e.name \notin Keys(m.features)
    BY <2>2, <2>4 DEF MapFeatures
  <2>6. \A i \in Held(m.features) : m.features.data[i + 1].name # e.name
    BY <2>5 DEF Keys
  <2>7. w \in Vectors(FeatureImpl)
    BY <1>2, <2>1, <2>2, <2>6, AddGood DEF Good
  <2>8. View(w) = Map!With(View(m.features), f, e)
    BY <1>2, <2>1, <2>2, <2>5, ViewAdd
  <2>9. MapFeatures(w) = Map!With(MapFeatures(m.features), f, NULL)
    BY <2>2, <2>8, MapWith
  <2>10. serviceMap' = [serviceMap EXCEPT ![s].features = MapFeatures(w)]
    BY <1>2, <2>7, FeaturesMaps
  <2>11. reply' = TRUE /\ m.inited = "SVC_INIT"
    BY <1>2 DEF Return
  <2> HIDE DEF w, m
  <2>12. /\ s \in DOMAIN serviceMap /\ ~ serviceMap[s].inited
         /\ serviceMap[s].features = MapFeatures(m.features)
    <3>1. MapService(m) = [inited |-> FALSE, api |-> m.defaultApi,
                           features |-> MapFeatures(m.features)]
      BY ONLY <2>11 DEF MapService
    <3> QED BY ONLY <2>3, <3>1
  <2> QED BY ONLY <2>4, <2>9, <2>10, <2>11, <2>12 DEF Map!RegisterFeature
<1> QED BY <1>1, <1>2 DEF RegisterFeature

LEMMA UnregisterFeatureMap ==
  ASSUME IInv, IInv', NEW s \in Names, NEW f \in Features, UnregisterFeature(s, f)
  PROVE  Map!UnregisterFeature(s, f)
<1> DEFINE m == GetService(s)
           go == m # NULL /\ DEFAULT_GetFeature(m, f) # NULL
                   /\ DEFAULT_GetFeature(m, f).iUnknown = NULL
           k == FindByKey(m.features, f)
           w == VECTOR_Release(m.features, k)
<1>1. go <=> s \in DOMAIN serviceMap /\ f \in DOMAIN serviceMap[s].features
                /\ serviceMap[s].features[f] = NULL
  BY FeatureInMap
<1>2. CASE go
  <2>1. Good(m.features, FeatureImpl, MaxFeatures)
    BY <1>2, Service
  <2>2. k \in Held(m.features) /\ m.features.data[k + 1].name = f
    BY <1>2, Feature
  <2>3. NULL \notin FeatureImpl /\ MaxFeatures \in Nat
    BY RecordsAssumption, RegistryAssumption
  <2>4. w \in Vectors(FeatureImpl) /\ View(w) = Map!Without(View(m.features), f)
    BY <2>1, <2>2, <2>3, ViewRelease, ReleaseGood DEF Good
  <2>5. Set(s, [m EXCEPT !.features = w]) /\ reply' = f
    <3>1. Set(s, [m EXCEPT !.features = VECTOR_Release(@, k)]) /\ reply' = f
      BY <1>2 DEF UnregisterFeature, Return
    <3>2. [m EXCEPT !.features = VECTOR_Release(@, k)] = [m EXCEPT !.features = w]
      BY <1>2, Service DEF ServiceImpl
    <3> QED BY <3>1, <3>2
  <2>6. MapFeatures(w) = Map!Without(MapFeatures(m.features), f)
    BY <2>4, MapWithout
  <2>7. serviceMap' = [serviceMap EXCEPT ![s].features = MapFeatures(w)]
    BY <1>2, <2>4, <2>5, FeaturesMaps
  <2>8. s \in DOMAIN serviceMap /\ serviceMap[s].features = MapFeatures(m.features)
    BY <1>2, FeatureInMap
  <2> HIDE DEF w, go
  <2> QED BY ONLY <1>1, <1>2, <2>5, <2>6, <2>7, <2>8 DEF Map!UnregisterFeature
<1>3. CASE ~ go
  <2>1. Map!Refuse(NULL)
    BY <1>3, RefusedMap DEF UnregisterFeature
  <2> HIDE DEF go
  <2> QED BY ONLY <1>1, <1>3, <2>1 DEF Map!UnregisterFeature
<1> QED BY <1>2, <1>3

\* The interface of a service itself, as the map has it.
LEMMA DefaultInMap ==
  ASSUME IInv, IInv', NEW s
  PROVE  /\ GetService(s) # NULL <=> Map!Has(s, DEFAULT)
         /\ GetService(s) # NULL => Map!Api(s, DEFAULT) = GetService(s).defaultApi
<1>1. Map!DEFAULT = DEFAULT
  BY DEF Map!DEFAULT, DEFAULT
<1>2. GetService(s) # NULL <=> s \in DOMAIN serviceMap
  BY ServiceKnown
<1>3. GetService(s) # NULL => serviceMap[s].api = GetService(s).defaultApi
  BY FeatureInMap
<1> QED BY ONLY <1>1, <1>2, <1>3 DEF Map!Has, Map!Api

\* A call that replaces it changes it in the map.
LEMMA DefaultMaps ==
  ASSUME IInv, IInv', NEW s, GetService(s) # NULL, NEW a \in Apis \cup {NULL},
         Set(s, [GetService(s) EXCEPT !.defaultApi = a])
  PROVE  Map!SetApi(s, DEFAULT, a)
<1> DEFINE m == GetService(s)
           n == [m EXCEPT !.defaultApi = a]
<1>1. m \in ServiceImpl /\ m.name = s
  BY Service
<1>2. n \in ServiceImpl /\ n.name = s /\ n.features = m.features /\ n.inited = m.inited
      /\ n.defaultApi = a
  BY <1>1 DEF ServiceImpl
<1>3. serviceMap' = [serviceMap EXCEPT ![s] = MapService(n)]
  BY <1>2, SetMaps
<1>4. s \in DOMAIN serviceMap /\ serviceMap[s] = MapService(m)
  BY ServiceKnown
<1> HIDE DEF n, m
<1>5. MapService(n) = [MapService(m) EXCEPT !.api = a]
  BY ONLY <1>2 DEF MapService
<1>6. serviceMap' = [serviceMap EXCEPT ![s].api = a]
  BY ONLY <1>3, <1>4, <1>5
<1> QED BY ONLY <1>6 DEF Map!SetApi, Map!DEFAULT, DEFAULT

\* The interface of a service, and with FeatureInMap of a feature.
LEMMA RegisterDefaultFeatureApiMap ==
  ASSUME IInv, IInv', NEW s \in Names, NEW a \in Apis, RegisterDefaultFeatureApi(s, a)
  PROVE  Map!RegisterFeatureApi(s, DEFAULT, a)
<1> DEFINE m == GetService(s)
           go == m # NULL /\ m.defaultApi = NULL
<1>1. go <=> Map!Has(s, DEFAULT) /\ Map!Api(s, DEFAULT) = NULL
  BY DefaultInMap
<1>2. CASE go
  <2>1. Set(s, [m EXCEPT !.defaultApi = a]) /\ reply' = TRUE
    BY <1>2 DEF RegisterDefaultFeatureApi, Return
  <2>2. Map!SetApi(s, DEFAULT, a)
    BY <1>2, <2>1, DefaultMaps
  <2> HIDE DEF go
  <2> QED BY ONLY <1>1, <1>2, <2>1, <2>2 DEF Map!RegisterFeatureApi
<1>3. CASE ~ go
  <2>1. Map!Refuse(FALSE)
    BY <1>3, RefusedMap DEF RegisterDefaultFeatureApi
  <2> HIDE DEF go
  <2> QED BY ONLY <1>1, <1>3, <2>1 DEF Map!RegisterFeatureApi
<1> QED BY <1>2, <1>3

LEMMA UnregisterDefaultFeatureApiMap ==
  ASSUME IInv, IInv', NEW s \in Names, UnregisterDefaultFeatureApi(s)
  PROVE  Map!UnregisterFeatureApi(s, DEFAULT)
<1> DEFINE m == GetService(s)
<1>1. m # NULL <=> Map!Has(s, DEFAULT)
  BY DefaultInMap
<1>2. CASE m # NULL
  <2>1. Set(s, [m EXCEPT !.defaultApi = NULL]) /\ reply' = m.defaultApi
    BY <1>2 DEF UnregisterDefaultFeatureApi, Return
  <2>2. Map!SetApi(s, DEFAULT, NULL)
    BY <1>2, <2>1, DefaultMaps
  <2>3. Map!Api(s, DEFAULT) = m.defaultApi
    BY <1>2, DefaultInMap
  <2> HIDE DEF m
  <2> QED BY ONLY <1>1, <1>2, <2>1, <2>2, <2>3 DEF Map!UnregisterFeatureApi
<1>3. CASE m = NULL
  <2>1. Map!Refuse(NULL)
    BY <1>3, RefusedMap DEF UnregisterDefaultFeatureApi
  <2> HIDE DEF m
  <2> QED BY ONLY <1>1, <1>3, <2>1 DEF Map!UnregisterFeatureApi
<1> QED BY <1>2, <1>3

LEMMA RegisterFeatureApiMap ==
  ASSUME IInv, IInv', NEW s \in Names, NEW f \in Features, NEW a \in Apis,
         RegisterFeatureApi(s, f, a)
  PROVE  Map!RegisterFeatureApi(s, f, a)
<1> DEFINE m == GetService(s)
           go == m # NULL /\ DEFAULT_GetFeature(m, f) # NULL
                   /\ DEFAULT_GetFeature(m, f).iUnknown = NULL
<1>0. f # DEFAULT /\ Map!DEFAULT = DEFAULT
  BY RegistryAssumption DEF Map!DEFAULT, DEFAULT
<1>1. go <=> Map!Has(s, f) /\ Map!Api(s, f) = NULL
  BY <1>0, FeatureInMap DEF Map!Has, Map!Api
<1>2. CASE go
  <2>1. /\ SetFeature(s, f, [DEFAULT_GetFeature(m, f) EXCEPT !.iUnknown = a])
        /\ reply' = TRUE
    BY <1>2 DEF RegisterFeatureApi, Return
  <2>2. Map!SetApi(s, f, a)
    BY <1>0, <1>2, <2>1, FeatureMaps DEF Map!SetApi
  <2> HIDE DEF go
  <2> QED BY ONLY <1>1, <1>2, <2>1, <2>2 DEF Map!RegisterFeatureApi
<1>3. CASE ~ go
  <2>1. Map!Refuse(FALSE)
    BY <1>3, RefusedMap DEF RegisterFeatureApi
  <2> HIDE DEF go
  <2> QED BY ONLY <1>1, <1>3, <2>1 DEF Map!RegisterFeatureApi
<1> QED BY <1>2, <1>3

LEMMA UnregisterFeatureApiMap ==
  ASSUME IInv, IInv', NEW s \in Names, NEW f \in Features, UnregisterFeatureApi(s, f)
  PROVE  Map!UnregisterFeatureApi(s, f)
<1> DEFINE m == GetService(s)
           go == m # NULL /\ DEFAULT_GetFeature(m, f) # NULL
<1>0. f # DEFAULT /\ Map!DEFAULT = DEFAULT
  BY RegistryAssumption DEF Map!DEFAULT, DEFAULT
<1>1. go <=> Map!Has(s, f)
  BY <1>0, FeatureInMap DEF Map!Has
<1>2. CASE go
  <2>1. /\ SetFeature(s, f, [DEFAULT_GetFeature(m, f) EXCEPT !.iUnknown = NULL])
        /\ reply' = DEFAULT_GetFeature(m, f).iUnknown
    BY <1>2 DEF UnregisterFeatureApi, Return
  <2>2. Map!SetApi(s, f, NULL)
    BY <1>0, <1>2, <2>1, FeatureMaps DEF Map!SetApi
  <2>3. Map!Api(s, f) = DEFAULT_GetFeature(m, f).iUnknown
    BY <1>0, <1>2, FeatureInMap DEF Map!Api
  <2> HIDE DEF go
  <2> QED BY ONLY <1>1, <1>2, <2>1, <2>2, <2>3 DEF Map!UnregisterFeatureApi
<1>3. CASE ~ go
  <2>1. Map!Refuse(NULL)
    BY <1>3, RefusedMap DEF UnregisterFeatureApi
  <2> HIDE DEF go
  <2> QED BY ONLY <1>1, <1>3, <2>1 DEF Map!UnregisterFeatureApi
<1> QED BY <1>2, <1>3

LEMMA GetFeatureApiMap ==
  ASSUME IInv, IInv', NEW s \in Names, NEW f \in Features \cup {DEFAULT}, GetFeatureApi(s, f)
  PROVE  Map!GetFeatureApi(s, f)
<1> DEFINE m == GetService(s)
           found == IF m = NULL THEN NULL
                    ELSE IF f = DEFAULT THEN m.defaultApi
                    ELSE IF DEFAULT_GetFeature(m, f) = NULL THEN NULL
                    ELSE DEFAULT_GetFeature(m, f).iUnknown
<1>0. Map!DEFAULT = DEFAULT
  BY DEF Map!DEFAULT, DEFAULT
<1>1. found = IF Map!Has(s, f) THEN Map!Api(s, f) ELSE NULL
  <2>1. CASE f = DEFAULT
    BY <2>1, DefaultInMap
  <2>2. CASE f # DEFAULT
    BY <1>0, <2>2, FeatureInMap DEF Map!Has, Map!Api
  <2> QED BY <2>1, <2>2
<1>2. Refuse(found)
  BY DEF GetFeatureApi
<1> HIDE DEF found
<1>3. Map!Refuse(found)
  BY <1>2, RefusedMap
<1> QED BY ONLY <1>1, <1>3 DEF Map!GetFeatureApi

\* Each step of the registry is one of the map, and each call returns what the
\* map says: a client cannot tell the two apart, whatever the slots, the ids
\* and the order of registrations.
THEOREM RegistryIsMap == Spec => ImplementsServiceMap
<1>1. ASSUME Init PROVE Map!Init
  <2>1. services = VECTOR_Make /\ reply = NULL
    BY <1>1 DEF Init
  <2>2. Held(VECTOR_Make) = {}
    BY MakeGood, RegistryAssumption
  <2>3. serviceMap = << >>
    BY <2>1, <2>2 DEF serviceMap
  <2> QED BY ONLY <2>1, <2>3 DEF Map!Init
<1>2. ASSUME IInv, IInv', [Next]_vars PROVE [Map!Next]_(Map!vars)
  <2>1. CASE UNCHANGED vars
    BY <1>2, <2>1, Untouched DEF vars, Map!vars
  <2>2. ASSUME NEW s \in Names, RegisterService(s) PROVE Map!Next
    BY <1>2, <2>2, RegisterServiceMap DEF Map!Next
  <2>3. ASSUME NEW s \in Names, UnregisterService(s) PROVE Map!Next
    BY <1>2, <2>3, UnregisterServiceMap DEF Map!Next
  <2>4. ASSUME NEW s \in Names, Initialised(s) PROVE Map!Next
    BY <1>2, <2>4, InitialisedMap DEF Map!Next
  <2>5. ASSUME NEW s \in Names, NEW f \in Features, RegisterFeature(s, f) PROVE Map!Next
    BY <1>2, <2>5, RegisterFeatureMap DEF Map!Next
  <2>6. ASSUME NEW s \in Names, NEW f \in Features, UnregisterFeature(s, f) PROVE Map!Next
    BY <1>2, <2>6, UnregisterFeatureMap DEF Map!Next
  <2>7. ASSUME NEW s \in Names, NEW f \in Features, NEW a \in Apis,
               RegisterFeatureApi(s, f, a)
        PROVE  Map!Next
    BY <1>2, <2>7, RegisterFeatureApiMap DEF Map!Next
  <2>8. ASSUME NEW s \in Names, NEW f \in Features, UnregisterFeatureApi(s, f) PROVE Map!Next
    BY <1>2, <2>8, UnregisterFeatureApiMap DEF Map!Next
  <2>9. ASSUME NEW s \in Names, NEW a \in Apis, RegisterDefaultFeatureApi(s, a) PROVE Map!Next
    <3>1. Map!RegisterFeatureApi(s, DEFAULT, a)
      BY <1>2, <2>9, RegisterDefaultFeatureApiMap
    <3> QED BY <3>1 DEF Map!Next, Map!DEFAULT, DEFAULT
  <2>10. ASSUME NEW s \in Names, UnregisterDefaultFeatureApi(s) PROVE Map!Next
    <3>1. Map!UnregisterFeatureApi(s, DEFAULT)
      BY <1>2, <2>10, UnregisterDefaultFeatureApiMap
    <3> QED BY <3>1 DEF Map!Next, Map!DEFAULT, DEFAULT
  <2>11. ASSUME NEW s \in Names, NEW f \in Features \cup {DEFAULT}, GetFeatureApi(s, f)
         PROVE  Map!Next
    <3>1. Map!GetFeatureApi(s, f)
      BY <1>2, <2>11, GetFeatureApiMap
    <3> QED BY <3>1 DEF Map!Next, Map!DEFAULT, DEFAULT
  <2> QED BY <1>2, <2>1, <2>2, <2>3, <2>4, <2>5, <2>6, <2>7, <2>8, <2>9, <2>10, <2>11 DEF Next
<1>3. ASSUME IInv, [Next]_vars PROVE IInv'
  BY <1>3, NextStep
<1> QED BY Invariant, <1>1, <1>2, <1>3, PTL DEF Spec, ImplementsServiceMap, Map!Spec
=============================================================================
