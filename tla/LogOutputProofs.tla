---------------------------- MODULE LogOutputProofs ----------------------------
(***************************************************************************)
(* Proofs about LogOutput for every size of the cache, of records and of   *)
(* the log file.                                                           *)
(*                                                                         *)
(* The cache is looked at as a stream of cells that starts where the next  *)
(* read does: writers append to it, the flusher takes cells off its front, *)
(* and no wrap of the buffer is seen from outside.                         *)
(*                                                                         *)
(* Of the files, it is enough to know what lies behind mark and whether    *)
(* the operation that would break a statement is among those that failed.  *)
(***************************************************************************)
EXTENDS LogOutput, SequenceTheorems, TLAPS

\* Where ReadFromCache starts when w is the write cursor and u cells are in
\* use, and the place of the cell i cells further on.
Start(w, u) == IF w >= u THEN w - u ELSE Size - (u - w)
Pos(w, u, i) == IF Start(w, u) + i < Size THEN Start(w, u) + i ELSE Start(w, u) + i - Size

\* The cells not yet read, those a writer has still to copy included.
Total == usedSize + Len(rest)
Stream == [i \in 0 .. Total - 1 |->
             IF i < usedSize THEN buffer[Pos(wCursor, usedSize, i)] ELSE rest[i - usedSize + 1]]

\* Cell j of record k.
CellOf(k, j) == [record |-> k, part |-> j, valueNumber |-> sizes[k]]

\* The cells of record taken + 1 that usedSize no longer counts.
Counted == IF pc \in {"test", "cursor", "copy"} THEN Len(content)
           ELSE IF pc = "count" /\ Len(content) > 1 THEN 1 ELSE 0

Types ==
  /\ buffer \in [0 .. Size - 1 -> Cell \cup {NULL}]
  /\ wCursor \in 0 .. Size /\ usedSize \in 0 .. Size
  /\ rest \in Seq(Cell) /\ Total <= Size /\ (rest # <<>> => wCursor = 0)
  /\ sizes \in Seq(Nat) /\ taken \in 0 .. Len(sizes)
  /\ content \in Seq(Cell)
  /\ flusher = "none" => pc = "idle"

\* A stream of total cells is what is left of the records from t + 1 on, of
\* which the first c cells are gone; s[k] is the place of record k.
LaidAt(s, stream, total, size, t, c) ==
  /\ s[t + 1] = 0 - c /\ s[Len(size) + 1] = total
  /\ \A k \in t + 1 .. Len(size) :
       /\ s[k + 1] = s[k] + size[k] + 1 /\ s[k + 1] <= total
       /\ \A j \in 0 .. size[k] : s[k] + j >= 0 =>
            stream[s[k] + j] = [record |-> k, part |-> j, valueNumber |-> size[k]]
LaidOut(stream, total, size, t, c) ==
  \E s \in [1 .. Len(size) + 1 -> Int] : LaidAt(s, stream, total, size, t, c)
Laid == LaidOut(Stream, Total, sizes, taken, Counted)

\* What the flusher holds, and that the record it is at is in the cache.
Reader ==
  /\ pc \in {"idle", "test", "cursor", "copy", "count", "write", "append", "done"}
  /\ pc \in {"idle", "done"} => content = <<>>
  /\ pc \in {"test", "cursor", "copy"} /\ content # <<>> =>
       /\ taken < Len(sizes) /\ sizes[taken + 1] > 0 /\ usedSize >= sizes[taken + 1]
       /\ content = <<CellOf(taken + 1, 0)>>
  /\ pc \in {"cursor", "copy"} => usedSize > 0
  /\ pc = "copy" =>
       /\ taken < Len(sizes) /\ rCursor = Start(wCursor, usedSize)
       /\ content = <<>> => usedSize > sizes[taken + 1]
  /\ pc = "count" =>
       /\ taken < Len(sizes)
       /\ \/ content = <<CellOf(taken + 1, 0)>> /\ usedSize > sizes[taken + 1]
          \/ /\ content = Record(taken + 1, sizes[taken + 1])
             /\ sizes[taken + 1] > 0 /\ usedSize >= sizes[taken + 1]
  /\ pc \in {"write", "append"} => taken > 0 /\ content = Record(taken, sizes[taken])

CacheInv == Types /\ Laid /\ Reader

-----------------------------------------------------------------------------
(* The stream *)

LEMMA SizeFacts == Size \in Nat /\ Size > 0 /\ MaxValues \in Nat
BY LogOutputAssumption

\* The cells of a buffer of Size cells, counted on from rCursor.
LEMMA Wrap ==
  ASSUME NEW x \in Nat, x < Size + Size
  PROVE  x % Size = IF x < Size THEN x ELSE x - Size
<1>1. Size \in Nat /\ Size > 0
  BY SizeFacts
<1>2. CASE x < Size
  BY <1>1, <1>2
<1>3. CASE ~ (x < Size)
  BY <1>1, <1>3
<1> QED BY <1>2, <1>3

\* Where a part of a record of z values at a is in the stream.
LEMMA InStream ==
  ASSUME NEW total \in Nat, NEW a \in Int, NEW z \in Nat, NEW j \in 0 .. z,
         a + z + 1 <= total, a + j >= 0
  PROVE  a + j \in 0 .. total - 1
OBVIOUS

\* Nothing was put into the stream or taken from it.
LEMMA LaidSame ==
  ASSUME NEW stream, NEW stream2, NEW total \in Nat, NEW size \in Seq(Nat),
         NEW t \in 0 .. Len(size), NEW c \in Nat,
         LaidOut(stream, total, size, t, c),
         \A i \in 0 .. total - 1 : stream2[i] = stream[i]
  PROVE  LaidOut(stream2, total, size, t, c)
<1>1. PICK s \in [1 .. Len(size) + 1 -> Int] : LaidAt(s, stream, total, size, t, c)
  BY DEF LaidOut
<1>2. ASSUME NEW k \in t + 1 .. Len(size), NEW j \in 0 .. size[k], s[k] + j >= 0
      PROVE  stream2[s[k] + j] = stream[s[k] + j]
  <2>1. k \in 1 .. Len(size) /\ k \in 1 .. Len(size) + 1
    OBVIOUS
  <2>2. size[k] \in Nat /\ s[k] \in Int
    BY <2>1, ElementOfSeq
  <2>2a. s[k] + size[k] + 1 <= total
    BY <1>1 DEF LaidAt
  <2>3. s[k] + j \in 0 .. total - 1
    BY ONLY <1>2, <2>2, <2>2a, total \in Nat, InStream
  <2> QED BY <2>3
<1>3. LaidAt(s, stream2, total, size, t, c)
  BY <1>1, <1>2 DEF LaidAt
<1> QED BY <1>3 DEF LaidOut

\* A record of n values was put into it.
Longer(stream, total, size, stream2, total2, size2, n) ==
  /\ size2 \in Seq(Nat) /\ Len(size2) = Len(size) + 1 /\ size2[Len(size) + 1] = n
  /\ \A k \in 1 .. Len(size) : size2[k] = size[k]
  /\ total2 = total + n + 1
  /\ \A i \in 0 .. total - 1 : stream2[i] = stream[i]
  /\ \A j \in 0 .. n : stream2[total + j]
                          = [record |-> Len(size) + 1, part |-> j, valueNumber |-> n]

LEMMA LaidWrite ==
  ASSUME NEW stream, NEW stream2, NEW total \in Nat, NEW total2, NEW size \in Seq(Nat), NEW size2,
         NEW t \in 0 .. Len(size), NEW c \in Nat, NEW n \in Nat,
         LaidOut(stream, total, size, t, c),
         Longer(stream, total, size, stream2, total2, size2, n)
  PROVE  LaidOut(stream2, total2, size2, t, c)
<1>0. /\ size2 \in Seq(Nat) /\ Len(size2) = Len(size) + 1 /\ size2[Len(size) + 1] = n
      /\ \A k \in 1 .. Len(size) : size2[k] = size[k]
      /\ total2 = total + n + 1
      /\ \A i \in 0 .. total - 1 : stream2[i] = stream[i]
      /\ \A j \in 0 .. n : stream2[total + j]
                              = [record |-> Len(size) + 1, part |-> j, valueNumber |-> n]
  BY DEF Longer
<1>1. PICK s \in [1 .. Len(size) + 1 -> Int] : LaidAt(s, stream, total, size, t, c)
  BY DEF LaidOut
<1> DEFINE K == Len(size)
           u == [k \in 1 .. K + 2 |-> IF k = K + 2 THEN total + n + 1 ELSE s[k]]
<1>2. K \in Nat /\ t \in Nat /\ t <= K
  OBVIOUS
<1>4. /\ u \in [1 .. K + 2 -> Int] /\ u[K + 2] = total + n + 1
      /\ \A k \in 1 .. K + 1 : u[k] = s[k]
  BY <1>2
<1>5. s[K + 1] = total /\ s[t + 1] = 0 - c
  BY <1>1 DEF LaidAt
<1> HIDE DEF u
<1>6. ASSUME NEW k \in t + 1 .. K + 1
      PROVE  /\ u[k + 1] = u[k] + size2[k] + 1 /\ u[k + 1] <= total + n + 1
             /\ \A j \in 0 .. size2[k] : u[k] + j >= 0 =>
                  stream2[u[k] + j] = [record |-> k, part |-> j, valueNumber |-> size2[k]]
  <2>1. CASE k = K + 1
    <3>1. K + 1 \in 1 .. K + 1 /\ (K + 1) + 1 = K + 2
      BY <1>2
    <3>2. u[k] = total /\ u[k + 1] = total + n + 1 /\ size2[k] = n
      BY <1>0, <1>4, <1>5, <2>1, <3>1
    <3>3. \A j \in 0 .. n : stream2[total + j]
                             = [record |-> k, part |-> j, valueNumber |-> n]
      BY <1>0, <2>1
    <3>4. u[k + 1] = u[k] + size2[k] + 1 /\ u[k + 1] <= total + n + 1
      BY ONLY <3>2, total \in Nat, n \in Nat
    <3>5. \A j \in 0 .. size2[k] :
            stream2[u[k] + j] = [record |-> k, part |-> j, valueNumber |-> size2[k]]
      BY ONLY <3>2, <3>3
    <3> QED BY ONLY <3>4, <3>5
  <2>2. CASE k # K + 1
    <3>0. k \in t + 1 .. K /\ k \in 1 .. K /\ k + 1 \in 1 .. K + 1 /\ k \in 1 .. K + 1
      BY <1>2, <2>2
    <3>1. u[k] = s[k] /\ u[k + 1] = s[k + 1] /\ size2[k] = size[k]
      BY <1>0, <1>4, <3>0
    <3>2. size[k] \in Nat /\ s[k] \in Int /\ s[k + 1] \in Int
      BY <3>0, ElementOfSeq
    <3>3. /\ s[k + 1] = s[k] + size[k] + 1 /\ s[k + 1] <= total
          /\ \A j \in 0 .. size[k] : s[k] + j >= 0 =>
               stream[s[k] + j] = [record |-> k, part |-> j, valueNumber |-> size[k]]
      BY <1>1, <3>0 DEF LaidAt
    <3>4. ASSUME NEW j \in 0 .. size[k], s[k] + j >= 0
          PROVE  stream2[s[k] + j] = stream[s[k] + j]
      <4>1. s[k] + size[k] + 1 <= total
        BY ONLY <3>3
      <4>2. s[k] + j \in 0 .. total - 1
        BY ONLY <3>2, <3>4, <4>1, total \in Nat, InStream
      <4> QED BY <1>0, <4>2
    <3>5. s[k + 1] <= total + n + 1
      BY ONLY <3>2, <3>3, total \in Nat, n \in Nat
    <3> QED BY ONLY <3>1, <3>3, <3>4, <3>5
  <2> QED BY <2>1, <2>2
<1>7. LaidAt(u, stream2, total + n + 1, size2, t, c)
  <2>1. u[t + 1] = 0 - c
    BY <1>2, <1>4, <1>5
  <2>2. Len(size2) = K + 1 /\ (K + 1) + 1 = K + 2
    BY <1>0, <1>2
  <2> QED BY ONLY <1>4, <1>6, <2>1, <2>2 DEF LaidAt
<1>8. u \in [1 .. Len(size2) + 1 -> Int]
  <2>1. Len(size2) + 1 = K + 2
    BY <1>0, <1>2
  <2> QED BY ONLY <1>4, <2>1
<1> QED BY ONLY <1>7, <1>8, <1>0 DEF LaidOut

\* m cells were taken off its front: some of the record being read, or its last.
LEMMA LaidRead ==
  ASSUME NEW stream, NEW stream2, NEW total \in Nat, NEW size \in Seq(Nat),
         NEW t \in 0 .. Len(size), NEW c \in Nat, NEW m \in Nat, m <= total,
         NEW t2 \in 0 .. Len(size), NEW c2 \in Nat, t < Len(size),
         LaidOut(stream, total, size, t, c),
         \/ t2 = t /\ c2 = c + m
         \/ t2 = t + 1 /\ c2 = 0 /\ m = size[t + 1] + 1 - c,
         \A i \in 0 .. total - m - 1 : stream2[i] = stream[i + m]
  PROVE  LaidOut(stream2, total - m, size, t2, c2)
<1>1. PICK s \in [1 .. Len(size) + 1 -> Int] : LaidAt(s, stream, total, size, t, c)
  BY DEF LaidOut
<1> DEFINE K == Len(size)
           u == [k \in 1 .. K + 1 |-> s[k] - m]
<1>2. K \in Nat /\ t \in Nat /\ t2 \in Nat /\ t <= t2 /\ t2 <= K /\ t < K
  OBVIOUS
<1>3. /\ u \in [1 .. K + 1 -> Int]
      /\ \A k \in 1 .. K + 1 : u[k] = s[k] - m /\ s[k] \in Int
  <2>1. \A k \in 1 .. K + 1 : s[k] \in Int
    OBVIOUS
  <2>2. \A k \in 1 .. K + 1 : s[k] - m \in Int
    BY ONLY <2>1, m \in Nat
  <2> QED BY ONLY <2>1, <2>2
<1>4. /\ s[K + 1] = total /\ s[t + 1] = 0 - c
      /\ s[t + 2] = s[t + 1] + size[t + 1] + 1
      /\ size[t + 1] \in Nat
  <2>1. t + 1 \in t + 1 .. K /\ (t + 1) + 1 = t + 2 /\ t + 1 \in 1 .. K
    BY ONLY <1>2
  <2>2. s[t + 2] = s[t + 1] + size[t + 1] + 1
    BY <1>1, <2>1 DEF LaidAt
  <2>3. s[K + 1] = total /\ s[t + 1] = 0 - c
    BY <1>1 DEF LaidAt
  <2>4. size[t + 1] \in Nat
    BY ONLY <2>1, size \in Seq(Nat) DEF K
  <2> QED BY ONLY <2>2, <2>3, <2>4
<1> HIDE DEF u
<1>5. ASSUME NEW k \in t2 + 1 .. K
      PROVE  /\ u[k + 1] = u[k] + size[k] + 1 /\ u[k + 1] <= total - m
             /\ \A j \in 0 .. size[k] : u[k] + j >= 0 =>
                  stream2[u[k] + j] = [record |-> k, part |-> j, valueNumber |-> size[k]]
  <2>0. k \in t + 1 .. K /\ k \in 1 .. K + 1 /\ k + 1 \in 1 .. K + 1 /\ k \in 1 .. K
    BY ONLY <1>2, <1>5
  <2>1. /\ s[k + 1] = s[k] + size[k] + 1 /\ s[k + 1] <= total
        /\ \A j \in 0 .. size[k] : s[k] + j >= 0 =>
             stream[s[k] + j] = [record |-> k, part |-> j, valueNumber |-> size[k]]
    BY <1>1, <2>0 DEF LaidAt
  <2>2. u[k] = s[k] - m /\ u[k + 1] = s[k + 1] - m /\ s[k] \in Int /\ s[k + 1] \in Int
    BY <1>3, <2>0
  <2>3. size[k] \in Nat
    BY <2>0, ElementOfSeq
  <2>4. ASSUME NEW j \in 0 .. size[k], u[k] + j >= 0
        PROVE  stream2[u[k] + j] = [record |-> k, part |-> j, valueNumber |-> size[k]]
    <3>1. /\ u[k] + j \in 0 .. total - m - 1 /\ (u[k] + j) + m = s[k] + j
          /\ s[k] + j >= 0
      <4>1. s[k] + size[k] + 1 <= total
        BY <2>1
      <4>2. j \in Int /\ 0 <= j /\ j <= size[k] /\ s[k] - m + j >= 0
        BY ONLY <2>2, <2>3, <2>4
      <4>3. s[k] + j >= 0
        BY ONLY <2>2, <4>2, m \in Nat
      <4>4. (s[k] - m + j) + m = s[k] + j
        BY ONLY <2>2, <4>2, m \in Nat
      <4>5. s[k] - m + j \in Nat /\ s[k] - m + j <= total - m - 1
        <5>1. ASSUME NEW a \in Int, NEW z \in Nat, j <= z, a + z + 1 <= total, a - m + j >= 0
              PROVE  a - m + j \in Nat /\ a - m + j <= total - m - 1
          BY ONLY <4>2, <5>1, total \in Nat, m \in Nat
        <5> QED BY ONLY <2>2, <2>3, <4>1, <4>2, <5>1
      <4> QED BY ONLY <2>2, <4>3, <4>4, <4>5, total \in Nat, m \in Nat
    <3>2. stream2[u[k] + j] = stream[s[k] + j]
      BY <3>1
    <3> QED BY <2>1, <2>4, <3>1, <3>2
  <2>5. s[k + 1] = s[k] + size[k] + 1 /\ s[k + 1] <= total
    BY <2>1
  <2>6. u[k + 1] = u[k] + size[k] + 1 /\ u[k + 1] <= total - m
    <3>1. ASSUME NEW a \in Int, NEW z \in Nat, a + z + 1 <= total
          PROVE  (a + z + 1) - m = (a - m) + z + 1 /\ (a + z + 1) - m <= total - m
      BY ONLY <3>1, total \in Nat, m \in Nat
    <3>2. s[k] + size[k] + 1 <= total
      BY ONLY <2>5
    <3>3. (s[k] + size[k] + 1) - m = (s[k] - m) + size[k] + 1
          /\ (s[k] + size[k] + 1) - m <= total - m
      BY ONLY <2>2, <2>3, <3>1, <3>2
    <3> QED BY ONLY <2>2, <2>5, <3>3
  <2> QED BY ONLY <2>4, <2>6
<1>6. u[K + 1] = total - m /\ u[t2 + 1] = 0 - c2
  <2>1. K + 1 \in 1 .. K + 1 /\ t + 1 \in 1 .. K + 1 /\ t + 2 \in 1 .. K + 1
    BY <1>2
  <2>2. CASE t2 = t /\ c2 = c + m
    <3>1. u[t + 1] = s[t + 1] - m /\ u[K + 1] = s[K + 1] - m
      BY ONLY <1>3, <2>1
    <3>2. 0 - c - m = 0 - (c + m)
      BY ONLY m \in Nat, c \in Nat
    <3> QED BY ONLY <1>4, <2>2, <3>1, <3>2
  <2>3. CASE t2 = t + 1 /\ c2 = 0 /\ m = size[t + 1] + 1 - c
    <3>1. t2 + 1 = t + 2
      BY <1>2, <2>3
    <3>2. u[t + 2] = s[t + 2] - m /\ u[K + 1] = s[K + 1] - m
      BY ONLY <1>3, <2>1
    <3>3. ((0 - c) + size[t + 1] + 1) - m = 0
      BY ONLY <1>4, <2>3, m \in Nat, c \in Nat
    <3>4. 0 - c2 = 0
      BY ONLY <2>3
    <3> QED BY ONLY <1>4, <3>1, <3>2, <3>3, <3>4
  <2> QED BY <2>2, <2>3
<1>7. LaidAt(u, stream2, total - m, size, t2, c2)
  BY ONLY <1>5, <1>6 DEF LaidAt
<1> QED BY ONLY <1>3, <1>7 DEF LaidOut


-----------------------------------------------------------------------------
(* The buffer *)

\* w2 and u2 leave the cells in use in their place, with those from at on behind them.
Behind(w, u, w2, u2, at, len) ==
  /\ \A i \in 0 .. u - 1 : /\ Pos(w2, u2, i) = Pos(w, u, i)
                            /\ Pos(w, u, i) \in 0 .. Size - 1
                            /\ Pos(w, u, i) \notin at .. at + len - 1
  /\ \A j \in 0 .. len - 1 : Pos(w2, u2, u + j) = at + j

\* len cells are written at at, below the end: what is in use stays in its
\* place, and the new cells follow it.
LEMMA PosWrite ==
  ASSUME NEW w \in 0 .. Size, NEW u \in 0 .. Size, NEW len \in Nat, len > 0,
         u + len <= Size, NEW at \in Nat, at = IF w = Size THEN 0 ELSE w, at + len <= Size,
         NEW w2, w2 = at + len, NEW u2, u2 = u + len
  PROVE  Behind(w, u, w2, u2, at, len)
BY SizeFacts DEF Behind, Pos, Start

\* The first part of a record is written up to the end.
LEMMA PosPart ==
  ASSUME NEW w \in 0 .. Size, NEW u \in 0 .. Size, NEW len \in Nat, len > 0,
         u + len < Size, w + len = Size, NEW u2, u2 = u + len
  PROVE  Behind(w, u, 0, u2, w, len)
BY SizeFacts DEF Behind, Pos, Start

\* Cells are read.
LEMMA PosRead ==
  ASSUME NEW w \in 0 .. Size, NEW u \in 0 .. Size, NEW m \in 0 .. u
  PROVE  \A i \in 0 .. u - m - 1 : Pos(w, u - m, i) = Pos(w, u, i + m)
BY SizeFacts DEF Pos, Start

\* A cell in use.
LEMMA StreamHead ==
  ASSUME Types, NEW i \in 0 .. usedSize - 1
  PROVE  Stream[i] = buffer[Pos(wCursor, usedSize, i)]
<1>1. i \in 0 .. Total - 1
  BY SizeFacts DEF Types, Total
<1>2. i < usedSize
  BY DEF Types
<1> QED BY ONLY <1>1, <1>2 DEF Stream

\* WriteToCache puts the cells of a new record behind those of the others,
\* whether or not it has to copy them in two parts.
LEMMA CacheWrite ==
  ASSUME Types, NEW n \in 0 .. MaxValues, WriteToCache(n)
  PROVE  /\ sizes' = Append(sizes, n) /\ Total' = Total + n + 1 /\ Total = usedSize
         /\ usedSize' \in 0 .. Size /\ usedSize' >= usedSize
         /\ wCursor' \in 0 .. Size /\ Total' <= Size
         /\ rest' \in Seq(Cell) /\ (rest' # <<>> => wCursor' = 0)
         /\ buffer' \in [0 .. Size - 1 -> Cell \cup {NULL}]
         /\ usedSize > 0 => Start(wCursor, usedSize)' = Start(wCursor, usedSize)
         /\ \A i \in 0 .. Total - 1 : Stream'[i] = Stream[i]
         /\ \A j \in 0 .. n : Stream'[Total + j]
              = [record |-> Len(sizes) + 1, part |-> j, valueNumber |-> n]
<1> DEFINE cells == Record(Len(sizes) + 1, n)
           first == IF wCursor + n + 1 > Size THEN Size - wCursor ELSE n + 1
           at == IF first = 0 THEN 0 ELSE wCursor
<1>1. /\ wCursor \in 0 .. Size /\ usedSize \in 0 .. Size /\ n \in Nat
      /\ usedSize + n + 1 <= Size /\ rest = <<>> /\ Total = usedSize /\ Len(sizes) \in Nat
  <2>1. rest = <<>> /\ n + 1 + usedSize <= Size
    BY DEF WriteToCache, CacheFree, HasRoom
  <2>2. wCursor \in 0 .. Size /\ usedSize \in 0 .. Size /\ Len(sizes) \in Nat
    BY DEF Types
  <2>3. Total = usedSize
    BY <2>1, <2>2, SizeFacts DEF Total
  <2> QED BY <2>1, <2>2, <2>3, SizeFacts
<1>2. /\ cells \in Seq(Cell) /\ Len(cells) = n + 1
      /\ \A j \in 0 .. n : cells[j + 1]
           = [record |-> Len(sizes) + 1, part |-> j, valueNumber |-> n]
  <2>1. \A i \in 1 .. n + 1 : cells[i]
          = [record |-> Len(sizes) + 1, part |-> i - 1, valueNumber |-> n]
    BY DEF Record
  <2>2. \A i \in 1 .. n + 1 : cells[i] \in Cell
    <3> TAKE i \in 1 .. n + 1
    <3>1. Len(sizes) + 1 \in Nat /\ i - 1 \in Nat /\ n \in Nat
      BY <1>1
    <3>2. cells[i] = [record |-> Len(sizes) + 1, part |-> i - 1, valueNumber |-> n]
      BY ONLY <2>1
    <3>3. [record |-> Len(sizes) + 1, part |-> i - 1, valueNumber |-> n] \in Cell
      BY ONLY <3>1 DEF Cell
    <3> QED BY ONLY <3>2, <3>3
  <2>3. cells = [i \in 1 .. n + 1 |-> cells[i]]
    BY DEF Record
  <2>4. cells \in [1 .. n + 1 -> Cell]
    BY <2>2, <2>3
  <2>5. cells \in Seq(Cell) /\ Len(cells) = n + 1
    BY <1>1, <2>4
  <2>6. \A j \in 0 .. n : j + 1 \in 1 .. n + 1 /\ (j + 1) - 1 = j
    BY <1>1
  <2> QED BY <2>1, <2>5, <2>6
<1>3. first \in 0 .. n + 1 /\ wCursor + first <= Size /\ (first = 0 => wCursor = Size)
  BY <1>1, SizeFacts
<1>4. sizes' = Append(sizes, n)
  BY DEF WriteToCache
<1>a. buffer = [i \in 0 .. Size - 1 |-> buffer[i]] /\ DOMAIN buffer = 0 .. Size - 1
  BY DEF Types
<1> HIDE DEF cells
<1>5. CASE first = 0 \/ first = n + 1
  <2>1. /\ buffer' = Put(cells, at) /\ wCursor' = at + n + 1
        /\ usedSize' = usedSize + n + 1 /\ rest' = <<>>
    BY <1>5 DEF WriteToCache, cells
  <2>2. at = (IF wCursor = Size THEN 0 ELSE wCursor) /\ at + (n + 1) <= Size /\ at \in Nat
    BY <1>1, <1>3, <1>5, SizeFacts
  <2> HIDE DEF at, first
  <2>5. wCursor' = at + (n + 1) /\ usedSize' = usedSize + (n + 1) /\ Total' = usedSize + (n + 1)
    BY <1>1, <2>1, <2>2 DEF Total
  <2>3. /\ \A i \in 0 .. usedSize - 1 :
             /\ Pos(wCursor', usedSize', i) = Pos(wCursor, usedSize, i)
             /\ Pos(wCursor, usedSize, i) \in 0 .. Size - 1
             /\ Pos(wCursor, usedSize, i) \notin at .. at + (n + 1) - 1
        /\ \A j \in 0 .. (n + 1) - 1 : Pos(wCursor', usedSize', usedSize + j) = at + j
    <3>1. n + 1 \in Nat /\ n + 1 > 0 /\ usedSize + (n + 1) <= Size
      BY <1>1
    <3>2. Behind(wCursor, usedSize, wCursor', usedSize', at, n + 1)
      BY ONLY <1>1, <2>2, <2>5, <3>1, PosWrite
    <3> QED BY ONLY <3>2 DEF Behind
  <2>4. \A i \in 0 .. Size - 1 : buffer'[i] =
          IF i \in at .. at + (n + 1) - 1 THEN cells[i - at + 1] ELSE buffer[i]
    BY <1>1, <1>2, <1>a, <2>1, <2>2 DEF Put
  <2>6. ASSUME NEW i \in 0 .. usedSize + n
        PROVE  Stream'[i] = buffer'[Pos(wCursor', usedSize', i)]
    <3>1. i \in 0 .. Total' - 1 /\ i < usedSize'
      BY <1>1, <2>5
    <3> QED BY ONLY <3>1 DEF Stream, Pos, Start
  <2>7. ASSUME NEW i \in 0 .. Total - 1 PROVE Stream'[i] = Stream[i]
    <3>1. i \in 0 .. usedSize + n /\ i \in 0 .. usedSize - 1
      BY <1>1
    <3>2. Stream[i] = buffer[Pos(wCursor, usedSize, i)]
      BY <3>1, StreamHead
    <3> QED BY <2>3, <2>4, <2>6, <3>1, <3>2
  <2>8. ASSUME NEW j \in 0 .. n PROVE Stream'[Total + j] = cells[j + 1]
    <3>1. Total + j \in 0 .. usedSize + n /\ Total + j = usedSize + j
      BY <1>1
    <3>2. /\ at + j \in 0 .. Size - 1 /\ at + j \in at .. at + (n + 1) - 1
          /\ (at + j) - at + 1 = j + 1 /\ j \in 0 .. (n + 1) - 1
      BY <1>1, <2>2, SizeFacts
    <3> QED BY <2>3, <2>4, <2>6, <3>1, <3>2
  <2>9. buffer' \in [0 .. Size - 1 -> Cell \cup {NULL}]
    <3>1. \A i \in 0 .. Size - 1 : i \in at .. at + (n + 1) - 1 => cells[i - at + 1] \in Cell
      <4> TAKE i \in 0 .. Size - 1
      <4> HAVE i \in at .. at + (n + 1) - 1
      <4>1. i - at + 1 \in 1 .. n + 1
        BY <1>1, <2>2
      <4> QED BY <1>2, <4>1, ElementOfSeq
    <3>2. \A i \in 0 .. Size - 1 : buffer'[i] \in Cell \cup {NULL}
      BY <2>4, <3>1 DEF Types
    <3>3. buffer' = [i \in 0 .. Size - 1 |-> buffer'[i]]
      BY <1>a, <2>1 DEF Put
    <3> QED BY <3>2, <3>3
  <2>10. usedSize > 0 => Start(wCursor, usedSize)' = Start(wCursor, usedSize)
    BY <1>1, <2>2, <2>5, SizeFacts DEF Start
  <2>11. rest' \in Seq(Cell)
    BY <2>1
  <2>12. /\ Total' = Total + n + 1 /\ usedSize' \in 0 .. Size /\ usedSize' >= usedSize
         /\ wCursor' \in 0 .. Size /\ Total' <= Size /\ (rest' # <<>> => wCursor' = 0)
    BY ONLY <1>1, <2>1, <2>2, <2>5, SizeFacts
  <2>13. \A j \in 0 .. n : Stream'[Total + j]
              = [record |-> Len(sizes) + 1, part |-> j, valueNumber |-> n]
    BY ONLY <1>2, <2>8
  <2> QED BY ONLY <1>1, <1>4, <2>7, <2>9, <2>10, <2>11, <2>12, <2>13
<1>6. CASE ~ (first = 0 \/ first = n + 1)
  <2>1. /\ buffer' = Put(SubSeq(cells, 1, first), wCursor) /\ wCursor' = 0
        /\ usedSize' = usedSize + first /\ rest' = SubSeq(cells, first + 1, n + 1)
    BY <1>6 DEF WriteToCache, cells
  <2>2. /\ first \in 1 .. n /\ wCursor + first = Size /\ usedSize + first < Size
        /\ first \in Nat /\ first > 0
    BY <1>1, <1>3, <1>6, SizeFacts
  <2> HIDE DEF at, first
  <2>3. /\ \A i \in 0 .. usedSize - 1 :
             /\ Pos(0, usedSize', i) = Pos(wCursor, usedSize, i)
             /\ Pos(wCursor, usedSize, i) \in 0 .. Size - 1
             /\ Pos(wCursor, usedSize, i) \notin wCursor .. wCursor + first - 1
        /\ \A j \in 0 .. first - 1 : Pos(0, usedSize', usedSize + j) = wCursor + j
    <3>1. Behind(wCursor, usedSize, 0, usedSize', wCursor, first)
      BY ONLY <1>1, <2>1, <2>2, PosPart
    <3> QED BY ONLY <3>1 DEF Behind
  <2>4. /\ Len(SubSeq(cells, 1, first)) = first
        /\ \A k \in 1 .. first : SubSeq(cells, 1, first)[k] = cells[k]
        /\ rest' \in Seq(Cell) /\ Len(rest') = n + 1 - first
        /\ \A k \in 1 .. n + 1 - first : rest'[k] = cells[first + k]
    BY <1>1, <1>2, <2>1, <2>2
  <2>5. \A i \in 0 .. Size - 1 : buffer'[i] =
          IF i \in wCursor .. wCursor + first - 1 THEN cells[i - wCursor + 1] ELSE buffer[i]
    <3> TAKE i \in 0 .. Size - 1
    <3>1. i \in wCursor .. wCursor + first - 1 => i - wCursor + 1 \in 1 .. first
      BY <1>1, <2>2
    <3> QED BY <1>a, <2>1, <2>4, <3>1 DEF Put
  <2>6. Total' = usedSize + (n + 1) /\ usedSize' = usedSize + first
    <3>1. usedSize \in Int /\ n \in Int /\ first \in Int
      BY <1>1, <2>2
    <3>2. usedSize' = usedSize + first /\ Len(rest') = n + 1 - first
      BY <2>1, <2>4
    <3> QED BY ONLY <3>1, <3>2 DEF Total
  <2>7. ASSUME NEW i \in 0 .. usedSize + first - 1
        PROVE  Stream'[i] = buffer'[Pos(0, usedSize', i)]
    <3>1. i \in 0 .. Total' - 1 /\ i < usedSize'
      BY <1>1, <2>2, <2>6
    <3> QED BY ONLY <2>1, <3>1 DEF Stream, Pos, Start
  <2>8. ASSUME NEW i \in 0 .. Total - 1 PROVE Stream'[i] = Stream[i]
    <3>1. i \in 0 .. usedSize + first - 1 /\ i \in 0 .. usedSize - 1
      BY <1>1, <2>2
    <3> QED BY <2>3, <2>5, <2>7, <3>1, StreamHead
  <2>9. ASSUME NEW j \in 0 .. n PROVE Stream'[Total + j] = cells[j + 1]
    <3>1. CASE j < first
      <4>1. Total + j \in 0 .. usedSize + first - 1 /\ Total + j = usedSize + j
            /\ j \in 0 .. first - 1
        BY <1>1, <2>2, <3>1
      <4>2. /\ wCursor + j \in 0 .. Size - 1 /\ wCursor + j \in wCursor .. wCursor + first - 1
            /\ (wCursor + j) - wCursor + 1 = j + 1
        BY <1>1, <2>2, <3>1, SizeFacts
      <4> QED BY <2>3, <2>5, <2>7, <4>1, <4>2
    <3>2. CASE ~ (j < first)
      <4>1. Total + j \in 0 .. Total' - 1 /\ ~ (Total + j < usedSize')
            /\ (Total + j) - usedSize' + 1 = j - first + 1
        BY <1>1, <2>2, <2>6, <3>2
      <4>2. j - first + 1 \in 1 .. n + 1 - first /\ first + (j - first + 1) = j + 1
        BY <1>1, <2>2, <3>2
      <4>3. Stream'[Total + j] = rest'[j - first + 1]
        BY <4>1 DEF Stream
      <4> QED BY <2>4, <4>2, <4>3
    <3> QED BY <3>1, <3>2
  <2>10. buffer' \in [0 .. Size - 1 -> Cell \cup {NULL}]
    <3>1. \A i \in 0 .. Size - 1 : i \in wCursor .. wCursor + first - 1
                                     => cells[i - wCursor + 1] \in Cell
      <4> TAKE i \in 0 .. Size - 1
      <4> HAVE i \in wCursor .. wCursor + first - 1
      <4>1. i - wCursor + 1 \in 1 .. n + 1
        BY <1>1, <2>2
      <4> QED BY <1>2, <4>1, ElementOfSeq
    <3>2. \A i \in 0 .. Size - 1 : buffer'[i] \in Cell \cup {NULL}
      BY <2>5, <3>1 DEF Types
    <3>3. buffer' = [i \in 0 .. Size - 1 |-> buffer'[i]]
      BY <1>a, <2>1 DEF Put
    <3> QED BY <3>2, <3>3
  <2>11. usedSize > 0 => Start(wCursor, usedSize)' = Start(wCursor, usedSize)
    BY <1>1, <2>1, <2>2, SizeFacts DEF Start
  <2>12. /\ Total' = Total + n + 1 /\ usedSize' \in 0 .. Size /\ usedSize' >= usedSize
         /\ wCursor' \in 0 .. Size /\ Total' <= Size /\ (rest' # <<>> => wCursor' = 0)
    BY ONLY <1>1, <2>1, <2>2, <2>6, SizeFacts
  <2>13. \A j \in 0 .. n : Stream'[Total + j]
              = [record |-> Len(sizes) + 1, part |-> j, valueNumber |-> n]
    BY ONLY <1>2, <2>9
  <2> QED BY ONLY <1>1, <1>4, <2>4, <2>8, <2>10, <2>11, <2>12, <2>13
<1> QED BY <1>5, <1>6


\* WriteRest copies the cells the stream already counts.
LEMMA CacheWriteRest ==
  ASSUME Types, WriteRest
  PROVE  /\ Total' = Total /\ rest' = <<>>
         /\ usedSize' \in 0 .. Size /\ usedSize' >= usedSize /\ wCursor' \in 0 .. Size
         /\ buffer' \in [0 .. Size - 1 -> Cell \cup {NULL}]
         /\ usedSize > 0 => Start(wCursor, usedSize)' = Start(wCursor, usedSize)
         /\ \A i \in 0 .. Total - 1 : Stream'[i] = Stream[i]
<1> DEFINE len == Len(rest)
<1>1. /\ wCursor = 0 /\ usedSize \in 0 .. Size /\ len \in Nat /\ len > 0
      /\ usedSize + len <= Size /\ Total = usedSize + len
  BY DEF WriteRest, Types, Total
<1>2. /\ buffer' = Put(rest, wCursor) /\ wCursor' = 0 + len
      /\ usedSize' = usedSize + len /\ rest' = <<>>
  BY <1>1 DEF WriteRest
<1>3. \A k \in 1 .. len : rest[k] \in Cell
  BY ElementOfSeq DEF Types
<1>a. buffer = [i \in 0 .. Size - 1 |-> buffer[i]] /\ DOMAIN buffer = 0 .. Size - 1
  BY DEF Types
<1>4. \A i \in 0 .. Size - 1 : buffer'[i] =
        IF i \in 0 .. 0 + len - 1 THEN rest[i - 0 + 1] ELSE buffer[i]
  BY <1>1, <1>2, <1>a DEF Put
<1>5. Total' = Total
  BY <1>1, <1>2 DEF Total
<1> HIDE DEF len
<1>6. Behind(wCursor, usedSize, wCursor', usedSize', 0, len)
  <2>1. wCursor \in 0 .. Size /\ 0 \in Nat /\ 0 = (IF wCursor = Size THEN 0 ELSE wCursor)
        /\ 0 + len <= Size
    BY ONLY <1>1, SizeFacts
  <2> QED BY ONLY <1>1, <1>2, <2>1, PosWrite
<1>7. ASSUME NEW i \in 0 .. Total - 1
      PROVE  Stream'[i] = buffer'[Pos(wCursor', usedSize', i)]
  <2>1. i \in 0 .. Total' - 1 /\ i < usedSize'
    BY ONLY <1>1, <1>2, <1>5
  <2> QED BY ONLY <2>1 DEF Stream, Pos, Start
<1>8. ASSUME NEW i \in 0 .. Total - 1 PROVE Stream'[i] = Stream[i]
  <2>1. CASE i < usedSize
    <3>1. i \in 0 .. usedSize - 1
      BY ONLY <1>1, <2>1
    <3>2. Stream[i] = buffer[Pos(wCursor, usedSize, i)]
      BY <3>1, StreamHead
    <3>3. /\ Pos(wCursor', usedSize', i) = Pos(wCursor, usedSize, i)
          /\ Pos(wCursor, usedSize, i) \in 0 .. Size - 1
          /\ Pos(wCursor, usedSize, i) \notin 0 .. 0 + len - 1
      BY ONLY <1>6, <3>1 DEF Behind
    <3> QED BY ONLY <1>4, <1>7, <3>2, <3>3
  <2>2. CASE ~ (i < usedSize)
    <3> DEFINE j == i - usedSize
    <3>1. j \in 0 .. len - 1 /\ usedSize + j = i /\ j - 0 + 1 = i - usedSize + 1
          /\ 0 + j \in 0 .. 0 + len - 1 /\ 0 + j \in 0 .. Size - 1 /\ 0 + j = j
      BY ONLY <1>1, <2>2, SizeFacts
    <3>2. Stream[i] = rest[i - usedSize + 1]
      BY ONLY <2>2 DEF Stream
    <3> HIDE DEF j
    <3>3. Pos(wCursor', usedSize', i) = 0 + j
      BY ONLY <1>6, <3>1 DEF Behind
    <3>4. buffer'[j] = rest[j - 0 + 1]
      BY ONLY <1>4, <3>1
    <3> QED BY ONLY <1>7, <3>1, <3>2, <3>3, <3>4
  <2> QED BY <2>1, <2>2
<1>9. buffer' \in [0 .. Size - 1 -> Cell \cup {NULL}]
  <2>1. \A i \in 0 .. Size - 1 : buffer'[i] \in Cell \cup {NULL}
    <3> TAKE i \in 0 .. Size - 1
    <3>1. i \in 0 .. 0 + len - 1 => i - 0 + 1 \in 1 .. len
      BY ONLY <1>1
    <3>2. buffer[i] \in Cell \cup {NULL}
      BY DEF Types
    <3> QED BY ONLY <1>3, <1>4, <3>1, <3>2 DEF len
  <2>2. buffer' = [i \in 0 .. Size - 1 |-> buffer'[i]]
    BY <1>a, <1>2 DEF Put
  <2> QED BY <2>1, <2>2
<1>10. usedSize > 0 => Start(wCursor, usedSize)' = Start(wCursor, usedSize)
  BY ONLY <1>1, <1>2, SizeFacts DEF Start
<1>11. usedSize' \in 0 .. Size /\ usedSize' >= usedSize /\ wCursor' \in 0 .. Size
  BY ONLY <1>1, <1>2, SizeFacts
<1> QED BY ONLY <1>2, <1>5, <1>8, <1>9, <1>10, <1>11

\* The record at the front of the stream.
LEMMA Front ==
  ASSUME Types, Laid, taken < Len(sizes), NEW n, n = sizes[taken + 1], NEW c, c = Counted, c \in Nat
  PROVE  /\ n \in Nat /\ Total >= n + 1 - c
         /\ \A j \in 0 .. n : j >= c => Stream[j - c] = CellOf(taken + 1, j)
<1>1. PICK s \in [1 .. Len(sizes) + 1 -> Int] : LaidAt(s, Stream, Total, sizes, taken, c)
  BY DEF Laid, LaidOut
<1>2. taken \in Nat /\ sizes \in Seq(Nat) /\ Len(sizes) \in Nat /\ taken + 1 \in 1 .. Len(sizes)
      /\ Total \in Int
  <2>1. sizes \in Seq(Nat) /\ taken \in 0 .. Len(sizes) /\ usedSize \in 0 .. Size
        /\ rest \in Seq(Cell)
    BY DEF Types
  <2>2. Total \in Int
    BY ONLY <2>1, SizeFacts DEF Total
  <2> QED BY ONLY <2>1, <2>2, taken < Len(sizes)
<1>3. n \in Nat
  BY ONLY <1>2, ElementOfSeq, n = sizes[taken + 1]
<1>4. /\ s[taken + 1] = 0 - c
      /\ s[(taken + 1) + 1] = s[taken + 1] + n + 1 /\ s[(taken + 1) + 1] <= Total
      /\ \A j \in 0 .. n : s[taken + 1] + j >= 0 =>
           Stream[s[taken + 1] + j] = CellOf(taken + 1, j)
  <2>1. taken + 1 \in taken + 1 .. Len(sizes)
    BY ONLY <1>2
  <2> QED BY ONLY <1>1, <2>1, n = sizes[taken + 1] DEF LaidAt, CellOf
<1>5. Total >= n + 1 - c
  <2>1. (0 - c) + n + 1 <= Total
    BY ONLY <1>4
  <2> QED BY ONLY <1>2, <1>3, <2>1, c \in Nat
<1>6. ASSUME NEW j \in 0 .. n, j >= c
      PROVE  Stream[j - c] = CellOf(taken + 1, j)
  <2>1. (0 - c) + j = j - c /\ (0 - c) + j >= 0
    BY ONLY <1>3, <1>6, c \in Nat
  <2> QED BY ONLY <1>4, <2>1
<1> QED BY <1>3, <1>5, <1>6

\* Where there are cells there is a record.
LEMMA FrontExists ==
  ASSUME Types, Laid, Total > 0, Counted \in Nat
  PROVE  taken < Len(sizes)
<1>1. PICK s \in [1 .. Len(sizes) + 1 -> Int] : LaidAt(s, Stream, Total, sizes, taken, Counted)
  BY DEF Laid, LaidOut
<1>2. taken \in 0 .. Len(sizes) /\ Len(sizes) \in Nat /\ Total \in Int
  BY SizeFacts DEF Types, Total
<1>3. s[taken + 1] = 0 - Counted /\ s[Len(sizes) + 1] = Total
  BY ONLY <1>1 DEF LaidAt
<1>4. taken # Len(sizes)
  <2>1. SUFFICES ASSUME taken = Len(sizes) PROVE FALSE
    OBVIOUS
  <2>2. 0 - Counted = Total
    BY ONLY <1>3, <2>1
  <2> QED BY ONLY <2>2, Counted \in Nat, Total > 0, <1>2
<1> QED BY ONLY <1>2, <1>4


-----------------------------------------------------------------------------
(* The cache through every step *)

LEMMA CountedType == Types => Counted \in Nat
BY DEF Types, Counted

\* A step that leaves the cache as it is.
LEMMA LaidKept ==
  ASSUME Laid, UNCHANGED <<cacheVars, taken>>, Counted' = Counted
  PROVE  Laid'
<1>1. Total' = Total
  BY DEF Total, cacheVars
<1>2. Stream' = Stream
  BY <1>1 DEF Stream, Pos, Start, cacheVars
<1>3. sizes' = sizes /\ taken' = taken
  BY DEF cacheVars
<1> QED BY ONLY <1>1, <1>2, <1>3, Laid, Counted' = Counted DEF Laid, LaidOut, LaidAt

LEMMA TypesKept ==
  ASSUME Types, UNCHANGED <<cacheVars, taken>>, content' \in Seq(Cell),
         flusher' = "none" => pc' = "idle"
  PROVE  Types'
BY DEF Types, cacheVars, Total, Cell

\* Cells are put into the cache beside the flusher.
LEMMA ReaderKept ==
  ASSUME Types, Reader, UNCHANGED <<flusher, pc, readVars>>, usedSize' \in Nat,
         Len(sizes') \in Nat, Len(sizes') >= Len(sizes), usedSize' >= usedSize,
         \A k \in 1 .. Len(sizes) : sizes'[k] = sizes[k],
         usedSize > 0 => Start(wCursor, usedSize)' = Start(wCursor, usedSize)
  PROVE  Reader' /\ Counted' = Counted
<1>1. pc' = pc /\ content' = content /\ taken' = taken /\ rCursor' = rCursor
  BY DEF readVars
<1>2. taken \in Nat /\ taken <= Len(sizes) /\ Len(sizes) \in Nat /\ usedSize \in Nat
  BY SizeFacts DEF Types
<1>3. taken < Len(sizes) => /\ taken < Len(sizes') /\ sizes'[taken + 1] = sizes[taken + 1]
                            /\ sizes[taken + 1] \in Nat
                            /\ CellOf(taken + 1, 0)' = CellOf(taken + 1, 0)
  <2>1. SUFFICES ASSUME taken < Len(sizes)
                 PROVE  /\ taken < Len(sizes') /\ sizes'[taken + 1] = sizes[taken + 1]
                        /\ sizes[taken + 1] \in Nat
                        /\ CellOf(taken + 1, 0)' = CellOf(taken + 1, 0)
    OBVIOUS
  <2>2. taken + 1 \in 1 .. Len(sizes)
    BY ONLY <1>2, <2>1
  <2>3. sizes[taken + 1] \in Nat
    BY <2>2, ElementOfSeq DEF Types
  <2>4. sizes'[taken + 1] = sizes[taken + 1]
    BY <2>2
  <2>5. CellOf(taken + 1, 0)' = CellOf(taken + 1, 0)
    BY ONLY <1>1, <2>4 DEF CellOf
  <2> QED BY <1>2, <2>1, <2>3, <2>4, <2>5
<1>4. taken > 0 => sizes'[taken] = sizes[taken]
  BY <1>2
<1>5. Counted' = Counted
  BY <1>1 DEF Counted
<1>6. pc' \in {"idle", "done"} => content' = <<>>
  BY <1>1 DEF Reader
<1>7. pc' \in {"test", "cursor", "copy"} /\ content' # <<>> =>
        /\ taken' < Len(sizes') /\ sizes'[taken' + 1] > 0 /\ usedSize' >= sizes'[taken' + 1]
        /\ content' = <<CellOf(taken + 1, 0)'>>
  BY ONLY <1>1, <1>2, <1>3, Reader, usedSize' \in Nat, usedSize' >= usedSize DEF Reader
<1>8. pc' \in {"cursor", "copy"} => usedSize' > 0
  BY ONLY <1>1, <1>2, Reader, usedSize' \in Nat, usedSize' >= usedSize DEF Reader
<1>9. pc' = "copy" => /\ taken' < Len(sizes') /\ rCursor' = Start(wCursor, usedSize)'
                      /\ content' = <<>> => usedSize' > sizes'[taken' + 1]
  <2>1. pc = "copy" => /\ taken < Len(sizes) /\ rCursor = Start(wCursor, usedSize)
                       /\ content = <<>> => usedSize > sizes[taken + 1]
                       /\ usedSize > 0
    BY ONLY Reader DEF Reader
  <2>2. pc = "copy" => rCursor' = Start(wCursor, usedSize)'
    BY <1>1, <2>1
  <2> QED BY ONLY <1>1, <1>2, <1>3, <2>1, <2>2, usedSize' \in Nat, usedSize' >= usedSize
<1>10. pc' = "count" =>
         /\ taken' < Len(sizes')
         /\ \/ content' = <<CellOf(taken + 1, 0)'>> /\ usedSize' > sizes'[taken' + 1]
            \/ /\ content' = Record(taken' + 1, sizes'[taken' + 1])
               /\ sizes'[taken' + 1] > 0 /\ usedSize' >= sizes'[taken' + 1]
  BY ONLY <1>1, <1>2, <1>3, Reader, usedSize' \in Nat, usedSize' >= usedSize DEF Reader
<1>11. pc' \in {"write", "append"} => taken' > 0 /\ content' = Record(taken', sizes'[taken'])
  BY ONLY <1>1, <1>4, Reader DEF Reader
<1>12. pc' \in {"idle", "test", "cursor", "copy", "count", "write", "append", "done"}
  BY ONLY <1>1, Reader DEF Reader
<1> QED BY ONLY <1>5, <1>6, <1>7, <1>8, <1>9, <1>10, <1>11, <1>12 DEF Reader

LEMMA CacheInit == Init => CacheInv
<1> SUFFICES ASSUME Init PROVE CacheInv
  OBVIOUS
<1>1. Types
  BY SizeFacts DEF Init, Types, Total, Cell
<1>2. Reader
  BY DEF Init, Reader
<1>3. Total = 0 /\ sizes = <<>> /\ taken = 0 /\ Counted = 0 /\ Len(sizes) = 0
  BY DEF Init, Total, Counted
<1>4. Laid
  <2> DEFINE s == [k \in 1 .. 1 |-> 0]
  <2>1. s \in [1 .. Len(sizes) + 1 -> Int]
    BY <1>3
  <2>2. s[1] = 0 /\ 0 + 1 = 1 /\ 0 - 0 = 0 /\ 0 + 1 .. 0 = {}
    OBVIOUS
  <2> HIDE DEF s
  <2>3. LaidAt(s, Stream, Total, sizes, taken, Counted)
    BY ONLY <1>3, <2>2 DEF LaidAt
  <2> QED BY ONLY <2>1, <2>3 DEF Laid, LaidOut
<1> QED BY <1>1, <1>2, <1>4 DEF CacheInv

LEMMA CacheWriteStep ==
  ASSUME CacheInv, NEW n \in 0 .. MaxValues, WriteToCache(n)
  PROVE  CacheInv'
<1>1. Types /\ Laid /\ Reader
  BY DEF CacheInv
<1>2. /\ sizes' = Append(sizes, n) /\ Total' = Total + n + 1 /\ Total = usedSize
      /\ usedSize' \in 0 .. Size /\ usedSize' >= usedSize
      /\ wCursor' \in 0 .. Size /\ Total' <= Size
      /\ rest' \in Seq(Cell) /\ (rest' # <<>> => wCursor' = 0)
      /\ buffer' \in [0 .. Size - 1 -> Cell \cup {NULL}]
      /\ usedSize > 0 => Start(wCursor, usedSize)' = Start(wCursor, usedSize)
      /\ \A i \in 0 .. Total - 1 : Stream'[i] = Stream[i]
      /\ \A j \in 0 .. n : Stream'[Total + j]
           = [record |-> Len(sizes) + 1, part |-> j, valueNumber |-> n]
  BY <1>1, CacheWrite
<1>3. UNCHANGED <<flusher, pc, readVars>>
  BY DEF WriteToCache
<1>4. n \in Nat /\ sizes \in Seq(Nat) /\ taken \in 0 .. Len(sizes) /\ usedSize \in Nat
  BY <1>1, SizeFacts DEF Types
<1>5. /\ sizes' \in Seq(Nat) /\ Len(sizes') = Len(sizes) + 1 /\ sizes'[Len(sizes) + 1] = n
      /\ \A k \in 1 .. Len(sizes) : sizes'[k] = sizes[k]
      /\ Len(sizes) \in Nat /\ Len(sizes') \in Nat /\ Len(sizes') >= Len(sizes)
  <2>1. sizes' = Append(sizes, n)
    BY <1>2
  <2> QED BY ONLY <1>4, <2>1
<1>6. Types'
  <2>1. taken' \in 0 .. Len(sizes') /\ content' \in Seq(Cell)
        /\ (flusher' = "none" => pc' = "idle")
    BY <1>1, <1>3, <1>4, <1>5 DEF Types, readVars
  <2> QED BY ONLY <1>2, <1>5, <2>1 DEF Types, Cell
<1>7. Reader' /\ Counted' = Counted
  <2>1. usedSize' \in Nat
    BY <1>2, SizeFacts
  <2> QED BY <1>1, <1>2, <1>3, <1>5, <2>1, ReaderKept
<1>8. Laid'
  <2>1. Counted \in Nat /\ Total \in Nat /\ taken' = taken
    BY <1>1, <1>2, <1>3, <1>4, CountedType DEF readVars
  <2>2. LaidOut(Stream, Total, sizes, taken, Counted)
    BY <1>1 DEF Laid
  <2>3. Total' = Total + n + 1 /\ Counted' = Counted /\ taken' = taken
    BY <1>2, <1>7, <2>1
  <2>4. LaidOut(Stream', Total', sizes', taken, Counted)
    <3>1. Longer(Stream, Total, sizes, Stream', Total', sizes', n)
      BY ONLY <1>2, <1>5, <2>3 DEF Longer
    <3> QED BY ONLY <1>4, <2>1, <2>2, <3>1, LaidWrite
  <2> QED BY ONLY <2>3, <2>4 DEF Laid, LaidOut, LaidAt
<1> QED BY <1>6, <1>7, <1>8 DEF CacheInv

LEMMA CacheWriteRestStep == CacheInv /\ WriteRest => CacheInv'
<1> SUFFICES ASSUME CacheInv, WriteRest PROVE CacheInv'
  OBVIOUS
<1>1. Types /\ Laid /\ Reader
  BY DEF CacheInv
<1>2. /\ Total' = Total /\ rest' = <<>>
      /\ usedSize' \in 0 .. Size /\ usedSize' >= usedSize /\ wCursor' \in 0 .. Size
      /\ buffer' \in [0 .. Size - 1 -> Cell \cup {NULL}]
      /\ usedSize > 0 => Start(wCursor, usedSize)' = Start(wCursor, usedSize)
      /\ \A i \in 0 .. Total - 1 : Stream'[i] = Stream[i]
  BY <1>1, CacheWriteRest
<1>3. UNCHANGED <<sizes, flusher, pc, readVars>>
  BY DEF WriteRest
<1>4. Types'
  BY <1>1, <1>2, <1>3 DEF Types, readVars, Cell
<1>5. Reader' /\ Counted' = Counted
  <2>1. usedSize' \in Nat /\ Len(sizes') \in Nat /\ Len(sizes') >= Len(sizes)
        /\ \A k \in 1 .. Len(sizes) : sizes'[k] = sizes[k]
    BY <1>1, <1>2, <1>3, SizeFacts DEF Types
  <2>2. UNCHANGED <<flusher, pc, readVars>>
    BY <1>3
  <2> QED BY <1>1, <1>2, <2>1, <2>2, ReaderKept
<1>6. Laid'
  <2>1. Counted \in Nat /\ Total \in Nat /\ sizes \in Seq(Nat) /\ taken \in 0 .. Len(sizes)
        /\ taken' = taken
    BY <1>1, <1>3, CountedType, SizeFacts DEF Types, Total, readVars
  <2>2. LaidOut(Stream', Total, sizes, taken, Counted)
    BY ONLY <1>1, <1>2, <2>1, LaidSame DEF Laid
  <2> QED BY ONLY <1>2, <1>3, <1>5, <2>1, <2>2 DEF Laid, LaidOut, LaidAt
<1> QED BY <1>4, <1>5, <1>6 DEF CacheInv


\* A flush begins, is over, or goes on to another record.
LEMMA CacheIdleStep ==
  ASSUME CacheInv, UNCHANGED <<cacheVars, taken>>, content' = <<>>, Counted = 0,
         pc' \in {"idle", "done", "test"}, flusher' = "none" => pc' = "idle"
  PROVE  CacheInv'
<1>1. Types'
  BY TypesKept DEF CacheInv
<1>2. Counted' = 0
  BY DEF Counted
<1>3. Laid'
  BY <1>2, LaidKept DEF CacheInv
<1>4. Reader'
  BY DEF Reader
<1> QED BY <1>1, <1>3, <1>4 DEF CacheInv

LEMMA CacheReadTest == CacheInv /\ ReadTest => CacheInv'
<1> SUFFICES ASSUME CacheInv, ReadTest PROVE CacheInv'
  OBVIOUS
<1>1. Types /\ Laid /\ Reader
  BY DEF CacheInv
<1>2. pc = "test" /\ UNCHANGED <<cacheVars, flusher, rCursor, taken>>
  BY DEF ReadTest
<1>3. flusher' # "none" /\ usedSize \in Nat /\ usedSize' = usedSize
  BY <1>1, <1>2, SizeFacts DEF Types, cacheVars
<1>4. CASE usedSize >= Want
  <2>1. pc' = "cursor" /\ content' = content
    BY <1>4 DEF ReadTest
  <2>2. usedSize > 0
    <3>1. CASE content = <<>>
      BY ONLY <1>3, <1>4, <3>1 DEF Want
    <3>2. CASE content # <<>>
      <4>1. taken + 1 \in 1 .. Len(sizes)
        BY <1>1, <1>2, <3>2 DEF Reader, Types
      <4>2. sizes[taken + 1] > 0 /\ usedSize >= sizes[taken + 1]
        BY ONLY <1>1, <1>2, <3>2 DEF Reader
      <4>3. sizes[taken + 1] \in Nat
        BY <1>1, <4>1, ElementOfSeq DEF Types
      <4> QED BY ONLY <1>3, <4>2, <4>3
    <3> QED BY <3>1, <3>2
  <2>3. Types'
    <3>1. content' \in Seq(Cell)
      BY <1>1, <2>1 DEF Types
    <3> QED BY <1>1, <1>2, <1>3, <3>1, TypesKept
  <2>4. Laid'
    <3>1. Counted' = Counted
      BY <1>2, <2>1 DEF Counted
    <3> QED BY <1>1, <1>2, <3>1, LaidKept
  <2>5. Reader'
    <3>1. sizes' = sizes /\ taken' = taken
      BY <1>2 DEF cacheVars
    <3> QED BY ONLY <1>1, <1>2, <1>3, <2>1, <2>2, <3>1 DEF Reader, CellOf
  <2> QED BY <2>3, <2>4, <2>5 DEF CacheInv
<1>5. CASE ~ (usedSize >= Want) /\ content # <<>>
  <2>1. /\ content = <<CellOf(taken + 1, 0)>> /\ usedSize >= sizes[taken + 1]
    BY ONLY <1>1, <1>2, <1>5 DEF Reader
  <2>2. Want = sizes[taken + 1]
    BY <2>1, <1>5 DEF Want, CellOf
  <2> QED BY ONLY <1>5, <2>1, <2>2
<1>6. CASE ~ (usedSize >= Want) /\ content = <<>>
  <2>1. pc' = "done" /\ content' = <<>>
    BY <1>6 DEF ReadTest
  <2>2. Counted = 0
    BY <1>2, <1>6 DEF Counted
  <2> QED BY <1>2, <1>3, <2>1, <2>2, CacheIdleStep
<1> QED BY <1>4, <1>5, <1>6

LEMMA CacheGetReadCursor == CacheInv /\ GetReadCursor => CacheInv'
<1> SUFFICES ASSUME CacheInv, GetReadCursor PROVE CacheInv'
  OBVIOUS
<1>1. Types /\ Laid /\ Reader
  BY DEF CacheInv
<1>2. /\ pc = "cursor" /\ rest = <<>> /\ UNCHANGED <<cacheVars, flusher, content, taken>>
      /\ pc' = "copy" /\ rCursor' = Start(wCursor, usedSize)
  BY DEF GetReadCursor, CacheFree, Start
<1>3. flusher' # "none" /\ usedSize \in Nat /\ usedSize' = usedSize /\ usedSize > 0
  BY <1>1, <1>2, SizeFacts DEF Types, cacheVars, Reader
<1>4. Types'
  <2>1. content' \in Seq(Cell)
    BY <1>1, <1>2 DEF Types
  <2> QED BY <1>1, <1>2, <1>3, <2>1, TypesKept
<1>5. Laid'
  <2>1. Counted' = Counted
    BY <1>2 DEF Counted
  <2> QED BY <1>1, <1>2, <2>1, LaidKept
<1>6. Total = usedSize
  BY <1>2, <1>3 DEF Total
<1>7. taken < Len(sizes)
  BY <1>1, <1>3, <1>6, CountedType, FrontExists
<1>8. content = <<>> => usedSize > sizes[taken + 1]
  <2>1. SUFFICES ASSUME content = <<>> PROVE usedSize > sizes[taken + 1]
    OBVIOUS
  <2>2. Counted = 0
    BY <1>2, <2>1 DEF Counted
  <2>3. sizes[taken + 1] \in Nat /\ Total >= sizes[taken + 1] + 1 - 0
    BY <1>1, <1>7, <2>2, Front
  <2> QED BY ONLY <1>3, <1>6, <2>3
<1>9. Reader'
  <2>1. sizes' = sizes /\ taken' = taken /\ content' = content /\ wCursor' = wCursor
    BY <1>2 DEF cacheVars
  <2>2. rCursor' = Start(wCursor', usedSize')
    BY ONLY <1>2, <1>3, <2>1 DEF Start
  <2> QED BY ONLY <1>1, <1>2, <1>3, <1>7, <1>8, <2>1, <2>2 DEF Reader, CellOf, Start
<1> QED BY <1>4, <1>5, <1>9 DEF CacheInv

LEMMA CacheReadCopy == CacheInv /\ ReadCopy => CacheInv'
<1> SUFFICES ASSUME CacheInv, ReadCopy PROVE CacheInv'
  OBVIOUS
<1>1. Types /\ Laid /\ Reader
  BY DEF CacheInv
<1>2. /\ pc = "copy" /\ pc' = "count" /\ UNCHANGED <<cacheVars, flusher, taken>>
      /\ content' = content \o [i \in 1 .. Want |-> buffer[(rCursor + i - 1) % Size]]
  BY DEF ReadCopy
<1>3. /\ flusher' # "none" /\ wCursor \in 0 .. Size /\ usedSize \in 0 .. Size /\ usedSize > 0
      /\ sizes' = sizes /\ taken' = taken /\ usedSize' = usedSize /\ taken \in Nat
  BY <1>1, <1>2 DEF Types, cacheVars, Reader
<1>4. rCursor = Start(wCursor, usedSize) /\ taken < Len(sizes) /\ rCursor \in 0 .. Size - 1
  <2>1. rCursor = Start(wCursor, usedSize) /\ taken < Len(sizes)
    BY <1>1, <1>2 DEF Reader
  <2> QED BY ONLY <1>3, <2>1, SizeFacts DEF Start
<1> DEFINE n == sizes[taken + 1]
<1>5. n \in Nat
  <2>1. taken + 1 \in 1 .. Len(sizes)
    BY <1>3, <1>4 DEF Types
  <2> QED BY <1>1, <2>1, ElementOfSeq DEF Types
<1>6. ASSUME NEW i \in 1 .. usedSize
      PROVE  buffer[(rCursor + i - 1) % Size] = Stream[i - 1]
  <2>1. rCursor + i - 1 \in Nat /\ rCursor + i - 1 < Size + Size /\ i - 1 \in 0 .. usedSize - 1
        /\ rCursor + (i - 1) = rCursor + i - 1
    BY ONLY <1>3, <1>4, SizeFacts
  <2> DEFINE x == rCursor + i - 1
  <2>2. x \in Nat /\ x < Size + Size
    BY <2>1
  <2>3. x % Size = Pos(wCursor, usedSize, i - 1)
    <3>1. x = rCursor + (i - 1)
      BY <2>1
    <3> HIDE DEF x
    <3>2. x % Size = IF x < Size THEN x ELSE x - Size
      BY ONLY <2>2, Wrap
    <3>3. Pos(wCursor, usedSize, i - 1) = IF x < Size THEN x ELSE x - Size
      BY ONLY <1>4, <2>1, <3>1, SizeFacts DEF Pos
    <3> QED BY ONLY <3>2, <3>3
  <2>4. Stream[i - 1] = buffer[Pos(wCursor, usedSize, i - 1)]
    BY <1>1, <2>1, StreamHead
  <2> QED BY ONLY <2>3, <2>4
<1>7. CASE content = <<>>
  <2>1. Counted = 0 /\ Want = 1
    BY <1>2, <1>7 DEF Counted, Want
  <2>2. usedSize > n
    BY <1>1, <1>2, <1>7 DEF Reader
  <2>3. Stream[0] = CellOf(taken + 1, 0)
    <3>1. \A j \in 0 .. n : j >= 0 => Stream[j - 0] = CellOf(taken + 1, j)
      BY <1>1, <1>4, <2>1, Front
    <3>2. 0 \in 0 .. n /\ 0 >= 0 /\ 0 - 0 = 0
      BY ONLY <1>5
    <3> QED BY ONLY <3>1, <3>2
  <2>4. buffer[(rCursor + 1 - 1) % Size] = CellOf(taken + 1, 0)
    <3>1. 1 \in 1 .. usedSize /\ 1 - 1 = 0
      BY ONLY <1>3, SizeFacts
    <3> QED BY ONLY <1>6, <2>3, <3>1
  <2>5. content' = <<CellOf(taken + 1, 0)>>
    <3>1. content' = <<>> \o [i \in 1 .. 1 |-> buffer[(rCursor + i - 1) % Size]]
      BY ONLY <1>2, <1>7, <2>1
    <3>2. [i \in 1 .. 1 |-> buffer[(rCursor + i - 1) % Size]] = <<CellOf(taken + 1, 0)>>
      BY ONLY <2>4
    <3> QED BY ONLY <3>1, <3>2
  <2>6. CellOf(taken + 1, 0) \in Cell
    <3>1. taken + 1 \in Nat /\ 0 \in Nat
      BY ONLY <1>3
    <3> QED BY ONLY <1>5, <3>1 DEF CellOf, Cell
  <2>7. Types'
    <3>1. content' \in Seq(Cell)
      BY ONLY <2>5, <2>6
    <3> QED BY <1>1, <1>2, <1>3, <3>1, TypesKept
  <2>8. Laid'
    <3>1. Counted' = Counted
      BY <1>2, <2>1, <2>5 DEF Counted
    <3> QED BY <1>1, <1>2, <3>1, LaidKept
  <2>9. Reader'
    BY ONLY <1>2, <1>3, <1>4, <2>2, <2>5 DEF Reader, CellOf
  <2> QED BY <2>7, <2>8, <2>9 DEF CacheInv
<1>8. CASE content # <<>>
  <2>1. /\ n > 0 /\ usedSize >= n /\ content = <<CellOf(taken + 1, 0)>>
    BY <1>1, <1>2, <1>8 DEF Reader
  <2>2. Counted = 1 /\ Want = n
    BY <1>2, <1>8, <2>1 DEF Counted, Want, CellOf
  <2>3. ASSUME NEW i \in 1 .. n
        PROVE  buffer[(rCursor + i - 1) % Size] = CellOf(taken + 1, i)
    <3>1. \A j \in 0 .. n : j >= 1 => Stream[j - 1] = CellOf(taken + 1, j)
      BY <1>1, <1>4, <2>2, Front
    <3>2. i \in 0 .. n /\ i >= 1 /\ i \in 1 .. usedSize
      BY ONLY <1>3, <1>5, <2>1, SizeFacts
    <3> QED BY ONLY <1>6, <3>1, <3>2
  <2>4. content' = Record(taken + 1, n)
    <3> DEFINE values == [i \in 1 .. n |-> CellOf(taken + 1, i)]
    <3>1. content' = <<CellOf(taken + 1, 0)>> \o values
      <4>1. [i \in 1 .. n |-> buffer[(rCursor + i - 1) % Size]] = values
        BY ONLY <2>3
      <4> QED BY ONLY <1>2, <2>1, <2>2, <4>1
    <3>2. \A i \in 1 .. n + 1 : Record(taken + 1, n)[i] = CellOf(taken + 1, i - 1)
      BY ONLY TRUE DEF Record, CellOf
    <3>3. Record(taken + 1, n) = [i \in 1 .. n + 1 |-> CellOf(taken + 1, i - 1)]
      BY ONLY TRUE DEF Record, CellOf
    <3>4. CellOf(taken + 1, 0) \in {CellOf(taken + 1, j) : j \in Nat}
          /\ \A i \in 1 .. n : CellOf(taken + 1, i) \in {CellOf(taken + 1, j) : j \in Nat}
      BY ONLY <1>5
    <3>5. values \in Seq({CellOf(taken + 1, j) : j \in Nat}) /\ Len(values) = n
          /\ \A i \in 1 .. n : values[i] = CellOf(taken + 1, i)
      BY ONLY <1>5, <3>4
    <3> HIDE DEF values
    <3>6. /\ Len(<<CellOf(taken + 1, 0)>> \o values) = n + 1
          /\ \A i \in 1 .. n + 1 : (<<CellOf(taken + 1, 0)>> \o values)[i] =
               IF i = 1 THEN CellOf(taken + 1, 0) ELSE values[i - 1]
          /\ <<CellOf(taken + 1, 0)>> \o values \in Seq({CellOf(taken + 1, j) : j \in Nat})
      BY ONLY <1>5, <3>4, <3>5
    <3>7. \A i \in 1 .. n + 1 : (<<CellOf(taken + 1, 0)>> \o values)[i] = CellOf(taken + 1, i - 1)
      <4> TAKE i \in 1 .. n + 1
      <4>1. i # 1 => i - 1 \in 1 .. n
        BY ONLY <1>5
      <4> QED BY ONLY <3>5, <3>6, <4>1
    <3>8. /\ Record(taken + 1, n) \in Seq({CellOf(taken + 1, j) : j \in Nat})
          /\ Len(Record(taken + 1, n)) = n + 1
      <4>1. \A i \in 1 .. n + 1 : CellOf(taken + 1, i - 1) \in {CellOf(taken + 1, j) : j \in Nat}
        <5> TAKE i \in 1 .. n + 1
        <5>1. i - 1 \in Nat
          BY ONLY <1>5
        <5> QED BY ONLY <5>1
      <4> QED BY ONLY <1>5, <3>3, <4>1
    <3>9. \A i \in 1 .. n + 1 : (<<CellOf(taken + 1, 0)>> \o values)[i] = Record(taken + 1, n)[i]
      BY ONLY <3>2, <3>7
    <3>10. <<CellOf(taken + 1, 0)>> \o values = Record(taken + 1, n)
      BY ONLY <3>6, <3>8, <3>9, SeqEqual
    <3> QED BY ONLY <3>1, <3>10
  <2>5. /\ content' \in Seq(Cell) /\ Len(content') = n + 1
    <3>1. \A i \in 1 .. n + 1 : [record |-> taken + 1, part |-> i - 1, valueNumber |-> n] \in Cell
      <4> TAKE i \in 1 .. n + 1
      <4>1. taken + 1 \in Nat /\ i - 1 \in Nat
        BY ONLY <1>3, <1>5
      <4> QED BY ONLY <1>5, <4>1 DEF Cell
    <3> QED BY ONLY <1>5, <2>4, <3>1 DEF Record
  <2>6. Types'
    BY <1>1, <1>2, <1>3, <2>5, TypesKept
  <2>7. Laid'
    <3>1. Counted' = Counted
      <4>1. Len(content') > 1
        BY ONLY <1>5, <2>1, <2>5
      <4> QED BY ONLY <1>2, <2>2, <4>1 DEF Counted
    <3> QED BY <1>1, <1>2, <3>1, LaidKept
  <2>8. Reader'
    BY ONLY <1>2, <1>3, <1>4, <2>1, <2>4 DEF Reader
  <2> QED BY <2>6, <2>7, <2>8 DEF CacheInv
<1> QED BY <1>7, <1>8


LEMMA CacheReadCount == CacheInv /\ ReadCount => CacheInv'
<1> SUFFICES ASSUME CacheInv, ReadCount PROVE CacheInv'
  OBVIOUS
<1> DEFINE n == sizes[taken + 1]
           m == IF Len(content) = 1 THEN 1 ELSE Len(content) - 1
<1>1. Types /\ Laid /\ Reader
  BY DEF CacheInv
<1>2. /\ pc = "count" /\ rest = <<>>
      /\ buffer' = buffer /\ rest' = rest /\ sizes' = sizes /\ flusher' = flusher
      /\ rCursor' = rCursor /\ content' = content
  BY DEF ReadCount, CacheFree
<1>3. /\ wCursor \in 0 .. Size /\ usedSize \in 0 .. Size /\ taken \in Nat
      /\ flusher # "none" /\ sizes \in Seq(Nat) /\ Total = usedSize
  BY <1>1, <1>2, SizeFacts DEF Types, Total
<1>4. /\ taken < Len(sizes)
      /\ \/ content = <<CellOf(taken + 1, 0)>> /\ usedSize > n
         \/ content = Record(taken + 1, n) /\ n > 0 /\ usedSize >= n
  BY <1>1, <1>2 DEF Reader
<1>5. n \in Nat
  <2>1. taken + 1 \in 1 .. Len(sizes)
    BY <1>3, <1>4
  <2> QED BY <1>3, <2>1, ElementOfSeq
<1>6. /\ content[1].part = 0 /\ content[1].valueNumber = n
      /\ \/ Len(content) = 1 /\ content = <<CellOf(taken + 1, 0)>> /\ usedSize > n
         \/ Len(content) = n + 1 /\ n > 0 /\ content = Record(taken + 1, n) /\ usedSize >= n
  <2>1. CASE content = <<CellOf(taken + 1, 0)>> /\ usedSize > n
    BY ONLY <2>1 DEF CellOf
  <2>2. CASE content = Record(taken + 1, n) /\ n > 0 /\ usedSize >= n
    <3>1. Len(content) = n + 1
      BY ONLY <1>5, <2>2 DEF Record
    <3>2. content[1] = [record |-> taken + 1, part |-> 1 - 1, valueNumber |-> n]
      BY ONLY <1>5, <2>2 DEF Record
    <3> QED BY ONLY <2>2, <3>1, <3>2
  <2> QED BY <1>4, <2>1, <2>2
<1>7. /\ usedSize' = usedSize - m /\ wCursor' = wCursor
      /\ IF Len(content) <= n THEN pc' = "test" /\ taken' = taken
                              ELSE pc' = "write" /\ taken' = taken + 1
  <2>1. ~ (Len(content) = 1 /\ content[1].part # 0)
    BY ONLY <1>6
  <2> QED BY <1>6, <2>1 DEF ReadCount
<1>8. /\ m \in Nat /\ m <= usedSize /\ m \in 0 .. usedSize
      /\ \/ m = 1 /\ Len(content) = 1
         \/ m = n /\ Len(content) = n + 1 /\ n > 0
  BY ONLY <1>3, <1>5, <1>6, SizeFacts
<1> HIDE DEF m
<1>9. usedSize' \in 0 .. Size /\ Total' = Total - m /\ Total' <= Size /\ wCursor' \in 0 .. Size
      /\ taken' \in 0 .. Len(sizes')
  BY ONLY <1>2, <1>3, <1>4, <1>7, <1>8, SizeFacts DEF Total
<1>10. Types'
  BY ONLY <1>1, <1>2, <1>3, <1>9 DEF Types, Cell
<1>11. ASSUME NEW i \in 0 .. Total - m - 1
       PROVE  Stream'[i] = Stream[i + m]
  <2>1. i \in 0 .. Total' - 1 /\ i < usedSize' /\ i \in 0 .. usedSize - m - 1
        /\ i + m \in 0 .. usedSize - 1
    BY ONLY <1>3, <1>7, <1>8, <1>9
  <2>2. Stream'[i] = buffer[Pos(wCursor, usedSize - m, i)]
    BY ONLY <1>2, <1>7, <2>1 DEF Stream, Pos, Start
  <2>3. Pos(wCursor, usedSize - m, i) = Pos(wCursor, usedSize, i + m)
    BY ONLY <1>3, <1>8, <2>1, PosRead
  <2>4. Stream[i + m] = buffer[Pos(wCursor, usedSize, i + m)]
    BY <1>1, <2>1, StreamHead
  <2> QED BY ONLY <2>2, <2>3, <2>4
<1>12. /\ Counted \in Nat /\ Counted' \in Nat
       /\ \/ taken' = taken /\ Counted' = Counted + m
          \/ taken' = taken + 1 /\ Counted' = 0 /\ m = n + 1 - Counted
  <2>1. Counted = IF Len(content) > 1 THEN 1 ELSE 0
    BY <1>2 DEF Counted
  <2>2. Counted' = IF Len(content) <= n THEN Len(content) ELSE 0
    BY <1>2, <1>7 DEF Counted
  <2>3. CASE m = 1 /\ Len(content) = 1 /\ n > 0
    <3>1. Len(content) <= n /\ ~ (Len(content) > 1)
      BY ONLY <1>5, <2>3
    <3>2. Counted = 0 /\ Counted' = 1 /\ taken' = taken
      BY ONLY <1>7, <2>1, <2>2, <2>3, <3>1
    <3> QED BY ONLY <2>3, <3>2
  <2>4. CASE m = 1 /\ Len(content) = 1 /\ ~ (n > 0)
    <3>1. ~ (Len(content) <= n) /\ ~ (Len(content) > 1) /\ n = 0
      BY ONLY <1>5, <2>4
    <3>2. Counted = 0 /\ Counted' = 0 /\ taken' = taken + 1
      BY ONLY <1>7, <2>1, <2>2, <2>4, <3>1
    <3> QED BY ONLY <2>4, <3>1, <3>2
  <2>5. CASE m = n /\ Len(content) = n + 1 /\ n > 0
    <3>1. ~ (Len(content) <= n) /\ Len(content) > 1
      BY ONLY <1>5, <2>5
    <3>2. Counted = 1 /\ Counted' = 0 /\ taken' = taken + 1
      BY ONLY <1>7, <2>1, <2>2, <2>5, <3>1
    <3>3. n + 1 - 1 = n
      BY ONLY <1>5
    <3> QED BY ONLY <2>5, <3>2, <3>3
  <2> QED BY ONLY <1>8, <2>3, <2>4, <2>5
<1>13. Laid'
  <2>1. taken \in 0 .. Len(sizes) /\ taken' \in 0 .. Len(sizes) /\ Total \in Nat /\ m <= Total
    BY ONLY <1>2, <1>3, <1>4, <1>8, <1>9
  <2>2. LaidOut(Stream', Total - m, sizes, taken', Counted')
    BY ONLY <1>1, <1>3, <1>4, <1>8, <1>11, <1>12, <2>1, LaidRead DEF Laid
  <2> QED BY ONLY <1>2, <1>9, <2>2 DEF Laid, LaidOut, LaidAt
<1>14. Reader'
  <2>1. CASE Len(content) <= n
    <3>1. pc' = "test" /\ taken' = taken
      BY ONLY <1>7, <2>1
    <3>2. Len(content) = 1 /\ content = <<CellOf(taken + 1, 0)>> /\ usedSize > n /\ m = 1
      BY ONLY <1>5, <1>6, <1>8, <2>1
    <3>3. n > 0 /\ usedSize' >= n
      BY ONLY <1>3, <1>5, <1>7, <2>1, <3>2, SizeFacts
    <3> QED BY ONLY <1>2, <1>4, <3>1, <3>2, <3>3 DEF Reader, CellOf
  <2>2. CASE ~ (Len(content) <= n)
    <3>1. pc' = "write" /\ taken' = taken + 1 /\ taken' > 0
      BY ONLY <1>3, <1>7, <2>2
    <3>2. content = Record(taken + 1, n)
      <4>1. CASE Len(content) = 1 /\ content = <<CellOf(taken + 1, 0)>>
        <5>1. n = 0
          BY ONLY <1>5, <2>2, <4>1
        <5>2. <<CellOf(taken + 1, 0)>> = Record(taken + 1, n)
          BY ONLY <5>1 DEF CellOf, Record
        <5> QED BY ONLY <4>1, <5>2
      <4> QED BY ONLY <1>6, <4>1
    <3> QED BY ONLY <1>2, <3>1, <3>2 DEF Reader
  <2> QED BY <2>1, <2>2
<1> QED BY <1>10, <1>13, <1>14 DEF CacheInv

\* The line is written, or the file is rotated before.
LEMMA CacheWriteToFile == CacheInv /\ (WriteToFile \/ Rotate) => CacheInv'
<1> SUFFICES ASSUME CacheInv, WriteToFile \/ Rotate PROVE CacheInv'
  OBVIOUS
<1>1. pc \in {"write", "append"} /\ UNCHANGED <<cacheVars, flusher, rCursor, taken>>
  BY DEF WriteToFile, Rotate, readVars
<1>2. Counted = 0 /\ flusher # "none"
  BY <1>1 DEF Counted, CacheInv, Types
<1>3. CASE WriteToFile
  <2>1. content' = <<>> /\ pc' = "test"
    BY <1>3 DEF WriteToFile
  <2> QED BY <1>1, <1>2, <2>1, CacheIdleStep
<1>4. CASE Rotate
  <2>1. content' = content /\ pc' = "append"
    BY <1>4 DEF Rotate, readVars
  <2>2. Types'
    <3>1. content' \in Seq(Cell)
      BY <2>1 DEF CacheInv, Types
    <3> QED BY <1>1, <1>2, <3>1, TypesKept DEF CacheInv
  <2>3. Laid'
    <3>1. Counted' = Counted
      BY <1>2, <2>1 DEF Counted
    <3> QED BY <1>1, <3>1, LaidKept DEF CacheInv
  <2>4. Reader'
    <3>1. taken > 0 /\ content = Record(taken, sizes[taken])
      BY <1>1 DEF CacheInv, Reader
    <3>2. taken' = taken /\ sizes' = sizes
      BY <1>1 DEF cacheVars
    <3> QED BY ONLY <2>1, <3>1, <3>2 DEF Reader
  <2> QED BY <2>2, <2>3, <2>4 DEF CacheInv
<1> QED BY <1>3, <1>4

\* Nobody reads or writes a record.
LEMMA CacheOther ==
  ASSUME CacheInv,
         \/ UNCHANGED <<cacheVars, flusher, pc, readVars>>
         \/ \E who \in {"service", "app"} : Flush(who)
         \/ Unlock
  PROVE  CacheInv'
<1>1. CASE UNCHANGED <<cacheVars, flusher, pc, readVars>>
  <2>1. taken' = taken /\ content' = content /\ pc' = pc /\ flusher' = flusher
        /\ rCursor' = rCursor /\ UNCHANGED cacheVars
    BY <1>1 DEF readVars
  <2>2. sizes' = sizes /\ usedSize' = usedSize /\ wCursor' = wCursor
    BY <2>1 DEF cacheVars
  <2>3. Counted' = Counted
    BY <2>1 DEF Counted
  <2>4. Laid'
    BY <2>1, <2>3, LaidKept DEF CacheInv
  <2>5. Types'
    <3>1. content' \in Seq(Cell) /\ (flusher' = "none" => pc' = "idle")
      BY <2>1 DEF CacheInv, Types
    <3> QED BY <2>1, <3>1, TypesKept DEF CacheInv
  <2>6. Reader'
    BY <2>1, <2>2 DEF CacheInv, Reader, CellOf, Start
  <2> QED BY <2>4, <2>5, <2>6 DEF CacheInv
<1>2. ASSUME NEW who \in {"service", "app"}, Flush(who) PROVE CacheInv'
  <2>1. /\ flusher = "none" /\ flusher' = who /\ pc' = "test" /\ content' = <<>>
        /\ UNCHANGED <<cacheVars, taken>>
    BY <1>2 DEF Flush
  <2>2. Counted = 0
    BY <2>1 DEF CacheInv, Types, Counted
  <2> QED BY <2>1, <2>2, CacheIdleStep
<1>3. CASE Unlock
  <2>1. /\ pc = "done" /\ pc' = "idle" /\ content' = content /\ UNCHANGED <<cacheVars, taken>>
    BY <1>3 DEF Unlock, readVars
  <2>2. Counted = 0 /\ content = <<>>
    BY <2>1 DEF CacheInv, Reader, Counted
  <2> QED BY <2>1, <2>2, CacheIdleStep
<1> QED BY <1>1, <1>2, <1>3

LEMMA CacheStep == CacheInv /\ [Next]_vars => CacheInv'
<1> SUFFICES ASSUME CacheInv, [Next]_vars PROVE CacheInv'
  OBVIOUS
<1>1. ASSUME NEW n \in 0 .. MaxValues, WriteToCache(n) PROVE CacheInv'
  BY <1>1, CacheWriteStep
<1>2. CASE WriteRest
  BY <1>2, CacheWriteRestStep
<1>3. CASE ReadTest
  BY <1>3, CacheReadTest
<1>4. CASE GetReadCursor
  BY <1>4, CacheGetReadCursor
<1>5. CASE ReadCopy
  BY <1>5, CacheReadCopy
<1>6. CASE ReadCount
  BY <1>6, CacheReadCount
<1>7. CASE WriteToFile \/ Rotate
  BY <1>7, CacheWriteToFile
<1>8. CASE UNCHANGED vars
  <2>1. UNCHANGED <<cacheVars, flusher, pc, readVars>>
    BY <1>8 DEF vars
  <2> QED BY <2>1, CacheOther
<1>9. CASE (\E who \in {"service", "app"} : Flush(who)) \/ Unlock
  BY <1>9, CacheOther
<1> QED BY <1>1, <1>2, <1>3, <1>4, <1>5, <1>6, <1>7, <1>8, <1>9 DEF Next, Flushing

\* What the flusher holds are cells of one record, the next one.
LEMMA WholeFromCache == CacheInv => RecordsWhole
<1> SUFFICES ASSUME CacheInv, NEW i \in DOMAIN content
             PROVE  LET k == IF pc \in {"write", "append"} THEN taken ELSE taken + 1
                    IN k \in DOMAIN sizes /\ content[i] = Record(k, sizes[k])[i]
  BY DEF RecordsWhole
<1>1. /\ taken \in 0 .. Len(sizes) /\ Len(sizes) \in Nat /\ DOMAIN sizes = 1 .. Len(sizes)
      /\ sizes \in Seq(Nat) /\ content # <<>>
  BY DEF CacheInv, Types
<1>2. ASSUME NEW k \in 1 .. Len(sizes)
      PROVE  <<[record |-> k, part |-> 0, valueNumber |-> sizes[k]]>>[1] = Record(k, sizes[k])[1]
  <2>1. 1 \in 1 .. sizes[k] + 1 /\ 1 - 1 = 0
    <3>1. sizes[k] \in Nat
      BY ONLY <1>1, <1>2, ElementOfSeq
    <3> QED BY ONLY <3>1
  <2> QED BY ONLY <2>1 DEF Record
<1>3. CASE content = <<CellOf(taken + 1, 0)>> /\ taken < Len(sizes) /\ pc \notin {"write", "append"}
  <2>1. i = 1 /\ taken + 1 \in 1 .. Len(sizes)
    BY ONLY <1>1, <1>3, i \in DOMAIN content
  <2> QED BY ONLY <1>1, <1>2, <1>3, <2>1 DEF CellOf
<1>4. CASE /\ content = Record(taken + 1, sizes[taken + 1]) /\ taken < Len(sizes)
           /\ pc \notin {"write", "append"}
  BY ONLY <1>1, <1>4
<1>5. CASE content = Record(taken, sizes[taken]) /\ taken > 0 /\ pc \in {"write", "append"}
  BY ONLY <1>1, <1>5
<1> QED BY ONLY <1>1, <1>3, <1>4, <1>5, CacheInv DEF CacheInv, Reader

\* The flusher reads whole records, each once and in the order they were
\* accepted, for every size of the buffer, though writers copy and count a
\* record in two parts beside it.
THEOREM RecordsReadWhole == Spec => []RecordsWhole
<1>1. Spec => []CacheInv
  BY CacheInit, CacheStep, PTL DEF Spec
<1> QED BY <1>1, WholeFromCache, PTL

-----------------------------------------------------------------------------
(* The log file *)

Cells == Cell \cup {HDR, BAD}
Kinds == {"close", "copy", "unlink", "open", "read", "header", "write"}

\* Whether one of the kinds is in a sequence of faults.
HasKind(s, kinds) == \E i \in DOMAIN s : s[i] \in kinds

LEMMA FaultyIs == \A kinds : Faulty(kinds) = HasKind(faults, kinds)
BY DEF Faulty, HasKind

\* Faults are never forgotten.
LEMMA KindsKept ==
  ASSUME NEW s \in Seq(Kinds), NEW t \in Seq(Kinds), NEW kinds
  PROVE  /\ s \o t \in Seq(Kinds)
         /\ HasKind(s \o t, kinds) <=> HasKind(s, kinds) \/ HasKind(t, kinds)
<1>1. /\ s \o t \in Seq(Kinds) /\ Len(s \o t) = Len(s) + Len(t)
      /\ Len(s) \in Nat /\ Len(t) \in Nat
      /\ \A i \in 1 .. Len(s) + Len(t) :
           (s \o t)[i] = IF i <= Len(s) THEN s[i] ELSE t[i - Len(s)]
  BY ONLY s \in Seq(Kinds), t \in Seq(Kinds)
<1>2. /\ DOMAIN s = 1 .. Len(s) /\ DOMAIN t = 1 .. Len(t)
      /\ DOMAIN (s \o t) = 1 .. Len(s) + Len(t)
  BY ONLY <1>1, s \in Seq(Kinds), t \in Seq(Kinds)
<1>3. HasKind(s, kinds) => HasKind(s \o t, kinds)
  BY ONLY <1>1, <1>2 DEF HasKind
<1>4. HasKind(t, kinds) => HasKind(s \o t, kinds)
  <2> SUFFICES ASSUME NEW i \in DOMAIN t, t[i] \in kinds PROVE HasKind(s \o t, kinds)
    BY DEF HasKind
  <2>1. /\ i + Len(s) \in 1 .. Len(s) + Len(t) /\ ~ (i + Len(s) <= Len(s))
        /\ i + Len(s) - Len(s) = i
    BY ONLY <1>1, <1>2, i \in DOMAIN t
  <2>2. (s \o t)[i + Len(s)] = t[i]
    BY ONLY <1>1, <2>1
  <2> QED BY ONLY <1>2, <2>1, <2>2, t[i] \in kinds DEF HasKind
<1>5. HasKind(s \o t, kinds) => HasKind(s, kinds) \/ HasKind(t, kinds)
  <2> SUFFICES ASSUME NEW i \in DOMAIN (s \o t), (s \o t)[i] \in kinds
               PROVE  HasKind(s, kinds) \/ HasKind(t, kinds)
    BY DEF HasKind
  <2>1. CASE i <= Len(s)
    <3>1. i \in DOMAIN s /\ s[i] \in kinds
      BY ONLY <1>1, <1>2, <2>1, i \in DOMAIN (s \o t), (s \o t)[i] \in kinds
    <3> QED BY <3>1 DEF HasKind
  <2>2. CASE ~ (i <= Len(s))
    <3>1. i - Len(s) \in DOMAIN t /\ t[i - Len(s)] \in kinds
      BY ONLY <1>1, <1>2, <2>2, i \in DOMAIN (s \o t), (s \o t)[i] \in kinds
    <3> QED BY <3>1 DEF HasKind
  <2> QED BY <2>1, <2>2
<1> QED BY ONLY <1>1, <1>3, <1>4, <1>5

\* What write(2) makes of a file.
Overwritten(g, f, at, cells) ==
  /\ g \in Seq(Cells) /\ Len(g) >= Len(f)
  /\ \A i \in 1 .. at : i <= Len(f) => g[i] = f[i]
  /\ cells # <<>> =>
       /\ Len(g) = IF Len(f) > at + Len(cells) THEN Len(f) ELSE at + Len(cells)
       /\ \A j \in 1 .. Len(cells) : g[at + j] = cells[j]

LEMMA OverwriteCells ==
  ASSUME NEW f \in Seq(Cells), NEW at \in Nat, NEW cells \in Seq(Cells)
  PROVE  Overwritten(Overwrite(f, at, cells), f, at, cells)
<1>1. CASE cells = <<>>
  BY ONLY <1>1, f \in Seq(Cells) DEF Overwrite, Overwritten
<1>2. CASE cells # <<>>
  <2> DEFINE n == IF Len(f) > at + Len(cells) THEN Len(f) ELSE at + Len(cells)
             cell(i) == IF i \in at + 1 .. at + Len(cells) THEN cells[i - at]
                        ELSE IF i <= Len(f) THEN f[i] ELSE BAD
             g == [i \in 1 .. n |-> cell(i)]
  <2>1. n \in Nat /\ n >= Len(f) /\ n >= at + Len(cells) /\ Len(f) \in Nat /\ Len(cells) \in Nat
    OBVIOUS
  <2>2. \A i \in 1 .. n : cell(i) \in Cells
    <3> SUFFICES ASSUME NEW i \in 1 .. n PROVE cell(i) \in Cells
      OBVIOUS
    <3>1. CASE i \in at + 1 .. at + Len(cells)
      <4>1. i - at \in 1 .. Len(cells)
        BY ONLY <2>1, <3>1, at \in Nat
      <4> QED BY ONLY <3>1, <4>1, cells \in Seq(Cells)
    <3>2. CASE i \notin at + 1 .. at + Len(cells)
      <4>1. i \in Nat /\ i >= 1
        BY ONLY <2>1
      <4> QED BY ONLY <3>2, <4>1, <2>1, f \in Seq(Cells) DEF Cells
    <3> QED BY <3>1, <3>2
  <2> HIDE DEF n
  <2>3. /\ g \in Seq(Cells) /\ Len(g) = n
        /\ \A i \in 1 .. n : g[i] = cell(i)
    <3> HIDE DEF cell
    <3> QED BY ONLY <2>1, <2>2
  <2>4. \A i \in 1 .. at : i <= Len(f) => g[i] = f[i]
    <3> SUFFICES ASSUME NEW i \in 1 .. at, i <= Len(f) PROVE g[i] = f[i]
      OBVIOUS
    <3>1. i \in 1 .. n /\ i \notin at + 1 .. at + Len(cells)
      BY ONLY <2>1, at \in Nat, i <= Len(f)
    <3> HIDE DEF g
    <3> QED BY ONLY <2>3, <3>1, i <= Len(f)
  <2>5. \A j \in 1 .. Len(cells) : g[at + j] = cells[j]
    <3> SUFFICES ASSUME NEW j \in 1 .. Len(cells) PROVE g[at + j] = cells[j]
      OBVIOUS
    <3>1. /\ at + j \in 1 .. n /\ at + j \in at + 1 .. at + Len(cells)
          /\ at + j - at = j
      BY ONLY <2>1, at \in Nat
    <3> HIDE DEF g
    <3> QED BY ONLY <2>3, <3>1
  <2>6. g = Overwrite(f, at, cells)
    BY ONLY <1>2 DEF Overwrite, n
  <2> HIDE DEF g
  <2>7. Overwritten(g, f, at, cells)
    BY ONLY <2>1, <2>3, <2>4, <2>5 DEF Overwritten, n
  <2> QED BY ONLY <2>6, <2>7
<1> QED BY <1>1, <1>2

\* The cells of file f between m and e are the last of w.
Ends(f, e, m, w) ==
  /\ e \in Nat /\ m \in Nat /\ 1 <= m /\ m <= e /\ e - m <= Len(w)
  /\ m = 1 \/ m <= Len(f)
  /\ m < e => e <= Len(f)
  /\ \A i \in 0 .. e - m - 1 : f[e - i] = w[Len(w) - i]

\* Nothing else is in it.
Exact(f, e, m) == m = 1 /\ e = Len(f) /\ f[1] = HDR

Spoiling == {"write", "read", "header"}

FileInv ==
  /\ written \in Seq(Cells) /\ faults \in Seq(Kinds)
  /\ fhandle = "open" =>
       /\ file \in Seq(Cells) /\ Ends(file, end, mark, written)
       /\ ~ HasKind(faults, Spoiling) => Exact(file, end, mark)

\* A line is written whole, ...
LEMMA EndsWritten ==
  ASSUME NEW f \in Seq(Cells), NEW e, NEW m, NEW w \in Seq(Cells), NEW cells \in Seq(Cells),
         cells # <<>>, Ends(f, e, m, w)
  PROVE  /\ Ends(Overwrite(f, e, cells), e + Len(cells), m, w \o cells)
         /\ Exact(f, e, m) => Exact(Overwrite(f, e, cells), e + Len(cells), m)
<1> DEFINE g == Overwrite(f, e, cells)
           n == Len(cells)
           L == Len(w)
<1>1. /\ e \in Nat /\ m \in Nat /\ 1 <= m /\ m <= e /\ e - m <= L /\ (m = 1 \/ m <= Len(f))
      /\ m < e => e <= Len(f)
      /\ \A i \in 0 .. e - m - 1 : f[e - i] = w[L - i]
  BY DEF Ends
<1>2. Overwritten(g, f, e, cells)
  BY <1>1, OverwriteCells
<1>3. /\ n \in Nat /\ n > 0 /\ L \in Nat /\ Len(f) \in Nat
      /\ w \o cells \in Seq(Cells) /\ Len(w \o cells) = L + n
      /\ \A i \in 1 .. L + n : (w \o cells)[i] = IF i <= L THEN w[i] ELSE cells[i - L]
  BY ONLY cells \in Seq(Cells), cells # <<>>, w \in Seq(Cells), f \in Seq(Cells)
<1>4. /\ g \in Seq(Cells) /\ Len(g) >= Len(f)
      /\ Len(g) = IF Len(f) > e + n THEN Len(f) ELSE e + n
      /\ \A i \in 1 .. e : i <= Len(f) => g[i] = f[i]
      /\ \A j \in 1 .. n : g[e + j] = cells[j]
  BY ONLY <1>2, cells # <<>> DEF Overwritten
<1> HIDE DEF g, n, L
<1>4a. Len(g) \in Nat /\ Len(g) >= e + n
  BY ONLY <1>1, <1>3, <1>4
<1>5. ASSUME NEW i \in 0 .. (e + n) - m - 1
      PROVE  g[(e + n) - i] = (w \o cells)[(L + n) - i]
  <2>0. i \in Nat
    OBVIOUS
  <2>1. CASE i < n
    <3>1. /\ n - i \in 1 .. n /\ e + n - i = e + (n - i)
          /\ (L + n) - i \in 1 .. L + n /\ ~ ((L + n) - i <= L) /\ (L + n) - i - L = n - i
      BY ONLY <1>1, <1>3, <2>0, <2>1
    <3>2. g[e + (n - i)] = cells[n - i] /\ (w \o cells)[(L + n) - i] = cells[n - i]
      BY ONLY <1>3, <1>4, <3>1
    <3>3. (e + n) - i = e + (n - i)
      BY ONLY <1>1, <1>3, <2>0
    <3> QED BY ONLY <3>2, <3>3, Zenon
  <2>2. CASE ~ (i < n)
    <3>1. /\ i - n \in 0 .. e - m - 1 /\ e + n - i = e - (i - n) /\ e - (i - n) \in 1 .. e
          /\ m < e /\ e - (i - n) <= e
          /\ (L + n) - i \in 1 .. L + n /\ (L + n) - i <= L /\ (L + n) - i = L - (i - n)
      BY ONLY <1>1, <1>3, <1>5, <2>0, <2>2
    <3>2. e - (i - n) <= Len(f)
      BY ONLY <1>1, <1>3, <3>1
    <3>3. g[e - (i - n)] = f[e - (i - n)] /\ f[e - (i - n)] = w[L - (i - n)]
      BY ONLY <1>1, <1>4, <3>1, <3>2
    <3>4. (w \o cells)[(L + n) - i] = w[(L + n) - i]
      BY ONLY <1>3, <3>1
    <3>5. (e + n) - i = e - (i - n) /\ (L + n) - i = L - (i - n)
      BY ONLY <1>1, <1>3, <2>0
    <3> QED BY ONLY <3>3, <3>4, <3>5, Zenon
  <2> QED BY <2>1, <2>2
<1>6. Ends(g, e + n, m, w \o cells)
  <2>1. /\ e + n \in Nat /\ m <= e + n /\ (e + n) - m <= L + n
        /\ m = 1 \/ m <= Len(g)
        /\ e + n <= Len(g)
    BY ONLY <1>1, <1>3, <1>4, <1>4a
  <2> QED BY ONLY <1>1, <1>3, <1>5, <2>1 DEF Ends
<1>7. Exact(f, e, m) => Exact(g, e + n, m)
  BY ONLY <1>1, <1>3, <1>4, <1>4a DEF Exact
<1> QED BY ONLY <1>6, <1>7 DEF g, n

\* ... or in part.
LEMMA EndsPart ==
  ASSUME NEW f \in Seq(Cells), NEW e, NEW m, NEW w \in Seq(Cells), NEW cells \in Seq(Cells),
         Ends(f, e, m, w)
  PROVE  Ends(Overwrite(f, e, cells), e, m, w)
<1> DEFINE g == Overwrite(f, e, cells)
<1>1. /\ e \in Nat /\ m \in Nat /\ 1 <= m /\ m <= e /\ e - m <= Len(w)
      /\ m = 1 \/ m <= Len(f)
      /\ m < e => e <= Len(f)
      /\ \A i \in 0 .. e - m - 1 : f[e - i] = w[Len(w) - i]
  BY DEF Ends
<1>2. Overwritten(g, f, e, cells)
  BY <1>1, OverwriteCells
<1>3. /\ g \in Seq(Cells) /\ Len(g) >= Len(f) /\ Len(f) \in Nat /\ Len(g) \in Nat
      /\ \A i \in 1 .. e : i <= Len(f) => g[i] = f[i]
  BY <1>2 DEF Overwritten
<1> HIDE DEF g
<1>4. ASSUME NEW i \in 0 .. e - m - 1
      PROVE  g[e - i] = w[Len(w) - i]
  <2>1. e - i \in 1 .. e /\ e - i <= Len(f)
    BY ONLY <1>1, <1>3, <1>4
  <2> QED BY ONLY <1>1, <1>3, <1>4, <2>1
<1>5. (m = 1 \/ m <= Len(g)) /\ (m < e => e <= Len(g))
  BY ONLY <1>1, <1>3
<1>6. Ends(g, e, m, w)
  BY ONLY <1>1, <1>4, <1>5 DEF Ends
<1> QED BY ONLY <1>6 DEF g
\* A fault is a sequence of kinds of its own.
LEMMA OneFault ==
  ASSUME NEW k \in Kinds, NEW kinds
  PROVE  <<k>> \in Seq(Kinds) /\ (HasKind(<<k>>, kinds) <=> k \in kinds)
<1>1. <<k>> \in Seq(Kinds) /\ DOMAIN <<k>> = {1} /\ <<k>>[1] = k
  OBVIOUS
<1> QED BY ONLY <1>1 DEF HasKind

LEMMA NoFault == <<>> \in Seq(Kinds) /\ \A kinds : ~ HasKind(<<>>, kinds)
BY DEF HasKind

\* What a move leaves, and which faults go with it.
LEMMA Copied ==
  ASSUME NEW c \in HIVIEW_FileCopy
  PROVE  /\ c.faults \in Seq(Kinds)
         /\ c.faults = <<>> => c.to = file
         /\ c.faults # <<>> => HasKind(c.faults, {"copy"})
<1>1. CASE c = [to |-> file, faults |-> <<>>]
  BY <1>1, NoFault
<1>2. CASE c.faults = <<"copy">>
  <2>1. "copy" \in Kinds /\ "copy" \in {"copy"} /\ <<"copy">> # <<>>
    BY DEF Kinds
  <2> QED BY ONLY <1>2, <2>1, OneFault
<1>3. CASE c.faults = <<"copy", "unlink">>
  <2>1. /\ <<"copy", "unlink">> \in Seq(Kinds) /\ 1 \in DOMAIN <<"copy", "unlink">>
        /\ <<"copy", "unlink">>[1] = "copy" /\ <<"copy", "unlink">> # <<>>
    BY DEF Kinds
  <2> QED BY ONLY <1>3, <2>1 DEF HasKind
<1> QED BY <1>1, <1>2, <1>3 DEF HIVIEW_FileCopy

LEMMA Moved ==
  ASSUME NEW m \in HIVIEW_FileMove
  PROVE  /\ m.faults \in Seq(Kinds) /\ m.from \in {NULL, file}
         /\ HasKind(m.faults, {"copy", "unlink"}) \/ (m.from = NULL /\ m.to = file)
<1>1. CASE \E c \in HIVIEW_FileCopy : m = [from |-> NULL, to |-> c.to, faults |-> c.faults]
  <2>1. PICK c \in HIVIEW_FileCopy : m = [from |-> NULL, to |-> c.to, faults |-> c.faults]
    BY <1>1
  <2>2. m.faults = c.faults /\ m.from = NULL /\ m.to = c.to
    BY ONLY <2>1
  <2>3. /\ c.faults \in Seq(Kinds)
        /\ c.faults = <<>> => c.to = file
        /\ c.faults # <<>> => HasKind(c.faults, {"copy"})
    BY Copied
  <2>4. HasKind(c.faults, {"copy"}) => HasKind(c.faults, {"copy", "unlink"})
    BY DEF HasKind
  <2> QED BY ONLY <2>2, <2>3, <2>4
<1>2. CASE \E c \in HIVIEW_FileCopy :
             m = [from |-> file, to |-> c.to, faults |-> Append(c.faults, "unlink")]
  <2>1. PICK c \in HIVIEW_FileCopy :
               m = [from |-> file, to |-> c.to, faults |-> Append(c.faults, "unlink")]
    BY <1>2
  <2>2. m.faults = Append(c.faults, "unlink") /\ m.from = file
    BY ONLY <2>1
  <2>3. c.faults \in Seq(Kinds)
    BY Copied
  <2>4. /\ Append(c.faults, "unlink") \in Seq(Kinds)
        /\ Len(c.faults) + 1 \in DOMAIN Append(c.faults, "unlink")
        /\ Append(c.faults, "unlink")[Len(c.faults) + 1] = "unlink"
    BY ONLY <2>3 DEF Kinds
  <2>5. HasKind(Append(c.faults, "unlink"), {"copy", "unlink"})
    BY ONLY <2>4 DEF HasKind
  <2> QED BY ONLY <2>2, <2>4, <2>5
<1> QED BY <1>1, <1>2 DEF HIVIEW_FileMove

\* A header is written, or not, or in part.
LEMMA HeaderWritten ==
  ASSUME NEW f \in Seq(Cells), NEW r \in WriteFileHeader(f)
  PROVE  /\ r.file \in Seq(Cells) /\ r.end = 1 /\ r.mark = 1
         /\ r.faults \in Seq(Kinds)
         /\ HasKind(r.faults, {"header"}) \/ r.file = Overwrite(f, 0, <<HDR>>)
         /\ f = <<>> => r.file \in {<<>>, <<HDR>>, <<BAD>>}
<1>1. <<HDR>> \in Seq(Cells) /\ <<BAD>> \in Seq(Cells) /\ 0 \in Nat
  BY DEF Cells
<1>2. /\ Overwrite(f, 0, <<HDR>>) \in Seq(Cells) /\ Overwrite(f, 0, <<BAD>>) \in Seq(Cells)
  BY ONLY <1>1, f \in Seq(Cells), OverwriteCells DEF Overwritten
<1>3. ASSUME NEW c, f = <<>> PROVE Overwrite(f, 0, <<c>>) = <<c>>
  <2>1. Overwrite(f, 0, <<c>>) = [i \in 1 .. 1 |-> c]
    BY <1>3 DEF Overwrite
  <2> QED BY <2>1
<1>3a. <<"header">> \in Seq(Kinds) /\ HasKind(<<"header">>, {"header"})
  <2>1. "header" \in Kinds /\ "header" \in {"header"}
    BY DEF Kinds
  <2> QED BY ONLY <2>1, OneFault
<1>4. CASE r = [file |-> Overwrite(f, 0, <<HDR>>), end |-> 1, mark |-> 1, faults |-> <<>>]
  BY ONLY <1>2, <1>3, <1>4, NoFault
<1>5. CASE r = [file |-> f, end |-> 1, mark |-> 1, faults |-> <<"header">>]
  BY ONLY <1>5, <1>3a, f \in Seq(Cells)
<1>6. CASE r = [file |-> Overwrite(f, 0, <<BAD>>), end |-> 1, mark |-> 1,
                faults |-> <<"header">>]
  BY ONLY <1>2, <1>3, <1>3a, <1>6
<1> QED BY <1>4, <1>5, <1>6 DEF WriteFileHeader

\* The file is not opened, or opened and its header is read or written.
Content(f) == IF f = NULL THEN <<>> ELSE f
HasHeader(f) == f # <<>> /\ f[1] = HDR

LEMMA Opened ==
  ASSUME NEW f, NEW r \in InitHiviewFile(f)
  PROVE  \/ r.fhandle = "closed" /\ r.file = f /\ r.faults = <<"open">>
         \/ /\ r.fhandle = "open" /\ HasHeader(Content(f)) /\ r.file = Content(f)
            /\ r.end = Len(Content(f)) /\ r.faults = <<>>
            /\ r.mark = IF Len(Content(f)) > end THEN Len(Content(f)) ELSE mark
         \/ /\ r.fhandle = "open"
            /\ \E q \in WriteFileHeader(Content(f)) :
                 /\ r.file = q.file /\ r.end = q.end /\ r.mark = q.mark
                 /\ r.faults = IF HasHeader(Content(f)) THEN <<"read">> \o q.faults
                               ELSE q.faults
<1> DEFINE o == Content(f)
           results == IF HasHeader(o)
                      THEN ReadFileHeader(o) \cup
                           {[q EXCEPT !.faults = <<"read">> \o @] : q \in WriteFileHeader(o)}
                      ELSE WriteFileHeader(o)
           opened(q) == [file |-> q.file, fhandle |-> "open", end |-> q.end, mark |-> q.mark,
                         faults |-> q.faults]
<1>1. InitHiviewFile(f) = {opened(q) : q \in results}
        \cup {[file |-> f, fhandle |-> "closed", end |-> end, mark |-> mark,
               faults |-> <<"open">>]}
  BY Zenon DEF InitHiviewFile, HasHeader, Content
<1>2. CASE r = [file |-> f, fhandle |-> "closed", end |-> end, mark |-> mark,
                faults |-> <<"open">>]
  BY ONLY <1>2
<1>3. CASE \E q \in results : r = opened(q)
  <2>1. PICK q \in results : r = opened(q)
    BY ONLY <1>3
  <2>2. /\ r.file = q.file /\ r.fhandle = "open" /\ r.end = q.end /\ r.mark = q.mark
        /\ r.faults = q.faults
    BY ONLY <2>1
  <2>3. CASE HasHeader(o) /\ q \in ReadFileHeader(o)
    <3>1. q = [file |-> o, end |-> Len(o), mark |-> IF Len(o) > end THEN Len(o) ELSE mark,
               faults |-> <<>>]
      BY ONLY <2>3 DEF ReadFileHeader
    <3>2. /\ q.file = o /\ q.end = Len(o) /\ q.faults = <<>>
          /\ q.mark = IF Len(o) > end THEN Len(o) ELSE mark
      BY ONLY <3>1
    <3> QED BY ONLY <2>2, <2>3, <3>2
  <2>4. CASE HasHeader(o) /\ q \in {[p EXCEPT !.faults = <<"read">> \o @] : p \in WriteFileHeader(o)}
    <3>1. PICK p \in WriteFileHeader(o) : q = [p EXCEPT !.faults = <<"read">> \o @]
      BY ONLY <2>4
    <3>2. \E g, k : p = [file |-> g, end |-> 1, mark |-> 1, faults |-> k]
      BY ONLY <3>1 DEF WriteFileHeader
    <3>3. /\ q.file = p.file /\ q.end = p.end /\ q.mark = p.mark
          /\ q.faults = <<"read">> \o p.faults
      BY ONLY <3>1, <3>2
    <3> QED BY ONLY <2>2, <2>4, <3>1, <3>3
  <2>5. CASE ~ HasHeader(o) /\ q \in WriteFileHeader(o)
    BY ONLY <2>2, <2>5
  <2> QED BY <2>3, <2>4, <2>5
<1> QED BY <1>1, <1>2, <1>3

\* A file is opened again, ...
LEMMA EndsOpened ==
  ASSUME NEW f \in Seq(Cells), NEW e, NEW m, NEW w \in Seq(Cells), Ends(f, e, m, w), f # <<>>
  PROVE  Ends(f, Len(f), IF Len(f) > e THEN Len(f) ELSE m, w)
<1>1. /\ e \in Nat /\ m \in Nat /\ 1 <= m /\ m <= e /\ e - m <= Len(w)
      /\ m = 1 \/ m <= Len(f)
      /\ m < e => e <= Len(f)
      /\ \A i \in 0 .. e - m - 1 : f[e - i] = w[Len(w) - i]
  BY DEF Ends
<1>2. Len(f) \in Nat /\ Len(f) > 0 /\ Len(w) \in Nat
  BY ONLY f \in Seq(Cells), f # <<>>, w \in Seq(Cells)
<1>3. CASE Len(f) > e
  <2>1. Len(f) - Len(f) = 0 /\ 0 .. Len(f) - Len(f) - 1 = {} /\ 1 <= Len(f)
    BY ONLY <1>2
  <2> QED BY ONLY <1>2, <1>3, <2>1 DEF Ends
<1>4. CASE ~ (Len(f) > e)
  <2>1. Len(f) = e
    BY ONLY <1>1, <1>2, <1>4
  <2> QED BY ONLY <1>1, <1>2, <1>4, <2>1 DEF Ends
<1> QED BY <1>3, <1>4

\* ... or begun.
LEMMA EndsNew ==
  ASSUME NEW f, NEW w \in Seq(Cells)
  PROVE  Ends(f, 1, 1, w)
<1>1. 1 - 1 = 0 /\ 0 .. 1 - 1 - 1 = {} /\ 1 \in Nat /\ 0 <= Len(w) /\ 1 <= 1 /\ ~ (1 < 1)
  OBVIOUS
<1> QED BY ONLY <1>1 DEF Ends

\* A rotation, whatever of it fails.
LEMMA FileProc ==
  ASSUME FileInv, ProcFile, written' = written
  PROVE  FileInv'
<1>1. written \in Seq(Cells) /\ faults \in Seq(Kinds)
  BY DEF FileInv
<1>2. CASE /\ fhandle = "open"
           /\ \E m \in HIVIEW_FileMove : \E r \in InitHiviewFile(m.from) :
                /\ Failed(m.faults \o r.faults)
                /\ out' = m.to /\ file' = r.file /\ fhandle' = r.fhandle
                /\ end' = r.end /\ mark' = r.mark
  <2>0. PICK m \in HIVIEW_FileMove : \E r \in InitHiviewFile(m.from) :
               /\ Failed(m.faults \o r.faults)
               /\ file' = r.file /\ fhandle' = r.fhandle /\ end' = r.end /\ mark' = r.mark
    BY <1>2
  <2>1. PICK r \in InitHiviewFile(m.from) :
               /\ Failed(m.faults \o r.faults)
               /\ file' = r.file /\ fhandle' = r.fhandle /\ end' = r.end /\ mark' = r.mark
    BY <2>0
  <2>2. /\ file \in Seq(Cells) /\ Ends(file, end, mark, written)
        /\ ~ HasKind(faults, Spoiling) => Exact(file, end, mark)
    BY <1>2 DEF FileInv
  <2>3. m.faults \in Seq(Kinds) /\ m.from \in {NULL, file}
    BY Moved
  <2> DEFINE o == Content(m.from)
  <2>4. o \in {<<>>, file} /\ o \in Seq(Cells)
    BY ONLY <2>2, <2>3 DEF Content
  <2>5. faults' = faults \o (m.faults \o r.faults)
    BY <2>1 DEF Failed
  <2>6. ASSUME r.faults \in Seq(Kinds)
        PROVE  /\ faults' \in Seq(Kinds)
               /\ HasKind(faults', Spoiling) <=>
                    \/ HasKind(faults, Spoiling) \/ HasKind(m.faults, Spoiling)
                    \/ HasKind(r.faults, Spoiling)
    <3>1. /\ m.faults \o r.faults \in Seq(Kinds)
          /\ HasKind(m.faults \o r.faults, Spoiling) <=>
               HasKind(m.faults, Spoiling) \/ HasKind(r.faults, Spoiling)
      BY ONLY <2>3, <2>6, KindsKept
    <3>2. /\ faults \o (m.faults \o r.faults) \in Seq(Kinds)
          /\ HasKind(faults \o (m.faults \o r.faults), Spoiling) <=>
               HasKind(faults, Spoiling) \/ HasKind(m.faults \o r.faults, Spoiling)
      BY ONLY <1>1, <3>1, KindsKept
    <3> QED BY ONLY <2>5, <3>1, <3>2
  <2>7. CASE r.fhandle = "closed" /\ r.file = m.from /\ r.faults = <<"open">>
    <3>1. <<"open">> \in Seq(Kinds)
      <4>1. "open" \in Kinds
        BY DEF Kinds
      <4> QED BY ONLY <4>1, OneFault
    <3>2. fhandle' # "open" /\ faults' \in Seq(Kinds)
      BY ONLY <2>1, <2>6, <2>7, <3>1
    <3> QED BY ONLY <1>1, <3>2, written' = written DEF FileInv
  <2>8. CASE /\ r.fhandle = "open" /\ HasHeader(o) /\ r.file = o
             /\ r.end = Len(o) /\ r.faults = <<>>
             /\ r.mark = IF Len(o) > end THEN Len(o) ELSE mark
    <3>1. o = file /\ file # <<>>
      BY ONLY <2>4, <2>8 DEF HasHeader
    <3>2. Ends(file, Len(file), IF Len(file) > end THEN Len(file) ELSE mark, written)
      BY ONLY <1>1, <2>2, <3>1, EndsOpened
    <3>3. file' = file /\ end' = Len(file) /\ mark' = IF Len(file) > end THEN Len(file) ELSE mark
      BY ONLY <2>1, <2>8, <3>1
    <3>4. faults' \in Seq(Kinds) /\ (HasKind(faults, Spoiling) => HasKind(faults', Spoiling))
      BY ONLY <2>6, <2>8, NoFault
    <3>5. Exact(file, end, mark) => Exact(file', end', mark')
      <4>1. Len(file) \in Nat
        BY ONLY <2>2
      <4> QED BY ONLY <3>3, <4>1 DEF Exact
    <3>6. file' \in Seq(Cells) /\ Ends(file', end', mark', written')
      BY ONLY <2>2, <3>2, <3>3, written' = written
    <3>7. ~ HasKind(faults', Spoiling) => Exact(file', end', mark')
      BY ONLY <2>2, <3>4, <3>5
    <3> QED BY ONLY <1>1, <3>4, <3>6, <3>7, written' = written DEF FileInv
  <2>9. CASE /\ r.fhandle = "open"
             /\ \E q \in WriteFileHeader(o) :
                  /\ r.file = q.file /\ r.end = q.end /\ r.mark = q.mark
                  /\ r.faults = IF HasHeader(o) THEN <<"read">> \o q.faults ELSE q.faults
    <3>1. PICK q \in WriteFileHeader(o) :
                 /\ r.file = q.file /\ r.end = q.end /\ r.mark = q.mark
                 /\ r.faults = IF HasHeader(o) THEN <<"read">> \o q.faults ELSE q.faults
      BY ONLY <2>9
    <3>2. /\ q.file \in Seq(Cells) /\ q.end = 1 /\ q.mark = 1 /\ q.faults \in Seq(Kinds)
          /\ HasKind(q.faults, {"header"}) \/ q.file = Overwrite(o, 0, <<HDR>>)
      BY ONLY <2>4, <3>1, HeaderWritten
    <3>3. /\ <<"read">> \in Seq(Kinds) /\ HasKind(<<"read">>, Spoiling)
      <4>1. "read" \in Kinds /\ "read" \in Spoiling
        BY DEF Kinds, Spoiling
      <4> QED BY ONLY <4>1, OneFault
    <3>4. /\ <<"read">> \o q.faults \in Seq(Kinds)
          /\ HasKind(<<"read">> \o q.faults, Spoiling)
      BY ONLY <3>2, <3>3, KindsKept
    <3>5. HasKind(q.faults, {"header"}) => HasKind(q.faults, Spoiling)
      BY DEF HasKind, Spoiling
    <3>6. r.faults \in Seq(Kinds) /\ (~ HasKind(r.faults, Spoiling) =>
                                        ~ HasHeader(o) /\ q.file = Overwrite(o, 0, <<HDR>>))
      BY ONLY <3>1, <3>2, <3>4, <3>5
    <3>7. faults' \in Seq(Kinds) /\ (HasKind(faults, Spoiling) => HasKind(faults', Spoiling))
          /\ (HasKind(r.faults, Spoiling) => HasKind(faults', Spoiling))
      BY ONLY <2>6, <3>6
    <3>8. file' = q.file /\ end' = 1 /\ mark' = 1
      BY ONLY <2>1, <3>1, <3>2
    <3>9. file' \in Seq(Cells) /\ Ends(file', end', mark', written')
      BY ONLY <1>1, <3>2, <3>8, written' = written, EndsNew
    <3>10. ASSUME ~ HasKind(faults', Spoiling) PROVE Exact(file', end', mark')
      <4>1. Exact(file, end, mark) /\ ~ HasHeader(o) /\ q.file = Overwrite(o, 0, <<HDR>>)
        BY ONLY <2>2, <3>6, <3>7, <3>10
      <4>2. o = <<>>
        <5>1. o = file => o = <<>>
          BY ONLY <4>1 DEF Exact, HasHeader
        <5> QED BY ONLY <2>4, <5>1
      <4>3. Overwrite(<<>>, 0, <<HDR>>) = <<HDR>>
        <5>1. Overwrite(<<>>, 0, <<HDR>>) = [i \in 1 .. 1 |-> HDR]
          BY DEF Overwrite
        <5> QED BY ONLY <5>1
      <4>4. file' = <<HDR>>
        BY ONLY <3>8, <4>1, <4>2, <4>3
      <4> QED BY ONLY <3>8, <4>4 DEF Exact
    <3> QED BY ONLY <1>1, <3>7, <3>9, <3>10, written' = written DEF FileInv
  <2> QED BY <2>7, <2>8, <2>9, Opened
<1>3. CASE /\ fhandle = "open" /\ Failed(<<"close">>) /\ UNCHANGED <<out, file, end, mark>>
  <2>1. "close" \in Kinds
    BY DEF Kinds
  <2>2. faults' = faults \o <<"close">>
    BY <1>3 DEF Failed
  <2>3. faults' \in Seq(Kinds) /\ (HasKind(faults, Spoiling) => HasKind(faults', Spoiling))
    BY ONLY <1>1, <2>1, <2>2, OneFault, KindsKept
  <2>4. /\ file \in Seq(Cells) /\ Ends(file, end, mark, written)
        /\ ~ HasKind(faults, Spoiling) => Exact(file, end, mark)
    BY <1>3 DEF FileInv
  <2> QED BY ONLY <1>1, <1>3, <2>3, <2>4, written' = written DEF FileInv
<1>4. CASE UNCHANGED <<out, file, fhandle, end, mark, faults>>
  BY ONLY <1>4, FileInv, written' = written DEF FileInv
<1> QED BY <1>2, <1>3, <1>4 DEF ProcFile

\* What is written is a record.
LEMMA LineCells ==
  ASSUME CacheInv, WriteToFile
  PROVE  content \in Seq(Cells) /\ content # <<>>
<1>1. content \in Seq(Cell) /\ pc \in {"write", "append"}
  BY DEF CacheInv, Types, WriteToFile
<1>2. taken \in 1 .. Len(sizes) /\ content = Record(taken, sizes[taken])
  BY <1>1 DEF CacheInv, Reader, Types
<1>3. sizes[taken] \in Nat
  BY <1>2, ElementOfSeq DEF CacheInv, Types
<1>4. content # <<>>
  <2>1. 1 \in DOMAIN content
    BY ONLY <1>2, <1>3 DEF Record
  <2> QED BY ONLY <2>1
<1>5. content \in Seq(Cells)
  BY ONLY <1>1 DEF Cells
<1> QED BY <1>4, <1>5

LEMMA FileWrite ==
  ASSUME CacheInv, FileInv, WriteToFile
  PROVE  FileInv'
<1>1. content \in Seq(Cells) /\ content # <<>>
  BY LineCells
<1>2. written \in Seq(Cells) /\ faults \in Seq(Kinds)
  BY DEF FileInv
<1>3. fhandle' = fhandle /\ mark' = mark
  BY DEF WriteToFile
<1>4. CASE /\ fhandle = "open"
           /\ file' = Overwrite(file, end, content) /\ end' = end + Len(content)
           /\ written' = written \o content
           /\ UNCHANGED faults
  <2>1. /\ file \in Seq(Cells) /\ Ends(file, end, mark, written)
        /\ ~ HasKind(faults, Spoiling) => Exact(file, end, mark)
    BY <1>4 DEF FileInv
  <2>2. /\ Ends(file', end', mark', written')
        /\ Exact(file, end, mark) => Exact(file', end', mark')
    BY ONLY <1>1, <1>2, <1>3, <1>4, <2>1, EndsWritten
  <2>3. file' \in Seq(Cells)
    <3>1. end \in Nat
      BY ONLY <2>1 DEF Ends
    <3> QED BY ONLY <1>1, <1>4, <2>1, <3>1, OverwriteCells DEF Overwritten
  <2>4. written' \in Seq(Cells)
    BY ONLY <1>1, <1>2, <1>4
  <2>5. faults' \in Seq(Kinds) /\ (~ HasKind(faults', Spoiling) => Exact(file', end', mark'))
    BY ONLY <1>2, <1>4, <2>1, <2>2
  <2> QED BY ONLY <2>2, <2>3, <2>4, <2>5 DEF FileInv
<1>5. CASE /\ fhandle = "open" /\ Failed(<<"write">>)
           /\ \E n \in 0 .. Len(content) - 1 :
                file' = Overwrite(file, end, SubSeq(content, 1, n))
           /\ UNCHANGED <<end, written>>
  <2>1. PICK n \in 0 .. Len(content) - 1 : file' = Overwrite(file, end, SubSeq(content, 1, n))
    BY <1>5
  <2>2. SubSeq(content, 1, n) \in Seq(Cells)
    BY ONLY <1>1, <2>1
  <2>3. file \in Seq(Cells) /\ Ends(file, end, mark, written)
    BY <1>5 DEF FileInv
  <2>4. Ends(file', end', mark', written')
    BY ONLY <1>2, <1>3, <1>5, <2>1, <2>2, <2>3, EndsPart
  <2>5. file' \in Seq(Cells)
    <3>1. end \in Nat
      BY ONLY <2>3 DEF Ends
    <3> QED BY ONLY <2>1, <2>2, <2>3, <3>1, OverwriteCells DEF Overwritten
  <2>6. faults' = faults \o <<"write">>
    BY <1>5 DEF Failed
  <2>7. faults' \in Seq(Kinds) /\ HasKind(faults', Spoiling)
    <3>1. "write" \in Kinds /\ "write" \in Spoiling
      BY DEF Kinds, Spoiling
    <3> QED BY ONLY <1>2, <2>6, <3>1, OneFault, KindsKept
  <2> QED BY ONLY <1>2, <1>5, <2>4, <2>5, <2>7 DEF FileInv
<1>6. CASE fhandle # "open" /\ UNCHANGED <<file, end, written, faults>>
  BY ONLY <1>2, <1>3, <1>6 DEF FileInv
<1> QED BY <1>4, <1>5, <1>6 DEF WriteToFile

LEMMA FileInit == Init => FileInv
<1> SUFFICES ASSUME Init PROVE FileInv
  OBVIOUS
<1>1. /\ written \in {<<>>, Record(0, 0)} /\ file = <<HDR>> \o written
      /\ end = Len(file) /\ mark = 1 /\ faults = <<>>
  BY DEF Init
<1>2. Record(0, 0) = <<[record |-> 0, part |-> 0, valueNumber |-> 0]>>
  BY DEF Record
<1>3. written \in Seq(Cells)
  <2>1. [record |-> 0, part |-> 0, valueNumber |-> 0] \in Cells
    BY DEF Cells, Cell
  <2>2. <<[record |-> 0, part |-> 0, valueNumber |-> 0]>> \in Seq(Cells) /\ <<>> \in Seq(Cells)
    BY ONLY <2>1
  <2> QED BY ONLY <1>1, <1>2, <2>2
<1>4. file \in Seq(Cells) /\ file[1] = HDR /\ Len(file) = 1 + Len(written) /\ Len(written) \in Nat
      /\ \A i \in 1 .. Len(written) : file[i + 1] = written[i]
  <2>1. <<HDR>> \in Seq(Cells) /\ Len(<<HDR>>) = 1 /\ <<HDR>>[1] = HDR
    BY DEF Cells
  <2>2. /\ <<HDR>> \o written \in Seq(Cells) /\ Len(<<HDR>> \o written) = 1 + Len(written)
        /\ \A i \in 1 .. 1 + Len(written) :
             (<<HDR>> \o written)[i] = IF i <= 1 THEN <<HDR>>[i] ELSE written[i - 1]
    BY ONLY <1>3, <2>1, ConcatProperties
  <2>3. Len(written) \in Nat
    BY ONLY <1>3
  <2>4. ASSUME NEW i \in 1 .. Len(written)
        PROVE  (<<HDR>> \o written)[i + 1] = written[i]
    <3>1. i + 1 \in 1 .. 1 + Len(written) /\ ~ (i + 1 <= 1) /\ (i + 1) - 1 = i
      BY ONLY <2>3
    <3> QED BY ONLY <2>2, <3>1
  <2>5. 1 \in 1 .. 1 + Len(written) /\ 1 <= 1
    BY ONLY <2>3
  <2> QED BY ONLY <1>1, <2>1, <2>2, <2>3, <2>4, <2>5
<1>5. Ends(file, end, mark, written)
  <2>1. ASSUME NEW i \in 0 .. end - mark - 1 PROVE file[end - i] = written[Len(written) - i]
    <3>1. Len(written) - i \in 1 .. Len(written) /\ end - i = (Len(written) - i) + 1
      BY ONLY <1>1, <1>4
    <3>2. file[(Len(written) - i) + 1] = written[Len(written) - i]
      BY ONLY <1>4, <3>1
    <3>3. end - i = (Len(written) - i) + 1
      BY ONLY <3>1
    <3> QED BY ONLY <3>2, <3>3, Zenon
  <2>2. end \in Nat /\ mark \in Nat /\ 1 <= mark /\ mark <= end /\ end - mark <= Len(written)
        /\ end <= Len(file)
    BY ONLY <1>1, <1>4
  <2> QED BY ONLY <1>1, <2>1, <2>2 DEF Ends
<1>6. faults \in Seq(Kinds) /\ Exact(file, end, mark)
  BY ONLY <1>1, <1>4, NoFault DEF Exact
<1> QED BY ONLY <1>3, <1>4, <1>5, <1>6 DEF FileInv

LEMMA FileStep == CacheInv /\ FileInv /\ [Next]_vars => FileInv'
<1> SUFFICES ASSUME CacheInv, FileInv, [Next]_vars PROVE FileInv'
  OBVIOUS
<1>1. CASE WriteToFile
  BY <1>1, FileWrite
<1>2. CASE Rotate
  <2>1. ProcFile /\ written' = written
    BY <1>2 DEF Rotate
  <2> QED BY <2>1, FileProc
<1>3. CASE UNCHANGED fileVars
  BY <1>3 DEF FileInv, fileVars
<1>4. ASSUME NEW n \in 0 .. MaxValues, WriteToCache(n) PROVE UNCHANGED fileVars
  BY <1>4 DEF WriteToCache
<1>5. ASSUME NEW who \in {"service", "app"}, Flush(who) PROVE UNCHANGED fileVars
  BY <1>5 DEF Flush
<1>6. ReadTest \/ GetReadCursor \/ ReadCopy \/ ReadCount => UNCHANGED fileVars
  BY DEF ReadTest, GetReadCursor, ReadCopy, ReadCount
<1>7. WriteRest \/ Unlock \/ UNCHANGED vars => UNCHANGED fileVars
  BY DEF WriteRest, Unlock, vars
<1> QED BY <1>1, <1>2, <1>3, <1>4, <1>5, <1>6, <1>7 DEF Next, Flushing

LEMMA SuffixOfFile == FileInv => FileIsSuffix
<1> SUFFICES ASSUME FileInv, fhandle = "open"
             PROVE  /\ mark <= end /\ end - mark <= Len(written) /\ (mark < end => end <= Len(file))
                    /\ \A i \in 0 .. end - mark - 1 : file[end - i] = written[Len(written) - i]
                    /\ ~ Faulty({"write", "read", "header"}) => mark = 1 /\ end = Len(file)
  BY DEF FileIsSuffix
<1>1. /\ Ends(file, end, mark, written)
      /\ ~ HasKind(faults, {"write", "read", "header"}) => Exact(file, end, mark)
  BY DEF FileInv, Spoiling
<1> QED BY ONLY <1>1, FaultyIs DEF Ends, Exact

\* What was written last is at the end of the log file, for every size of the
\* file, through rotations of which any part may fail: the close, the copy, an
\* unlink, the open, the read of a header, the write of one, and lines written
\* in part.
THEOREM LogFileIsSuffix == Spec => []FileIsSuffix
<1>1. Spec => []CacheInv
  BY CacheInit, CacheStep, PTL DEF Spec
<1> QED BY <1>1, SuffixOfFile, FileInit, FileStep, PTL DEF Spec

-----------------------------------------------------------------------------
(* The output file *)

\* IsSuffix, cell by cell.
LEMMA SuffixIs ==
  ASSUME NEW s \in Seq(Cells), NEW t \in Seq(Cells)
  PROVE  IsSuffix(s, t) <=> /\ Len(s) <= Len(t)
                            /\ \A i \in 1 .. Len(s) : s[i] = t[Len(t) - Len(s) + i]
<1> DEFINE m == Len(s)
           n == Len(t)
           u == SubSeq(t, n - m + 1, n)
<1>1. m \in Nat /\ n \in Nat
  OBVIOUS
<1>2. ASSUME m <= n
      PROVE  /\ u \in Seq(Cells) /\ Len(u) = m
             /\ \A i \in 1 .. m : u[i] = t[n - m + i]
  <2> DEFINE lo == n - m + 1
  <2>1. /\ lo \in Int /\ n \in Int /\ lo >= 1 /\ n - lo + 1 = m /\ (lo <= n <=> m # 0)
    BY ONLY <1>1, <1>2
  <2>2. \A i \in lo .. n : t[i] \in Cells
    <3>1. \A i \in lo .. n : i \in 1 .. n
      BY ONLY <1>1, <2>1
    <3> QED BY <3>1, ElementOfSeq
  <2>3. \A i \in 1 .. m : lo + i - 1 = n - m + i
    BY ONLY <1>1
  <2> HIDE DEF lo, m, n
  <2>4. /\ SubSeq(t, lo, n) \in Seq(Cells)
        /\ Len(SubSeq(t, lo, n)) = IF lo <= n THEN n - lo + 1 ELSE 0
        /\ \A i \in 1 .. n - lo + 1 : SubSeq(t, lo, n)[i] = t[lo + i - 1]
    BY ONLY <2>1, <2>2, SubSeqProperties
  <2>5. Len(SubSeq(t, lo, n)) = m /\ \A i \in 1 .. m : SubSeq(t, lo, n)[i] = t[n - m + i]
    BY ONLY <1>1, <2>1, <2>3, <2>4
  <2> QED BY ONLY <2>4, <2>5 DEF lo
<1> HIDE DEF u
<1>3. IsSuffix(s, t) <=> m <= n /\ s = u
  BY ONLY DEF IsSuffix, u
<1>4. m <= n => (s = u <=> \A i \in 1 .. m : s[i] = t[n - m + i])
  <2> SUFFICES ASSUME m <= n PROVE s = u <=> \A i \in 1 .. m : s[i] = t[n - m + i]
    OBVIOUS
  <2>1. u \in Seq(Cells) /\ Len(u) = m /\ \A i \in 1 .. m : u[i] = t[n - m + i]
    BY ONLY <1>2, m <= n
  <2>2. s = u => \A i \in 1 .. m : s[i] = t[n - m + i]
    BY ONLY <2>1
  <2>3. ASSUME \A i \in 1 .. m : s[i] = t[n - m + i] PROVE s = u
    <3>1. \A i \in 1 .. Len(s) : s[i] = u[i]
      BY ONLY <2>1, <2>3
    <3> QED BY ONLY <2>1, <3>1, s \in Seq(Cells), SeqEqual
  <2> QED BY ONLY <2>2, <2>3
<1> QED BY ONLY <1>3, <1>4

\* A suffix of a suffix, ...
LEMMA SuffixTail ==
  ASSUME NEW a \in Seq(Cells), NEW b \in Seq(Cells), NEW t \in Seq(Cells), IsSuffix(a \o b, t)
  PROVE  IsSuffix(b, t)
<1> DEFINE k == Len(a)
           m == Len(b)
           n == Len(t)
<1>1. /\ k \in Nat /\ m \in Nat /\ n \in Nat
      /\ a \o b \in Seq(Cells) /\ Len(a \o b) = k + m
      /\ \A i \in 1 .. k + m : (a \o b)[i] = IF i <= k THEN a[i] ELSE b[i - k]
  BY ONLY a \in Seq(Cells), b \in Seq(Cells), t \in Seq(Cells)
<1> HIDE DEF k, m, n
<1>2. k + m <= n /\ \A i \in 1 .. k + m : (a \o b)[i] = t[n - (k + m) + i]
  <2>1. a \o b \in Seq(Cells)
    BY ONLY <1>1
  <2>2. IsSuffix(a \o b, t) =>
          /\ Len(a \o b) <= Len(t)
          /\ \A i \in 1 .. Len(a \o b) : (a \o b)[i] = t[Len(t) - Len(a \o b) + i]
    BY ONLY <2>1, SuffixIs, t \in Seq(Cells)
  <2> QED BY ONLY <1>1, <2>2, IsSuffix(a \o b, t) DEF n
<1>3. ASSUME NEW i \in 1 .. m PROVE b[i] = t[n - m + i]
  <2>1. /\ k + i \in 1 .. k + m /\ ~ (k + i <= k) /\ (k + i) - k = i
        /\ n - (k + m) + (k + i) = n - m + i
    BY ONLY <1>1
  <2>2. (a \o b)[k + i] = b[i]
    BY ONLY <1>1, <2>1
  <2>3. (a \o b)[k + i] = t[n - (k + m) + (k + i)]
    BY ONLY <1>2, <2>1
  <2> QED BY ONLY <2>1, <2>2, <2>3
<1>4. m <= n
  BY ONLY <1>1, <1>2
<1> QED BY ONLY <1>3, <1>4, SuffixIs, b \in Seq(Cells), t \in Seq(Cells) DEF m, n

\* ... and of what both are continued by.
LEMMA SuffixConcat ==
  ASSUME NEW a \in Seq(Cells), NEW t \in Seq(Cells), NEW c \in Seq(Cells), IsSuffix(a, t)
  PROVE  IsSuffix(a \o c, t \o c)
<1> DEFINE k == Len(a)
           m == Len(c)
           n == Len(t)
<1>1. /\ k \in Nat /\ m \in Nat /\ n \in Nat
      /\ a \o c \in Seq(Cells) /\ Len(a \o c) = k + m
      /\ \A i \in 1 .. k + m : (a \o c)[i] = IF i <= k THEN a[i] ELSE c[i - k]
      /\ t \o c \in Seq(Cells) /\ Len(t \o c) = n + m
      /\ \A i \in 1 .. n + m : (t \o c)[i] = IF i <= n THEN t[i] ELSE c[i - n]
  BY ONLY a \in Seq(Cells), c \in Seq(Cells), t \in Seq(Cells)
<1>2. k <= n /\ \A i \in 1 .. k : a[i] = t[n - k + i]
  BY SuffixIs
<1> HIDE DEF k, m, n
<1>3. ASSUME NEW i \in 1 .. k + m PROVE (a \o c)[i] = (t \o c)[(n + m) - (k + m) + i]
  <2>1. (n + m) - (k + m) + i \in 1 .. n + m /\ (n + m) - (k + m) + i = n - k + i
    BY ONLY <1>1, <1>2
  <2>2. CASE i <= k
    <3>1. n - k + i <= n /\ i \in 1 .. k
      BY ONLY <1>1, <1>2, <2>2
    <3>2. (t \o c)[n - k + i] = t[n - k + i]
      BY ONLY <1>1, <2>1, <3>1
    <3>3. (a \o c)[i] = t[n - k + i]
      BY ONLY <1>1, <1>2, <1>3, <2>2, <3>1
    <3> QED BY ONLY <2>1, <3>2, <3>3
  <2>3. CASE ~ (i <= k)
    <3>1. ~ (n - k + i <= n) /\ (n - k + i) - n = i - k
      BY ONLY <1>1, <1>2, <2>3
    <3>2. (t \o c)[n - k + i] = c[i - k]
      BY ONLY <1>1, <2>1, <3>1
    <3>3. (a \o c)[i] = c[i - k]
      BY ONLY <1>1, <1>3, <2>3
    <3> QED BY ONLY <2>1, <3>2, <3>3
  <2> QED BY <2>2, <2>3
<1>4. k + m <= n + m
  BY ONLY <1>1, <1>2
<1> QED BY ONLY <1>1, <1>3, <1>4, SuffixIs

\* The lines of a file that is there.
LEMMA LinesAre ==
  ASSUME NEW f \in Seq(Cells)
  PROVE  /\ Lines(f) \in Seq(Cells)
         /\ Len(Lines(f)) = IF Len(f) = 0 THEN 0 ELSE Len(f) - 1
         /\ \A i \in 1 .. Len(f) - 1 : Lines(f)[i] = f[i + 1]
<1>1. Lines(f) = SubSeq(f, 2, Len(f))
  <2>1. f # NULL
    BY LogOutputAssumption DEF Cells
  <2> QED BY ONLY <2>1 DEF Lines
<1>2. Len(f) \in Nat /\ 2 \in Int /\ Len(f) \in Int
  OBVIOUS
<1>3. \A i \in 2 .. Len(f) : f[i] \in Cells
  OBVIOUS
<1>4. /\ SubSeq(f, 2, Len(f)) \in Seq(Cells)
      /\ Len(SubSeq(f, 2, Len(f))) = IF 2 <= Len(f) THEN Len(f) - 2 + 1 ELSE 0
      /\ \A i \in 1 .. Len(f) - 2 + 1 : SubSeq(f, 2, Len(f))[i] = f[2 + i - 1]
  BY ONLY <1>2, <1>3, SubSeqProperties
<1>5. ASSUME NEW i \in 1 .. Len(f) - 1 PROVE SubSeq(f, 2, Len(f))[i] = f[i + 1]
  <2>1. i \in 1 .. Len(f) - 2 + 1 /\ 2 + i - 1 = i + 1
    BY ONLY <1>2
  <2> QED BY ONLY <1>4, <2>1
<1>6. (IF 2 <= Len(f) THEN Len(f) - 2 + 1 ELSE 0) = IF Len(f) = 0 THEN 0 ELSE Len(f) - 1
  BY ONLY <1>2
<1> QED BY ONLY <1>1, <1>4, <1>5, <1>6

LEMMA NoLines ==
  ASSUME NEW f, f \in {NULL, <<>>, <<HDR>>, <<BAD>>}
  PROVE  Lines(f) = <<>>
<1>1. CASE f = NULL
  BY <1>1 DEF Lines
<1>2. CASE f # NULL
  <2>1. Lines(f) = SubSeq(f, 2, Len(f)) /\ Len(f) \in {0, 1}
    BY <1>2 DEF Lines
  <2> QED BY ONLY <2>1, SubSeqEmpty
<1> QED BY <1>1, <1>2

Breaking == {"copy", "unlink", "read", "write"}

\* The write cursor of an open file is behind its last line.
AtEnd(f, e) == e = IF Len(f) = 0 THEN 1 ELSE Len(f)

OutInv ==
  ~ HasKind(faults, Breaking) =>
    /\ Lines(out) \in Seq(Cells) /\ Lines(file) \in Seq(Cells)
    /\ IsSuffix(Lines(out) \o Lines(file), written)
    /\ fhandle = "open" => AtEnd(file, end)

\* A line behind the last one.
LEMMA LinesWritten ==
  ASSUME NEW f \in Seq(Cells), NEW e, AtEnd(f, e), NEW cells \in Seq(Cells), cells # <<>>
  PROVE  /\ Lines(Overwrite(f, e, cells)) = Lines(f) \o cells
         /\ AtEnd(Overwrite(f, e, cells), e + Len(cells))
<1> DEFINE g == Overwrite(f, e, cells)
           k == Len(f)
           n == Len(cells)
           L == Lines(f)
<1>1. k \in Nat /\ n \in Nat /\ n > 0 /\ e = IF k = 0 THEN 1 ELSE k
  BY DEF AtEnd
<1>2. Overwritten(g, f, e, cells)
  BY <1>1, OverwriteCells
<1>3. /\ g \in Seq(Cells) /\ Len(g) = IF k > e + n THEN k ELSE e + n
      /\ \A i \in 1 .. e : i <= k => g[i] = f[i]
      /\ \A j \in 1 .. n : g[e + j] = cells[j]
  BY ONLY <1>2, cells # <<>> DEF Overwritten
<1>4. /\ L \in Seq(Cells) /\ Len(L) = e - 1
      /\ \A i \in 1 .. k - 1 : L[i] = f[i + 1]
  <2>1. /\ L \in Seq(Cells) /\ Len(L) = (IF k = 0 THEN 0 ELSE k - 1)
        /\ \A i \in 1 .. k - 1 : L[i] = f[i + 1]
    BY LinesAre
  <2>2. (IF k = 0 THEN 0 ELSE k - 1) = e - 1
    BY ONLY <1>1
  <2> QED BY ONLY <2>1, <2>2
<1> HIDE DEF g, k, n, L
<1>5. e \in Nat /\ e >= 1 /\ Len(g) = e + n /\ k <= e /\ (e > 1 => k = e)
  BY ONLY <1>1, <1>3
<1>6. /\ Lines(g) \in Seq(Cells) /\ Len(Lines(g)) = (e - 1) + n
      /\ \A i \in 1 .. Len(g) - 1 : Lines(g)[i] = g[i + 1]
  <2>1. /\ Lines(g) \in Seq(Cells)
        /\ Len(Lines(g)) = IF Len(g) = 0 THEN 0 ELSE Len(g) - 1
        /\ \A i \in 1 .. Len(g) - 1 : Lines(g)[i] = g[i + 1]
    BY ONLY <1>3, LinesAre
  <2>2. (IF Len(g) = 0 THEN 0 ELSE Len(g) - 1) = (e - 1) + n
    BY ONLY <1>1, <1>5
  <2> QED BY ONLY <2>1, <2>2
<1>7. /\ L \o cells \in Seq(Cells) /\ Len(L \o cells) = (e - 1) + n
      /\ \A i \in 1 .. (e - 1) + n : (L \o cells)[i] = IF i <= e - 1 THEN L[i] ELSE cells[i - (e - 1)]
  <2>1. /\ L \o cells \in Seq(Cells) /\ Len(L \o cells) = Len(L) + Len(cells)
        /\ \A i \in 1 .. Len(L) + Len(cells) :
             (L \o cells)[i] = IF i <= Len(L) THEN L[i] ELSE cells[i - Len(L)]
    BY ONLY <1>4, cells \in Seq(Cells), ConcatProperties
  <2> QED BY ONLY <1>4, <2>1 DEF n
<1>8. ASSUME NEW i \in 1 .. (e - 1) + n PROVE Lines(g)[i] = (L \o cells)[i]
  <2>1. i \in 1 .. Len(g) - 1
    BY ONLY <1>1, <1>5
  <2>2. Lines(g)[i] = g[i + 1]
    BY ONLY <1>6, <2>1
  <2>3. CASE i <= e - 1
    <3>1. i + 1 \in 1 .. e /\ i + 1 <= k /\ i \in 1 .. k - 1
      BY ONLY <1>1, <1>5, <2>3
    <3>2. (L \o cells)[i] = L[i]
      BY ONLY <1>7, <1>8, <2>3
    <3> QED BY ONLY <1>3, <1>4, <2>2, <3>1, <3>2
  <2>4. CASE ~ (i <= e - 1)
    <3>1. i - (e - 1) \in 1 .. n /\ e + (i - (e - 1)) = i + 1
      BY ONLY <1>1, <1>5, <2>4
    <3>2. g[e + (i - (e - 1))] = cells[i - (e - 1)]
      BY ONLY <1>3, <3>1
    <3>3. (L \o cells)[i] = cells[i - (e - 1)]
      BY ONLY <1>7, <1>8, <2>4
    <3>4. e + (i - (e - 1)) = i + 1
      BY ONLY <3>1
    <3> QED BY ONLY <2>2, <3>2, <3>3, <3>4, Zenon
  <2> QED BY <2>3, <2>4
<1>9. Lines(g) = L \o cells
  BY ONLY <1>6, <1>7, <1>8, SeqEqual
<1>10. AtEnd(g, e + n)
  BY ONLY <1>1, <1>5 DEF AtEnd
<1> QED BY ONLY <1>9, <1>10 DEF g, n, L

\* A rotation of which neither the copy nor the unlink fails nor a header that
\* is there is missed.
LEMMA OutProc ==
  ASSUME FileInv, OutInv, ProcFile, written' = written
  PROVE  OutInv'
<1> SUFFICES ASSUME ~ HasKind(faults', Breaking)
             PROVE  /\ Lines(out') \in Seq(Cells) /\ Lines(file') \in Seq(Cells)
                    /\ IsSuffix(Lines(out') \o Lines(file'), written)
                    /\ fhandle' = "open" => AtEnd(file', end')
  BY DEF OutInv, IsSuffix
<1>1. written \in Seq(Cells) /\ faults \in Seq(Kinds)
  BY DEF FileInv
<1>2. CASE /\ fhandle = "open"
           /\ \E m \in HIVIEW_FileMove : \E r \in InitHiviewFile(m.from) :
                /\ Failed(m.faults \o r.faults)
                /\ out' = m.to /\ file' = r.file /\ fhandle' = r.fhandle
                /\ end' = r.end /\ mark' = r.mark
  <2>0. PICK m \in HIVIEW_FileMove : \E r \in InitHiviewFile(m.from) :
               /\ Failed(m.faults \o r.faults)
               /\ out' = m.to /\ file' = r.file /\ fhandle' = r.fhandle /\ end' = r.end
    BY <1>2
  <2>1. PICK r \in InitHiviewFile(m.from) :
               /\ Failed(m.faults \o r.faults)
               /\ out' = m.to /\ file' = r.file /\ fhandle' = r.fhandle /\ end' = r.end
    BY <2>0
  <2>2. file \in Seq(Cells)
    BY <1>2 DEF FileInv
  <2>3. /\ m.faults \in Seq(Kinds) /\ m.from \in {NULL, file}
        /\ HasKind(m.faults, {"copy", "unlink"}) \/ (m.from = NULL /\ m.to = file)
    BY Moved
  <2>4. faults' = faults \o (m.faults \o r.faults)
    BY <2>1 DEF Failed
  <2> DEFINE o == Content(m.from)
  <2>5. o \in Seq(Cells)
    BY ONLY <2>2, <2>3 DEF Content
  <2>6. \/ /\ r.fhandle = "closed" /\ r.file = m.from /\ r.faults = <<"open">>
        \/ /\ r.fhandle = "open" /\ HasHeader(o) /\ r.file = o /\ r.faults = <<>>
        \/ /\ r.fhandle = "open"
           /\ \E q \in WriteFileHeader(o) :
                /\ r.file = q.file /\ r.end = q.end
                /\ r.faults = IF HasHeader(o) THEN <<"read">> \o q.faults ELSE q.faults
    BY Opened
  <2>7. r.faults \in Seq(Kinds)
    <3>1. <<"open">> \in Seq(Kinds) /\ <<"read">> \in Seq(Kinds) /\ <<>> \in Seq(Kinds)
      <4>1. "open" \in Kinds /\ "read" \in Kinds
        BY DEF Kinds
      <4> QED BY ONLY <4>1, OneFault, NoFault
    <3>2. ASSUME NEW q \in WriteFileHeader(o)
          PROVE  q.faults \in Seq(Kinds) /\ <<"read">> \o q.faults \in Seq(Kinds)
      BY ONLY <2>5, <3>1, <3>2, HeaderWritten, KindsKept
    <3> QED BY ONLY <2>6, <3>1, <3>2
  <2>8. ~ HasKind(faults, Breaking) /\ ~ HasKind(m.faults, Breaking)
    <3>1. /\ m.faults \o r.faults \in Seq(Kinds)
          /\ HasKind(m.faults \o r.faults, Breaking) <=>
               HasKind(m.faults, Breaking) \/ HasKind(r.faults, Breaking)
      BY ONLY <2>3, <2>7, KindsKept
    <3>2. HasKind(faults \o (m.faults \o r.faults), Breaking) <=>
            HasKind(faults, Breaking) \/ HasKind(m.faults \o r.faults, Breaking)
      BY ONLY <1>1, <3>1, KindsKept
    <3> QED BY ONLY <2>4, <3>1, <3>2, ~ HasKind(faults', Breaking)
  <2>9. m.from = NULL /\ m.to = file
    <3>1. HasKind(m.faults, {"copy", "unlink"}) => HasKind(m.faults, Breaking)
      BY DEF HasKind, Breaking
    <3> QED BY ONLY <2>3, <2>8, <3>1
  <2>10. o = <<>> /\ ~ HasHeader(o)
    BY ONLY <2>9 DEF Content, HasHeader
  <2>11. \/ r.fhandle = "closed" /\ r.file = NULL
         \/ r.fhandle = "open" /\ r.end = 1 /\ r.file \in {<<>>, <<HDR>>, <<BAD>>}
    <3>1. ASSUME NEW q \in WriteFileHeader(o)
          PROVE  q.end = 1 /\ q.file \in {<<>>, <<HDR>>, <<BAD>>}
      BY ONLY <2>5, <2>10, <3>1, HeaderWritten
    <3> QED BY ONLY <2>6, <2>9, <2>10, <3>1
  <2>12. Lines(file') = <<>> /\ (fhandle' = "open" => AtEnd(file', end'))
    <3>1. file' \in {NULL, <<>>, <<HDR>>, <<BAD>>}
      BY ONLY <2>1, <2>11
    <3>2. Lines(file') = <<>>
      BY ONLY <3>1, NoLines
    <3>3. fhandle' = "open" => end' = 1 /\ file' \in {<<>>, <<HDR>>, <<BAD>>}
      BY ONLY <2>1, <2>11
    <3>4. ASSUME NEW f \in {<<>>, <<HDR>>, <<BAD>>} PROVE 1 = IF Len(f) = 0 THEN 1 ELSE Len(f)
      OBVIOUS
    <3> QED BY ONLY <3>2, <3>3, <3>4 DEF AtEnd
  <2>13. /\ Lines(out) \in Seq(Cells) /\ Lines(file) \in Seq(Cells)
         /\ IsSuffix(Lines(out) \o Lines(file), written)
    BY <2>8 DEF OutInv
  <2>14. IsSuffix(Lines(file), written)
    BY ONLY <1>1, <2>13, SuffixTail
  <2>15. Lines(file) \o <<>> = Lines(file) /\ <<>> \in Seq(Cells)
    BY ONLY <2>13
  <2>16. out' = file
    BY ONLY <2>1, <2>9
  <2> QED BY ONLY <2>12, <2>13, <2>14, <2>15, <2>16
<1>3. CASE \/ fhandle = "open" /\ Failed(<<"close">>) /\ UNCHANGED <<out, file, end>>
           \/ UNCHANGED <<out, file, fhandle, end, faults>>
  <2>1. ~ HasKind(faults, Breaking)
    <3>1. CASE faults' = faults
      BY <3>1
    <3>2. CASE faults' = faults \o <<"close">>
      <4>1. "close" \in Kinds
        BY DEF Kinds
      <4> QED BY ONLY <1>1, <3>2, <4>1, OneFault, KindsKept, ~ HasKind(faults', Breaking)
    <3> QED BY <1>3, <3>1, <3>2 DEF Failed
  <2>2. /\ Lines(out) \in Seq(Cells) /\ Lines(file) \in Seq(Cells)
        /\ IsSuffix(Lines(out) \o Lines(file), written)
        /\ fhandle = "open" => AtEnd(file, end)
    BY <2>1 DEF OutInv
  <2>3. out' = out /\ file' = file /\ end' = end /\ (fhandle' = "open" => fhandle = "open")
    BY ONLY <1>3
  <2> QED BY ONLY <2>2, <2>3
<1> QED BY <1>2, <1>3 DEF ProcFile

LEMMA OutWrite ==
  ASSUME CacheInv, FileInv, OutInv, WriteToFile
  PROVE  OutInv'
<1> SUFFICES ASSUME ~ HasKind(faults', Breaking)
             PROVE  /\ Lines(out') \in Seq(Cells) /\ Lines(file') \in Seq(Cells)
                    /\ IsSuffix(Lines(out') \o Lines(file'), written')
                    /\ fhandle' = "open" => AtEnd(file', end')
  BY DEF OutInv, IsSuffix
<1>1. written \in Seq(Cells) /\ faults \in Seq(Kinds)
  BY DEF FileInv
<1>2. UNCHANGED <<fhandle, out>>
  BY DEF WriteToFile
<1>3. CASE /\ fhandle = "open"
           /\ file' = Overwrite(file, end, content) /\ end' = end + Len(content)
           /\ written' = written \o content
           /\ UNCHANGED faults
  <2>1. content \in Seq(Cells) /\ content # <<>>
    BY LineCells
  <2>2. /\ Lines(out) \in Seq(Cells) /\ Lines(file) \in Seq(Cells)
        /\ IsSuffix(Lines(out) \o Lines(file), written)
        /\ AtEnd(file, end)
    BY <1>3 DEF OutInv
  <2>3. file \in Seq(Cells)
    BY <1>3 DEF FileInv
  <2>4. Lines(file') = Lines(file) \o content /\ AtEnd(file', end')
    BY ONLY <1>3, <2>1, <2>2, <2>3, LinesWritten
  <2>5. /\ Lines(file) \o content \in Seq(Cells)
        /\ Lines(out) \o Lines(file) \in Seq(Cells)
        /\ Lines(out) \o (Lines(file) \o content) = (Lines(out) \o Lines(file)) \o content
    BY ONLY <2>1, <2>2, ConcatAssociative, ConcatProperties
  <2>6. IsSuffix((Lines(out) \o Lines(file)) \o content, written \o content)
    BY ONLY <1>1, <2>1, <2>2, <2>5, SuffixConcat
  <2>7. out' = out
    BY ONLY <1>2
  <2> QED BY ONLY <1>3, <2>2, <2>4, <2>5, <2>6, <2>7
<1>4. ASSUME Failed(<<"write">>) PROVE FALSE
  <2>1. "write" \in Kinds /\ "write" \in Breaking
    BY DEF Kinds, Breaking
  <2>2. faults' = faults \o <<"write">>
    BY <1>4 DEF Failed
  <2> QED BY ONLY <1>1, <2>1, <2>2, OneFault, KindsKept, ~ HasKind(faults', Breaking)
<1>5. CASE fhandle # "open" /\ UNCHANGED <<file, end, written, faults>>
  <2>1. /\ Lines(out) \in Seq(Cells) /\ Lines(file) \in Seq(Cells)
        /\ IsSuffix(Lines(out) \o Lines(file), written)
    BY <1>5 DEF OutInv
  <2> QED BY ONLY <1>2, <1>5, <2>1
<1> QED BY <1>3, <1>4, <1>5 DEF WriteToFile

LEMMA OutInit == Init => OutInv
<1> SUFFICES ASSUME Init PROVE OutInv
  OBVIOUS
<1>1. /\ file \in Seq(Cells) /\ written \in Seq(Cells) /\ Ends(file, end, mark, written)
      /\ file = <<HDR>> \o written /\ end = Len(file) /\ out = NULL
  BY FileInit DEF FileInv, Init
<1>2. /\ <<HDR>> \in Seq(Cells) /\ Len(<<HDR>>) = 1
  BY DEF Cells
<1>3. /\ Len(file) = 1 + Len(written) /\ Len(written) \in Nat
      /\ \A i \in 1 .. 1 + Len(written) :
           file[i] = IF i <= 1 THEN <<HDR>>[i] ELSE written[i - 1]
  BY ONLY <1>1, <1>2, ConcatProperties
<1>4. /\ Lines(file) \in Seq(Cells)
      /\ Len(Lines(file)) = IF Len(file) = 0 THEN 0 ELSE Len(file) - 1
      /\ \A i \in 1 .. Len(file) - 1 : Lines(file)[i] = file[i + 1]
  BY ONLY <1>1, LinesAre
<1>5. Lines(file) = written
  <2>1. Len(Lines(file)) = Len(written)
    BY ONLY <1>3, <1>4
  <2>2. ASSUME NEW i \in 1 .. Len(written) PROVE Lines(file)[i] = written[i]
    <3>1. i + 1 \in 1 .. 1 + Len(written) /\ ~ (i + 1 <= 1) /\ (i + 1) - 1 = i
          /\ i \in 1 .. Len(file) - 1
      BY ONLY <1>3, <2>2
    <3> QED BY ONLY <1>3, <1>4, <3>1
  <2> QED BY ONLY <1>1, <1>4, <2>1, <2>2, SeqEqual
<1>6. Lines(out) = <<>> /\ <<>> \in Seq(Cells) /\ <<>> \o written = written
  BY ONLY <1>1 DEF Lines
<1>7. IsSuffix(written, written)
  <2>1. Len(written) - Len(written) + 1 = 1 /\ SubSeq(written, 1, Len(written)) = written
    BY ONLY <1>1, <1>3, SubSeqFull
  <2> QED BY ONLY <1>3, <2>1 DEF IsSuffix
<1>8. AtEnd(file, end)
  BY ONLY <1>1, <1>3 DEF AtEnd
<1> QED BY ONLY <1>1, <1>5, <1>6, <1>7, <1>8 DEF OutInv

LEMMA OutStep == CacheInv /\ FileInv /\ OutInv /\ [Next]_vars => OutInv'
<1> SUFFICES ASSUME CacheInv, FileInv, OutInv, [Next]_vars PROVE OutInv'
  OBVIOUS
<1>1. CASE WriteToFile
  BY <1>1, OutWrite
<1>2. CASE Rotate
  <2>1. ProcFile /\ written' = written
    BY <1>2 DEF Rotate
  <2> QED BY <2>1, OutProc
<1>3. CASE UNCHANGED fileVars
  BY <1>3 DEF OutInv, fileVars, IsSuffix
<1>4. ASSUME NEW n \in 0 .. MaxValues, WriteToCache(n) PROVE UNCHANGED fileVars
  BY <1>4 DEF WriteToCache
<1>5. ASSUME NEW who \in {"service", "app"}, Flush(who) PROVE UNCHANGED fileVars
  BY <1>5 DEF Flush
<1>6. ReadTest \/ GetReadCursor \/ ReadCopy \/ ReadCount => UNCHANGED fileVars
  BY DEF ReadTest, GetReadCursor, ReadCopy, ReadCount
<1>7. WriteRest \/ Unlock \/ UNCHANGED vars => UNCHANGED fileVars
  BY DEF WriteRest, Unlock, vars
<1> QED BY <1>1, <1>2, <1>3, <1>4, <1>5, <1>6, <1>7 DEF Next, Flushing

\* The output file continues in the log file, for every size of the file, also
\* when the old file cannot be closed or the new one not be opened or given
\* its header.
THEOREM OutputContinuesInLog == Spec => []OutputContinues
<1>1. OutInv => OutputContinues
  BY FaultyIs DEF OutInv, OutputContinues, Breaking
<1>2. Init => CacheInv /\ FileInv /\ OutInv
  BY CacheInit, FileInit, OutInit
<1>3. CacheInv /\ FileInv /\ OutInv /\ [Next]_vars => (CacheInv /\ FileInv /\ OutInv)'
  BY CacheStep, FileStep, OutStep
<1> QED BY <1>1, <1>2, <1>3, PTL DEF Spec
=============================================================================
