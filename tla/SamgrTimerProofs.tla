--------------------------- MODULE SamgrTimerProofs ---------------------------
(***************************************************************************)
(* The timer service, for any timers, intervals, queue and width of clock  *)
(* and counters: the list holds each timer once while it has to fire; no   *)
(* timer fires ahead of its schedule and no tick leaves one unfired, over  *)
(* the wraps of the clock, unless the clock was set under it or turned in  *)
(* a way the code cannot see; and the two wrapping counters, one written   *)
(* by the tick thread and one by the service task, bound the ticks that    *)
(* wait.                                                                   *)
(*                                                                         *)
(* What the recursive functions of SamgrTimer compute is proved from a     *)
(* smallest counterexample (UpTo), which needs no induction theorem over   *)
(* operators.                                                              *)
(***************************************************************************)
EXTENDS SamgrTimer, FiniteSetTheorems, NaturalsInduction, SequenceTheorems, TLAPS

-----------------------------------------------------------------------------
(* Recursive functions *)

\* A set of numbers has a smallest member.
LEMMA Smallest ==
  ASSUME NEW S \in SUBSET Nat, S # {}
  PROVE  \E x \in S : \A y \in S : x <= y
<1> DEFINE less == OpToRel(<, Nat)
<1>1. \A x, y \in Nat : x < y => <<x, y>> \in less
  BY Zenon DEF OpToRel
<1>2. PICK x \in S : \A y \in S : ~ (<<y, x>> \in less)
  BY NatLessThanWellFounded, WFMin
<1> HIDE DEF less
<1>3. \A y \in S : x \in Nat /\ y \in Nat /\ ~ (y < x)
  BY <1>1, <1>2
<1>4. \A y \in S : x <= y
  BY <1>3
<1> QED BY <1>4

\* What holds at 0 and passes from each number to the next holds up to n.
LEMMA UpTo ==
  ASSUME NEW n \in Nat, NEW G, 0 \in G, \A k \in 1 .. n : k - 1 \in G => k \in G
  PROVE  \A k \in 0 .. n : k \in G
<1> DEFINE bad == {k \in 0 .. n : k \notin G}
<1> SUFFICES ASSUME bad # {} PROVE FALSE
  OBVIOUS
<1>1. PICK x \in bad : \A y \in bad : x <= y
  <2>1. bad \in SUBSET Nat
    OBVIOUS
  <2> HIDE DEF bad
  <2> QED BY <2>1, Smallest
<1>2. x \in 1 .. n /\ x - 1 \in 0 .. n
  BY ONLY x \in bad, 0 \in G, n \in Nat
<1>3. x - 1 \in bad
  BY <1>2
<1> QED BY ONLY <1>1, <1>2, <1>3

\* f is computed from base on by the steps G.
Computes(f, n, base, G) == f[0] = base /\ \A k \in 1 .. n : f[k] = G[k][f[k - 1]]

\* Such a function exists.
LEMMA Iterate ==
  ASSUME NEW X, NEW n \in Nat, NEW base \in X, NEW G \in [1 .. n -> [X -> X]]
  PROVE  \E f \in [0 .. n -> X] : Computes(f, n, base, G)
<1> DEFINE Upto(f, m) == /\ f \in [0 .. n -> X] /\ f[0] = base
                         /\ \A k \in 1 .. m : f[k] = G[k][f[k - 1]]
           good == {m \in 0 .. n : \E f : Upto(f, m)}
<1>1. 0 \in good
  <2>1. Upto([k \in 0 .. n |-> base], 0)
    OBVIOUS
  <2> HIDE DEF Upto
  <2>2. 0 \in 0 .. n
    OBVIOUS
  <2> QED BY ONLY <2>1, <2>2
<1>2. ASSUME NEW m \in 1 .. n, m - 1 \in good PROVE m \in good
  <2>1. PICK f : Upto(f, m - 1)
    BY <1>2
  <2> DEFINE g == [f EXCEPT ![m] = G[m][f[m - 1]]]
  <2>2. m - 1 \in 0 .. n /\ G[m][f[m - 1]] \in X
    BY <2>1
  <2>3. /\ g \in [0 .. n -> X] /\ g[m] = G[m][f[m - 1]]
        /\ \A k \in 0 .. n : k # m => g[k] = f[k]
    BY <2>1, <2>2
  <2> HIDE DEF g
  <2>4. ASSUME NEW k \in 1 .. m PROVE g[k] = G[k][g[k - 1]]
    <3>1. CASE k = m
      <4>1. m - 1 \in 0 .. n /\ m - 1 # m
        OBVIOUS
      <4> QED BY <2>3, <3>1, <4>1
    <3>2. CASE k # m
      <4>1. /\ k \in 0 .. n /\ k - 1 \in 0 .. n /\ k - 1 # m /\ k \in 1 .. m - 1
        BY <3>2
      <4> QED BY ONLY <2>1, <2>3, <3>2, <4>1
    <3> QED BY <3>1, <3>2
  <2>5. Upto(g, m)
    <3>1. 0 \in 0 .. n /\ 0 # m
      OBVIOUS
    <3> QED BY <2>1, <2>3, <2>4, <3>1
  <2> QED BY <2>5
<1> HIDE DEF good
<1>3. n \in good
  <2>1. \A m \in 0 .. n : m \in good
    BY ONLY <1>1, <1>2, UpTo, n \in Nat
  <2> QED BY <2>1
<1>4. PICK f : Upto(f, n)
  BY <1>3 DEF good
<1> QED BY <1>4 DEF Computes

-----------------------------------------------------------------------------
(* Lists *)

\* No two nodes of a list are for the same timer.
OnePerTimer(list) == \A i, j \in DOMAIN list : list[i].timer = list[j].timer => i = j

\* f holds what Keep computes step by step.
Keeps(f, list, S) ==
  /\ f[0] = << >> /\ Keep(list, S) = f[Len(list)]
  /\ \A k \in 1 .. Len(list) :
       f[k] = IF list[k] \in S THEN Append(f[k - 1], list[k]) ELSE f[k - 1]

LEMMA KeepSteps ==
  ASSUME NEW T, NEW list \in Seq(T), NEW S
  PROVE  \E f \in [0 .. Len(list) -> Seq(T)] : Keeps(f, list, S)
<1> DEFINE n == Len(list)
           IsKept(f) == f = [k \in 0 .. n |->
                               IF k = 0 THEN << >>
                               ELSE IF list[k] \in S THEN Append(f[k - 1], list[k]) ELSE f[k - 1]]
           G == [k \in 1 .. n |-> [s \in Seq(T) |->
                   IF list[k] \in S THEN Append(s, list[k]) ELSE s]]
           kept == CHOOSE f : IsKept(f)
<1>1. n \in Nat /\ \A k \in 1 .. n : list[k] \in T
  OBVIOUS
<1>2. G \in [1 .. n -> [Seq(T) -> Seq(T)]] /\ << >> \in Seq(T)
  BY <1>1
<1>3. PICK g \in [0 .. n -> Seq(T)] : g[0] = << >> /\ \A k \in 1 .. n : g[k] = G[k][g[k - 1]]
  <2> DEFINE X == Seq(T)
             e == << >>
  <2>1. G \in [1 .. n -> [X -> X]] /\ e \in X
    BY <1>2
  <2> HIDE DEF G, n, X, e
  <2>2. \E g \in [0 .. n -> X] : Computes(g, n, e, G)
    BY ONLY <1>1, <2>1, Iterate
  <2> QED BY <2>2 DEF X, e, Computes
<1>4. ASSUME NEW k \in 0 .. n
      PROVE  g[k] = IF k = 0 THEN << >>
                    ELSE IF list[k] \in S THEN Append(g[k - 1], list[k]) ELSE g[k - 1]
  <2>1. CASE k = 0
    BY <1>3, <2>1
  <2>2. CASE k # 0
    <3>1. k \in 1 .. n /\ k - 1 \in 0 .. n
      BY <2>2, <1>1
    <3> QED BY <1>3, <2>2, <3>1
  <2> QED BY <2>1, <2>2
<1>5. IsKept(g)
  <2> HIDE DEF G, n
  <2> QED BY <1>3, <1>4
<1>6. IsKept(kept) /\ Keep(list, S) = kept[n]
  <2>1. IsKept(kept)
    <3> HIDE DEF IsKept
    <3> QED BY <1>5
  <2>2. Keep(list, S) = kept[n]
    BY DEF Keep
  <2> QED BY <2>1, <2>2
<1>7. /\ kept[0] = << >>
      /\ \A k \in 1 .. n :
           kept[k] = IF list[k] \in S THEN Append(kept[k - 1], list[k]) ELSE kept[k - 1]
      /\ DOMAIN kept = 0 .. n
  <2> HIDE DEF G, n, kept
  <2>1. kept = [k \in 0 .. n |->
                  IF k = 0 THEN << >>
                  ELSE IF list[k] \in S THEN Append(kept[k - 1], list[k]) ELSE kept[k - 1]]
    BY Zenon, <1>6
  <2>2. DOMAIN kept = 0 .. n
    BY ONLY <2>1
  <2>3. \A k \in 0 .. n : kept[k] =
          IF k = 0 THEN << >>
          ELSE IF list[k] \in S THEN Append(kept[k - 1], list[k]) ELSE kept[k - 1]
    BY ONLY Zenon, <2>1
  <2>4. 0 \in 0 .. n /\ \A k \in 1 .. n : k \in 0 .. n /\ k # 0
    BY ONLY <1>1
  <2> QED BY ONLY <2>2, <2>3, <2>4
<1>8. \A k \in 0 .. n : kept[k] \in Seq(T)
  <2> HIDE DEF G, n, kept, IsKept
  <2> DEFINE good == {k \in 0 .. n : kept[k] \in Seq(T)}
  <2>1. 0 \in good
    <3>1. 0 \in 0 .. n /\ kept[0] \in Seq(T)
      BY ONLY <1>7, <1>2, <1>1
    <3> QED BY ONLY <3>1
  <2>2. ASSUME NEW k \in 1 .. n, k - 1 \in good PROVE k \in good
    <3>1. k \in 0 .. n /\ kept[k - 1] \in Seq(T) /\ list[k] \in T
      BY ONLY <1>1, <2>2
    <3>2. Append(kept[k - 1], list[k]) \in Seq(T)
      BY ONLY <3>1
    <3> QED BY ONLY <1>7, <2>2, <3>1, <3>2
  <2> HIDE DEF good
  <2>3. \A k \in 0 .. n : k \in good
    BY ONLY <2>1, <2>2, <1>1, UpTo
  <2> QED BY <2>3 DEF good
<1>9. kept \in [0 .. n -> Seq(T)]
  <2> HIDE DEF kept, G, IsKept
  <2>1. kept = [k \in 0 .. n |-> kept[k]]
    BY <1>6 DEF IsKept
  <2> QED BY <2>1, <1>8
<1>10. Keeps(kept, list, S)
  BY <1>6, <1>7 DEF Keeps
<1> QED BY <1>9, <1>10


\* Appending adds one element to those of a list.
LEMMA AppendNode ==
  ASSUME NEW T, NEW s \in Seq(T), NEW e \in T
  PROVE  /\ Append(s, e) \in Seq(T) /\ ToSet(Append(s, e)) = ToSet(s) \cup {e}
         /\ OnePerTimer(s) /\ (\A x \in ToSet(s) : x.timer # e.timer) => OnePerTimer(Append(s, e))
<1> DEFINE r == Append(s, e)
           n == Len(s) + 1
<1>1. /\ r \in Seq(T) /\ DOMAIN r = DOMAIN s \cup {n} /\ n \notin DOMAIN s
      /\ r[n] = e /\ \A i \in DOMAIN s : r[i] = s[i]
  OBVIOUS
<1> HIDE DEF r, n
<1>2. ToSet(r) = ToSet(s) \cup {e}
  BY ONLY <1>1 DEF ToSet
<1>3. OnePerTimer(s) /\ (\A x \in ToSet(s) : x.timer # e.timer) => OnePerTimer(r)
  BY ONLY <1>1 DEF ToSet, OnePerTimer
<1> QED BY <1>1, <1>2, <1>3 DEF r

\* Keep leaves the elements in S, and no second one for a timer.
LEMMA Kept ==
  ASSUME NEW T, NEW list \in Seq(T), NEW S
  PROVE  /\ Keep(list, S) \in Seq(T) /\ ToSet(Keep(list, S)) = ToSet(list) \cap S
         /\ OnePerTimer(list) => OnePerTimer(Keep(list, S))
<1> DEFINE n == Len(list)
           Before(k) == {list[i] : i \in 1 .. k}
<1>0. PICK f \in [0 .. n -> Seq(T)] : Keeps(f, list, S)
  BY KeepSteps
<1>1. /\ f[0] = << >> /\ Keep(list, S) = f[n] /\ f \in [0 .. n -> Seq(T)]
      /\ \A k \in 1 .. n : f[k] = IF list[k] \in S THEN Append(f[k - 1], list[k]) ELSE f[k - 1]
  BY <1>0 DEF Keeps
<1>2. /\ n \in Nat /\ DOMAIN list = 1 .. n /\ ToSet(list) = Before(n)
      /\ \A k \in 1 .. n : list[k] \in T
  BY DEF ToSet
<1> DEFINE Good(k) == /\ ToSet(f[k]) = Before(k) \cap S
                      /\ OnePerTimer(list) => OnePerTimer(f[k])
           good == {k \in 0 .. n : Good(k)}
<1> HIDE DEF n, Before
<1>3. 0 \in good
  <2>1. 0 \in 0 .. n /\ Before(0) = {} /\ ToSet(f[0]) = {} /\ OnePerTimer(f[0])
    BY ONLY <1>1, <1>2 DEF Before, ToSet, OnePerTimer
  <2> QED BY ONLY <2>1
<1>4. ASSUME NEW k \in 1 .. n, k - 1 \in good PROVE k \in good
  <2> DEFINE j == k - 1
  <2>1. /\ j \in 0 .. n /\ k \in 0 .. n /\ f[j] \in Seq(T) /\ list[k] \in T /\ Good(j)
    BY ONLY <1>1, <1>2, <1>4
  <2>2. Before(k) = Before(j) \cup {list[k]}
    <3>1. 1 .. k = (1 .. j) \cup {k}
      BY ONLY <1>2, k \in 1 .. n
    <3> HIDE DEF j
    <3> QED BY ONLY <3>1 DEF Before
  <2>3. f[k] = IF list[k] \in S THEN Append(f[j], list[k]) ELSE f[j]
    BY <1>1
  <2>4. OnePerTimer(list) => \A x \in Before(j) : x.timer # list[k].timer
    <3>1. \A i \in 1 .. j : i \in DOMAIN list /\ k \in DOMAIN list /\ i # k
      BY ONLY <1>2, k \in 1 .. n
    <3> HIDE DEF j
    <3> QED BY ONLY <3>1 DEF OnePerTimer, Before
  <2> HIDE DEF j
  <2>5. ToSet(f[k]) = Before(k) \cap S
    BY ONLY <2>1, <2>2, <2>3, AppendNode
  <2>6. OnePerTimer(list) => OnePerTimer(f[k])
    BY ONLY <2>1, <2>3, <2>4, AppendNode
  <2> QED BY ONLY <2>1, <2>5, <2>6
<1> HIDE DEF good, Good
<1>5. \A k \in 0 .. n : k \in good
  BY ONLY <1>2, <1>3, <1>4, UpTo
<1>6. n \in 0 .. n
  BY <1>2
<1> QED BY ONLY <1>1, <1>2, <1>5, <1>6 DEF good, Good

\* r is the list with the node put in at p.
PutIn(r, list, node, p) ==
  \A j \in 1 .. Len(list) + 1 :
    r[j] = IF j < p THEN list[j] ELSE IF j = p THEN node ELSE list[j - 1]

\* InsertNodeOrdered puts the node somewhere between the others.
LEMMA InsertedAt ==
  ASSUME NEW T, NEW list \in Seq(T), NEW node \in T
  PROVE  /\ InsertNodeOrdered(list, node) \in Seq(T)
         /\ Len(InsertNodeOrdered(list, node)) = Len(list) + 1
         /\ \E p \in 1 .. Len(list) + 1 : PutIn(InsertNodeOrdered(list, node), list, node, p)
<1> DEFINE later == {i \in DOMAIN list : list[i].expire > node.expire}
           n == Len(list)
           r == InsertNodeOrdered(list, node)
<1>0. n \in Nat /\ DOMAIN list = 1 .. n
  OBVIOUS
<1>1. CASE later = {}
  <2>1. r = <<node>> \o list
    BY <1>1 DEF InsertNodeOrdered
  <2>2. /\ r \in Seq(T) /\ Len(r) = n + 1
        /\ \A j \in 1 .. n + 1 : r[j] = IF j = 1 THEN node ELSE list[j - 1]
    BY <2>1
  <2>3. 1 \in 1 .. n + 1 /\ \A j \in 1 .. n + 1 : ~ (j < 1)
    BY <1>0
  <2> HIDE DEF r, n
  <2> QED BY ONLY <2>2, <2>3 DEF r, n, PutIn
<1>2. CASE later # {}
  <2> DEFINE p == CHOOSE i \in later : \A j \in later : i <= j
  <2>1. r = InsertAt(list, p, node)
    BY <1>2 DEF InsertNodeOrdered
  <2>2. p \in 1 .. n
    <3>1. later \in SUBSET Nat
      BY <1>0
    <3>2. \E i \in later : \A j \in later : i <= j
      <4> HIDE DEF later
      <4> QED BY <1>2, <3>1, Smallest
    <3> QED BY <3>2
  <2> HIDE DEF p, r
  <2> DEFINE a == SubSeq(list, 1, p - 1)
             b == SubSeq(list, p, n)
             c == a \o <<node>>
  <2>3. a \in Seq(T) /\ Len(a) = p - 1 /\ \A j \in 1 .. p - 1 : a[j] = list[j]
    BY ONLY <1>0, <2>2, list \in Seq(T), SubSeqProperties
  <2>4. /\ b \in Seq(T) /\ Len(b) = n - p + 1
        /\ \A j \in 1 .. n - p + 1 : b[j] = list[p + j - 1]
    BY ONLY <1>0, <2>2, list \in Seq(T), SubSeqProperties
  <2>5. r = c \o b
    BY <2>1 DEF InsertAt
  <2> HIDE DEF a, b
  <2>6. /\ c \in Seq(T) /\ Len(c) = p
        /\ \A j \in 1 .. p : c[j] = IF j = p THEN node ELSE a[j]
    BY ONLY <1>0, <2>2, <2>3, node \in T
  <2> HIDE DEF c
  <2>7. /\ r \in Seq(T) /\ Len(r) = n + 1
        /\ \A j \in 1 .. n + 1 : r[j] = IF j <= p THEN c[j] ELSE b[j - p]
    <3>1. /\ r \in Seq(T) /\ Len(r) = Len(c) + Len(b)
          /\ \A j \in 1 .. Len(c) + Len(b) : r[j] = IF j <= Len(c) THEN c[j] ELSE b[j - Len(c)]
      BY ONLY <2>4, <2>5, <2>6, ConcatProperties
    <3>2. Len(c) = p /\ Len(c) + Len(b) = n + 1
      BY ONLY <1>0, <2>2, <2>4, <2>6
    <3> QED BY ONLY <3>1, <3>2
  <2>8. ASSUME NEW j \in 1 .. n + 1
        PROVE  r[j] = IF j < p THEN list[j] ELSE IF j = p THEN node ELSE list[j - 1]
    <3>1. CASE j <= p
      <4>1. r[j] = IF j = p THEN node ELSE a[j]
        BY ONLY <1>0, <2>2, <2>6, <2>7, <3>1
      <4>2. j # p => a[j] = list[j]
        BY ONLY <1>0, <2>2, <2>3, <3>1, j \in 1 .. n + 1
      <4> QED BY ONLY <1>0, <2>2, <3>1, <4>1, <4>2
    <3>2. CASE j > p
      <4>1. j - p \in 1 .. n - p + 1 /\ p + (j - p) - 1 = j - 1
        BY ONLY <1>0, <2>2, <3>2, j \in 1 .. n + 1
      <4>2. b[j - p] = list[j - 1]
        BY ONLY <2>4, <4>1
      <4> QED BY ONLY <1>0, <2>2, <2>7, <3>2, <4>2
    <3> QED BY ONLY <1>0, <2>2, <3>1, <3>2
  <2>9. p \in 1 .. n + 1
    BY ONLY <1>0, <2>2
  <2>10. PutIn(r, list, node, p)
    BY <2>8 DEF PutIn
  <2> QED BY ONLY <2>7, <2>9, <2>10 DEF r, n
<1> QED BY <1>1, <1>2


LEMMA Inserted ==
  ASSUME NEW T, NEW list \in Seq(T), NEW node \in T
  PROVE  /\ InsertNodeOrdered(list, node) \in Seq(T)
         /\ ToSet(InsertNodeOrdered(list, node)) = ToSet(list) \cup {node}
         /\ OnePerTimer(list) /\ (\A x \in ToSet(list) : x.timer # node.timer)
              => OnePerTimer(InsertNodeOrdered(list, node))
<1> DEFINE r == InsertNodeOrdered(list, node)
           n == Len(list)
<1>1. n \in Nat /\ DOMAIN list = 1 .. n /\ r \in Seq(T) /\ Len(r) = n + 1
  BY InsertedAt
<1>0. PICK p \in 1 .. n + 1 : PutIn(r, list, node, p)
  BY InsertedAt
<1>2. /\ p \in 1 .. n + 1
      /\ \A j \in 1 .. n + 1 : r[j] = IF j < p THEN list[j] ELSE IF j = p THEN node ELSE list[j - 1]
  BY <1>0 DEF PutIn
<1> HIDE DEF r, n
<1>3. DOMAIN r = 1 .. n + 1
  BY <1>1
<1> DEFINE old(j) == IF j < p THEN j ELSE j - 1
<1>4. \A j \in DOMAIN r : j # p => old(j) \in DOMAIN list /\ r[j] = list[old(j)]
  BY ONLY <1>1, <1>2, <1>3
<1>5. \A i, j \in DOMAIN r : i # p /\ j # p /\ old(i) = old(j) => i = j
  BY ONLY <1>1, <1>3
<1>6. \A i \in DOMAIN list : \E j \in DOMAIN r : j # p /\ old(j) = i
  <2> TAKE i \in DOMAIN list
  <2>1. CASE i < p
    BY ONLY <1>1, <1>2, <1>3, <2>1, i \in DOMAIN list
  <2>2. CASE ~ (i < p)
    <3>1. i + 1 \in DOMAIN r /\ i + 1 # p /\ ~ (i + 1 < p) /\ (i + 1) - 1 = i
      BY ONLY <1>1, <1>2, <1>3, <2>2, i \in DOMAIN list
    <3> QED BY ONLY <3>1
  <2> QED BY <2>1, <2>2
<1>7. p \in DOMAIN r /\ r[p] = node
  BY ONLY <1>1, <1>2, <1>3
<1> HIDE DEF old
<1>8. ToSet(r) = ToSet(list) \cup {node}
  BY ONLY <1>4, <1>6, <1>7 DEF ToSet
<1>9. ASSUME OnePerTimer(list), \A x \in ToSet(list) : x.timer # node.timer
      PROVE  OnePerTimer(r)
  <2>1. \A j \in DOMAIN r : j # p => r[j].timer # node.timer
    BY ONLY <1>4, <1>9 DEF ToSet
  <2> SUFFICES ASSUME NEW i \in DOMAIN r, NEW j \in DOMAIN r, r[i].timer = r[j].timer
               PROVE  i = j
    BY DEF OnePerTimer
  <2>2. i = p \/ j = p => i = j
    BY <1>7, <2>1
  <2>3. i # p /\ j # p => old(i) = old(j)
    BY <1>4, <1>9 DEF OnePerTimer
  <2> QED BY <1>5, <2>2, <2>3
<1> QED BY <1>1, <1>8, <1>9 DEF r

\* f holds what InsertAll computes step by step.
Inserts(f, list, nodes) ==
  /\ f[0] = list /\ InsertAll(list, nodes) = f[Len(nodes)]
  /\ \A k \in 1 .. Len(nodes) :
       f[k] = InsertNodeOrdered(f[k - 1], nodes[Len(nodes) + 1 - k])

LEMMA InsertSteps ==
  ASSUME NEW T, NEW list \in Seq(T), NEW nodes \in Seq(T)
  PROVE  \E f \in [0 .. Len(nodes) -> Seq(T)] : Inserts(f, list, nodes)
<1> DEFINE n == Len(nodes)
           IsInserted(f) == f = [k \in 0 .. n |->
                                   IF k = 0 THEN list
                                   ELSE InsertNodeOrdered(f[k - 1], nodes[n + 1 - k])]
           G == [k \in 1 .. n |-> [s \in Seq(T) |-> InsertNodeOrdered(s, nodes[n + 1 - k])]]
           inserted == CHOOSE f : IsInserted(f)
<1>1. n \in Nat /\ \A k \in 1 .. n : nodes[n + 1 - k] \in T
  OBVIOUS
<1>2. \A s \in Seq(T), e \in T : InsertNodeOrdered(s, e) \in Seq(T)
  BY Inserted
<1>3. G \in [1 .. n -> [Seq(T) -> Seq(T)]]
  BY ONLY <1>1, <1>2
<1>4. PICK g \in [0 .. n -> Seq(T)] : g[0] = list /\ \A k \in 1 .. n : g[k] = G[k][g[k - 1]]
  <2> DEFINE X == Seq(T)
  <2>1. G \in [1 .. n -> [X -> X]] /\ list \in X
    BY <1>3
  <2> HIDE DEF G, n, X
  <2>2. \E g \in [0 .. n -> X] : Computes(g, n, list, G)
    BY ONLY <1>1, <2>1, Iterate
  <2> QED BY <2>2 DEF X, Computes
<1>5. ASSUME NEW k \in 0 .. n
      PROVE  g[k] = IF k = 0 THEN list ELSE InsertNodeOrdered(g[k - 1], nodes[n + 1 - k])
  <2>1. CASE k = 0
    BY <1>4, <2>1
  <2>2. CASE k # 0
    <3>1. k \in 1 .. n /\ k - 1 \in 0 .. n
      BY ONLY <2>2, <1>1, k \in 0 .. n
    <3>2. g[k - 1] \in Seq(T)
      BY ONLY <3>1, g \in [0 .. n -> Seq(T)]
    <3> QED BY <1>4, <2>2, <3>1, <3>2
  <2> QED BY <2>1, <2>2
<1>6. IsInserted(g)
  <2> HIDE DEF G, n
  <2> QED BY <1>4, <1>5
<1>7. IsInserted(inserted) /\ InsertAll(list, nodes) = inserted[n]
  <2>1. IsInserted(inserted)
    <3> HIDE DEF IsInserted
    <3> QED BY <1>6
  <2>2. InsertAll(list, nodes) = inserted[n]
    BY DEF InsertAll
  <2> QED BY <2>1, <2>2
<1>8. /\ inserted[0] = list /\ DOMAIN inserted = 0 .. n
      /\ \A k \in 1 .. n : inserted[k] = InsertNodeOrdered(inserted[k - 1], nodes[n + 1 - k])
  <2> HIDE DEF G, n, inserted
  <2>1. inserted = [k \in 0 .. n |->
                      IF k = 0 THEN list
                      ELSE InsertNodeOrdered(inserted[k - 1], nodes[n + 1 - k])]
    BY Zenon, <1>7
  <2>2. DOMAIN inserted = 0 .. n
    BY ONLY <2>1
  <2>3. \A k \in 0 .. n : inserted[k] =
          IF k = 0 THEN list ELSE InsertNodeOrdered(inserted[k - 1], nodes[n + 1 - k])
    BY ONLY Zenon, <2>1
  <2>4. 0 \in 0 .. n /\ \A k \in 1 .. n : k \in 0 .. n /\ k # 0
    BY ONLY <1>1
  <2> QED BY ONLY <2>2, <2>3, <2>4
<1>9. \A k \in 0 .. n : inserted[k] \in Seq(T)
  <2> HIDE DEF G, n, inserted, IsInserted
  <2> DEFINE good == {k \in 0 .. n : inserted[k] \in Seq(T)}
  <2>1. 0 \in good
    <3>1. 0 \in 0 .. n /\ inserted[0] \in Seq(T)
      BY ONLY <1>8, <1>1, list \in Seq(T)
    <3> QED BY ONLY <3>1
  <2>2. ASSUME NEW k \in 1 .. n, k - 1 \in good PROVE k \in good
    <3>1. k \in 0 .. n /\ inserted[k - 1] \in Seq(T) /\ nodes[n + 1 - k] \in T
      BY ONLY <1>1, <2>2
    <3> QED BY ONLY <1>2, <1>8, <2>2, <3>1
  <2> HIDE DEF good
  <2>3. \A k \in 0 .. n : k \in good
    BY ONLY <2>1, <2>2, <1>1, UpTo
  <2> QED BY <2>3 DEF good
<1>10. inserted \in [0 .. n -> Seq(T)]
  <2> HIDE DEF inserted, G, IsInserted
  <2>1. inserted = [k \in 0 .. n |-> inserted[k]]
    BY <1>7 DEF IsInserted
  <2> QED BY <2>1, <1>9
<1>11. Inserts(inserted, list, nodes)
  BY <1>7, <1>8 DEF Inserts
<1> QED BY <1>10, <1>11

\* InsertAll adds just the nodes, and no second one for a timer.
LEMMA AllInserted ==
  ASSUME NEW T, NEW list \in Seq(T), NEW nodes \in Seq(T),
         OnePerTimer(list), OnePerTimer(nodes),
         \A x \in ToSet(list), y \in ToSet(nodes) : x.timer # y.timer
  PROVE  /\ InsertAll(list, nodes) \in Seq(T)
         /\ ToSet(InsertAll(list, nodes)) = ToSet(list) \cup ToSet(nodes)
         /\ OnePerTimer(InsertAll(list, nodes))
<1> DEFINE n == Len(nodes)
           Ending(k) == {nodes[i] : i \in n + 1 - k .. n}
<1>0. PICK f \in [0 .. n -> Seq(T)] : Inserts(f, list, nodes)
  BY InsertSteps
<1>1. /\ f[0] = list /\ InsertAll(list, nodes) = f[n] /\ f \in [0 .. n -> Seq(T)]
      /\ \A k \in 1 .. n : f[k] = InsertNodeOrdered(f[k - 1], nodes[n + 1 - k])
  BY <1>0 DEF Inserts
<1>2. /\ n \in Nat /\ DOMAIN nodes = 1 .. n
      /\ \A k \in 1 .. n : nodes[n + 1 - k] \in T
  OBVIOUS
<1>3. Ending(n) = ToSet(nodes)
  BY DEF ToSet
<1> DEFINE Good(k) == ToSet(f[k]) = ToSet(list) \cup Ending(k) /\ OnePerTimer(f[k])
           good == {k \in 0 .. n : Good(k)}
<1> HIDE DEF n, Ending
<1>4. 0 \in good
  <2>1. 0 \in 0 .. n /\ Ending(0) = {}
    BY ONLY <1>2 DEF Ending
  <2> QED BY ONLY <1>1, <2>1, OnePerTimer(list)
<1>5. ASSUME NEW k \in 1 .. n, k - 1 \in good PROVE k \in good
  <2> DEFINE j == k - 1
             m == n + 1 - k
             e == nodes[m]
  <2>1. /\ j \in 0 .. n /\ k \in 0 .. n /\ f[j] \in Seq(T) /\ e \in T /\ Good(j)
        /\ m \in DOMAIN nodes
    BY ONLY <1>1, <1>2, <1>5
  <2>2. n + 1 - k .. n = (n + 1 - j .. n) \cup {m} /\ m \notin n + 1 - j .. n
        /\ n + 1 - j .. n \subseteq DOMAIN nodes
    BY ONLY <1>2, k \in 1 .. n
  <2>3. f[k] = InsertNodeOrdered(f[j], e)
    BY <1>1
  <2> DEFINE later == n + 1 - j .. n
  <2> HIDE DEF j, m
  <2>4. Ending(k) = Ending(j) \cup {e}
    BY ONLY <2>2 DEF Ending
  <2>5. \A x \in Ending(j) : x.timer # e.timer
    <3>1. Ending(j) = {nodes[i] : i \in later}
      BY DEF Ending
    <3>2. \A i \in later : i \in DOMAIN nodes /\ i # m
      BY ONLY <2>2
    <3> HIDE DEF later
    <3> QED BY ONLY <2>1, <3>1, <3>2, OnePerTimer(nodes) DEF OnePerTimer
  <2>6. \A x \in ToSet(list) : x.timer # e.timer
    BY <2>1 DEF ToSet
  <2> HIDE DEF e
  <2>7. ToSet(f[k]) = ToSet(list) \cup Ending(k)
    <3>1. ToSet(f[k]) = ToSet(f[j]) \cup {e}
      <4>1. f[j] \in Seq(T) /\ e \in T
        BY ONLY <2>1
      <4> QED BY ONLY <4>1, <2>3, Inserted
    <3>2. ToSet(f[j]) = ToSet(list) \cup Ending(j)
      BY <2>1
    <3> QED BY ONLY <2>4, <3>1, <3>2
  <2>8. OnePerTimer(f[k])
    BY ONLY <2>1, <2>3, <2>5, <2>6, Inserted
  <2> QED BY ONLY <2>1, <2>7, <2>8
<1> HIDE DEF good, Good
<1>6. \A k \in 0 .. n : k \in good
  BY ONLY <1>2, <1>4, <1>5, UpTo
<1>7. n \in 0 .. n
  BY <1>2
<1> QED BY ONLY <1>1, <1>3, <1>6, <1>7 DEF good, Good


\* Without drops the node of timer t.
LEMMA WithoutNode ==
  ASSUME NEW T, NEW list \in Seq(T), NEW t, OnePerTimer(list)
  PROVE  /\ Without(list, t) \in Seq(T) /\ OnePerTimer(Without(list, t))
         /\ ToSet(Without(list, t)) = {x \in ToSet(list) : x.timer # t}
<1> DEFINE of == {i \in DOMAIN list : list[i].timer = t}
           n == Len(list)
           r == Without(list, t)
<1>0. n \in Nat /\ DOMAIN list = 1 .. n
  OBVIOUS
<1>1. CASE of = {}
  <2>1. r = list
    BY <1>1 DEF Without
  <2>2. \A x \in ToSet(list) : x.timer # t
    BY <1>1 DEF ToSet
  <2> HIDE DEF r
  <2> QED BY <2>1, <2>2 DEF r
<1>2. CASE of # {}
  <2> DEFINE p == CHOOSE i \in of : \A j \in of : i <= j
  <2>1. r = RemoveAt(list, p)
    BY <1>2 DEF Without
  <2>2. p \in 1 .. n /\ list[p].timer = t
    <3>1. of \in SUBSET Nat
      BY <1>0
    <3>2. \E i \in of : \A j \in of : i <= j
      <4> HIDE DEF of
      <4> QED BY <1>2, <3>1, Smallest
    <3> QED BY <3>2
  <2> HIDE DEF p, r
  <2> DEFINE a == SubSeq(list, 1, p - 1)
             b == SubSeq(list, p + 1, n)
  <2>3. a \in Seq(T) /\ Len(a) = p - 1 /\ \A j \in 1 .. p - 1 : a[j] = list[j]
    BY ONLY <1>0, <2>2, list \in Seq(T), SubSeqProperties
  <2>4. /\ b \in Seq(T) /\ Len(b) = n - p
        /\ \A j \in 1 .. n - p : b[j] = list[p + j]
    <3> DEFINE q == p + 1
    <3>1. /\ q \in Int /\ n \in Int /\ n - q + 1 = n - p
          /\ (IF q <= n THEN n - q + 1 ELSE 0) = n - p
          /\ \A j \in 1 .. n - p : q + j - 1 = p + j
      <4>1. p \in Int /\ n \in Int /\ p <= n
        BY ONLY <1>0, <2>2
      <4> HIDE DEF n
      <4>2. q \in Int /\ n - q + 1 = n - p /\ (q <= n \/ n - p = 0)
        BY ONLY <4>1
      <4>3. \A j \in 1 .. n - p : q + j - 1 = p + j
        BY ONLY <4>1
      <4> QED BY ONLY <4>1, <4>2, <4>3
    <3>2. \A i \in q .. n : list[i] \in T
      BY ONLY <1>0, <2>2, list \in Seq(T)
    <3> HIDE DEF q
    <3>3. /\ SubSeq(list, q, n) \in Seq(T)
          /\ Len(SubSeq(list, q, n)) = IF q <= n THEN n - q + 1 ELSE 0
          /\ \A j \in 1 .. n - q + 1 : SubSeq(list, q, n)[j] = list[q + j - 1]
      BY ONLY <3>1, <3>2, SubSeqProperties
    <3>4. b = SubSeq(list, q, n)
      BY DEF q
    <3> QED BY ONLY <3>1, <3>3, <3>4
  <2>5. r = a \o b
    BY <2>1 DEF RemoveAt
  <2> HIDE DEF a, b
  <2>6. /\ r \in Seq(T) /\ Len(r) = n - 1
        /\ \A j \in 1 .. n - 1 : r[j] = IF j < p THEN a[j] ELSE b[j - p + 1]
    <3>1. /\ r \in Seq(T) /\ Len(r) = Len(a) + Len(b)
          /\ \A j \in 1 .. Len(a) + Len(b) : r[j] = IF j <= Len(a) THEN a[j] ELSE b[j - Len(a)]
      BY ONLY <2>3, <2>4, <2>5, ConcatProperties
    <3>2. /\ Len(a) + Len(b) = n - 1
          /\ \A j \in 1 .. n - 1 : (j <= Len(a) <=> j < p) /\ j - Len(a) = j - p + 1
      BY ONLY <1>0, <2>2, <2>3, <2>4
    <3> QED BY ONLY <3>1, <3>2
  <2>7. ASSUME NEW j \in 1 .. n - 1
        PROVE  r[j] = IF j < p THEN list[j] ELSE list[j + 1]
    <3>1. CASE j < p
      BY ONLY <1>0, <2>2, <2>3, <2>6, <3>1, j \in 1 .. n - 1
    <3>2. CASE ~ (j < p)
      <4>1. j - p + 1 \in 1 .. n - p /\ p + (j - p + 1) = j + 1
        BY ONLY <1>0, <2>2, <3>2, j \in 1 .. n - 1
      <4> QED BY ONLY <2>4, <2>6, <3>2, <4>1, j \in 1 .. n - 1
    <3> QED BY <3>1, <3>2
  <2>8. DOMAIN r = 1 .. n - 1
    BY ONLY <1>0, <2>6
  <2> DEFINE old(j) == IF j < p THEN j ELSE j + 1
  <2>9. \A j \in DOMAIN r : old(j) \in DOMAIN list /\ old(j) # p /\ r[j] = list[old(j)]
    BY ONLY <1>0, <2>2, <2>7, <2>8
  <2>10. \A i, j \in DOMAIN r : old(i) = old(j) => i = j
    BY ONLY <1>0, <2>2, <2>8
  <2>11. \A i \in DOMAIN list : i # p => \E j \in DOMAIN r : old(j) = i
    <3> TAKE i \in DOMAIN list
    <3> HAVE i # p
    <3>1. CASE i < p
      BY ONLY <1>0, <2>2, <2>8, <3>1, i \in DOMAIN list
    <3>2. CASE i > p
      <4>1. i - 1 \in DOMAIN r /\ ~ (i - 1 < p) /\ (i - 1) + 1 = i
        BY ONLY <1>0, <2>2, <2>8, <3>2, i \in DOMAIN list
      <4> QED BY ONLY <4>1
    <3> QED BY ONLY <1>0, <2>2, <3>1, <3>2, i \in DOMAIN list, i # p
  <2> HIDE DEF old
  <2>12. \A i \in DOMAIN list : list[i].timer = t <=> i = p
    BY ONLY <1>0, <2>2, OnePerTimer(list) DEF OnePerTimer
  <2>13. ToSet(r) = {x \in ToSet(list) : x.timer # t}
    BY ONLY <2>9, <2>11, <2>12 DEF ToSet
  <2>14. OnePerTimer(r)
    BY ONLY <2>9, <2>10, OnePerTimer(list) DEF OnePerTimer
  <2> QED BY ONLY <2>6, <2>13, <2>14 DEF r
<1> QED BY <1>1, <1>2


-----------------------------------------------------------------------------
(* Ticks *)

Messages == {Tick, Other} \cup {Update(t, i, r) : t \in Timers, i \in Intervals, r \in Repeats}

\* The ticks in a queue.
TicksIn(q) == {i \in DOMAIN q : q[i].type = "tick"}
Ticks(q) == Cardinality(TicksIn(q))

\* A tick that was put, or refused, and is not counted yet.
Uncounted == IF tickPc = "count" THEN 1 ELSE 0

\* e is what tickCntWr, once it counts every tick put, is ahead of tickCntRd,
\* over the wrap of either.
Ahead(e) == \E turn \in {-1, 0, 1} :
              tickCntWr + Uncounted - tickCntRd = e + turn * (CounterMax + 1)

(***************************************************************************)
(* The counters are never more than three apart, less when a tick is about *)
(* to be sent, and no more ticks wait than that: a refused tick counts     *)
(* without waiting.                                                        *)
(***************************************************************************)
TickInv ==
  /\ queue \in Seq(Messages)
  /\ tickPc \in {"sleep", "send", "count"}
  /\ tickCntWr \in 0 .. CounterMax /\ tickCntRd \in 0 .. CounterMax
  /\ \E e \in 0 .. 3 : /\ Ahead(e) /\ Ticks(queue) <= e
                       /\ tickPc = "send" => e <= 2

-----------------------------------------------------------------------------
(* Queues *)

LEMMA TicksAppend ==
  ASSUME NEW q \in Seq(Messages), NEW m \in Messages
  PROVE  /\ Append(q, m) \in Seq(Messages) /\ Ticks(q) \in Nat
         /\ Ticks(Append(q, m)) = IF m.type = "tick" THEN Ticks(q) + 1 ELSE Ticks(q)
<1> DEFINE r == Append(q, m)
           n == Len(q) + 1
<1>1. /\ r \in Seq(Messages) /\ DOMAIN r = DOMAIN q \cup {n} /\ n \notin DOMAIN q
      /\ r[n] = m /\ \A i \in DOMAIN q : r[i] = q[i]
  OBVIOUS
<1>2. IsFiniteSet(TicksIn(q))
  <2>1. IsFiniteSet(1 .. Len(q)) /\ DOMAIN q = 1 .. Len(q)
    BY FS_Interval
  <2> QED BY <2>1, FS_Subset DEF TicksIn
<1> HIDE DEF r, n
<1>3. TicksIn(r) = IF m.type = "tick" THEN TicksIn(q) \cup {n} ELSE TicksIn(q)
  BY ONLY <1>1 DEF TicksIn
<1>4. n \notin TicksIn(q)
  BY ONLY <1>1 DEF TicksIn
<1>5. Ticks(r) = IF m.type = "tick" THEN Ticks(q) + 1 ELSE Ticks(q)
  BY ONLY <1>2, <1>3, <1>4, FS_AddElement DEF Ticks
<1>6. Ticks(q) \in Nat
  BY ONLY <1>2, FS_CardinalityType DEF Ticks
<1> QED BY <1>1, <1>5, <1>6 DEF r

LEMMA TicksTail ==
  ASSUME NEW q \in Seq(Messages), q # << >>
  PROVE  /\ Tail(q) \in Seq(Messages) /\ Ticks(q) \in Nat
         /\ Ticks(Tail(q)) = IF Head(q).type = "tick" THEN Ticks(q) - 1 ELSE Ticks(q)
         /\ Head(q).type = "tick" => Ticks(q) > 0
<1> DEFINE r == Tail(q)
           A == TicksIn(q) \ {1}
           B == TicksIn(r)
           f == [i \in B |-> i + 1]
<1>1. /\ r \in Seq(Messages) /\ Len(q) \in Nat /\ DOMAIN q = 1 .. Len(q)
      /\ DOMAIN r = 1 .. Len(q) - 1 /\ Head(q) = q[1] /\ 1 \in DOMAIN q
      /\ \A i \in DOMAIN r : r[i] = q[i + 1]
  OBVIOUS
<1>2. IsFiniteSet(TicksIn(q)) /\ IsFiniteSet(B)
  <2>1. IsFiniteSet(1 .. Len(q)) /\ IsFiniteSet(1 .. Len(q) - 1)
    BY <1>1, FS_Interval
  <2> QED BY <1>1, <2>1, FS_Subset DEF TicksIn
<1> HIDE DEF r
<1>3. f \in Bijection(B, A)
  <2>1. /\ B = {i \in 1 .. Len(q) - 1 : q[i + 1].type = "tick"}
        /\ A = {i \in 1 .. Len(q) : i # 1 /\ q[i].type = "tick"}
    BY ONLY <1>1 DEF TicksIn, A, B
  <2> HIDE DEF A, B
  <2>2. f \in [B -> A] /\ \A i \in B : f[i] = i + 1
    BY ONLY <1>1, <2>1 DEF f
  <2>3. \A i, j \in B : f[i] = f[j] => i = j
    BY ONLY <1>1, <2>1, <2>2
  <2>4. ASSUME NEW j \in A PROVE \E i \in B : f[i] = j
    <3>1. j - 1 \in B /\ (j - 1) + 1 = j
      BY ONLY <1>1, <2>1, <2>4
    <3> QED BY ONLY <2>2, <3>1
  <2> HIDE DEF f
  <2> QED BY ONLY <2>2, <2>3, <2>4 DEF Bijection, Injection, Surjection, IsInjective
<1> HIDE DEF f
<1>4. Cardinality(A) = Cardinality(B)
  BY ONLY <1>2, <1>3, FS_Bijection DEF ExistsBijection
<1>5. Cardinality(A) = IF 1 \in TicksIn(q) THEN Cardinality(TicksIn(q)) - 1
                       ELSE Cardinality(TicksIn(q))
  BY ONLY <1>2, FS_RemoveElement
<1>6. 1 \in TicksIn(q) <=> Head(q).type = "tick"
  BY ONLY <1>1 DEF TicksIn
<1>7. Ticks(q) \in Nat /\ Cardinality(A) \in Nat
  BY ONLY <1>2, FS_CardinalityType, FS_RemoveElement DEF Ticks
<1> QED BY ONLY <1>1, <1>4, <1>5, <1>6, <1>7 DEF Ticks, r

\* A put appends the message or, refused, nothing.
LEMMA PutTicks ==
  ASSUME queue \in Seq(Messages), NEW m \in Messages, Put(m)
  PROVE  /\ queue' \in Seq(Messages) /\ Ticks(queue) \in Nat /\ Ticks(queue') \in Nat
         /\ Ticks(queue') <= IF m.type = "tick" THEN Ticks(queue) + 1 ELSE Ticks(queue)
<1>1. Ticks(queue) \in Nat
  BY TicksAppend
<1> QED BY <1>1, TicksAppend DEF Put

-----------------------------------------------------------------------------
(* Counters *)

LEMMA NextCount ==
  ASSUME NEW n \in 0 .. CounterMax
  PROVE  (n + 1) % (CounterMax + 1) = IF n = CounterMax THEN 0 ELSE n + 1
<1>1. CounterMax \in Nat
  BY TimerAssumption
<1>2. CASE n = CounterMax
  BY <1>1, <1>2
<1>3. CASE n # CounterMax
  BY <1>1, <1>3
<1> QED BY <1>2, <1>3

LEMMA InitTicks == Init => TickInv
<1> SUFFICES ASSUME Init PROVE TickInv
  OBVIOUS
<1>1. Ticks(queue) = 0
  <2>1. TicksIn(queue) = {}
    BY DEF Init, TicksIn
  <2> QED BY <2>1, FS_EmptySet DEF Ticks
<1>2. Ahead(0)
  BY TimerAssumption DEF Init, Ahead, Uncounted
<1>3. queue \in Seq(Messages) /\ tickCntWr \in 0 .. CounterMax /\ tickCntRd \in 0 .. CounterMax
  BY TimerAssumption DEF Init
<1> QED BY <1>1, <1>2, <1>3 DEF TickInv, Init

\* A step that leaves the counters alone and adds no tick.
LEMMA NoTick ==
  ASSUME TickInv, UNCHANGED <<tickCntWr, tickCntRd, tickPc>>, queue' \in Seq(Messages),
         Ticks(queue) \in Nat, Ticks(queue') \in Nat, Ticks(queue') <= Ticks(queue)
  PROVE  TickInv'
BY DEF TickInv, Ahead, Uncounted

LEMMA TestKeeps == TickInv /\ TickTest => TickInv'
<1> SUFFICES ASSUME TickInv, TickTest PROVE TickInv'
  OBVIOUS
<1>1. /\ tickPc = "sleep" /\ TickDiff(tickCntWr, tickCntRd) < 2 /\ tickPc' = "send"
      /\ UNCHANGED <<tickCntWr, tickCntRd, queue>>
  BY DEF TickTest, taskVars
<1>2. PICK e \in 0 .. 3 : Ahead(e) /\ Ticks(queue) <= e
  BY DEF TickInv
<1>3. PICK turn \in {-1, 0, 1} : tickCntWr - tickCntRd = e + turn * (CounterMax + 1)
  <2>1. Uncounted = 0
    BY <1>1 DEF Uncounted
  <2> QED BY <1>2, <2>1 DEF Ahead, TickInv
<1>4. e <= 2
  <2>1. /\ tickCntWr \in 0 .. CounterMax /\ tickCntRd \in 0 .. CounterMax
        /\ CounterMax \in Nat /\ CounterMax > 2
    BY TimerAssumption DEF TickInv
  <2>2. \/ turn = 0 /\ tickCntWr - tickCntRd = e
        \/ turn = -1 /\ tickCntWr - tickCntRd = e - (CounterMax + 1)
        \/ turn = 1 /\ tickCntWr - tickCntRd = e + (CounterMax + 1)
    BY ONLY <1>3, <2>1
  <2> QED BY ONLY <1>1, <2>1, <2>2 DEF TickDiff
<1>5. Ahead(e)'
  BY <1>1, <1>2 DEF Ahead, Uncounted
<1> QED BY <1>1, <1>2, <1>4, <1>5 DEF TickInv

LEMMA SendKeeps == TickInv /\ TickSend => TickInv'
<1> SUFFICES ASSUME TickInv, TickSend PROVE TickInv'
  OBVIOUS
<1>1. /\ tickPc = "send" /\ tickPc' = "count" /\ Put(Tick)
      /\ UNCHANGED <<tickCntWr, tickCntRd>>
  BY DEF TickSend, taskVars
<1>2. PICK e \in 0 .. 2 : Ahead(e) /\ Ticks(queue) <= e
  BY <1>1 DEF TickInv
<1>3. /\ queue' \in Seq(Messages) /\ Ticks(queue) \in Nat /\ Ticks(queue') \in Nat
      /\ Ticks(queue') <= Ticks(queue) + 1
  BY <1>1, PutTicks DEF TickInv, Messages, Tick
<1>4. Ahead(e + 1)'
  <2>1. Uncounted = 0 /\ Uncounted' = 1
    BY <1>1 DEF Uncounted
  <2>2. PICK turn \in {-1, 0, 1} : tickCntWr - tickCntRd = e + turn * (CounterMax + 1)
    BY <1>2, <2>1 DEF Ahead, TickInv
  <2>3. tickCntWr + 1 - tickCntRd = (e + 1) + turn * (CounterMax + 1)
    BY <2>2, TimerAssumption DEF TickInv
  <2> QED BY <1>1, <2>1, <2>3 DEF Ahead
<1>5. e + 1 \in 0 .. 3 /\ Ticks(queue') <= e + 1
  BY <1>2, <1>3
<1> QED BY <1>1, <1>3, <1>4, <1>5 DEF TickInv, Ticks

LEMMA CountKeeps == TickInv /\ TickCount => TickInv'
<1> SUFFICES ASSUME TickInv, TickCount PROVE TickInv'
  OBVIOUS
<1>1. /\ tickPc = "count" /\ tickPc' = "sleep" /\ UNCHANGED <<queue, tickCntRd>>
      /\ tickCntWr' = (tickCntWr + 1) % (CounterMax + 1)
  BY DEF TickCount, taskVars
<1>2. PICK e \in 0 .. 3 : Ahead(e) /\ Ticks(queue) <= e
  BY DEF TickInv
<1>3. Uncounted = 1 /\ Uncounted' = 0
  BY <1>1 DEF Uncounted
<1>4. /\ tickCntWr \in 0 .. CounterMax /\ tickCntRd \in 0 .. CounterMax
      /\ CounterMax \in Nat /\ CounterMax > 2
      /\ tickCntWr' = IF tickCntWr = CounterMax THEN 0 ELSE tickCntWr + 1
  BY <1>1, NextCount, TimerAssumption DEF TickInv
<1>5. \/ tickCntWr + 1 - tickCntRd = e
      \/ tickCntWr + 1 - tickCntRd = e - (CounterMax + 1)
      \/ tickCntWr + 1 - tickCntRd = e + (CounterMax + 1)
  BY <1>2, <1>3, <1>4 DEF Ahead
<1>6. \/ tickCntWr' - tickCntRd = e
      \/ tickCntWr' - tickCntRd = e - (CounterMax + 1)
  BY ONLY <1>4, <1>5, e \in 0 .. 3
<1>7. \E turn \in {-1, 0, 1} : tickCntWr' + 0 - tickCntRd = e + turn * (CounterMax + 1)
  BY ONLY <1>4, <1>6, e \in 0 .. 3
<1>8. Ahead(e)'
  BY <1>1, <1>3, <1>7 DEF Ahead
<1>9. tickCntWr' \in 0 .. CounterMax
  BY ONLY <1>4
<1> QED BY <1>1, <1>2, <1>8, <1>9 DEF TickInv

\* The task handles a tick that waits, so that the counters are apart.
LEMMA FireKeeps == TickInv /\ FireTimers => TickInv'
<1> SUFFICES ASSUME TickInv, FireTimers PROVE TickInv'
  OBVIOUS
<1>1. /\ queue # << >> /\ Head(queue).type = "tick" /\ queue' = Tail(queue)
      /\ tickCntRd' = (tickCntRd + 1) % (CounterMax + 1)
      /\ UNCHANGED <<tickCntWr, tickPc>>
  <2>1. Receive(Tick) /\ CountRead /\ UNCHANGED tickVars
    BY Zenon DEF FireTimers
  <2> QED BY <2>1 DEF Receive, CountRead, Tick, tickVars
<1>2. PICK e \in 0 .. 3 : Ahead(e) /\ Ticks(queue) <= e /\ (tickPc = "send" => e <= 2)
  BY DEF TickInv
<1>3. /\ queue' \in Seq(Messages) /\ Ticks(queue) \in Nat /\ Ticks(queue) > 0
      /\ Ticks(queue') = Ticks(queue) - 1
  BY <1>1, TicksTail DEF TickInv
<1>4. e - 1 \in 0 .. 3 /\ Ticks(queue') <= e - 1 /\ (tickPc' = "send" => e - 1 <= 2)
  BY <1>1, <1>2, <1>3
<1>5. /\ tickCntWr \in 0 .. CounterMax /\ tickCntRd \in 0 .. CounterMax
      /\ CounterMax \in Nat /\ CounterMax > 2
      /\ tickCntRd' = IF tickCntRd = CounterMax THEN 0 ELSE tickCntRd + 1
      /\ Uncounted \in {0, 1} /\ Uncounted' = Uncounted
  BY <1>1, NextCount, TimerAssumption DEF TickInv, Uncounted
<1>6. \/ tickCntWr + Uncounted - tickCntRd = e
      \/ tickCntWr + Uncounted - tickCntRd = e - (CounterMax + 1)
      \/ tickCntWr + Uncounted - tickCntRd = e + (CounterMax + 1)
  BY <1>2, <1>5 DEF Ahead
<1>7. \/ tickCntWr + Uncounted - tickCntRd' = e - 1
      \/ tickCntWr + Uncounted - tickCntRd' = (e - 1) - (CounterMax + 1)
      \/ tickCntWr + Uncounted - tickCntRd' = (e - 1) + (CounterMax + 1)
  BY ONLY <1>4, <1>5, <1>6, e \in 0 .. 3
<1>8. \E turn \in {-1, 0, 1} :
         tickCntWr + Uncounted - tickCntRd' = (e - 1) + turn * (CounterMax + 1)
  BY ONLY <1>5, <1>7, e \in 0 .. 3
<1>9. Ahead(e - 1)'
  BY <1>1, <1>5, <1>8 DEF Ahead
<1>10. tickCntRd' \in 0 .. CounterMax
  BY ONLY <1>5
<1> QED BY <1>1, <1>3, <1>4, <1>9, <1>10 DEF TickInv, Ticks

LEMMA NextTicks == TickInv /\ [Next]_vars => TickInv'
<1> SUFFICES ASSUME TickInv, [Next]_vars PROVE TickInv'
  OBVIOUS
<1>0. queue \in Seq(Messages) /\ Ticks(queue) \in Nat
  <2>1. Tick \in Messages
    BY DEF Messages
  <2> QED BY <2>1, TicksAppend DEF TickInv
<1>1. ASSUME NEW m \in Messages, m.type # "tick", Put(m),
             UNCHANGED <<tickCntWr, tickCntRd, tickPc>>
      PROVE  TickInv'
  BY <1>0, <1>1, PutTicks, NoTick
<1>2. ASSUME NEW t \in Timers, NEW i \in Intervals, NEW r \in Repeats, UpdateTime(t, i, r)
      PROVE  TickInv'
  <2>1. Update(t, i, r) \in Messages /\ Update(t, i, r).type # "tick"
    BY DEF Messages, Update
  <2> QED BY <1>1, <1>2, <2>1 DEF UpdateTime, tickVars, taskVars
<1>3. CASE SendOther
  <2>1. Other \in Messages /\ Other.type # "tick"
    BY DEF Messages, Other
  <2> QED BY <1>1, <1>3, <2>1 DEF SendOther, tickVars, taskVars
<1>4. ASSUME queue # << >>, queue' = Tail(queue), Head(queue).type # "tick",
             UNCHANGED <<tickCntWr, tickCntRd, tickPc>>
      PROVE  TickInv'
  BY <1>0, <1>4, TicksTail, NoTick
<1>5. CASE UpdateTimer
  BY <1>4, <1>5 DEF UpdateTimer, tickVars
<1>6. CASE HandleOther
  BY <1>4, <1>6 DEF HandleOther, Receive, Other, tickVars, taskVars
<1>7. CASE Clock \/ SetClock
  <2>1. UNCHANGED <<queue, tickCntWr, tickCntRd, tickPc>>
    BY Zenon, <1>7 DEF Clock, SetClock, tickVars
  <2> QED BY <1>0, <2>1, NoTick
<1>8. CASE UNCHANGED vars
  BY <1>0, <1>8, NoTick DEF vars
<1> QED BY <1>2, <1>3, <1>5, <1>6, <1>7, <1>8, TestKeeps, SendKeeps, CountKeeps, FireKeeps
         DEF Next, TickReq, MessageHandle

-----------------------------------------------------------------------------
(* The inductive invariant *)

NodeRec == [timer : Timers, interval : Intervals \ {0},
            repeatCnt : (Nat \ {0}) \cup {Infinite}, expire : Nat]

Nodes == ToSet(timerList)

Typed == /\ now \in 0 .. TimeMax /\ lastTick \in 0 .. TimeMax
         /\ timerList \in Seq(NodeRec)
         /\ Len(queue) <= QueueSize
         /\ credit \in [Timers -> Int] /\ since \in [Timers -> Nat]
         /\ owed \in [Timers -> Nat \cup {Infinite}] /\ unseen \in [Timers -> BOOLEAN]
         /\ misled \in [Timers -> BOOLEAN]

\* A timer has a node, and one only, while it has to fire.
Listed == /\ OnePerTimer(timerList)
          /\ \A t \in Timers : owed[t] # 0 => \E x \in Nodes : x.timer = t
          /\ \A x \in Nodes : owed[x.timer] = x.repeatCnt

\* The time, in the turn of the clock in which the list expires.
Turned == IF now < lastTick THEN now + TimeMax ELSE now

\* What is left until node x expires is covered by what its timer has been
\* waiting for beyond the firings it had.
Covered(x, c) == c = HistoryMax \/ x.expire - Turned + c >= x.interval

\* What FireTimers does with timer t does not come from a clock it misread.
Told(t) == ~ unseen[t] /\ ~ misled[t]

Scheduled == /\ \A x \in Nodes : Told(x.timer) => Covered(x, credit[x.timer])
             /\ \A t \in Timers : Told(t) => credit[t] >= 0

\* How much longer than its interval x will have waited when it expires at e.
Slack(x, e) == e - now + since[x.timer] - x.interval

InTime(x, e) == e + TimeMax * Slack(x, e) <= TimeMax + x.interval

\* A node is a unit late for each turn of the clock before it expires; one
\* that expires before the wrap which the next tick sees, fires with it.
Punctual(x) == IF now < lastTick THEN x.expire <= TimeMax \/ InTime(x, x.expire - TimeMax)
               ELSE InTime(x, x.expire)

Timely == \A x \in Nodes : ~ misled[x.timer] => Punctual(x)

-----------------------------------------------------------------------------
(* The list at a tick *)

\* Node x as the tick finds it.
AtTick(x) == IF now < lastTick THEN Unwrap(x) ELSE x

LEMMA NodeAtTick ==
  ASSUME NEW x \in NodeRec
  PROVE  /\ AtTick(x) \in NodeRec
         /\ AtTick(x).timer = x.timer /\ AtTick(x).interval = x.interval
         /\ AtTick(x).repeatCnt = x.repeatCnt
         /\ AtTick(x).expire = IF now < lastTick
                               THEN IF x.expire > TimeMax THEN x.expire - TimeMax ELSE 0
                               ELSE x.expire
BY TimerAssumption DEF NodeRec, AtTick, Unwrap

LEMMA NodeRearmed ==
  ASSUME NEW x \in NodeRec, ~ LastFiring(x), now \in Nat
  PROVE  /\ Rearm(x) \in NodeRec
         /\ Rearm(x).timer = x.timer /\ Rearm(x).interval = x.interval
         /\ Rearm(x).repeatCnt = IF x.repeatCnt = Infinite THEN Infinite ELSE x.repeatCnt - 1
         /\ Rearm(x).expire = IF x.expire + x.interval < now THEN now + x.interval
                              ELSE x.expire + x.interval
<1>1. x.interval \in Nat
  BY TimerAssumption DEF NodeRec
<1> DEFINE c == IF x.repeatCnt = Infinite THEN x.repeatCnt ELSE x.repeatCnt - 1
           e == IF x.expire + x.interval < now THEN now + x.interval ELSE x.expire + x.interval
<1>2. c \in (Nat \ {0}) \cup {Infinite} /\ e \in Nat
  BY <1>1 DEF NodeRec, LastFiring, Infinite
<1>3. Rearm(x) = [x EXCEPT !.repeatCnt = c, !.expire = e]
  BY DEF Rearm
<1> HIDE DEF c, e
<1>4. /\ Rearm(x) \in NodeRec /\ Rearm(x).timer = x.timer /\ Rearm(x).interval = x.interval
      /\ Rearm(x).repeatCnt = c /\ Rearm(x).expire = e
  BY <1>2, <1>3 DEF NodeRec
<1> QED BY ONLY <1>4 DEF c, e

LEMMA ListFound ==
  ASSUME timerList \in Seq(NodeRec), OnePerTimer(timerList)
  PROVE  /\ ListAtTick \in Seq(NodeRec) /\ OnePerTimer(ListAtTick)
         /\ ToSet(ListAtTick) = {AtTick(x) : x \in Nodes}
<1> DEFINE r == ListAtTick
<1>1. r = [i \in DOMAIN timerList |-> AtTick(timerList[i])]
  BY DEF ListAtTick, AtTick
<1>2. Len(timerList) \in Nat /\ DOMAIN timerList = 1 .. Len(timerList)
      /\ \A i \in DOMAIN timerList : timerList[i] \in NodeRec
  OBVIOUS
<1> HIDE DEF r
<1>3. DOMAIN r = DOMAIN timerList
      /\ \A i \in DOMAIN timerList : r[i] = AtTick(timerList[i])
  BY ONLY <1>1
<1>4. \A i \in DOMAIN timerList : r[i] \in NodeRec /\ r[i].timer = timerList[i].timer
  BY ONLY <1>2, <1>3, NodeAtTick
<1>5. r \in Seq(NodeRec)
  BY ONLY <1>1, <1>2, <1>3, <1>4
<1>6. OnePerTimer(r)
  BY ONLY <1>3, <1>4, OnePerTimer(timerList) DEF OnePerTimer
<1>7. ToSet(r) = {AtTick(x) : x \in Nodes}
  BY ONLY <1>3 DEF ToSet, Nodes
<1> QED BY <1>5, <1>6, <1>7 DEF r

LEMMA ListRearmed ==
  ASSUME NEW s \in Seq(NodeRec), OnePerTimer(s), now \in Nat,
         \A x \in ToSet(s) : ~ LastFiring(x)
  PROVE  LET r == [i \in DOMAIN s |-> Rearm(s[i])]
         IN r \in Seq(NodeRec) /\ OnePerTimer(r) /\ ToSet(r) = {Rearm(x) : x \in ToSet(s)}
<1> DEFINE r == [i \in DOMAIN s |-> Rearm(s[i])]
<1>1. Len(s) \in Nat /\ DOMAIN s = 1 .. Len(s) /\ \A i \in DOMAIN s : s[i] \in NodeRec
  OBVIOUS
<1>2. \A i \in DOMAIN s : ~ LastFiring(s[i])
  BY DEF ToSet
<1>3. DOMAIN r = DOMAIN s /\ \A i \in DOMAIN s : r[i] = Rearm(s[i])
  OBVIOUS
<1>4. \A i \in DOMAIN s : Rearm(s[i]) \in NodeRec /\ Rearm(s[i]).timer = s[i].timer
  BY ONLY <1>1, <1>2, now \in Nat, NodeRearmed
<1>5. r \in Seq(NodeRec)
  BY ONLY <1>1, <1>4
<1> HIDE DEF r
<1>6. OnePerTimer(r)
  BY ONLY <1>3, <1>4, OnePerTimer(s) DEF OnePerTimer
<1>7. ToSet(r) = {Rearm(x) : x \in ToSet(s)}
  BY ONLY <1>3 DEF ToSet
<1> QED BY <1>5, <1>6, <1>7 DEF r

Expires(x) == AtTick(x).expire <= now

\* What a tick leaves in the list: the nodes that do not expire and, rearmed,
\* those that do not fire for the last time.
LEMMA ListFired ==
  ASSUME Typed, Listed, FireTimers
  PROVE  /\ timerList' \in Seq(NodeRec) /\ OnePerTimer(timerList')
         /\ Nodes' = {AtTick(x) : x \in {y \in Nodes : ~ Expires(y)}}
                     \cup {Rearm(AtTick(x)) : x \in {y \in Nodes : Expires(y) /\ ~ LastFiring(y)}}
<1> DEFINE list == ListAtTick
           expired == {y \in ToSet(list) : y.expire <= now}
           again == Keep(list, {y \in expired : ~ LastFiring(y)})
           rest == Keep(list, ToSet(list) \ expired)
           rearmed == [i \in DOMAIN again |-> Rearm(again[i])]
<1>1. timerList' = InsertAll(rest, rearmed)
  BY Zenon DEF FireTimers
<1>2. /\ list \in Seq(NodeRec) /\ OnePerTimer(list)
      /\ ToSet(list) = {AtTick(x) : x \in Nodes} /\ now \in Nat
      /\ Nodes \subseteq NodeRec
  <2>1. Nodes \subseteq NodeRec /\ now \in Nat
    BY TimerAssumption DEF Typed, Nodes, ToSet
  <2> QED BY ONLY <2>1, ListFound, Typed, Listed DEF Typed, Listed
<1> HIDE DEF list
<1>3. /\ rest \in Seq(NodeRec) /\ OnePerTimer(rest)
      /\ ToSet(rest) = {y \in ToSet(list) : ~ (y.expire <= now)}
  BY <1>2, Kept
<1>4. /\ again \in Seq(NodeRec) /\ OnePerTimer(again)
      /\ ToSet(again) = {y \in ToSet(list) : y.expire <= now /\ ~ LastFiring(y)}
  BY <1>2, Kept
<1>5. \A y, z \in ToSet(list) : y.timer = z.timer => y = z
  BY <1>2 DEF OnePerTimer, ToSet
<1>6. \A y \in ToSet(list) : y \in NodeRec
  BY <1>2 DEF ToSet
<1> HIDE DEF rest, again
<1>7. /\ rearmed \in Seq(NodeRec) /\ OnePerTimer(rearmed)
      /\ ToSet(rearmed) = {Rearm(y) : y \in ToSet(again)}
  BY <1>2, <1>4, ListRearmed
<1> HIDE DEF rearmed
<1>8. \A y \in ToSet(again) : Rearm(y).timer = y.timer
  BY ONLY <1>2, <1>4, <1>6, NodeRearmed
<1>9. ASSUME NEW x \in ToSet(rest), NEW z \in ToSet(rearmed) PROVE x.timer # z.timer
  <2>1. PICK y \in ToSet(again) : z = Rearm(y)
    BY <1>7
  <2>2. z.timer = y.timer /\ x \in ToSet(list) /\ y \in ToSet(list) /\ x # y
    BY ONLY <1>3, <1>4, <1>8, <2>1, x \in ToSet(rest)
  <2> QED BY ONLY <1>5, <2>2
<1>10. /\ timerList' \in Seq(NodeRec) /\ OnePerTimer(timerList')
       /\ ToSet(timerList') = ToSet(rest) \cup ToSet(rearmed)
  BY ONLY <1>1, <1>3, <1>7, <1>9, AllInserted
<1>11. ToSet(rest) = {AtTick(x) : x \in {y \in Nodes : ~ Expires(y)}}
  BY ONLY <1>2, <1>3 DEF Expires
<1>12. \A x \in Nodes : LastFiring(AtTick(x)) <=> LastFiring(x)
  BY ONLY <1>2, NodeAtTick DEF LastFiring
<1>13. ToSet(again) = {AtTick(x) : x \in {y \in Nodes : Expires(y) /\ ~ LastFiring(y)}}
  BY ONLY <1>2, <1>4, <1>12 DEF Expires
<1>14. ToSet(rearmed) = {Rearm(AtTick(x)) : x \in {y \in Nodes : Expires(y) /\ ~ LastFiring(y)}}
  BY ONLY <1>7, <1>13
<1> QED BY ONLY <1>10, <1>11, <1>14 DEF Nodes


\* The histories at a tick: only the timers of expired nodes change them.
LEMMA HistoriesFired ==
  ASSUME Typed, Listed, FireTimers
  PROVE  /\ credit' \in [Timers -> Int] /\ since' \in [Timers -> Nat]
         /\ owed' \in [Timers -> Nat \cup {Infinite}]
         /\ \A x \in Nodes : Expires(x) =>
              /\ ~ misled[x.timer] => credit'[x.timer] = credit[x.timer] - x.interval
              /\ since'[x.timer] = 0
              /\ owed'[x.timer] = IF owed[x.timer] <= 0 THEN owed[x.timer] ELSE owed[x.timer] - 1
         /\ \A t \in Timers : (\A x \in Nodes : x.timer = t => ~ Expires(x)) =>
              credit'[t] = credit[t] /\ since'[t] = since[t] /\ owed'[t] = owed[t]
<1> DEFINE list == ListAtTick
           expired == {y \in ToSet(list) : y.expire <= now}
           of(t) == {y \in expired : y.timer = t}
           some(t) == CHOOSE y \in of(t) : TRUE
<1>1. Fired(expired)
  BY Zenon DEF FireTimers
<1>2. /\ list \in Seq(NodeRec) /\ OnePerTimer(list) /\ ToSet(list) = {AtTick(x) : x \in Nodes}
  BY ListFound DEF Typed, Listed
<1>3. Nodes \subseteq NodeRec
  BY DEF Typed, Nodes, ToSet
<1> HIDE DEF list
<1>4. \A y, z \in ToSet(list) : y.timer = z.timer => y = z
  BY <1>2 DEF OnePerTimer, ToSet
<1>5. \A y \in ToSet(list) : y \in NodeRec /\ y.timer \in Timers /\ y.interval \in Nat
  <2>1. \A y \in ToSet(list) : y \in NodeRec
    BY ONLY <1>2 DEF ToSet
  <2>2. \A y \in NodeRec : y.timer \in Timers /\ y.interval \in Nat
    BY TimerAssumption DEF NodeRec
  <2> QED BY ONLY <2>1, <2>2
<1>6. /\ credit' = [t \in Timers |->
           IF of(t) = {} \/ misled[t] THEN credit[t] ELSE credit[t] - some(t).interval]
      /\ since' = [t \in Timers |-> IF of(t) = {} THEN since[t] ELSE 0]
      /\ owed' = [t \in Timers |-> IF of(t) = {} \/ owed[t] <= 0 THEN owed[t] ELSE owed[t] - 1]
  BY <1>1 DEF Fired
<1>7. \A t \in Timers : of(t) # {} => some(t) \in of(t)
  OBVIOUS
<1>8. ASSUME NEW x \in Nodes, Expires(x)
      PROVE  of(x.timer) # {} /\ some(x.timer).interval = x.interval /\ x.timer \in Timers
  <2>1. /\ AtTick(x) \in ToSet(list) /\ AtTick(x).timer = x.timer
        /\ AtTick(x).interval = x.interval /\ AtTick(x) \in of(x.timer)
    BY <1>2, <1>3, <1>8, NodeAtTick DEF Expires
  <2>2. x.timer \in Timers
    BY <1>3 DEF NodeRec
  <2>3. some(x.timer) \in of(x.timer)
    BY <1>7, <2>1, <2>2
  <2>4. some(x.timer) = AtTick(x)
    <3>1. some(x.timer) \in ToSet(list) /\ some(x.timer).timer = AtTick(x).timer
      BY <2>1, <2>3
    <3> HIDE DEF some
    <3> QED BY ONLY <1>4, <2>1, <3>1
  <2> HIDE DEF some, of
  <2> QED BY <2>1, <2>2, <2>4
<1>9. ASSUME NEW t \in Timers, \A x \in Nodes : x.timer = t => ~ Expires(x)
      PROVE  of(t) = {}
  <2> SUFFICES ASSUME NEW y \in of(t) PROVE FALSE
    OBVIOUS
  <2>1. y \in ToSet(list) /\ y.timer = t /\ y.expire <= now
    OBVIOUS
  <2>2. PICK x \in Nodes : y = AtTick(x)
    BY <1>2, <2>1
  <2>3. x.timer = t
    BY <1>3, <2>1, <2>2, NodeAtTick
  <2> QED BY <1>9, <2>1, <2>2, <2>3 DEF Expires
<1>10. \A t \in Timers : of(t) # {} => some(t).interval \in Nat
  BY <1>5, <1>7
<1> HIDE DEF some, of
<1>11. /\ credit' \in [Timers -> Int] /\ since' \in [Timers -> Nat]
       /\ owed' \in [Timers -> Nat \cup {Infinite}]
  <2>1. /\ credit \in [Timers -> Int] /\ since \in [Timers -> Nat]
        /\ owed \in [Timers -> Nat \cup {Infinite}]
    BY DEF Typed
  <2> QED BY ONLY <1>6, <1>10, <2>1 DEF Infinite
<1>12. \A x \in Nodes : Expires(x) =>
         /\ ~ misled[x.timer] => credit'[x.timer] = credit[x.timer] - x.interval
         /\ since'[x.timer] = 0
         /\ owed'[x.timer] = IF owed[x.timer] <= 0 THEN owed[x.timer] ELSE owed[x.timer] - 1
  BY ONLY <1>6, <1>8
<1>13. \A t \in Timers : (\A x \in Nodes : x.timer = t => ~ Expires(x)) =>
         credit'[t] = credit[t] /\ since'[t] = since[t] /\ owed'[t] = owed[t]
  BY ONLY <1>6, <1>9
<1> QED BY <1>11, <1>12, <1>13

-----------------------------------------------------------------------------
(* An update *)

\* What an update leaves in the list: the other nodes and, unless it cancels
\* the timer, one for it; only its timer's histories start anew.
LEMMA ListUpdated ==
  ASSUME Typed, Listed, queue \in Seq(Messages), UpdateTimer
  PROVE  \E t \in Timers, i \in Intervals, r \in Repeats :
           LET armed == i > 0 /\ r # 0
               new == [timer |-> t, interval |-> i, repeatCnt |-> r, expire |-> now + i]
           IN /\ armed => new \in NodeRec
              /\ timerList' \in Seq(NodeRec) /\ OnePerTimer(timerList')
              /\ Nodes' = {x \in Nodes : x.timer # t} \cup IF armed THEN {new} ELSE {}
              /\ credit' = [credit EXCEPT ![t] = 0] /\ since' = [since EXCEPT ![t] = 0]
              /\ owed' = [owed EXCEPT ![t] = IF armed THEN r ELSE 0]
              /\ unseen' = [unseen EXCEPT ![t] = armed /\ now < lastTick]
              /\ misled' = [misled EXCEPT ![t] = FALSE]
<1>1. queue # << >> /\ Head(queue).type = "update"
  BY Zenon DEF UpdateTimer
<1>2. Head(queue) \in Messages
  BY <1>1
<1>3. PICK t \in Timers, i \in Intervals, r \in Repeats : Head(queue) = Update(t, i, r)
  BY <1>1, <1>2 DEF Messages, Tick, Other
<1> DEFINE m == Head(queue)
           armed == i > 0 /\ r # 0
           new == [timer |-> t, interval |-> i, repeatCnt |-> r, expire |-> now + i]
           rest == Without(timerList, t)
<1>4. m.timer = t /\ m.interval = i /\ m.repeatCnt = r
  BY <1>3 DEF Update
<1>5. /\ timerList' = IF armed THEN InsertNodeOrdered(rest, new) ELSE rest
      /\ credit' = [credit EXCEPT ![t] = 0] /\ since' = [since EXCEPT ![t] = 0]
      /\ owed' = [owed EXCEPT ![t] = IF armed THEN r ELSE 0]
      /\ unseen' = [unseen EXCEPT ![t] = armed /\ now < lastTick]
      /\ misled' = [misled EXCEPT ![t] = FALSE]
  BY <1>4 DEF UpdateTimer, Node
<1>6. /\ rest \in Seq(NodeRec) /\ OnePerTimer(rest)
      /\ ToSet(rest) = {x \in Nodes : x.timer # t}
  BY WithoutNode DEF Typed, Listed, Nodes
<1>7. armed => new \in NodeRec
  BY TimerAssumption DEF Typed, NodeRec, Infinite
<1> HIDE DEF rest
<1>8. /\ timerList' \in Seq(NodeRec) /\ OnePerTimer(timerList')
      /\ Nodes' = {x \in Nodes : x.timer # t} \cup IF armed THEN {new} ELSE {}
  <2>1. CASE armed
    <3>1. new.timer = t /\ new \in NodeRec
      BY <1>7, <2>1
    <3> HIDE DEF new
    <3>2. \A x \in ToSet(rest) : x.timer # new.timer
      BY <1>6, <3>1
    <3>3. /\ timerList' \in Seq(NodeRec) /\ OnePerTimer(timerList')
          /\ ToSet(timerList') = ToSet(rest) \cup {new}
      BY <1>5, <1>6, <2>1, <3>1, <3>2, Inserted
    <3> HIDE DEF armed
    <3> QED BY ONLY <1>6, <2>1, <3>3 DEF Nodes
  <2>2. CASE ~ armed
    <3>1. timerList' = rest
      BY <1>5, <2>2
    <3> HIDE DEF armed, new
    <3> QED BY ONLY <1>6, <2>2, <3>1 DEF Nodes
  <2> QED BY <2>1, <2>2
<1> HIDE DEF m
<1> QED BY <1>5, <1>7, <1>8


-----------------------------------------------------------------------------
(* The steps *)

LEMMA NodeFields ==
  /\ TimeMax \in Nat \ {0} /\ HistoryMax \in Nat
  /\ \A x \in NodeRec : /\ x.timer \in Timers /\ x.interval \in Nat \ {0} /\ x.expire \in Nat
                        /\ x.repeatCnt \in (Nat \ {0}) \cup {Infinite}
                        /\ 2 * x.interval < HistoryMax
BY TimerAssumption DEF NodeRec

LEMMA NodesTyped == Typed => Nodes \subseteq NodeRec
BY DEF Typed, Nodes, ToSet

\* The clock goes on or is set.
ClockMoves == Clock \/ SetClock

\* The test of FireTimers follows a turn of the clock, or the timers in the
\* list are misled.
LEMMA TurnSeen ==
  ASSUME Typed, Clock, ~ ((now' < lastTick) # (now < lastTick \/ now' = 0))
  PROVE  \/ now < TimeMax /\ now' = now + 1 /\ now' # lastTick
         \/ now = TimeMax /\ now' = 0 /\ lastTick # 0
<1>1. now' = (now + 1) % (TimeMax + 1)
  BY Zenon DEF Clock
<1>2. now \in 0 .. TimeMax /\ lastTick \in 0 .. TimeMax /\ TimeMax \in Nat
  BY NodeFields DEF Typed
<1>3. CASE now = TimeMax
  <2>1. now' = 0
    BY ONLY <1>1, <1>2, <1>3
  <2> QED BY ONLY <1>2, <1>3, <2>1, ~ ((now' < lastTick) # (now < lastTick \/ now' = 0))
<1>4. CASE now # TimeMax
  <2>1. now' = now + 1
    BY ONLY <1>1, <1>2, <1>4
  <2> QED BY ONLY <1>2, <1>4, <2>1, ~ ((now' < lastTick) # (now < lastTick \/ now' = 0))
<1> QED BY <1>3, <1>4

\* now and the histories after the clock moved.
LEMMA ClockStep ==
  ASSUME Typed, Listed, ClockMoves
  PROVE  /\ UNCHANGED <<timerList, lastTick, owed, unseen>> /\ Nodes' = Nodes
         /\ now' \in 0 .. TimeMax
         /\ credit' \in [Timers -> Int] /\ since' \in [Timers -> Nat]
         /\ misled' \in [Timers -> BOOLEAN]
         /\ \A t \in Timers :
              /\ ~ misled'[t] => ~ misled[t]
              /\ credit[t] >= 0 => credit'[t] >= 0
              /\ owed[t] # 0 /\ ~ misled'[t] =>
                   /\ credit'[t] >= credit[t] /\ since'[t] <= since[t] + 1
                   /\ credit[t] = HistoryMax => credit'[t] = HistoryMax
                   /\ credit'[t] = credit[t] + 1 \/ credit'[t] = HistoryMax
         /\ \A x \in Nodes : owed[x.timer] # 0
         /\ \/ \A x \in Nodes : misled'[x.timer]
            \/ now < TimeMax /\ now' = now + 1 /\ now' # lastTick
            \/ now = TimeMax /\ now' = 0 /\ lastTick # 0
<1>1. \A x \in Nodes : x.timer \in Timers /\ owed[x.timer] # 0
  BY NodesTyped, NodeFields DEF Listed, Infinite
<1>2. /\ now \in 0 .. TimeMax /\ credit \in [Timers -> Int] /\ since \in [Timers -> Nat]
      /\ misled \in [Timers -> BOOLEAN] /\ HistoryMax \in Nat /\ TimeMax \in Nat
  BY NodeFields DEF Typed
<1>3. CASE Clock
  <2> DEFINE wrong == (now' < lastTick) # (now < lastTick \/ now' = 0)
  <2>1. /\ now' = (now + 1) % (TimeMax + 1)
        /\ Mislead(wrong)
        /\ credit' = [t \in Timers |-> Later(t, credit[t])]
        /\ since' = [t \in Timers |-> Later(t, since[t])]
        /\ UNCHANGED <<timerList, lastTick, owed, unseen>>
    BY Zenon, <1>3 DEF Clock
  <2>2. ~ wrong => \/ now < TimeMax /\ now' = now + 1 /\ now' # lastTick
                   \/ now = TimeMax /\ now' = 0 /\ lastTick # 0
    BY <1>3, TurnSeen
  <2>3. now' \in 0 .. TimeMax
    BY ONLY <1>2, <2>1
  <2> HIDE DEF wrong
  <2>4. misled' = [t \in Timers |-> misled[t] \/ (wrong /\ owed[t] # 0)]
    BY <2>1 DEF Mislead
  <2>5. /\ \A t \in Timers : misled[t] => misled'[t]
        /\ wrong => \A x \in Nodes : misled'[x.timer]
        /\ misled' \in [Timers -> BOOLEAN]
    BY ONLY Zenon, <1>1, <1>2, <2>4
  <2>6. ASSUME NEW t \in Timers
        PROVE  /\ credit'[t] = Later(t, credit[t]) /\ Later(t, credit[t]) \in Int
               /\ since'[t] = Later(t, since[t]) /\ Later(t, since[t]) \in Nat
    BY ONLY <1>2, <2>1, t \in Timers DEF Later
  <2>7. credit' \in [Timers -> Int] /\ since' \in [Timers -> Nat]
    BY ONLY <2>1, <2>6
  <2>8. ASSUME NEW t \in Timers
        PROVE  /\ credit[t] >= 0 => credit'[t] >= 0
               /\ owed[t] # 0 /\ ~ misled'[t] =>
                    /\ credit'[t] >= credit[t] /\ since'[t] <= since[t] + 1
                    /\ credit[t] = HistoryMax => credit'[t] = HistoryMax
                    /\ credit'[t] = credit[t] + 1 \/ credit'[t] = HistoryMax
    BY ONLY <1>2, <2>6, t \in Timers DEF Later
  <2>9. Nodes' = Nodes
    BY ONLY <2>1 DEF Nodes
  <2> QED BY ONLY <1>1, <2>1, <2>2, <2>3, <2>5, <2>7, <2>8, <2>9
<1>4. CASE SetClock
  <2>1. /\ now' \in 0 .. TimeMax \ {now} /\ Mislead(TRUE)
        /\ credit' = [t \in Timers |-> 0] /\ since' = [t \in Timers |-> 0]
        /\ UNCHANGED <<timerList, lastTick, owed, unseen>>
    BY Zenon, <1>4 DEF SetClock
  <2>2. misled' = [t \in Timers |-> misled[t] \/ owed[t] # 0]
    BY Zenon, <2>1 DEF Mislead
  <2>3. /\ \A t \in Timers : misled[t] => misled'[t]
        /\ \A t \in Timers : owed[t] # 0 => misled'[t]
        /\ \A x \in Nodes : misled'[x.timer]
        /\ misled' \in [Timers -> BOOLEAN]
    BY ONLY Zenon, <1>1, <1>2, <2>2
  <2>4. /\ credit' \in [Timers -> Int] /\ since' \in [Timers -> Nat]
        /\ \A t \in Timers : credit'[t] = 0
    BY ONLY <2>1
  <2>5. Nodes' = Nodes
    BY ONLY <2>1 DEF Nodes
  <2>6. now' \in 0 .. TimeMax
    BY ONLY <2>1
  <2> QED BY ONLY <1>1, <2>1, <2>3, <2>4, <2>5, <2>6
<1> QED BY <1>3, <1>4 DEF ClockMoves

\* Steps that leave the list, the clock and the histories alone.
Idle == UNCHANGED <<now, timerList, lastTick, credit, since, owed, unseen, misled>>

LEMMA StepCases ==
  ASSUME [Next]_vars
  PROVE  FireTimers \/ UpdateTimer \/ ClockMoves \/ Idle
BY DEF Next, TickReq, MessageHandle, UpdateTime, SendOther, TickTest, TickSend, TickCount,
       HandleOther, taskVars, tickVars, vars, Idle, ClockMoves

\* The queue refuses what does not fit.
LEMMA QueueFits == ASSUME TickInv, Len(queue) <= QueueSize, [Next]_vars
                   PROVE  Len(queue') <= QueueSize
<1>1. queue \in Seq(Messages) /\ QueueSize \in Nat /\ Len(queue) \in Nat
  BY TimerAssumption DEF TickInv
<1>2. ASSUME NEW m, Put(m) PROVE Len(queue') <= QueueSize
  BY <1>1, <1>2 DEF Put
<1>3. ASSUME queue # << >>, queue' = Tail(queue) PROVE Len(queue') <= QueueSize
  BY <1>1, <1>3
<1>4. CASE FireTimers
  <2>1. Receive(Tick)
    BY Zenon, <1>4 DEF FireTimers
  <2> QED BY <1>3, <2>1 DEF Receive
<1>5. CASE UpdateTimer
  BY <1>3, <1>5 DEF UpdateTimer
<1>6. CASE Clock \/ SetClock \/ UNCHANGED vars
  BY <1>6 DEF Clock, SetClock, vars
<1> QED BY <1>2, <1>3, <1>4, <1>5, <1>6
         DEF Next, TickReq, MessageHandle, UpdateTime, SendOther, TickTest, TickSend, TickCount,
             HandleOther, Receive

LEMMA TypedKept == ASSUME Typed, Listed, TickInv, [Next]_vars PROVE Typed'
<1>q. Len(queue') <= QueueSize
  BY QueueFits DEF Typed
<1>1. CASE FireTimers
  <2>1. lastTick' = now /\ UNCHANGED <<now, unseen, misled>>
    BY Zenon, <1>1 DEF FireTimers
  <2>2. timerList' \in Seq(NodeRec)
    BY <1>1, ListFired
  <2> QED BY <1>q, <1>1, <2>1, <2>2, HistoriesFired DEF Typed
<1>2. CASE UpdateTimer
  <2>1. UNCHANGED <<now, lastTick>>
    BY <1>2 DEF UpdateTimer
  <2>2. queue \in Seq(Messages)
    BY DEF TickInv
  <2>3. PICK t \in Timers, i \in Intervals, r \in Repeats :
          /\ timerList' \in Seq(NodeRec)
          /\ credit' = [credit EXCEPT ![t] = 0] /\ since' = [since EXCEPT ![t] = 0]
          /\ owed' = [owed EXCEPT ![t] = IF i > 0 /\ r # 0 THEN r ELSE 0]
          /\ unseen' = [unseen EXCEPT ![t] = (i > 0 /\ r # 0) /\ now < lastTick]
          /\ misled' = [misled EXCEPT ![t] = FALSE]
    BY <1>2, <2>2, ListUpdated
  <2>4. r \in Nat \cup {Infinite} /\ 0 \in Nat
    BY TimerAssumption
  <2>5. /\ credit' \in [Timers -> Int] /\ since' \in [Timers -> Nat]
        /\ owed' \in [Timers -> Nat \cup {Infinite}]
    BY <2>3, <2>4 DEF Typed
  <2>6. unseen' \in [Timers -> BOOLEAN] /\ misled' \in [Timers -> BOOLEAN]
    BY Zenon, <2>3 DEF Typed
  <2> QED BY <1>q, <2>1, <2>3, <2>5, <2>6 DEF Typed
<1>3. CASE ClockMoves
  BY <1>q, <1>3, ClockStep DEF Typed
<1>4. CASE Idle
  BY <1>q, <1>4 DEF Idle, Typed
<1> QED BY <1>1, <1>2, <1>3, <1>4, StepCases


\* A node after a tick is one from before it, that did not expire or fired.
LEMMA FireNodes ==
  ASSUME Typed, Listed, FireTimers, NEW x \in Nodes'
  PROVE  \E y \in Nodes :
           /\ y.timer = x.timer /\ y.interval = x.interval
           /\ \/ /\ ~ Expires(y) /\ x.repeatCnt = y.repeatCnt
                 /\ x.expire = AtTick(y).expire
              \/ /\ Expires(y) /\ ~ LastFiring(y)
                 /\ x.repeatCnt = IF y.repeatCnt = Infinite THEN Infinite ELSE y.repeatCnt - 1
                 /\ x.expire = IF AtTick(y).expire + y.interval < now THEN now + y.interval
                               ELSE AtTick(y).expire + y.interval
<1>1. \/ \E y \in Nodes : ~ Expires(y) /\ x = AtTick(y)
      \/ \E y \in Nodes : Expires(y) /\ ~ LastFiring(y) /\ x = Rearm(AtTick(y))
  BY ListFired
<1>2. \A y \in Nodes : y \in NodeRec
  BY NodesTyped
<1>3. now \in Nat
  BY DEF Typed
<1>4. CASE \E y \in Nodes : ~ Expires(y) /\ x = AtTick(y)
  BY ONLY <1>2, <1>4, NodeAtTick
<1>5. CASE \E y \in Nodes : Expires(y) /\ ~ LastFiring(y) /\ x = Rearm(AtTick(y))
  <2>1. PICK y \in Nodes : Expires(y) /\ ~ LastFiring(y) /\ x = Rearm(AtTick(y))
    BY <1>5
  <2> DEFINE z == AtTick(y)
  <2>2. /\ z \in NodeRec /\ z.timer = y.timer /\ z.interval = y.interval
        /\ z.repeatCnt = y.repeatCnt
    BY ONLY <1>2, NodeAtTick
  <2>3. ~ LastFiring(z)
    BY <2>1, <2>2 DEF LastFiring
  <2>4. x = Rearm(z)
    BY <2>1
  <2> HIDE DEF z
  <2>5. /\ x.timer = z.timer /\ x.interval = z.interval
        /\ x.repeatCnt = IF z.repeatCnt = Infinite THEN Infinite ELSE z.repeatCnt - 1
        /\ x.expire = IF z.expire + z.interval < now THEN now + z.interval
                      ELSE z.expire + z.interval
    BY ONLY <1>3, <2>2, <2>3, <2>4, NodeRearmed
  <2> QED BY ONLY <2>1, <2>2, <2>5 DEF z
<1> QED BY <1>1, <1>4, <1>5

LEMMA OneNode ==
  ASSUME Listed, NEW x \in Nodes, NEW y \in Nodes, x.timer = y.timer
  PROVE  x = y
BY DEF Listed, OnePerTimer, Nodes, ToSet

LEMMA ListedKept == ASSUME Typed, Listed, TickInv, [Next]_vars PROVE Listed'
<1>0. \A x \in Nodes : x \in NodeRec /\ x.timer \in Timers
  BY NodesTyped DEF NodeRec
<1>1. CASE FireTimers
  <2>1. OnePerTimer(timerList')
    BY <1>1, ListFired
  <2>2. ASSUME NEW x \in Nodes' PROVE owed'[x.timer] = x.repeatCnt
    <3>1. PICK y \in Nodes :
            /\ y.timer = x.timer
            /\ \/ ~ Expires(y) /\ x.repeatCnt = y.repeatCnt
               \/ /\ Expires(y) /\ ~ LastFiring(y)
                  /\ x.repeatCnt = IF y.repeatCnt = Infinite THEN Infinite ELSE y.repeatCnt - 1
      BY <1>1, FireNodes
    <3>2. y.repeatCnt \in (Nat \ {0}) \cup {Infinite} /\ owed[y.timer] = y.repeatCnt
      BY <1>0, NodeFields DEF Listed
    <3>3. CASE ~ Expires(y)
      <4>1. \A z \in Nodes : z.timer = y.timer => ~ Expires(z)
        BY <3>3, OneNode
      <4> QED BY <1>0, <1>1, <3>1, <3>2, <3>3, <4>1, HistoriesFired
    <3>4. CASE Expires(y)
      <4>1. owed'[y.timer] = IF owed[y.timer] <= 0 THEN owed[y.timer] ELSE owed[y.timer] - 1
        BY <1>1, <3>4, HistoriesFired
      <4> QED BY <3>1, <3>2, <3>4, <4>1 DEF Infinite
    <3> QED BY <3>3, <3>4
  <2>3. ASSUME NEW t \in Timers, owed'[t] # 0 PROVE \E x \in Nodes' : x.timer = t
    <3>1. owed[t] # 0
      <4> SUFFICES ASSUME owed[t] = 0 PROVE FALSE
        OBVIOUS
      <4>1. \A x \in Nodes : x.timer # t
        BY <1>0, NodeFields DEF Listed, Infinite
      <4> QED BY <1>1, <2>3, <4>1, HistoriesFired
    <3>2. PICK y \in Nodes : y.timer = t
      BY <3>1 DEF Listed
    <3>3. y \in NodeRec /\ AtTick(y) \in NodeRec /\ AtTick(y).timer = t
          /\ AtTick(y).repeatCnt = y.repeatCnt
      BY <1>0, <3>2, NodeAtTick
    <3>4. CASE ~ Expires(y)
      <4>1. AtTick(y) \in Nodes'
        BY <1>1, <3>4, ListFired
      <4> QED BY <3>3, <4>1
    <3>5. CASE Expires(y)
      <4>1. ~ LastFiring(y)
        <5>1. owed'[t] = IF owed[t] <= 0 THEN owed[t] ELSE owed[t] - 1
          BY <1>1, <3>2, <3>5, HistoriesFired
        <5>2. owed[t] = y.repeatCnt
          BY <3>2 DEF Listed
        <5> QED BY <2>3, <5>1, <5>2 DEF LastFiring
      <4>2. Rearm(AtTick(y)) \in Nodes'
        BY <1>1, <3>5, <4>1, ListFired
      <4>3. ~ LastFiring(AtTick(y)) /\ now \in Nat
        BY <3>3, <4>1 DEF LastFiring, Typed
      <4>4. Rearm(AtTick(y)).timer = t
        BY <3>3, <4>3, NodeRearmed
      <4> QED BY <4>2, <4>4
    <3> QED BY <3>4, <3>5
  <2> QED BY <2>1, <2>2, <2>3 DEF Listed
<1>2. CASE UpdateTimer
  <2>1. queue \in Seq(Messages)
    BY DEF TickInv
  <2>2. PICK t \in Timers, i \in Intervals, r \in Repeats :
          LET armed == i > 0 /\ r # 0
              new == [timer |-> t, interval |-> i, repeatCnt |-> r, expire |-> now + i]
          IN /\ OnePerTimer(timerList')
             /\ Nodes' = {x \in Nodes : x.timer # t} \cup IF armed THEN {new} ELSE {}
             /\ owed' = [owed EXCEPT ![t] = IF armed THEN r ELSE 0]
    BY <1>2, <2>1, ListUpdated
  <2> DEFINE armed == i > 0 /\ r # 0
             new == [timer |-> t, interval |-> i, repeatCnt |-> r, expire |-> now + i]
  <2>3. new.timer = t /\ new.repeatCnt = r
    OBVIOUS
  <2>4. /\ OnePerTimer(timerList')
        /\ Nodes' = {x \in Nodes : x.timer # t} \cup IF armed THEN {new} ELSE {}
        /\ owed'[t] = IF armed THEN r ELSE 0
        /\ \A u \in Timers : u # t => owed'[u] = owed[u]
    BY <2>2 DEF Typed
  <2> HIDE DEF new, armed
  <2>5. \A x \in Nodes' : owed'[x.timer] = x.repeatCnt
    BY <1>0, <2>3, <2>4 DEF Listed
  <2>6. \A u \in Timers : owed'[u] # 0 => \E x \in Nodes' : x.timer = u
    BY <2>3, <2>4 DEF Listed
  <2> QED BY <2>4, <2>5, <2>6 DEF Listed
<1>3. CASE ClockMoves
  BY <1>3, ClockStep DEF Listed
<1>4. CASE Idle
  BY <1>4 DEF Idle, Listed, Nodes
<1> QED BY <1>1, <1>2, <1>3, <1>4, StepCases


\* Multiplication by a number, as far as the invariant needs it.
LEMMA Times ==
  ASSUME NEW m \in Nat, NEW a \in Int
  PROVE  /\ m * a \in Int /\ m * (a + 1) = m * a + m /\ m * (a - 1) = m * a - m
         /\ a <= 0 => m * a <= 0
OBVIOUS

LEMMA TimesOrder ==
  ASSUME NEW m \in Nat, NEW a \in Int, NEW b \in Int, a <= b
  PROVE  m * a <= m * b
<1>1. m * (a - b) <= 0 /\ m * (a - b) = m * a - m * b /\ m * a \in Int /\ m * b \in Int
  OBVIOUS
<1> HIDE DEF *
<1> QED BY <1>1

LEMMA ScheduledKept == ASSUME Typed, Listed, TickInv, Scheduled, [Next]_vars PROVE Scheduled'
<1>0. \A x \in Nodes : x \in NodeRec /\ x.timer \in Timers
  BY NodesTyped DEF NodeRec
<1>t. /\ now \in 0 .. TimeMax /\ lastTick \in 0 .. TimeMax /\ TimeMax \in Nat /\ HistoryMax \in Nat
      /\ \A t \in Timers : credit[t] \in Int
  BY NodeFields DEF Typed
<1>1. CASE FireTimers
  <2>1. UNCHANGED <<now, unseen, misled>> /\ lastTick' = now /\ Turned' = now
    <3>1. UNCHANGED <<now, unseen, misled>> /\ lastTick' = now
      BY Zenon, <1>1 DEF FireTimers
    <3> QED BY <3>1, <1>t DEF Turned
  <2>2. ASSUME NEW y \in Nodes, Told(y.timer), Expires(y)
        PROVE  credit[y.timer] = HistoryMax \/ credit[y.timer] >= y.interval
    <3>1. Covered(y, credit[y.timer])
      BY <2>2 DEF Scheduled
    <3>2. AtTick(y).expire = IF now < lastTick
                             THEN IF y.expire > TimeMax THEN y.expire - TimeMax ELSE 0
                             ELSE y.expire
      BY <1>0, NodeAtTick
    <3>3. y.interval \in Nat /\ y.expire \in Nat /\ credit[y.timer] \in Int
      BY <1>0, <1>t, NodeFields
    <3>4. AtTick(y).expire <= now
      BY <2>2 DEF Expires
    <3> QED BY ONLY <1>t, <3>1, <3>2, <3>3, <3>4 DEF Covered, Turned
  <2>3. ASSUME NEW x \in Nodes', Told(x.timer)' PROVE Covered(x, credit[x.timer])'
    <3>1. PICK y \in Nodes :
            /\ y.timer = x.timer /\ y.interval = x.interval
            /\ \/ ~ Expires(y) /\ x.expire = AtTick(y).expire
               \/ /\ Expires(y)
                  /\ x.expire = IF AtTick(y).expire + y.interval < now THEN now + y.interval
                                ELSE AtTick(y).expire + y.interval
      BY <1>1, FireNodes
    <3>2. Told(y.timer) /\ ~ misled[y.timer]
      BY <2>1, <2>3, <3>1 DEF Told
    <3>3. /\ y.interval \in Nat /\ y.expire \in Nat /\ credit[y.timer] \in Int
          /\ 2 * y.interval < HistoryMax
      BY <1>0, <1>t, NodeFields
    <3>4. /\ AtTick(y).expire \in Nat
          /\ AtTick(y).expire = IF now < lastTick
                                THEN IF y.expire > TimeMax THEN y.expire - TimeMax ELSE 0
                                ELSE y.expire
      BY <1>0, NodeAtTick, NodeFields
    <3>5. credit[y.timer] = HistoryMax \/ y.expire - Turned + credit[y.timer] >= y.interval
      BY <3>2 DEF Scheduled, Covered
    <3>6. CASE ~ Expires(y)
      <4>1. credit'[y.timer] = credit[y.timer]
        <5>1. \A z \in Nodes : z.timer = y.timer => ~ Expires(z)
          BY <3>6, OneNode
        <5> QED BY <1>0, <1>1, <5>1, HistoriesFired
      <4>2. x.expire = AtTick(y).expire
        BY <3>1, <3>6
      <4>3. x.expire - now >= y.expire - Turned
        BY ONLY <1>t, <3>3, <3>4, <4>2 DEF Turned
      <4>4. Turned \in Int
        BY ONLY <1>t DEF Turned
      <4>5. credit'[x.timer] = HistoryMax \/ x.expire - now + credit'[x.timer] >= x.interval
        BY ONLY <1>t, <3>1, <3>3, <3>4, <3>5, <4>1, <4>2, <4>3, <4>4
      <4> QED BY <2>1, <4>5 DEF Covered
    <3>7. CASE Expires(y)
      <4>1. credit'[y.timer] = credit[y.timer] - y.interval
        BY <1>1, <3>2, <3>7, HistoriesFired
      <4>2. /\ x.expire = IF AtTick(y).expire + y.interval < now THEN now + y.interval
                          ELSE AtTick(y).expire + y.interval
            /\ AtTick(y).expire <= now
        BY <3>1, <3>7 DEF Expires
      <4>3. credit[y.timer] = HistoryMax \/ credit[y.timer] >= y.interval
        BY <2>2, <3>2, <3>7
      <4>4. AtTick(y).expire >= y.expire - Turned + now
        BY ONLY <1>t, <3>3, <3>4 DEF Turned
      <4>5. Turned \in Int
        BY ONLY <1>t DEF Turned
      <4>6. x.expire - now + credit'[x.timer] >= x.interval
        BY ONLY <1>t, <3>1, <3>3, <3>4, <3>5, <4>1, <4>2, <4>3, <4>4, <4>5
      <4> QED BY <2>1, <4>6 DEF Covered
    <3> QED BY <3>6, <3>7
  <2>4. ASSUME NEW t \in Timers, Told(t)' PROVE credit'[t] >= 0
    <3>0. Told(t) /\ ~ misled[t]
      BY <2>1, <2>4 DEF Told
    <3>1. CASE \E y \in Nodes : y.timer = t /\ Expires(y)
      <4>1. PICK y \in Nodes : y.timer = t /\ Expires(y)
        BY <3>1
      <4>2. credit'[t] = credit[t] - y.interval
        BY <1>1, <3>0, <4>1, HistoriesFired
      <4>3. credit[t] = HistoryMax \/ credit[t] >= y.interval
        BY <2>2, <3>0, <4>1
      <4>4. y.interval \in Nat /\ 2 * y.interval < HistoryMax /\ credit[t] \in Int
        BY <1>0, <1>t, NodeFields
      <4> QED BY ONLY <1>t, <4>2, <4>3, <4>4
    <3>2. CASE ~ \E y \in Nodes : y.timer = t /\ Expires(y)
      <4>1. credit'[t] = credit[t]
        BY <1>1, <3>2, HistoriesFired
      <4> QED BY <3>0, <4>1 DEF Scheduled
    <3> QED BY <3>1, <3>2
  <2> QED BY <2>3, <2>4 DEF Scheduled
<1>2. CASE UpdateTimer
  <2>1. queue \in Seq(Messages) /\ UNCHANGED <<now, lastTick>> /\ Turned' = Turned
    BY <1>2 DEF TickInv, UpdateTimer, Turned
  <2>2. PICK t \in Timers, i \in Intervals, r \in Repeats :
          LET armed == i > 0 /\ r # 0
              new == [timer |-> t, interval |-> i, repeatCnt |-> r, expire |-> now + i]
          IN /\ Nodes' = {x \in Nodes : x.timer # t} \cup IF armed THEN {new} ELSE {}
             /\ credit' = [credit EXCEPT ![t] = 0]
             /\ unseen' = [unseen EXCEPT ![t] = armed /\ now < lastTick]
             /\ misled' = [misled EXCEPT ![t] = FALSE]
    BY <1>2, <2>1, ListUpdated
  <2> DEFINE armed == i > 0 /\ r # 0
             new == [timer |-> t, interval |-> i, repeatCnt |-> r, expire |-> now + i]
  <2>3. new.timer = t /\ new.interval = i /\ new.expire = now + i /\ i \in Nat
    BY TimerAssumption
  <2>4. /\ Nodes' = {x \in Nodes : x.timer # t} \cup IF armed THEN {new} ELSE {}
        /\ credit'[t] = 0 /\ unseen'[t] = (armed /\ now < lastTick)
        /\ \A u \in Timers : u # t => credit'[u] = credit[u] /\ Told(u)' = Told(u)
    BY <2>2 DEF Typed, Told
  <2> HIDE DEF new, armed
  <2>5. ASSUME NEW x \in Nodes', Told(x.timer)' PROVE Covered(x, credit[x.timer])'
    <3>1. CASE x \in Nodes /\ x.timer # t
      <4>1. credit'[x.timer] = credit[x.timer] /\ Told(x.timer)' = Told(x.timer)
        BY <1>0, <2>4, <3>1
      <4>2. Covered(x, credit[x.timer])
        BY <2>5, <3>1, <4>1 DEF Scheduled
      <4> QED BY <2>1, <4>1, <4>2 DEF Covered
    <3>2. CASE x = new /\ armed
      <4>1. ~ (now < lastTick)
        BY <2>3, <2>4, <2>5, <3>2 DEF Told
      <4>2. x.expire - Turned + 0 >= x.interval
        BY <1>t, <2>3, <3>2, <4>1 DEF Turned
      <4> QED BY <2>1, <2>3, <2>4, <3>2, <4>2 DEF Covered
    <3> QED BY <2>4, <3>1, <3>2
  <2>6. \A u \in Timers : Told(u)' => credit'[u] >= 0
    BY <2>4 DEF Scheduled
  <2> QED BY <2>5, <2>6 DEF Scheduled
<1>3. CASE ClockMoves
  <2>1. /\ UNCHANGED <<lastTick, unseen>> /\ Nodes' = Nodes
        /\ \A t \in Timers :
             /\ ~ misled'[t] => ~ misled[t]
             /\ credit[t] >= 0 => credit'[t] >= 0
             /\ owed[t] # 0 /\ ~ misled'[t] =>
                  /\ credit'[t] >= credit[t]
                  /\ credit[t] = HistoryMax => credit'[t] = HistoryMax
                  /\ credit'[t] = credit[t] + 1 \/ credit'[t] = HistoryMax
        /\ \A x \in Nodes : owed[x.timer] # 0
        /\ \/ \A x \in Nodes : misled'[x.timer]
           \/ now < TimeMax /\ now' = now + 1 /\ now' # lastTick
           \/ now = TimeMax /\ now' = 0 /\ lastTick # 0
        /\ credit' \in [Timers -> Int]
    BY <1>3, ClockStep
  <2>2. \A t \in Timers : Told(t)' => Told(t) /\ ~ misled'[t]
    BY <2>1 DEF Told
  <2>3. ASSUME NEW x \in Nodes', Told(x.timer)' PROVE Covered(x, credit[x.timer])'
    <3>1. x \in Nodes /\ x \in NodeRec /\ x.timer \in Timers /\ x.expire \in Nat /\ x.interval \in Nat
      BY <1>0, <2>1, NodeFields
    <3>2. Told(x.timer) /\ ~ misled'[x.timer] /\ owed[x.timer] # 0
      BY <2>1, <2>2, <2>3, <3>1
    <3>3. Turned' \in Int /\ Turned \in Int /\ Turned' <= Turned + 1
      <4>1. \/ now < TimeMax /\ now' = now + 1 /\ now' # lastTick
            \/ now = TimeMax /\ now' = 0 /\ lastTick # 0
        BY <2>1, <3>1, <3>2
      <4>2. lastTick' = lastTick
        BY <2>1
      <4> QED BY ONLY <1>t, <4>1, <4>2 DEF Turned
    <3>4. credit[x.timer] = HistoryMax \/ x.expire - Turned + credit[x.timer] >= x.interval
      BY <3>1, <3>2 DEF Scheduled, Covered
    <3>5. /\ credit'[x.timer] = credit[x.timer] + 1 \/ credit'[x.timer] = HistoryMax
          /\ credit[x.timer] = HistoryMax => credit'[x.timer] = HistoryMax
          /\ credit'[x.timer] >= credit[x.timer]
      BY <2>1, <3>1, <3>2
    <3>6. credit[x.timer] \in Int /\ credit'[x.timer] \in Int
      BY <1>t, <2>1, <3>1
    <3> DEFINE c == credit[x.timer]
               d == credit'[x.timer]
    <3>7. d = HistoryMax \/ x.expire - Turned' + d >= x.interval
      BY ONLY <1>t, <3>1, <3>3, <3>4, <3>5, <3>6
    <3> QED BY <3>7 DEF Covered
  <2>4. \A t \in Timers : Told(t)' => credit'[t] >= 0
    BY <2>1, <2>2 DEF Scheduled
  <2> QED BY <2>3, <2>4 DEF Scheduled
<1>4. CASE Idle
  BY <1>4 DEF Idle, Scheduled, Told, Covered, Turned, Nodes
<1> QED BY <1>1, <1>2, <1>3, <1>4, StepCases


LEMMA TimelyKept == ASSUME Typed, Listed, TickInv, Timely, [Next]_vars PROVE Timely'
<1>0. \A x \in Nodes : x \in NodeRec /\ x.timer \in Timers
  BY NodesTyped DEF NodeRec
<1>t. /\ now \in 0 .. TimeMax /\ lastTick \in 0 .. TimeMax /\ TimeMax \in Nat
      /\ \A t \in Timers : since[t] \in Nat
  BY NodeFields DEF Typed
<1>1. CASE FireTimers
  <2>1. now' = now /\ lastTick' = now /\ misled' = misled
    BY Zenon, <1>1 DEF FireTimers
  <2>2. ASSUME NEW x \in Nodes', ~ misled'[x.timer] PROVE InTime(x, x.expire)'
    <3>1. PICK y \in Nodes :
            /\ y.timer = x.timer /\ y.interval = x.interval
            /\ \/ ~ Expires(y) /\ x.expire = AtTick(y).expire
               \/ /\ Expires(y)
                  /\ x.expire = IF AtTick(y).expire + y.interval < now THEN now + y.interval
                                ELSE AtTick(y).expire + y.interval
      BY <1>1, FireNodes
    <3>2. /\ AtTick(y).expire \in Nat
          /\ AtTick(y).expire = IF now < lastTick
                                THEN IF y.expire > TimeMax THEN y.expire - TimeMax ELSE 0
                                ELSE y.expire
      BY <1>0, NodeAtTick, NodeFields
    <3>3. y.interval \in Nat /\ y.expire \in Nat
      BY <1>0, NodeFields
    <3>4. CASE ~ Expires(y)
      <4>1. since'[y.timer] = since[y.timer]
        <5>1. \A z \in Nodes : z.timer = y.timer => ~ Expires(z)
          BY <3>4, OneNode
        <5> QED BY <1>0, <1>1, <5>1, HistoriesFired
      <4>2. x.expire = AtTick(y).expire /\ AtTick(y).expire > now
        BY <1>t, <3>1, <3>2, <3>4 DEF Expires
      <4>3. x.expire = IF now < lastTick THEN y.expire - TimeMax ELSE y.expire
        BY ONLY <1>t, <3>2, <4>2
      <4>4. now < lastTick => ~ (y.expire <= TimeMax)
        BY ONLY <1>t, <3>2, <3>3, <4>2
      <4>5. InTime(y, x.expire)
        BY <2>1, <2>2, <3>1, <4>3, <4>4 DEF Timely, Punctual
      <4> QED BY <2>1, <3>1, <4>1, <4>5 DEF InTime, Slack
    <3>5. CASE Expires(y)
      <4>1. since'[x.timer] = 0
        BY <1>1, <3>1, <3>5, HistoriesFired
      <4>2. AtTick(y).expire <= now /\ x.expire \in Nat /\ x.expire <= now + x.interval
        BY <1>t, <3>1, <3>2, <3>3, <3>5 DEF Expires
      <4> DEFINE a == x.expire - now + 0 - x.interval
      <4>3. a \in Int /\ a <= 0 /\ Slack(x, x.expire)' = a
        BY <1>t, <2>1, <3>1, <3>3, <4>1, <4>2 DEF Slack
      <4> HIDE DEF a
      <4>4. TimeMax * a \in Int /\ TimeMax * a <= 0
        BY ONLY <1>t, <4>3, Times
      <4> DEFINE p == TimeMax * a
      <4>5. p \in Int /\ p <= 0
        BY <4>4
      <4> HIDE DEF p
      <4>6. x.expire + p <= TimeMax + x.interval
        BY ONLY <1>t, <3>1, <3>3, <4>2, <4>5
      <4> QED BY <4>3, <4>6 DEF InTime, p
    <3> QED BY <3>4, <3>5
  <2> QED BY <1>t, <2>1, <2>2 DEF Timely, Punctual
<1>2. CASE UpdateTimer
  <2>1. queue \in Seq(Messages) /\ UNCHANGED <<now, lastTick>>
    BY <1>2 DEF TickInv, UpdateTimer
  <2>2. PICK t \in Timers, i \in Intervals, r \in Repeats :
          LET armed == i > 0 /\ r # 0
              new == [timer |-> t, interval |-> i, repeatCnt |-> r, expire |-> now + i]
          IN /\ Nodes' = {x \in Nodes : x.timer # t} \cup IF armed THEN {new} ELSE {}
             /\ since' = [since EXCEPT ![t] = 0]
             /\ misled' = [misled EXCEPT ![t] = FALSE]
    BY <1>2, <2>1, ListUpdated
  <2> DEFINE armed == i > 0 /\ r # 0
             new == [timer |-> t, interval |-> i, repeatCnt |-> r, expire |-> now + i]
  <2>3. new.timer = t /\ new.interval = i /\ new.expire = now + i /\ i \in Nat
    BY TimerAssumption
  <2>4. /\ Nodes' = {x \in Nodes : x.timer # t} \cup IF armed THEN {new} ELSE {}
        /\ since'[t] = 0
        /\ \A u \in Timers : u # t => since'[u] = since[u] /\ misled'[u] = misled[u]
    BY <2>2 DEF Typed
  <2> HIDE DEF new, armed
  <2>5. ASSUME NEW x \in Nodes', ~ misled'[x.timer]
        PROVE  IF now < lastTick THEN x.expire <= TimeMax \/ InTime(x, x.expire - TimeMax)'
               ELSE InTime(x, x.expire)'
    <3>1. CASE x \in Nodes /\ x.timer # t
      <4>1. since'[x.timer] = since[x.timer] /\ ~ misled[x.timer]
        BY <1>0, <2>4, <2>5, <3>1
      <4> QED BY <2>1, <3>1, <4>1 DEF Timely, Punctual, InTime, Slack
    <3>2. CASE x = new
      <4>1. x.timer = t /\ x.interval = i /\ x.expire = now + i /\ i \in Nat
        BY <2>3, <3>2
      <4>2. Slack(x, x.expire)' = 0 /\ Slack(x, x.expire - TimeMax)' = 0 - TimeMax
        BY <1>t, <2>1, <2>4, <4>1 DEF Slack
      <4> DEFINE p == TimeMax * 0
                 q == TimeMax * (0 - TimeMax)
      <4>3. p \in Int /\ p <= 0 /\ q \in Int /\ q <= 0
        <5>1. 0 - TimeMax \in Int /\ 0 - TimeMax <= 0
          BY <1>t
        <5> QED BY ONLY <1>t, <5>1, Times
      <4> HIDE DEF p, q
      <4>4. x.expire + p <= TimeMax + x.interval
        BY ONLY <1>t, <4>1, <4>3
      <4>5. (x.expire - TimeMax) + q <= TimeMax + x.interval
        BY ONLY <1>t, <4>1, <4>3
      <4> QED BY ONLY <4>2, <4>4, <4>5 DEF InTime, p, q
    <3> QED BY <2>4, <3>1, <3>2
  <2> QED BY <2>1, <2>5 DEF Timely, Punctual
<1>3. CASE ClockMoves
  <2>0. /\ lastTick' = lastTick /\ Nodes' = Nodes
        /\ \A t \in Timers : ~ misled'[t] => ~ misled[t]
        /\ \A x \in Nodes : ~ misled'[x.timer] => since'[x.timer] <= since[x.timer] + 1
        /\ since' \in [Timers -> Nat]
        /\ \/ \A x \in Nodes : misled'[x.timer]
           \/ now < TimeMax /\ now' = now + 1 /\ now' # lastTick
           \/ now = TimeMax /\ now' = 0 /\ lastTick # 0
    BY <1>0, <1>3, ClockStep
  <2>w. SUFFICES ASSUME NEW w \in Nodes', ~ misled'[w.timer] PROVE Punctual(w)'
    BY DEF Timely
  <2>1. /\ lastTick' = lastTick /\ Nodes' = Nodes
        /\ \/ now < TimeMax /\ now' = now + 1 /\ now' # lastTick
           \/ now = TimeMax /\ now' = 0 /\ lastTick # 0
    BY <2>0, <2>w
  <2>2. ASSUME NEW x \in Nodes, ~ misled'[x.timer], NEW e \in Int, InTime(x, e), now' = now + 1
        PROVE  InTime(x, e)'
    <3>1. /\ x.interval \in Nat /\ since[x.timer] \in Nat /\ since'[x.timer] \in Nat
          /\ since'[x.timer] <= since[x.timer] + 1
      BY <1>0, <1>t, <2>0, <2>2, NodeFields
    <3> DEFINE a == Slack(x, e)'
               b == Slack(x, e)
    <3>2. a \in Int /\ b \in Int /\ a <= b
      BY <1>t, <2>1, <2>2, <3>1 DEF Slack
    <3> HIDE DEF a, b
    <3>3. TimeMax * a <= TimeMax * b /\ TimeMax * a \in Int /\ TimeMax * b \in Int
      BY ONLY <1>t, <3>2, Times, TimesOrder
    <3> DEFINE p == TimeMax * a
               q == TimeMax * b
    <3>4. p <= q /\ p \in Int /\ q \in Int
      BY <3>3
    <3>5. e + q <= TimeMax + x.interval
      BY <2>2 DEF InTime, b
    <3> HIDE DEF p, q
    <3>6. e + p <= TimeMax + x.interval
      BY ONLY <1>t, <3>1, <3>4, <3>5, e \in Int
    <3> QED BY <3>6 DEF p, a, InTime
  <2>3. ASSUME NEW x \in Nodes, ~ misled'[x.timer], InTime(x, x.expire), now = TimeMax, now' = 0
        PROVE  InTime(x, x.expire - TimeMax)'
    <3>1. /\ x.interval \in Nat /\ since[x.timer] \in Nat /\ since'[x.timer] \in Nat
          /\ since'[x.timer] <= since[x.timer] + 1 /\ x.expire \in Nat
      BY <1>0, <1>t, <2>0, <2>3, NodeFields
    <3> DEFINE a == Slack(x, x.expire - TimeMax)'
               b == Slack(x, x.expire)
    <3>2. a \in Int /\ b \in Int /\ a <= b + 1
      BY <1>t, <2>1, <2>3, <3>1 DEF Slack
    <3> HIDE DEF a, b
    <3>3. /\ TimeMax * a <= TimeMax * (b + 1) /\ TimeMax * (b + 1) = TimeMax * b + TimeMax
          /\ TimeMax * a \in Int /\ TimeMax * b \in Int
      <4>1. b + 1 \in Int
        BY <3>2
      <4> QED BY ONLY <1>t, <3>2, <4>1, Times, TimesOrder
    <3> DEFINE p == TimeMax * a
               q == TimeMax * b
    <3>4. p <= q + TimeMax /\ p \in Int /\ q \in Int
      BY <3>3
    <3>5. x.expire + q <= TimeMax + x.interval
      BY <2>3 DEF InTime, b
    <3> HIDE DEF p, q
    <3>6. (x.expire - TimeMax) + p <= TimeMax + x.interval
      BY ONLY <1>t, <3>1, <3>4, <3>5
    <3> QED BY <3>6 DEF p, a, InTime
  <2>4. ASSUME NEW x \in Nodes, ~ misled'[x.timer]
        PROVE  IF now' < lastTick THEN x.expire <= TimeMax \/ InTime(x, x.expire - TimeMax)'
               ELSE InTime(x, x.expire)'
    <3>1. /\ x.expire \in Nat /\ x.expire \in Int /\ x.expire - TimeMax \in Int
          /\ ~ misled[x.timer]
      BY <1>0, <1>t, <2>0, <2>4, NodeFields
    <3>2. CASE now < lastTick
      <4>1. now' = now + 1 /\ now' < lastTick
        BY ONLY <1>t, <2>1, <3>2
      <4>2. x.expire <= TimeMax \/ InTime(x, x.expire - TimeMax)
        BY <3>1, <3>2 DEF Timely, Punctual
      <4> QED BY <2>2, <2>4, <3>1, <4>1, <4>2
    <3>3. CASE ~ (now < lastTick)
      <4>1. InTime(x, x.expire)
        BY <3>1, <3>3 DEF Timely, Punctual
      <4>2. CASE now = TimeMax
        <5>1. now' = 0 /\ now' < lastTick
          BY ONLY <1>t, <2>1, <4>2
        <5> QED BY <2>3, <2>4, <4>1, <4>2, <5>1
      <4>3. CASE now # TimeMax
        <5>1. now' = now + 1 /\ ~ (now' < lastTick)
          BY ONLY <1>t, <2>1, <3>3, <4>3
        <5> QED BY <2>2, <2>4, <3>1, <4>1, <5>1
      <4> QED BY <4>2, <4>3
    <3> QED BY <3>2, <3>3
  <2>5. w \in Nodes
    BY <2>0, <2>w
  <2> QED BY <2>1, <2>4, <2>5, <2>w DEF Punctual
<1>4. CASE Idle
  BY <1>4 DEF Idle, Timely, Punctual, InTime, Slack, Nodes
<1> QED BY <1>1, <1>2, <1>3, <1>4, StepCases


\* The inductive invariant.
TimerInv == TickInv /\ Typed /\ Listed /\ Scheduled /\ Timely

LEMMA InitTimers == Init => TimerInv
<1> SUFFICES ASSUME Init PROVE TimerInv
  OBVIOUS
<1>1. TickInv
  BY InitTicks
<1>2. Nodes = {} /\ OnePerTimer(timerList)
  BY DEF Init, Nodes, ToSet, OnePerTimer
<1>3. Typed
  BY TimerAssumption DEF Init, Typed
<1>4. Listed /\ Scheduled /\ Timely
  BY <1>2 DEF Init, Listed, Scheduled, Timely
<1> QED BY <1>1, <1>3, <1>4 DEF TimerInv

LEMMA NextTimers == TimerInv /\ [Next]_vars => TimerInv'
BY NextTicks, TypedKept, ListedKept, ScheduledKept, TimelyKept DEF TimerInv

LEMMA TimersInvariant == Spec => []TimerInv
BY InitTimers, NextTimers, PTL DEF Spec

\* What a tick leaves in the list was not due.
LEMMA NodeDue ==
  ASSUME TimerInv, TimerInv', FireTimers, NEW x \in Nodes', ~ misled[x.timer]
  PROVE  TimeMax * (since'[x.timer] - x.interval) < x.interval
<1>1. Typed /\ Listed /\ Typed' /\ Timely'
  BY DEF TimerInv
<1>2. now' = now /\ lastTick' = now /\ misled' = misled
  BY Zenon DEF FireTimers
<1>3. now \in 0 .. TimeMax /\ TimeMax \in Nat \ {0}
  BY <1>1, NodeFields DEF Typed
<1>4. x \in NodeRec
  <2>1. \A y \in Nodes' : y \in NodeRec
    BY <1>1 DEF Typed, Nodes, ToSet
  <2> QED BY <2>1
<1>5. x.interval \in Nat \ {0} /\ x.expire \in Nat /\ x.timer \in Timers
  BY <1>4, NodeFields
<1>6. since'[x.timer] \in Nat
  BY <1>1, <1>5 DEF Typed
<1> DEFINE a == since'[x.timer] - x.interval
<1>7. TimeMax * a < x.interval
  <2>1. PICK y \in Nodes :
          /\ y.timer = x.timer /\ y.interval = x.interval
          /\ ~ Expires(y) => x.expire = AtTick(y).expire
    BY <1>1, FireNodes
  <2>2. CASE Expires(y)
    <3>1. a = 0 - x.interval
      BY <1>1, <1>5, <2>1, <2>2, HistoriesFired
    <3>2. a \in Int /\ a <= 0
      BY <1>5, <3>1
    <3> HIDE DEF a
    <3>3. TimeMax * a <= 0 /\ TimeMax * a \in Int
      BY ONLY <1>3, <3>2, Times
    <3> QED BY ONLY <1>5, <3>3
  <2>3. CASE ~ Expires(y)
    <3>1. x.expire > now
      <4>1. AtTick(y).expire \in Nat
        BY <1>1, NodesTyped, NodeAtTick, NodeFields
      <4> QED BY <1>3, <2>1, <2>3, <4>1 DEF Expires
    <3> DEFINE b == x.expire - now + since'[x.timer] - x.interval
    <3>2. InTime(x, x.expire)' /\ Slack(x, x.expire)' = b
      BY <1>1, <1>2, <1>3 DEF Timely, Punctual, Slack
    <3>3. x.expire + TimeMax * b <= TimeMax + x.interval
      BY <3>2 DEF InTime
    <3>4. a \in Int /\ b \in Int /\ a + 1 <= b /\ a + 1 \in Int
      BY <1>3, <1>5, <1>6, <3>1
    <3> HIDE DEF a, b
    <3>5. /\ TimeMax * (a + 1) <= TimeMax * b /\ TimeMax * (a + 1) = TimeMax * a + TimeMax
          /\ TimeMax * a \in Int /\ TimeMax * b \in Int
      BY ONLY <1>3, <3>4, Times, TimesOrder
    <3> DEFINE p == TimeMax * a
               q == TimeMax * b
    <3>6. p + TimeMax <= q /\ p \in Int /\ q \in Int /\ x.expire + q <= TimeMax + x.interval
      BY <3>3, <3>5
    <3> HIDE DEF p, q
    <3>7. p < x.interval
      BY ONLY <1>3, <1>5, <3>1, <3>6
    <3> QED BY <3>7 DEF p
  <2> QED BY <2>2, <2>3
<1> QED BY <1>7

-----------------------------------------------------------------------------
(* The theorems *)

\* The clock, the nodes of the list, the wrapping counters and the queue keep
\* their types: no node waits with a count of zero, and an expiry never turns
\* negative where SamgrTimer_FireTimers takes the wrap of the clock off it.
THEOREM TypeCorrect == Spec => []TypeOK
<1>1. TimerInv => TypeOK
  <2> SUFFICES ASSUME TimerInv PROVE TypeOK
    OBVIOUS
  <2>1. \A i \in DOMAIN timerList :
          /\ timerList[i].timer \in Timers /\ timerList[i].interval \in Intervals \ {0}
          /\ timerList[i].repeatCnt \in (Nat \ {0}) \cup {Infinite} /\ timerList[i].expire \in Nat
    <3>1. timerList \in Seq(NodeRec)
      BY DEF TimerInv, Typed
    <3>2. \A i \in DOMAIN timerList : timerList[i] \in NodeRec
      BY <3>1
    <3> QED BY ONLY <3>2 DEF NodeRec
  <2>2. /\ now \in 0 .. TimeMax /\ lastTick \in 0 .. TimeMax
        /\ tickCntWr \in 0 .. CounterMax /\ tickCntRd \in 0 .. CounterMax
        /\ tickPc \in {"sleep", "send", "count"} /\ Len(queue) <= QueueSize
    BY DEF TimerInv, Typed, TickInv
  <2> QED BY ONLY <2>1, <2>2 DEF TypeOK
<1> QED BY <1>1, TimersInvariant, PTL

\* However updates, cancellations, late ticks and the two lists that
\* SamgrTimer_FireTimers moves the nodes between follow each other, a timer is
\* in the list once while it has to fire and not at all otherwise.
THEOREM TimersListed == Spec => []ListedWhileOwed
<1>1. TimerInv => ListedWhileOwed
  <2> SUFFICES ASSUME TimerInv, NEW t \in Timers
               PROVE  Cardinality(NodesOf(t)) = IF owed[t] = 0 THEN 0 ELSE 1
    BY DEF ListedWhileOwed
  <2>1. CASE owed[t] = 0
    <3>1. NodesOf(t) = {}
      <4>1. \A x \in Nodes : owed[x.timer] # 0
        BY NodesTyped, NodeFields DEF TimerInv, Listed, Infinite
      <4> QED BY <2>1, <4>1 DEF NodesOf, Nodes, ToSet
    <3> QED BY <2>1, <3>1, FS_EmptySet
  <2>2. CASE owed[t] # 0
    <3>1. PICK i \in DOMAIN timerList : timerList[i].timer = t
      BY <2>2 DEF TimerInv, Listed, Nodes, ToSet
    <3>2. NodesOf(t) = {i}
      BY <3>1 DEF TimerInv, Listed, OnePerTimer, NodesOf
    <3> QED BY <2>2, <3>2, FS_Singleton
  <2> QED BY <2>1, <2>2
<1> QED BY <1>1, TimersInvariant, PTL

\* Whatever the wraps of the clock and however late ticks are, also when
\* SamgrTimer_FireTimers catches up, the n-th firing of a timer is not earlier
\* than n intervals after it was armed: whatever value the clock starts with,
\* and unless it was set or turned unseen since then, or the timer was armed
\* while it was behind lastTick.
THEOREM NeverEarly == Spec => []NeverAhead
<1>1. TimerInv => NeverAhead
  BY DEF TimerInv, Scheduled, Told, NeverAhead
<1> QED BY <1>1, TimersInvariant, PTL

\* A tick leaves no timer in the list that was due, but for the units of time
\* that SamgrTimer_FireTimers loses at each wrap within a long interval, and
\* for the timers under which the clock was set or turned unseen.
THEOREM TicksFireDue == Spec => DueFired
<1> DEFINE Due == FireTimers =>
             \A i \in DOMAIN timerList' :
               LET node == timerList'[i]
               IN ~ misled[node.timer] =>
                    TimeMax * (since'[node.timer] - node.interval) < node.interval
<1>1. TimerInv /\ TimerInv' /\ [Next]_vars => [Due]_vars
  <2>1. TimerInv /\ TimerInv' /\ FireTimers =>
          \A x \in Nodes' : ~ misled[x.timer] =>
            TimeMax * (since'[x.timer] - x.interval) < x.interval
    BY NodeDue
  <2> QED BY <2>1 DEF Nodes, ToSet
<1> QED BY <1>1, TimersInvariant, PTL DEF Spec, DueFired

\* At most three ticks wait in the queue, whatever else is in it, however
\* late the task reads them and whichever ticks are refused: the test that
\* samgrTimerTickReq makes on two wrapping counters, while it has not counted
\* the tick it last sent, holds the tick thread back.
THEOREM TicksBounded == Spec => []FewTicksWait
<1>1. TickInv => FewTicksWait
  <2>1. TickInv => Ticks(queue) \in Nat
    BY TicksAppend DEF TickInv, Messages
  <2> QED BY <2>1 DEF TickInv, FewTicksWait, Waiting, Ticks, TicksIn
<1> QED BY <1>1, InitTicks, NextTicks, PTL DEF Spec
=============================================================================
