--------------------------- MODULE MessagingProofs ---------------------------
(***************************************************************************)
(* The safety properties of Messaging, for any tasks, calls, receivers and *)
(* queue size.                                                             *)
(***************************************************************************)
EXTENDS Messaging, FunctionTheorems, FiniteSetTheorems, TLAPS

(* The copies of exchanges, seen as one function of the places they are at. *)

\* A place in a task's queue, or, with 0, on its stack.
Place == Tasks \X (0 .. QueueSize)
Stack(t) == <<t, 0>>

mail == [q \in Place |->
           IF q[2] = 0 THEN cur[q[1]]
           ELSE IF q[2] <= Len(queue[q[1]]) THEN queue[q[1]][q[2]] ELSE NULL]

Mails == [Place -> Exchange \cup {NULL}]

\* w is m with x at place p.
Written(m, p, x, w) == w \in Mails /\ w[p] = x /\ \A q \in Place : q # p => w[q] = m[q]

\* The places of the copies of call c, and of those that are counted.
Of(m, c) == {q \in Place : m[q] # NULL /\ m[q].call = c}
Counted(m, c) == {q \in Of(m, c) : m[q].sref}

\* The tasks whose next put or fallback of c is counted as a copy, too, and
\* the same for the broadcast.
Putting(m, where, c) ==
  {t \in Tasks : where[t] \in {"put", "fallback"} /\ Stack(t) \in Counted(m, c)}
Broadcasting(sending, c) == IF c = Shared /\ sending \in {"put", "undo"} THEN 1 ELSE 0

Copies(m, where, sending, c) ==
  Cardinality(Counted(m, c)) + Cardinality(Putting(m, where, c)) + Broadcasting(sending, c)

-----------------------------------------------------------------------------
(* The invariant, in parts. *)

Labels == {"recv", "work", "body", "raise", "put", "fallback", "free"}

Types ==
  /\ queue \in [Tasks -> Seq(Exchange)]
  /\ \A t \in Tasks : Len(queue[t]) <= QueueSize
  /\ cur \in [Tasks -> Exchange \cup {NULL}]
  /\ pc \in [Tasks -> Labels]
  /\ \A t \in Tasks : cur[t] = NULL <=> pc[t] = "recv"
  /\ ref \in [AllCalls -> Nat \cup {NULL}]
  /\ caller \in [AllCalls -> Tasks \cup {Main, NULL}]
  /\ refused \subseteq Calls
  /\ todo \in Seq(Tasks) /\ sharedType \in SharedTypes
  /\ token \in {Shared, NULL}
  /\ sendPc \in {"idle", "share", "put", "undo", "done"}
  /\ frees \in [Blocks -> {NULL, 0, 1}]
  /\ handlerRuns \in [AllCalls -> Seq(Tasks)]

\* What a task that is sending a response has on its stack.
Sends ==
  \A t \in Tasks :
    /\ pc[t] \in {"raise", "put", "fallback"} => cur[t].type = "MSG_ACK"
    /\ pc[t] \in {"raise", "put"} => cur[t].back \in Tasks
    /\ pc[t] = "raise" => ~ Plain(cur[t])
    /\ pc[t] = "put" => cur[t].sref \/ Plain(cur[t])

\* A response was not attached before the service answered; only the
\* broadcast is sent as MSG_DIRECT, and its copies are counted and have data.
Contents(m) ==
  \A q \in Place : m[q] # NULL =>
    /\ m[q].type = "MSG_CON" => m[q].resp = NULL
    /\ m[q].type = "MSG_DIRECT" => m[q].call = Shared
    /\ m[q].call = Shared => m[q].sref /\ m[q].data

\* A call has two copies only when it was answered; they point to the same
\* data, which is counted if there is any.  (The broadcast has more.)
Together(x, y) ==
  \/ x.call = Shared
  \/ /\ x.type = "MSG_ACK" /\ y.type = "MSG_ACK"
     /\ DataOf(x) = DataOf(y) /\ x.sref = y.sref
     /\ x.sref \/ DataOf(x) = {}
Alone(m) ==
  \A q, r \in Place :
    q # r /\ m[q] # NULL /\ m[r] # NULL /\ m[q].call = m[r].call => Together(m[q], m[r])

\* A call that was not sent has left no trace.
Unsent(m) ==
  \A c \in AllCalls : caller[c] = NULL => Of(m, c) = {} /\ handlerRuns[c] = <<>>

\* The broadcast: nothing before it begins; its copies are processed when it
\* is over; and its token tells whether there are any.
Broadcast ==
  /\ sendPc = "idle" <=> caller[Shared] = NULL
  /\ sendPc = "idle" => frees[<<Shared, "request">>] = NULL
  /\ \A t \in Tasks : cur[t] # NULL /\ cur[t].call = Shared =>
                        pc[t] = "work" \/ sendPc = "done"
  /\ sendPc = "share" => (token = NULL <=> ref[Shared] = NULL)
  /\ sendPc \in {"put", "undo"} => todo # <<>>

\* The counters are exact.
Exact(m, where, sending, count) ==
  \A c \in AllCalls : IF Copies(m, where, sending, c) = 0 THEN count[c] = NULL
                      ELSE count[c] = Copies(m, where, sending, c)

\* What a copy points to is there, and so is the data being broadcast.
Alive(m, sending, freed) ==
  /\ \A q \in Place : m[q] # NULL => \A b \in DataOf(m[q]) : freed[b] = 0
  /\ sending \in {"share", "put", "undo"} => freed[<<Shared, "request">>] = 0

\* What is not freed is in use, except for responses to a broadcast.
InUse(m, sending, freed) ==
  \A b \in Blocks : freed[b] = 0 /\ (b[1] # Shared \/ b[2] = "request") =>
    \/ \E q \in Place : m[q] # NULL /\ b \in DataOf(m[q])
    \/ b[1] = Shared /\ sending \in {"share", "put", "undo"}

\* The places from which the handler of a request will still be called.
Pending(m, where, c) ==
  {q \in Of(m, c) : \/ m[q].type = "MSG_CON"
                    \/ /\ m[q].type = "MSG_ACK"
                       /\ q[2] # 0 \/ where[q[1]] \in {"work", "raise", "put", "fallback"}}
Once(m, where, runs) ==
  \A c \in Calls : /\ Len(runs[c]) <= 1
                   /\ \A q \in Pending(m, where, c) :
                        runs[c] = <<>> /\ \A r \in Pending(m, where, c) : q = r

IInv == /\ Types /\ Sends /\ Contents(mail) /\ Alone(mail) /\ Unsent(mail) /\ Broadcast
        /\ Exact(mail, pc, sendPc, ref) /\ Alive(mail, sendPc, frees)
        /\ InUse(mail, sendPc, frees) /\ Once(mail, pc, handlerRuns)

-----------------------------------------------------------------------------
(* Places. *)

\* The stack of a task is a place.
LEMMA StackPlace ==
  ASSUME NEW t \in Tasks
  PROVE  /\ Stack(t) \in Place /\ Stack(t)[1] = t /\ Stack(t)[2] = 0
         /\ \A q \in Place : q[1] \in Tasks /\ (q[2] = 0 => q = Stack(q[1]))
         /\ \A u \in Tasks : Stack(u) = Stack(t) => u = t
BY MessagingAssumption DEF Stack, Place

\* mail has a type, and shows what is on the stacks.
LEMMA MailType ==
  ASSUME Types
  PROVE  mail \in Mails /\ \A t \in Tasks : mail[Stack(t)] = cur[t]
<1>1. \A t \in Tasks : mail[Stack(t)] = cur[t]
  BY StackPlace DEF mail
<1>2. ASSUME NEW q \in Place
      PROVE  (IF q[2] = 0 THEN cur[q[1]]
              ELSE IF q[2] <= Len(queue[q[1]]) THEN queue[q[1]][q[2]] ELSE NULL)
             \in Exchange \cup {NULL}
  <2>1. q[1] \in Tasks /\ q[2] \in Nat
    BY MessagingAssumption DEF Place
  <2>2. queue[q[1]] \in Seq(Exchange) /\ cur[q[1]] \in Exchange \cup {NULL}
    BY <2>1 DEF Types
  <2> QED BY <2>1, <2>2
<1> QED BY <1>1, <1>2 DEF mail, Mails

\* What changes an exchange on a stack changes mail at this place.
LEMMA StackWrite ==
  ASSUME Types, NEW t \in Tasks, NEW x \in Exchange \cup {NULL},
         cur' = [cur EXCEPT ![t] = x], UNCHANGED queue
  PROVE  Written(mail, Stack(t), x, mail')
<1>1. \A q \in Place : (IF q[2] = 0 THEN cur'[q[1]]
              ELSE IF q[2] <= Len(queue'[q[1]]) THEN queue'[q[1]][q[2]] ELSE NULL)
        = (IF q = Stack(t) THEN x ELSE mail[q])
  BY StackPlace DEF mail, Types
<1>2. \A q \in Place : mail'[q] = IF q = Stack(t) THEN x ELSE mail[q]
  BY <1>1 DEF mail
<1>3. mail' = [q \in Place |-> mail'[q]]
  BY DEF mail
<1> QED BY <1>2, <1>3, StackPlace, MailType DEF Written, Mails

\* A put writes to a place that held nothing.
LEMMA PutWrite ==
  ASSUME Types, NEW t \in Tasks, NEW x \in Exchange, ~ Full(t), Put(t, x), UNCHANGED cur
  PROVE  \E p \in Place : p[2] # 0 /\ mail[p] = NULL /\ Written(mail, p, x, mail')
<1> DEFINE n == Len(queue[t])
           p == <<t, n + 1>>
<1>1. queue[t] \in Seq(Exchange) /\ n \in Nat /\ n < QueueSize /\ QueueSize \in Nat
  BY MessagingAssumption DEF Types, Full
<1>2. p \in Place /\ p[1] = t /\ p[2] = n + 1
  BY <1>1 DEF Place
<1>3. mail[p] = NULL
  BY <1>1, <1>2 DEF mail
<1>4. /\ \A u \in Tasks : u # t => queue'[u] = queue[u]
      /\ Len(queue'[t]) = n + 1 /\ queue'[t][n + 1] = x
      /\ \A i \in 1 .. n : queue'[t][i] = queue[t][i]
  BY <1>1 DEF Put, Types
<1>5. ASSUME NEW q \in Place
      PROVE  (IF q[2] = 0 THEN cur'[q[1]]
              ELSE IF q[2] <= Len(queue'[q[1]]) THEN queue'[q[1]][q[2]] ELSE NULL)
             = (IF q = p THEN x ELSE mail[q])
  <2>1. PICK u \in Tasks, i \in 0 .. QueueSize : q = <<u, i>>
    BY DEF Place
  <2>2. mail[q] = IF i = 0 THEN cur[u] ELSE IF i <= Len(queue[u]) THEN queue[u][i] ELSE NULL
    BY <2>1 DEF mail
  <2>3. q = p <=> u = t /\ i = n + 1
    BY <2>1
  <2> HIDE DEF p, n
  <2>4. CASE u # t
    BY <1>4, <2>1, <2>2, <2>3, <2>4
  <2>5. CASE u = t
    BY <1>1, <1>4, <2>1, <2>2, <2>3, <2>5 DEF n
  <2> QED BY <2>4, <2>5
<1>6. /\ \A q \in Place : mail'[q] = IF q = p THEN x ELSE mail[q]
      /\ mail' = [q \in Place |-> mail'[q]]
  BY <1>5 DEF mail
<1>7. p[2] # 0
  BY <1>1, <1>2
<1> HIDE DEF p
<1>8. Written(mail, p, x, mail')
  BY <1>2, <1>6, MailType DEF Written, Mails
<1> QED BY <1>2, <1>3, <1>7, <1>8

\* Where SAMGR_MsgRecv of task t took what it puts at place q, and back.
Old(t, q) == IF q[1] # t THEN q
             ELSE IF q[2] < QueueSize THEN <<t, q[2] + 1>> ELSE Stack(t)
New(t, q) == IF q[1] # t THEN q
             ELSE IF q[2] # 0 THEN <<t, q[2] - 1>> ELSE <<t, QueueSize>>

\* The two are inverse to each other, and stay with a task.
LEMMA OldNew ==
  ASSUME NEW t \in Tasks, NEW q \in Place
  PROVE  /\ Old(t, q) \in Place /\ New(t, q) \in Place
         /\ New(t, Old(t, q)) = q /\ Old(t, New(t, q)) = q
         /\ Old(t, q)[1] = q[1]
BY MessagingAssumption DEF Old, New, Place, Stack

\* Receiving moves the copies of the task's queue.
LEMMA TakeMoves ==
  ASSUME Types, NEW t \in Tasks, Recv(t)
  PROVE  mail' = [q \in Place |-> mail[Old(t, q)]]
<1> DEFINE n == Len(queue[t])
<1>1. /\ queue[t] \in Seq(Exchange) /\ n \in Nat /\ n # 0 /\ n <= QueueSize
      /\ QueueSize \in Nat \ {0} /\ cur[t] = NULL
  BY MessagingAssumption DEF Types, Recv
<1>2. /\ Len(queue'[t]) = n - 1 /\ \A i \in 1 .. n - 1 : queue'[t][i] = queue[t][i + 1]
      /\ cur'[t] = queue[t][1]
      /\ \A u \in Tasks : u # t => queue'[u] = queue[u] /\ cur'[u] = cur[u]
  BY <1>1 DEF Recv, Types
<1>3. ASSUME NEW q \in Place
      PROVE  (IF q[2] = 0 THEN cur'[q[1]]
              ELSE IF q[2] <= Len(queue'[q[1]]) THEN queue'[q[1]][q[2]] ELSE NULL)
             = mail[Old(t, q)]
  <2>1. PICK u \in Tasks, i \in 0 .. QueueSize : q = <<u, i>>
    BY DEF Place
  <2> HIDE DEF n
  <2>2. CASE u # t
    BY <1>2, <2>1, <2>2 DEF Old, mail
  <2>3. CASE u = t /\ i < QueueSize
    <3>1. Old(t, q) = <<t, i + 1>> /\ <<t, i + 1>> \in Place
      BY <2>1, <2>3, <1>1 DEF Old, Place
    <3>2. mail[<<t, i + 1>>] = IF i + 1 <= n THEN queue[t][i + 1] ELSE NULL
      BY <3>1, <1>1 DEF mail, n
    <3>3. q[1] = t /\ q[2] = i
      BY <2>1, <2>3
    <3>4. CASE i = 0
      BY <1>1, <1>2, <3>1, <3>2, <3>3, <3>4
    <3>5. CASE i # 0
      <4>1. i \in 1 .. QueueSize /\ (i + 1 <= n <=> i <= n - 1)
        BY <1>1, <3>5
      <4>2. i <= n - 1 => queue'[t][i] = queue[t][i + 1]
        BY <1>1, <1>2, <4>1
      <4> QED BY <1>2, <3>1, <3>2, <3>3, <3>5, <4>1, <4>2
    <3> QED BY <3>4, <3>5
  <2>4. CASE u = t /\ i = QueueSize
    <3>1. mail[Old(t, q)] = NULL
      BY <1>1, <2>1, <2>4, MailType DEF Old
    <3> QED BY <1>1, <1>2, <2>1, <2>4, <3>1
  <2> QED BY <1>1, <2>2, <2>3, <2>4
<1> QED BY <1>3 DEF mail

-----------------------------------------------------------------------------
(* Counting copies. *)

\* Sets that differ in p only.
LEMMA OneMember ==
  ASSUME NEW S, NEW T, NEW p, IsFiniteSet(S), S \ {p} = T \ {p}
  PROVE  /\ IsFiniteSet(T) /\ Cardinality(S) \in Nat /\ Cardinality(T) \in Nat
         /\ Cardinality(T) = Cardinality(S) - (IF p \in S THEN 1 ELSE 0)
                                            + (IF p \in T THEN 1 ELSE 0)
<1> DEFINE R == S \ {p}
<1>1. IsFiniteSet(R) /\ Cardinality(R) = IF p \in S THEN Cardinality(S) - 1 ELSE Cardinality(S)
  BY FS_RemoveElement
<1>2. IsFiniteSet(R \cup {p}) /\ Cardinality(R \cup {p}) = Cardinality(R) + 1
  BY <1>1, FS_AddElement
<1>3. T = IF p \in T THEN R \cup {p} ELSE R
  OBVIOUS
<1>4. Cardinality(S) \in Nat /\ Cardinality(R) \in Nat
  BY <1>1, FS_CardinalityType
<1> HIDE DEF R
<1>5. IsFiniteSet(T) /\ Cardinality(T) = Cardinality(R) + (IF p \in T THEN 1 ELSE 0)
  <2>1. CASE p \in T
    BY <1>2, <1>3, <2>1
  <2>2. CASE p \notin T
    BY <1>1, <1>3, <1>4, <2>2
  <2> QED BY <2>1, <2>2
<1>6. Cardinality(R) = Cardinality(S) - (IF p \in S THEN 1 ELSE 0)
  BY <1>1, <1>4
<1>7. Cardinality(T) \in Nat
  BY <1>4, <1>5
<1> QED BY <1>4, <1>5, <1>6, <1>7

\* The copies are finitely many.
LEMMA FiniteCopies ==
  ASSUME NEW m, NEW where, NEW sending, NEW c
  PROVE  /\ IsFiniteSet(Counted(m, c)) /\ Cardinality(Counted(m, c)) \in Nat
         /\ IsFiniteSet(Putting(m, where, c)) /\ Cardinality(Putting(m, where, c)) \in Nat
         /\ Broadcasting(sending, c) \in 0 .. 1
         /\ Copies(m, where, sending, c) \in Nat
<1>1. IsFiniteSet(0 .. QueueSize)
  BY MessagingAssumption, FS_Interval, 0 \in Int, QueueSize \in Int
<1>2. IsFiniteSet(Place)
  BY <1>1, MessagingAssumption, FS_Product DEF Place
<1>3. Counted(m, c) \subseteq Place /\ Putting(m, where, c) \subseteq Tasks
  BY DEF Counted, Of, Putting
<1>4. IsFiniteSet(Counted(m, c)) /\ IsFiniteSet(Putting(m, where, c))
  BY <1>2, <1>3, MessagingAssumption, FS_Subset
<1>5. Broadcasting(sending, c) \in 0 .. 1
  BY DEF Broadcasting
<1>6. Cardinality(Counted(m, c)) \in Nat /\ Cardinality(Putting(m, where, c)) \in Nat
  BY <1>4, FS_CardinalityType
<1> QED BY <1>4, <1>5, <1>6 DEF Copies

\* What an exchange x, or NULL, adds to the copies of c at its place, and what
\* it adds on the stack of a task at label pc[t].
Counts(x, c) == IF x # NULL /\ x.call = c /\ x.sref THEN 1 ELSE 0
Puts(x, label, c) == IF label \in {"put", "fallback"} THEN Counts(x, c) ELSE 0

\* Writing x to a place p, and moving only task t to another label, changes
\* the number of copies by what is at p and what t was going to put.
LEMMA CopiesWrite ==
  ASSUME NEW m \in Mails, NEW p \in Place, NEW x \in Exchange \cup {NULL},
         NEW t \in Tasks, p = Stack(t) \/ p[2] # 0,
         NEW where, NEW then, \A u \in Tasks \ {t} : then[u] = where[u],
         NEW sending, NEW c, NEW w, Written(m, p, x, w)
  PROVE  Copies(w, then, sending, c)
         = Copies(m, where, sending, c) - Counts(m[p], c) + Counts(x, c)
           - Puts(m[Stack(t)], where[t], c) + Puts(w[Stack(t)], then[t], c)
<1>1. w[p] = x /\ \A q \in Place : q # p => w[q] = m[q]
  BY DEF Written
<1>2. Counted(w, c) \ {p} = Counted(m, c) \ {p}
  BY <1>1 DEF Counted, Of
<1>3. /\ p \in Counted(m, c) <=> m[p] # NULL /\ m[p].call = c /\ m[p].sref
      /\ p \in Counted(w, c) <=> x # NULL /\ x.call = c /\ x.sref
  BY <1>1 DEF Counted, Of
<1>4. Cardinality(Counted(w, c)) = Cardinality(Counted(m, c)) - Counts(m[p], c) + Counts(x, c)
  <2>1. IsFiniteSet(Counted(m, c))
    BY FiniteCopies
  <2>2. Cardinality(Counted(w, c))
        = Cardinality(Counted(m, c)) - (IF p \in Counted(m, c) THEN 1 ELSE 0)
                                     + (IF p \in Counted(w, c) THEN 1 ELSE 0)
    BY <1>2, <2>1, OneMember
  <2> QED BY <1>3, <2>2 DEF Counts
<1>5. \A u \in Tasks \ {t} : Stack(u) \in Place /\ w[Stack(u)] = m[Stack(u)]
  BY <1>1, StackPlace
<1>6. Putting(w, then, c) \ {t} = Putting(m, where, c) \ {t}
  BY <1>5 DEF Putting, Counted, Of
<1>7. /\ t \in Putting(m, where, c) <=> Puts(m[Stack(t)], where[t], c) = 1
      /\ t \in Putting(w, then, c) <=> Puts(w[Stack(t)], then[t], c) = 1
      /\ Puts(m[Stack(t)], where[t], c) \in {0, 1} /\ Puts(w[Stack(t)], then[t], c) \in {0, 1}
  BY StackPlace DEF Putting, Counted, Of, Puts, Counts
<1>8. Cardinality(Putting(w, then, c))
      = Cardinality(Putting(m, where, c)) - Puts(m[Stack(t)], where[t], c)
        + Puts(w[Stack(t)], then[t], c)
  <2>1. Cardinality(Putting(w, then, c))
        = Cardinality(Putting(m, where, c)) - (IF t \in Putting(m, where, c) THEN 1 ELSE 0)
                                            + (IF t \in Putting(w, then, c) THEN 1 ELSE 0)
    BY <1>6, FiniteCopies, OneMember
  <2> QED BY <1>7, <2>1
<1>9. Counts(m[p], c) \in {0, 1} /\ Counts(x, c) \in {0, 1}
  BY DEF Counts
<1> QED BY <1>4, <1>7, <1>8, <1>9, FiniteCopies DEF Copies

\* Nothing moves but a task that does not put.
LEMMA CopiesSame ==
  ASSUME NEW m \in Mails, NEW t \in Tasks,
         NEW where, NEW then, \A u \in Tasks \ {t} : then[u] = where[u],
         NEW sending, NEW c
  PROVE  Copies(m, then, sending, c)
         = Copies(m, where, sending, c)
           - Puts(m[Stack(t)], where[t], c) + Puts(m[Stack(t)], then[t], c)
<1> DEFINE p == Stack(t)
<1>1. p \in Place /\ m[p] \in Exchange \cup {NULL} /\ Written(m, p, m[p], m)
  BY StackPlace DEF Mails, Written
<1>2. Counts(m[p], c) \in {0, 1} /\ Puts(m[p], where[t], c) \in {0, 1}
      /\ Puts(m[p], then[t], c) \in {0, 1}
  BY DEF Counts, Puts
<1>3. Copies(m, then, sending, c)
      = Copies(m, where, sending, c) - Counts(m[p], c) + Counts(m[p], c)
        - Puts(m[p], where[t], c) + Puts(m[p], then[t], c)
  BY <1>1, CopiesWrite
<1> QED BY <1>2, <1>3, FiniteCopies

\* Receiving moves copies and changes no count.
LEMMA CopiesMove ==
  ASSUME NEW m \in Mails, NEW t \in Tasks,
         NEW where, NEW then, \A u \in Tasks \ {t} : then[u] = where[u],
         where[t] = "recv", then[t] = "work", NEW sending, NEW c
  PROVE  LET w == [q \in Place |-> m[Old(t, q)]]
         IN Copies(w, then, sending, c) = Copies(m, where, sending, c)
<1> DEFINE w == [q \in Place |-> m[Old(t, q)]]
           f == [q \in Counted(w, c) |-> Old(t, q)]
<1>1. \A q \in Place : w[q] = m[Old(t, q)]
  OBVIOUS
<1> HIDE DEF w
<1>2. f \in Bijection(Counted(w, c), Counted(m, c))
  <2>1. \A q \in Counted(w, c) : f[q] \in Counted(m, c)
    BY <1>1, OldNew DEF Counted, Of
  <2>2. \A q, r \in Counted(w, c) : f[q] = f[r] => q = r
    BY OldNew DEF Counted, Of
  <2>3. \A r \in Counted(m, c) : \E q \in Counted(w, c) : f[q] = r
    <3> TAKE r \in Counted(m, c)
    <3>1. New(t, r) \in Place /\ Old(t, New(t, r)) = r /\ r \in Place
      BY OldNew DEF Counted, Of
    <3>2. New(t, r) \in Counted(w, c)
      BY <1>1, <3>1 DEF Counted, Of
    <3> QED BY <3>1, <3>2
  <2>4. f \in [Counted(w, c) -> Counted(m, c)]
    BY <2>1
  <2> HIDE DEF f
  <2> QED BY <2>2, <2>3, <2>4, Fun_IsBij
<1>3. Cardinality(Counted(w, c)) = Cardinality(Counted(m, c))
  BY <1>2, FiniteCopies, FS_Bijection, Fun_ExistsBij
<1>4. Putting(w, then, c) = Putting(m, where, c)
  <2>1. \A u \in Tasks \ {t} : Stack(u) \in Place /\ Old(t, Stack(u)) = Stack(u)
    BY StackPlace DEF Old
  <2> QED BY <1>1, <2>1 DEF Putting, Counted, Of
<1> QED BY <1>3, <1>4 DEF Copies, w

\* Alone at its place, an exchange that counts is the only copy.
LEMMA CopiesZero ==
  ASSUME NEW m \in Mails, NEW where, NEW sending, NEW c
  PROVE  /\ Copies(m, where, sending, c) = 0 <=>
              Counted(m, c) = {} /\ Broadcasting(sending, c) = 0
         /\ \A q, r \in Counted(m, c) :
              Copies(m, where, sending, c) <= 1 => q = r /\ Broadcasting(sending, c) = 0
<1>1. Counted(m, c) = {} => Putting(m, where, c) = {}
  BY DEF Putting
<1>2. Cardinality(Counted(m, c)) = 0 <=> Counted(m, c) = {}
  BY FiniteCopies, FS_EmptySet
<1>3. Putting(m, where, c) = {} => Cardinality(Putting(m, where, c)) = 0
  BY FS_EmptySet
<1>4. ASSUME NEW q \in Counted(m, c), NEW r \in Counted(m, c),
             Copies(m, where, sending, c) <= 1
      PROVE  q = r /\ Broadcasting(sending, c) = 0
  <2>1. Cardinality(Counted(m, c)) = 1 /\ Broadcasting(sending, c) = 0
    BY <1>2, <1>4, FiniteCopies DEF Copies
  <2>2. \E x : Counted(m, c) = {x}
    BY <2>1, FiniteCopies, FS_Singleton
  <2> QED BY <2>1, <2>2
<1> QED BY <1>1, <1>2, <1>3, <1>4, FiniteCopies DEF Copies

-----------------------------------------------------------------------------
(* Writing to a place, and running a handler. *)

\* Together is symmetric.
LEMMA TogetherSymmetric ==
  ASSUME NEW x, NEW y, x.call = y.call, Together(x, y)
  PROVE  Together(y, x)
BY DEF Together

\* A copy written to a place fits with the others.
LEMMA WriteParts ==
  ASSUME NEW m \in Mails, NEW p \in Place, NEW x \in Exchange, Contents(m), Alone(m),
         x.type = "MSG_CON" => x.resp = NULL,
         x.type = "MSG_DIRECT" => x.call = Shared,
         x.call = Shared => x.sref /\ x.data,
         \A q \in Place : q # p /\ m[q] # NULL /\ m[q].call = x.call => Together(x, m[q]),
         NEW w, Written(m, p, x, w)
  PROVE  /\ w \in Mails /\ Contents(w) /\ Alone(w)
         /\ w[p] = x /\ x # NULL /\ \A q \in Place : q # p => w[q] = m[q]
         /\ \A c \in AllCalls : c # x.call => Of(w, c) \subseteq Of(m, c)
<1>1. w \in Mails /\ w[p] = x /\ \A q \in Place : q # p => w[q] = m[q]
  BY DEF Written
<1>2. x # NULL
  BY ExchangeAssumption
<1>3. Contents(w)
  BY <1>1 DEF Contents
<1>4. Alone(w)
  BY <1>1, TogetherSymmetric DEF Alone
<1>5. \A c \in AllCalls : c # x.call => Of(w, c) \subseteq Of(m, c)
  BY <1>1 DEF Of
<1> QED BY <1>1, <1>2, <1>3, <1>4, <1>5

\* What an exchange points to are blocks of its call.
LEMMA DataBlocks ==
  ASSUME NEW x \in Exchange
  PROVE  /\ x.call \in AllCalls /\ DataOf(x) \subseteq Blocks
         /\ x.data => <<x.call, "request">> \in DataOf(x)
         /\ \A b \in DataOf(x) : b[1] = x.call
<1>1. x.call \in AllCalls /\ x.resp \in Tasks \cup {NULL}
  BY DEF Exchange
<1> QED BY <1>1 DEF DataOf, Blocks

\* A handler is run once more, for one call.
LEMMA RanOnce ==
  ASSUME Types, NEW t \in Tasks, cur[t] # NULL, RunHandler(t)
  PROVE  /\ handlerRuns' \in [AllCalls -> Seq(Tasks)]
         /\ Len(handlerRuns'[cur[t].call]) = Len(handlerRuns[cur[t].call]) + 1
         /\ \A c \in AllCalls : c # cur[t].call => handlerRuns'[c] = handlerRuns[c]
<1>1. cur[t] \in Exchange /\ handlerRuns \in [AllCalls -> Seq(Tasks)]
  BY DEF Types
<1>2. cur[t].call \in AllCalls
  BY <1>1, DataBlocks
<1>3. /\ handlerRuns[cur[t].call] \in Seq(Tasks)
      /\ Append(handlerRuns[cur[t].call], t) \in Seq(Tasks)
      /\ Len(Append(handlerRuns[cur[t].call], t)) = Len(handlerRuns[cur[t].call]) + 1
  BY <1>1, <1>2
<1>4. handlerRuns' = [handlerRuns EXCEPT ![cur[t].call] = Append(handlerRuns[cur[t].call], t)]
  BY DEF RunHandler
<1> QED BY <1>1, <1>2, <1>3, <1>4

-----------------------------------------------------------------------------
(* Answers. *)

\* SendResponse, SendResponseByIdentity and what ProcRequest sends when the
\* message function did not, up to SharedSend.
Answer(t, to, resp) ==
  /\ cur' = [cur EXCEPT ![t] = [cur[t] EXCEPT !.type = "MSG_ACK", !.back = to, !.resp = resp]]
  /\ \/ to = NULL /\ RunHandler(t) /\ UNCHANGED pc
     \/ /\ to # NULL /\ UNCHANGED handlerRuns
        /\ Goto(t, IF Plain(cur'[t]) THEN "put" ELSE "raise")
  /\ Alloc(t, resp)
  /\ UNCHANGED <<queue, ref, caller, refused, bcast>>

\* An answer keeps the invariant: the exchange becomes MSG_ACK with its
\* response, and is handled here or on its way to SharedSend.
LEMMA AnswerStep ==
  ASSUME IInv, NEW t \in Tasks, pc[t] = "body", cur[t].type = "MSG_CON",
         NEW to \in Tasks \cup {NULL}, NEW resp \in Tasks \cup {NULL}, Answer(t, to, resp)
  PROVE  IInv'
<1> DEFINE y == cur[t]
           x == [cur[t] EXCEPT !.type = "MSG_ACK", !.back = to, !.resp = resp]
           p == Stack(t)
           w == mail'
<1>0. /\ Types /\ Sends /\ Contents(mail) /\ Alone(mail) /\ Unsent(mail) /\ Broadcast
      /\ Exact(mail, pc, sendPc, ref) /\ Alive(mail, sendPc, frees)
      /\ InUse(mail, sendPc, frees) /\ Once(mail, pc, handlerRuns)
  BY DEF IInv
<1>1. /\ p \in Place /\ p[1] = t /\ p[2] = 0 /\ mail \in Mails /\ y = mail[p]
      /\ y \in Exchange /\ y # NULL /\ y.resp = NULL /\ y.call \in AllCalls
  <2>1. p \in Place /\ p[1] = t /\ p[2] = 0 /\ mail \in Mails /\ y = mail[p]
    BY <1>0, StackPlace, MailType
  <2>2. y \in Exchange /\ y # NULL
    BY <1>0 DEF Types
  <2>3. y.resp = NULL
    BY <1>0, <2>1, <2>2 DEF Contents
  <2> QED BY <2>1, <2>2, <2>3, DataBlocks
<1>2. /\ x \in Exchange /\ x.call = y.call /\ x.data = y.data /\ x.sref = y.sref
      /\ x.type = "MSG_ACK" /\ x.back = to /\ x.resp = resp
      /\ DataOf(x) = DataOf(y) \cup (IF resp # NULL THEN {<<y.call, resp>>} ELSE {})
  <2>1. /\ x \in Exchange /\ x.call = y.call /\ x.data = y.data /\ x.sref = y.sref
        /\ x.type = "MSG_ACK" /\ x.back = to /\ x.resp = resp
    BY <1>1 DEF Exchange
  <2> HIDE DEF x
  <2> QED BY <1>1, <2>1 DEF DataOf
<1>3. cur' = [cur EXCEPT ![t] = x] /\ Written(mail, p, x, w)
  BY <1>0, <1>2, StackWrite DEF Answer
<1> HIDE DEF x
<1>4. cur'[t] = x /\ \A u \in Tasks \ {t} : cur'[u] = cur[u]
  BY <1>0, <1>3 DEF Types
<1>5. \/ to = NULL /\ RunHandler(t) /\ pc' = pc
      \/ /\ to # NULL /\ handlerRuns' = handlerRuns
         /\ pc' = [pc EXCEPT ![t] = IF Plain(x) THEN "put" ELSE "raise"]
  BY <1>4 DEF Answer, Goto
<1>6. /\ \A u \in Tasks \ {t} : pc'[u] = pc[u]
      /\ pc'[t] = IF to = NULL THEN "body" ELSE IF Plain(x) THEN "put" ELSE "raise"
  BY <1>0, <1>5 DEF Types
<1>7. \A q \in Place : q # p /\ mail[q] # NULL /\ mail[q].call = y.call => y.call = Shared
  BY <1>0, <1>1 DEF Alone, Together
<1>8. /\ w \in Mails /\ Contents(w) /\ Alone(w)
      /\ w[p] = x /\ x # NULL /\ \A q \in Place : q # p => w[q] = mail[q]
      /\ \A c \in AllCalls : c # x.call => Of(w, c) \subseteq Of(mail, c)
  <2>1. \A q \in Place : q # p /\ mail[q] # NULL /\ mail[q].call = x.call => Together(x, mail[q])
    BY <1>2, <1>7 DEF Together
  <2>2. x.call = Shared => x.sref /\ x.data
    BY <1>0, <1>1, <1>2 DEF Contents
  <2> QED BY <1>0, <1>1, <1>2, <1>3, <2>1, <2>2, WriteParts
<1>9. frees' \in [Blocks -> {NULL, 0, 1}]
      /\ \A b \in Blocks : frees'[b] = IF resp # NULL /\ b = <<y.call, resp>> THEN 0 ELSE frees[b]
  BY <1>0, <1>1 DEF Answer, Alloc, Types, Blocks
<1>10. Types'
  <2>1. cur' \in [Tasks -> Exchange \cup {NULL}]
    BY <1>0, <1>2, <1>3 DEF Types
  <2>2. pc' \in [Tasks -> Labels]
    BY <1>0, <1>5 DEF Types, Labels
  <2>3. \A u \in Tasks : cur'[u] = NULL <=> pc'[u] = "recv"
    BY <1>0, <1>4, <1>6, <1>8 DEF Types
  <2>4. handlerRuns' \in [AllCalls -> Seq(Tasks)]
    BY <1>0, <1>1, <1>5, RanOnce DEF Types
  <2> QED BY <1>0, <1>9, <2>1, <2>2, <2>3, <2>4 DEF Answer, Types, bcast
<1>11. Sends'
  BY <1>0, <1>2, <1>4, <1>6 DEF Sends
<1>12. Contents(mail)' /\ Alone(mail)'
  BY <1>3, <1>8
<1>13. Unsent(mail)'
  <2>1. ASSUME NEW c \in AllCalls, caller[c] = NULL
        PROVE  Of(w, c) = {} /\ handlerRuns'[c] = <<>>
    <3>1. c # y.call
      BY <1>0, <1>1, <2>1 DEF Unsent, Of
    <3> QED BY <1>0, <1>1, <1>2, <1>5, <1>8, <2>1, <3>1, RanOnce DEF Unsent
  <2> QED BY <1>3, <2>1 DEF Unsent, Answer
<1>14. Broadcast'
  <2>1. sendPc = "idle" => y.call # Shared
    BY <1>0, <1>1 DEF Broadcast
  <2>2. sendPc = "idle" => frees'[<<Shared, "request">>] = NULL
    BY <1>0, <1>9, <2>1 DEF Broadcast, Blocks, AllCalls
  <2> QED BY <1>0, <1>1, <1>2, <1>4, <1>6, <2>2 DEF Broadcast, Answer, bcast
<1>15. Exact(mail, pc, sendPc, ref)'
  <2>1. ASSUME NEW c \in AllCalls
        PROVE  Copies(w, pc', sendPc, c) = Copies(mail, pc, sendPc, c)
    <3>1. Counts(x, c) = Counts(y, c) /\ Counts(y, c) \in {0, 1}
      BY <1>1, <1>2, <1>8 DEF Counts
    <3>2. Puts(y, pc[t], c) = 0 /\ Puts(x, pc'[t], c) = 0
      BY <1>6 DEF Puts, Counts, Plain
    <3>3. Copies(w, pc', sendPc, c)
          = Copies(mail, pc, sendPc, c) - Counts(mail[p], c) + Counts(x, c)
            - Puts(mail[p], pc[t], c) + Puts(w[p], pc'[t], c)
      BY <1>1, <1>2, <1>3, <1>6, CopiesWrite
    <3> QED BY <1>1, <1>8, <3>1, <3>2, <3>3, FiniteCopies
  <2> QED BY <1>0, <1>3, <2>1 DEF Exact, Answer, bcast
<1>16. Alive(mail, sendPc, frees)'
  <2>1. \A b \in Blocks : frees[b] = 0 => frees'[b] = 0
    BY <1>9
  <2>2. \A q \in Place : w[q] # NULL => \A b \in DataOf(w[q]) : frees'[b] = 0
    <3> SUFFICES ASSUME NEW q \in Place, w[q] # NULL, NEW b \in DataOf(w[q])
                 PROVE  frees'[b] = 0
      OBVIOUS
    <3>1. CASE q = p
      <4>1. \A a \in DataOf(y) : frees[a] = 0 /\ a \in Blocks
        BY <1>0, <1>1, DataBlocks DEF Alive
      <4>2. b \in DataOf(x)
        BY <1>8, <3>1
      <4>3. b \in Blocks
        BY <1>2, <4>2, DataBlocks
      <4> QED BY <1>2, <1>9, <4>1, <4>2, <4>3
    <3>2. CASE q # p
      <4>1. w[q] = mail[q] /\ mail[q] \in Exchange
        BY <1>1, <1>8, <3>2 DEF Mails
      <4> QED BY <1>0, <2>1, <4>1, DataBlocks DEF Alive
    <3> QED BY <3>1, <3>2
  <2>3. <<Shared, "request">> \in Blocks
    BY DEF Blocks, AllCalls
  <2> QED BY <1>0, <1>3, <2>1, <2>2, <2>3 DEF Alive, Answer, bcast
<1>17. InUse(mail, sendPc, frees)'
  BY <1>0, <1>1, <1>2, <1>3, <1>8, <1>9 DEF InUse, Answer, bcast
<1>18. Once(mail, pc, handlerRuns)'
  <2> SUFFICES ASSUME NEW c \in Calls
               PROVE  /\ Len(handlerRuns'[c]) <= 1
                      /\ \A q \in Pending(w, pc', c) : handlerRuns'[c] = <<>>
                           /\ \A r \in Pending(w, pc', c) : q = r
    BY <1>3 DEF Once
  <2>1. \A q \in Pending(w, pc', c) : q # p => q \in Pending(mail, pc, c)
    <3>1. \A q \in Place : q # p => q[2] # 0 \/ q[1] \in Tasks \ {t}
      BY StackPlace
    <3> QED BY <1>6, <1>8, <3>1 DEF Pending, Of
  <2>2. CASE c # y.call
    <3>1. handlerRuns'[c] = handlerRuns[c]
      BY <1>0, <1>1, <1>5, <2>2, RanOnce DEF AllCalls
    <3>2. p \notin Pending(w, pc', c)
      BY <1>2, <1>8, <2>2 DEF Pending, Of
    <3> QED BY <1>0, <2>1, <3>1, <3>2 DEF Once
  <2>3. CASE c = y.call
    <3>1. p \in Pending(mail, pc, c)
      BY <1>1, <2>3 DEF Pending, Of
    <3>2. Pending(w, pc', c) \subseteq {p} /\ handlerRuns[c] = <<>>
      BY <1>0, <2>1, <3>1 DEF Once
    <3>3. CASE to = NULL
      <4>1. p \notin Pending(w, pc', c)
        BY <1>1, <1>2, <1>6, <1>8, <3>3 DEF Pending
      <4>2. Len(handlerRuns[c]) = 0
        BY <3>2
      <4>3. Len(handlerRuns'[c]) = Len(handlerRuns[c]) + 1
        BY <1>0, <1>1, <1>5, <2>3, <3>3, RanOnce
      <4> QED BY <3>2, <4>1, <4>2, <4>3
    <3>4. CASE to # NULL
      BY <1>5, <3>2, <3>4
    <3> QED BY <3>3, <3>4
  <2> QED BY <2>2, <2>3
<1> QED BY <1>10, <1>11, <1>12, <1>13, <1>14, <1>15, <1>16, <1>17, <1>18 DEF IInv

-----------------------------------------------------------------------------
(* The steps of TaskEntry. *)

\* A step that leaves queues and stacks leaves mail.
LEMMA SameMail ==
  ASSUME UNCHANGED <<queue, cur>>
  PROVE  mail' = mail
BY DEF mail

\* Task t goes to another label, and nothing else happens.
LEMMA MoveStep ==
  ASSUME IInv, NEW t \in Tasks, cur[t] # NULL, NEW label \in Labels \ {"recv"},
         Goto(t, label), Sends',
         UNCHANGED <<queue, cur, ref, caller, refused, bcast, frees, handlerRuns>>,
         label \in {"put", "fallback"} /\ cur[t].sref <=>
           pc[t] \in {"put", "fallback"} /\ cur[t].sref,
         cur[t].type = "MSG_ACK" /\ label \in {"work", "raise", "put", "fallback"} =>
           pc[t] \in {"work", "raise", "put", "fallback"},
         cur[t].call = Shared => sendPc = "done"
  PROVE  IInv'
<1>0. /\ Types /\ Sends /\ Contents(mail) /\ Alone(mail) /\ Unsent(mail) /\ Broadcast
      /\ Exact(mail, pc, sendPc, ref) /\ Alive(mail, sendPc, frees)
      /\ InUse(mail, sendPc, frees) /\ Once(mail, pc, handlerRuns)
  BY DEF IInv
<1>1. /\ mail' = mail /\ mail \in Mails /\ mail[Stack(t)] = cur[t]
      /\ Stack(t) \in Place /\ Stack(t)[1] = t /\ Stack(t)[2] = 0
  BY <1>0, SameMail, MailType, StackPlace
<1>2. pc'[t] = label /\ \A u \in Tasks \ {t} : pc'[u] = pc[u]
  BY <1>0 DEF Types, Goto
<1>3. Types'
  <2>1. pc' \in [Tasks -> Labels]
    BY <1>0 DEF Types, Goto
  <2> QED BY <1>0, <1>2, <2>1 DEF Types, bcast
<1>4. Unsent(mail)' /\ Contents(mail)' /\ Alone(mail)'
  BY <1>0, <1>1 DEF Unsent
<1>5. Broadcast'
  BY <1>0, <1>2 DEF Broadcast, bcast
<1>6. Exact(mail, pc, sendPc, ref)'
  <2>1. ASSUME NEW c \in AllCalls
        PROVE  Copies(mail, pc', sendPc, c) = Copies(mail, pc, sendPc, c)
    <3>1. Puts(cur[t], pc[t], c) = Puts(cur[t], label, c) /\ Puts(cur[t], label, c) \in {0, 1}
      BY DEF Puts, Counts
    <3>2. Copies(mail, pc', sendPc, c)
          = Copies(mail, pc, sendPc, c) - Puts(cur[t], pc[t], c) + Puts(cur[t], label, c)
      BY <1>1, <1>2, CopiesSame
    <3> QED BY <3>1, <3>2, FiniteCopies
  <2> QED BY <1>0, <1>1, <2>1 DEF Exact, bcast
<1>7. Alive(mail, sendPc, frees)' /\ InUse(mail, sendPc, frees)'
  BY <1>0, <1>1 DEF bcast
<1>8. Once(mail, pc, handlerRuns)'
  <2>1. ASSUME NEW c \in Calls
        PROVE  Pending(mail, pc', c) \subseteq Pending(mail, pc, c)
    <3>1. \A q \in Place : q[2] # 0 \/ q[1] \in Tasks \ {t} \/ q = Stack(t)
      BY StackPlace
    <3> QED BY <1>1, <1>2, <3>1 DEF Pending, Of
  <2> QED BY <1>0, <1>1, <2>1 DEF Once
<1> QED BY <1>3, <1>4, <1>5, <1>6, <1>7, <1>8 DEF IInv

\* A handler runs for a copy whose handler is still to be run; the copy's
\* task goes on to a label where it is not.
LEMMA RunParts ==
  ASSUME IInv, NEW t \in Tasks, cur[t] # NULL, RunHandler(t), NEW label \in Labels \ {"recv"},
         Goto(t, label), label \notin {"work", "raise", "put", "fallback"},
         UNCHANGED <<queue, cur, caller, refused, bcast, frees>>,
         \/ cur[t].type = "MSG_ACK" /\ pc[t] \in {"work", "raise", "put", "fallback"}
         \/ cur[t].type = "MSG_DIRECT",
         cur[t].call = Shared => sendPc = "done",
         ref' \in [AllCalls -> Nat \cup {NULL}],
         \A c \in AllCalls : ref'[c] = ref[c] \/ cur[t].call = c,
         Exact(mail, pc', sendPc, ref')
  PROVE  IInv'
<1>0. /\ Types /\ Sends /\ Contents(mail) /\ Alone(mail) /\ Unsent(mail) /\ Broadcast
      /\ Alive(mail, sendPc, frees)
      /\ InUse(mail, sendPc, frees) /\ Once(mail, pc, handlerRuns)
  BY DEF IInv
<1>1. /\ mail' = mail /\ mail \in Mails /\ mail[Stack(t)] = cur[t]
      /\ Stack(t) \in Place /\ Stack(t)[1] = t /\ Stack(t)[2] = 0
  BY <1>0, SameMail, MailType, StackPlace
<1>2. pc'[t] = label /\ \A u \in Tasks \ {t} : pc'[u] = pc[u]
  BY <1>0 DEF Types, Goto
<1>3. Types'
  <2>1. pc' \in [Tasks -> Labels]
    BY <1>0 DEF Types, Goto
  <2> QED BY <1>0, <1>2, <2>1, RanOnce DEF Types, bcast
<1>4. Sends' /\ Contents(mail)' /\ Alone(mail)'
  BY <1>0, <1>1, <1>2 DEF Sends
<1>5. Unsent(mail)'
  <2>1. ASSUME NEW c \in AllCalls, caller[c] = NULL
        PROVE  Of(mail, c) = {} /\ handlerRuns'[c] = <<>>
    <3>1. c # cur[t].call
      BY <1>0, <1>1, <2>1 DEF Unsent, Of
    <3> QED BY <1>0, <2>1, <3>1, RanOnce DEF Unsent
  <2> QED BY <1>1, <2>1 DEF Unsent
<1>6. Broadcast'
  <2>1. sendPc = "share" => ref'[Shared] = ref[Shared]
    BY DEF AllCalls
  <2> QED BY <1>0, <1>2, <2>1 DEF Broadcast, bcast
<1>7. Alive(mail, sendPc, frees)' /\ InUse(mail, sendPc, frees)'
      /\ Exact(mail, pc, sendPc, ref)'
  BY <1>0, <1>1 DEF bcast
<1>8. Once(mail, pc, handlerRuns)'
  <2> SUFFICES ASSUME NEW c \in Calls
               PROVE  /\ Len(handlerRuns'[c]) <= 1
                      /\ \A q \in Pending(mail, pc', c) : handlerRuns'[c] = <<>>
                           /\ \A r \in Pending(mail, pc', c) : q = r
    BY <1>1 DEF Once
  <2>1. Pending(mail, pc', c) \subseteq Pending(mail, pc, c)
    <3>1. \A q \in Place : q[2] # 0 \/ q[1] \in Tasks \ {t} \/ q = Stack(t)
      BY StackPlace
    <3> QED BY <1>1, <1>2, <3>1 DEF Pending, Of
  <2>2. CASE c # cur[t].call
    <3>1. handlerRuns'[c] = handlerRuns[c]
      BY <1>0, <2>2, RanOnce DEF AllCalls
    <3> QED BY <1>0, <2>1, <3>1 DEF Once
  <2>3. CASE c = cur[t].call
    <3>1. cur[t].type = "MSG_ACK" /\ pc[t] \in {"work", "raise", "put", "fallback"}
      BY <1>0, <1>1, <2>3, MessagingAssumption DEF Contents
    <3>2. Stack(t) \in Pending(mail, pc, c) /\ Stack(t) \notin Pending(mail, pc', c)
      BY <1>1, <1>2, <2>3, <3>1 DEF Pending, Of
    <3>3. Pending(mail, pc', c) = {} /\ handlerRuns[c] = <<>>
      BY <1>0, <2>1, <3>2 DEF Once
    <3>4. Len(handlerRuns[c]) = 0
      BY <3>3
    <3>5. Len(handlerRuns'[c]) = Len(handlerRuns[c]) + 1
      BY <1>0, <2>3, RanOnce
    <3> QED BY <3>3, <3>4, <3>5
  <2> QED BY <2>2, <2>3
<1> QED BY <1>3, <1>4, <1>5, <1>6, <1>7, <1>8 DEF IInv

\* A task with an exchange of the broadcast got it when it was begun.
LEMMA SharedSent ==
  ASSUME IInv, NEW t \in Tasks, cur[t] # NULL, cur[t].call = Shared
  PROVE  sendPc # "idle" /\ (pc[t] # "work" => sendPc = "done")
<1>1. Types /\ Unsent(mail) /\ Broadcast
  BY DEF IInv
<1>2. Stack(t) \in Of(mail, Shared)
  BY <1>1, StackPlace, MailType DEF Of
<1>3. caller[Shared] # NULL
  BY <1>1, <1>2 DEF Unsent, AllCalls
<1> QED BY <1>1, <1>3 DEF Broadcast

\* Work keeps the invariant.
LEMMA WorkStep == ASSUME IInv, NEW t \in Tasks, Work(t) PROVE IInv'
<1>0. Types /\ Sends /\ Exact(mail, pc, sendPc, ref)
  BY DEF IInv
<1>1. cur[t] # NULL /\ pc[t] = "work"
  BY <1>0 DEF Types, Work
<1>2. cur[t].call = Shared => sendPc = "done"
  BY <1>0, <1>1, SharedSent DEF Types, Work, Sending
<1>3. CASE cur[t].type \in {"MSG_ACK", "MSG_DIRECT"}
  <2>1. mail \in Mails /\ mail[Stack(t)] = cur[t]
    BY <1>0, MailType
  <2>2. pc'[t] = "free" /\ \A u \in Tasks \ {t} : pc'[u] = pc[u]
    BY <1>0, <1>3 DEF Types, Goto, Work
  <2>3. ASSUME NEW c \in AllCalls
        PROVE  Copies(mail, pc', sendPc, c) = Copies(mail, pc, sendPc, c)
    <3>1. Puts(cur[t], pc[t], c) = 0 /\ Puts(cur[t], pc'[t], c) = 0
      BY <1>1, <2>2 DEF Puts
    <3>2. Copies(mail, pc', sendPc, c)
          = Copies(mail, pc, sendPc, c) - Puts(cur[t], pc[t], c) + Puts(cur[t], pc'[t], c)
      BY <2>1, <2>2, CopiesSame
    <3> QED BY <3>1, <3>2, FiniteCopies
  <2>4. Exact(mail, pc', sendPc, ref')
    BY <1>0, <2>3 DEF Exact, Work
  <2> QED BY <1>0, <1>1, <1>2, <1>3, <2>4, RunParts DEF Work, Labels, Types
<1>4. CASE cur[t].type \notin {"MSG_ACK", "MSG_DIRECT"}
  <2>1. Sends'
    BY <1>0, <1>4 DEF Sends, Work, Goto, Types
  <2> QED BY <1>1, <1>2, <1>4, <2>1, MoveStep DEF Work, Labels
<1> QED BY <1>3, <1>4

\* The return of a message function keeps the invariant.
LEMMA FinishStep == ASSUME IInv, NEW t \in Tasks, Finish(t) PROVE IInv'
<1>0. Types /\ Sends /\ Contents(mail)
  BY DEF IInv
<1>1. /\ cur[t] # NULL /\ pc[t] = "body" /\ cur[t] \in Exchange
      /\ cur[t].type = "MSG_CON" => cur[t].resp = NULL
  <2>1. cur[t] # NULL /\ pc[t] = "body" /\ cur[t] \in Exchange
    BY <1>0 DEF Types, Finish
  <2>2. Stack(t) \in Place /\ mail[Stack(t)] = cur[t]
    BY <1>0, StackPlace, MailType
  <2> QED BY <1>0, <2>1, <2>2 DEF Contents
<1>2. CASE cur[t].type = "MSG_CON"
  <2>1. [cur[t] EXCEPT !.type = "MSG_ACK", !.back = cur[t].back, !.resp = NULL]
        = [cur[t] EXCEPT !.type = "MSG_ACK", !.resp = cur[t].resp]
    BY <1>1, <1>2 DEF Exchange
  <2>2. Answer(t, cur[t].back, NULL)
    BY <1>0, <1>1, <1>2, <2>1 DEF Answer, Finish, Respond, Types, Alloc
  <2> QED BY <1>1, <1>2, <2>2, AnswerStep DEF Exchange
<1>3. CASE cur[t].type # "MSG_CON"
  <2>1. Sends'
    BY <1>0, <1>3 DEF Sends, Finish, Goto, Types
  <2>2. cur[t].call = Shared => sendPc = "done"
    BY <1>1, SharedSent
  <2> QED BY <1>1, <1>3, <2>1, <2>2, MoveStep DEF Finish, Labels
<1> QED BY <1>2, <1>3

\* The two kinds of response keep the invariant.
LEMMA ResponseStep ==
  ASSUME IInv, NEW t \in Tasks, SendResponse(t) \/ SendResponseByIdentity(t)
  PROVE  IInv'
<1>0. Types
  BY DEF IInv
<1>1. /\ cur[t] # NULL /\ pc[t] = "body" /\ cur[t] \in Exchange /\ cur[t].type = "MSG_CON"
      /\ cur[t].back \in Tasks \cup {NULL}
  <2>1. cur[t] # NULL /\ pc[t] = "body" /\ cur[t] \in Exchange /\ cur[t].type = "MSG_CON"
    BY <1>0 DEF Types, SendResponse, SendResponseByIdentity
  <2> QED BY <2>1 DEF Exchange
<1>2. CASE SendResponse(t)
  <2>1. PICK resp \in {t, NULL} : Respond(t, resp)
    BY <1>2 DEF SendResponse
  <2>2. [cur[t] EXCEPT !.type = "MSG_ACK", !.back = cur[t].back, !.resp = resp]
        = [cur[t] EXCEPT !.type = "MSG_ACK", !.resp = resp]
    BY <1>1 DEF Exchange
  <2>3. Answer(t, cur[t].back, resp)
    BY <1>0, <1>1, <1>2, <2>1, <2>2 DEF Answer, SendResponse, Respond, Types
  <2> QED BY <1>1, <2>3, AnswerStep
<1>3. CASE SendResponseByIdentity(t)
  <2>1. PICK to \in Tasks, resp \in {t, NULL} :
          LET x == [cur[t] EXCEPT !.type = "MSG_ACK", !.back = to, !.resp = resp]
          IN /\ cur' = [cur EXCEPT ![t] = x]
             /\ Goto(t, IF Plain(x) THEN "put" ELSE "raise")
             /\ Alloc(t, resp)
    BY <1>3 DEF SendResponseByIdentity
  <2>2. Answer(t, to, resp)
    BY <1>0, <1>1, <1>3, <2>1, MessagingAssumption DEF Answer, SendResponseByIdentity, Types
  <2> QED BY <1>1, <2>2, AnswerStep
<1> QED BY <1>2, <1>3

-----------------------------------------------------------------------------
(* Responses: SharedSend, and what happens when it fails. *)

\* No memory for the counter: the task turns to the fallback.
LEMMA RaiseFailsStep == ASSUME IInv, NEW t \in Tasks, RaiseFails(t) PROVE IInv'
<1>0. Types /\ Sends
  BY DEF IInv
<1>1. cur[t] # NULL /\ pc[t] = "raise" /\ ~ cur[t].sref
  BY <1>0 DEF Types, RaiseFails
<1>2. Sends'
  BY <1>0 DEF Sends, RaiseFails, Goto, Types
<1>3. cur[t].call = Shared => sendPc = "done"
  BY <1>1, SharedSent
<1> QED BY <1>1, <1>2, <1>3, MoveStep DEF RaiseFails, Labels

\* The response is handled here.  Its own copy keeps a reference.
LEMMA FallbackStep == ASSUME IInv, NEW t \in Tasks, Fallback(t) PROVE IInv'
<1>0. Types /\ Sends /\ Exact(mail, pc, sendPc, ref)
  BY DEF IInv
<1>1. /\ cur[t] # NULL /\ pc[t] = "fallback" /\ cur[t].type = "MSG_ACK"
      /\ cur[t] \in Exchange /\ cur[t].call \in AllCalls
  <2>1. cur[t] # NULL /\ pc[t] = "fallback" /\ cur[t] \in Exchange
    BY <1>0 DEF Types, Fallback
  <2> QED BY <1>0, <2>1, DataBlocks DEF Sends
<1>2. cur[t].call = Shared => sendPc = "done"
  BY <1>1, SharedSent
<1>3. /\ mail \in Mails /\ mail[Stack(t)] = cur[t] /\ Stack(t) \in Place
      /\ pc'[t] = "body" /\ \A u \in Tasks \ {t} : pc'[u] = pc[u]
  BY <1>0, StackPlace, MailType DEF Types, Goto, Fallback
<1>4. ASSUME NEW c \in AllCalls
      PROVE  Copies(mail, pc', sendPc, c) = Copies(mail, pc, sendPc, c) - Counts(cur[t], c)
  <2>1. Puts(cur[t], pc[t], c) = Counts(cur[t], c) /\ Puts(cur[t], pc'[t], c) = 0
    BY <1>1, <1>3 DEF Puts
  <2>2. Copies(mail, pc', sendPc, c)
        = Copies(mail, pc, sendPc, c) - Puts(cur[t], pc[t], c) + Puts(cur[t], pc'[t], c)
    BY <1>3, CopiesSame
  <2> QED BY <2>1, <2>2, FiniteCopies DEF Counts
<1>5. CASE cur[t].sref
  <2> DEFINE d == cur[t].call
             n == Copies(mail, pc, sendPc, d)
  <2>1. n \in Nat /\ n >= 2
    <3>1. Counts(cur[t], d) = 1
      BY <1>1, <1>5 DEF Counts
    <3>2. Copies(mail, pc', sendPc, d) \in Nat /\ n \in Nat
      BY FiniteCopies
    <3>3. Stack(t) \in Counted(mail, d)
      BY <1>1, <1>3, <1>5 DEF Counted, Of
    <3>4. Copies(mail, pc', sendPc, d) # 0
      BY <1>3, <3>3, CopiesZero
    <3>5. Copies(mail, pc', sendPc, d) = n - 1
      BY <1>1, <1>4, <3>1
    <3> QED BY <3>2, <3>4, <3>5
  <2>2. ref[d] = n
    BY <1>0, <1>1, <2>1 DEF Exact
  <2>3. Lower(ref[d]) = n - 1 /\ n - 1 # NULL /\ n - 1 \in Nat
    BY <2>1, <2>2, MessagingAssumption DEF Lower
  <2>4. ref' = [ref EXCEPT ![d] = n - 1] /\ cur' = cur
    BY <1>5, <2>3 DEF Fallback
  <2> HIDE DEF n
  <2>5. /\ ref' \in [AllCalls -> Nat \cup {NULL}] /\ ref'[d] = n - 1
        /\ \A c \in AllCalls : c # d => ref'[c] = ref[c]
    BY <1>0, <1>1, <2>3, <2>4 DEF Types
  <2>6. Exact(mail, pc', sendPc, ref')
    <3>1. ASSUME NEW c \in AllCalls, c # d
          PROVE  Copies(mail, pc', sendPc, c) = Copies(mail, pc, sendPc, c)
      <4>1. Counts(cur[t], c) = 0
        BY <3>1 DEF Counts
      <4> QED BY <1>4, <4>1, FiniteCopies
    <3>2. Copies(mail, pc', sendPc, d) = n - 1
      <4>1. Counts(cur[t], d) = 1
        BY <1>1, <1>5 DEF Counts
      <4> QED BY <1>1, <1>4, <4>1 DEF n
    <3>3. n - 1 # 0
      BY <2>1
    <3> QED BY <1>0, <2>5, <3>1, <3>2, <3>3 DEF Exact
  <2> QED BY <1>1, <1>2, <2>4, <2>5, <2>6, RunParts DEF Fallback, Labels
<1>6. CASE ~ cur[t].sref
  <2>1. ref' = ref /\ cur' = cur
    BY <1>6 DEF Fallback
  <2>2. ASSUME NEW c \in AllCalls
        PROVE  Copies(mail, pc', sendPc, c) = Copies(mail, pc, sendPc, c)
    <3>1. Counts(cur[t], c) = 0
      BY <1>6 DEF Counts
    <3> QED BY <1>4, <3>1, FiniteCopies
  <2>3. Exact(mail, pc', sendPc, ref')
    BY <1>0, <2>1, <2>2 DEF Exact
  <2>4. ref' \in [AllCalls -> Nat \cup {NULL}]
    BY <1>0, <2>1 DEF Types
  <2> QED BY <1>1, <1>2, <2>1, <2>3, <2>4, RunParts DEF Fallback, Labels
<1> QED BY <1>5, <1>6

\* The full queue leaves the response at the fallback; otherwise it is copied,
\* and the copy that was counted before is there.
LEMMA PutResponseStep == ASSUME IInv, NEW t \in Tasks, PutResponse(t) PROVE IInv'
<1>0. /\ Types /\ Sends /\ Contents(mail) /\ Alone(mail) /\ Unsent(mail) /\ Broadcast
      /\ Exact(mail, pc, sendPc, ref) /\ Alive(mail, sendPc, frees)
      /\ InUse(mail, sendPc, frees) /\ Once(mail, pc, handlerRuns)
  BY DEF IInv
<1> DEFINE x == cur[t]
<1>1. /\ x # NULL /\ pc[t] = "put" /\ x.type = "MSG_ACK" /\ x.back \in Tasks
      /\ (x.sref \/ Plain(x)) /\ x \in Exchange
  <2>1. x # NULL /\ pc[t] = "put" /\ x \in Exchange
    BY <1>0 DEF Types, PutResponse
  <2> QED BY <1>0, <2>1 DEF Sends
<1>2. x.call = Shared => sendPc = "done"
  BY <1>1, SharedSent
<1>3. CASE Full(x.back)
  <2>1. Sends'
    BY <1>0, <1>3 DEF Sends, PutResponse, Goto, Types
  <2> QED BY <1>1, <1>2, <1>3, <2>1, MoveStep DEF PutResponse, Labels
<1>4. CASE ~ Full(x.back)
  <2>1. Put(x.back, x) /\ UNCHANGED <<cur, ref, caller, refused, bcast, frees, handlerRuns>>
        /\ pc' = [pc EXCEPT ![t] = "body"]
    BY <1>4 DEF PutResponse, Goto
  <2>2. PICK p \in Place : p[2] # 0 /\ mail[p] = NULL /\ Written(mail, p, x, mail')
    BY <1>0, <1>1, <1>4, <2>1, PutWrite
  <2>3. /\ Stack(t) \in Place /\ Stack(t)[1] = t /\ Stack(t)[2] = 0
        /\ mail[Stack(t)] = x /\ mail \in Mails
    BY <1>0, StackPlace, MailType
  <2>4. x.call \in AllCalls
    BY <1>1, DataBlocks
  <2> DEFINE w == mail'
  <2>5. /\ w \in Mails /\ Contents(w) /\ Alone(w)
        /\ w[p] = x /\ \A q \in Place : q # p => w[q] = mail[q]
        /\ \A c \in AllCalls : c # x.call => Of(w, c) \subseteq Of(mail, c)
    <3>1. Together(x, x)
      BY <1>1 DEF Together, DataOf, Plain
    <3>2. \A q \in Place : q # p /\ mail[q] # NULL /\ mail[q].call = x.call => Together(x, mail[q])
      BY <1>0, <1>1, <2>3, <3>1 DEF Alone
    <3>3. x.call = Shared => x.sref /\ x.data
      BY <1>0, <1>1, <2>3 DEF Contents
    <3> HIDE DEF x
    <3> QED BY <1>0, <1>1, <2>2, <2>3, <3>2, <3>3, WriteParts
  <2>6. p # Stack(t)
    BY <2>2, <2>3
  <2>7. pc'[t] = "body" /\ \A u \in Tasks \ {t} : pc'[u] = pc[u]
    BY <1>0, <2>1 DEF Types
  <2>8. Types'
    <3>1. pc' \in [Tasks -> Labels]
      BY <1>0, <2>1 DEF Types, Labels
    <3>2. queue' \in [Tasks -> Seq(Exchange)] /\ \A u \in Tasks : Len(queue'[u]) <= QueueSize
      <4>1. queue[x.back] \in Seq(Exchange) /\ Len(queue[x.back]) < QueueSize /\ QueueSize \in Nat
        BY <1>0, <1>1, <1>4, MessagingAssumption DEF Types, Full
      <4>2. /\ Append(queue[x.back], x) \in Seq(Exchange)
            /\ Len(Append(queue[x.back], x)) <= QueueSize
        BY <1>1, <4>1
      <4> QED BY <1>0, <1>1, <2>1, <4>2 DEF Types, Put
    <3> QED BY <1>0, <1>1, <2>1, <2>7, <3>1, <3>2 DEF Types, bcast
  <2>9. Sends' /\ Contents(mail)' /\ Alone(mail)'
    BY <1>0, <2>1, <2>5, <2>6, <2>7 DEF Sends
  <2>10. Unsent(mail)'
    <3>1. \A c \in AllCalls : caller[c] = NULL => c # x.call
      BY <1>0, <1>1, <2>3 DEF Unsent, Of
    <3> QED BY <1>0, <2>1, <2>5, <2>6, <3>1 DEF Unsent
  <2>11. Broadcast'
    BY <1>0, <1>1, <1>2, <2>1, <2>7 DEF Broadcast, bcast
  <2>12. Exact(mail, pc, sendPc, ref)'
    <3>1. ASSUME NEW c \in AllCalls
          PROVE  Copies(w, pc', sendPc, c) = Copies(mail, pc, sendPc, c)
      <4>1. /\ Counts(NULL, c) = 0 /\ Counts(x, c) \in {0, 1}
            /\ Puts(x, pc[t], c) = Counts(x, c) /\ Puts(x, pc'[t], c) = 0
        BY <1>1, <2>7 DEF Puts, Counts
      <4>2. w[Stack(t)] = x
        BY <2>3, <2>5, <2>6
      <4>3. Copies(w, pc', sendPc, c)
            = Copies(mail, pc, sendPc, c) - Counts(mail[p], c) + Counts(x, c)
              - Puts(mail[Stack(t)], pc[t], c) + Puts(w[Stack(t)], pc'[t], c)
        <5> HIDE DEF x
        <5> QED BY <1>1, <2>2, <2>3, <2>7, CopiesWrite
      <4> QED BY <2>2, <2>3, <4>1, <4>2, <4>3, FiniteCopies
    <3> QED BY <1>0, <2>1, <2>6, <3>1 DEF Exact, bcast
  <2>13. Alive(mail, sendPc, frees)'
    <3>1. \A q \in Place : w[q] # NULL => \A b \in DataOf(w[q]) : frees[b] = 0
      BY <1>0, <1>1, <2>3, <2>5 DEF Alive
    <3> QED BY <1>0, <2>1, <2>6, <3>1 DEF Alive, bcast
  <2>14. InUse(mail, sendPc, frees)'
    <3>1. \A q \in Place : mail[q] # NULL => w[q] = mail[q]
      BY <2>2, <2>5
    <3> QED BY <1>0, <2>1, <2>6, <3>1 DEF InUse, bcast
  <2>15. Once(mail, pc, handlerRuns)'
    <3> SUFFICES ASSUME NEW c \in Calls
                 PROVE  /\ Len(handlerRuns[c]) <= 1
                        /\ \A q \in Pending(w, pc', c) : handlerRuns[c] = <<>>
                             /\ \A r \in Pending(w, pc', c) : q = r
      BY <2>1, <2>6 DEF Once
    <3>1. Stack(t) \notin Pending(w, pc', c)
      BY <1>1, <2>3, <2>5, <2>6, <2>7 DEF Pending
    <3>2. \A q \in Pending(w, pc', c) : q # p => q \in Pending(mail, pc, c) /\ q # Stack(t)
      <4>1. \A q \in Place : q[2] # 0 \/ q[1] \in Tasks \ {t} \/ q = Stack(t)
        BY StackPlace
      <4> QED BY <2>5, <2>7, <3>1, <4>1 DEF Pending, Of
    <3>3. CASE c = x.call
      <4>1. Stack(t) \in Pending(mail, pc, c)
        BY <1>1, <2>3, <3>3 DEF Pending, Of
      <4>2. Pending(w, pc', c) \subseteq {p} /\ handlerRuns[c] = <<>>
        BY <1>0, <3>2, <4>1 DEF Once
      <4> QED BY <1>0, <4>2 DEF Once
    <3>4. CASE c # x.call
      <4>1. p \notin Pending(w, pc', c)
        BY <2>5, <3>4 DEF Pending, Of
      <4> QED BY <1>0, <3>2, <4>1 DEF Once
    <3> QED BY <3>3, <3>4
  <2> QED BY <2>8, <2>9, <2>10, <2>11, <2>12, <2>13, <2>14, <2>15 DEF IInv
<1> QED BY <1>3, <1>4

\* The counter is raised for the copy that will be put: by one, or to two when
\* it is new.
LEMMA RaiseResponseStep == ASSUME IInv, NEW t \in Tasks, RaiseResponse(t) PROVE IInv'
<1>0. /\ Types /\ Sends /\ Contents(mail) /\ Alone(mail) /\ Unsent(mail) /\ Broadcast
      /\ Exact(mail, pc, sendPc, ref) /\ Alive(mail, sendPc, frees)
      /\ InUse(mail, sendPc, frees) /\ Once(mail, pc, handlerRuns)
  BY DEF IInv
<1> DEFINE y == cur[t]
           d == y.call
           x == [cur[t] EXCEPT !.sref = TRUE]
           p == Stack(t)
           w == mail'
<1>1. /\ p \in Place /\ p[1] = t /\ p[2] = 0 /\ mail \in Mails /\ y = mail[p]
      /\ y \in Exchange /\ y # NULL /\ d \in AllCalls
      /\ pc[t] = "raise" /\ y.type = "MSG_ACK" /\ y.back \in Tasks /\ ~ Plain(y)
  <2>1. p \in Place /\ p[1] = t /\ p[2] = 0 /\ mail \in Mails /\ y = mail[p]
    BY <1>0, StackPlace, MailType
  <2>2. y \in Exchange /\ y # NULL /\ pc[t] = "raise"
    BY <1>0 DEF Types, RaiseResponse
  <2>3. y.type = "MSG_ACK" /\ y.back \in Tasks /\ ~ Plain(y)
    BY <1>0, <2>2 DEF Sends
  <2> QED BY <2>1, <2>2, <2>3, DataBlocks
<1>2. /\ x \in Exchange /\ x.call = d /\ x.data = y.data /\ x.sref = TRUE
      /\ x.type = "MSG_ACK" /\ x.back = y.back /\ x.resp = y.resp /\ DataOf(x) = DataOf(y)
      /\ y.sref => x = y
  <2>1. /\ x \in Exchange /\ x.call = d /\ x.data = y.data /\ x.sref = TRUE
        /\ x.type = "MSG_ACK" /\ x.back = y.back /\ x.resp = y.resp
        /\ y.sref => x = y
    BY <1>1 DEF Exchange
  <2> HIDE DEF x
  <2> QED BY <2>1 DEF DataOf
<1>3. cur' = [cur EXCEPT ![t] = x]
  BY <1>0 DEF RaiseResponse, Types
<1> HIDE DEF x, y, p
<1>4. /\ Written(mail, p, x, w)
      /\ cur'[t] = x /\ \A u \in Tasks \ {t} : cur'[u] = cur[u]
      /\ pc'[t] = "put" /\ \A u \in Tasks \ {t} : pc'[u] = pc[u]
  BY <1>0, <1>2, <1>3, StackWrite DEF RaiseResponse, Goto, Types, p
<1>5. d = Shared => sendPc = "done" /\ y.sref
  BY <1>0, <1>1, SharedSent DEF Contents, y
<1>6. \A q \in Place : q # p /\ mail[q] # NULL /\ mail[q].call = d =>
        y.sref /\ Together(y, mail[q])
  <2> SUFFICES ASSUME NEW q \in Place, q # p, mail[q] # NULL, mail[q].call = d
               PROVE  y.sref /\ Together(y, mail[q])
    OBVIOUS
  <2>1. Together(y, mail[q])
    BY <1>0, <1>1 DEF Alone
  <2>2. d = Shared => y.sref
    BY <1>0, <1>1 DEF Contents
  <2>3. y.sref \/ DataOf(y) = {} \/ d = Shared
    BY <2>1 DEF Together
  <2>4. DataOf(y) = {} => y.sref
    BY <1>1 DEF DataOf, Plain
  <2> QED BY ONLY <2>1, <2>2, <2>3, <2>4
<1>7. /\ w \in Mails /\ Contents(w) /\ Alone(w)
      /\ w[p] = x /\ x # NULL /\ \A q \in Place : q # p => w[q] = mail[q]
      /\ \A c \in AllCalls : c # x.call => Of(w, c) \subseteq Of(mail, c)
  <2>1. x.call = Shared => x.sref /\ x.data
    BY <1>0, <1>1, <1>2 DEF Contents
  <2>2. \A q \in Place : q # p /\ mail[q] # NULL /\ mail[q].call = x.call => Together(x, mail[q])
    BY <1>2, <1>6
  <2> HIDE DEF d
  <2> QED BY <1>0, <1>1, <1>2, <1>4, <2>1, <2>2, WriteParts
<1>8. /\ ref[d] = IF Copies(mail, pc, sendPc, d) = 0 THEN NULL ELSE Copies(mail, pc, sendPc, d)
      /\ ~ y.sref => ref[d] = NULL
      /\ ref' \in [AllCalls -> Nat \cup {NULL}]
      /\ ref'[d] = Raise(ref[d], 1) /\ \A c \in AllCalls : c # d => ref'[c] = ref[c]
  <2>1. ref[d] = IF Copies(mail, pc, sendPc, d) = 0 THEN NULL ELSE Copies(mail, pc, sendPc, d)
    BY <1>0, <1>1 DEF Exact
  <2>2. ~ y.sref => ref[d] = NULL
    <3>1. ~ y.sref => Counted(mail, d) = {} /\ Broadcasting(sendPc, d) = 0
      BY <1>1, <1>5, <1>6 DEF Counted, Of, Broadcasting
    <3> QED BY <1>1, <2>1, <3>1, CopiesZero
  <2>3. Raise(ref[d], 1) \in Nat
    BY <1>0, <1>1, MessagingAssumption DEF Raise, Types
  <2>4. ref' = [ref EXCEPT ![d] = Raise(ref[d], 1)]
    BY <1>0, <1>1 DEF RaiseResponse, Types, y
  <2> QED BY <1>0, <1>1, <2>1, <2>2, <2>3, <2>4 DEF Types
<1>9. Types'
  <2>1. cur' \in [Tasks -> Exchange \cup {NULL}]
    BY <1>0, <1>2, <1>3 DEF Types
  <2>2. pc' \in [Tasks -> Labels]
    BY <1>0 DEF Types, Labels, RaiseResponse, Goto
  <2>3. \A u \in Tasks : cur'[u] = NULL <=> pc'[u] = "recv"
    BY <1>0, <1>4, <1>7 DEF Types
  <2> QED BY <1>0, <1>8, <2>1, <2>2, <2>3 DEF Types, RaiseResponse, bcast
<1>10. Sends' /\ Contents(mail)' /\ Alone(mail)'
  BY <1>0, <1>1, <1>2, <1>4, <1>7 DEF Sends
<1>11. Unsent(mail)'
  <2>1. \A c \in AllCalls : caller[c] = NULL => c # d
    BY <1>0, <1>1 DEF Unsent, Of
  <2> QED BY <1>0, <1>2, <1>7, <2>1 DEF Unsent, RaiseResponse
<1>12. Broadcast'
  <2>1. sendPc = "share" => ref'[Shared] = ref[Shared]
    BY <1>5, <1>8 DEF AllCalls
  <2>2. sendPc' = sendPc /\ caller' = caller /\ frees' = frees /\ token' = token /\ todo' = todo
    BY <1>0 DEF RaiseResponse, bcast
  <2>3. ASSUME NEW u \in Tasks, cur'[u] # NULL, cur'[u].call = Shared
        PROVE  pc'[u] = "work" \/ sendPc = "done"
    <3>1. CASE u = t
      BY <1>2, <1>4, <1>5, <2>3, <3>1
    <3>2. CASE u # t
      BY <1>0, <1>4, <2>3, <3>2 DEF Broadcast
    <3> QED BY <3>1, <3>2
  <2> QED BY <1>0, <2>1, <2>2, <2>3 DEF Broadcast
<1>13. Exact(mail, pc, sendPc, ref)'
  <2>1. ASSUME NEW c \in AllCalls
        PROVE  Copies(w, pc', sendPc, c)
               = Copies(mail, pc, sendPc, c) + (IF c # d THEN 0 ELSE IF y.sref THEN 1 ELSE 2)
    <3>1. /\ Counts(x, c) = IF c = d THEN 1 ELSE 0
          /\ Counts(y, c) = IF c = d /\ y.sref THEN 1 ELSE 0
          /\ Puts(y, pc[t], c) = 0 /\ Puts(x, pc'[t], c) = Counts(x, c)
      BY <1>1, <1>2, <1>4, <1>7 DEF Counts, Puts
    <3>2. Copies(w, pc', sendPc, c)
          = Copies(mail, pc, sendPc, c) - Counts(mail[p], c) + Counts(x, c)
            - Puts(mail[p], pc[t], c) + Puts(w[p], pc'[t], c)
      BY <1>1, <1>2, <1>4, CopiesWrite DEF p
    <3> HIDE DEF d, w
    <3> QED BY <1>1, <1>7, <3>1, <3>2, FiniteCopies
  <2> DEFINE n == Copies(mail, pc, sendPc, d)
  <2>2. n \in Nat
    BY FiniteCopies
  <2>3. ref'[d] = IF y.sref THEN n + 1 ELSE n + 2
    <3>1. CASE ~ y.sref
      <4>1. n = 0
        BY <1>8, <2>2, <3>1, MessagingAssumption
      <4> QED BY <1>8, <3>1, <4>1 DEF Raise
    <3>2. CASE y.sref
      <4>1. n # 0
        <5>1. p \in Counted(mail, d)
          BY <1>1, <3>2 DEF Counted, Of
        <5> QED BY <1>1, <5>1, CopiesZero
      <4> QED BY <1>8, <2>2, <3>2, <4>1, MessagingAssumption DEF Raise
    <3> QED BY <3>1, <3>2
  <2> HIDE DEF n
  <2>4. Copies(w, pc', sendPc, d) = ref'[d] /\ ref'[d] # 0
    <3>1. Copies(w, pc', sendPc, d) = n + (IF y.sref THEN 1 ELSE 2)
      BY <1>1, <2>1 DEF n
    <3> QED BY <2>2, <2>3, <3>1
  <2>5. \A c \in AllCalls : c # d => Copies(w, pc', sendPc, c) = Copies(mail, pc, sendPc, c)
    BY <2>1, FiniteCopies
  <2> HIDE DEF w, d
  <2>6. Exact(w, pc', sendPc, ref')
    BY <1>0, <1>8, <2>4, <2>5 DEF Exact
  <2> QED BY <2>6 DEF RaiseResponse, bcast, w
<1>14. Alive(mail, sendPc, frees)'
  <2>1. \A q \in Place : w[q] # NULL => \A b \in DataOf(w[q]) : frees[b] = 0
    BY <1>0, <1>1, <1>2, <1>7 DEF Alive
  <2> QED BY <1>0, <2>1 DEF Alive, RaiseResponse, bcast
<1>15. InUse(mail, sendPc, frees)'
  <2>1. \A q \in Place : mail[q] # NULL => w[q] # NULL /\ DataOf(w[q]) = DataOf(mail[q])
    BY <1>1, <1>2, <1>7
  <2> QED BY <1>0, <2>1 DEF InUse, RaiseResponse, bcast
<1>16. Once(mail, pc, handlerRuns)'
  <2>1. ASSUME NEW c \in Calls
        PROVE  Pending(w, pc', c) \subseteq Pending(mail, pc, c)
    <3>1. \A q \in Place : q[2] # 0 \/ q[1] \in Tasks \ {t} \/ q = p
      BY StackPlace DEF p
    <3> QED BY <1>1, <1>2, <1>4, <1>7, <3>1 DEF Pending, Of
  <2> QED BY <1>0, <2>1 DEF Once, RaiseResponse
<1> QED BY <1>9, <1>10, <1>11, <1>12, <1>13, <1>14, <1>15, <1>16 DEF IInv

\* SAMGR_MsgRecv moves copies.
LEMMA RecvStep == ASSUME IInv, NEW t \in Tasks, Recv(t) PROVE IInv'
<1>0. /\ Types /\ Sends /\ Contents(mail) /\ Alone(mail) /\ Unsent(mail) /\ Broadcast
      /\ Exact(mail, pc, sendPc, ref) /\ Alive(mail, sendPc, frees)
      /\ InUse(mail, sendPc, frees) /\ Once(mail, pc, handlerRuns)
  BY DEF IInv
<1> DEFINE w == mail'
<1>1. /\ mail \in Mails /\ mail[Stack(t)] = NULL /\ Stack(t) \in Place
      /\ w = [q \in Place |-> mail[Old(t, q)]]
  BY <1>0, MailType, StackPlace, TakeMoves DEF Types, Recv
<1>2. \A q \in Place : w[q] = mail[Old(t, q)]
  BY <1>1
<1>3. /\ queue[t] \in Seq(Exchange) /\ queue[t] # <<>> /\ Len(queue[t]) <= QueueSize
      /\ Head(queue[t]) \in Exchange /\ Head(queue[t]) # NULL /\ QueueSize \in Nat
  BY <1>0, ExchangeAssumption, MessagingAssumption DEF Types, Recv
<1>4. /\ pc[t] = "recv" /\ pc'[t] = "work" /\ \A u \in Tasks \ {t} : pc'[u] = pc[u]
      /\ cur'[t] = Head(queue[t]) /\ \A u \in Tasks \ {t} : cur'[u] = cur[u]
  BY <1>0 DEF Types, Recv, Goto
<1>5. Types'
  <2>1. /\ cur' \in [Tasks -> Exchange \cup {NULL}] /\ pc' \in [Tasks -> Labels]
        /\ \A u \in Tasks : cur'[u] = NULL <=> pc'[u] = "recv"
    BY <1>0, <1>3, <1>4 DEF Types, Recv, Goto, Labels
  <2>2. queue' \in [Tasks -> Seq(Exchange)] /\ \A u \in Tasks : Len(queue'[u]) <= QueueSize
    <3>1. Tail(queue[t]) \in Seq(Exchange) /\ Len(Tail(queue[t])) <= QueueSize
      BY <1>3
    <3> QED BY <1>0, <3>1 DEF Types, Recv
  <2> QED BY <1>0, <2>1, <2>2 DEF Types, Recv, bcast
<1>6. Sends'
  BY <1>0, <1>4 DEF Sends
<1>7. Contents(w) /\ Alone(w)
  BY <1>0, <1>2, OldNew DEF Contents, Alone
<1>8. Unsent(mail)'
  <2>1. \A c \in AllCalls : Of(mail, c) = {} => Of(w, c) = {}
    BY <1>2, OldNew DEF Of
  <2> QED BY <1>0, <2>1 DEF Unsent, Recv
<1>9. Broadcast'
  BY <1>0, <1>4 DEF Broadcast, Recv, bcast
<1>10. Exact(mail, pc, sendPc, ref)'
  <2>1. ASSUME NEW c \in AllCalls
        PROVE  Copies(w, pc', sendPc, c) = Copies(mail, pc, sendPc, c)
    <3>1. Copies([q \in Place |-> mail[Old(t, q)]], pc', sendPc, c) = Copies(mail, pc, sendPc, c)
      BY <1>1, <1>4, CopiesMove
    <3> QED BY <1>1, <3>1
  <2> QED BY <1>0, <2>1 DEF Exact, Recv, bcast
<1>11. Alive(mail, sendPc, frees)'
  <2>1. \A q \in Place : w[q] # NULL => \A b \in DataOf(w[q]) : frees[b] = 0
    BY <1>0, <1>2, OldNew DEF Alive
  <2> QED BY <1>0, <2>1 DEF Alive, Recv, bcast
<1>12. InUse(mail, sendPc, frees)'
  <2>1. ASSUME NEW q \in Place
        PROVE  \E r \in Place : w[r] = mail[q]
    <3>1. New(t, q) \in Place /\ w[New(t, q)] = mail[q]
      BY <1>2, OldNew
    <3> QED BY <3>1
  <2> QED BY <1>0, <2>1 DEF InUse, Recv, bcast
<1>13. Once(mail, pc, handlerRuns)'
  <2>1. ASSUME NEW c \in Calls, NEW q \in Pending(w, pc', c)
        PROVE  Old(t, q) \in Pending(mail, pc, c)
    <3>1. q \in Place /\ Old(t, q) \in Place /\ mail[Old(t, q)] = w[q] /\ w[q] # NULL
      BY <1>2, OldNew DEF Pending, Of
    <3>2. q[1] = t => Old(t, q)[2] # 0
      BY <1>1, <3>1, MessagingAssumption DEF Old, Place, Stack
    <3>3. q[1] # t => Old(t, q) = q /\ pc'[q[1]] = pc[q[1]]
      BY <1>4, <3>1 DEF Old, Place
    <3> QED BY <3>1, <3>2, <3>3 DEF Pending, Of
  <2>2. \A q, r \in Place : Old(t, q) = Old(t, r) => q = r
    BY OldNew
  <2>3. ASSUME NEW c \in Calls, NEW q \in Pending(w, pc', c)
        PROVE  handlerRuns[c] = <<>> /\ \A r \in Pending(w, pc', c) : q = r
    <3>1. \A r \in Pending(w, pc', c) : Old(t, q) = Old(t, r)
      BY <1>0, <2>1 DEF Once
    <3>2. Pending(w, pc', c) \subseteq Place
      BY DEF Pending, Of
    <3> QED BY <1>0, <2>1, <2>2, <3>1, <3>2 DEF Once
  <2> QED BY <1>0, <2>3 DEF Once, Recv
<1> QED BY <1>5, <1>6, <1>7, <1>8, <1>9, <1>10, <1>11, <1>12, <1>13 DEF IInv

\* SAMGR_FreeMsg drops the copy on the stack, and frees the data with the
\* last one: no other copy points to it then, and one does before.
LEMMA FreeMsgStep == ASSUME IInv, NEW t \in Tasks, FreeMsg(t) PROVE IInv'
<1>0. /\ Types /\ Sends /\ Contents(mail) /\ Alone(mail) /\ Unsent(mail) /\ Broadcast
      /\ Exact(mail, pc, sendPc, ref) /\ Alive(mail, sendPc, frees)
      /\ InUse(mail, sendPc, frees) /\ Once(mail, pc, handlerRuns)
  BY DEF IInv
<1> DEFINE x == cur[t]
           d == x.call
           p == Stack(t)
           w == mail'
           n == Copies(mail, pc, sendPc, d)
           last == ~ x.sref \/ Lower(ref[d]) = NULL
<1>1. /\ p \in Place /\ p[1] = t /\ p[2] = 0 /\ mail \in Mails /\ x = mail[p]
      /\ x \in Exchange /\ x # NULL /\ d \in AllCalls /\ pc[t] = "free" /\ n \in Nat
      /\ d = Shared => sendPc = "done" /\ x.sref
  <2>1. p \in Place /\ p[1] = t /\ p[2] = 0 /\ mail \in Mails /\ x = mail[p]
    BY <1>0, StackPlace, MailType
  <2>2. x \in Exchange /\ x # NULL /\ pc[t] = "free"
    BY <1>0 DEF Types, FreeMsg
  <2>3. d = Shared => sendPc = "done" /\ x.sref
    BY <1>0, <2>1, <2>2, SharedSent DEF Contents
  <2> QED BY <2>1, <2>2, <2>3, DataBlocks, FiniteCopies
<1>2. /\ cur' = [cur EXCEPT ![t] = NULL] /\ pc' = [pc EXCEPT ![t] = "recv"]
      /\ ref' = IF x.sref THEN [ref EXCEPT ![d] = Lower(ref[d])] ELSE ref
      /\ \A b \in Blocks : frees'[b] = IF last /\ b \in DataOf(x) THEN frees[b] + 1 ELSE frees[b]
      /\ UNCHANGED <<queue, caller, refused, bcast, handlerRuns>>
  BY <1>0, <1>1 DEF FreeMsg, Goto, Types
<1>3. /\ Written(mail, p, NULL, w)
      /\ cur'[t] = NULL /\ \A u \in Tasks \ {t} : cur'[u] = cur[u]
      /\ pc'[t] = "recv" /\ \A u \in Tasks \ {t} : pc'[u] = pc[u]
  BY <1>0, <1>2, StackWrite DEF Types
<1>4. w \in Mails /\ w[p] = NULL /\ \A q \in Place : q # p => w[q] = mail[q]
  BY <1>3 DEF Written
<1> HIDE DEF x, p, last, w
<1>5. Contents(w) /\ Alone(w)
  BY <1>0, <1>4 DEF Contents, Alone
<1>6. ASSUME NEW c \in AllCalls
      PROVE  Copies(w, pc', sendPc, c) = Copies(mail, pc, sendPc, c) - Counts(x, c)
  <2>1. /\ Counts(NULL, c) = 0 /\ Counts(x, c) \in {0, 1}
        /\ Puts(x, pc[t], c) = 0 /\ Puts(NULL, pc'[t], c) = 0
    BY <1>1 DEF Puts, Counts
  <2>2. Copies(w, pc', sendPc, c)
        = Copies(mail, pc, sendPc, c) - Counts(mail[p], c) + Counts(NULL, c)
          - Puts(mail[p], pc[t], c) + Puts(w[p], pc'[t], c)
    BY <1>1, <1>3, CopiesWrite DEF p
  <2> QED BY <1>1, <1>4, <2>1, <2>2, FiniteCopies
\* The other copies that point to the same data: none, if this is the last,
\* and else at least one.
<1>7. ASSUME last, NEW q \in Place, w[q] # NULL
      PROVE  DataOf(w[q]) \cap DataOf(x) = {}
  <2>1. q # p /\ w[q] = mail[q] /\ mail[q] # NULL /\ mail[q] \in Exchange
    BY <1>4, <1>7 DEF Mails
  <2>2. CASE mail[q].call # d
    BY <1>1, <2>1, <2>2, DataBlocks
  <2>3. CASE mail[q].call = d
    <3>1. Together(x, mail[q])
      BY <1>0, <1>1, <2>1, <2>3 DEF Alone
    <3>2. CASE ~ x.sref
      BY <1>1, <2>1, <3>1, <3>2 DEF Together
    <3>3. CASE x.sref
      <4>1. p \in Counted(mail, d)
        BY <1>1, <3>3 DEF Counted, Of
      <4>2. mail[q].sref
        BY <1>0, <2>1, <2>3, <3>1, <3>3 DEF Together, Contents
      <4>3. q \in Counted(mail, d)
        BY <2>1, <2>3, <4>2 DEF Counted, Of
      <4>4. n # 0
        BY <1>1, <4>1, CopiesZero
      <4>5. ref[d] = n
        BY <1>0, <1>1, <4>4 DEF Exact
      <4>6. n <= 1
        BY <1>1, <1>7, <3>3, <4>5, MessagingAssumption DEF Lower, last
      <4> QED BY <1>1, <2>1, <4>1, <4>3, <4>6, CopiesZero
    <3> QED BY <3>2, <3>3
  <2> QED BY <2>2, <2>3
<1>8. ASSUME ~ last
      PROVE  /\ ref[d] = n /\ n >= 2 /\ Lower(ref[d]) = n - 1
             /\ \E q \in Place : w[q] # NULL /\ w[q].call = d /\ (d = Shared => w[q].data)
                                 /\ (d # Shared => DataOf(w[q]) = DataOf(x))
  <2>1. x.sref
    BY <1>8 DEF last
  <2>2. p \in Counted(mail, d)
    BY <1>1, <2>1 DEF Counted, Of
  <2>3. n # 0
    BY <1>1, <2>2, CopiesZero
  <2>4. ref[d] = n
    BY <1>0, <1>1, <2>3 DEF Exact
  <2>5. n >= 2 /\ Lower(ref[d]) = n - 1
    BY <1>1, <1>8, <2>3, <2>4 DEF Lower, last
  <2>6. Counts(x, d) = 1
    BY <1>1, <2>1 DEF Counts
  <2>7. Copies(w, pc', sendPc, d) # 0
    BY <1>1, <1>6, <2>5, <2>6
  <2>8. Broadcasting(sendPc, d) = 0
    BY <1>1 DEF Broadcasting
  <2>9. Counted(w, d) # {}
    BY <1>4, <2>7, <2>8, CopiesZero
  <2>10. PICK q \in Place : w[q] # NULL /\ w[q].call = d
    BY <2>9 DEF Counted, Of
  <2>11. q # p /\ w[q] = mail[q]
    BY <1>4, <2>10
  <2>12. d # Shared => DataOf(w[q]) = DataOf(x)
    BY <1>0, <1>1, <2>10, <2>11 DEF Alone, Together
  <2>13. d = Shared => w[q].data
    BY <1>5, <2>10 DEF Contents
  <2> QED BY <2>4, <2>5, <2>10, <2>12, <2>13
<1>9. /\ ref' \in [AllCalls -> Nat \cup {NULL}]
      /\ ref'[d] = IF x.sref THEN Lower(ref[d]) ELSE ref[d]
      /\ \A c \in AllCalls : c # d => ref'[c] = ref[c]
  <2>1. Lower(ref[d]) \in Nat \cup {NULL}
    BY <1>0, <1>1 DEF Types, Lower
  <2> HIDE DEF d
  <2> QED BY <1>0, <1>1, <1>2, <2>1 DEF Types
<1>10. \A b \in DataOf(x) : frees[b] = 0 /\ b \in Blocks /\ b[1] = d
  BY <1>0, <1>1, DataBlocks DEF Alive
<1>11. \A b \in Blocks : frees'[b] = IF last /\ b \in DataOf(x) THEN 1 ELSE frees[b]
  BY <1>2, <1>10
<1>12. Types'
  <2>1. cur' \in [Tasks -> Exchange \cup {NULL}] /\ pc' \in [Tasks -> Labels]
    BY <1>0, <1>2 DEF Types, Labels
  <2>2. \A u \in Tasks : cur'[u] = NULL <=> pc'[u] = "recv"
    BY <1>0, <1>3 DEF Types
  <2>3. frees' \in [Blocks -> {NULL, 0, 1}]
    <3>1. \A b \in Blocks : frees'[b] \in {NULL, 0, 1}
      BY <1>0, <1>11 DEF Types
    <3>2. frees' = [b \in Blocks |-> frees'[b]]
      BY DEF FreeMsg
    <3> QED BY <3>1, <3>2
  <2> QED BY <1>0, <1>2, <1>9, <2>1, <2>2, <2>3 DEF Types, bcast
<1>13. Sends'
  BY <1>0, <1>3 DEF Sends
<1>14. Unsent(mail)'
  <2>1. \A c \in AllCalls : Of(w, c) \subseteq Of(mail, c)
    BY <1>4 DEF Of
  <2> QED BY <1>0, <1>2, <2>1 DEF Unsent, w
<1>15. Broadcast'
  <2>1. sendPc = "share" => ref'[Shared] = ref[Shared]
    BY <1>1, <1>9 DEF AllCalls
  <2>2. sendPc = "idle" => frees'[<<Shared, "request">>] = NULL
    <3>1. <<Shared, "request">> \in Blocks
      BY DEF Blocks, AllCalls
    <3>2. sendPc = "idle" => frees[<<Shared, "request">>] = NULL
      BY <1>0 DEF Broadcast
    <3> QED BY <1>10, <1>11, <3>1, <3>2, MessagingAssumption
  <2> QED BY <1>0, <1>2, <1>3, <2>1, <2>2 DEF Broadcast, bcast
<1>16. Exact(w, pc', sendPc, ref')
  <2>1. \A c \in AllCalls : c # d => Copies(w, pc', sendPc, c) = Copies(mail, pc, sendPc, c)
    <3>1. \A c \in AllCalls : c # d => Counts(x, c) = 0
      BY DEF Counts
    <3> QED BY <1>6, <3>1, FiniteCopies
  <2>2. IF Copies(w, pc', sendPc, d) = 0 THEN ref'[d] = NULL
        ELSE ref'[d] = Copies(w, pc', sendPc, d)
    <3>1. CASE ~ x.sref
      <4>1. Counts(x, d) = 0
        BY <3>1 DEF Counts
      <4>2. Copies(w, pc', sendPc, d) = n
        BY <1>1, <1>6, <4>1
      <4>3. IF n = 0 THEN ref[d] = NULL ELSE ref[d] = n
        BY <1>0, <1>1 DEF Exact
      <4> QED BY <1>9, <3>1, <4>2, <4>3
    <3>2. CASE x.sref
      <4>1. Counts(x, d) = 1
        BY <1>1, <3>2 DEF Counts
      <4>2. Copies(w, pc', sendPc, d) = n - 1
        BY <1>1, <1>6, <4>1
      <4>3. n # 0
        <5>1. p \in Counted(mail, d)
          BY <1>1, <3>2 DEF Counted, Of
        <5> QED BY <1>1, <5>1, CopiesZero
      <4>4. ref[d] = n
        BY <1>0, <1>1, <4>3 DEF Exact
      <4>5. Lower(n) = IF n - 1 = 0 THEN NULL ELSE n - 1
        BY <1>1, <4>3, MessagingAssumption DEF Lower
      <4> HIDE DEF n
      <4> QED BY <1>9, <3>2, <4>2, <4>4, <4>5
    <3> QED BY <3>1, <3>2
  <2> HIDE DEF d
  <2> QED BY <1>0, <1>9, <2>1, <2>2 DEF Exact
<1>17. Alive(mail, sendPc, frees)'
  <2>1. ASSUME NEW q \in Place, w[q] # NULL, NEW b \in DataOf(w[q])
        PROVE  frees'[b] = 0
    <3>1. mail[q] = w[q] /\ w[q] \in Exchange
      BY <1>4, <2>1 DEF Mails
    <3>2. frees[b] = 0 /\ b \in Blocks
      BY <1>0, <2>1, <3>1, DataBlocks DEF Alive
    <3> QED BY <1>7, <1>11, <2>1, <3>2
  <2>2. <<Shared, "request">> \in Blocks
    BY DEF Blocks, AllCalls
  <2>3. sendPc # "done" => <<Shared, "request">> \notin DataOf(x)
    BY <1>1, <1>10
  <2> QED BY <1>0, <1>2, <1>11, <2>1, <2>2, <2>3 DEF Alive, bcast, w
<1>18. InUse(mail, sendPc, frees)'
  <2>1. ASSUME NEW b \in Blocks, frees'[b] = 0, b[1] # Shared \/ b[2] = "request"
        PROVE  \/ \E q \in Place : w[q] # NULL /\ b \in DataOf(w[q])
               \/ b[1] = Shared /\ sendPc \in {"share", "put", "undo"}
    <3>1. frees[b] = 0
      BY <1>10, <1>11, <2>1
    <3>2. CASE b \notin DataOf(x)
      BY <1>0, <1>1, <1>4, <2>1, <3>1, <3>2 DEF InUse
    <3>3. CASE b \in DataOf(x)
      <4>1. ~ last /\ b[1] = d
        BY <1>10, <1>11, <2>1, <3>3
      <4>2. PICK q \in Place : /\ w[q] # NULL /\ w[q].call = d /\ (d = Shared => w[q].data)
                               /\ (d # Shared => DataOf(w[q]) = DataOf(x))
        BY <1>8, <4>1
      <4>3. d = Shared => b = <<d, "request">>
        BY <2>1, <4>1 DEF Blocks
      <4>4. b \in DataOf(w[q])
        BY <3>3, <4>2, <4>3 DEF DataOf
      <4> QED BY <4>2, <4>4
    <3> QED BY <3>2, <3>3
  <2> QED BY <1>2, <2>1 DEF InUse, bcast, w
<1>19. Once(mail, pc, handlerRuns)'
  <2>1. ASSUME NEW c \in Calls
        PROVE  Pending(w, pc', c) \subseteq Pending(mail, pc, c)
    <3>1. \A q \in Place : q[2] # 0 \/ q[1] \in Tasks \ {t} \/ q = p
      BY StackPlace DEF p
    <3> QED BY <1>3, <1>4, <3>1 DEF Pending, Of
  <2> QED BY <1>0, <1>2, <2>1 DEF Once, w
<1> QED BY <1>2, <1>5, <1>12, <1>13, <1>14, <1>15, <1>16, <1>17, <1>18, <1>19 DEF IInv, bcast, w

-----------------------------------------------------------------------------
(* Requests. *)

\* A request of a new call: nothing refers to it but the exchange that is put.
LEMMA SendRequestStep ==
  ASSUME IInv, NEW d \in Calls, NEW from \in Tasks \cup {Main}, NEW to \in Tasks,
         NEW data \in BOOLEAN, NEW handler \in BOOLEAN, SendRequest(d, from, to, data, handler)
  PROVE  IInv'
<1>0. /\ Types /\ Sends /\ Contents(mail) /\ Alone(mail) /\ Unsent(mail) /\ Broadcast
      /\ Exact(mail, pc, sendPc, ref) /\ Alive(mail, sendPc, frees)
      /\ InUse(mail, sendPc, frees) /\ Once(mail, pc, handlerRuns)
  BY DEF IInv
<1> DEFINE b0 == <<d, "request">>
<1>1. /\ d \in AllCalls /\ d # Shared /\ Of(mail, d) = {} /\ handlerRuns[d] = <<>>
      /\ b0 \in Blocks /\ b0[1] = d /\ mail \in Mails /\ from # NULL
      /\ \A q \in Place : mail[q] # NULL => mail[q].call # d
  <2>1. d \in AllCalls /\ d # Shared /\ b0 \in Blocks /\ b0[1] = d /\ from # NULL
    BY MessagingAssumption DEF AllCalls, Blocks
  <2>2. Of(mail, d) = {} /\ handlerRuns[d] = <<>>
    BY <1>0, <2>1 DEF Unsent, SendRequest
  <2>3. mail \in Mails
    BY <1>0, MailType
  <2>4. \A q \in Place : mail[q] # NULL => mail[q].call # d
    BY <2>2 DEF Of
  <2> QED BY <2>1, <2>2, <2>3, <2>4
<1>2. /\ caller' \in [AllCalls -> Tasks \cup {Main, NULL}]
      /\ caller'[d] # NULL /\ \A c \in AllCalls : c # d => caller'[c] = caller[c]
  BY <1>0, <1>1 DEF Types, SendRequest
<1>3. UNCHANGED <<cur, pc, ref, todo, sharedType, token, sendPc, handlerRuns>>
  BY DEF SendRequest, bcast
<1>4. Sends' /\ Broadcast'
  <2>1. caller'[Shared] = caller[Shared]
    BY <1>1, <1>2 DEF AllCalls
  <2>2. frees'[<<Shared, "request">>] = frees[<<Shared, "request">>]
    <3>1. <<Shared, "request">> \in Blocks /\ <<Shared, "request">> # b0
      BY <1>1 DEF Blocks, AllCalls
    <3>2. \E v : frees' = [frees EXCEPT ![b0] = v]
      BY DEF SendRequest
    <3> QED BY <1>0, <3>1, <3>2 DEF Types
  <2> QED BY <1>0, <1>3, <2>1, <2>2 DEF Sends, Broadcast
<1>5. \A c \in AllCalls : caller'[c] = NULL => c # d /\ caller[c] = NULL
  BY <1>2
<1>6. \A q \in Place : mail[q] # NULL =>
        mail[q] \in Exchange /\ b0 \notin DataOf(mail[q]) /\ DataOf(mail[q]) \subseteq Blocks
  BY <1>1, DataBlocks DEF Mails
<1>7. CASE Full(to)
  <2>1. refused' = refused \cup {d} /\ queue' = queue
        /\ frees' = [frees EXCEPT ![b0] = IF data THEN 1 ELSE NULL]
    BY <1>7 DEF SendRequest
  <2>2. mail' = mail
    BY <1>3, <2>1, SameMail
  <2>3. /\ frees' \in [Blocks -> {NULL, 0, 1}] /\ frees'[b0] # 0
        /\ \A b \in Blocks : b # b0 => frees'[b] = frees[b]
    BY <1>0, <1>1, <2>1, MessagingAssumption DEF Types
  <2>4. Types'
    BY <1>0, <1>2, <1>3, <2>1, <2>3 DEF Types
  <2>5. Unsent(mail)'
    BY <1>0, <1>3, <1>5, <2>2 DEF Unsent
  <2>6. Alive(mail, sendPc, frees)'
    <3>1. <<Shared, "request">> \in Blocks /\ <<Shared, "request">> # b0
      BY <1>1 DEF Blocks, AllCalls
    <3>2. \A q \in Place : mail[q] # NULL => \A b \in DataOf(mail[q]) : frees'[b] = 0
      BY <1>0, <1>6, <2>3 DEF Alive
    <3> QED BY <1>0, <1>3, <2>2, <2>3, <3>1, <3>2 DEF Alive
  <2>7. InUse(mail, sendPc, frees)'
    BY <1>0, <1>3, <2>2, <2>3 DEF InUse
  <2> QED BY <1>0, <1>3, <1>4, <2>2, <2>4, <2>5, <2>6, <2>7 DEF IInv
<1>8. CASE ~ Full(to)
  <2> DEFINE x == [call |-> d, type |-> IF handler THEN "MSG_CON" ELSE "MSG_NON",
                   back |-> IF handler /\ from \in Tasks THEN from ELSE NULL,
                   handler |-> handler, data |-> data, resp |-> NULL, sref |-> FALSE]
             w == mail'
  <2>1. refused' = refused /\ Put(to, x)
        /\ frees' = [frees EXCEPT ![b0] = IF data THEN 0 ELSE NULL]
    BY <1>8 DEF SendRequest
  <2>2. /\ x \in Exchange /\ x.call = d /\ x.type \in {"MSG_CON", "MSG_NON"} /\ x.resp = NULL
        /\ x.sref = FALSE /\ DataOf(x) = IF data THEN {b0} ELSE {}
    BY <1>1 DEF Exchange, DataOf
  <2> HIDE DEF x
  <2>3. PICK p \in Place : p[2] # 0 /\ mail[p] = NULL /\ Written(mail, p, x, w)
    BY <1>0, <1>3, <1>8, <2>1, <2>2, PutWrite
  <2> HIDE DEF w
  <2>4. /\ w \in Mails /\ Contents(w) /\ Alone(w)
        /\ w[p] = x /\ x # NULL /\ \A q \in Place : q # p => w[q] = mail[q]
        /\ \A c \in AllCalls : c # d => Of(w, c) \subseteq Of(mail, c)
    <3>1. \A q \in Place : q # p /\ mail[q] # NULL /\ mail[q].call = x.call => Together(x, mail[q])
      BY <1>1, <2>2
    <3> QED BY <1>0, <1>1, <2>2, <2>3, <3>1, WriteParts
  <2>5. /\ frees' \in [Blocks -> {NULL, 0, 1}] /\ frees'[b0] = IF data THEN 0 ELSE NULL
        /\ \A b \in Blocks : b # b0 => frees'[b] = frees[b]
    BY <1>0, <1>1, <2>1 DEF Types
  <2>6. Types'
    <3>1. queue' \in [Tasks -> Seq(Exchange)] /\ \A u \in Tasks : Len(queue'[u]) <= QueueSize
      <4>1. queue[to] \in Seq(Exchange) /\ Len(queue[to]) < QueueSize /\ QueueSize \in Nat
        BY <1>0, <1>8, MessagingAssumption DEF Types, Full
      <4>2. /\ Append(queue[to], x) \in Seq(Exchange)
            /\ Len(Append(queue[to], x)) <= QueueSize
        BY <2>2, <4>1
      <4> QED BY <1>0, <2>1, <4>2 DEF Types, Put
    <3> QED BY <1>0, <1>2, <1>3, <2>1, <2>5, <3>1 DEF Types
  <2>7. Unsent(mail)'
    <3>1. \A c \in AllCalls : caller'[c] = NULL => Of(w, c) = {} /\ handlerRuns'[c] = <<>>
      BY <1>0, <1>3, <1>5, <2>4 DEF Unsent
    <3> QED BY <3>1 DEF Unsent, w
  <2>8. Exact(w, pc, sendPc, ref)
    <3>1. ASSUME NEW c \in AllCalls
          PROVE  Copies(w, pc, sendPc, c) = Copies(mail, pc, sendPc, c)
      <4> DEFINE s == Stack(to)
      <4>1. s \in Place /\ s # p
        BY <2>3, StackPlace
      <4>2. w[s] = mail[s]
        BY <2>4, <4>1
      <4>3. Counts(NULL, c) = 0 /\ Counts(x, c) = 0 /\ Puts(mail[s], pc[to], c) \in {0, 1}
        BY <2>2 DEF Counts, Puts
      <4>4. Copies(w, pc, sendPc, c)
            = Copies(mail, pc, sendPc, c) - Counts(mail[p], c) + Counts(x, c)
              - Puts(mail[s], pc[to], c) + Puts(w[s], pc[to], c)
        BY <1>1, <2>2, <2>3, CopiesWrite
      <4> QED BY <2>3, <4>2, <4>3, <4>4, FiniteCopies
    <3> QED BY <1>0, <3>1 DEF Exact
  <2>9. Alive(w, sendPc, frees')
    <3>1. <<Shared, "request">> \in Blocks /\ <<Shared, "request">> # b0
      BY <1>1 DEF Blocks, AllCalls
    <3>2. \A q \in Place : w[q] # NULL => \A b \in DataOf(w[q]) : frees'[b] = 0
      BY <1>0, <1>6, <2>2, <2>4, <2>5 DEF Alive
    <3> QED BY <1>0, <2>5, <3>1, <3>2 DEF Alive
  <2>10. InUse(w, sendPc, frees')
    <3>1. ASSUME NEW b \in Blocks, frees'[b] = 0, b[1] # Shared \/ b[2] = "request"
          PROVE  \/ \E q \in Place : w[q] # NULL /\ b \in DataOf(w[q])
                 \/ b[1] = Shared /\ sendPc \in {"share", "put", "undo"}
      <4>1. CASE b = b0
        <5>1. b \in DataOf(w[p])
          BY <2>2, <2>4, <2>5, <3>1, <4>1, MessagingAssumption
        <5> QED BY <2>4, <5>1
      <4>2. CASE b # b0
        BY <1>0, <2>3, <2>4, <2>5, <3>1, <4>2 DEF InUse
      <4> QED BY <4>1, <4>2
    <3> QED BY <3>1 DEF InUse
  <2>11. Once(w, pc, handlerRuns)
    <3> SUFFICES ASSUME NEW c \in Calls
                 PROVE  /\ Len(handlerRuns[c]) <= 1
                        /\ \A q \in Pending(w, pc, c) : handlerRuns[c] = <<>>
                             /\ \A r \in Pending(w, pc, c) : q = r
      BY DEF Once
    <3>1. CASE c = d
      <4>1. Pending(w, pc, c) \subseteq {p}
        BY <1>1, <2>4, <3>1 DEF Pending, Of
      <4> QED BY <1>0, <1>1, <3>1, <4>1 DEF Once
    <3>2. CASE c # d
      <4>1. Pending(w, pc, c) \subseteq Pending(mail, pc, c)
        BY <2>2, <2>4, <3>2 DEF Pending, Of
      <4> QED BY <1>0, <4>1 DEF Once
    <3> QED BY <3>1, <3>2
  <2> QED BY <1>3, <1>4, <2>4, <2>6, <2>7, <2>8, <2>9, <2>10, <2>11 DEF IInv, w
<1> QED BY <1>7, <1>8

-----------------------------------------------------------------------------
(* The broadcast. *)

\* Between its steps only the counting changes.
LEMMA CopiesSending ==
  ASSUME NEW m, NEW where, NEW sending, NEW then, NEW c
  PROVE  Copies(m, where, then, c)
         = Copies(m, where, sending, c) - Broadcasting(sending, c) + Broadcasting(then, c)
BY FiniteCopies DEF Copies

\* What the steps of the broadcast have in common.
LEMMA SharedParts ==
  ASSUME IInv, UNCHANGED <<tasks, refused, sharedType, handlerRuns>>
  PROVE  /\ mail' = mail /\ Sends' /\ Contents(mail) /\ Alone(mail)
         /\ Once(mail, pc, handlerRuns)'
<1>1. mail' = mail
  BY SameMail DEF tasks
<1> QED BY <1>1 DEF tasks, IInv, Sends

\* SharedSend counts the copy that is put next.
LEMMA SharedRaiseStep == ASSUME IInv, SharedRaise PROVE IInv'
<1>0. /\ Types /\ Unsent(mail) /\ Broadcast
      /\ Exact(mail, pc, sendPc, ref) /\ Alive(mail, sendPc, frees)
      /\ InUse(mail, sendPc, frees)
  BY DEF IInv
<1> DEFINE b0 == <<Shared, "request">>
           n == Copies(mail, pc, sendPc, Shared)
<1>1. Shared \in AllCalls /\ b0 \in Blocks /\ b0[1] = Shared
  BY DEF AllCalls, Blocks
<1>2. /\ mail' = mail /\ Sends' /\ Contents(mail) /\ Alone(mail)
      /\ Once(mail, pc, handlerRuns)'
  BY SharedParts DEF SharedRaise
<1>3. /\ sendPc \in {"idle", "share"} /\ sendPc' = "put" /\ todo # <<>>
      /\ UNCHANGED <<cur, pc, queue, refused, todo, sharedType, token, handlerRuns>>
  BY DEF SharedRaise, tasks
<1>4. caller' \in [AllCalls -> Tasks \cup {Main, NULL}] /\ caller'[Shared] # NULL
      /\ \A c \in AllCalls : c # Shared => caller'[c] = caller[c]
  BY <1>0, <1>1, MessagingAssumption DEF SharedRaise, Types
<1>5. /\ frees[b0] = IF sendPc = "idle" THEN NULL ELSE 0
      /\ frees' \in [Blocks -> {NULL, 0, 1}] /\ frees'[b0] = 0
      /\ \A b \in Blocks : b # b0 => frees'[b] = frees[b]
  <2>1. frees[b0] = IF sendPc = "idle" THEN NULL ELSE 0
    BY <1>0, <1>3 DEF Broadcast, Alive
  <2> QED BY <1>0, <1>1, <2>1 DEF SharedRaise, Types
<1>6. /\ n \in Nat /\ ref'[Shared] = n + 1 /\ ref' \in [AllCalls -> Nat \cup {NULL}]
      /\ \A c \in AllCalls : c # Shared => ref'[c] = ref[c]
  <2>1. n \in Nat
    BY FiniteCopies
  <2>2. ref[Shared] = IF n = 0 THEN NULL ELSE n
    BY <1>0, <1>1 DEF Exact
  <2>3. Raise(ref[Shared], 0) = n + 1
    BY <2>1, <2>2, MessagingAssumption DEF Raise
  <2>4. ref' = [ref EXCEPT ![Shared] = n + 1]
    BY <2>3 DEF SharedRaise
  <2> HIDE DEF n
  <2> QED BY <1>0, <1>1, <2>1, <2>4 DEF Types
<1>7. Types'
  BY <1>0, <1>3, <1>4, <1>5, <1>6 DEF Types
<1>8. Unsent(mail)'
  BY <1>0, <1>2, <1>3, <1>4 DEF Unsent
<1>9. Broadcast'
  BY <1>0, <1>3, <1>4 DEF Broadcast
<1>10. Exact(mail, pc, "put", ref')
  <2>1. ASSUME NEW c \in AllCalls
        PROVE  Copies(mail, pc, "put", c)
               = Copies(mail, pc, sendPc, c) + (IF c = Shared THEN 1 ELSE 0)
    <3>1. Broadcasting(sendPc, c) = 0 /\ Broadcasting("put", c) = IF c = Shared THEN 1 ELSE 0
      BY <1>3 DEF Broadcasting
    <3> QED BY <3>1, CopiesSending, FiniteCopies
  <2>2. Copies(mail, pc, "put", Shared) = n + 1 /\ n + 1 # 0
    BY <1>1, <1>6, <2>1
  <2>3. \A c \in AllCalls : c # Shared => Copies(mail, pc, "put", c) = Copies(mail, pc, sendPc, c)
    BY <2>1, FiniteCopies
  <2> HIDE DEF n
  <2> QED BY <1>0, <1>6, <2>2, <2>3 DEF Exact
<1>11. Alive(mail, "put", frees')
  <2>1. ASSUME NEW q \in Place, mail[q] # NULL, NEW b \in DataOf(mail[q])
        PROVE  frees'[b] = 0
    <3>1. mail[q] \in Exchange
      BY <1>0, <2>1, MailType DEF Mails
    <3>2. b \in Blocks /\ frees[b] = 0
      BY <1>0, <2>1, <3>1, DataBlocks DEF Alive
    <3> QED BY <1>5, <3>2
  <2> QED BY <1>5, <2>1 DEF Alive
<1>12. InUse(mail, "put", frees')
  BY <1>0, <1>1, <1>3, <1>5 DEF InUse
<1> QED BY <1>2, <1>3, <1>7, <1>8, <1>9, <1>10, <1>11, <1>12 DEF IInv

\* A broadcast that gets no counter leaves none behind.
LEMMA SharedRaiseFailsStep == ASSUME IInv, SharedRaiseFails PROVE IInv'
<1>0. /\ Types /\ Unsent(mail) /\ Broadcast
      /\ Exact(mail, pc, sendPc, ref) /\ Alive(mail, sendPc, frees)
      /\ InUse(mail, sendPc, frees)
  BY DEF IInv
<1> DEFINE b0 == <<Shared, "request">>
<1>1. Shared \in AllCalls /\ b0 \in Blocks /\ b0[1] = Shared
  BY DEF AllCalls, Blocks
<1>2. /\ mail' = mail /\ Sends' /\ Contents(mail) /\ Alone(mail)
      /\ Once(mail, pc, handlerRuns)'
  BY SharedParts DEF SharedRaiseFails
<1>3. /\ sendPc \in {"idle", "share"} /\ sendPc' = "share" /\ todo # <<>> /\ token = NULL
      /\ UNCHANGED <<cur, pc, queue, ref, refused, sharedType, token, handlerRuns>>
      /\ todo' = Tail(todo)
  BY DEF SharedRaiseFails, tasks
<1>4. caller' \in [AllCalls -> Tasks \cup {Main, NULL}] /\ caller'[Shared] # NULL
      /\ \A c \in AllCalls : c # Shared => caller'[c] = caller[c]
  BY <1>0, <1>1, MessagingAssumption DEF SharedRaiseFails, Types
<1>5. /\ frees' \in [Blocks -> {NULL, 0, 1}] /\ frees'[b0] = 0
      /\ \A b \in Blocks : b # b0 => frees'[b] = frees[b]
  <2>1. frees[b0] = IF sendPc = "idle" THEN NULL ELSE 0
    BY <1>0, <1>3 DEF Broadcast, Alive
  <2> QED BY <1>0, <1>1, <2>1 DEF SharedRaiseFails, Types
<1>6. ref[Shared] = NULL
  <2>1. CASE sendPc = "share"
    BY <1>0, <1>3, <2>1 DEF Broadcast
  <2>2. CASE sendPc = "idle"
    <3>1. Counted(mail, Shared) = {} /\ Broadcasting(sendPc, Shared) = 0
      BY <1>0, <1>1, <2>2 DEF Broadcast, Unsent, Counted, Broadcasting
    <3> QED BY <1>0, <1>1, <3>1, CopiesZero, MailType DEF Exact
  <2> QED BY <1>3, <2>1, <2>2
<1>7. todo' \in Seq(Tasks)
  BY <1>0, <1>3 DEF Types
<1>8. Types'
  BY <1>0, <1>3, <1>4, <1>5, <1>7 DEF Types
<1>9. Unsent(mail)'
  BY <1>0, <1>2, <1>3, <1>4 DEF Unsent
<1>10. Broadcast'
  BY <1>0, <1>3, <1>4, <1>6 DEF Broadcast
<1>11. Exact(mail, pc, "share", ref)
  <2>1. \A c : Broadcasting(sendPc, c) = Broadcasting("share", c)
    BY <1>3 DEF Broadcasting
  <2> QED BY <1>0, <2>1 DEF Exact, Copies
<1>12. Alive(mail, "share", frees')
  <2>1. ASSUME NEW q \in Place, mail[q] # NULL, NEW b \in DataOf(mail[q])
        PROVE  frees'[b] = 0
    <3>1. mail[q] \in Exchange
      BY <1>0, <2>1, MailType DEF Mails
    <3>2. b \in Blocks /\ frees[b] = 0
      BY <1>0, <2>1, <3>1, DataBlocks DEF Alive
    <3> QED BY <1>5, <3>2
  <2> QED BY <1>5, <2>1 DEF Alive
<1>13. InUse(mail, "share", frees')
  BY <1>0, <1>1, <1>3, <1>5 DEF InUse
<1> QED BY <1>2, <1>3, <1>8, <1>9, <1>10, <1>11, <1>12, <1>13 DEF IInv

\* The put makes the counted copy, or leaves it to be undone.
LEMMA SharedPutStep == ASSUME IInv, SharedPut PROVE IInv'
<1>0. /\ Types /\ Sends /\ Contents(mail) /\ Alone(mail) /\ Unsent(mail) /\ Broadcast
      /\ Exact(mail, pc, sendPc, ref) /\ Alive(mail, sendPc, frees)
      /\ InUse(mail, sendPc, frees) /\ Once(mail, pc, handlerRuns)
  BY DEF IInv
<1> DEFINE to == Head(todo)
<1>1. /\ sendPc = "put" /\ todo # <<>> /\ to \in Tasks /\ Tail(todo) \in Seq(Tasks)
      /\ UNCHANGED <<cur, pc, ref, caller, refused, sharedType, frees, handlerRuns>>
      /\ Shared \in AllCalls /\ mail \in Mails /\ caller[Shared] # NULL
  <2>1. sendPc = "put" /\ todo # <<>> /\ caller[Shared] # NULL
    BY <1>0 DEF SharedPut, Broadcast
  <2>2. todo \in Seq(Tasks)
    BY <1>0 DEF Types
  <2>3. to \in Tasks /\ Tail(todo) \in Seq(Tasks)
    BY <2>1, <2>2
  <2> QED BY <1>0, <2>1, <2>3, MailType DEF SharedPut, AllCalls
<1> HIDE DEF to
<1>2. CASE Full(to)
  <2>1. sendPc' = "undo" /\ UNCHANGED <<queue, todo, token>>
    BY <1>2 DEF SharedPut, to
  <2>2. /\ mail' = mail /\ Sends' /\ Contents(mail) /\ Alone(mail)
        /\ Once(mail, pc, handlerRuns)'
    BY <1>1, <2>1, SharedParts DEF tasks
  <2>3. Types'
    BY <1>0, <1>1, <2>1 DEF Types
  <2>4. Unsent(mail)'
    BY <1>0, <1>1, <2>2 DEF Unsent
  <2>5. Broadcast'
    BY <1>0, <1>1, <2>1 DEF Broadcast
  <2>6. Exact(mail, pc, "undo", ref)
    <3>1. \A c \in AllCalls : Copies(mail, pc, "undo", c) = Copies(mail, pc, "put", c)
      BY DEF Copies, Broadcasting
    <3> QED BY <1>0, <1>1, <3>1 DEF Exact
  <2>7. Alive(mail, "undo", frees) /\ InUse(mail, "undo", frees)
    BY <1>0, <1>1 DEF Alive, InUse
  <2> QED BY <1>1, <2>1, <2>2, <2>3, <2>4, <2>5, <2>6, <2>7 DEF IInv
<1>3. CASE ~ Full(to)
  <2> DEFINE x == SharedExchange
             w == mail'
  <2>1. /\ Put(to, x) /\ token' = Shared /\ todo' = Tail(todo) /\ sendPc' = "share"
    BY <1>3 DEF SharedPut, to
  <2>2. /\ x \in Exchange /\ x.call = Shared /\ x.type = sharedType /\ x.resp = NULL
        /\ x.sref = TRUE /\ x.data = TRUE /\ DataOf(x) = {<<Shared, "request">>}
    <3>1. sharedType \in {"MSG_NON", "MSG_CON", "MSG_DIRECT"}
      BY <1>0, MessagingAssumption DEF Types
    <3>2. /\ x \in Exchange /\ x.call = Shared /\ x.type = sharedType /\ x.resp = NULL
          /\ x.sref = TRUE /\ x.data = TRUE
      BY <1>1, <3>1 DEF Exchange, SharedExchange
    <3> QED BY <3>2 DEF DataOf
  <2> HIDE DEF x
  <2>3. PICK p \in Place : p[2] # 0 /\ mail[p] = NULL /\ Written(mail, p, x, w)
    BY <1>0, <1>1, <1>3, <2>1, <2>2, PutWrite
  <2> HIDE DEF w
  <2>4. /\ w \in Mails /\ Contents(w) /\ Alone(w)
        /\ w[p] = x /\ x # NULL /\ \A q \in Place : q # p => w[q] = mail[q]
        /\ \A c \in AllCalls : c # Shared => Of(w, c) \subseteq Of(mail, c)
    <3>1. \A q \in Place : q # p /\ mail[q] # NULL /\ mail[q].call = x.call => Together(x, mail[q])
      BY <2>2 DEF Together
    <3> QED BY <1>0, <1>1, <2>2, <2>3, <3>1, WriteParts
  <2>5. Types'
    <3>1. queue' \in [Tasks -> Seq(Exchange)] /\ \A u \in Tasks : Len(queue'[u]) <= QueueSize
      <4>1. queue[to] \in Seq(Exchange) /\ Len(queue[to]) < QueueSize /\ QueueSize \in Nat
        BY <1>0, <1>1, <1>3, MessagingAssumption DEF Types, Full
      <4>2. /\ Append(queue[to], x) \in Seq(Exchange)
            /\ Len(Append(queue[to], x)) <= QueueSize
        BY <2>2, <4>1
      <4> QED BY <1>0, <1>1, <2>1, <4>2 DEF Types, Put
    <3> QED BY <1>0, <1>1, <2>1, <3>1 DEF Types
  <2>6. Sends'
    BY <1>0, <1>1 DEF Sends
  <2>7. Unsent(mail)'
    <3>1. \A c \in AllCalls : caller[c] = NULL => Of(w, c) = {} /\ handlerRuns[c] = <<>>
      BY <1>0, <1>1, <2>4 DEF Unsent
    <3> QED BY <1>1, <3>1 DEF Unsent, w
  <2>8. ASSUME NEW c \in AllCalls
        PROVE  Copies(w, pc, "share", c) = Copies(mail, pc, sendPc, c)
    <3> DEFINE s == Stack(to)
    <3>1. s \in Place /\ s # p
      BY <1>1, <2>3, StackPlace
    <3>2. w[s] = mail[s]
      BY <2>4, <3>1
    <3>3. /\ Counts(NULL, c) = 0 /\ Counts(x, c) = (IF c = Shared THEN 1 ELSE 0)
          /\ Puts(mail[s], pc[to], c) \in {0, 1}
          /\ Broadcasting(sendPc, c) = (IF c = Shared THEN 1 ELSE 0)
          /\ Broadcasting("share", c) = 0
      BY <1>1, <2>2, <2>4 DEF Counts, Puts, Broadcasting
    <3>4. Copies(w, pc, sendPc, c)
          = Copies(mail, pc, sendPc, c) - Counts(mail[p], c) + Counts(x, c)
            - Puts(mail[s], pc[to], c) + Puts(w[s], pc[to], c)
      BY <1>1, <2>2, <2>3, CopiesWrite
    <3>5. Copies(w, pc, "share", c)
          = Copies(w, pc, sendPc, c) - Broadcasting(sendPc, c) + Broadcasting("share", c)
      BY CopiesSending
    <3> QED BY <2>3, <3>2, <3>3, <3>4, <3>5, FiniteCopies
  <2>9. Exact(w, pc, "share", ref)
    BY <1>0, <2>8 DEF Exact
  <2>10. Broadcast'
    <3>1. ref[Shared] # NULL
      <4>1. Broadcasting(sendPc, Shared) = 1
        BY <1>1 DEF Broadcasting
      <4>2. Copies(mail, pc, sendPc, Shared) # 0
        BY <1>1, <4>1, CopiesZero
      <4>3. ref[Shared] \in Nat
        BY <1>0, <1>1, <4>2, FiniteCopies DEF Exact
      <4> QED BY <4>3, MessagingAssumption
    <3> QED BY <1>0, <1>1, <2>1, <3>1, MessagingAssumption DEF Broadcast
  <2>11. Alive(w, "share", frees)
    <3>1. frees[<<Shared, "request">>] = 0
      BY <1>0, <1>1 DEF Alive
    <3>2. \A q \in Place : w[q] # NULL => \A b \in DataOf(w[q]) : frees[b] = 0
      BY <1>0, <2>2, <2>4, <3>1 DEF Alive
    <3> QED BY <3>1, <3>2 DEF Alive
  <2>12. InUse(w, "share", frees)
    BY <1>0, <2>3, <2>4 DEF InUse
  <2>13. Once(w, pc, handlerRuns)
    <3> SUFFICES ASSUME NEW c \in Calls
                 PROVE  /\ Len(handlerRuns[c]) <= 1
                        /\ \A q \in Pending(w, pc, c) : handlerRuns[c] = <<>>
                             /\ \A r \in Pending(w, pc, c) : q = r
      BY DEF Once
    <3>1. c # Shared
      BY MessagingAssumption
    <3>2. Pending(w, pc, c) \subseteq Pending(mail, pc, c)
      BY <2>2, <2>4, <3>1 DEF Pending, Of
    <3> QED BY <1>0, <3>2 DEF Once
  <2> QED BY <1>1, <2>1, <2>4, <2>5, <2>6, <2>7, <2>9, <2>10, <2>11, <2>12, <2>13 DEF IInv, w
<1> QED BY <1>2, <1>3

\* FreeReference takes back what was counted for the refused copy.
LEMMA SharedUndoStep == ASSUME IInv, SharedUndo PROVE IInv'
<1>0. /\ Types /\ Unsent(mail) /\ Broadcast
      /\ Exact(mail, pc, sendPc, ref) /\ Alive(mail, sendPc, frees)
      /\ InUse(mail, sendPc, frees)
  BY DEF IInv
<1> DEFINE n == Copies(mail, pc, sendPc, Shared)
<1>1. /\ sendPc = "undo" /\ sendPc' = "share" /\ todo # <<>> /\ todo' \in Seq(Tasks)
      /\ UNCHANGED <<queue, cur, pc, caller, refused, sharedType, frees, handlerRuns>>
      /\ Shared \in AllCalls /\ caller[Shared] # NULL
  <2>1. sendPc = "undo" /\ todo # <<>> /\ caller[Shared] # NULL
    BY <1>0 DEF SharedUndo, Broadcast
  <2>2. todo \in Seq(Tasks)
    BY <1>0 DEF Types
  <2>3. Tail(todo) \in Seq(Tasks)
    BY <2>1, <2>2
  <2> QED BY <2>1, <2>3 DEF SharedUndo, AllCalls, tasks
<1>2. /\ mail' = mail /\ Sends' /\ Contents(mail) /\ Alone(mail)
      /\ Once(mail, pc, handlerRuns)'
  BY SharedParts DEF SharedUndo
<1>3. ASSUME NEW c \in AllCalls
      PROVE  Copies(mail, pc, "share", c)
             = Copies(mail, pc, sendPc, c) - (IF c = Shared THEN 1 ELSE 0)
  <2>1. Broadcasting("share", c) = 0 /\ Broadcasting(sendPc, c) = IF c = Shared THEN 1 ELSE 0
    BY <1>1 DEF Broadcasting
  <2> QED BY <2>1, CopiesSending, FiniteCopies
<1>4. /\ Copies(mail, pc, "share", Shared) = n - 1 /\ n \in Nat /\ n # 0 /\ ref[Shared] = n
      /\ Lower(ref[Shared]) = IF n - 1 = 0 THEN NULL ELSE n - 1
  <2>1. Copies(mail, pc, "share", Shared) = n - 1
    BY <1>1, <1>3
  <2>2. n \in Nat /\ Copies(mail, pc, "share", Shared) \in Nat
    BY FiniteCopies
  <2>3. n # 0
    BY <2>1, <2>2
  <2>4. ref[Shared] = n
    BY <1>0, <1>1, <2>3 DEF Exact
  <2> HIDE DEF n
  <2>5. Lower(n) = IF n - 1 = 0 THEN NULL ELSE n - 1
    BY <2>2, <2>3, MessagingAssumption DEF Lower
  <2> QED BY <2>1, <2>2, <2>3, <2>4, <2>5
<1> HIDE DEF n
<1>5. /\ ref' \in [AllCalls -> Nat \cup {NULL}]
      /\ ref'[Shared] = IF n - 1 = 0 THEN NULL ELSE n - 1
      /\ \A c \in AllCalls : c # Shared => ref'[c] = ref[c]
  <2>1. ref' = [ref EXCEPT ![Shared] = IF n - 1 = 0 THEN NULL ELSE n - 1]
    BY <1>4 DEF SharedUndo
  <2>2. (IF n - 1 = 0 THEN NULL ELSE n - 1) \in Nat \cup {NULL}
    BY <1>4
  <2> QED BY <1>0, <1>1, <2>1, <2>2 DEF Types
<1>6. token' = IF ref'[Shared] = NULL THEN NULL ELSE Shared
  BY <1>4, <1>5 DEF SharedUndo
<1>7. Types'
  BY <1>0, <1>1, <1>5, <1>6 DEF Types
<1>8. Unsent(mail)'
  BY <1>0, <1>1, <1>2 DEF Unsent
<1>9. Broadcast'
  BY <1>0, <1>1, <1>6, MessagingAssumption DEF Broadcast
<1>10. Exact(mail, pc, "share", ref')
  <2>1. \A c \in AllCalls : c # Shared => Copies(mail, pc, "share", c) = Copies(mail, pc, sendPc, c)
    BY <1>3, FiniteCopies
  <2> QED BY <1>0, <1>4, <1>5, <2>1 DEF Exact
<1>11. Alive(mail, "share", frees) /\ InUse(mail, "share", frees)
  BY <1>0, <1>1 DEF Alive, InUse
<1> QED BY <1>1, <1>2, <1>7, <1>8, <1>9, <1>10, <1>11 DEF IInv

\* The caller frees the data exactly if no receiver got a copy.
LEMMA SharedDoneStep == ASSUME IInv, SharedDone PROVE IInv'
<1>0. /\ Types /\ Unsent(mail) /\ Broadcast
      /\ Exact(mail, pc, sendPc, ref) /\ Alive(mail, sendPc, frees)
      /\ InUse(mail, sendPc, frees)
  BY DEF IInv
<1> DEFINE b0 == <<Shared, "request">>
           n == Copies(mail, pc, sendPc, Shared)
<1>1. /\ sendPc = "share" /\ sendPc' = "done"
      /\ UNCHANGED <<queue, cur, pc, ref, caller, refused, todo, sharedType, token, handlerRuns>>
      /\ Shared \in AllCalls /\ b0 \in Blocks /\ frees[b0] = 0 /\ caller[Shared] # NULL
  <2>1. sendPc = "share"
    BY DEF SharedDone
  <2> QED BY <1>0, <2>1 DEF SharedDone, AllCalls, Blocks, tasks, Alive, Broadcast
<1>2. /\ mail' = mail /\ Sends' /\ Contents(mail) /\ Alone(mail)
      /\ Once(mail, pc, handlerRuns)'
  BY SharedParts DEF SharedDone
<1>3. frees' \in [Blocks -> {NULL, 0, 1}]
      /\ frees'[b0] = (IF token = NULL THEN 1 ELSE 0)
      /\ \A b \in Blocks : b # b0 => frees'[b] = frees[b]
  BY <1>0, <1>1 DEF SharedDone, Types
<1>4. Copies(mail, pc, sendPc, Shared) = 0 <=> token = NULL
  <2>1. ref[Shared] = NULL <=> Copies(mail, pc, sendPc, Shared) = 0
    BY <1>0, <1>1, FiniteCopies, MessagingAssumption DEF Exact
  <2> QED BY <1>0, <1>1, <2>1 DEF Broadcast
<1>5. Broadcasting(sendPc, Shared) = 0
  BY <1>1 DEF Broadcasting
<1>6. Counted(mail, Shared) = {} <=> token = NULL
  BY <1>0, <1>4, <1>5, CopiesZero, MailType
<1>7. Types'
  BY <1>0, <1>1, <1>3 DEF Types
<1>8. Unsent(mail)'
  BY <1>0, <1>1, <1>2 DEF Unsent
<1>9. Broadcast'
  BY <1>0, <1>1 DEF Broadcast
<1>10. Exact(mail, pc, "done", ref)
  <2>1. \A c \in AllCalls : Copies(mail, pc, "done", c) = Copies(mail, pc, sendPc, c)
    BY <1>1 DEF Copies, Broadcasting
  <2> QED BY <1>0, <2>1 DEF Exact
<1>11. Alive(mail, "done", frees')
  <2>1. ASSUME NEW q \in Place, mail[q] # NULL, NEW b \in DataOf(mail[q])
        PROVE  frees'[b] = 0
    <3>1. mail[q] \in Exchange
      BY <1>0, <2>1, MailType DEF Mails
    <3>2. b \in Blocks /\ frees[b] = 0 /\ b[1] = mail[q].call
      BY <1>0, <2>1, <3>1, DataBlocks DEF Alive
    <3>3. b = b0 => token # NULL
      <4>1. mail[q].call = Shared => q \in Counted(mail, Shared)
        BY <1>2, <2>1 DEF Counted, Of, Contents
      <4> QED BY <1>6, <3>2, <4>1
    <3> QED BY <1>3, <3>2, <3>3
  <2> QED BY <2>1 DEF Alive
<1>12. InUse(mail, "done", frees')
  <2>1. ASSUME NEW b \in Blocks, frees'[b] = 0, b[1] # Shared \/ b[2] = "request"
        PROVE  \E q \in Place : mail[q] # NULL /\ b \in DataOf(mail[q])
    <3>1. b[1] = Shared => b = b0
      BY <2>1 DEF Blocks
    <3>2. CASE b = b0
      <4>1. PICK q \in Counted(mail, Shared) : TRUE
        BY <1>3, <1>6, <2>1, <3>2
      <4>2. q \in Place /\ mail[q] # NULL /\ mail[q].call = Shared
        BY <4>1 DEF Counted, Of
      <4>3. mail[q].data
        BY <1>2, <4>2 DEF Contents
      <4>4. b \in DataOf(mail[q])
        BY <3>2, <4>2, <4>3 DEF DataOf
      <4> QED BY <4>2, <4>4
    <3>3. CASE b # b0
      BY <1>0, <1>3, <2>1, <3>1, <3>3 DEF InUse
    <3> QED BY <3>2, <3>3
  <2> QED BY <2>1 DEF InUse
<1> QED BY <1>1, <1>2, <1>7, <1>8, <1>9, <1>10, <1>11, <1>12 DEF IInv

-----------------------------------------------------------------------------
(* The invariant. *)

\* The initial states satisfy it: no exchange is anywhere.
LEMMA InitIInv == ASSUME Init PROVE IInv
<1>1. \A q \in Place : mail[q] = NULL
  <2>1. \A t \in Tasks : cur[t] = NULL /\ queue[t] = <<>> /\ Len(queue[t]) = 0
    BY DEF Init
  <2> QED BY <2>1 DEF mail, Place
<1>2. todo \in Seq(Tasks)
  <2>1. IsFiniteSet(Receivers)
    BY MessagingAssumption, FS_Subset
  <2>2. Cardinality(Receivers) \in Nat
    BY <2>1, FS_CardinalityType
  <2>3. todo \in [1 .. Cardinality(Receivers) -> Receivers]
    BY DEF Init, SetToSeqs
  <2>4. todo \in [1 .. Cardinality(Receivers) -> Tasks]
    BY <2>3, MessagingAssumption
  <2> QED BY <2>2, <2>4
<1>3. Types
  BY <1>2, MessagingAssumption DEF Init, Types, Labels
<1>4. Sends /\ Contents(mail) /\ Alone(mail) /\ Unsent(mail) /\ Broadcast
  BY <1>1 DEF Init, Sends, Contents, Alone, Unsent, Of, Broadcast, Blocks, AllCalls
<1>5. Exact(mail, pc, sendPc, ref)
  <2>1. ASSUME NEW c \in AllCalls
        PROVE  Copies(mail, pc, sendPc, c) = 0 /\ ref[c] = NULL
    <3>1. Counted(mail, c) = {} /\ Broadcasting(sendPc, c) = 0
      BY <1>1 DEF Counted, Of, Broadcasting, Init
    <3> QED BY <1>3, <3>1, MailType, CopiesZero DEF Init
  <2> QED BY <2>1 DEF Exact
<1>6. Alive(mail, sendPc, frees) /\ InUse(mail, sendPc, frees) /\ Once(mail, pc, handlerRuns)
  <2>1. \A c \in Calls : Pending(mail, pc, c) = {} /\ Len(handlerRuns[c]) = 0
    BY <1>1 DEF Pending, Of, Init, AllCalls
  <2>2. \A b \in Blocks : frees[b] # 0
    BY MessagingAssumption DEF Init
  <2> QED BY <1>1, <2>1, <2>2 DEF Alive, InUse, Once, Init
<1> QED BY <1>3, <1>4, <1>5, <1>6 DEF IInv

\* Every step keeps it.
LEMMA NextIInv == ASSUME IInv, [Next]_vars PROVE IInv'
<1>1. ASSUME NEW c \in Calls, NEW from \in Tasks \cup {Main}, NEW to \in Tasks,
             NEW data \in BOOLEAN, NEW handler \in BOOLEAN,
             SendRequest(c, from, to, data, handler)
      PROVE  IInv'
  BY <1>1, SendRequestStep
<1>2. CASE SharedSend
  BY <1>2, SharedRaiseStep, SharedPutStep, SharedUndoStep, SharedDoneStep DEF SharedSend
<1>3. ASSUME NEW t \in Tasks, TaskEntry(t)
      PROVE  IInv'
  BY <1>3, RecvStep, WorkStep, FinishStep, RaiseResponseStep, PutResponseStep, FallbackStep,
     FreeMsgStep DEF TaskEntry
<1>4. ASSUME NEW t \in Tasks, SendResponse(t) \/ SendResponseByIdentity(t) \/ RaiseFails(t)
      PROVE  IInv'
  BY <1>4, ResponseStep, RaiseFailsStep
<1>5. CASE UNCHANGED vars
  <2>1. mail' = mail
    BY <1>5, SameMail DEF vars
  <2> QED BY <1>5, <2>1 DEF vars, IInv, Types, Sends, Unsent, Broadcast
<1>6. ASSUME SharedRaiseFails \/ \E t \in Tasks : Unregister(t) PROVE IInv'
  <2>1. ASSUME NEW t \in Tasks, Unregister(t) PROVE IInv'
    <3>1. /\ UNCHANGED <<queue, cur, pc, ref, caller, refused, todo, sharedType, token, sendPc>>
          /\ UNCHANGED <<frees, handlerRuns>>
      BY <2>1 DEF Unregister, tasks, bcast
    <3>2. mail' = mail
      BY <3>1, SameMail
    <3> QED BY <3>1, <3>2 DEF IInv, Types, Sends, Unsent, Broadcast
  <2> QED BY <1>6, <2>1, SharedRaiseFailsStep
<1> QED BY <1>1, <1>2, <1>3, <1>4, <1>5, <1>6 DEF Next

\* In every reachable state.
LEMMA Invariant == Spec => []IInv
<1>1. Init => IInv
  BY InitIInv
<1>2. IInv /\ [Next]_vars => IInv'
  BY NextIInv
<1> QED BY <1>1, <1>2, PTL DEF Spec

-----------------------------------------------------------------------------
(* The theorems. *)

\* The state of message.c and of the tasks has its types, whatever is sent.
THEOREM TypeCorrect == Spec => []TypeOK
<1>1. IInv => TypeOK
  <2> SUFFICES ASSUME IInv PROVE TypeOK
    OBVIOUS
  <2>1. Types
    BY DEF IInv
  <2>2. ASSUME NEW t \in Tasks
        PROVE  \A i \in 1 .. Len(queue[t]) : queue[t][i] \in Exchange
    <3>1. queue[t] \in Seq(Exchange)
      BY <2>1 DEF Types
    <3> QED BY <3>1
  <2> QED BY <2>1, <2>2 DEF Types, TypeOK, Labels
<1> QED BY <1>1, Invariant, PTL

\* The places of the counted copies are positions of queues and stacks.
LEMMA CountedPlaces ==
  ASSUME Types, NEW c \in AllCalls
  PROVE  LET counted == {t \in OnStack(c) : cur[t].sref}
             queued == {q \in Queued(c) : queue[q[1]][q[2]].sref}
         IN /\ Cardinality(Counted(mail, c)) = Cardinality(queued) + Cardinality(counted)
            /\ Putting(mail, pc, c) = {t \in counted : pc[t] \in {"put", "fallback"}}
<1> DEFINE counted == {t \in OnStack(c) : cur[t].sref}
           queued == {q \in Queued(c) : queue[q[1]][q[2]].sref}
           all == Counted(mail, c)
           onStack == {q \in all : q[2] = 0}
           f == [t \in counted |-> Stack(t)]
<1>1. \A t \in Tasks : t \in counted <=> Stack(t) \in all
  BY StackPlace, MailType DEF OnStack, Counted, Of
<1>2. Putting(mail, pc, c) = {t \in counted : pc[t] \in {"put", "fallback"}}
  BY <1>1 DEF Putting, OnStack
<1>3. queued = {q \in all : q[2] # 0}
  <2>1. ASSUME NEW q \in Place, q[2] # 0
        PROVE  q \in queued <=> q \in all
    <3>1. q \in Tasks \X (1 .. QueueSize) /\ q[1] \in Tasks
      BY <2>1, MessagingAssumption DEF Place
    <3>2. mail[q] = IF q[2] <= Len(queue[q[1]]) THEN queue[q[1]][q[2]] ELSE NULL
      BY <2>1 DEF mail
    <3>3. q[2] <= Len(queue[q[1]]) => queue[q[1]][q[2]] # NULL
      <4>1. queue[q[1]] \in Seq(Exchange) /\ q[2] \in 1 .. QueueSize
        BY <3>1 DEF Types
      <4>2. q[2] <= Len(queue[q[1]]) => queue[q[1]][q[2]] \in Exchange
        BY <4>1, MessagingAssumption
      <4> QED BY <4>2, ExchangeAssumption
    <3> QED BY <2>1, <3>1, <3>2, <3>3 DEF Queued, Counted, Of
  <2>2. \A q \in queued : q \in Place /\ q[2] # 0
    BY MessagingAssumption DEF Queued, Place
  <2>3. all \subseteq Place
    BY DEF Counted, Of
  <2> HIDE DEF queued, all
  <2> QED BY <2>1, <2>2, <2>3
<1>4. f \in Bijection(counted, onStack)
  <2>1. \A t \in counted : t \in Tasks /\ f[t] = Stack(t)
    BY DEF OnStack
  <2>2. f \in [counted -> onStack]
    BY <1>1, <2>1, StackPlace
  <2>3. \A t, u \in counted : f[t] = f[u] => t = u
    BY <2>1, StackPlace
  <2>4. \A q \in onStack : \E t \in counted : f[t] = q
    <3> TAKE q \in onStack
    <3>1. q \in Place /\ q[2] = 0
      BY DEF Counted, Of
    <3>2. q[1] \in Tasks /\ q = Stack(q[1])
      BY <3>1 DEF Place, Stack
    <3>3. q[1] \in counted
      BY <1>1, <3>2
    <3> QED BY <2>1, <3>2, <3>3
  <2> HIDE DEF f, counted, onStack
  <2> QED BY <2>2, <2>3, <2>4, Fun_IsBij
<1>5. IsFiniteSet(all)
  BY FiniteCopies
<1>6. IsFiniteSet(onStack) /\ IsFiniteSet(queued)
  BY <1>3, <1>5, FS_Subset
<1>7. Cardinality(onStack) = Cardinality(counted)
  <2> HIDE DEF f, counted, onStack
  <2>1. ExistsBijection(counted, onStack)
    BY <1>4, Fun_ExistsBij
  <2>2. ExistsBijection(onStack, counted)
    BY <2>1, Fun_ExistsBijSymmetric
  <2> QED BY <1>6, <2>2, FS_Bijection
<1>8. Cardinality(all) = Cardinality(queued) + Cardinality(onStack)
  <2>1. all = queued \cup onStack /\ queued \cap onStack = {}
    BY <1>3
  <2>2. Cardinality(queued \cup onStack)
        = Cardinality(queued) + Cardinality(onStack) - Cardinality(queued \cap onStack)
    BY <1>6, FS_Union
  <2> HIDE DEF queued, onStack, all
  <2>3. Cardinality(queued \cap onStack) = 0
    BY <2>1, FS_EmptySet
  <2>4. Cardinality(queued) \in Nat /\ Cardinality(onStack) \in Nat
    BY <1>6, FS_CardinalityType
  <2>5. Cardinality(all) = Cardinality(queued \cup onStack)
    BY <2>1
  <2> QED BY <2>2, <2>3, <2>4, <2>5
<1> QED BY <1>2, <1>7, <1>8

\* The counter of every exchange is the number of copies that will be dropped,
\* through SharedSend, FreeReference and SAMGR_FreeMsg.
THEOREM CountersExact == Spec => []RefExact
<1>1. IInv => RefExact
  <2> SUFFICES ASSUME IInv, NEW c \in AllCalls
               PROVE  LET counted == {t \in OnStack(c) : cur[t].sref}
                          copies == Cardinality({q \in Queued(c) : queue[q[1]][q[2]].sref})
                            + Cardinality(counted)
                            + Cardinality({t \in counted : pc[t] \in {"put", "fallback"}})
                            + (IF c = Shared /\ sendPc \in {"put", "undo"} THEN 1 ELSE 0)
                      IN IF copies = 0 THEN ref[c] = NULL ELSE ref[c] = copies
    BY DEF RefExact
  <2> DEFINE counted == {t \in OnStack(c) : cur[t].sref}
             queued == {q \in Queued(c) : queue[q[1]][q[2]].sref}
             putting == {t \in counted : pc[t] \in {"put", "fallback"}}
             sending == IF c = Shared /\ sendPc \in {"put", "undo"} THEN 1 ELSE 0
  <2>1. Types /\ Exact(mail, pc, sendPc, ref)
    BY DEF IInv
  <2>2. /\ Cardinality(Counted(mail, c)) = Cardinality(queued) + Cardinality(counted)
        /\ Putting(mail, pc, c) = putting
    BY <2>1, CountedPlaces
  <2>3. Copies(mail, pc, sendPc, c)
        = Cardinality(queued) + Cardinality(counted) + Cardinality(putting) + sending
    <3> HIDE DEF counted, queued, putting
    <3> QED BY <2>2 DEF Copies, Broadcasting
  <2>4. IF Copies(mail, pc, sendPc, c) = 0 THEN ref[c] = NULL
        ELSE ref[c] = Copies(mail, pc, sendPc, c)
    BY <2>1 DEF Exact
  <2> QED BY <2>3, <2>4
<1> QED BY <1>1, Invariant, PTL

\* SAMGR_FreeMsg, and the caller of a broadcast no receiver got, free the
\* data of an exchange at most once between them.
THEOREM DataFreedOnce == Spec => []FreedOnce
<1>1. IInv => FreedOnce
  BY DEF IInv, Types, FreedOnce
<1> QED BY <1>1, Invariant, PTL

\* No queued exchange, running handler or unfinished broadcast points to
\* data that was freed.
THEOREM DataAlive == Spec => []NoUseAfterFree
<1>1. IInv => NoUseAfterFree
  <2> SUFFICES ASSUME IInv PROVE NoUseAfterFree
    OBVIOUS
  <2>1. Types /\ Alive(mail, sendPc, frees)
    BY DEF IInv
  <2>2. ASSUME NEW t \in Tasks, cur[t] # NULL
        PROVE  \A b \in DataOf(cur[t]) : frees[b] = 0
    <3>1. Stack(t) \in Place /\ mail[Stack(t)] = cur[t]
      BY <2>1, StackPlace, MailType
    <3> QED BY <2>1, <2>2, <3>1 DEF Alive
  <2>3. ASSUME NEW t \in Tasks, NEW i \in 1 .. Len(queue[t])
        PROVE  \A b \in DataOf(queue[t][i]) : frees[b] = 0
    <3>1. queue[t] \in Seq(Exchange) /\ Len(queue[t]) <= QueueSize /\ QueueSize \in Nat
      BY <2>1, MessagingAssumption DEF Types
    <3>2. queue[t][i] \in Exchange /\ i \in 1 .. QueueSize
      BY <3>1
    <3>3. <<t, i>> \in Place /\ <<t, i>>[1] = t /\ <<t, i>>[2] = i /\ i # 0
      BY <3>1, <3>2 DEF Place
    <3>4. mail[<<t, i>>] = queue[t][i] /\ queue[t][i] # NULL
      BY <3>1, <3>2, <3>3, ExchangeAssumption DEF mail
    <3> QED BY <2>1, <3>3, <3>4 DEF Alive
  <2> QED BY <2>1, <2>2, <2>3 DEF NoUseAfterFree, Alive, Sending
<1> QED BY <1>1, Invariant, PTL

\* Of a call that is over, the counter and the data (of a broadcast, the
\* request) have been freed.
THEOREM NothingLeaks == Spec => []NoLeak
<1>1. IInv => NoLeak
  <2> SUFFICES ASSUME IInv, NEW c \in AllCalls, Settled(c)
               PROVE  /\ ref[c] = NULL
                      /\ \A b \in Blocks : b[1] = c /\ (c # Shared \/ b[2] = "request") =>
                           frees[b] # 0
    BY DEF NoLeak
  <2>1. /\ Types /\ Exact(mail, pc, sendPc, ref) /\ InUse(mail, sendPc, frees)
    BY DEF IInv
  <2>2. Of(mail, c) = {}
    <3> SUFFICES ASSUME NEW q \in Place, mail[q] # NULL, mail[q].call = c
                 PROVE  FALSE
      BY DEF Of
    <3>1. q[1] \in Tasks /\ (q[2] = 0 => q = Stack(q[1]))
      BY DEF Place, Stack
    <3>2. CASE q[2] = 0
      <4>1. mail[q] = cur[q[1]]
        BY <2>1, <3>1, <3>2, MailType
      <4> QED BY <3>1, <4>1 DEF Settled, OnStack
    <3>3. CASE q[2] # 0
      <4>1. q \in Tasks \X (1 .. QueueSize)
        BY <3>3, MessagingAssumption DEF Place
      <4>2. q[2] <= Len(queue[q[1]]) /\ mail[q] = queue[q[1]][q[2]]
        BY <3>3 DEF mail
      <4> QED BY <4>1, <4>2 DEF Settled, Queued
    <3> QED BY <3>2, <3>3
  <2>3. ref[c] = NULL
    <3>1. Counted(mail, c) = {} /\ Broadcasting(sendPc, c) = 0
      BY <2>2 DEF Counted, Broadcasting, Settled
    <3> QED BY <2>1, <3>1, CopiesZero, MailType DEF Exact
  <2>4. ASSUME NEW b \in Blocks, b[1] = c, c # Shared \/ b[2] = "request", frees[b] = 0
        PROVE  FALSE
    <3>1. c = Shared => sendPc = "done"
      BY DEF Settled
    <3>2. PICK q \in Place : mail[q] # NULL /\ b \in DataOf(mail[q])
      BY <2>1, <2>4, <3>1 DEF InUse
    <3>3. mail[q].call = c
      BY <2>1, <2>4, <3>2, MailType, DataBlocks DEF Mails
    <3> QED BY <2>2, <3>2, <3>3 DEF Of
  <2> QED BY <2>3, <2>4
<1> QED BY <1>1, Invariant, PTL

\* The handler of a request runs at most once, wherever its response goes.
THEOREM HandledOnce == Spec => []HandlerAtMostOnce
<1>1. IInv => HandlerAtMostOnce
  BY DEF IInv, Once, HandlerAtMostOnce
<1> QED BY <1>1, Invariant, PTL
=============================================================================
