------------------------------ MODULE SamgrTimer ------------------------------
(***************************************************************************)
(* samgr_lite/samgr_timer: the timer service.  A thread of its own sends   *)
(* it a tick every 10 ms, unless two ticks are waiting already; the        *)
(* service task fires the timers that expired and rearms the periodic      *)
(* ones; clients arm, change and cancel timers by messages.                *)
(*                                                                         *)
(* The queue is that of QueueAdapter and is shared with other services     *)
(* (SHARED_TASK).  timerList belongs to the service task alone, so one     *)
(* message is one step; the two tick counters are shared between the tick  *)
(* thread, which writes tickCntWr, and the task, which writes tickCntRd.   *)
(*                                                                         *)
(* Time is SAMGR_GetProcessTime() & SAMGR_TIMER_TIME_MAX: it has any value *)
(* at the start, wraps, may pass lastTick while no tick is handled, and,   *)
(* being CLOCK_REALTIME, can be set to any other value.                    *)
(* Bounds: clients keep at most MaxUpdates updates and other services at   *)
(* most MaxOthers messages in the queue; intervals do not reach            *)
(* 2^32 - 2 * TimeMax.                                                     *)
(***************************************************************************)
EXTENDS Integers, Sequences, FiniteSets, SequencesExt

CONSTANTS Timers,      \* the <<identity, msgId>> pairs that name a timer
          Intervals,   \* intervals clients ask for; 0 cancels
          Repeats,     \* repeatCnt clients ask for; 0 cancels
          TimeMax,     \* SAMGR_TIMER_TIME_MAX
          CounterMax,  \* the largest uint8, 0xFF
          QueueSize,   \* slots of the message queue
          MaxUpdates, MaxOthers, \* bounds, see above
          HistoryMax   \* bound of the history variables credit and since

Infinite == -1         \* SAMGR_TIMER_REPEAT_INFINITE

ASSUME TimerAssumption ==
  /\ Intervals \subseteq Nat /\ Repeats \subseteq Nat \cup {Infinite}
  /\ TimeMax \in Nat \ {0} /\ CounterMax \in Nat \ {0, 1, 2}
  /\ QueueSize \in Nat \ {0} /\ MaxUpdates \in Nat /\ MaxOthers \in Nat /\ HistoryMax \in Nat
  /\ \A i \in Intervals : 2 * i < HistoryMax

VARIABLES
  now,        \* the masked time
  timerList,  \* the list of SamgrTimerNode, head first
  lastTick,   \* samgrTimer->lastTick
  tickCntWr, tickCntRd,
  queue,      \* the messages in the queue of the service task
  tickPc,     \* where samgrTimerTickReq is: "sleep", "send" or "count"
  credit,     \* history: time since t was armed, less an interval per firing
  since,      \* history: time since t was armed or fired last
  owed,       \* history: how often t still has to fire
  unseen,     \* history: whether t was armed while the time was behind lastTick
  misled      \* history: whether, since t was armed, the clock was set, or
              \* turned in a way the test now < lastTick does not show

tickVars == <<tickCntWr, tickPc>>
taskVars == <<timerList, lastTick, tickCntRd, credit, since, owed, unseen, misled>>
vars == <<now, timerList, lastTick, tickCntWr, tickCntRd, queue, tickPc, credit,
          since, owed, unseen, misled>>

Tick == [type |-> "tick"]
Other == [type |-> "other"]
Update(t, i, r) == [type |-> "update", timer |-> t, interval |-> i, repeatCnt |-> r]

Node(m, expire) == [timer |-> m.timer, interval |-> m.interval,
                    repeatCnt |-> m.repeatCnt, expire |-> expire]

Init == /\ now \in 0 .. TimeMax
        /\ timerList = <<>> /\ lastTick = 0
        /\ tickCntWr = 0 /\ tickCntRd = 0
        /\ queue = <<>>
        /\ tickPc = "sleep"
        /\ credit = [t \in Timers |-> 0]
        /\ since = [t \in Timers |-> 0]
        /\ owed = [t \in Timers |-> 0]
        /\ unseen = [t \in Timers |-> FALSE]
        /\ misled = [t \in Timers |-> FALSE]

-----------------------------------------------------------------------------
(* Senders *)

\* QUEUE_Put with DONT_WAIT; nobody here looks at its result.
Put(m) == queue' = IF Len(queue) < QueueSize THEN Append(queue, m) ELSE queue

Waiting(type) == Cardinality({i \in DOMAIN queue : queue[i].type = type})

\* SamgrTimer_UpdateTime.
UpdateTime(t, i, r) == /\ Waiting("update") < MaxUpdates
                       /\ Put(Update(t, i, r))
                       /\ UNCHANGED <<now, tickVars, taskVars>>

SendOther == /\ Waiting("other") < MaxOthers
             /\ Put(Other)
             /\ UNCHANGED <<now, tickVars, taskVars>>

\* Mutant: the counters are compared without regard to their wrap.
TickDiffSmaller(wr, rd) == IF wr >= rd THEN wr - rd ELSE 0

\* Ticks sent and not yet handled, by the two counters.  When tickCntWr has
\* wrapped and tickCntRd has not, the code counts one tick too few.
TickDiff(wr, rd) == IF wr >= rd THEN wr - rd ELSE CounterMax - rd + wr

\* samgrTimerTickReq: test the counters, send the tick, count it, also when
\* the queue refused it.
TickTest == /\ tickPc = "sleep"
            /\ TickDiff(tickCntWr, tickCntRd) < 2
            /\ tickPc' = "send"
            /\ UNCHANGED <<now, tickCntWr, queue, taskVars>>

TickSend == /\ tickPc = "send"
            /\ Put(Tick)
            /\ tickPc' = "count"
            /\ UNCHANGED <<now, tickCntWr, taskVars>>

TickCount == /\ tickPc = "count"
             /\ tickCntWr' = (tickCntWr + 1) % (CounterMax + 1)
             /\ tickPc' = "sleep"
             /\ UNCHANGED <<now, queue, taskVars>>

-----------------------------------------------------------------------------
(* The list *)

\* SamgrTimer_InsertNodeOrdered: before the first node that expires later;
\* if there is none, UtilsListAdd, which inserts at the head.
InsertNodeOrdered(list, node) ==
  LET later == {i \in DOMAIN list : list[i].expire > node.expire}
  IN IF later = {} THEN <<node>> \o list
     ELSE InsertAt(list, CHOOSE i \in later : \A j \in later : i <= j, node)

\* The nodes of the list that are in S, in its order.
Keep(list, S) ==
  LET kept[k \in 0 .. Len(list)] ==
        IF k = 0 THEN <<>>
        ELSE IF list[k] \in S THEN Append(kept[k - 1], list[k]) ELSE kept[k - 1]
  IN kept[Len(list)]

\* The list after the nodes of a list to which UtilsListAdd added them one by
\* one, the last one at its head, were inserted from the head on.
InsertAll(list, nodes) ==
  LET inserted[k \in 0 .. Len(nodes)] ==
        IF k = 0 THEN list
        ELSE InsertNodeOrdered(inserted[k - 1], nodes[Len(nodes) + 1 - k])
  IN inserted[Len(nodes)]

\* Mutant: every node has expired when the clock wraps.
UnwrapAll(node) == [node EXCEPT !.expire = 0]

\* The node when the clock wrapped since the last tick.
Unwrap(node) == [node EXCEPT !.expire = IF @ > TimeMax THEN @ - TimeMax ELSE 0]

\* Mutant: the wrap goes unnoticed.
ListAtTickRaw == timerList

\* The list as a tick finds it.
ListAtTick == [i \in DOMAIN timerList |->
                 IF now < lastTick THEN Unwrap(timerList[i]) ELSE timerList[i]]

\* A fired node that is not finished: its next expiry.
Rearm(node) ==
  [node EXCEPT !.repeatCnt = IF @ = Infinite THEN @ ELSE @ - 1,
               !.expire = IF @ + node.interval < now THEN now + node.interval
                          ELSE @ + node.interval]

\* Mutant: the counter is tested before it is decremented.
LastFiringLate(node) == node.repeatCnt = 0

\* repeatCnt reaches zero with this firing.
LastFiring(node) == node.repeatCnt = 1

-----------------------------------------------------------------------------
(* The service task *)

Receive(m) == /\ queue # <<>> /\ Head(queue) = m
              /\ queue' = Tail(queue)

HandleOther == Receive(Other) /\ UNCHANGED <<now, tickVars, taskVars>>

\* Mutant: handled ticks are not counted.
CountReadNot == UNCHANGED tickCntRd

CountRead == tickCntRd' = (tickCntRd + 1) % (CounterMax + 1)

\* The histories of the timers of the nodes that fired.
Fired(nodes) ==
  LET of(t) == {node \in nodes : node.timer = t}
  IN /\ credit' = [t \in Timers |->
          IF of(t) = {} \/ misled[t] THEN credit[t]
          ELSE credit[t] - (CHOOSE node \in of(t) : TRUE).interval]
     /\ since' = [t \in Timers |-> IF of(t) = {} THEN since[t] ELSE 0]
     /\ owed' = [t \in Timers |->
          IF of(t) = {} \/ owed[t] <= 0 THEN owed[t] ELSE owed[t] - 1]

\* SamgrTimer_FireTimers: every expired timer is sent to its receiver and
\* freed or set aside on a list, from which it is then inserted again.
FireTimers ==
  /\ Receive(Tick)
  /\ CountRead
  /\ LET expired == {node \in ToSet(ListAtTick) : node.expire <= now}
         again == Keep(ListAtTick, {node \in expired : ~ LastFiring(node)})
     IN /\ timerList' = InsertAll(Keep(ListAtTick, ToSet(ListAtTick) \ expired),
                                  [i \in DOMAIN again |-> Rearm(again[i])])
        /\ Fired(expired)
  /\ lastTick' = now
  /\ UNCHANGED <<now, tickVars, unseen, misled>>

\* Mutant: the timer that is changed stays in the list.
WithoutNone(list, t) == list

\* The list without the first node of timer t.
Without(list, t) ==
  LET of == {i \in DOMAIN list : list[i].timer = t}
  IN IF of = {} THEN list ELSE RemoveAt(list, CHOOSE i \in of : \A j \in of : i <= j)

\* SamgrTimer_UpdateTimer: change, cancel or create the timer.
UpdateTimer ==
  /\ queue # <<>> /\ Head(queue).type = "update"
  /\ queue' = Tail(queue)
  /\ LET m == Head(queue)
         armed == m.interval > 0 /\ m.repeatCnt # 0
         rest == Without(timerList, m.timer)
     IN /\ timerList' = IF armed THEN InsertNodeOrdered(rest, Node(m, now + m.interval))
                        ELSE rest
        /\ credit' = [credit EXCEPT ![m.timer] = 0]
        /\ since' = [since EXCEPT ![m.timer] = 0]
        /\ owed' = [owed EXCEPT ![m.timer] = IF armed THEN m.repeatCnt ELSE 0]
        /\ unseen' = [unseen EXCEPT ![m.timer] = armed /\ now < lastTick]
        /\ misled' = [misled EXCEPT ![m.timer] = FALSE]
  /\ UNCHANGED <<now, tickVars, lastTick, tickCntRd>>

\* The armed timers are misled if the test of FireTimers is.
Mislead(wrong) == misled' = [t \in Timers |-> misled[t] \/ (wrong /\ owed[t] # 0)]

\* A history one unit of time later; those of timers that are not armed, or
\* misled, are kept at 0.
Later(t, h) == IF owed[t] = 0 \/ misled'[t] THEN 0 ELSE IF h = HistoryMax THEN h ELSE h + 1

\* Time goes on.  FireTimers takes now < lastTick for one wrap since the last
\* tick: wrongly before the first tick, when lastTick is 0, and once the time
\* has come round to lastTick.
Clock == /\ now' = (now + 1) % (TimeMax + 1)
         /\ Mislead((now' < lastTick) # (now < lastTick \/ now' = 0))
         /\ credit' = [t \in Timers |-> Later(t, credit[t])]
         /\ since' = [t \in Timers |-> Later(t, since[t])]
         /\ UNCHANGED <<timerList, lastTick, tickCntRd, owed, unseen, queue, tickVars>>

\* CLOCK_REALTIME is set, forwards or back.
SetClock == /\ now' \in 0 .. TimeMax \ {now}
            /\ Mislead(TRUE)
            /\ credit' = [t \in Timers |-> 0] /\ since' = [t \in Timers |-> 0]
            /\ UNCHANGED <<timerList, lastTick, tickCntRd, owed, unseen, queue, tickVars>>

-----------------------------------------------------------------------------
TickReq == TickTest \/ TickSend \/ TickCount
MessageHandle == FireTimers \/ UpdateTimer \/ HandleOther

Next == \/ \E t \in Timers, i \in Intervals, r \in Repeats : UpdateTime(t, i, r)
        \/ SendOther
        \/ TickReq
        \/ MessageHandle
        \/ Clock
        \/ SetClock

Spec == Init /\ [][Next]_vars

\* The thread and the task run and time goes on; clients need do nothing.
FairSpec == Spec /\ WF_vars(TickReq) /\ WF_vars(MessageHandle) /\ WF_vars(Clock)
-----------------------------------------------------------------------------
(* Properties *)

\* The state has its types.
TypeOK == /\ now \in 0 .. TimeMax /\ lastTick \in 0 .. TimeMax
          /\ \A i \in DOMAIN timerList :
               /\ timerList[i].timer \in Timers
               /\ timerList[i].interval \in Intervals \ {0}
               /\ timerList[i].repeatCnt \in (Nat \ {0}) \cup {Infinite}
               /\ timerList[i].expire \in Nat
          /\ {tickCntWr, tickCntRd} \subseteq 0 .. CounterMax
          /\ Len(queue) <= QueueSize
          /\ tickPc \in {"sleep", "send", "count"}

NodesOf(t) == {i \in DOMAIN timerList : timerList[i].timer = t}

\* A timer is in the list once while it has to fire, and not at all before it
\* is armed, after its last firing and after it was cancelled, however ticks
\* and updates follow each other.
ListedWhileOwed ==
  \A t \in Timers : Cardinality(NodesOf(t)) = (IF owed[t] = 0 THEN 0 ELSE 1)

\* The flow control of samgrTimerTickReq, although it reads a counter the
\* service task writes and both wrap: at most three ticks wait in the queue
\* (two by the code's own test; its arithmetic lets one more pass when
\* tickCntWr has wrapped and tickCntRd has not).
FewTicksWait == Waiting("tick") <= 3

\* The n-th firing of a timer is not earlier than n intervals after it was
\* armed, across wraps of the clock, late ticks and the catching up of
\* FireTimers.  Left out are the timers the code itself fires at a wrong time:
\* those under which the clock was set, or turned unseen, and those armed
\* while the time was behind lastTick, which the next tick takes for older
\* ones and fires at once.
NeverAhead ==
  \A t \in Timers : ~ unseen[t] /\ ~ misled[t] => credit[t] >= 0

\* When a tick was handled, no timer is left that was armed or fired last
\* more than its interval ago, but for those under which the clock was set or
\* turned unseen.  An interval longer than the clock may be late by one unit
\* in each TimeMax of it, as Unwrap subtracts SAMGR_TIMER_TIME_MAX where the
\* clock wraps at SAMGR_TIMER_TIME_MAX + 1.
DueFired ==
  [][FireTimers =>
       \A i \in DOMAIN timerList' :
         LET node == timerList'[i]
         IN ~ misled[node.timer] =>
              TimeMax * (since'[node.timer] - node.interval) < node.interval]_vars

\* While no tick is refused by a full queue, ticks go on for ever: neither
\* the wrapping counters nor a service task that is slow stop the tick thread.
TicksGoOn == []<><<FireTimers>>_vars
=============================================================================
