------------------------------ MODULE Messaging ------------------------------
(***************************************************************************)
(* samgr_lite/samgr/source/message.c and the task loop of task_manager.c:  *)
(* requests, responses and shared requests between service tasks, and who  *)
(* frees the data they carry.                                              *)
(*                                                                         *)
(* Every service task has one queue (QueueAdapter; here a sequence with    *)
(* atomic non-blocking puts) and runs TaskEntry.  An Exchange is copied    *)
(* into and out of queues; its request and response data are shared        *)
(* between copies through the counter sharedRef.  An outside thread (Main, *)
(* with no queue of its own) starts calls and broadcasts one shared        *)
(* request; handlers running in a task start further calls.                *)
(*                                                                         *)
(* message.h asks two things of callers, which the model grants: data of a *)
(* refused request is released by the caller, and a task processes a       *)
(* shared request only after it was sent to all its receivers.  A service  *)
(* may be unregistered while requests for it wait; that its task goes on   *)
(* (its pool is shared) or ends is the subject of TaskPool.                *)
(***************************************************************************)
EXTENDS Naturals, Sequences, FiniteSets, SequencesExt

CONSTANTS Tasks,       \* the service tasks, each with its queue
          Main,        \* a thread that is no service task
          Calls,       \* identities of SAMGR_SendRequest calls
          Shared,      \* identity of the one broadcast
          Receivers,   \* the tasks it is sent to
          SharedTypes, \* how it may be sent: MSG_NON, MSG_CON, MSG_DIRECT
          Leaving,     \* the tasks whose service may be unregistered
          QueueSize,   \* config->queueSize of every queue
          MallocFails, \* whether MEM_Malloc may return NULL
          NULL

ASSUME MessagingAssumption ==
  /\ Main \notin Tasks /\ Shared \notin Calls
  /\ IsFiniteSet(Tasks) /\ Receivers \subseteq Tasks /\ Leaving \subseteq Tasks
  /\ SharedTypes \subseteq {"MSG_NON", "MSG_CON", "MSG_DIRECT"}
  /\ QueueSize \in Nat \ {0} /\ MallocFails \in BOOLEAN
  /\ NULL \notin Tasks \cup {Main, Shared} \cup Nat

VARIABLES
  queue,      \* queue[t]: the exchanges in t's message queue
  cur,        \* cur[t]: the exchange on the stack of t's TaskEntry, or NULL
  pc,         \* pc[t]: where t is in TaskEntry
  ref,        \* ref[c]: *sharedRef of call c, NULL when it is not allocated
  caller,     \* caller[c]: the thread that sent c, NULL before
  refused,    \* the calls whose QUEUE_Put failed
  gone,       \* the tasks whose service was unregistered
  todo,       \* receivers the broadcast still has to be sent to, in order
  sharedType, \* MSG_NON, MSG_CON or MSG_DIRECT: how the broadcast is sent
  token,      \* what the last send of the broadcast returned as token
  sendPc,     \* where Main is: "idle", "share", "put", "undo" or "done"
  frees,      \* how often a block of data was freed, NULL before it is made:
              \* <<c, "request">> and, for each responder t, <<c, t>>
  handlerRuns \* the threads that ran the handler of a call, in order

tasks == <<queue, cur, pc>>
bcast == <<todo, sharedType, token, sendPc>>
vars == <<queue, cur, pc, ref, caller, refused, gone, todo, sharedType, token, sendPc,
          frees, handlerRuns>>

AllCalls == Calls \cup {Shared}
Blocks == AllCalls \X (Tasks \cup {"request"})

\* An Exchange: resp is the task whose response data it carries, sref says
\* whether its sharedRef is set, back is id.queueId (the requester's queue).
Exchange == [call : AllCalls, type : {"MSG_NON", "MSG_CON", "MSG_ACK", "MSG_DIRECT"},
             back : Tasks \cup {NULL}, handler : BOOLEAN, data : BOOLEAN,
             resp : Tasks \cup {NULL}, sref : BOOLEAN]

ASSUME ExchangeAssumption == NULL \notin Exchange

Init == /\ queue = [t \in Tasks |-> <<>>]
        /\ cur = [t \in Tasks |-> NULL]
        /\ pc = [t \in Tasks |-> "recv"]
        /\ ref = [c \in AllCalls |-> NULL]
        /\ caller = [c \in AllCalls |-> NULL]
        /\ refused = {}
        /\ gone = {}
        /\ todo \in SetToSeqs(Receivers)
        /\ sharedType \in SharedTypes
        /\ token = NULL
        /\ sendPc = "idle"
        /\ frees = [b \in Blocks |-> NULL]
        /\ handlerRuns = [c \in AllCalls |-> <<>>]

-----------------------------------------------------------------------------
(* Helpers of message.c *)

\* QUEUE_Put with DONT_WAIT: refused when the queue is full.
Full(t) == Len(queue[t]) >= QueueSize
Put(t, x) == queue' = [queue EXCEPT ![t] = Append(@, x)]

\* Mutants: responses start from a zero counter; the counter is not raised
\* for a sharedRef that already exists.
RaiseFromZero(r, initRef) == IF r = NULL THEN 1 ELSE r + 1
RaiseOnlyNew(r, initRef) == IF r = NULL THEN initRef + 1 ELSE r

\* The counter after SharedSend raised it, allocating it if necessary.
Raise(r, initRef) == IF r = NULL THEN initRef + 1 ELSE r + 1

\* The counter after FreeReference: never below zero, and freed at zero.
Lower(r) == IF r = NULL \/ r <= 1 THEN NULL ELSE r - 1

\* SharedSend copies an exchange with nothing to free without a counter.
Plain(x) == ~x.data /\ x.resp = NULL /\ ~x.sref

-----------------------------------------------------------------------------
(* SAMGR_SendRequest, from Main or from a handler of a task *)

\* id.queueId is the caller's own queue, NULL for a thread without one.
SendRequest(c, from, to, data, handler) ==
  /\ caller[c] = NULL
  /\ from \in Tasks => pc[from] = "body"
  /\ caller' = [caller EXCEPT ![c] = from]
  /\ IF Full(to)
     THEN /\ refused' = refused \cup {c}
          /\ frees' = [frees EXCEPT ![<<c, "request">>] = IF data THEN 1 ELSE NULL]
          /\ UNCHANGED queue
     ELSE /\ Put(to, [call |-> c, type |-> IF handler THEN "MSG_CON" ELSE "MSG_NON",
                      back |-> IF handler /\ from \in Tasks THEN from ELSE NULL,
                      handler |-> handler, data |-> data,
                      resp |-> NULL, sref |-> FALSE])
          /\ frees' = [frees EXCEPT ![<<c, "request">>] = IF data THEN 0 ELSE NULL]
          /\ UNCHANGED refused
  /\ UNCHANGED <<cur, pc, ref, gone, bcast, handlerRuns>>

-----------------------------------------------------------------------------
(* SAMGR_SendSharedRequest / SAMGR_SendSharedDirectRequest to every receiver *)
(* in turn, each time with the token the previous send returned.               *)

SharedExchange == [call |-> Shared, type |-> sharedType, back |-> NULL,
                   handler |-> sharedType # "MSG_NON", data |-> TRUE,
                   resp |-> NULL, sref |-> TRUE]

SharedRaise == /\ sendPc \in {"idle", "share"} /\ todo # <<>>
               /\ caller' = [caller EXCEPT ![Shared] = Main]
               /\ ref' = [ref EXCEPT ![Shared] = Raise(@, 0)]
               /\ frees' = [frees EXCEPT ![<<Shared, "request">>] = IF @ = NULL THEN 0 ELSE @]
               /\ sendPc' = "put"
               /\ UNCHANGED <<tasks, refused, gone, todo, sharedType, token, handlerRuns>>

\* No memory for the counter: SharedSend fails with EC_NOMEMORY, there is no
\* reference to undo and the token stays NULL.
SharedRaiseFails ==
  /\ MallocFails /\ sendPc \in {"idle", "share"} /\ todo # <<>> /\ token = NULL
  /\ caller' = [caller EXCEPT ![Shared] = Main]
  /\ frees' = [frees EXCEPT ![<<Shared, "request">>] = IF @ = NULL THEN 0 ELSE @]
  /\ todo' = Tail(todo)
  /\ sendPc' = "share"
  /\ UNCHANGED <<tasks, ref, refused, gone, sharedType, token, handlerRuns>>

SharedPut == /\ sendPc = "put"
             /\ IF Full(Head(todo))
                THEN sendPc' = "undo" /\ UNCHANGED <<queue, todo, token>>
                ELSE /\ Put(Head(todo), SharedExchange)
                     /\ token' = Shared
                     /\ todo' = Tail(todo)
                     /\ sendPc' = "share"
             /\ UNCHANGED <<cur, pc, ref, caller, refused, gone, sharedType, frees, handlerRuns>>

\* FreeReference after a failed put; the returned token is NULL if it freed.
SharedUndo == /\ sendPc = "undo"
              /\ ref' = [ref EXCEPT ![Shared] = Lower(@)]
              /\ token' = IF Lower(ref[Shared]) = NULL THEN NULL ELSE Shared
              /\ todo' = Tail(todo)
              /\ sendPc' = "share"
              /\ UNCHANGED <<tasks, caller, refused, gone, sharedType, frees, handlerRuns>>

\* With no receiver at all the token is NULL and the caller frees the data.
SharedDone == /\ sendPc = "share" /\ todo = <<>>
              /\ sendPc' = "done"
              /\ frees' = IF token = NULL
                          THEN [frees EXCEPT ![<<Shared, "request">>] = @ + 1] ELSE frees
              /\ UNCHANGED <<tasks, ref, caller, refused, gone, todo, sharedType, token,
                             handlerRuns>>

Sending == sendPc \in {"share", "put", "undo"}

-----------------------------------------------------------------------------
(* TaskEntry *)

RunHandler(t) == handlerRuns' = [handlerRuns EXCEPT ![cur[t].call] = Append(@, t)]

Goto(t, label) == pc' = [pc EXCEPT ![t] = label]

\* SAMGR_MsgRecv.
Recv(t) == /\ pc[t] = "recv" /\ queue[t] # <<>>
           /\ cur' = [cur EXCEPT ![t] = Head(queue[t])]
           /\ queue' = [queue EXCEPT ![t] = Tail(@)]
           /\ Goto(t, "work")
           /\ UNCHANGED <<ref, caller, refused, gone, bcast, frees, handlerRuns>>

\* ProcResponse and ProcDirectRequest call the handler, ProcRequest the
\* message function of the service, whose body may send and respond.  For a
\* service no longer found (CorrectServiceImpl) ProcRequest returns at once,
\* unless the task still holds it from the message before.
Work(t) == /\ pc[t] = "work"
           /\ cur[t].call = Shared => ~Sending
           /\ IF cur[t].type \in {"MSG_ACK", "MSG_DIRECT"}
              THEN RunHandler(t) /\ Goto(t, "free")
              ELSE /\ \/ Goto(t, "body")
                      \/ t \in gone /\ Goto(t, "free")
                   /\ UNCHANGED handlerRuns
           /\ UNCHANGED <<queue, cur, ref, caller, refused, gone, bcast, frees>>

\* The response data a message function attaches.
Alloc(t, resp) ==
  frees' = IF resp # NULL THEN [frees EXCEPT ![<<cur[t].call, resp>>] = 0] ELSE frees

\* Mutant: the exchange stays MSG_CON.
RespondStillCon(t, resp) ==
  /\ cur' = [cur EXCEPT ![t].resp = resp]
  /\ IF cur[t].back = NULL
     THEN RunHandler(t) /\ UNCHANGED pc
     ELSE Goto(t, IF Plain(cur'[t]) THEN "put" ELSE "raise") /\ UNCHANGED handlerRuns
  /\ Alloc(t, resp)

\* SAMGR_SendResponse of a MSG_CON exchange, up to SharedSend: without a
\* queue to send it back to, the response is handled in the current task.
Respond(t, resp) ==
  /\ cur' = [cur EXCEPT ![t].type = "MSG_ACK", ![t].resp = resp]
  /\ IF cur[t].back = NULL
     THEN RunHandler(t) /\ UNCHANGED pc
     ELSE Goto(t, IF Plain(cur'[t]) THEN "put" ELSE "raise") /\ UNCHANGED handlerRuns
  /\ Alloc(t, resp)

\* The message function responds with data (resp = t) or without.
SendResponse(t) == /\ pc[t] = "body" /\ cur[t].type = "MSG_CON"
                   /\ \E resp \in {t, NULL} : Respond(t, resp)
                   /\ UNCHANGED <<queue, ref, caller, refused, gone, bcast>>

\* SAMGR_SendResponseByIdentity: the same to a queue the message function
\* chooses.
SendResponseByIdentity(t) ==
  /\ pc[t] = "body" /\ cur[t].type = "MSG_CON"
  /\ \E to \in Tasks, resp \in {t, NULL} :
       LET x == [cur[t] EXCEPT !.type = "MSG_ACK", !.back = to, !.resp = resp]
       IN /\ cur' = [cur EXCEPT ![t] = x]
          /\ Goto(t, IF Plain(x) THEN "put" ELSE "raise")
          /\ Alloc(t, resp)
  /\ UNCHANGED <<queue, ref, caller, refused, gone, bcast, handlerRuns>>

\* Mutant: a message function that does not respond leaves no response.
FinishSilently(t) == /\ pc[t] = "body"
                     /\ Goto(t, "free")
                     /\ UNCHANGED <<queue, cur, ref, caller, refused, gone, bcast, frees, handlerRuns>>

\* The message function returns.  ProcRequest responds for it if it did not.
Finish(t) == /\ pc[t] = "body"
             /\ IF cur[t].type = "MSG_CON"
                THEN Respond(t, cur[t].resp)
                ELSE Goto(t, "free") /\ UNCHANGED <<cur, frees, handlerRuns>>
             /\ UNCHANGED <<queue, ref, caller, refused, gone, bcast>>

\* SharedSend(id.queueId, exchange, 1): count the two copies.
RaiseResponse(t) == /\ pc[t] = "raise"
                    /\ ref' = [ref EXCEPT ![cur[t].call] = Raise(@, 1)]
                    /\ cur' = [cur EXCEPT ![t].sref = TRUE]
                    /\ Goto(t, "put")
                    /\ UNCHANGED <<queue, caller, refused, gone, bcast, frees, handlerRuns>>

\* No memory for the counter: SharedSend fails with EC_NOMEMORY.
RaiseFails(t) == /\ MallocFails /\ pc[t] = "raise" /\ ~cur[t].sref
                 /\ Goto(t, "fallback")
                 /\ UNCHANGED <<queue, cur, ref, caller, refused, gone, bcast, frees, handlerRuns>>

\* Mutant: the full test is missing.
PutResponseAlways(t) ==
  /\ pc[t] = "put"
  /\ Put(cur[t].back, cur[t]) /\ Goto(t, "body")
  /\ UNCHANGED <<cur, ref, caller, refused, gone, bcast, frees, handlerRuns>>

PutResponse(t) == /\ pc[t] = "put"
                  /\ IF Full(cur[t].back)
                     THEN Goto(t, "fallback") /\ UNCHANGED queue
                     ELSE Put(cur[t].back, cur[t]) /\ Goto(t, "body")
                  /\ UNCHANGED <<cur, ref, caller, refused, gone, bcast, frees, handlerRuns>>

\* Mutant: the reference of the copy that was not queued is kept.
FallbackKeep(t) ==
  /\ pc[t] = "fallback"
  /\ RunHandler(t)
  /\ Goto(t, "body")
  /\ UNCHANGED <<queue, cur, ref, caller, refused, gone, bcast, frees>>

\* The response could not be queued: handle it here, drop its reference.
Fallback(t) == /\ pc[t] = "fallback"
               /\ RunHandler(t)
               /\ ref' = IF cur[t].sref
                         THEN [ref EXCEPT ![cur[t].call] = Lower(@)] ELSE ref
               /\ cur' = IF cur[t].sref /\ Lower(ref[cur[t].call]) = NULL
                         THEN [cur EXCEPT ![t].sref = FALSE] ELSE cur
               /\ Goto(t, "body")
               /\ UNCHANGED <<queue, caller, refused, gone, bcast, frees>>

\* The blocks an exchange points to.
DataOf(x) == (IF x.data THEN {<<x.call, "request">>} ELSE {})
             \cup (IF x.resp # NULL THEN {<<x.call, x.resp>>} ELSE {})

\* SAMGR_FreeMsg: FreeReference, and the data with the last reference.
FreeMsg(t) ==
  /\ pc[t] = "free"
  /\ LET x == cur[t]
         last == ~x.sref \/ Lower(ref[x.call]) = NULL
     IN /\ ref' = IF x.sref THEN [ref EXCEPT ![x.call] = Lower(@)] ELSE ref
        /\ frees' = [b \in Blocks |-> IF last /\ b \in DataOf(x)
                                      THEN frees[b] + 1 ELSE frees[b]]
  /\ cur' = [cur EXCEPT ![t] = NULL]
  /\ Goto(t, "recv")
  /\ UNCHANGED <<queue, caller, refused, gone, bcast, handlerRuns>>

TaskEntry(t) == \/ Recv(t) \/ Work(t) \/ Finish(t) \/ RaiseResponse(t)
                \/ PutResponse(t) \/ Fallback(t) \/ FreeMsg(t)

\* SAMGR_UnregisterServiceApi of the service that t serves.
Unregister(t) == /\ t \in Leaving \ gone
                 /\ gone' = gone \cup {t}
                 /\ UNCHANGED <<tasks, ref, caller, refused, bcast, frees, handlerRuns>>

SharedSend == SharedRaise \/ SharedPut \/ SharedUndo \/ SharedDone

Next == \/ \E c \in Calls, from \in Tasks \cup {Main}, to \in Tasks,
              data, handler \in BOOLEAN : SendRequest(c, from, to, data, handler)
        \/ SharedSend \/ SharedRaiseFails
        \/ \E t \in Tasks : \/ TaskEntry(t) \/ SendResponse(t)
                                \/ SendResponseByIdentity(t) \/ RaiseFails(t)
                            \/ Unregister(t)

Spec == Init /\ [][Next]_vars

\* Tasks run; a broadcast that was begun is completed.
FairSpec == /\ Spec
            /\ \A t \in Tasks : WF_vars(TaskEntry(t))
            /\ WF_vars(sendPc # "idle" /\ SharedSend)

-----------------------------------------------------------------------------
(* Properties *)

\* The state has its types and no queue holds more than QueueSize exchanges.
TypeOK ==
  /\ \A t \in Tasks : /\ Len(queue[t]) <= QueueSize
                      /\ \A i \in 1 .. Len(queue[t]) : queue[t][i] \in Exchange
                      /\ cur[t] \in Exchange \cup {NULL}
                      /\ pc[t] \in {"recv", "work", "body", "raise", "put", "fallback", "free"}
                      /\ cur[t] = NULL <=> pc[t] = "recv"
  /\ \A c \in AllCalls : ref[c] \in Nat \cup {NULL}
  /\ caller \in [AllCalls -> Tasks \cup {Main, NULL}]
  /\ refused \subseteq Calls
  /\ sendPc \in {"idle", "share", "put", "undo", "done"}
  /\ token \in {Shared, NULL}

\* The copies of an exchange in queues and on the stacks of tasks.
Queued(c) == {q \in Tasks \X (1 .. QueueSize) :
                q[2] <= Len(queue[q[1]]) /\ queue[q[1]][q[2]].call = c}
OnStack(c) == {t \in Tasks : cur[t] # NULL /\ cur[t].call = c}

\* The counter of a call equals the number of copies that will be dropped:
\* the queued ones, those on stacks, and those counted before their put.
RefExact ==
  \A c \in AllCalls :
    LET counted == {t \in OnStack(c) : cur[t].sref}
        copies == Cardinality({q \in Queued(c) : queue[q[1]][q[2]].sref})
                  + Cardinality(counted)
                  + Cardinality({t \in counted : pc[t] \in {"put", "fallback"}})
                  + (IF c = Shared /\ sendPc \in {"put", "undo"} THEN 1 ELSE 0)
    IN IF copies = 0 THEN ref[c] = NULL ELSE ref[c] = copies

\* No data is freed twice, by whichever task drops the last reference.
FreedOnce == \A b \in Blocks : frees[b] \in {NULL, 0, 1}

\* Data that a queued exchange, a running handler or the unfinished
\* broadcast can still read has not been freed.
NoUseAfterFree ==
  LET Alive(x) == \A b \in DataOf(x) : frees[b] = 0
  IN /\ \A t \in Tasks : /\ cur[t] # NULL => Alive(cur[t])
                        /\ \A i \in 1 .. Len(queue[t]) : Alive(queue[t][i])
     /\ Sending => frees[<<Shared, "request">>] = 0

\* Nothing of call c is queued, running or being sent.
Settled(c) == /\ caller[c] # NULL
              /\ Queued(c) = {} /\ OnStack(c) = {}
              /\ c = Shared => sendPc = "done"

\* A settled call leaves no counter behind; its request data and, unless it
\* was a broadcast, its response data have been freed.  (The response data
\* of a broadcast is freed for the last receiver only.)
NoLeak ==
  \A c \in AllCalls : Settled(c) =>
    /\ ref[c] = NULL
    /\ \A b \in Blocks : b[1] = c /\ (c # Shared \/ b[2] = "request") => frees[b] # 0

\* The handler of a request runs at most once, although the response may be
\* sent explicitly, automatically, in place or after a failed put.
HandlerAtMostOnce == \A c \in Calls : Len(handlerRuns[c]) <= 1

\* A request that was accepted with a handler is answered, unless its service
\* is unregistered; once the message function has it, it is answered even
\* then.  A message function that does not respond and a full queue do not
\* lose the answer.
EventuallyAnswered ==
  \A c \in Calls, t \in Tasks :
    LET asks(x) == x.call = c /\ x.type = "MSG_CON"
    IN /\ (\E i \in 1 .. Len(queue[t]) : asks(queue[t][i])) ~>
            (t \in gone \/ handlerRuns[c] # <<>>)
       /\ (pc[t] = "body" /\ asks(cur[t])) ~> (handlerRuns[c] # <<>>)
=============================================================================
