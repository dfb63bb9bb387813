------------------------------- MODULE EventHub -------------------------------
(***************************************************************************)
(* The event hub: EventHub_AddSender, EventHub_ListenToEvent and           *)
(* EventHub_SendEvent of event_hub_api.c, called by any thread, and the    *)
(* hub's MessageHandle of event_hub_service.c, run by the one task of its  *)
(* pool, which also frees the data of a handled request (SAMGR_FreeMsg).   *)
(*                                                                         *)
(* Identities are compared with memcmp, padding included: a member of      *)
(* Identities stands for the bytes of an Identity.  A sender's Identity    *)
(* without queueId undoes a registration.                                  *)
(***************************************************************************)
EXTENDS Integers, Sequences, SequencesExt, FiniteSets

CONSTANTS
  Handles,    \* handles of senders
  Identities, \* Identities of senders
  Queueless,  \* those of them whose queueId is NULL
  Receivers,  \* receivers, each with its own queue
  MsgIds,     \* message ids receivers choose
  MaxNodes,   \* bound: nodes allocated
  MaxEvents,  \* bound: events sent
  QueueSize,  \* size of the hub's queue
  InSize,     \* size of the receivers' queues
  NULL

Nodes == 1 .. MaxNodes
SenderNode == [handle : Handles, sendIdentity : Identities]
ReceiverNode == [recvIdentity : Receivers, sendIdentity : Identities, msgId : MsgIds]
HubRequests ==
  [msgId : {"ADD_SENDER", "ADD_RECEIVER"}, data : Nodes]
  \cup [msgId : {"SEND_EVENT"}, data : Handles, msgValue : 1 .. MaxEvents]

ASSUME EventHubAssumption ==
  /\ Queueless \subseteq Identities
  /\ NULL \notin SenderNode \cup ReceiverNode \cup HubRequests
  /\ MaxNodes \in Nat /\ MaxEvents \in Nat
  /\ QueueSize \in Nat \ {0} /\ InSize \in Nat \ {0}

VARIABLES
  ready,        \* the hub's Identity has a queueId
  queue,        \* the hub's queue
  node,         \* node[n]: the contents of the heap object n, NULL when not allocated
  used,         \* nodes allocated so far
  lost,         \* history: nodes whose request was refused, which nobody frees
  msg,          \* the request the hub's task is handling, or NULL
  senderList,   \* eventHub->senderList, head first
  receiverList, \* eventHub->receiverList, head first
  inbox,        \* the receivers' queues
  events        \* events sent so far

lists == <<senderList, receiverList>>
hubVars == <<ready, queue, node, used, lost, msg, lists, inbox, events>>

\* With empty lists, which Initialize makes when the hub's task handles the
\* initialisation request, ready or not.  The model begins there: it leaves out
\* requests that other threads get into the queue between AddTaskPool and the
\* initialisation request, or when that is refused, and which would meet lists
\* that are not initialised.
HubInit ==
  /\ ready = FALSE /\ queue = <<>> /\ msg = NULL
  /\ node = [n \in Nodes |-> NULL] /\ used = 0 /\ lost = {}
  /\ senderList = <<>> /\ receiverList = <<>>
  /\ inbox = [r \in Receivers |-> <<>>] /\ events = 0

\* The bootstrap gives the hub its task pool.
Ready == /\ ~ ready /\ ready' = TRUE
         /\ UNCHANGED <<queue, node, used, lost, msg, lists, inbox, events>>

-----------------------------------------------------------------------------
(* The API *)

\* QUEUE_Put refuses a queueId of NULL and a full queue.
Accepted == ready /\ Len(queue) < QueueSize

\* MEM_Malloc of a node, and SAMGR_SendRequest, whose result is ignored.
SendNode(msgId, contents) ==
  /\ used < MaxNodes /\ used' = used + 1
  /\ node' = [node EXCEPT ![used'] = contents]
  /\ queue' = IF Accepted THEN Append(queue, [msgId |-> msgId, data |-> used']) ELSE queue
  /\ lost' = IF Accepted THEN lost ELSE lost \cup {used'}
  /\ UNCHANGED <<ready, msg, lists, inbox, events>>

EventHub_AddSender(h, id) == SendNode("ADD_SENDER", [handle |-> h, sendIdentity |-> id])

EventHub_ListenToEvent(r, id, m) ==
  SendNode("ADD_RECEIVER", [recvIdentity |-> r, sendIdentity |-> id, msgId |-> m])

EventHub_SendEvent(h) ==
  /\ events < MaxEvents /\ events' = events + 1
  /\ queue' = IF Accepted
              THEN Append(queue, [msgId |-> "SEND_EVENT", data |-> h, msgValue |-> events'])
              ELSE queue
  /\ UNCHANGED <<ready, node, used, lost, msg, lists, inbox>>

-----------------------------------------------------------------------------
(* The hub's task *)

Recv == /\ msg = NULL /\ queue # <<>>
        /\ msg' = Head(queue) /\ queue' = Tail(queue)
        /\ UNCHANGED <<ready, node, used, lost, lists, inbox, events>>

\* The nodes of a list without the first of those whose positions are in same.
Without(list, same) == IF same = {} THEN list ELSE RemoveAt(list, Min(same))

\* That first node, which is freed.
Old(list, same) == IF same = {} THEN {} ELSE {list[Min(same)]}

\* Mutant: the framework is not told to leave the node alone.
UpdateUnreferred(list, n, same) ==
  [freed |-> Old(list, same) \cup {n},
   list |-> IF node[n].sendIdentity \in Queueless THEN Without(list, same)
            ELSE <<n>> \o Without(list, same)]

\* EventHub_UpdateSenderNode and EventHub_UpdateReceiverNode: node n replaces
\* the first of those at the positions same, and is freed by the framework
\* unless it is kept in the list.
Update(list, n, same) ==
  LET undo == node[n].sendIdentity \in Queueless
  IN [freed |-> Old(list, same) \cup (IF undo THEN {n} ELSE {}),
      list |-> IF undo THEN Without(list, same) ELSE <<n>> \o Without(list, same)]

\* The positions of the nodes for the handle of n, and of those for its receiver
\* and sender.
SameSender(n) == {i \in DOMAIN senderList : node[senderList[i]].handle = node[n].handle}
SameReceiver(n) ==
  {i \in DOMAIN receiverList :
     /\ node[receiverList[i]].recvIdentity = node[n].recvIdentity
     /\ node[receiverList[i]].sendIdentity = node[n].sendIdentity}

FreeNodes(S) == node' = [n \in Nodes |-> IF n \in S THEN NULL ELSE node[n]]

EventHub_UpdateSenderNode ==
  /\ msg # NULL /\ msg.msgId = "ADD_SENDER"
  /\ LET update == Update(senderList, msg.data, SameSender(msg.data))
     IN senderList' = update.list /\ FreeNodes(update.freed)
  /\ msg' = NULL
  /\ UNCHANGED <<ready, queue, used, lost, receiverList, inbox, events>>

EventHub_UpdateReceiverNode ==
  /\ msg # NULL /\ msg.msgId = "ADD_RECEIVER"
  /\ LET update == Update(receiverList, msg.data, SameReceiver(msg.data))
     IN receiverList' = update.list /\ FreeNodes(update.freed)
  /\ msg' = NULL
  /\ UNCHANGED <<ready, queue, used, lost, senderList, inbox, events>>

\* The nodes of the list that are in S, in its order.
Keep(list, S) ==
  LET kept[k \in 0 .. Len(list)] ==
        IF k = 0 THEN <<>>
        ELSE IF list[k] \in S THEN Append(kept[k - 1], list[k]) ELSE kept[k - 1]
  IN kept[Len(list)]

\* The positions of the senders for handle h.
Senders(h) == {i \in DOMAIN senderList : node[senderList[i]].handle = h}

\* Mutant: the receivers of every sender are served.
FiredAll(h, r) ==
  IF Senders(h) = {} THEN <<>>
  ELSE Keep(receiverList, {n \in ToSet(receiverList) : node[n].recvIdentity = r})

\* The nodes of receiver r that an event under handle h is sent to: those that
\* listen to the first sender for h.
Fired(h, r) ==
  IF Senders(h) = {} THEN <<>>
  ELSE LET sender == node[senderList[Min(Senders(h))]]
       IN Keep(receiverList, {n \in ToSet(receiverList) :
                                /\ node[n].recvIdentity = r
                                /\ node[n].sendIdentity = sender.sendIdentity})

\* The requests of an event under handle h to receiver r.
Firings(h, v, r) ==
  [i \in DOMAIN Fired(h, r) |-> [msgId |-> node[Fired(h, r)[i]].msgId, value |-> v]]

\* A receiver's queue after requests were put: it refuses them when it is full.
PutAll(q, requests) == q \o SubSeq(requests, 1, Min({InSize - Len(q), Len(requests)}))

\* EventHub_FireEvents: a request for every receiver.
EventHub_FireEvents ==
  /\ msg # NULL /\ msg.msgId = "SEND_EVENT"
  /\ inbox' = [r \in Receivers |-> PutAll(inbox[r], Firings(msg.data, msg.msgValue, r))]
  /\ msg' = NULL
  /\ UNCHANGED <<ready, queue, node, used, lost, lists, events>>

MessageHandle == EventHub_UpdateSenderNode \/ EventHub_UpdateReceiverNode \/ EventHub_FireEvents

\* A receiver takes an event from its queue.
Receive(r) == /\ inbox[r] # <<>>
              /\ inbox' = [inbox EXCEPT ![r] = Tail(@)]
              /\ UNCHANGED <<ready, queue, node, used, lost, msg, lists, events>>

HubNext ==
  \/ Ready
  \/ \E h \in Handles, id \in Identities : EventHub_AddSender(h, id)
  \/ \E r \in Receivers, id \in Identities, m \in MsgIds : EventHub_ListenToEvent(r, id, m)
  \/ \E h \in Handles : EventHub_SendEvent(h)
  \/ Recv \/ MessageHandle
  \/ \E r \in Receivers : Receive(r)

HubSpec == HubInit /\ [][HubNext]_hubVars

-----------------------------------------------------------------------------
(* Properties *)

\* The accepted requests that wait or are being handled, oldest first.
Requests == (IF msg = NULL THEN <<>> ELSE <<msg>>) \o queue

\* A request refers to node n; the data of an event is a handle.
Carries(request, n) == request.msgId # "SEND_EVENT" /\ request.data = n

\* The places that refer to node n.
Owners(n) ==
  {<<"request", i>> : i \in {j \in DOMAIN Requests : Carries(Requests[j], n)}}
  \cup {<<"sender", i>> : i \in {j \in DOMAIN senderList : senderList[j] = n}}
  \cup {<<"receiver", i>> : i \in {j \in DOMAIN receiverList : receiverList[j] = n}}

\* Ownership of a node passes from the caller through the request to the
\* hub's list, or to the framework that frees it: an allocated node has one
\* owner, a freed one none, so that nothing is freed twice or used after it
\* was freed; only the nodes of refused requests are left without an owner.
OneOwner ==
  \A n \in Nodes :
    Cardinality(Owners(n)) = IF node[n] = NULL \/ n \in lost THEN 0 ELSE 1

\* The abstract state of the lists and the receivers' queues.
Now ==
  [sender |-> {[handle |-> node[n].handle, send |-> node[n].sendIdentity] :
                 n \in ToSet(senderList)},
   listener |-> {[recv |-> node[n].recvIdentity, send |-> node[n].sendIdentity,
                  msgId |-> node[n].msgId] : n \in ToSet(receiverList)},
   due |-> inbox]

\* What the abstract operations make of a state.
Effect == INSTANCE PubSub WITH state <- Now, Values <- 1 .. MaxEvents

\* State s once a request, with its node in heap, is handled.
After(s, request, heap) ==
  CASE request.msgId = "SEND_EVENT" -> Effect!Sent(s, request.data, request.msgValue)
    [] request.msgId = "ADD_SENDER" ->
         LET n == heap[request.data] IN Effect!Added(s, n.handle, n.sendIdentity)
    [] request.msgId = "ADD_RECEIVER" ->
         LET n == heap[request.data]
         IN Effect!Listened(s, n.recvIdentity, n.sendIdentity, n.msgId)

Worked(s, requests, heap) ==
  LET worked[k \in 0 .. Len(requests)] ==
        IF k = 0 THEN s ELSE After(worked[k - 1], requests[k], heap)
  IN worked[Len(requests)]

\* The abstract state: that once the accepted requests are handled.
Then == Worked(Now, Requests, node)

Abstract == INSTANCE PubSub WITH state <- Then, Values <- 1 .. MaxEvents

\* Seen from outside a call takes effect when its request is accepted, though
\* the hub works through its queue later: the hub implements PubSub.
ImplementsPubSub == Abstract!Spec
=============================================================================
