-------------------------------- MODULE PubSub --------------------------------
(***************************************************************************)
(* What the event hub promises: a call takes effect when it is accepted.   *)
(* An event sent under a handle goes to exactly those who listen to the    *)
(* sender the handle names at that moment; everybody gets his events in    *)
(* the order they were sent, each at most once, and may miss some.         *)
(***************************************************************************)
EXTENDS Integers, Sequences, SequencesExt

CONSTANTS Handles, Identities, Receivers, MsgIds, Values,
          Queueless  \* identities without a queue: they undo a registration

VARIABLE state  \* a record of
                \*   sender:   the senders, [handle, send], one for each handle
                \*   listener: the listening receivers, [recv, send, msgId]
                \*   due:      due[r] is the events r is to get, oldest first

Init == state = [sender |-> {}, listener |-> {}, due |-> [r \in Receivers |-> <<>>]]

\* The state after sender id was added under handle h.
Added(s, h, id) ==
  [s EXCEPT !.sender = {k \in @ : k.handle # h}
                       \cup (IF id \in Queueless THEN {} ELSE {[handle |-> h, send |-> id]})]

\* The state after r listened to id.  It has one message id for each sender,
\* the last it gave; a queueless identity names no sender, so that listening
\* is never undone.
Listened(s, r, id, m) ==
  IF id \in Queueless THEN s
  ELSE [s EXCEPT !.listener = {l \in @ : ~ (l.recv = r /\ l.send = id)}
                              \cup {[recv |-> r, send |-> id, msgId |-> m]}]

\* The state after event v was sent under handle h.  At most one member
\* of listener makes r hear it, as r has one message id for each sender.
Sent(s, h, v) ==
  LET heard(r) == {l \in s.listener : l.recv = r /\ [handle |-> h, send |-> l.send] \in s.sender}
      event(l) == [msgId |-> l.msgId, value |-> v]
      news(r) == IF heard(r) = {} THEN <<>> ELSE <<event(CHOOSE l \in heard(r) : TRUE)>>
  IN [s EXCEPT !.due = [r \in Receivers |-> @[r] \o news(r)]]

AddSender(h, id) == state' = Added(state, h, id)
ListenToEvent(r, id, m) == state' = Listened(state, r, id, m)
SendEvent(h, v) == state' = Sent(state, h, v)

Receive(r) == state.due[r] # <<>> /\ state' = [state EXCEPT !.due[r] = Tail(@)]

\* Some receivers miss one event each.
Miss ==
  /\ \A r \in Receivers :
       \/ state'.due[r] = state.due[r]
       \/ \E i \in DOMAIN state.due[r] : state'.due[r] = RemoveAt(state.due[r], i)
  /\ state' = [state EXCEPT !.due = state'.due]

Next == \/ \E h \in Handles, id \in Identities : AddSender(h, id)
        \/ \E r \in Receivers, id \in Identities, m \in MsgIds : ListenToEvent(r, id, m)
        \/ \E h \in Handles, v \in Values : SendEvent(h, v)
        \/ \E r \in Receivers : Receive(r)
        \/ Miss

Spec == Init /\ [][Next]_state
=============================================================================
