----------------------------- MODULE BoundedFifo -----------------------------
(***************************************************************************)
(* What a message queue of ohos_adapter promises to its producers and its  *)
(* one consumer: a first-in-first-out buffer of Capacity elements whose    *)
(* operations take effect at one instant between their call and their      *)
(* return.  A put is refused (EC_BUSBUSY) only when the buffer is full at  *)
(* that instant, a get fails (EC_FAILURE) only when it is empty.           *)
(***************************************************************************)
EXTENDS Naturals, Sequences

CONSTANTS Producers,    \* the threads that put
          Elements,     \* what can be put
          Capacity,     \* the number of elements the buffer holds
          NoElement     \* the consumer holds no element

VARIABLES items,        \* the elements put and not yet taken, oldest first
          arg,          \* arg[p]: the element of p's latest put
          putRet,       \* putRet[p]: "pending" in a put, else its return code
          getRet,       \* "pending" in a get, else its return code
          got           \* the element the latest get returned, or NoElement

vars == <<items, arg, putRet, getRet, got>>

Init == /\ items = <<>>
        /\ arg \in [Producers -> Elements]
        /\ putRet = [p \in Producers |-> "EC_SUCCESS"]
        /\ getRet = "EC_SUCCESS"
        /\ got = NoElement

CallPut(p, e) == /\ putRet[p] # "pending"
                 /\ putRet' = [putRet EXCEPT ![p] = "pending"]
                 /\ arg' = [arg EXCEPT ![p] = e]
                 /\ UNCHANGED <<items, getRet, got>>

Put(p) == /\ putRet[p] = "pending"
          /\ Len(items) < Capacity
          /\ items' = Append(items, arg[p])
          /\ putRet' = [putRet EXCEPT ![p] = "EC_SUCCESS"]
          /\ UNCHANGED <<arg, getRet, got>>

RefusePut(p) == /\ putRet[p] = "pending"
                /\ Len(items) = Capacity
                /\ putRet' = [putRet EXCEPT ![p] = "EC_BUSBUSY"]
                /\ UNCHANGED <<items, arg, getRet, got>>

CallGet == /\ getRet # "pending"
           /\ getRet' = "pending"
           /\ got' = NoElement
           /\ UNCHANGED <<items, arg, putRet>>

Get == /\ getRet = "pending"
       /\ items # <<>>
       /\ items' = Tail(items)
       /\ got' = Head(items)
       /\ getRet' = "EC_SUCCESS"
       /\ UNCHANGED <<arg, putRet>>

FailGet == /\ getRet = "pending"
           /\ items = <<>>
           /\ getRet' = "EC_FAILURE"
           /\ UNCHANGED <<items, arg, putRet, got>>

Next == \/ \E p \in Producers : \/ \E e \in Elements : CallPut(p, e)
                                \/ Put(p)
                                \/ RefusePut(p)
        \/ CallGet
        \/ Get
        \/ FailGet

Spec == Init /\ [][Next]_vars
=============================================================================
