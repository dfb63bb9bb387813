----------------------------- MODULE MCBootstrap -----------------------------
(* Constants of Bootstrap for TLC: which pool each service runs in.         *)
EXTENDS Bootstrap

CONSTANTS boot, sys1, app1, app2, test1, dyn1, dyn2, shared, own

\* A shared pool with the bootstrap service and a second pool.
MCPoolOf == [s \in Services |-> IF s \in {boot, app1, dyn1} THEN shared ELSE own]
MCQueueSize == [p \in Pools |-> 4]

\* One of the services loaded later has no task (NO_TASK).
LoadPoolOf == [MCPoolOf EXCEPT ![dyn2] = NULL]

\* Room for the requests that a service registered meanwhile is sent again.
LongQueue == [p \in Pools |-> 8]
=============================================================================
