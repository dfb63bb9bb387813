----------------------------- MODULE MCTaskPool -----------------------------
(* Two services that share a pool, and two with the same specified task. *)
EXTENDS TaskPool

CONSTANTS sh1, sh2, sp1, sp2, pos

MCConfig ==
  [s \in Svcs |-> [taskFlags |-> IF s \in {sh1, sh2} THEN "SHARED_TASK" ELSE "SPECIFIED_TASK",
                   pos |-> pos]]
=============================================================================
