----------------------------- MODULE MCSamgrTimer -----------------------------
(* Constants of SamgrTimer for TLC.                                         *)
EXTENDS SamgrTimer, TLC

\* Timers that fire twice or for ever.
MCRepeats == {2, Infinite}

Symm == Permutations(Timers)
=============================================================================
