---------------------------- MODULE MCTaskManager ----------------------------
(* Three tasks, so that a subagent's parent need not be the oldest one. *)
EXTENDS TaskManager

CONSTANTS t1, t2, t3

MCTaskIds == {t1, t2, t3}
MCSymmetry == Permutations(MCTaskIds)
=============================================================================
