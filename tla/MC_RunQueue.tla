----------------------------- MODULE MC_RunQueue -----------------------------
(***************************************************************************)
(* Three spawnable tasks beside the idle task; the tasks are symmetric.      *)
(***************************************************************************)
EXTENDS RunQueue, TLC

CONSTANTS t1, t2, t3, idle

MCTasks == {t1, t2, t3}
MCSymmetry == Permutations(MCTasks)
=============================================================================
