----------------------------- MODULE MCExecutor -----------------------------
(***************************************************************************)
(* Executor on small instances.  Two tasks are enough for one to join the  *)
(* other while block_on waits for either; with one posted callback a       *)
(* block_on runs inside a callback while wakes are behind it in the queue; *)
(* one redundant wake reaches a task in each of its states.                *)
(***************************************************************************)
EXTENDS Executor, TLC

Symmetry == Permutations(Tasks)
=============================================================================
