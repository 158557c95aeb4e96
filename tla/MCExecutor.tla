----------------------------- MODULE MCExecutor -----------------------------
(***************************************************************************)
(* Instances of Executor for TLC.                                          *)
(***************************************************************************)
EXTENDS Executor, TLC

CONSTANTS j1, u1

OneUser == [j \in Job |-> u1]
Apart == [j \in Job |-> j]
Slots == Permutations(Worker)
=============================================================================
