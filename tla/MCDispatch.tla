----------------------------- MODULE MCDispatch -----------------------------
(***************************************************************************)
(* Instances of Dispatch for TLC.                                          *)
(***************************************************************************)
EXTENDS Dispatch

CONSTANTS j1, j2, u1

OneUser == [j \in Job |-> u1]
Apart == [j \in Job |-> j]
=============================================================================
