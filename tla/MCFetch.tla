------------------------------ MODULE MCFetch ------------------------------
(***************************************************************************)
(* An instance of Fetch for TLC.                                           *)
(***************************************************************************)
EXTENDS Fetch

CONSTANTS w1, w2

Processes == {w1, w2, Orphan}

\* w2 is a slot of a worker that listens to the queue "inspect" only.
TakesOf == [w \in Worker |-> IF w = w1 THEN {"download", "inspect"} ELSE {"inspect"}]
=============================================================================
