---------------------------- MODULE MCJobService ----------------------------
(***************************************************************************)
(* Instances of JobService for TLC.                                        *)
(***************************************************************************)
EXTENDS JobService, TLC

CONSTANTS j1, j2, u1

\* All jobs belong to one user.
OneUser == [j \in Job |-> u1]

\* Every job wants something of its own: the jobs are interchangeable.
Apart == [j \in Job |-> j]
Interchangeable == Permutations(Worker) \cup Permutations(Job)
=============================================================================
