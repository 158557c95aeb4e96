--------------------------- MODULE MCLegacyService --------------------------
(***************************************************************************)
(* Instances of LegacyService for TLC.                                     *)
(***************************************************************************)
EXTENDS LegacyService, TLC

\* Processes are interchangeable; jobs are not, the oldest is claimed first.
Interchangeable == Permutations(Server)
=============================================================================
