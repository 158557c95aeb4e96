---------------------------- MODULE MCSubmission ----------------------------
(***************************************************************************)
(* Instances of Submission for TLC.                                        *)
(***************************************************************************)
EXTENDS Submission, TLC

Interchangeable ==
  Permutations(Request) \cup Permutations(Content) \cup Permutations(Key) \cup Permutations(Job)
=============================================================================
