-------------------------- MODULE JobStateMachine --------------------------
(***************************************************************************)
(* What the job table promises its readers: every job is created queued    *)
(* and from then on takes one move of states.TRANSITIONS at a time, one    *)
(* job per step.  Who moves it, under which lease and on which evidence    *)
(* is the business of JobService, which is shown to implement this.        *)
(***************************************************************************)
EXTENDS JobStates

CONSTANT Job

VARIABLE status

Init == status = [j \in Job |-> "absent"]

Submit(j) ==
  /\ status[j] = "absent"
  /\ status' = [status EXCEPT ![j] = "queued"]

\* services.jobs.move: a move to the same status, or one that is not in the
\* table, raises InvalidTransition and rolls the transaction back.
move(j, dst) ==
  /\ status[j] \in JobStatus
  /\ status[j] # dst
  /\ CanTransition(status[j], dst)
  /\ status' = [status EXCEPT ![j] = dst]

Next == \E j \in Job : Submit(j) \/ \E dst \in JobStatus : move(j, dst)

Spec == Init /\ [][Next]_status
=============================================================================
