----------------------------- MODULE JobStates -----------------------------
(***************************************************************************)
(* The vocabulary of backend/app/states.py: the statuses a download job    *)
(* may have and the moves between them that services.jobs.move accepts.    *)
(* "absent" is not a status of the code; it stands for a job whose row has *)
(* not been inserted yet.                                                  *)
(***************************************************************************)

JobStatus == {"queued", "running", "pausing", "paused", "canceling",
              "canceled", "completed", "failed", "expired"}

TRANSITIONS ==
  [ queued    |-> {"running", "paused", "canceled", "failed"},
    running   |-> {"completed", "failed", "queued", "pausing", "canceling"},
    pausing   |-> {"paused", "canceling", "completed", "failed", "queued"},
    paused    |-> {"queued", "canceled", "expired"},
    canceling |-> {"canceled"},
    canceled  |-> {"queued"},
    failed    |-> {"queued"},
    completed |-> {"expired"},
    expired   |-> {"queued"} ]

CanTransition(src, dst) == dst \in TRANSITIONS[src]

ACTIVE    == {"queued", "running", "pausing", "paused", "canceling"}
LEASED    == {"running", "pausing", "canceling"}
TERMINAL  == {"completed", "failed", "canceled", "expired"}
RETRYABLE == {"failed", "canceled", "expired"}
DELETABLE == TERMINAL
=============================================================================
