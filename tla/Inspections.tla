---------------------------- MODULE Inspections ----------------------------
(***************************************************************************)
(* The inspections of one user: rows, messages and the limit on pending    *)
(* ones (backend/app/services/inspections.py, api/jobs.py, reconcile.py).  *)
(* Every transaction locks the row, or the user, that it decides on and is *)
(* one step.                                                               *)
(***************************************************************************)
EXTENDS Naturals, FiniteSets

CONSTANTS
  Insp,           \* ids; one may be used again when its row and messages are gone
  MaxPending,     \* settings.max_pending_inspections_per_user
  MaxMessages     \* bound: copies of one message in the broker

ASSUME InspectionsAssumption ==
  IsFiniteSet(Insp) /\ MaxPending \in Nat \ {0} /\ MaxMessages \in Nat \ {0}

VARIABLES
  insp,     \* insp[i]: the row
  box,      \* box[i]: messages in the queue "inspect"
  api       \* inspections that the request which created them has yet to publish

ivars == <<insp, box, api>>

InspRow ==                    \* "done": succeeded or failed
  [ status  : {"absent", "pending", "running", "done"},
    expired : BOOLEAN,        \* expires_at < now
    fresh   : BOOLEAN ]       \* of a pending row: enqueued_at is under 120 s old

NoInspRow == [status |-> "absent", expired |-> FALSE, fresh |-> FALSE]

InspInit ==
  /\ insp = [i \in Insp |-> NoInspRow]
  /\ box = [i \in Insp |-> 0]
  /\ api = {}

Counted == {i \in Insp : insp[i].status \in {"pending", "running"}}

Update(i, row) == insp' = [insp EXCEPT ![i] = row]

-----------------------------------------------------------------------------
(* The API.                                                                *)

\* The link is new; else the live inspection of it is returned.
create_inspection(i) ==
  /\ insp[i].status = "absent" /\ box[i] = 0 /\ i \notin api
  /\ Cardinality(Counted) < MaxPending
  /\ Update(i, [NoInspRow EXCEPT !.status = "pending"])
  /\ api' = api \cup {i}
  /\ UNCHANGED box

Send(i) == box[i] < MaxMessages /\ box' = [box EXCEPT ![i] = @ + 1]

Stamped(i) ==
  insp[i].status = "pending" /\ Update(i, [insp[i] EXCEPT !.fresh = TRUE])

\* The request sends the message and stamps enqueued_at.  If the broker is
\* down, or the request dies before or between, the reconciler will publish.
Publish(i) ==
  /\ i \in api
  /\ api' = api \ {i}
  /\ \/ Send(i) /\ (Stamped(i) \/ UNCHANGED insp)
     \/ UNCHANGED <<insp, box>>

-----------------------------------------------------------------------------
(* The worker.                                                             *)

Take(i) == box[i] > 0 /\ box' = [box EXCEPT ![i] = @ - 1] /\ UNCHANGED api

\* What is running is taken up again, as after a worker was lost.
Claimable_mutant(i) == insp[i].status \in {"pending", "running"} /\ ~insp[i].expired

Claimable(i) == insp[i].status = "pending" /\ ~insp[i].expired

\* execute_inspection: the claim, and the message that claims nothing.
Claim(i) ==
  /\ Take(i)
  /\ Claimable(i)
  /\ Update(i, [insp[i] EXCEPT !.status = "running", !.fresh = FALSE])

Skip(i) == Take(i) /\ ~Claimable(i) /\ UNCHANGED insp

\* The outcome is written, whether or not the inspection has expired.
Finish(i) ==
  /\ Update(i, [insp[i] EXCEPT !.status = "done"])
  /\ UNCHANGED <<box, api>>

\* task_reject_on_worker_lost
Reject(i) == Send(i) \/ UNCHANGED box

-----------------------------------------------------------------------------
(* The reconciler, the broker and the clock.                               *)

Redispatchable(i) == insp[i].status = "pending" /\ ~insp[i].expired /\ ~insp[i].fresh

\* redispatch_queued; it may die between the message and its commit.
Redispatch(i) ==
  /\ Redispatchable(i)
  /\ Send(i)
  /\ Stamped(i) \/ UNCHANGED insp
  /\ UNCHANGED api

\* Only what has come to an end is deleted.
Deletable_mutant(i) == insp[i].expired /\ insp[i].status = "done"

\* cleanup_records asks for the time only, an hour after expires_at.
Deletable(i) == insp[i].expired

cleanup_records(i) ==
  /\ Deletable(i)
  /\ Update(i, NoInspRow)
  /\ UNCHANGED <<box, api>>

LoseMessages ==
  /\ box' = [i \in Insp |-> 0]
  /\ UNCHANGED <<insp, api>>

EnqueuedAges(i) ==
  /\ insp[i].fresh
  /\ Update(i, [insp[i] EXCEPT !.fresh = FALSE])
  /\ UNCHANGED <<box, api>>

Expires(i) ==
  /\ insp[i].status # "absent" /\ ~insp[i].expired
  /\ Update(i, [insp[i] EXCEPT !.expired = TRUE])
  /\ UNCHANGED <<box, api>>

InspStep(i) ==
  \/ create_inspection(i) \/ Publish(i)
  \/ Skip(i) \/ Redispatch(i) \/ EnqueuedAges(i) \/ Expires(i)
=============================================================================
