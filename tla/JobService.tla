----------------------------- MODULE JobService -----------------------------
(***************************************************************************)
(* The jobs table and every transaction that changes it: the user's        *)
(* operations, the worker's and the reconciler's                           *)
(* (backend/app/services/jobs.py and reconcile.py).                        *)
(*                                                                         *)
(* A transaction locks the row it changes and commits at once, so it is    *)
(* one step.  Time is kept as facts about a row that only the clock makes  *)
(* true or false (live, due, aged, "stale").  A worker is a slot of the    *)
(* Celery pool: it runs one attempt at a time, so its name stands for the  *)
(* lease token of that attempt.  Files are the business of Executor,       *)
(* messages of Dispatch.                                                   *)
(*                                                                         *)
(* An operator whose name ends in _mutant is no part of the model: it is   *)
(* the next definition with a bug that a property below must catch.        *)
(***************************************************************************)
EXTENDS JobStates, Integers, FiniteSets

CONSTANTS
  Job,                        \* job rows that may ever be inserted
  User, Owner,                \* Owner[j]: user_id
  Content, Wanted,            \* Wanted[j]: (url_hash, selection)
  Worker, NoWorker, NoJob,
  MaxAttempts,                \* settings.max_attempts
  MaxActive,                  \* settings.max_active_jobs_per_user
  MaxGlobal, MaxPerUser,      \* settings.max_concurrent_jobs_global, _per_user
  MaxStalls                   \* bound: leases that run out under a live worker

ASSUME JobsAssumption ==
  /\ IsFiniteSet(Job)
  /\ Owner \in [Job -> User]
  /\ Wanted \in [Job -> Content]
  /\ NoWorker \notin Worker
  /\ NoJob \notin Job

ASSUME LimitsAssumption ==
  /\ MaxAttempts \in Nat \ {0}
  /\ MaxActive \in Nat
  /\ MaxGlobal \in Nat
  /\ MaxPerUser \in Nat
  /\ MaxStalls \in Nat

VARIABLES
  job,      \* job[j]: the row of j
  attempt,  \* attempt[w]: the job whose attempt slot w executes, or NoJob
  phase,    \* phase[w]: how far that attempt is, as far as the table cares
  stalls    \* leases that ran out although their worker was alive

vars == <<job, attempt, phase, stalls>>

Phase == {"idle", "run", "pause", "cancel", "purge", "done"}

Row ==
  [ status   : JobStatus \cup {"absent"},
    attempts : 0..MaxAttempts,
    lease    : Worker \cup {NoWorker},      \* lease_token
    live     : BOOLEAN,                     \* lease_expires_at > now
    due      : BOOLEAN,                     \* next_attempt_at <= now
    enqueued : {"null", "fresh", "stale"},  \* enqueued_at, by dispatch_stale_seconds
    deleted  : BOOLEAN,                     \* deleted_at IS NOT NULL
    aged     : BOOLEAN,                     \* the retention of this status is over
    purged   : BOOLEAN,                     \* files_purged_at IS NOT NULL
    file     : BOOLEAN ]                    \* file_relpath IS NOT NULL

NoRow ==
  [ status |-> "absent", attempts |-> 0, lease |-> NoWorker, live |-> FALSE,
    due |-> FALSE, enqueued |-> "null", deleted |-> FALSE, aged |-> FALSE,
    purged |-> FALSE, file |-> FALSE ]

Init ==
  /\ job = [j \in Job |-> NoRow]
  /\ attempt = [w \in Worker |-> NoJob]
  /\ phase = [w \in Worker |-> "idle"]
  /\ stalls = 0

workers == <<attempt, phase, stalls>>

-----------------------------------------------------------------------------
(* Helpers.                                                                *)

\* move(session, job, dst, **values): row is the old row with the values.
\* The table lookup of move() is left out: Implements says it never fails.
Move(j, dst, row) ==
  job' = [job EXCEPT ![j] = [row EXCEPT !.status = dst, !.aged = FALSE]]

Visible(j) == job[j].status # "absent" /\ ~job[j].deleted

IsActive(j) == job[j].status \in ACTIVE /\ ~job[j].deleted

ActiveJobs(u) == {j \in Job : Owner[j] = u /\ IsActive(j)}

\* _check_capacity; the byte quota is a refusal that may or may not happen.
HasCapacity(u) == Cardinality(ActiveJobs(u)) < MaxActive

\* The unique index uq_jobs_active_dedupe has no other entry for j's key.
NoActiveTwin(j) ==
  \A k \in Job \ {j} : Owner[k] = Owner[j] /\ Wanted[k] = Wanted[j] => ~IsActive(k)

LiveLeases == {j \in Job : job[j].status \in LEASED /\ job[j].live}

\* The limit lets one job too many in.
SlotFree_mutant(j) == Cardinality(LiveLeases) <= MaxGlobal

SlotFree(j) ==
  /\ Cardinality(LiveLeases) < MaxGlobal
  /\ Cardinality({k \in LiveLeases : Owner[k] = Owner[j]}) < MaxPerUser

\* How an attempt leaves the leased statuses; shared by fail_or_retry,
\* finish_stop and recover_expired_leases.  "lost" leaves the row alone.
Settle(j, outcome) ==
  LET row == [job[j] EXCEPT !.lease = NoWorker, !.live = FALSE]
      refunded == IF row.attempts > 0 THEN row.attempts - 1 ELSE 0
  IN  \/ outcome = "canceled" /\ Move(j, "canceled", row)
      \/ outcome = "paused"   /\ Move(j, "paused", [row EXCEPT !.attempts = refunded])
      \/ outcome = "failed"   /\ Move(j, "failed", row)
      \/ outcome = "retry"    /\ Move(j, "queued", [row EXCEPT !.due = FALSE,
                                                               !.enqueued = "null"])
      \/ outcome = "lost"     /\ UNCHANGED job

-----------------------------------------------------------------------------
(* The user's operations.                                                  *)

create_job(j) ==
  /\ job[j].status = "absent"
  /\ NoActiveTwin(j)                  \* else the twin is returned
  /\ HasCapacity(Owner[j])
  /\ Move(j, "queued", [NoRow EXCEPT !.due = TRUE])
  /\ UNCHANGED workers

pause_job(j) ==
  /\ Visible(j)
  /\ \/ job[j].status = "queued"  /\ Move(j, "paused", [job[j] EXCEPT !.enqueued = "null"])
     \/ job[j].status = "running" /\ Move(j, "pausing", job[j])
  /\ UNCHANGED workers

resume_job(j) ==
  /\ Visible(j)
  /\ job[j].status = "paused"
  /\ Move(j, "queued", [job[j] EXCEPT !.due = TRUE, !.enqueued = "null"])
  /\ UNCHANGED workers

cancel_job(j) ==
  /\ Visible(j)
  /\ \/ /\ job[j].status \in {"queued", "paused"}
        /\ Move(j, "canceled", [job[j] EXCEPT !.enqueued = "null"])
     \/ /\ job[j].status \in {"running", "pausing"}
        /\ Move(j, "canceling", job[j])
  /\ UNCHANGED workers

\* A completed job may be retried.
retry_completed_mutant(j) ==
  /\ Visible(j) /\ job[j].status \in DELETABLE
  /\ HasCapacity(Owner[j]) /\ NoActiveTwin(j)
  /\ Move(j, "queued", [job[j] EXCEPT !.attempts = 0, !.due = TRUE, !.enqueued = "null"])
  /\ UNCHANGED workers

retry_job(j) ==
  /\ Visible(j)
  /\ job[j].status \in RETRYABLE
  /\ HasCapacity(Owner[j])
  /\ NoActiveTwin(j)                  \* else the flush raises IntegrityError
  /\ Move(j, "queued", [job[j] EXCEPT
              !.attempts = 0, !.due = TRUE, !.enqueued = "null", !.file = FALSE,
              !.purged = IF job[j].status = "failed" THEN FALSE ELSE @])
  /\ UNCHANGED workers

delete_job(j) ==
  /\ Visible(j)
  /\ job[j].status \in DELETABLE
  /\ job' = [job EXCEPT ![j] = [@ EXCEPT !.deleted = TRUE, !.aged = TRUE]]
  /\ UNCHANGED workers

-----------------------------------------------------------------------------
(* The worker.  In every action j is the job of w's attempt.               *)

Enter(w, p) == phase' = [phase EXCEPT ![w] = p] /\ UNCHANGED <<attempt, stalls>>

\* claim_job, outcome "deferred": the backoff has not elapsed, the limits
\* are reached, or (lowDisk) free_disk is under min_free_disk_bytes.
ClaimDeferred(w, j, lowDisk) ==
  /\ phase[w] = "idle"
  /\ job[j].status = "queued" /\ ~job[j].deleted
  /\ job[j].due => lowDisk \/ ~SlotFree(j)
  /\ job' = [job EXCEPT ![j] = [@ EXCEPT !.enqueued = "null", !.due = FALSE]]
  /\ UNCHANGED workers

\* claim_job, outcome "claimed".
Claimed(w, j) ==
  /\ phase[w] = "idle"
  /\ job[j].status = "queued" /\ ~job[j].deleted
  /\ job[j].due
  /\ SlotFree(j)
  /\ Move(j, "running", [job[j] EXCEPT
              !.attempts = @ + 1, !.lease = w, !.live = TRUE,
              !.enqueued = IF @ = "null" THEN "fresh" ELSE @])
  /\ attempt' = [attempt EXCEPT ![w] = j]
  /\ phase' = [phase EXCEPT ![w] = "run"]
  /\ UNCHANGED stalls

Holds(w) ==
  /\ job[attempt[w]].lease = w
  /\ job[attempt[w]].status \in LEASED

\* control() of the executor: renew the lease, learn what the user wants.
heartbeat(w) ==
  LET j == attempt[w] IN
  /\ phase[w] = "run"
  /\ \/ /\ Holds(w)
        /\ job' = [job EXCEPT ![j].live = TRUE]
        /\ Enter(w, CASE job[j].status = "canceling" -> "cancel"
                      [] job[j].status = "pausing"   -> "pause"
                      [] OTHER                       -> "run")
     \/ /\ ~Holds(w)                  \* lease_lost: leave it to the reconciler
        /\ UNCHANGED job
        /\ Enter(w, "done")

\* A completion is accepted although the user asked to cancel.
complete_canceling_mutant(w) ==
  LET j == attempt[w] IN
  /\ phase[w] = "run"
  /\ Holds(w)
  /\ Move(j, "completed", [job[j] EXCEPT !.lease = NoWorker, !.live = FALSE, !.file = TRUE])
  /\ Enter(w, "done")

\* complete_job; when it returns False the executor calls finish_stop next.
complete_job(w) ==
  LET j == attempt[w]
      ok == job[j].lease = w /\ job[j].status \in {"running", "pausing"}
  IN  /\ phase[w] = "run"
      /\ \/ /\ ok
            /\ Move(j, "completed", [job[j] EXCEPT !.lease = NoWorker, !.live = FALSE,
                                                   !.file = TRUE])
            /\ Enter(w, "done")
         \/ /\ ~ok
            /\ UNCHANGED job
            /\ Enter(w, "cancel")

\* One attempt too many.
Again_mutant(row) == IF row.attempts <= MaxAttempts THEN "retry" ELSE "failed"

Again(row) == IF row.attempts < MaxAttempts THEN "retry" ELSE "failed"

\* The token is not compared.
FailOutcome_mutant(w, retryable) ==
  LET row == job[attempt[w]] IN
  IF row.status \notin LEASED THEN "lost"
  ELSE IF row.status = "canceling" THEN "canceled"
  ELSE IF row.status = "pausing" THEN "paused"
  ELSE IF retryable THEN Again(row) ELSE "failed"

FailOutcome(w, retryable) ==
  LET row == job[attempt[w]] IN
  IF row.lease # w \/ row.status \notin LEASED
  THEN "lost"
  ELSE CASE row.status = "canceling" -> "canceled"
         [] row.status = "pausing"   -> "paused"
         [] row.status = "running"   -> IF retryable THEN Again(row) ELSE "failed"

\* _fail of the checks before the process starts: it never purges.
preflight_fail(w) ==
  /\ phase[w] = "run"
  /\ Settle(attempt[w], FailOutcome(w, FALSE))
  /\ Enter(w, "done")

\* _after_failure; frees: the failure's code is in _FREE_PARTIALS.
fail_or_retry(w, retryable, frees) ==
  LET outcome == FailOutcome(w, retryable) IN
  /\ phase[w] = "run"
  /\ Settle(attempt[w], outcome)
  /\ Enter(w, IF outcome = "canceled" \/ (outcome = "failed" /\ frees)
              THEN "purge" ELSE "done")

StopOutcome(w, reason) ==
  LET row == job[attempt[w]]
      toPause == row.status = "pausing" \/ (reason = "pause" /\ row.status = "running")
  IN  CASE row.lease = w /\ toPause                   -> "paused"
        [] row.lease = w /\ row.status = "canceling"  -> "canceled"
        [] OTHER                                      -> "lost"

\* finish_stop, after a heartbeat said so or a completion was refused.
finish_stop(w) ==
  /\ phase[w] \in {"pause", "cancel"}
  /\ LET outcome == StopOutcome(w, phase[w]) IN
     /\ Settle(attempt[w], outcome)
     /\ Enter(w, IF outcome = "canceled" THEN "purge" ELSE "done")

\* mark_purged asks for no token.  Its UPDATE touches updated_at, which is
\* what the retention of a paused job counts from.
mark_purged(w) ==
  LET j == attempt[w]
      kept == job[j].aged /\ job[j].status # "paused"
  IN
  /\ phase[w] = "purge"
  /\ job' = [job EXCEPT ![j] = [job[j] EXCEPT !.purged = TRUE, !.aged = kept]]
  /\ Enter(w, "done")

\* The attempt is over: execute_download returns, or the worker dies.
Leave(w) ==
  /\ attempt' = [attempt EXCEPT ![w] = NoJob]
  /\ phase' = [phase EXCEPT ![w] = "idle"]
  /\ UNCHANGED <<job, stalls>>

Return(w) == phase[w] = "done" /\ Leave(w)

Crash(w) == phase[w] # "idle" /\ Leave(w)
-----------------------------------------------------------------------------
(* The reconciler and the retention sweep, one row at a time: the rows of  *)
(* one sweep are independent and each is decided under its own lock.       *)

\* The lease is not looked at again under the lock.
recover_live_mutant(j) ==
  /\ job[j].status \in LEASED
  /\ Settle(j, CASE job[j].status = "canceling" -> "canceled"
                 [] job[j].status = "pausing"   -> "paused"
                 [] job[j].status = "running"   -> Again(job[j]))
  /\ UNCHANGED workers

\* A job that is to be canceled is left to its worker.
recover_not_canceling_mutant(j) ==
  /\ job[j].status \in {"running", "pausing"}
  /\ ~job[j].live
  /\ Settle(j, IF job[j].status = "pausing" THEN "paused" ELSE Again(job[j]))
  /\ UNCHANGED workers

\* A job that is to be paused is left to its worker.
recover_not_pausing_mutant(j) ==
  /\ job[j].status \in {"running", "canceling"}
  /\ ~job[j].live
  /\ Settle(j, IF job[j].status = "canceling" THEN "canceled" ELSE Again(job[j]))
  /\ UNCHANGED workers

recover_expired_leases(j) ==
  /\ job[j].status \in LEASED
  /\ ~job[j].live
  /\ Settle(j, CASE job[j].status = "canceling" -> "canceled"
                 [] job[j].status = "pausing"   -> "paused"
                 [] job[j].status = "running"   -> Again(job[j]))
  /\ UNCHANGED workers

\* A stale enqueued_at is trusted for ever.
redispatch_mutant(j) ==
  /\ job[j].status = "queued" /\ ~job[j].deleted
  /\ job[j].due
  /\ job[j].enqueued = "null"
  /\ job' = [job EXCEPT ![j].enqueued = "fresh"]
  /\ UNCHANGED workers

redispatch_queued(j) ==
  /\ job[j].status = "queued" /\ ~job[j].deleted
  /\ job[j].due
  /\ job[j].enqueued # "fresh"
  /\ job' = [job EXCEPT ![j].enqueued = "fresh"]
  /\ UNCHANGED workers

\* _dispatch_job of the API, after a commit that left the job queued.
mark_enqueued(j) ==
  /\ job[j].status = "queued"
  /\ job[j].enqueued = "null"
  /\ job' = [job EXCEPT ![j].enqueued = "fresh"]
  /\ UNCHANGED workers

\* _purge on row: either the files go, or the removal raised and is logged.
Purged(row) == {row, [row EXCEPT !.purged = TRUE, !.file = FALSE]}

\* cleanup_files 1 and 2.  A completed job with a live transfer is skipped.
sweep_expired(j) ==
  /\ job[j].status \in {"completed", "paused"}
  /\ job[j].aged
  /\ \E row \in Purged(job[j]) : Move(j, "expired", row)
  /\ UNCHANGED workers

\* Everything is a leftover that is not kept for its user.
Leftover_mutant(j) == ~job[j].purged /\ job[j].status \notin {"absent", "completed", "paused"}

Leftover(j) ==
  /\ ~job[j].purged
  /\ \/ job[j].status \in {"canceled", "expired"}
     \/ job[j].deleted
     \/ job[j].status = "failed" /\ job[j].aged

\* cleanup_files 3.
sweep_leftover(j) ==
  /\ Leftover(j)
  /\ \E row \in Purged(job[j]) : job' = [job EXCEPT ![j] = row]
  /\ UNCHANGED workers

-----------------------------------------------------------------------------
(* The clock.                                                              *)

HolderAlive(j) == \E w \in Worker : job[j].lease = w /\ attempt[w] = j

\* lease_expires_at passes.  A live worker renews it every heartbeat_seconds,
\* so it must have been stalled for lease_seconds; a dead one cannot help it.
LeaseRunsOut(j) ==
  /\ job[j].live
  /\ HolderAlive(j) => stalls < MaxStalls
  /\ stalls' = IF HolderAlive(j) THEN stalls + 1 ELSE stalls
  /\ job' = [job EXCEPT ![j].live = FALSE]
  /\ UNCHANGED <<attempt, phase>>

BackoffElapses(j) ==
  /\ job[j].status = "queued" /\ ~job[j].due
  /\ job' = [job EXCEPT ![j].due = TRUE]
  /\ UNCHANGED workers

EnqueuedGoesStale(j) ==
  /\ job[j].status = "queued" /\ job[j].enqueued = "fresh"
  /\ job' = [job EXCEPT ![j].enqueued = "stale"]
  /\ UNCHANGED workers

Ages(j) ==
  /\ job[j].status \in {"completed", "paused", "failed"} /\ ~job[j].aged
  /\ job' = [job EXCEPT ![j].aged = TRUE]
  /\ UNCHANGED workers

-----------------------------------------------------------------------------
UserStep(j) ==
  \/ create_job(j) \/ pause_job(j) \/ resume_job(j)
  \/ cancel_job(j) \/ retry_job(j) \/ delete_job(j)

WorkerStep(w) ==
  \/ heartbeat(w) \/ complete_job(w) \/ preflight_fail(w)
  \/ \E retryable, frees \in BOOLEAN : fail_or_retry(w, retryable, frees)
  \/ finish_stop(w) \/ mark_purged(w) \/ Return(w) \/ Crash(w)

ClaimStep(w, j) ==
  Claimed(w, j) \/ \E lowDisk \in BOOLEAN : ClaimDeferred(w, j, lowDisk)

ReconcileStep(j) ==
  \/ recover_expired_leases(j) \/ redispatch_queued(j) \/ mark_enqueued(j)
  \/ sweep_expired(j) \/ sweep_leftover(j)

ClockStep(j) ==
  LeaseRunsOut(j) \/ BackoffElapses(j) \/ EnqueuedGoesStale(j) \/ Ages(j)

Next ==
  \/ \E j \in Job : UserStep(j) \/ ReconcileStep(j) \/ ClockStep(j)
  \/ \E w \in Worker : WorkerStep(w)
  \/ \E w \in Worker, j \in Job : ClaimStep(w, j)

Spec == Init /\ [][Next]_vars

-----------------------------------------------------------------------------
(***************************************************************************)
(* Properties.                                                             *)
(***************************************************************************)

TypeOK ==
  /\ job \in [Job -> Row]
  /\ attempt \in [Worker -> Job \cup {NoJob}]
  /\ phase \in [Worker -> Phase]
  /\ stalls \in 0..MaxStalls

\* A row names a lease holder exactly while its status is a leased one, and
\* a slot executes an attempt exactly while it is not idle.
LeaseHeld ==
  /\ \A j \in Job : /\ (job[j].status \in LEASED) <=> (job[j].lease # NoWorker)
                    /\ job[j].live => job[j].status \in LEASED
  /\ \A w \in Worker : (phase[w] = "idle") <=> (attempt[w] = NoJob)

\* The attempt budget: a job that can still be claimed has an attempt left,
\* whatever mix of pauses, lost workers, failures and retries led there, so
\* claim_job never starts attempt max_attempts + 1.
BudgetBounded ==
  \A j \in Job : job[j].status \in {"queued", "paused"} => job[j].attempts < MaxAttempts

\* A leased job has spent the attempt it is running.
AttemptCounted ==
  \A j \in Job : job[j].status \in LEASED => job[j].attempts > 0

\* A worker that was told to pause and still holds its lease finds the job
\* pausing, or canceling when the user changed their mind meanwhile: the
\* branch of finish_stop for a running job is never taken.
StopStillWanted ==
  \A w \in Worker :
    /\ phase[w] = "pause" /\ job[attempt[w]].lease = w
         => job[attempt[w]].status \in {"pausing", "canceling"}
    /\ phase[w] = "cancel" /\ job[attempt[w]].lease = w
         => job[attempt[w]].status = "canceling"

\* An attempt that still has rows to write never finds its own token on a
\* job it has already settled.
SettledLetsGo ==
  \A w \in Worker :
    phase[w] \in {"purge", "done"} => job[attempt[w]].lease # w

\* A user removes only finished jobs, and a removed job stays finished.
DeletedIsTerminal ==
  \A j \in Job : job[j].deleted => job[j].status \in TERMINAL

IInv ==
  /\ TypeOK
  /\ LeaseHeld
  /\ BudgetBounded
  /\ AttemptCounted
  /\ StopStillWanted
  /\ SettledLetsGo
  /\ DeletedIsTerminal

\* max_active_jobs_per_user is never exceeded: create_job and retry_job check
\* it, and no other operation makes an inactive job active again.
ActiveWithinLimit == \A u \in User : Cardinality(ActiveJobs(u)) <= MaxActive

\* Two active jobs of one user never ask for the same content, also when one
\* of them is a finished job that is being retried.
NoDuplicateActive == \A j \in Job : IsActive(j) => NoActiveTwin(j)

\* More jobs hold a live lease than the global limit allows only if as many
\* leases ran out under a live worker: a claim counts live leases only, and
\* a heartbeat revives a lease that the claim did not count.
ConcurrencyPaidByStalls == Cardinality(LiveLeases) <= MaxGlobal + stalls

\* The docstring of jobs.py: "global and per-user concurrency limits are exact".
LimitsAreExact == Cardinality(LiveLeases) <= MaxGlobal

\* Every worker write is fenced on the token: a step of a worker that no
\* longer holds the lease of its job changes no row.  mark_purged is the
\* write that asks for no token, see PurgesOnlyTerminal.
FencedWrites ==
  [][ \A w \in Worker :
        /\ phase[w] \in {"run", "pause", "cancel"}
        /\ phase'[w] # phase[w]
        /\ job[attempt[w]].lease # w
        => UNCHANGED job ]_vars

\* A cancel always wins: the job a user asked to cancel is never completed,
\* failed, paused or queued again before it is canceled.
CancelWins ==
  [][ \A j \in Job : job[j].status = "canceling"
        => job'[j].status \in {"canceling", "canceled"} ]_vars

\* The docstring of mark_purged: "unfenced: the job is already terminal".
PurgesOnlyTerminal ==
  [][ \A w \in Worker :
        phase[w] = "purge" /\ phase'[w] = "done"
          => job[attempt[w]].status \in TERMINAL ]_vars

\* The table is an implementation of the abstract state machine: no
\* transaction attempts a move that states.TRANSITIONS forbids.
StateMachine == INSTANCE JobStateMachine WITH status <- [j \in Job |-> job[j].status]
Implements == StateMachine!Spec
=============================================================================
