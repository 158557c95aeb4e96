--------------------------- MODULE JobLimitsProofs ---------------------------
(***************************************************************************)
(* Proofs about JobService: the limit on a user's active jobs, the         *)
(* uniqueness of their contents, and the limit on running jobs, for any    *)
(* number of jobs and workers and any limit.                               *)
(*                                                                         *)
(* The first two follow from one fact about steps: only create_job and     *)
(* retry_job make a job active that was not, one job at a time, and after  *)
(* looking at the other jobs.  Submission shows why they may look and      *)
(* write in one step.  The third follows from what a step may do to the    *)
(* leases (LeaseSteps), which ExecutorProofs needs as well.                *)
(***************************************************************************)
EXTENDS JobServiceProofs, FiniteSetTheorems

USE JobsAssumption, LimitsAssumption

\* No job becomes active.
Settling == \A k \in Job : IsActive(k)' => IsActive(k)

\* j is let in, and nothing else happens.
Admits(j) ==
  /\ NoActiveTwin(j) /\ HasCapacity(Owner[j])
  /\ \A k \in Job \ {j} : job'[k] = job[k]

\* No job is queued that was not active already.
Requeues == \A k \in Job : job'[k].status = "queued" => job[k].status \in ACTIVE

LEMMA OneStatus ==
  ASSUME Split, NEW j \in Job, NEW r, job' = [job EXCEPT ![j] = r],
         r.status # "queued" \/ job[j].status \in ACTIVE
  PROVE  Requeues
<1>1. job'[j] = r /\ \A k \in Job \ {j} : job'[k] = job[k]
  BY DEF Split
<1>2. ASSUME NEW k \in Job \ {j}, job'[k].status = "queued" PROVE job[k].status \in ACTIVE
  BY <1>1, <1>2 DEF ACTIVE
<1> QED BY <1>1, <1>2 DEF Requeues

LEMMA OneMoved ==
  ASSUME Split, NEW j \in Job, NEW row \in Row, NEW dst, Move(j, dst, row),
         dst # "queued" \/ job[j].status \in ACTIVE
  PROVE  Requeues
<1>1. Moved(row, dst).status = dst
  BY DEF Moved, Row
<1>2. job' = [job EXCEPT ![j] = Moved(row, dst)]
  BY DEF Move, Moved
<1> QED BY <1>1, <1>2, OneStatus

LEMMA SameJobs == ASSUME job' = job PROVE Requeues
BY DEF Requeues, ACTIVE

\* What is settled was leased, and so active.
LEMMA SettledActive ==
  ASSUME Split, NEW j \in Job, job[j].status \in LEASED,
         NEW outcome \in {"canceled", "paused", "failed", "retry"},
         outcome = "retry" => job[j].attempts < MaxAttempts,
         Settle(j, outcome)
  PROVE  Requeues
<1>1. PICK row \in Row, dst \in JobStatus : Move(j, dst, row)
  BY SettleRow
<1> QED BY <1>1, OneMoved DEF LEASED, ACTIVE

\* An attempt settles a job that it still holds, or nothing.
LEMMA AttemptQueues ==
  ASSUME Split, NEW w \in Worker, phase[w] # "idle",
         NEW outcome \in {"canceled", "paused", "failed", "retry", "lost"},
         outcome = "lost" <=> job[attempt[w]].lease # w,
         outcome = "retry" => job[attempt[w]].attempts < MaxAttempts,
         Settle(attempt[w], outcome)
  PROVE  Requeues
<1>1. attempt[w] \in Job /\ SoundRow(job[attempt[w]])
  BY DEF Split, SoundWorker
<1>2. CASE outcome = "lost"
  BY <1>2, SameJobs DEF Settle
<1>3. CASE outcome # "lost"
  <2>1. job[attempt[w]].status \in LEASED
    BY <1>1, <1>3 DEF SoundRow, Fits
  <2> QED BY <1>1, <1>3, <2>1, SettledActive
<1> QED BY <1>2, <1>3

LEMMA UserQueues ==
  ASSUME Split, NEW j \in Job, UserStep(j)
  PROVE  Requeues \/ create_job(j) \/ retry_job(j)
<1>0. job[j] \in Row
  BY DEF Split
<1>1. CASE pause_job(j)
  <2>1. CASE job[j].status = "queued" /\ Move(j, "paused", [job[j] EXCEPT !.enqueued = "null"])
    <3>1. [job[j] EXCEPT !.enqueued = "null"] \in Row
      BY <1>0 DEF Row
    <3> QED BY <2>1, <3>1, OneMoved
  <2>2. CASE Move(j, "pausing", job[j])
    BY <1>0, <2>2, OneMoved
  <2> QED BY <1>1, <2>1, <2>2 DEF pause_job
<1>2. CASE resume_job(j)
  <2>1. [job[j] EXCEPT !.due = TRUE, !.enqueued = "null"] \in Row
    BY <1>0 DEF Row
  <2> QED BY <1>2, <2>1, OneMoved DEF resume_job, ACTIVE
<1>3. CASE cancel_job(j)
  <2>1. CASE Move(j, "canceled", [job[j] EXCEPT !.enqueued = "null"])
    <3>1. [job[j] EXCEPT !.enqueued = "null"] \in Row
      BY <1>0 DEF Row
    <3> QED BY <2>1, <3>1, OneMoved
  <2>2. CASE Move(j, "canceling", job[j])
    BY <1>0, <2>2, OneMoved
  <2> QED BY <1>3, <2>1, <2>2 DEF cancel_job
<1>4. CASE delete_job(j)
  <2> DEFINE r == [job[j] EXCEPT !.deleted = TRUE, !.aged = TRUE]
  <2>1. job' = [job EXCEPT ![j] = r] /\ job[j].status \in DELETABLE
    BY <1>4 DEF delete_job
  <2>2. r.status = job[j].status
    BY <1>0 DEF Row
  <2> HIDE DEF r
  <2> QED BY <2>1, <2>2, OneStatus DEF DELETABLE, TERMINAL
<1> QED BY <1>1, <1>2, <1>3, <1>4 DEF UserStep

LEMMA WorkerQueues ==
  ASSUME Split, NEW w \in Worker, WorkerStep(w)
  PROVE  Requeues
<1> DEFINE j == attempt[w]
<1>0. phase[w] # "idle" => j \in Job /\ job[j] \in Row
  BY DEF Split, SoundWorker
<1>1. CASE heartbeat(w)
  <2>1. CASE job' = [job EXCEPT ![j].live = TRUE]
    <3> DEFINE r == [job[j] EXCEPT !.live = TRUE]
    <3>1. job' = [job EXCEPT ![j] = r] /\ j \in Job /\ job[j] \in Row
      BY <1>0, <1>1, <2>1 DEF heartbeat
    <3>2. r.status = job[j].status
      BY <3>1 DEF Row
    <3> HIDE DEF r
    <3>3. r.status # "queued" \/ job[j].status \in ACTIVE
      BY <3>2 DEF ACTIVE
    <3> QED BY <3>1, <3>3, OneStatus
  <2> QED BY <1>1, <2>1, SameJobs DEF heartbeat
<1>2. CASE complete_job(w)
  <2> DEFINE row == [job[j] EXCEPT !.lease = NoWorker, !.live = FALSE, !.file = TRUE]
  <2>1. CASE Move(j, "completed", row)
    <3>1. j \in Job /\ row \in Row
      BY <1>0, <1>2 DEF complete_job, Row
    <3> HIDE DEF row
    <3> QED BY <2>1, <3>1, OneMoved
  <2> QED BY <1>2, <2>1, SameJobs DEF complete_job
<1>3. CASE preflight_fail(w)
  <2> DEFINE outcome == FailOutcome(w, FALSE)
  <2>1. phase[w] = "run" /\ Settle(j, outcome)
    BY <1>3 DEF preflight_fail
  <2> QED BY <2>1, FailDecision, AttemptQueues
<1>4. ASSUME NEW retryable \in BOOLEAN, NEW frees \in BOOLEAN,
             fail_or_retry(w, retryable, frees)
      PROVE  Requeues
  <2> DEFINE outcome == FailOutcome(w, retryable)
  <2>1. phase[w] = "run" /\ Settle(j, outcome)
    BY <1>4 DEF fail_or_retry
  <2> QED BY <2>1, FailDecision, AttemptQueues
<1>5. CASE finish_stop(w)
  <2> DEFINE outcome == StopOutcome(w, phase[w])
  <2>1. phase[w] \in {"pause", "cancel"} /\ Settle(j, outcome)
    BY <1>5 DEF finish_stop
  <2>2. /\ outcome \in {"canceled", "paused", "lost"}
        /\ outcome = "lost" <=> job[j].lease # w
    BY <2>1, StopDecision
  <2> HIDE DEF outcome
  <2> QED BY <2>1, <2>2, AttemptQueues
<1>6. CASE mark_purged(w)
  <2> DEFINE kept == job[j].aged /\ job[j].status # "paused"
             r == [job[j] EXCEPT !.purged = TRUE, !.aged = kept]
  <2>1. job' = [job EXCEPT ![j] = r] /\ j \in Job /\ job[j] \in Row
    BY <1>0, <1>6 DEF mark_purged
  <2>2. r.status = job[j].status
    BY <2>1 DEF Row
  <2> HIDE DEF r
  <2>3. r.status # "queued" \/ job[j].status \in ACTIVE
    BY <2>2 DEF ACTIVE
  <2> QED BY <2>1, <2>3, OneStatus
<1>7. CASE Return(w) \/ Crash(w)
  BY <1>7, SameJobs DEF Return, Crash, Leave
<1> QED BY <1>1, <1>2, <1>3, <1>4, <1>5, <1>6, <1>7 DEF WorkerStep

LEMMA ClaimQueues ==
  ASSUME Split, NEW w \in Worker, NEW j \in Job, ClaimStep(w, j)
  PROVE  Requeues
<1>1. job[j].status = "queued"
  BY DEF ClaimStep, Claimed, ClaimDeferred
<1>2. PICK r : job' = [job EXCEPT ![j] = r]
  BY DEF ClaimStep, Claimed, ClaimDeferred, Move
<1> QED BY <1>1, <1>2, OneStatus DEF ACTIVE

\* Sweeps and clocks leave the statuses alone, or end a job.
LEMMA ReconcileQueues ==
  ASSUME Split, NEW j \in Job, ReconcileStep(j)
  PROVE  Requeues
<1>0. job[j] \in Row
  BY DEF Split
<1>1. CASE recover_expired_leases(j)
  <2>1. job[j].status \in LEASED
    BY <1>1 DEF recover_expired_leases
  <2>2. \E outcome \in {"canceled", "paused", "failed", "retry"} :
          /\ Settle(j, outcome)
          /\ outcome = "retry" => job[j].attempts < MaxAttempts
    <3>1. CASE job[j].status = "canceling" \/ job[j].status = "pausing"
      BY <1>1, <3>1 DEF recover_expired_leases
    <3>2. CASE job[j].status = "running" /\ job[j].attempts < MaxAttempts
      BY <1>1, <3>2 DEF recover_expired_leases, Again
    <3>3. CASE job[j].status = "running" /\ ~(job[j].attempts < MaxAttempts)
      BY <1>1, <3>3 DEF recover_expired_leases, Again
    <3> QED BY <2>1, <3>1, <3>2, <3>3 DEF LEASED
  <2> QED BY <2>1, <2>2, SettledActive
<1>2. CASE redispatch_queued(j) \/ mark_enqueued(j)
  <2> DEFINE r == [job[j] EXCEPT !.enqueued = "fresh"]
  <2>1. job' = [job EXCEPT ![j] = r]
    BY <1>2 DEF redispatch_queued, mark_enqueued
  <2>2. job[j].status \in ACTIVE
    BY <1>2 DEF redispatch_queued, mark_enqueued, ACTIVE
  <2> HIDE DEF r
  <2> QED BY <2>1, <2>2, OneStatus
<1>3. CASE sweep_expired(j)
  <2>1. PICK row \in Purged(job[j]) : Move(j, "expired", row)
    BY <1>3 DEF sweep_expired
  <2> QED BY <1>0, <2>1, PurgedRow, OneMoved
<1>4. CASE sweep_leftover(j)
  <2>1. PICK row \in Purged(job[j]) : job' = [job EXCEPT ![j] = row]
    BY <1>4 DEF sweep_leftover
  <2>2. row.status # "queued" \/ job[j].status \in ACTIVE
    BY <1>0, <2>1, PurgedRow DEF ACTIVE
  <2> QED BY <2>1, <2>2, OneStatus
<1> QED BY <1>1, <1>2, <1>3, <1>4 DEF ReconcileStep

LEMMA ClockQueues ==
  ASSUME Split, NEW j \in Job, ClockStep(j)
  PROVE  Requeues
<1>0. job[j] \in Row
  BY DEF Split
<1>1. \E r : job' = [job EXCEPT ![j] = r] /\ r.status = job[j].status
  <2>1. CASE LeaseRunsOut(j)
    <3> DEFINE r == [job[j] EXCEPT !.live = FALSE]
    <3>1. job' = [job EXCEPT ![j] = r]
      BY <2>1 DEF LeaseRunsOut
    <3>2. r.status = job[j].status
      BY <1>0 DEF Row
    <3> HIDE DEF r
    <3> QED BY <3>1, <3>2
  <2>2. CASE BackoffElapses(j)
    <3> DEFINE r == [job[j] EXCEPT !.due = TRUE]
    <3>1. job' = [job EXCEPT ![j] = r]
      BY <2>2 DEF BackoffElapses
    <3>2. r.status = job[j].status
      BY <1>0 DEF Row
    <3> HIDE DEF r
    <3> QED BY <3>1, <3>2
  <2>3. CASE EnqueuedGoesStale(j)
    <3> DEFINE r == [job[j] EXCEPT !.enqueued = "stale"]
    <3>1. job' = [job EXCEPT ![j] = r]
      BY <2>3 DEF EnqueuedGoesStale
    <3>2. r.status = job[j].status
      BY <1>0 DEF Row
    <3> HIDE DEF r
    <3> QED BY <3>1, <3>2
  <2>4. CASE Ages(j)
    <3> DEFINE r == [job[j] EXCEPT !.aged = TRUE]
    <3>1. job' = [job EXCEPT ![j] = r]
      BY <2>4 DEF Ages
    <3>2. r.status = job[j].status
      BY <1>0 DEF Row
    <3> HIDE DEF r
    <3> QED BY <3>1, <3>2
  <2> QED BY <2>1, <2>2, <2>3, <2>4 DEF ClockStep
<1> QED
  <2>1. PICK r : job' = [job EXCEPT ![j] = r] /\ r.status = job[j].status
    BY <1>1
  <2> QED BY <2>1, OneStatus DEF ACTIVE

(***************************************************************************)
(* What a step does to the set of active jobs.                             *)
(***************************************************************************)

\* A row that is active is not removed, so its status alone decides.
LEMMA ActiveStatus ==
  ASSUME Split PROVE \A j \in Job : IsActive(j) <=> job[j].status \in ACTIVE
BY DEF Split, SoundRow, Fits, IsActive, ACTIVE, TERMINAL

LEMMA LetIn ==
  ASSUME Split, NEW j \in Job, create_job(j) \/ retry_job(j)
  PROVE  Admits(j)
<1>1. NoActiveTwin(j) /\ HasCapacity(Owner[j])
  BY DEF create_job, retry_job
<1>2. \E r : job' = [job EXCEPT ![j] = r]
  BY DEF create_job, retry_job, Move
<1>3. \A k \in Job \ {j} : job'[k] = job[k]
  BY <1>2 DEF Split
<1> QED BY <1>1, <1>3 DEF Admits

\* A legal move into ACTIVE from outside ends in "queued".
LEMMA OnlyQueued ==
  ASSUME Split, Split', OneMove, Requeues
  PROVE  Settling
<1> SUFFICES ASSUME NEW k \in Job, IsActive(k)' PROVE IsActive(k)
  BY DEF Settling
<1>1. job'[k].status \in ACTIVE
  BY DEF IsActive
<1>2. Legal(job[k].status, job'[k].status)
  BY DEF OneMove, Legal
<1>3. job'[k].status # "queued" => job[k].status \in ACTIVE
  BY <1>1, <1>2 DEF Legal, CanTransition, TRANSITIONS, JobStatus, ACTIVE
<1>4. job[k].status \in ACTIVE
  BY <1>3 DEF Requeues
<1> QED BY <1>4, ActiveStatus

LEMMA Activation ==
  ASSUME Split, [Next]_vars
  PROVE  Settling \/ \E j \in Job : Admits(j)
<1>1. Split' /\ OneMove
  BY NextSplit
<1>2. Requeues => Settling
  BY <1>1, OnlyQueued
<1>3. CASE Next
  <2>1. ASSUME NEW j \in Job, UserStep(j)
        PROVE  Requeues \/ \E k \in Job : Admits(k)
    BY <2>1, UserQueues, LetIn
  <2>2. ASSUME NEW j \in Job, ReconcileStep(j) \/ ClockStep(j) PROVE Requeues
    BY <2>2, ReconcileQueues, ClockQueues
  <2>3. ASSUME NEW w \in Worker, WorkerStep(w) PROVE Requeues
    BY <2>3, WorkerQueues
  <2>4. ASSUME NEW w \in Worker, NEW j \in Job, ClaimStep(w, j) PROVE Requeues
    BY <2>4, ClaimQueues
  <2> QED BY <1>2, <1>3, <2>1, <2>2, <2>3, <2>4 DEF Next
<1>4. CASE UNCHANGED vars
  BY <1>2, <1>4, SameJobs DEF vars
<1> QED BY <1>3, <1>4

(***************************************************************************)
(* The theorems.                                                           *)
(***************************************************************************)

\* Two active jobs of one user never ask for the same content, however
\* submissions, retries, workers and the reconciler are interleaved.
THEOREM NoDuplicates == Spec => []NoDuplicateActive
<1>1. Init => NoDuplicateActive
  BY DEF Init, NoRow, NoDuplicateActive, IsActive, ACTIVE
<1>2. IInv /\ NoDuplicateActive /\ [Next]_vars => NoDuplicateActive'
  <2> SUFFICES ASSUME Split, NoDuplicateActive, [Next]_vars PROVE NoDuplicateActive'
    BY SplitIInv
  <2> SUFFICES ASSUME NEW a \in Job, IsActive(a)', NEW b \in Job \ {a},
                      Owner[b] = Owner[a], Wanted[b] = Wanted[a], IsActive(b)'
               PROVE  FALSE
    BY DEF NoDuplicateActive, NoActiveTwin
  <2>1. CASE Settling
    BY <2>1 DEF Settling, NoDuplicateActive, NoActiveTwin
  <2>2. ASSUME NEW j \in Job, Admits(j) PROVE FALSE
    <3>1. \A k \in Job \ {j} : IsActive(k)' => IsActive(k)
      BY <2>2 DEF Admits, IsActive
    <3> QED BY <2>2, <3>1 DEF Admits, NoDuplicateActive, NoActiveTwin
  <2> QED BY <2>1, <2>2, Activation
<1> QED BY <1>1, <1>2, Invariance, PTL DEF Spec

\* One more job fits as long as there is capacity.
LEMMA JobsFinite ==
  ASSUME NEW S, NEW T, IsFiniteSet(T), NEW j, S \subseteq T \cup {j}
  PROVE  /\ IsFiniteSet(S) /\ Cardinality(S) \in Nat /\ Cardinality(T) \in Nat
         /\ Cardinality(S) <= Cardinality(T) + 1
<1>1. /\ IsFiniteSet(T \cup {j}) /\ Cardinality(T) \in Nat
      /\ Cardinality(T \cup {j}) \in {Cardinality(T), Cardinality(T) + 1}
  BY FS_AddElement, FS_CardinalityType
<1>2. IsFiniteSet(S) /\ Cardinality(S) <= Cardinality(T \cup {j})
  BY <1>1, FS_Subset
<1> QED BY <1>1, <1>2, FS_CardinalityType

\* max_active_jobs_per_user is never exceeded.
THEOREM LimitHolds == Spec => []ActiveWithinLimit
<1>1. Init => ActiveWithinLimit
  <2> SUFFICES ASSUME Init, NEW u \in User PROVE Cardinality(ActiveJobs(u)) <= MaxActive
    BY DEF ActiveWithinLimit
  <2>1. ActiveJobs(u) = {}
    BY DEF Init, NoRow, ActiveJobs, IsActive, ACTIVE
  <2> QED BY <2>1, FS_EmptySet
<1>2. IInv /\ ActiveWithinLimit /\ [Next]_vars => ActiveWithinLimit'
  <2> SUFFICES ASSUME Split, ActiveWithinLimit, [Next]_vars, NEW u \in User
               PROVE  Cardinality(ActiveJobs(u)') <= MaxActive
    BY SplitIInv DEF ActiveWithinLimit
  <2>1. ActiveJobs(u) \subseteq Job /\ IsFiniteSet(ActiveJobs(u))
    BY FS_Subset DEF ActiveJobs
  <2>2. Cardinality(ActiveJobs(u)) <= MaxActive
    BY DEF ActiveWithinLimit
  <2>3. CASE ActiveJobs(u)' \subseteq ActiveJobs(u)
    <3>1. Cardinality(ActiveJobs(u)') <= Cardinality(ActiveJobs(u))
      BY <2>1, <2>3, FS_Subset
    <3> QED BY <2>1, <2>2, <2>3, <3>1, FS_CardinalityType, FS_Subset
  <2>4. CASE Settling
    BY <2>3, <2>4 DEF Settling, ActiveJobs
  <2>5. ASSUME NEW j \in Job, Admits(j)
        PROVE  Cardinality(ActiveJobs(u)') <= MaxActive
    <3>1. \A k \in Job \ {j} : IsActive(k)' => IsActive(k)
      BY <2>5 DEF Admits, IsActive
    <3>2. CASE Owner[j] = u
      <4>1. ActiveJobs(u)' \subseteq ActiveJobs(u) \cup {j}
        BY <3>1 DEF ActiveJobs
      <4>2. Cardinality(ActiveJobs(u)) < MaxActive
        BY <2>5, <3>2 DEF Admits, HasCapacity
      <4> QED BY <2>1, <4>1, <4>2, JobsFinite
    <3>3. CASE Owner[j] # u
      BY <2>3, <3>1, <3>3 DEF ActiveJobs
    <3> QED BY <3>2, <3>3
  <2> QED BY <2>4, <2>5, Activation
<1> QED BY <1>1, <1>2, Invariance, PTL DEF Spec

(***************************************************************************)
(* What a step does to the leases.                                         *)
(***************************************************************************)

\* The transactions that w has left ask for the lease.
Fenced(w) == phase[w] \in {"run", "pause", "cancel"}

\* The row r leaves the lease of j as it is; or it is renewed by the holder;
\* or it runs out and there is no holder; or it is taken away after that; or
\* the holder gives it back with its last fenced transaction.
LeaseKept(j, r) ==
  \/ r.lease = job[j].lease /\ r.live = job[j].live
  \/ r.lease = job[j].lease /\ r.live /\ HolderAlive(j)
  \/ r.lease = job[j].lease /\ ~r.live /\ ~HolderAlive(j)
  \/ r.lease = NoWorker /\ ~job[j].live
  \/ r.lease = NoWorker /\ \E w \in Worker : /\ job[j].lease = w /\ attempt[w] = j
                                             /\ phase'[w] \notin {"run", "pause", "cancel"}

\* No attempt begins.
NoneBegins ==
  \A w \in Worker : /\ attempt'[w] \in {attempt[w], NoJob}
                    /\ Fenced(w)' => Fenced(w) /\ attempt'[w] = attempt[w]

\* No claim, and no lease runs out under a live worker.
Calm ==
  /\ \A j \in Job : LeaseKept(j, job'[j])
  /\ NoneBegins
  /\ stalls' = stalls

\* The lease of j runs out under a live worker.
Stalled(j) ==
  /\ HolderAlive(j) /\ stalls' = stalls + 1
  /\ job'[j].lease = job[j].lease /\ ~job'[j].live
  /\ \A k \in Job \ {j} : job'[k] = job[k]
  /\ attempt' = attempt /\ phase' = phase

LEMMA CalmRow ==
  ASSUME Split, NEW j \in Job, NEW r, job' = [job EXCEPT ![j] = r],
         LeaseKept(j, r), NoneBegins, stalls' = stalls
  PROVE  Calm
<1>1. job'[j] = r /\ \A k \in Job \ {j} : job'[k] = job[k]
  BY DEF Split
<1>2. ASSUME NEW k \in Job \ {j} PROVE LeaseKept(k, job'[k])
  BY <1>1 DEF LeaseKept
<1> QED BY <1>1, <1>2 DEF Calm

LEMMA CalmMove ==
  ASSUME Split, NEW j \in Job, NEW row \in Row, NEW dst, Move(j, dst, row),
         LeaseKept(j, row), NoneBegins, stalls' = stalls
  PROVE  Calm
<1>1. Moved(row, dst).lease = row.lease /\ Moved(row, dst).live = row.live
  BY DEF Moved, Row
<1>2. LeaseKept(j, Moved(row, dst))
  BY <1>1 DEF LeaseKept
<1>3. job' = [job EXCEPT ![j] = Moved(row, dst)]
  BY DEF Move, Moved
<1> QED BY <1>2, <1>3, CalmRow

LEMMA WorkersRest ==
  ASSUME Split, attempt' = attempt, phase' = phase PROVE NoneBegins
BY DEF NoneBegins, Fenced

LEMMA UserCalm ==
  ASSUME Split, NEW j \in Job, UserStep(j)
  PROVE  Calm
<1>1. job[j] \in Row /\ Fits(job[j], job[j].status)
  BY DEF Split, SoundRow
<1>2. NoneBegins /\ stalls' = stalls
  <2>1. attempt' = attempt /\ phase' = phase /\ stalls' = stalls
    BY DEF UserStep, create_job, pause_job, resume_job, cancel_job, retry_job,
           delete_job, workers
  <2> QED BY <2>1, WorkersRest
<1>3. CASE create_job(j)
  <2> DEFINE row == [NoRow EXCEPT !.due = TRUE]
  <2>1. Move(j, "queued", row) /\ job[j].status = "absent" BY <1>3 DEF create_job
  <2>2. row \in Row /\ row.lease = NoWorker /\ row.live = FALSE
    BY NewRow DEF Row, NoRow
  <2> HIDE DEF row
  <2>3. job[j].lease = NoWorker /\ job[j].live = FALSE
    BY <1>1, <2>1 DEF Fits, LEASED, Row
  <2> QED BY <1>2, <2>1, <2>2, <2>3, CalmMove DEF LeaseKept
<1>4. CASE pause_job(j) \/ cancel_job(j)
  <2> DEFINE row == [job[j] EXCEPT !.enqueued = "null"]
  <2>1. row \in Row /\ row.lease = job[j].lease /\ row.live = job[j].live
    BY <1>1 DEF Row
  <2>2. \E dst \in JobStatus : Move(j, dst, row) \/ Move(j, dst, job[j])
    BY <1>4 DEF pause_job, cancel_job, JobStatus
  <2> HIDE DEF row
  <2> QED BY <1>1, <1>2, <2>1, <2>2, CalmMove DEF LeaseKept
<1>5. CASE resume_job(j)
  <2> DEFINE row == [job[j] EXCEPT !.due = TRUE, !.enqueued = "null"]
  <2>1. row \in Row /\ row.lease = job[j].lease /\ row.live = job[j].live
    BY <1>1 DEF Row
  <2>2. Move(j, "queued", row)
    BY <1>5 DEF resume_job
  <2> HIDE DEF row
  <2> QED BY <1>2, <2>1, <2>2, CalmMove DEF LeaseKept
<1>6. CASE retry_job(j)
  <2> DEFINE kept == IF job[j].status = "failed" THEN FALSE ELSE job[j].purged
             row == [job[j] EXCEPT !.attempts = 0, !.due = TRUE, !.enqueued = "null",
                        !.file = FALSE, !.purged = kept]
  <2>1. Move(j, "queued", row) BY <1>6 DEF retry_job
  <2>2. kept \in BOOLEAN
    BY <1>1 DEF Row
  <2> HIDE DEF kept
  <2>3. 0 \in 0..MaxAttempts
    OBVIOUS
  <2>4. row \in Row /\ row.lease = job[j].lease /\ row.live = job[j].live
    BY <1>1, <2>2, <2>3 DEF Row
  <2> HIDE DEF row
  <2> QED BY <1>2, <2>1, <2>4, CalmMove DEF LeaseKept
<1>7. CASE delete_job(j)
  <2> DEFINE row == [job[j] EXCEPT !.deleted = TRUE, !.aged = TRUE]
  <2>1. job' = [job EXCEPT ![j] = row] BY <1>7 DEF delete_job
  <2>2. row.lease = job[j].lease /\ row.live = job[j].live
    BY <1>1 DEF Row
  <2> HIDE DEF row
  <2> QED BY <1>2, <2>1, <2>2, CalmRow DEF LeaseKept
<1> QED BY <1>3, <1>4, <1>5, <1>6, <1>7 DEF UserStep

\* A transaction that settles a job takes its lease: the reconciler's, when
\* it has run out, or the holder's, with its last fenced step.
LEMMA SettleCalm ==
  ASSUME Split, NEW j \in Job, job[j].status \in LEASED,
         NEW outcome \in {"canceled", "paused", "failed", "retry"},
         outcome = "retry" => job[j].attempts < MaxAttempts,
         Settle(j, outcome), NoneBegins, stalls' = stalls,
         \/ ~job[j].live
         \/ \E w \in Worker : /\ job[j].lease = w /\ attempt[w] = j
                              /\ phase'[w] \notin {"run", "pause", "cancel"}
  PROVE  Calm
<1>1. PICK row \in Row, dst \in JobStatus : row.lease = NoWorker /\ Move(j, dst, row)
  BY SettleRow
<1> QED BY <1>1, CalmMove DEF LeaseKept

\* A step of the attempt of w that is not a heartbeat.
LEMMA PhaseMoves ==
  ASSUME Split, NEW w \in Worker, NEW p \in Phase, Enter(w, p), Fenced(w) \/ p = "done"
  PROVE  NoneBegins /\ stalls' = stalls /\ phase'[w] = p
<1>1. /\ phase'[w] = p /\ \A v \in Worker \ {w} : phase'[v] = phase[v]
      /\ attempt' = attempt /\ stalls' = stalls
  BY DEF Split, Enter
<1>2. ASSUME NEW v \in Worker, Fenced(v)' PROVE Fenced(v)
  BY <1>1, <1>2 DEF Fenced
<1> QED BY <1>1, <1>2 DEF NoneBegins

LEMMA AttemptCalm ==
  ASSUME Split, NEW w \in Worker, Fenced(w),
         NEW outcome \in {"canceled", "paused", "failed", "retry", "lost"},
         outcome = "lost" <=> job[attempt[w]].lease # w,
         outcome = "retry" => job[attempt[w]].attempts < MaxAttempts,
         Settle(attempt[w], outcome),
         NEW p \in {"purge", "done"}, Enter(w, p)
  PROVE  Calm
<1>1. attempt[w] \in Job /\ SoundRow(job[attempt[w]])
  BY DEF Split, SoundWorker, Fenced
<1>2. NoneBegins /\ stalls' = stalls /\ phase'[w] = p
  BY PhaseMoves DEF Phase
<1>3. CASE outcome = "lost"
  BY <1>2, <1>3 DEF Settle, Calm, LeaseKept
<1>4. CASE outcome # "lost"
  <2>1. job[attempt[w]].status \in LEASED
    BY <1>1, <1>4 DEF SoundRow, Fits
  <2> QED BY <1>1, <1>2, <1>4, <2>1, SettleCalm
<1> QED BY <1>3, <1>4

LEMMA WorkerCalm ==
  ASSUME Split, NEW w \in Worker, WorkerStep(w)
  PROVE  Calm
<1> DEFINE j == attempt[w]
<1>1. phase[w] # "idle" => j \in Job /\ job[j] \in Row /\ SoundRow(job[j])
  BY DEF Split, SoundWorker
<1>2. CASE heartbeat(w)
  <2>1. /\ phase[w] = "run" /\ j \in Job /\ job[j] \in Row
        /\ \E p \in Phase : Enter(w, p)
    BY <1>1, <1>2 DEF heartbeat, Phase
  <2>2. NoneBegins /\ stalls' = stalls
    BY <2>1, PhaseMoves DEF Fenced
  <2>3. CASE Holds(w) /\ job' = [job EXCEPT ![j].live = TRUE]
    <3> DEFINE r == [job[j] EXCEPT !.live = TRUE]
    <3>1. job' = [job EXCEPT ![j] = r] /\ HolderAlive(j)
      BY <2>3 DEF Holds, HolderAlive
    <3>2. r.lease = job[j].lease /\ r.live
      BY <2>1 DEF Row
    <3> HIDE DEF r
    <3> QED BY <2>1, <2>2, <3>1, <3>2, CalmRow DEF LeaseKept
  <2>4. CASE job' = job
    BY <2>2, <2>4 DEF Calm, LeaseKept
  <2> QED BY <1>2, <2>3, <2>4 DEF heartbeat
<1>3. CASE complete_job(w)
  <2> DEFINE row == [job[j] EXCEPT !.lease = NoWorker, !.live = FALSE, !.file = TRUE]
  <2>1. phase[w] = "run" /\ Fenced(w)
    BY <1>3 DEF complete_job, Fenced
  <2>2. CASE job[j].lease = w /\ Move(j, "completed", row) /\ Enter(w, "done")
    <3>1. row \in Row /\ row.lease = NoWorker
      BY <1>1, <2>1 DEF Row
    <3> HIDE DEF row
    <3>2. NoneBegins /\ stalls' = stalls /\ phase'[w] = "done"
      BY <2>1, <2>2, PhaseMoves DEF Phase
    <3> QED BY <1>1, <2>1, <2>2, <3>1, <3>2, CalmMove DEF LeaseKept
  <2>3. CASE job' = job /\ Enter(w, "cancel")
    <3>1. NoneBegins /\ stalls' = stalls
      BY <2>1, <2>3, PhaseMoves DEF Phase
    <3> QED BY <2>3, <3>1 DEF Calm, LeaseKept
  <2> QED BY <1>3, <2>2, <2>3 DEF complete_job
<1>4. CASE preflight_fail(w)
  <2> DEFINE outcome == FailOutcome(w, FALSE)
  <2>1. phase[w] = "run" /\ Fenced(w) /\ Settle(j, outcome) /\ Enter(w, "done")
    BY <1>4 DEF preflight_fail, Fenced
  <2> QED BY <2>1, FailDecision, AttemptCalm
<1>5. ASSUME NEW retryable \in BOOLEAN, NEW frees \in BOOLEAN,
             fail_or_retry(w, retryable, frees)
      PROVE  Calm
  <2> DEFINE outcome == FailOutcome(w, retryable)
             p == IF outcome = "canceled" \/ (outcome = "failed" /\ frees)
                  THEN "purge" ELSE "done"
  <2>1. phase[w] = "run" /\ Fenced(w) /\ Settle(j, outcome) /\ Enter(w, p)
    BY <1>5 DEF fail_or_retry, Fenced
  <2>2. p \in {"purge", "done"}
    OBVIOUS
  <2> HIDE DEF p
  <2> QED BY <2>1, <2>2, FailDecision, AttemptCalm
<1>6. CASE finish_stop(w)
  <2> DEFINE outcome == StopOutcome(w, phase[w])
             p == IF outcome = "canceled" THEN "purge" ELSE "done"
  <2>1. /\ phase[w] \in {"pause", "cancel"} /\ Fenced(w)
        /\ Settle(j, outcome) /\ Enter(w, p)
    BY <1>6 DEF finish_stop, Fenced
  <2>2. p \in {"purge", "done"}
    OBVIOUS
  <2>3. /\ outcome \in {"canceled", "paused", "lost"}
        /\ outcome = "lost" <=> job[j].lease # w
    BY <2>1, StopDecision
  <2> HIDE DEF p, outcome
  <2> QED BY <2>1, <2>2, <2>3, AttemptCalm
<1>7. CASE mark_purged(w)
  <2> DEFINE kept == job[j].aged /\ job[j].status # "paused"
             r == [job[j] EXCEPT !.purged = TRUE, !.aged = kept]
  <2>1. /\ job' = [job EXCEPT ![j] = r] /\ j \in Job /\ job[j] \in Row
        /\ Enter(w, "done")
    BY <1>1, <1>7 DEF mark_purged
  <2>2. r.lease = job[j].lease /\ r.live = job[j].live
    BY <2>1 DEF Row
  <2> HIDE DEF r
  <2>3. NoneBegins /\ stalls' = stalls
    BY <2>1, PhaseMoves DEF Phase
  <2> QED BY <2>1, <2>2, <2>3, CalmRow DEF LeaseKept
<1>8. CASE Return(w) \/ Crash(w)
  <2>1. Leave(w)
    BY <1>8 DEF Return, Crash
  <2>2. /\ attempt'[w] = NoJob /\ phase'[w] = "idle" /\ job' = job /\ stalls' = stalls
        /\ \A v \in Worker \ {w} : attempt'[v] = attempt[v] /\ phase'[v] = phase[v]
    BY <2>1 DEF Leave, Split
  <2>3. NoneBegins
    BY <2>2 DEF NoneBegins, Fenced
  <2> QED BY <2>2, <2>3 DEF Calm, LeaseKept
<1> QED BY <1>2, <1>3, <1>4, <1>5, <1>6, <1>7, <1>8 DEF WorkerStep

LEMMA ReconcileCalm ==
  ASSUME Split, NEW j \in Job, ReconcileStep(j)
  PROVE  Calm
<1>0. job[j] \in Row
  BY DEF Split
<1>1. NoneBegins /\ stalls' = stalls
  <2>1. attempt' = attempt /\ phase' = phase /\ stalls' = stalls
    BY DEF ReconcileStep, recover_expired_leases, redispatch_queued,
           mark_enqueued, sweep_expired, sweep_leftover, workers
  <2> QED BY <2>1, WorkersRest
<1>2. CASE recover_expired_leases(j)
  <2>1. \E outcome \in {"canceled", "paused", "failed", "retry"} :
          /\ Settle(j, outcome)
          /\ outcome = "retry" => job[j].attempts < MaxAttempts
    <3>1. CASE job[j].status = "canceling" \/ job[j].status = "pausing"
      BY <1>2, <3>1 DEF recover_expired_leases
    <3>2. CASE job[j].status = "running" /\ job[j].attempts < MaxAttempts
      BY <1>2, <3>2 DEF recover_expired_leases, Again
    <3>3. CASE job[j].status = "running" /\ ~(job[j].attempts < MaxAttempts)
      BY <1>2, <3>3 DEF recover_expired_leases, Again
    <3> QED BY <1>2, <3>1, <3>2, <3>3 DEF recover_expired_leases, LEASED
  <2> QED BY <1>1, <1>2, <2>1, SettleCalm DEF recover_expired_leases
<1>3. CASE redispatch_queued(j) \/ mark_enqueued(j)
  <2> DEFINE r == [job[j] EXCEPT !.enqueued = "fresh"]
  <2>1. job' = [job EXCEPT ![j] = r]
    BY <1>3 DEF redispatch_queued, mark_enqueued
  <2>2. r.lease = job[j].lease /\ r.live = job[j].live
    BY <1>0 DEF Row
  <2> HIDE DEF r
  <2> QED BY <1>1, <2>1, <2>2, CalmRow DEF LeaseKept
<1>4. CASE sweep_expired(j) \/ sweep_leftover(j)
  <2>1. PICK row \in Purged(job[j]) :
          Move(j, "expired", row) \/ job' = [job EXCEPT ![j] = row]
    BY <1>4 DEF sweep_expired, sweep_leftover
  <2> QED BY <1>0, <1>1, <2>1, PurgedRow, CalmMove, CalmRow DEF LeaseKept
<1> QED BY <1>2, <1>3, <1>4 DEF ReconcileStep

LEMMA ClockCalm ==
  ASSUME Split, NEW j \in Job, ClockStep(j)
  PROVE  Calm \/ \E k \in Job : Stalled(k)
<1>0. job[j] \in Row /\ attempt' = attempt /\ phase' = phase
  BY DEF Split, ClockStep, LeaseRunsOut, BackoffElapses, EnqueuedGoesStale, Ages, workers
<1>1. CASE LeaseRunsOut(j)
  <2> DEFINE r == [job[j] EXCEPT !.live = FALSE]
  <2>1. job' = [job EXCEPT ![j] = r]
    BY <1>1 DEF LeaseRunsOut
  <2>2. r.lease = job[j].lease /\ r.live = FALSE
    BY <1>0 DEF Row
  <2> HIDE DEF r
  <2>3. CASE HolderAlive(j)
    <3>1. stalls' = stalls + 1
      BY <1>1, <2>3 DEF LeaseRunsOut
    <3>2. job'[j] = r /\ \A k \in Job \ {j} : job'[k] = job[k]
      BY <2>1 DEF Split
    <3> QED BY <1>0, <2>2, <2>3, <3>1, <3>2 DEF Stalled
  <2>4. CASE ~HolderAlive(j)
    <3>1. stalls' = stalls
      BY <1>1, <2>4 DEF LeaseRunsOut
    <3> QED BY <1>0, <2>1, <2>2, <2>4, <3>1, WorkersRest, CalmRow DEF LeaseKept
  <2> QED BY <2>3, <2>4
<1>2. CASE BackoffElapses(j) \/ EnqueuedGoesStale(j) \/ Ages(j)
  <2>1. \E r : /\ job' = [job EXCEPT ![j] = r]
               /\ r.lease = job[j].lease /\ r.live = job[j].live
    <3>1. CASE BackoffElapses(j)
      <4> DEFINE r == [job[j] EXCEPT !.due = TRUE]
      <4>1. job' = [job EXCEPT ![j] = r]
        BY <3>1 DEF BackoffElapses
      <4>2. r.lease = job[j].lease /\ r.live = job[j].live
        BY <1>0 DEF Row
      <4> HIDE DEF r
      <4> QED BY <4>1, <4>2
    <3>2. CASE EnqueuedGoesStale(j)
      <4> DEFINE r == [job[j] EXCEPT !.enqueued = "stale"]
      <4>1. job' = [job EXCEPT ![j] = r]
        BY <3>2 DEF EnqueuedGoesStale
      <4>2. r.lease = job[j].lease /\ r.live = job[j].live
        BY <1>0 DEF Row
      <4> HIDE DEF r
      <4> QED BY <4>1, <4>2
    <3>3. CASE Ages(j)
      <4> DEFINE r == [job[j] EXCEPT !.aged = TRUE]
      <4>1. job' = [job EXCEPT ![j] = r]
        BY <3>3 DEF Ages
      <4>2. r.lease = job[j].lease /\ r.live = job[j].live
        BY <1>0 DEF Row
      <4> HIDE DEF r
      <4> QED BY <4>1, <4>2
    <3> QED BY <1>2, <3>1, <3>2, <3>3
  <2>2. stalls' = stalls
    BY <1>2 DEF BackoffElapses, EnqueuedGoesStale, Ages, workers
  <2> QED BY <1>0, <2>1, <2>2, WorkersRest, CalmRow DEF LeaseKept
<1> QED BY <1>1, <1>2 DEF ClockStep

\* Every step leaves the leases in order, or is a claim, or a stall.
LEMMA LeaseSteps ==
  ASSUME Split, [Next]_vars
  PROVE  \/ Calm
         \/ \E j \in Job : Stalled(j)
         \/ \E w \in Worker, j \in Job : Claimed(w, j)
<1>1. CASE Next
  <2>1. ASSUME NEW w \in Worker, NEW j \in Job, NEW lowDisk \in BOOLEAN,
               ClaimDeferred(w, j, lowDisk)
        PROVE  Calm
    <3> DEFINE r == [job[j] EXCEPT !.enqueued = "null", !.due = FALSE]
    <3>1. /\ job' = [job EXCEPT ![j] = r] /\ job[j] \in Row
          /\ attempt' = attempt /\ phase' = phase /\ stalls' = stalls
      BY <2>1 DEF ClaimDeferred, workers, Split
    <3>2. r.lease = job[j].lease /\ r.live = job[j].live
      BY <3>1 DEF Row
    <3> HIDE DEF r
    <3> QED BY <3>1, <3>2, WorkersRest, CalmRow DEF LeaseKept
  <2>2. ASSUME NEW j \in Job, UserStep(j) \/ ReconcileStep(j) PROVE Calm
    BY <2>2, UserCalm, ReconcileCalm
  <2>3. ASSUME NEW w \in Worker, WorkerStep(w) PROVE Calm
    BY <2>3, WorkerCalm
  <2> QED BY <1>1, <2>1, <2>2, <2>3, ClockCalm DEF Next, ClaimStep
<1>2. CASE UNCHANGED vars
  BY <1>2, WorkersRest DEF vars, Calm, LeaseKept
<1> QED BY <1>1, <1>2

(***************************************************************************)
(* The slots of the pool.                                                  *)
(***************************************************************************)

\* The leases a heartbeat may still revive, and with them the live ones: the
\* jobs whose worker goes on as if it had a slot.
Overdue == {j \in Job : ~job[j].live /\ HolderAlive(j)}
Occupied == LiveLeases \cup Overdue

\* ConcurrencyPaidByStalls, with the leases that may come back counted in.
SlotsInv ==
  /\ Cardinality(Overdue) <= stalls
  /\ Cardinality(Occupied) <= MaxGlobal + stalls

LEMMA SlotSets ==
  ASSUME Split
  PROVE  /\ LiveLeases = {j \in Job : job[j].live}
         /\ Occupied = {j \in Job : job[j].live \/ HolderAlive(j)}
         /\ IsFiniteSet(LiveLeases) /\ IsFiniteSet(Overdue) /\ IsFiniteSet(Occupied)
         /\ stalls \in Nat
<1>1. LiveLeases = {j \in Job : job[j].live}
  BY DEF Split, SoundRow, Fits, LiveLeases
<1>2. Occupied = {j \in Job : job[j].live \/ HolderAlive(j)}
  BY <1>1 DEF Occupied, Overdue
<1>3. LiveLeases \subseteq Job /\ Overdue \subseteq Job /\ Occupied \subseteq Job
  BY <1>1, <1>2 DEF Overdue
<1> QED BY <1>1, <1>2, <1>3, FS_Subset DEF Split

\* The same of the next state.
LEMMA SlotSetsNext ==
  ASSUME Split'
  PROVE  /\ Occupied' = {j \in Job : job'[j].live \/ HolderAlive(j)'}
         /\ Overdue' = {j \in Job : ~job'[j].live /\ HolderAlive(j)'}
<1>1. LiveLeases' = {j \in Job : job'[j].live}
  BY DEF Split, SoundRow, Fits, LiveLeases
<1> QED BY <1>1 DEF Occupied, Overdue

\* A calm step frees slots or leaves them alone.
LEMMA CalmSlots ==
  ASSUME Split, Split', Calm
  PROVE  Occupied' \subseteq Occupied /\ Overdue' \subseteq Overdue
<1>1. ASSUME NEW j \in Job, HolderAlive(j)' PROVE HolderAlive(j) /\ job'[j].lease = job[j].lease
  <2>1. PICK w \in Worker : job'[j].lease = w /\ attempt'[w] = j
    BY <1>1 DEF HolderAlive
  <2>2. attempt[w] = j
    BY <2>1 DEF Calm, NoneBegins
  <2>3. job'[j].lease = job[j].lease
    BY <2>1 DEF Calm, LeaseKept
  <2> QED BY <2>1, <2>2, <2>3 DEF HolderAlive
<1>2. ASSUME NEW j \in Job, job'[j].live PROVE job[j].live \/ HolderAlive(j)
  <2>1. job'[j].lease # NoWorker
    BY <1>2 DEF Split, SoundRow, Fits
  <2> QED BY <1>2, <2>1 DEF Calm, LeaseKept
<1>3. ASSUME NEW j \in Job, ~job'[j].live, HolderAlive(j)' PROVE ~job[j].live /\ HolderAlive(j)
  <2>1. job'[j].lease # NoWorker /\ HolderAlive(j)
    BY <1>1, <1>3 DEF HolderAlive
  <2> QED BY <1>3, <2>1 DEF Calm, LeaseKept
<1> QED BY <1>1, <1>2, <1>3, SlotSets, SlotSetsNext DEF Overdue

\* A stall takes no slot, and makes one job more overdue.
LEMMA StallSlots ==
  ASSUME Split, Split', NEW j \in Job, Stalled(j)
  PROVE  Occupied' \subseteq Occupied /\ Overdue' \subseteq Overdue \cup {j}
<1>1. \A k \in Job : HolderAlive(k)' <=> HolderAlive(k)
  BY DEF Stalled, HolderAlive
<1>2. \A k \in Job \ {j} : job'[k] = job[k]
  BY DEF Stalled
<1>3. HolderAlive(j) /\ ~job'[j].live
  BY DEF Stalled
<1> QED BY <1>1, <1>2, <1>3, SlotSets, SlotSetsNext DEF Overdue

\* What a granted claim writes.
LEMMA ClaimedRow ==
  ASSUME Split, NEW w \in Worker, NEW j \in Job, Claimed(w, j)
  PROVE  /\ job'[j].status = "running" /\ job'[j].lease = w /\ job'[j].live
         /\ ~job'[j].aged /\ job'[j].deleted = job[j].deleted
         /\ job'[j].purged = job[j].purged
         /\ \A k \in Job \ {j} : job'[k] = job[k]
<1> DEFINE sent == IF job[j].enqueued = "null" THEN "fresh" ELSE job[j].enqueued
           row == [job[j] EXCEPT !.attempts = job[j].attempts + 1, !.lease = w,
                                 !.live = TRUE, !.enqueued = sent]
           r == [row EXCEPT !.status = "running", !.aged = FALSE]
<1>1. job' = [job EXCEPT ![j] = r] /\ job[j] \in Row
  BY DEF Claimed, Move, Split
<1> HIDE DEF sent
<1>2. /\ r.status = "running" /\ r.lease = w /\ r.live = TRUE /\ r.aged = FALSE
      /\ r.deleted = job[j].deleted /\ r.purged = job[j].purged
  BY <1>1 DEF Row
<1> HIDE DEF r
<1> QED BY <1>1, <1>2 DEF Split

\* A claim takes one slot next to the live leases, the overdue ones apart.
LEMMA ClaimSlots ==
  ASSUME Split, Split', NEW w \in Worker, NEW j \in Job, Claimed(w, j)
  PROVE  /\ Overdue' \subseteq Overdue
         /\ Occupied' \subseteq (LiveLeases \cup Overdue) \cup {j}
<1>1. \A k \in Job \ {j} : job'[k] = job[k]
  BY DEF Claimed, Move, Split
<1>2. /\ \A v \in Worker \ {w} : attempt'[v] = attempt[v]
      /\ attempt'[w] = j
  BY DEF Claimed, Split
<1>3. \A k \in Job \ {j} : HolderAlive(k)' => HolderAlive(k)
  BY <1>1, <1>2 DEF HolderAlive
<1>4. job'[j].live
  BY ClaimedRow
<1> QED BY <1>1, <1>3, <1>4, SlotSets, SlotSetsNext DEF Overdue

\* More jobs hold a live lease than the limit allows only if as many leases
\* ran out under a live worker: a claim counts the live leases and leaves at
\* least one of the limit's slots to itself, and what a heartbeat may revive
\* behind its back was paid for by a stall.
THEOREM StallsPay == Spec => []ConcurrencyPaidByStalls
<1>1. Init => SlotsInv
  <2> SUFFICES ASSUME Init PROVE SlotsInv
    OBVIOUS
  <2>1. Split
    BY InitSplit
  <2>2. Overdue = {} /\ Occupied = {} /\ stalls = 0
    <3>1. \A j \in Job : ~job[j].live /\ ~HolderAlive(j)
      BY DEF Init, NoRow, HolderAlive
    <3> QED BY <2>1, <3>1, SlotSets DEF Overdue, Init
  <2> QED BY <2>2, FS_EmptySet DEF SlotsInv
<1>2. IInv /\ SlotsInv /\ [Next]_vars => SlotsInv'
  <2> SUFFICES ASSUME Split, SlotsInv, [Next]_vars PROVE SlotsInv'
    BY SplitIInv
  <2>1. Split'
    BY NextSplit
  <2>2. /\ IsFiniteSet(Overdue) /\ IsFiniteSet(Occupied) /\ IsFiniteSet(LiveLeases)
        /\ Cardinality(Overdue) \in Nat /\ Cardinality(Occupied) \in Nat
        /\ Cardinality(LiveLeases) \in Nat /\ stalls \in Nat
    BY SlotSets, FS_CardinalityType
  <2>3. ASSUME Occupied' \subseteq Occupied
        PROVE  Cardinality(Occupied') \in Nat /\ Cardinality(Occupied') <= MaxGlobal + stalls
    <3>1. IsFiniteSet(Occupied') /\ Cardinality(Occupied') <= Cardinality(Occupied)
      BY <2>2, <2>3, FS_Subset
    <3>2. Cardinality(Occupied') \in Nat
      BY <3>1, FS_CardinalityType
    <3> QED BY <2>2, <3>1, <3>2 DEF SlotsInv
  <2>4. ASSUME Overdue' \subseteq Overdue
        PROVE  Cardinality(Overdue') \in Nat /\ Cardinality(Overdue') <= stalls
    <3>1. IsFiniteSet(Overdue') /\ Cardinality(Overdue') <= Cardinality(Overdue)
      BY <2>2, <2>4, FS_Subset
    <3>2. Cardinality(Overdue') \in Nat
      BY <3>1, FS_CardinalityType
    <3> QED BY <2>2, <3>1, <3>2 DEF SlotsInv
  <2>5. CASE Calm
    <3>1. stalls' = stalls
      BY <2>5 DEF Calm
    <3> QED BY <2>1, <2>3, <2>4, <2>5, <3>1, CalmSlots DEF SlotsInv
  <2>6. ASSUME NEW j \in Job, Stalled(j) PROVE SlotsInv'
    <3>1. /\ stalls' = stalls + 1 /\ Occupied' \subseteq Occupied
          /\ Overdue' \subseteq Overdue \cup {j}
      BY <2>1, <2>6, StallSlots DEF Stalled
    <3>2. Cardinality(Overdue') \in Nat /\ Cardinality(Overdue') <= Cardinality(Overdue) + 1
      BY <2>2, <3>1, JobsFinite, FS_CardinalityType
    <3> QED BY <2>2, <2>3, <3>1, <3>2 DEF SlotsInv
  <2>7. ASSUME NEW w \in Worker, NEW j \in Job, Claimed(w, j) PROVE SlotsInv'
    <3>1. /\ stalls' = stalls /\ Cardinality(LiveLeases) < MaxGlobal
      BY <2>7 DEF Claimed, SlotFree
    <3>2. /\ Overdue' \subseteq Overdue
          /\ Occupied' \subseteq (LiveLeases \cup Overdue) \cup {j}
      BY <2>1, <2>7, ClaimSlots
    <3>3. /\ IsFiniteSet(LiveLeases \cup Overdue)
          /\ Cardinality(LiveLeases \cup Overdue)
               <= Cardinality(LiveLeases) + Cardinality(Overdue)
      <4>1. /\ Cardinality(LiveLeases \cup Overdue)
                 = Cardinality(LiveLeases) + Cardinality(Overdue)
                     - Cardinality(LiveLeases \cap Overdue)
            /\ IsFiniteSet(LiveLeases \cap Overdue) /\ IsFiniteSet(LiveLeases \cup Overdue)
        BY <2>2, FS_Union, FS_Intersection
      <4>2. Cardinality(LiveLeases \cap Overdue) \in Nat
        BY <4>1, FS_CardinalityType
      <4> QED BY <2>2, <4>1, <4>2
    <3>4. /\ Cardinality(Occupied') \in Nat /\ Cardinality(LiveLeases \cup Overdue) \in Nat
          /\ Cardinality(Occupied') <= Cardinality(LiveLeases \cup Overdue) + 1
      BY <3>2, <3>3, JobsFinite
    <3> QED BY <2>2, <2>4, <3>1, <3>2, <3>3, <3>4 DEF SlotsInv
  <2> QED BY <2>5, <2>6, <2>7, LeaseSteps
<1>3. IInv /\ SlotsInv => ConcurrencyPaidByStalls
  <2> SUFFICES ASSUME Split, SlotsInv PROVE ConcurrencyPaidByStalls
    BY SplitIInv
  <2>1. LiveLeases \subseteq Occupied /\ IsFiniteSet(Occupied) /\ stalls \in Nat
    BY SlotSets DEF Occupied
  <2>2. /\ Cardinality(LiveLeases) <= Cardinality(Occupied)
        /\ Cardinality(LiveLeases) \in Nat /\ Cardinality(Occupied) \in Nat
    BY <2>1, FS_Subset, FS_CardinalityType
  <2> QED BY <2>1, <2>2 DEF SlotsInv, ConcurrencyPaidByStalls
<1> QED BY <1>1, <1>2, <1>3, Invariance, PTL DEF Spec
=============================================================================
