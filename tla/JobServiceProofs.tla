-------------------------- MODULE JobServiceProofs --------------------------
(***************************************************************************)
(* Proofs about JobService, for every number of jobs, users and workers    *)
(* and every value of the limits.                                          *)
(*                                                                         *)
(* Almost every transaction changes one row, and at most the worker that   *)
(* runs it.  So IInv is split into what it says of a row (SoundRow) and    *)
(* of a worker tied to the row of its job (Tie); RowStep and AttemptStep   *)
(* say once and for all which one-row changes preserve it, and the proof   *)
(* for an action only looks at the row the action writes.                  *)
(***************************************************************************)
EXTENDS JobService, TLAPS

USE JobsAssumption, LimitsAssumption

(***************************************************************************)
(* The invariant, row by row and worker by worker.                         *)
(***************************************************************************)

\* What a row says of lease, attempts and removal fits the status dst.
Fits(row, dst) ==
  /\ (dst \in LEASED) <=> (row.lease # NoWorker)
  /\ row.live => dst \in LEASED
  /\ dst \in {"queued", "paused"} => row.attempts < MaxAttempts
  /\ dst \in LEASED => row.attempts > 0
  /\ row.deleted => dst \in TERMINAL

SoundRow(row) == row \in Row /\ Fits(row, row.status)

\* What a worker w in phase p may find on the row r of its job.
Tie(w, p, r) ==
  /\ p = "pause" /\ r.lease = w => r.status \in {"pausing", "canceling"}
  /\ p = "cancel" /\ r.lease = w => r.status = "canceling"
  /\ p \in {"purge", "done"} => r.lease # w

SoundWorker(w) ==
  /\ (phase[w] = "idle") <=> (attempt[w] = NoJob)
  /\ attempt[w] \in Job => Tie(w, phase[w], job[attempt[w]])

Split ==
  /\ job \in [Job -> Row]
  /\ attempt \in [Worker -> Job \cup {NoJob}]
  /\ phase \in [Worker -> Phase]
  /\ stalls \in 0..MaxStalls
  /\ \A j \in Job : SoundRow(job[j])
  /\ \A w \in Worker : SoundWorker(w)

\* What a step may do to the status of one job, and to all of them.
Legal(src, dst) ==
  \/ dst = src
  \/ src = "absent" /\ dst = "queued"
  \/ src \in JobStatus /\ CanTransition(src, dst)

OneMove ==
  \/ job' = job
  \/ \E j \in Job : /\ \A k \in Job \ {j} : job'[k] = job[k]
                    /\ Legal(job[j].status, job'[j].status)

\* IInv is the conjunction of its row parts and its worker parts.
LEMMA SplitIInv == Split <=> IInv
<1>1. Split => IInv
  BY DEF Split, IInv, TypeOK, LeaseHeld, BudgetBounded, AttemptCounted,
         StopStillWanted, SettledLetsGo, DeletedIsTerminal, SoundRow, Fits, SoundWorker, Tie
<1>2. IInv => Split
  BY DEF Split, IInv, TypeOK, LeaseHeld, BudgetBounded, AttemptCounted,
         StopStillWanted, SettledLetsGo, DeletedIsTerminal, SoundRow, Fits, SoundWorker, Tie
<1> QED BY <1>1, <1>2

\* The rows other than j keep their soundness when j's row becomes sound.
LEMMA OneRow ==
  ASSUME Split, NEW j \in Job, NEW r, SoundRow(r), job' = [job EXCEPT ![j] = r]
  PROVE  /\ job' \in [Job -> Row]
         /\ job'[j] = r
         /\ \A k \in Job \ {j} : job'[k] = job[k]
         /\ \A k \in Job : SoundRow(job'[k])
BY DEF Split, SoundRow

\* A transaction that is not a worker's: it takes the lease away, or leaves
\* it where it is and moves the status only towards "canceling".
LEMMA RowStep ==
  ASSUME Split, NEW j \in Job, NEW r, SoundRow(r),
         job' = [job EXCEPT ![j] = r],
         attempt' = attempt, phase' = phase, stalls' \in 0..MaxStalls,
         \/ r.lease = NoWorker
         \/ /\ r.lease = job[j].lease
            /\ \/ r.status \in {job[j].status, "canceling"}
               \/ job[j].status = "running",
         Legal(job[j].status, r.status)
  PROVE  Split' /\ OneMove
<1>1. /\ job' \in [Job -> Row] /\ job'[j] = r
      /\ \A k \in Job \ {j} : job'[k] = job[k]
      /\ \A k \in Job : SoundRow(job'[k])
  BY OneRow
<1>2. ASSUME NEW w \in Worker PROVE SoundWorker(w)'
  <2>1. SoundWorker(w) BY DEF Split
  <2>2. CASE attempt[w] = j
    BY <1>1, <2>1, <2>2 DEF SoundWorker, Tie
  <2>3. CASE attempt[w] # j
    BY <1>1, <2>1, <2>3 DEF SoundWorker, Tie
  <2> QED BY <2>2, <2>3
<1> QED BY <1>1, <1>2 DEF Split, OneMove

\* move() of services.jobs, called outside a worker.
Moved(row, dst) == [row EXCEPT !.status = dst, !.aged = FALSE]

LEMMA MovedRow ==
  ASSUME NEW row \in Row, NEW dst \in JobStatus, Fits(row, dst)
  PROVE  /\ SoundRow(Moved(row, dst))
         /\ Moved(row, dst).status = dst
         /\ Moved(row, dst).lease = row.lease
<1>1. Moved(row, dst) \in Row
  BY DEF Moved, Row
<1>2. /\ Moved(row, dst).status = dst
      /\ Moved(row, dst).attempts = row.attempts
      /\ Moved(row, dst).lease = row.lease
      /\ Moved(row, dst).live = row.live
      /\ Moved(row, dst).deleted = row.deleted
  BY DEF Moved, Row
<1> QED BY <1>1, <1>2 DEF SoundRow, Fits

LEMMA MoveStep ==
  ASSUME Split, NEW j \in Job, NEW row \in Row, NEW dst \in JobStatus,
         Move(j, dst, row), Fits(row, dst),
         attempt' = attempt, phase' = phase, stalls' \in 0..MaxStalls,
         \/ row.lease = NoWorker
         \/ /\ row.lease = job[j].lease
            /\ dst = "canceling" \/ job[j].status = "running",
         Legal(job[j].status, dst)
  PROVE  Split' /\ OneMove
<1>1. job' = [job EXCEPT ![j] = Moved(row, dst)]
  BY DEF Move, Moved
<1> QED BY <1>1, MovedRow, RowStep

\* A step of the attempt of w, from phase[w] to p, that writes r on its job:
\* it gives the lease back, or leaves lease and status as they are.
LEMMA AttemptStep ==
  ASSUME Split, NEW w \in Worker, phase[w] # "idle",
         NEW p \in Phase \ {"idle"}, NEW r, SoundRow(r),
         job' = [job EXCEPT ![attempt[w]] = r],
         phase' = [phase EXCEPT ![w] = p], attempt' = attempt, stalls' = stalls,
         \/ r.lease = NoWorker
         \/ r.lease = job[attempt[w]].lease /\ r.status = job[attempt[w]].status,
         Tie(w, p, r),
         Legal(job[attempt[w]].status, r.status)
  PROVE  Split' /\ OneMove
<1> DEFINE j == attempt[w]
<1>1. j \in Job
  BY DEF Split, SoundWorker
<1>2. /\ job' \in [Job -> Row] /\ job'[j] = r
      /\ \A k \in Job \ {j} : job'[k] = job[k]
      /\ \A k \in Job : SoundRow(job'[k])
  BY <1>1, OneRow
<1>3. phase' \in [Worker -> Phase] /\ phase'[w] = p
      /\ \A v \in Worker \ {w} : phase'[v] = phase[v]
  BY DEF Split
<1>4. ASSUME NEW v \in Worker PROVE SoundWorker(v)'
  <2>1. SoundWorker(v) BY DEF Split
  <2>2. CASE v = w
    BY <1>1, <1>2, <1>3, <2>2 DEF SoundWorker
  <2>3. CASE v # w /\ attempt[v] = j
    BY <1>2, <1>3, <2>1, <2>3 DEF SoundWorker, Tie
  <2>4. CASE v # w /\ attempt[v] # j
    BY <1>2, <1>3, <2>1, <2>4 DEF SoundWorker, Tie
  <2> QED BY <2>2, <2>3, <2>4
<1> QED BY <1>1, <1>2, <1>3, <1>4 DEF Split, OneMove

(***************************************************************************)
(* The initial state, and the user's operations.                           *)
(***************************************************************************)

\* The moves of TRANSITIONS that some transaction takes.
LEMMA LegalMoves ==
  /\ Legal("absent", "queued")
  /\ \A dst \in {"running", "paused", "canceled"} : Legal("queued", dst)
  /\ \A dst \in {"completed", "failed", "queued", "pausing", "canceling"} :
       Legal("running", dst)
  /\ \A dst \in {"paused", "canceling", "completed", "failed", "queued"} :
       Legal("pausing", dst)
  /\ \A dst \in {"queued", "canceled", "expired"} : Legal("paused", dst)
  /\ Legal("canceling", "canceled")
  /\ \A src \in RETRYABLE : Legal(src, "queued")
  /\ Legal("completed", "expired")
BY DEF Legal, JobStatus, CanTransition, TRANSITIONS, RETRYABLE

LEMMA NewRow == NoRow \in Row
BY DEF NoRow, Row

LEMMA InitSplit == Init => Split
<1> SUFFICES ASSUME Init PROVE Split
  OBVIOUS
<1>1. SoundRow(NoRow)
  BY NewRow DEF NoRow, SoundRow, Fits, LEASED
<1>2. /\ job \in [Job -> Row] /\ \A j \in Job : SoundRow(job[j])
      /\ stalls \in 0..MaxStalls
  BY <1>1, NewRow DEF Init
<1>3. /\ attempt \in [Worker -> Job \cup {NoJob}] /\ phase \in [Worker -> Phase]
      /\ \A w \in Worker : attempt[w] = NoJob /\ phase[w] = "idle"
  BY DEF Init, Phase
<1> QED BY <1>2, <1>3 DEF Split, SoundWorker

\* create_job, retry_job and resume_job write a queued row without a lease
\* that has an attempt left; the others stop a row or ask its worker to stop.
LEMMA UserSplit ==
  ASSUME Split, NEW j \in Job, UserStep(j)
  PROVE  Split' /\ OneMove
<1>1. job[j] \in Row /\ Fits(job[j], job[j].status)
  BY DEF Split, SoundRow
<1>2. attempt' = attempt /\ phase' = phase /\ stalls' \in 0..MaxStalls
  BY DEF Split, UserStep, create_job, pause_job, resume_job, cancel_job, retry_job,
         delete_job, workers
<1>3. CASE create_job(j)
  <2> DEFINE row == [NoRow EXCEPT !.due = TRUE]
  <2>1. Move(j, "queued", row) BY <1>3 DEF create_job
  <2>2. row \in Row
    BY NewRow DEF Row
  <2>3. Fits(row, "queued") /\ row.lease = NoWorker
    BY DEF NoRow, Fits, LEASED
  <2> HIDE DEF row
  <2>4. Legal(job[j].status, "queued")
    BY <1>3, LegalMoves DEF create_job
  <2> QED BY <1>2, <2>1, <2>2, <2>3, <2>4, MoveStep DEF JobStatus
<1>4. CASE pause_job(j)
  <2>1. CASE job[j].status = "queued"
    <3> DEFINE row == [job[j] EXCEPT !.enqueued = "null"]
    <3>1. Move(j, "paused", row) BY <1>4, <2>1 DEF pause_job
    <3>2. row \in Row /\ Fits(row, "paused") /\ row.lease = NoWorker
      BY <1>1, <1>4, <2>1 DEF pause_job, Visible, Row, Fits, LEASED
    <3> HIDE DEF row
    <3>3. Legal(job[j].status, "paused")
      BY <2>1, LegalMoves
    <3> QED BY <1>2, <3>1, <3>2, <3>3, MoveStep DEF JobStatus
  <2>2. CASE job[j].status = "running"
    <3>1. Move(j, "pausing", job[j]) BY <1>4, <2>2 DEF pause_job
    <3>2. Fits(job[j], "pausing") BY <1>1, <2>2 DEF Fits, LEASED, TERMINAL
    <3>3. Legal(job[j].status, "pausing")
      BY <2>2, LegalMoves
    <3> QED BY <1>1, <1>2, <2>2, <3>1, <3>2, <3>3, MoveStep DEF JobStatus
  <2> QED BY <1>4, <2>1, <2>2 DEF pause_job
<1>5. CASE resume_job(j)
  <2> DEFINE row == [job[j] EXCEPT !.due = TRUE, !.enqueued = "null"]
  <2>1. Move(j, "queued", row) BY <1>5 DEF resume_job
  <2>2. row \in Row /\ Fits(row, "queued") /\ row.lease = NoWorker
    BY <1>1, <1>5 DEF resume_job, Visible, Row, Fits, LEASED
  <2> HIDE DEF row
  <2>3. Legal(job[j].status, "queued")
    BY <1>5, LegalMoves DEF resume_job
  <2> QED BY <1>2, <2>1, <2>2, <2>3, MoveStep DEF JobStatus
<1>6. CASE cancel_job(j)
  <2>1. CASE job[j].status \in {"queued", "paused"}
    <3> DEFINE row == [job[j] EXCEPT !.enqueued = "null"]
    <3>1. Move(j, "canceled", row) BY <1>6, <2>1 DEF cancel_job
    <3>2. row \in Row /\ Fits(row, "canceled") /\ row.lease = NoWorker
      BY <1>1, <2>1 DEF Row, Fits, LEASED, TERMINAL
    <3> HIDE DEF row
    <3>3. Legal(job[j].status, "canceled")
      BY <2>1, LegalMoves
    <3> QED BY <1>2, <3>1, <3>2, <3>3, MoveStep DEF JobStatus
  <2>2. CASE job[j].status \in {"running", "pausing"}
    <3>1. Move(j, "canceling", job[j]) BY <1>6, <2>2 DEF cancel_job
    <3>2. Fits(job[j], "canceling") BY <1>1, <2>2 DEF Fits, LEASED, TERMINAL
    <3>3. Legal(job[j].status, "canceling")
      BY <2>2, LegalMoves
    <3> QED BY <1>1, <1>2, <3>1, <3>2, <3>3, MoveStep DEF JobStatus
  <2> QED BY <1>6, <2>1, <2>2 DEF cancel_job
<1>7. CASE retry_job(j)
  <2> DEFINE kept == IF job[j].status = "failed" THEN FALSE ELSE job[j].purged
             row == [job[j] EXCEPT !.attempts = 0, !.due = TRUE, !.enqueued = "null",
                        !.file = FALSE, !.purged = kept]
  <2>1. Move(j, "queued", row) BY <1>7 DEF retry_job
  <2>2. kept \in BOOLEAN
    BY <1>1 DEF Row
  <2> HIDE DEF kept
  <2>3. row \in Row
    <3>1. 0 \in 0..MaxAttempts
      OBVIOUS
    <3> QED BY <1>1, <2>2, <3>1 DEF Row
  <2>4. job[j].lease = NoWorker /\ ~job[j].live /\ ~job[j].deleted
    BY <1>1, <1>7 DEF retry_job, Visible, Row, Fits, LEASED, RETRYABLE
  <2>5. Fits(row, "queued") /\ row.lease = NoWorker
    BY <1>1, <2>4 DEF Row, Fits, LEASED
  <2> HIDE DEF row
  <2>6. Legal(job[j].status, "queued")
    BY <1>7, LegalMoves DEF retry_job
  <2> QED BY <1>2, <2>1, <2>3, <2>5, <2>6, MoveStep DEF JobStatus
<1>8. CASE delete_job(j)
  <2> DEFINE row == [job[j] EXCEPT !.deleted = TRUE, !.aged = TRUE]
  <2>1. job' = [job EXCEPT ![j] = row] BY <1>8 DEF delete_job
  <2>2. SoundRow(row) /\ row.lease = NoWorker /\ Legal(job[j].status, row.status)
    BY <1>1, <1>8 DEF delete_job, SoundRow, Row, Fits, LEASED, DELETABLE, TERMINAL, Legal
  <2> HIDE DEF row
  <2> QED BY <1>2, <2>1, <2>2, RowStep
<1> QED BY <1>3, <1>4, <1>5, <1>6, <1>7, <1>8 DEF UserStep

(***************************************************************************)
(* The attempts of the workers.                                            *)
(***************************************************************************)

\* The status an outcome stands for.
Into == [canceled |-> "canceled", paused |-> "paused", failed |-> "failed",
         retry |-> "queued"]

\* Settling a leased job writes a sound row without a lease.
LEMMA SettleRow ==
  ASSUME Split, NEW j \in Job, job[j].status \in LEASED,
         NEW outcome \in {"canceled", "paused", "failed", "retry"},
         outcome = "retry" => job[j].attempts < MaxAttempts,
         Settle(j, outcome)
  PROVE  \E row \in Row, dst \in JobStatus :
           /\ dst = Into[outcome]
           /\ Fits(row, dst) /\ row.lease = NoWorker /\ Move(j, dst, row)
<1> DEFINE gone == [job[j] EXCEPT !.lease = NoWorker, !.live = FALSE]
<1>1. job[j] \in Row /\ Fits(job[j], job[j].status)
  BY DEF Split, SoundRow
<1>2. gone \in Row
  BY <1>1 DEF Row
<1>3. /\ gone.lease = NoWorker /\ gone.live = FALSE
      /\ gone.attempts = job[j].attempts /\ gone.attempts \in 1..MaxAttempts
      /\ gone.deleted = FALSE
  BY <1>1 DEF Row, Fits, LEASED, TERMINAL
<1> DEFINE spent == IF gone.attempts > 0 THEN gone.attempts - 1 ELSE 0
<1>4. spent \in 0..MaxAttempts /\ spent < MaxAttempts
  BY <1>3
<1> DEFINE refunded == [gone EXCEPT !.attempts = spent]
           again == [gone EXCEPT !.due = FALSE, !.enqueued = "null"]
<1>5. Settle(j, outcome) =>
        \/ outcome = "canceled" /\ Move(j, "canceled", gone)
        \/ outcome = "paused" /\ Move(j, "paused", refunded)
        \/ outcome = "failed" /\ Move(j, "failed", gone)
        \/ outcome = "retry" /\ Move(j, "queued", again)
  BY DEF Settle
<1> HIDE DEF gone, spent
<1>6. refunded \in Row /\ again \in Row
  BY <1>2, <1>4 DEF Row
<1>7. /\ Fits(gone, "canceled") /\ Fits(gone, "failed")
      /\ Fits(refunded, "paused")
      /\ outcome = "retry" => Fits(again, "queued")
      /\ refunded.lease = NoWorker /\ again.lease = NoWorker
  BY <1>2, <1>3, <1>4 DEF Fits, LEASED, Row
<1> HIDE DEF refunded, again
<1> QED BY <1>2, <1>3, <1>5, <1>6, <1>7 DEF JobStatus, Into

\* An attempt ends with the outcome its transaction decided on, and finds
\* it has lost the job exactly when the row has another holder.
LEMMA AttemptSettles ==
  ASSUME Split, NEW w \in Worker, phase[w] # "idle",
         NEW outcome \in {"canceled", "paused", "failed", "retry", "lost"},
         outcome = "lost" <=> job[attempt[w]].lease # w,
         outcome # "lost" => Legal(job[attempt[w]].status, Into[outcome]),
         outcome = "retry" => job[attempt[w]].attempts < MaxAttempts,
         Settle(attempt[w], outcome),
         NEW p \in {"purge", "done"}, Enter(w, p)
  PROVE  Split' /\ OneMove
<1> DEFINE j == attempt[w]
<1>1. j \in Job /\ SoundRow(job[j]) /\ job \in [Job -> Row]
  BY DEF Split, SoundWorker
<1>2. /\ p \in Phase \ {"idle"} /\ phase' = [phase EXCEPT ![w] = p]
      /\ attempt' = attempt /\ stalls' = stalls
  BY DEF Phase, Enter
<1>3. CASE outcome = "lost"
  <2>1. job' = [job EXCEPT ![j] = job[j]]
    BY <1>1, <1>3 DEF Settle
  <2>2. Tie(w, p, job[j])
    BY <1>3 DEF Tie
  <2> QED BY <1>1, <1>2, <2>1, <2>2, AttemptStep DEF Legal
<1>4. CASE outcome # "lost"
  <2>1. job[j].status \in LEASED
    BY <1>1, <1>4 DEF SoundRow, Fits
  <2>2. PICK row \in Row, dst \in JobStatus :
          /\ dst = Into[outcome]
          /\ Fits(row, dst) /\ row.lease = NoWorker /\ Move(j, dst, row)
    BY <1>1, <1>4, <2>1, SettleRow
  <2>3. job' = [job EXCEPT ![j] = Moved(row, dst)]
    BY <2>2 DEF Move, Moved
  <2>4. /\ SoundRow(Moved(row, dst)) /\ Moved(row, dst).lease = NoWorker
        /\ Legal(job[j].status, Moved(row, dst).status)
    BY <1>4, <2>2, MovedRow
  <2>5. Tie(w, p, Moved(row, dst))
    BY <2>4 DEF Tie
  <2> QED BY <1>2, <2>3, <2>4, <2>5, AttemptStep
<1> QED BY <1>3, <1>4

LEMMA HeartbeatSplit ==
  ASSUME Split, NEW w \in Worker, heartbeat(w)
  PROVE  Split' /\ OneMove
<1> DEFINE j == attempt[w]
<1>1. /\ j \in Job /\ job \in [Job -> Row] /\ SoundRow(job[j])
      /\ phase[w] = "run"
  BY DEF Split, SoundWorker, heartbeat
<1>2. CASE Holds(w)
  <2> DEFINE r == [job[j] EXCEPT !.live = TRUE]
             p == CASE job[j].status = "canceling" -> "cancel"
                    [] job[j].status = "pausing"   -> "pause"
                    [] OTHER                       -> "run"
  <2>1. job' = [job EXCEPT ![j] = r] /\ Enter(w, p)
    BY <1>2 DEF heartbeat
  <2>2. SoundRow(r) /\ r.lease = job[j].lease /\ r.status = job[j].status
    BY <1>1, <1>2 DEF SoundRow, Fits, Row, Holds, LEASED
  <2>3. p \in Phase \ {"idle"} /\ Tie(w, p, job[j])
    BY <1>1 DEF Phase, Tie
  <2>4. Tie(w, p, r)
    BY <2>2, <2>3 DEF Tie
  <2>5. phase' = [phase EXCEPT ![w] = p] /\ attempt' = attempt /\ stalls' = stalls
    BY <2>1 DEF Enter
  <2> HIDE DEF r, p
  <2>6. Legal(job[j].status, r.status)
    BY <2>2 DEF Legal
  <2> QED BY <1>1, <2>1, <2>2, <2>3, <2>4, <2>5, <2>6, AttemptStep
<1>3. CASE ~Holds(w)
  <2>1. job' = [job EXCEPT ![j] = job[j]]
    BY <1>1, <1>3 DEF heartbeat
  <2>2. "done" \in Phase \ {"idle"} /\ Tie(w, "done", job[j])
    BY <1>1, <1>3 DEF Phase, Tie, Holds, SoundRow, Fits
  <2>3. phase' = [phase EXCEPT ![w] = "done"] /\ attempt' = attempt /\ stalls' = stalls
    BY <1>3 DEF heartbeat, Enter
  <2> QED BY <1>1, <2>1, <2>2, <2>3, AttemptStep DEF Legal
<1> QED BY <1>2, <1>3

\* A refused completion leaves a canceling job to finish_stop, or one with
\* another holder.
LEMMA CompleteSplit ==
  ASSUME Split, NEW w \in Worker, complete_job(w)
  PROVE  Split' /\ OneMove
<1> DEFINE j == attempt[w]
           ok == job[j].lease = w /\ job[j].status \in {"running", "pausing"}
<1>1. /\ j \in Job /\ job \in [Job -> Row] /\ SoundRow(job[j])
      /\ phase[w] = "run"
  BY DEF Split, SoundWorker, complete_job
<1>2. CASE ok
  <2> DEFINE row == [job[j] EXCEPT !.lease = NoWorker, !.live = FALSE, !.file = TRUE]
  <2>1. Move(j, "completed", row) /\ Enter(w, "done")
    BY <1>2 DEF complete_job
  <2>2. row \in Row /\ Fits(row, "completed") /\ row.lease = NoWorker
    BY <1>1 DEF SoundRow, Fits, Row, LEASED, TERMINAL
  <2> HIDE DEF row
  <2>3. job' = [job EXCEPT ![j] = Moved(row, "completed")]
    BY <2>1 DEF Move, Moved
  <2>4. /\ SoundRow(Moved(row, "completed"))
        /\ Moved(row, "completed").lease = NoWorker
        /\ Legal(job[j].status, Moved(row, "completed").status)
    BY <1>2, <2>2, MovedRow, LegalMoves DEF JobStatus
  <2>5. /\ "done" \in Phase \ {"idle"} /\ Tie(w, "done", Moved(row, "completed"))
        /\ phase' = [phase EXCEPT ![w] = "done"] /\ attempt' = attempt /\ stalls' = stalls
    BY <2>1, <2>4 DEF Phase, Tie, Enter
  <2> QED BY <1>1, <2>3, <2>4, <2>5, AttemptStep
<1>3. CASE ~ok
  <2>1. job' = [job EXCEPT ![j] = job[j]]
    BY <1>1, <1>3 DEF complete_job
  <2>2. "cancel" \in Phase \ {"idle"} /\ Tie(w, "cancel", job[j])
    BY <1>1, <1>3 DEF Phase, Tie, SoundRow, Fits, LEASED
  <2>3. phase' = [phase EXCEPT ![w] = "cancel"] /\ attempt' = attempt /\ stalls' = stalls
    BY <1>3 DEF complete_job, Enter
  <2> QED BY <1>1, <2>1, <2>2, <2>3, AttemptStep DEF Legal
<1> QED BY <1>2, <1>3

\* What fail_or_retry decides: "lost" only for a job with another holder,
\* "retry" only with an attempt left.
LEMMA FailDecision ==
  ASSUME Split, NEW w \in Worker, phase[w] = "run", NEW retryable \in BOOLEAN
  PROVE  LET outcome == FailOutcome(w, retryable) IN
         /\ outcome \in {"canceled", "paused", "failed", "retry", "lost"}
         /\ outcome = "lost" <=> job[attempt[w]].lease # w
         /\ outcome # "lost" => Legal(job[attempt[w]].status, Into[outcome])
         /\ outcome = "retry" => job[attempt[w]].attempts < MaxAttempts
<1>1. SoundRow(job[attempt[w]])
  BY DEF Split, SoundWorker
<1>2. job[attempt[w]].lease = w => job[attempt[w]].status \in LEASED
  BY <1>1 DEF SoundRow, Fits
<1> DEFINE row == job[attempt[w]]
<1>3. CASE row.lease # w
  BY <1>3 DEF FailOutcome
<1>4. CASE row.lease = w /\ row.status = "canceling"
  BY <1>4, LegalMoves DEF FailOutcome, LEASED, Into
<1>5. CASE row.lease = w /\ row.status = "pausing"
  BY <1>5, LegalMoves DEF FailOutcome, LEASED, Into
<1>6. CASE row.lease = w /\ row.status = "running"
  BY <1>6, LegalMoves DEF FailOutcome, Again, LEASED, Into
<1> QED BY <1>2, <1>3, <1>4, <1>5, <1>6 DEF LEASED

\* What finish_stop decides: the worker was told to stop, so a job it still
\* holds is pausing or canceling (StopStillWanted).
LEMMA StopDecision ==
  ASSUME Split, NEW w \in Worker, phase[w] \in {"pause", "cancel"}
  PROVE  LET outcome == StopOutcome(w, phase[w]) IN
         /\ outcome \in {"canceled", "paused", "lost"}
         /\ outcome = "lost" <=> job[attempt[w]].lease # w
         /\ outcome # "lost" => Legal(job[attempt[w]].status, Into[outcome])
<1>1. Tie(w, phase[w], job[attempt[w]])
  BY DEF Split, SoundWorker, Phase
<1> DEFINE row == job[attempt[w]]
<1>2. CASE row.lease # w
  BY <1>2 DEF StopOutcome, Into
<1>3. CASE row.lease = w /\ row.status = "pausing"
  BY <1>3, LegalMoves DEF StopOutcome, Into
<1>4. CASE row.lease = w /\ row.status = "canceling"
  BY <1>4, LegalMoves DEF StopOutcome, Into
<1> QED BY <1>1, <1>2, <1>3, <1>4 DEF Tie

LEMMA LeaveSplit ==
  ASSUME Split, NEW w \in Worker, Leave(w)
  PROVE  Split' /\ job' = job
<1>1. /\ attempt' \in [Worker -> Job \cup {NoJob}] /\ phase' \in [Worker -> Phase]
      /\ job' = job /\ stalls' = stalls
  BY DEF Split, Leave, Phase
<1>2. ASSUME NEW v \in Worker PROVE SoundWorker(v)'
  <2>1. CASE v = w
    BY <2>1 DEF Split, Leave, SoundWorker
  <2>2. CASE v # w
    <3>1. attempt'[v] = attempt[v] /\ phase'[v] = phase[v]
      BY <2>2 DEF Split, Leave
    <3> QED BY <1>1, <3>1 DEF Split, SoundWorker
  <2> QED BY <2>1, <2>2
<1> QED BY <1>1, <1>2 DEF Split

\* mark_purged changes nothing that the invariant speaks of, whatever the
\* status of the row has become.
LEMMA MarkSplit ==
  ASSUME Split, NEW w \in Worker, mark_purged(w)
  PROVE  Split' /\ OneMove
<1> DEFINE j == attempt[w]
           old == job[j].aged /\ job[j].status # "paused"
           r == [job[j] EXCEPT !.purged = TRUE, !.aged = old]
<1>1. /\ j \in Job /\ SoundRow(job[j]) /\ phase[w] = "purge"
      /\ Tie(w, phase[w], job[j])
  BY DEF Split, SoundWorker, mark_purged
<1>2. job' = [job EXCEPT ![j] = r] /\ Enter(w, "done")
  BY DEF mark_purged
<1>3. old \in BOOLEAN
  OBVIOUS
<1> HIDE DEF old
<1>4. SoundRow(r) /\ r.lease = job[j].lease /\ r.status = job[j].status
  BY <1>1, <1>3 DEF SoundRow, Fits, Row
<1> HIDE DEF r
<1>5. "done" \in Phase \ {"idle"} /\ Tie(w, "done", r)
  BY <1>1, <1>4 DEF Phase, Tie
<1>6. phase' = [phase EXCEPT ![w] = "done"] /\ attempt' = attempt /\ stalls' = stalls
  BY <1>2 DEF Enter
<1> QED BY <1>1, <1>2, <1>4, <1>5, <1>6, AttemptStep DEF Legal

LEMMA WorkerSplit ==
  ASSUME Split, NEW w \in Worker, WorkerStep(w)
  PROVE  Split' /\ OneMove
<1>1. CASE preflight_fail(w)
  <2> DEFINE outcome == FailOutcome(w, FALSE)
  <2>1. phase[w] = "run" /\ Settle(attempt[w], outcome) /\ Enter(w, "done")
    BY <1>1 DEF preflight_fail
  <2> QED BY <2>1, FailDecision, AttemptSettles
<1>2. ASSUME NEW retryable \in BOOLEAN, NEW frees \in BOOLEAN,
             fail_or_retry(w, retryable, frees)
      PROVE  Split' /\ OneMove
  <2> DEFINE outcome == FailOutcome(w, retryable)
             p == IF outcome = "canceled" \/ (outcome = "failed" /\ frees)
                  THEN "purge" ELSE "done"
  <2>1. phase[w] = "run" /\ Settle(attempt[w], outcome) /\ Enter(w, p)
    BY <1>2 DEF fail_or_retry
  <2>2. p \in {"purge", "done"}
    OBVIOUS
  <2> HIDE DEF p
  <2> QED BY <2>1, <2>2, FailDecision, AttemptSettles
<1>3. CASE finish_stop(w)
  <2> DEFINE outcome == StopOutcome(w, phase[w])
             p == IF outcome = "canceled" THEN "purge" ELSE "done"
  <2>1. phase[w] \in {"pause", "cancel"} /\ Settle(attempt[w], outcome) /\ Enter(w, p)
    BY <1>3 DEF finish_stop
  <2>2. p \in {"purge", "done"}
    OBVIOUS
  <2>3. /\ outcome \in {"canceled", "paused", "lost"}
        /\ outcome = "lost" <=> job[attempt[w]].lease # w
        /\ outcome # "lost" => Legal(job[attempt[w]].status, Into[outcome])
    BY <2>1, StopDecision
  <2> HIDE DEF p, outcome
  <2> QED BY <2>1, <2>2, <2>3, AttemptSettles
<1>4. CASE Return(w) \/ Crash(w)
  BY <1>4, LeaveSplit DEF Return, Crash, OneMove
<1> QED BY <1>1, <1>2, <1>3, <1>4, HeartbeatSplit, CompleteSplit, MarkSplit DEF WorkerStep

\* A claim is granted to a queued job, which has no holder and an attempt
\* left; every other worker that still works on the job is then fenced off.
LEMMA ClaimSplit ==
  ASSUME Split, NEW w \in Worker, NEW j \in Job, ClaimStep(w, j)
  PROVE  Split' /\ OneMove
<1>1. job[j] \in Row /\ Fits(job[j], job[j].status)
  BY DEF Split, SoundRow
<1>2. CASE Claimed(w, j)
  <2> DEFINE sent == IF job[j].enqueued = "null" THEN "fresh" ELSE job[j].enqueued
             row == [job[j] EXCEPT !.attempts = job[j].attempts + 1, !.lease = w,
                                   !.live = TRUE, !.enqueued = sent]
  <2>1. /\ Move(j, "running", row) /\ job[j].status = "queued" /\ ~job[j].deleted
        /\ attempt' = [attempt EXCEPT ![w] = j]
        /\ phase' = [phase EXCEPT ![w] = "run"] /\ stalls' = stalls
    BY <1>2 DEF Claimed
  <2>2. sent \in {"null", "fresh", "stale"}
    BY <1>1 DEF Row
  <2>3. job[j].attempts + 1 \in 0..MaxAttempts /\ job[j].attempts + 1 > 0
    BY <1>1, <2>1 DEF Row, Fits
  <2> HIDE DEF sent
  <2>4. row \in Row
    BY <1>1, <2>2, <2>3 DEF Row
  <2>5. row.lease = w /\ Fits(row, "running")
    BY <1>1, <2>1, <2>3 DEF Row, Fits, LEASED
  <2> HIDE DEF row
  <2> DEFINE r == Moved(row, "running")
  <2>6. job' = [job EXCEPT ![j] = r] /\ SoundRow(r) /\ r.lease = w /\ r.status = "running"
    BY <2>1, <2>4, <2>5, MovedRow DEF Move, Moved, JobStatus
  <2> HIDE DEF r
  <2>7. /\ job' \in [Job -> Row] /\ job'[j] = r
        /\ \A k \in Job \ {j} : job'[k] = job[k]
        /\ \A k \in Job : SoundRow(job'[k])
    BY <2>6, OneRow
  <2>8. attempt' \in [Worker -> Job \cup {NoJob}] /\ phase' \in [Worker -> Phase]
    BY <2>1 DEF Split, Phase
  <2>9. ASSUME NEW v \in Worker PROVE SoundWorker(v)'
    <3>1. CASE v = w
      <4>1. attempt'[v] = j /\ phase'[v] = "run"
        BY <2>1, <3>1 DEF Split
      <4> QED BY <4>1 DEF SoundWorker, Tie
    <3>2. CASE v # w
      <4>1. attempt'[v] = attempt[v] /\ phase'[v] = phase[v] /\ SoundWorker(v)
        BY <2>1, <3>2 DEF Split
      <4>2. CASE attempt[v] = j
        BY <2>6, <2>7, <3>2, <4>1, <4>2 DEF SoundWorker, Tie
      <4>3. CASE attempt[v] # j
        BY <2>7, <4>1, <4>3 DEF SoundWorker, Tie
      <4> QED BY <4>2, <4>3
    <3> QED BY <3>1, <3>2
  <2>10. OneMove
    BY <2>1, <2>6, <2>7, LegalMoves DEF OneMove
  <2> QED BY <2>1, <2>7, <2>8, <2>9, <2>10 DEF Split
<1>3. ASSUME NEW lowDisk \in BOOLEAN, ClaimDeferred(w, j, lowDisk) PROVE Split' /\ OneMove
  <2> DEFINE r == [job[j] EXCEPT !.enqueued = "null", !.due = FALSE]
  <2>1. job' = [job EXCEPT ![j] = r] /\ UNCHANGED workers
    BY <1>3 DEF ClaimDeferred
  <2>2. SoundRow(r) /\ r.lease = job[j].lease /\ r.status = job[j].status
    BY <1>1 DEF SoundRow, Fits, Row
  <2> HIDE DEF r
  <2>3. attempt' = attempt /\ phase' = phase /\ stalls' \in 0..MaxStalls
    BY <2>1 DEF workers, Split
  <2> QED BY <2>1, <2>2, <2>3, RowStep DEF Legal
<1> QED BY <1>2, <1>3 DEF ClaimStep

(***************************************************************************)
(* The reconciler, the retention sweep and the clock.                      *)
(***************************************************************************)

\* A sweep leaves the row alone or records that its files are gone.
LEMMA PurgedRow ==
  ASSUME NEW row \in Row, NEW new \in Purged(row)
  PROVE  /\ new \in Row
         /\ new.status = row.status /\ new.attempts = row.attempts
         /\ new.lease = row.lease /\ new.live = row.live
         /\ new.deleted = row.deleted
BY DEF Purged, Row

LEMMA ReconcileSplit ==
  ASSUME Split, NEW j \in Job, ReconcileStep(j)
  PROVE  Split' /\ OneMove
<1>1. job[j] \in Row /\ SoundRow(job[j]) /\ Fits(job[j], job[j].status)
  BY DEF Split, SoundRow
<1>2. attempt' = attempt /\ phase' = phase /\ stalls' \in 0..MaxStalls
  BY DEF Split, ReconcileStep, recover_expired_leases, redispatch_queued,
         mark_enqueued, sweep_expired, sweep_leftover, workers
<1>3. CASE recover_expired_leases(j)
  <2>1. PICK outcome \in {"canceled", "paused", "failed", "retry"} :
          /\ Settle(j, outcome)
          /\ outcome = "retry" => job[j].attempts < MaxAttempts
          /\ Legal(job[j].status, Into[outcome])
    <3>1. CASE job[j].status = "canceling"
      BY <1>3, <3>1, LegalMoves DEF recover_expired_leases, Into
    <3>2. CASE job[j].status = "pausing"
      BY <1>3, <3>2, LegalMoves DEF recover_expired_leases, Into
    <3>3. CASE job[j].status = "running" /\ job[j].attempts < MaxAttempts
      BY <1>3, <3>3, LegalMoves DEF recover_expired_leases, Again, Into
    <3>4. CASE job[j].status = "running" /\ ~(job[j].attempts < MaxAttempts)
      BY <1>3, <3>4, LegalMoves DEF recover_expired_leases, Again, Into
    <3> QED BY <1>3, <3>1, <3>2, <3>3, <3>4 DEF recover_expired_leases, LEASED
  <2>2. PICK row \in Row, dst \in JobStatus :
          /\ dst = Into[outcome]
          /\ Fits(row, dst) /\ row.lease = NoWorker /\ Move(j, dst, row)
    BY <1>3, <2>1, SettleRow DEF recover_expired_leases
  <2> QED BY <1>2, <2>1, <2>2, MoveStep
<1>4. CASE redispatch_queued(j) \/ mark_enqueued(j)
  <2> DEFINE r == [job[j] EXCEPT !.enqueued = "fresh"]
  <2>1. job' = [job EXCEPT ![j] = r]
    BY <1>4 DEF redispatch_queued, mark_enqueued
  <2>2. SoundRow(r) /\ r.lease = job[j].lease /\ r.status = job[j].status
    BY <1>1 DEF SoundRow, Fits, Row
  <2> HIDE DEF r
  <2> QED BY <1>2, <2>1, <2>2, RowStep DEF Legal
<1>5. CASE sweep_expired(j)
  <2>1. PICK row \in Purged(job[j]) : Move(j, "expired", row)
    BY <1>5 DEF sweep_expired
  <2>2. row \in Row /\ Fits(row, "expired") /\ row.lease = NoWorker
    BY <1>1, <1>5, PurgedRow DEF sweep_expired, Fits, LEASED, TERMINAL
  <2>3. Legal(job[j].status, "expired")
    BY <1>5, LegalMoves DEF sweep_expired
  <2> QED BY <1>2, <2>1, <2>2, <2>3, MoveStep DEF JobStatus
<1>6. CASE sweep_leftover(j)
  <2>1. PICK row \in Purged(job[j]) : job' = [job EXCEPT ![j] = row]
    BY <1>6 DEF sweep_leftover
  <2>2. /\ row.lease = job[j].lease /\ row.status = job[j].status
        /\ row \in Row /\ Fits(row, row.status)
    BY <1>1, PurgedRow DEF Fits
  <2>3. SoundRow(row) 
    BY <2>2 DEF SoundRow
  <2> QED BY <1>2, <2>1, <2>2, <2>3, RowStep DEF Legal
<1> QED BY <1>3, <1>4, <1>5, <1>6 DEF ReconcileStep

LEMMA ClockSplit ==
  ASSUME Split, NEW j \in Job, ClockStep(j)
  PROVE  Split' /\ OneMove
<1>1. SoundRow(job[j])
  BY DEF Split
<1>2. attempt' = attempt /\ phase' = phase /\ stalls' \in 0..MaxStalls
  <2>1. CASE LeaseRunsOut(j)
    BY <2>1 DEF Split, LeaseRunsOut
  <2>2. CASE ~LeaseRunsOut(j)
    BY <2>2 DEF Split, ClockStep, BackoffElapses, EnqueuedGoesStale, Ages, workers
  <2> QED BY <2>1, <2>2
<1>3. PICK r : /\ job' = [job EXCEPT ![j] = r] /\ SoundRow(r)
               /\ r.lease = job[j].lease /\ r.status = job[j].status
  <2>1. CASE LeaseRunsOut(j)
    <3> DEFINE r == [job[j] EXCEPT !.live = FALSE]
    <3>1. job' = [job EXCEPT ![j] = r]
      BY <2>1 DEF LeaseRunsOut
    <3>2. SoundRow(r) /\ r.lease = job[j].lease /\ r.status = job[j].status
      BY <1>1 DEF SoundRow, Fits, Row
    <3> HIDE DEF r
    <3> QED BY <3>1, <3>2
  <2>2. CASE BackoffElapses(j)
    <3> DEFINE r == [job[j] EXCEPT !.due = TRUE]
    <3>1. job' = [job EXCEPT ![j] = r]
      BY <2>2 DEF BackoffElapses
    <3>2. SoundRow(r) /\ r.lease = job[j].lease /\ r.status = job[j].status
      BY <1>1 DEF SoundRow, Fits, Row
    <3> HIDE DEF r
    <3> QED BY <3>1, <3>2
  <2>3. CASE EnqueuedGoesStale(j)
    <3> DEFINE r == [job[j] EXCEPT !.enqueued = "stale"]
    <3>1. job' = [job EXCEPT ![j] = r]
      BY <2>3 DEF EnqueuedGoesStale
    <3>2. SoundRow(r) /\ r.lease = job[j].lease /\ r.status = job[j].status
      BY <1>1 DEF SoundRow, Fits, Row
    <3> HIDE DEF r
    <3> QED BY <3>1, <3>2
  <2>4. CASE Ages(j)
    <3> DEFINE r == [job[j] EXCEPT !.aged = TRUE]
    <3>1. job' = [job EXCEPT ![j] = r]
      BY <2>4 DEF Ages
    <3>2. SoundRow(r) /\ r.lease = job[j].lease /\ r.status = job[j].status
      BY <1>1 DEF SoundRow, Fits, Row
    <3> HIDE DEF r
    <3> QED BY <3>1, <3>2
  <2> QED BY <2>1, <2>2, <2>3, <2>4 DEF ClockStep
<1> QED BY <1>2, <1>3, RowStep DEF Legal

(***************************************************************************)
(* The theorems.                                                           *)
(***************************************************************************)

LEMMA NextSplit ==
  ASSUME Split, [Next]_vars
  PROVE  Split' /\ OneMove
<1>1. CASE Next
  <2>1. ASSUME NEW j \in Job, UserStep(j) \/ ReconcileStep(j) \/ ClockStep(j)
        PROVE  Split' /\ OneMove
    BY <2>1, UserSplit, ReconcileSplit, ClockSplit
  <2>2. ASSUME NEW w \in Worker, WorkerStep(w) PROVE Split' /\ OneMove
    BY <2>2, WorkerSplit
  <2>3. ASSUME NEW w \in Worker, NEW j \in Job, ClaimStep(w, j) PROVE Split' /\ OneMove
    BY <2>3, ClaimSplit
  <2>4. \/ \E j \in Job : UserStep(j) \/ ReconcileStep(j) \/ ClockStep(j)
        \/ \E w \in Worker : WorkerStep(w)
        \/ \E w \in Worker, j \in Job : ClaimStep(w, j)
    BY <1>1 DEF Next
  <2> QED BY <2>1, <2>2, <2>3, <2>4
<1>2. CASE UNCHANGED vars
  <2>1. ASSUME NEW w \in Worker PROVE SoundWorker(w)'
    BY <1>2 DEF Split, SoundWorker, vars
  <2> QED BY <1>2, <2>1 DEF Split, OneMove, vars
<1> QED BY <1>1, <1>2

\* The invariant holds in every reachable state of the table, however many
\* jobs, users and workers there are: rows and workers agree on who holds
\* which lease, a job that can be claimed has an attempt left, and a worker
\* told to stop finds the job still stopping.
THEOREM Invariance == Spec => []IInv
<1>1. Init => IInv
  BY InitSplit, SplitIInv
<1>2. IInv /\ [Next]_vars => IInv'
  <2> SUFFICES ASSUME IInv, [Next]_vars PROVE IInv'
    OBVIOUS
  <2>1. Split'
    BY SplitIInv, NextSplit
  <2> QED BY <2>1, SplitIInv, PTL
<1> QED BY <1>1, <1>2, PTL DEF Spec

\* Every step moves at most one job, along TRANSITIONS.
LEMMA Steps == Spec => [][OneMove]_vars
<1>1. IInv /\ [Next]_vars => [OneMove]_vars
  BY SplitIInv, NextSplit
<1> QED BY <1>1, Invariance, PTL DEF Spec

\* The table implements the abstract state machine: no transaction, in any
\* interleaving, asks move() for a transition that states.TRANSITIONS lacks.
THEOREM Refinement == Spec => Implements
<1> DEFINE status == [j \in Job |-> job[j].status]
<1>1. Init => StateMachine!Init
  BY DEF Init, StateMachine!Init, NoRow
<1>2. OneMove => [StateMachine!Next]_status
  <2> SUFFICES ASSUME OneMove PROVE [StateMachine!Next]_status
    OBVIOUS
  <2>1. CASE job' = job
    BY <2>1
  <2>2. CASE \E j \in Job : /\ \A k \in Job \ {j} : job'[k] = job[k]
                            /\ Legal(job[j].status, job'[j].status)
    <3>1. PICK j \in Job : /\ \A k \in Job \ {j} : job'[k] = job[k]
                           /\ Legal(job[j].status, job'[j].status)
      BY <2>2
    <3> DEFINE dst == job'[j].status
    <3>2. status' = [status EXCEPT ![j] = dst]
      BY <3>1
    <3>3. CASE dst = job[j].status
      BY <3>2, <3>3
    <3>4. CASE job[j].status = "absent" /\ dst = "queued"
      BY <3>2, <3>4 DEF StateMachine!Next, StateMachine!Submit
    <3>5. CASE /\ job[j].status \in JobStatus /\ dst # job[j].status
               /\ CanTransition(job[j].status, dst)
      <4>1. PICK d \in StateMachine!JobStatus : d = dst
        BY <3>5 DEF CanTransition, TRANSITIONS, JobStatus, StateMachine!JobStatus
      <4>2. StateMachine!move(j, d)
        BY <3>2, <3>5, <4>1 DEF StateMachine!move, StateMachine!CanTransition,
              StateMachine!TRANSITIONS, StateMachine!JobStatus, CanTransition,
              TRANSITIONS, JobStatus
      <4> QED BY <4>2 DEF StateMachine!Next
    <3> QED BY <3>1, <3>3, <3>4, <3>5 DEF Legal
  <2> QED BY <2>1, <2>2 DEF OneMove
<1>3. UNCHANGED vars => UNCHANGED status
  BY DEF vars
<1> QED BY <1>1, <1>2, <1>3, Steps, PTL DEF Spec, Implements, StateMachine!Spec

\* A cancel always wins: no reconciler, worker or user moves a canceling job
\* anywhere but to canceled.
THEOREM CancelAlwaysWins == Spec => CancelWins
<1>1. OneMove => \A j \in Job : job[j].status = "canceling"
                    => job'[j].status \in {"canceling", "canceled"}
  BY DEF OneMove, Legal, CanTransition, TRANSITIONS
<1> QED BY <1>1, Steps, PTL DEF CancelWins

\* A worker that does not hold its job's lease changes no row while its
\* attempt is undecided.
LEMMA FencedAttempt ==
  ASSUME Split, NEW w \in Worker, phase[w] \in {"run", "pause", "cancel"},
         job[attempt[w]].lease # w, WorkerStep(w)
  PROVE  job' = job
<1>1. CASE heartbeat(w)
  BY <1>1 DEF heartbeat, Holds
<1>2. CASE complete_job(w)
  BY <1>2 DEF complete_job
<1>3. CASE preflight_fail(w)
  <2>1. FailOutcome(w, FALSE) = "lost" /\ Settle(attempt[w], FailOutcome(w, FALSE))
    BY <1>3 DEF FailOutcome, preflight_fail
  <2> QED BY <2>1 DEF Settle
<1>4. ASSUME NEW retryable \in BOOLEAN, NEW frees \in BOOLEAN,
             fail_or_retry(w, retryable, frees)
      PROVE  job' = job
  <2>1. /\ FailOutcome(w, retryable) = "lost"
        /\ Settle(attempt[w], FailOutcome(w, retryable))
    BY <1>4 DEF FailOutcome, fail_or_retry
  <2> QED BY <2>1 DEF Settle
<1>5. CASE finish_stop(w)
  <2>1. /\ StopOutcome(w, phase[w]) = "lost"
        /\ Settle(attempt[w], StopOutcome(w, phase[w]))
    BY <1>5 DEF StopOutcome, finish_stop
  <2> QED BY <2>1 DEF Settle
<1>6. ~mark_purged(w)
  BY DEF mark_purged
<1>7. CASE Return(w) \/ Crash(w)
  BY <1>7 DEF Return, Crash, Leave
<1> QED BY <1>1, <1>2, <1>3, <1>4, <1>5, <1>6, <1>7 DEF WorkerStep

\* Every write of a worker is fenced on its token, but for mark_purged.
THEOREM WritesAreFenced == Spec => FencedWrites
<1> DEFINE Fenced == \A w \in Worker :
             /\ phase[w] \in {"run", "pause", "cancel"}
             /\ phase'[w] # phase[w]
             /\ job[attempt[w]].lease # w
             => UNCHANGED job
<1>1. IInv /\ [Next]_vars => [Fenced]_vars
  <2> SUFFICES ASSUME Split, Next, NEW w \in Worker,
                      phase[w] \in {"run", "pause", "cancel"},
                      phase'[w] # phase[w], job[attempt[w]].lease # w
               PROVE  job' = job
    BY SplitIInv
  <2>1. ASSUME NEW j \in Job, UserStep(j) \/ ReconcileStep(j) \/ ClockStep(j)
        PROVE  FALSE
    BY <2>1 DEF UserStep, create_job, pause_job, resume_job, cancel_job, retry_job,
         delete_job, ReconcileStep, recover_expired_leases, redispatch_queued,
         mark_enqueued, sweep_expired, sweep_leftover, ClockStep, LeaseRunsOut,
         BackoffElapses, EnqueuedGoesStale, Ages, workers
  <2>2. ASSUME NEW v \in Worker, WorkerStep(v) PROVE v = w
    BY <2>2 DEF Split, WorkerStep, heartbeat, complete_job, preflight_fail,
         fail_or_retry, finish_stop, mark_purged, Return, Crash, Enter, Leave
  <2>3. ASSUME NEW v \in Worker, NEW j \in Job, ClaimStep(v, j) PROVE FALSE
    BY <2>3 DEF Split, ClaimStep, Claimed, ClaimDeferred, workers
  <2>4. ASSUME NEW v \in Worker, WorkerStep(v) PROVE job' = job
    BY <2>2, <2>4, FencedAttempt
  <2> QED BY <2>1, <2>3, <2>4 DEF Next
<1> QED BY <1>1, Invariance, PTL DEF Spec, FencedWrites
=============================================================================
