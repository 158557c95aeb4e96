--------------------------- MODULE ExecutorProofs ---------------------------
(***************************************************************************)
(* Proofs about Executor, for every number of jobs, workers, stalls and    *)
(* retries.                                                                *)
(*                                                                         *)
(* Every step of Executor is a step of JobService or leaves the table      *)
(* alone, so what JobServiceProofs says of the table holds here too.  The  *)
(* rest is about the files.  AttemptEffect and OutsideEffect say what a    *)
(* step of a worker, and one of anybody else, does to a row, to the files  *)
(* of its job and to the program of a worker; the invariants are then      *)
(* checked against these effects, one job at a time.                       *)
(***************************************************************************)
EXTENDS Executor, JobLimitsProofs

USE JobsAssumption, LimitsAssumption, RetriesAssumption

(***************************************************************************)
(* Executor implements JobService.                                         *)
(***************************************************************************)

LEMMA XStep ==
  ASSUME [XNext]_xvars
  PROVE  [Next]_vars
<1>1. ASSUME NEW w \in Worker, Attempt(w) PROVE [Next]_vars
  <2>1. CASE \/ Start(w) \/ Succeed(w) \/ Publish(w) \/ Tidy(w) \/ Discard(w) \/ Wipe(w)
             \/ \E content \in {"partial", "output"} : Write(w, content)
    BY <2>1 DEF Start, Succeed, Publish, Tidy, Discard, Wipe, Write
  <2>2. CASE Refuse(w) \/ Control(w) \/ Complete(w) \/ Stop(w) \/ Mark(w) \/ Finish(w)
    <3>1. WorkerStep(w)
      BY <2>2 DEF Refuse, Control, Complete, Stop, Mark, Finish, WorkerStep
    <3> QED BY <3>1 DEF Next
  <2>3. ASSUME NEW retryable \in BOOLEAN, NEW frees \in BOOLEAN, Fail(w, retryable, frees)
        PROVE  [Next]_vars
    <3>1. WorkerStep(w)
      BY <2>3 DEF Fail, WorkerStep
    <3> QED BY <3>1 DEF Next
  <2> QED BY <1>1, <2>1, <2>2, <2>3 DEF Attempt
<1>2. ASSUME NEW w \in Worker, NEW j \in Job, Claim(w, j) PROVE [Next]_vars
  BY <1>2 DEF Claim, ClaimStep, Next
<1>3. ASSUME NEW j \in Job, UserOp(j) \/ Recover(j) \/ Clock(j) \/ SweepCommit(j)
      PROVE  [Next]_vars
  <2>1. UserStep(j) \/ ReconcileStep(j) \/ ClockStep(j)
    BY <1>3 DEF UserOp, Recover, Clock, SweepCommit, UserStep, ReconcileStep, ClockStep
  <2> QED BY <2>1 DEF Next
<1>4. ASSUME NEW j \in Job, SweepRemove(j) \/ SweepDies(j) \/ StrayWrites(j) \/ StrayEnds(j)
      PROVE  [Next]_vars
  BY <1>4 DEF SweepRemove, SweepDies, StrayWrites, StrayEnds
<1>5. CASE UNCHANGED xvars
  BY <1>5 DEF xvars
<1> QED BY <1>1, <1>2, <1>3, <1>4, <1>5 DEF XNext

\* The attempts of Executor, with files, sweeps and crashes, are behaviours
\* of the job table: every theorem about JobService holds of them.
THEOREM ExecutorRefines == XSpec => Spec
<1>1. XInit => Init
  BY DEF XInit
<1> QED BY <1>1, XStep, PTL DEF XSpec, Spec

LEMMA XInvariance == XSpec => []Split
BY ExecutorRefines, Invariance, SplitIInv, PTL

(***************************************************************************)
(* Leases.                                                                 *)
(***************************************************************************)

\* w downloads, may still write its row, or is ending a group it has to end.
Engaged(w) == Fenced(w) \/ step[w] = "lost"

\* The attempts that go on without a live lease of their own.
Astray ==
  {w \in Worker : /\ Engaged(w)
                  /\ ~(job[attempt[w]].lease = w /\ job[attempt[w]].live)}

\* Every one of them is paid for by a lease that ran out under its worker.
AstrayPaid == IsFiniteSet(Astray) /\ Cardinality(Astray) <= stalls

\* As long as no lease ran out under a live worker, a worker that asks for
\* its lease still has it.
HeldUnlessStalled ==
  stalls = 0 =>
    \A w \in Worker : Fenced(w) => /\ job[attempt[w]].lease = w
                                   /\ job[attempt[w]].live

LEMMA PaidIsHeld == Split /\ AstrayPaid => HeldUnlessStalled
<1> SUFFICES ASSUME AstrayPaid, stalls = 0, NEW w \in Worker, Fenced(w)
             PROVE  w \notin Astray
  BY DEF HeldUnlessStalled, Astray, Engaged
<1>1. Cardinality(Astray) = 0
  BY FS_CardinalityType DEF AstrayPaid
<1> QED BY <1>1, FS_EmptySet DEF AstrayPaid

\* Only a worker that has lost its lease starts to end its group for that.
LEMMA LostSteps ==
  ASSUME Split, XTypeOK, [XNext]_xvars, NEW w \in Worker, step'[w] = "lost"
  PROVE  w \in Astray
<1>1. CASE step[w] = "lost"
  <2>1. phase[w] = "done"
    BY <1>1 DEF XTypeOK
  <2>2. attempt[w] \in Job
    BY <2>1 DEF Split, SoundWorker
  <2>3. job[attempt[w]].lease # w
    BY <2>1, <2>2 DEF Split, SoundWorker, Tie
  <2> QED BY <1>1, <2>3 DEF Astray, Engaged
<1>2. CASE step[w] # "lost"
  <2>1. Control(w)
    <3>1. step' # step
      BY <1>2
    <3>2. \A v \in Worker : \A s : v # w /\ step' = [step EXCEPT ![v] = s] => step'[w] = step[w]
      BY DEF XTypeOK
    <3>3. \A s : step' = [step EXCEPT ![w] = s] => s = "lost"
      BY DEF XTypeOK
    <3>4. ASSUME NEW v \in Worker, Attempt(v) PROVE v = w /\ Control(w)
      <4>1. PICK s : step' = [step EXCEPT ![v] = s] /\ (s = "lost" => Control(v))
        <5>1. CASE \E content \in {"partial", "output"} : Write(v, content)
          BY <3>1, <5>1 DEF Write
        <5>2. CASE \/ Refuse(v) \/ Start(v) \/ Succeed(v) \/ Publish(v) \/ Complete(v)
                   \/ Tidy(v) \/ Discard(v) \/ Wipe(v) \/ Mark(v) \/ Finish(v)
          BY <5>2 DEF Refuse, Start, Succeed, Publish, Complete, Tidy, Discard, Wipe,
                      Mark, Finish, Goto
        <5>3. CASE Control(v)
          BY <5>3 DEF Control, Goto
        <5>4. CASE Stop(v)
          <6>1. PICK s : step' = [step EXCEPT ![v] = s] /\ s \in {"wipe", "discard", "end"}
            BY <5>4 DEF Stop, Goto
          <6> QED BY <6>1
        <5>5. CASE \E retryable, frees \in BOOLEAN : Fail(v, retryable, frees)
          BY <5>5 DEF Fail, Goto
        <5> QED BY <3>4, <5>1, <5>2, <5>3, <5>4, <5>5 DEF Attempt
      <4> QED BY <1>2, <3>2, <3>3, <4>1
    <3>5. ASSUME NEW v \in Worker, NEW j \in Job, Claim(v, j) PROVE FALSE
      BY <1>2, <3>2, <3>3, <3>5 DEF Claim, Goto
    <3>6. ASSUME NEW j \in Job, \/ UserOp(j) \/ Recover(j) \/ Clock(j)
                                \/ SweepRemove(j) \/ SweepCommit(j) \/ SweepDies(j)
                                \/ StrayWrites(j) \/ StrayEnds(j)
          PROVE FALSE
      BY <3>1, <3>6 DEF UserOp, Recover, Clock, SweepRemove, SweepCommit, SweepDies,
                        StrayWrites, StrayEnds
    <3> QED BY <3>1, <3>4, <3>5, <3>6 DEF XNext, xvars
  <2>2. phase[w] = "run" /\ ~Holds(w)
    <3>1. PICK p \in {"run", "pause", "cancel", "done"} :
            phase' = [phase EXCEPT ![w] = p] /\ (p = "done" => ~Holds(w))
      BY <2>1 DEF Control, heartbeat, Enter
    <3>2. step'[w] = CASE phase'[w] = "run"  -> "process"
                       [] phase'[w] = "done" -> "lost"
                       [] OTHER              -> "stop"
      BY <2>1 DEF Control, Goto, XTypeOK
    <3>3. phase'[w] = p /\ p = "done"
      BY <3>1, <3>2 DEF Split
    <3>4. phase[w] = "run"
      BY <2>1 DEF Control, heartbeat
    <3> QED BY <3>1, <3>3, <3>4
  <2>3. attempt[w] \in Job /\ Fenced(w)
    BY <2>2 DEF Split, SoundWorker, Fenced
  <2>4. job[attempt[w]].lease # w
    BY <2>2, <2>3 DEF Holds, Split, SoundRow, Fits
  <2> QED BY <2>3, <2>4 DEF Astray, Engaged
<1> QED BY <1>1, <1>2

\* A step adds an attempt to those astray only if it lets a lease run out.
LEMMA AstraySteps ==
  ASSUME Split, XTypeOK, [XNext]_xvars
  PROVE  \/ Astray' \subseteq Astray /\ stalls' = stalls
         \/ stalls' = stalls + 1 /\ \E v \in Worker : Astray' \subseteq Astray \cup {v}
<1> DEFINE Mine(w) == job[attempt[w]].lease = w /\ job[attempt[w]].live
<1>1. ASSUME NEW w \in Worker, w \in Astray', ~Fenced(w)' PROVE w \in Astray
  BY <1>1, LostSteps DEF Astray, Engaged
<1>2. CASE Calm
  <2>1. ASSUME NEW w \in Worker, w \in Astray', Fenced(w)', w \notin Astray PROVE FALSE
    <3>1. Fenced(w) /\ attempt'[w] = attempt[w] /\ attempt[w] \in Job
      BY <1>2, <2>1 DEF Calm, NoneBegins, Fenced, Split, SoundWorker
    <3>2. job[attempt[w]].lease = w /\ job[attempt[w]].live /\ HolderAlive(attempt[w])
      BY <2>1, <3>1 DEF Astray, Engaged, HolderAlive
    <3>3. LeaseKept(attempt[w], job'[attempt[w]]) /\ phase'[w] \in {"run", "pause", "cancel"}
      BY <1>2, <2>1, <3>1 DEF Calm, Fenced
    <3>4. job'[attempt[w]].lease = w /\ job'[attempt[w]].live
      BY <3>2, <3>3 DEF LeaseKept, Split, SoundRow, Fits
    <3> QED BY <2>1, <3>1, <3>4 DEF Astray
  <2> QED BY <1>1, <1>2, <2>1 DEF Calm, Astray
<1>3. ASSUME NEW j \in Job, Stalled(j)
      PROVE  stalls' = stalls + 1 /\ \E v \in Worker : Astray' \subseteq Astray \cup {v}
  <2>1. PICK v \in Worker : job[j].lease = v /\ attempt[v] = j
    BY <1>3 DEF Stalled, HolderAlive
  <2>2. ASSUME NEW w \in Worker, w \in Astray', Fenced(w)', w # v PROVE w \in Astray
    <3>1. Fenced(w) /\ attempt'[w] = attempt[w] /\ attempt[w] \in Job
      BY <1>3, <2>2 DEF Stalled, Fenced, Split, SoundWorker
    <3>2. CASE attempt[w] = j
      BY <2>1, <2>2, <3>1, <3>2 DEF Astray, Engaged
    <3>3. CASE attempt[w] # j
      BY <1>3, <2>2, <3>1, <3>3 DEF Stalled, Astray, Engaged
    <3> QED BY <3>2, <3>3
  <2> QED BY <1>1, <1>3, <2>2 DEF Stalled, Astray
<1>4. ASSUME NEW v \in Worker, NEW j \in Job, Claimed(v, j)
      PROVE  Astray' \subseteq Astray /\ stalls' = stalls
  <2>1. ASSUME NEW w \in Worker, w \in Astray', Fenced(w)' PROVE w \in Astray
    <3>1. w # v
      <4>1. attempt'[v] = j /\ job'[j].lease = v /\ job'[j].live
        BY <1>4, ClaimedRow DEF Claimed, Split
      <4> QED BY <2>1, <4>1 DEF Astray
    <3>2. Fenced(w) /\ attempt'[w] = attempt[w] /\ attempt[w] \in Job
      BY <1>4, <2>1, <3>1 DEF Claimed, Split, Fenced, SoundWorker
    <3>3. CASE attempt[w] = j
      <4>1. job[j].lease = NoWorker
        BY <1>4 DEF Claimed, Split, SoundRow, Fits, LEASED
      <4> QED BY <3>2, <3>3, <4>1, WorkersRest DEF Astray, Engaged, Split
    <3>4. CASE attempt[w] # j
      BY <1>4, <2>1, <3>2, <3>4, ClaimedRow DEF Astray, Engaged
    <3> QED BY <3>3, <3>4
  <2> QED BY <1>1, <1>4, <2>1 DEF Claimed, Astray
<1> QED BY <1>2, <1>3, <1>4, LeaseSteps, XStep

(***************************************************************************)
(* What the transactions do to the row of a job.                           *)
(***************************************************************************)

\* The row of j keeps all that decides about its files.
Same(j) ==
  /\ job'[j].status = job[j].status /\ job'[j].lease = job[j].lease
  /\ job'[j].aged = job[j].aged /\ job'[j].deleted = job[j].deleted
  /\ job'[j].purged = job[j].purged

\* A leased job is settled: with dst, and without a holder.
Settled(j, dst) ==
  /\ job[j].status \in LEASED
  /\ job'[j].status = dst /\ job'[j].lease = NoWorker /\ ~job'[j].aged
  /\ job'[j].deleted = job[j].deleted /\ job'[j].purged = job[j].purged

\* move() writes the row it is given and the status, and starts its age.
LEMMA MoveFields ==
  ASSUME Split, NEW j \in Job, NEW row \in Row, NEW dst, Move(j, dst, row)
  PROVE  /\ job'[j].status = dst /\ job'[j].lease = row.lease /\ ~job'[j].aged
         /\ job'[j].deleted = row.deleted /\ job'[j].purged = row.purged
<1>1. job' = [job EXCEPT ![j] = Moved(row, dst)]
  BY DEF Move, Moved
<1>2. /\ Moved(row, dst).status = dst /\ Moved(row, dst).lease = row.lease
      /\ Moved(row, dst).aged = FALSE
      /\ Moved(row, dst).deleted = row.deleted /\ Moved(row, dst).purged = row.purged
  BY DEF Moved, Row
<1> QED BY <1>1, <1>2 DEF Split

LEMMA SettleFields ==
  ASSUME Split, NEW j \in Job, job[j].status \in LEASED,
         NEW outcome \in {"canceled", "paused", "failed", "retry"}, Settle(j, outcome)
  PROVE  Settled(j, Into[outcome])
<1> DEFINE gone == [job[j] EXCEPT !.lease = NoWorker, !.live = FALSE]
           spent == IF gone.attempts > 0 THEN gone.attempts - 1 ELSE 0
           refunded == [gone EXCEPT !.attempts = spent]
           again == [gone EXCEPT !.due = FALSE, !.enqueued = "null"]
<1>1. job[j] \in Row
  BY DEF Split
<1>2. \/ outcome = "canceled" /\ Move(j, "canceled", gone)
      \/ outcome = "paused" /\ Move(j, "paused", refunded)
      \/ outcome = "failed" /\ Move(j, "failed", gone)
      \/ outcome = "retry" /\ Move(j, "queued", again)
  BY DEF Settle
<1>3. gone \in Row /\ again \in Row /\ gone.attempts \in 0..MaxAttempts
  BY <1>1 DEF Row
<1>4. spent \in 0..MaxAttempts
  BY <1>3
<1>5. /\ gone.lease = NoWorker /\ gone.deleted = job[j].deleted
      /\ gone.purged = job[j].purged
  BY <1>1 DEF Row
<1> HIDE DEF gone, spent
<1>6. /\ refunded \in Row
      /\ \A row \in {refunded, again} : /\ row.lease = NoWorker
                                       /\ row.deleted = job[j].deleted
                                       /\ row.purged = job[j].purged
  BY <1>3, <1>4, <1>5 DEF Row
<1> HIDE DEF refunded, again
<1> QED BY <1>2, <1>3, <1>5, <1>6, MoveFields DEF Settled, Into

\* How an attempt that ends settles its job: it does if it holds the lease.
Ends(w, j, outcome) ==
  \/ outcome = "lost" /\ job[j].lease # w /\ job' = job
  \/ /\ outcome \in {"canceled", "paused", "failed", "retry"}
     /\ job[j].lease = w /\ Settled(j, Into[outcome])

LEMMA AttemptEnds ==
  ASSUME Split, NEW w \in Worker, Fenced(w),
         NEW outcome \in {"canceled", "paused", "failed", "retry", "lost"},
         outcome = "lost" <=> job[attempt[w]].lease # w,
         Settle(attempt[w], outcome)
  PROVE  Ends(w, attempt[w], outcome)
<1>1. attempt[w] \in Job /\ SoundRow(job[attempt[w]])
  BY DEF Split, SoundWorker, Fenced
<1>2. CASE outcome = "lost"
  BY <1>2 DEF Settle, Ends
<1>3. CASE outcome # "lost"
  <2>1. job[attempt[w]].status \in LEASED
    BY <1>1, <1>3 DEF SoundRow, Fits
  <2> QED BY <1>1, <1>3, <2>1, SettleFields DEF Ends
<1> QED BY <1>2, <1>3

\* Only the row of the attempt's job is written, and only w moves on.
LEMMA OneWorker ==
  ASSUME Split, NEW w \in Worker, WorkerStep(w)
  PROVE  /\ \A k \in Job \ {attempt[w]} : job'[k] = job[k]
         /\ \A v \in Worker \ {w} : attempt'[v] = attempt[v] /\ phase'[v] = phase[v]
         /\ stalls' = stalls
<1>1. /\ \A v \in Worker \ {w} : attempt'[v] = attempt[v] /\ phase'[v] = phase[v]
      /\ stalls' = stalls
  BY DEF Split, WorkerStep, heartbeat, complete_job, preflight_fail, fail_or_retry,
         finish_stop, mark_purged, Return, Crash, Enter, Leave
<1>2. job' = job \/ \E r : job' = [job EXCEPT ![attempt[w]] = r]
  BY DEF WorkerStep, heartbeat, complete_job, preflight_fail, fail_or_retry,
         finish_stop, mark_purged, Return, Crash, Leave, Settle, Move
<1> QED BY <1>1, <1>2 DEF Split

(***************************************************************************)
(* What a step of an attempt does.                                         *)
(***************************************************************************)

HelpersOK ==
  /\ stray \in [Job -> 0..MaxSurvivors] /\ survivors \in [Job -> 0..MaxSurvivors]
  /\ \A j \in Job : stray[j] <= survivors[j]

\* Who ever left a helper behind stays on record.
Recorded == \A k \in Job : survivors'[k] = 0 => survivors[k] = 0

LEMMA OutlivedHelpers ==
  ASSUME XTypeOK, NEW j, Outlived(j)
  PROVE  HelpersOK' /\ Recorded
<1>1. CASE UNCHANGED helpers
  BY <1>1 DEF XTypeOK, HelpersOK, Recorded, helpers
<1>2. CASE /\ survivors[j] < MaxSurvivors
           /\ stray' = [stray EXCEPT ![j] = @ + 1]
           /\ survivors' = [survivors EXCEPT ![j] = @ + 1]
  <2>1. CASE j \in Job
    <3>1. /\ survivors[j] \in Nat /\ stray[j] \in Nat /\ stray[j] <= survivors[j]
      BY <2>1 DEF XTypeOK
    <3> QED BY <1>2, <2>1, <3>1 DEF XTypeOK, HelpersOK, Recorded
  <2>2. CASE j \notin Job
    <3>1. stray' = stray /\ survivors' = survivors
      BY <1>2, <2>2 DEF XTypeOK
    <3> QED BY <3>1 DEF XTypeOK, HelpersOK, Recorded
  <2> QED BY <2>1, <2>2
<1> QED BY <1>1, <1>2 DEF Outlived

LEMMA AttemptHelpers ==
  ASSUME XTypeOK, NEW w \in Worker, Attempt(w)
  PROVE  HelpersOK' /\ Recorded
<1>1. Outlived(attempt[w])
  <2>1. CASE \/ Fail(w, TRUE, TRUE) \/ Fail(w, TRUE, FALSE)
             \/ Fail(w, FALSE, TRUE) \/ Fail(w, FALSE, FALSE) \/ Succeed(w)
    BY <2>1 DEF Fail, Succeed
  <2>2. CASE Finish(w)
    BY <2>2 DEF Finish, Outlived
  <2>3. CASE \E content \in {"partial", "output"} : Write(w, content)
    BY <2>3 DEF Write, Quiet, Outlived
  <2>4. CASE \/ Refuse(w) \/ Start(w) \/ Control(w) \/ Publish(w) \/ Complete(w)
             \/ Tidy(w) \/ Stop(w) \/ Discard(w) \/ Wipe(w) \/ Mark(w)
    BY <2>4 DEF Refuse, Start, Control, Publish, Complete, Tidy, Stop, Discard, Wipe, Mark,
                Quiet, Outlived
  <2> QED BY <2>1, <2>2, <2>3, <2>4 DEF Attempt
<1> QED BY <1>1, OutlivedHelpers

\* Nothing but w and the job j is touched.
Frame(w, j) ==
  /\ \A v \in Worker \ {w} : /\ attempt'[v] = attempt[v]
                              /\ phase'[v] = phase[v] /\ step'[v] = step[v]
  /\ \A k \in Job \ {j} : /\ job'[k] = job[k] /\ work'[k] = work[k]
                           /\ final'[k] = final[k] /\ charged'[k] = charged[k]
  /\ UNCHANGED <<stalls, sweeping, retries, overlapped>>
  /\ Recorded

\* The attempt goes on, or finds that it has lost the job.
Passes(w, j) ==
  /\ step[w] \in {"check", "process", "commit", "stop", "refused"}
  /\ step'[w] \in {"process", "publish", "refused", "stop", "lost", "discard", "end"}
  /\ phase'[w] # "purge" /\ attempt'[w] = j
  /\ Same(j) /\ work'[j] = work[j] /\ final'[j] = final[j]
  /\ charged'[j] = charged[j] \/ (Fenced(w) /\ job[j].lease = w)

Settles(w, j) ==
  /\ Fenced(w) /\ job[j].lease = w /\ attempt'[w] = j
  /\ step'[w] \in {"end", "discard", "wipe"}
  /\ \E dst \in {"canceled", "paused", "failed", "queued"} :
       /\ Settled(j, dst)
       /\ phase'[w] = "purge" => dst \in {"canceled", "failed"}
  /\ work'[j] = work[j] /\ final'[j] = final[j] /\ charged'[j] = charged[j]

\* The process writes, or its output is moved to its place.
Produces(w, j) ==
  /\ job' = job /\ Fenced(w) /\ attempt'[w] = j /\ charged'[j] = charged[j]
  /\ phase'[w] # "purge"
  /\ \/ step'[w] = "process" /\ final'[j] = final[j] /\ work'[j] # "none"
     \/ step'[w] = "commit" /\ final'[j] /\ work'[j] # "none"

Completes(w, j) ==
  /\ step[w] = "commit" /\ step'[w] = "tidy" /\ attempt'[w] = j
  /\ job[j].lease = w /\ phase'[w] = "done" /\ Fenced(w)
  /\ Settled(j, "completed")
  /\ work'[j] = work[j] /\ final'[j] = final[j]

\* The attempt is over, and removes what it leaves to nobody.
Clears(w, j) ==
  /\ job' = job /\ attempt'[w] = j /\ charged'[j] = charged[j]
  /\ step'[w] \in {"mark", "end"}
  /\ \/ /\ step[w] = "tidy" /\ phase[w] = "done" /\ phase'[w] = "done"
        /\ work'[j] = "none" /\ final'[j] = final[j]
     \/ /\ step[w] = "discard" /\ phase[w] = "done" /\ phase'[w] = "done"
        /\ work'[j] = work[j] /\ final'[j] = FALSE
     \/ /\ step[w] = "wipe" /\ phase[w] = "purge" /\ phase'[w] = "purge"
        /\ work'[j] = "none" /\ final'[j] = FALSE
  /\ step'[w] = "mark" => step[w] = "wipe"

Marks(w, j) ==
  /\ step[w] = "mark" /\ step'[w] = "end" /\ attempt'[w] = j
  /\ phase[w] = "purge" /\ phase'[w] = "done" /\ j \notin sweeping
  /\ job'[j].status = job[j].status /\ job'[j].lease = job[j].lease
  /\ job'[j].aged = (job[j].aged /\ job[j].status # "paused")
  /\ job'[j].deleted = job[j].deleted /\ job'[j].purged
  /\ work'[j] = work[j] /\ final'[j] = final[j] /\ charged'[j] = FALSE

Departs(w, j) ==
  /\ attempt'[w] = NoJob /\ phase'[w] = "idle" /\ step'[w] = "none" /\ job' = job
  /\ work'[j] = work[j] /\ final'[j] = final[j] /\ charged'[j] = charged[j]

\* Only the transactions wait for a sweep that has the row locked.
Effect(w, j) ==
  /\ Frame(w, j)
  /\ \/ Passes(w, j) \/ Produces(w, j) \/ Clears(w, j) \/ Departs(w, j) \/ Marks(w, j)
     \/ j \notin sweeping /\ (Settles(w, j) \/ Completes(w, j))

\* The program of w agrees with the phase its transactions left.
InStep(w) ==
  phase[w] = CASE step[w] = "none" -> "idle"
               [] step[w] \in {"check", "process", "publish", "commit"} -> "run"
               [] step[w] \in {"wipe", "mark"} -> "purge"
               [] step[w] \in {"tidy", "discard", "lost", "end"} -> "done"
               [] step[w] = "refused" -> "cancel"
               [] OTHER -> IF phase[w] = "pause" THEN "pause" ELSE "cancel"

LEMMA AttemptEffect ==
  ASSUME Split, XTypeOK, NEW w \in Worker, Attempt(w)
  PROVE  /\ attempt[w] \in Job /\ Effect(w, attempt[w])
         /\ step'[w] \in Step /\ InStep(w)'
<1> DEFINE j == attempt[w]
<1>0. Recorded
  BY AttemptHelpers
<1>1. InStep(w) /\ step[w] \in Step
  BY DEF XTypeOK, InStep
<1>2. step[w] # "none" => j \in Job /\ phase[w] # "idle"
  BY <1>1 DEF InStep, Split, SoundWorker, Step
<1>3. /\ \A v \in Worker : \A s : step' = [step EXCEPT ![w] = s] =>
           /\ step'[w] = s
           /\ v # w => step'[v] = step[v]
      /\ \A k \in Job \ {j} : \A x :
           /\ work' = [work EXCEPT ![j] = x] => work'[k] = work[k]
           /\ final' = [final EXCEPT ![j] = x] => final'[k] = final[k]
           /\ charged' = [charged EXCEPT ![j] = x] => charged'[k] = charged[k]
      /\ j \in Job => \A x :
           /\ work' = [work EXCEPT ![j] = x] => work'[j] = x
           /\ final' = [final EXCEPT ![j] = x] => final'[j] = x
           /\ charged' = [charged EXCEPT ![j] = x] => charged'[j] = x
  BY DEF XTypeOK
<1>4. CASE Refuse(w)
  <2> DEFINE outcome == FailOutcome(w, FALSE)
  <2>1. /\ WorkerStep(w) /\ phase[w] = "run" /\ Fenced(w)
        /\ Settle(j, outcome) /\ Enter(w, "done")
    BY <1>4 DEF Refuse, preflight_fail, WorkerStep, Fenced
  <2>2. Ends(w, j, outcome)
    BY <2>1, FailDecision, AttemptEnds
  <2> HIDE DEF outcome
  <2>3. /\ step[w] = "check" /\ step' = [step EXCEPT ![w] = "end"] /\ j \in Job
        /\ phase'[w] = "done" /\ attempt'[w] = j /\ j \notin sweeping
        /\ UNCHANGED <<work, final, charged, sweeping, retries, overlapped>>
    BY <1>2, <1>4, <2>1 DEF Refuse, At, Goto, Enter, Split, Unlocked, files, Quiet, Still
  <2>4. step'[w] = "end"
    BY <1>3, <2>3
  <2>5. Frame(w, j)
    BY <1>0, <1>3, <2>1, <2>3, OneWorker DEF Frame
  <2>6. Passes(w, j) \/ Settles(w, j)
    BY <2>1, <2>2, <2>3, <2>4 DEF Ends, Passes, Settles, Same, Into
  <2> QED BY <2>3, <2>4, <2>5, <2>6 DEF Effect, InStep, Step
<1>5. CASE Start(w) \/ Succeed(w)
  <2>1. /\ step[w] \in {"check", "process"} /\ j \in Job /\ UNCHANGED <<vars, files>>
        /\ UNCHANGED <<sweeping, retries, overlapped>>
        /\ \E s \in {"process", "publish"} : step' = [step EXCEPT ![w] = s]
    BY <1>2, <1>5 DEF Start, Succeed, At, Goto, Quiet, Still
  <2>2. Frame(w, j)
    BY <1>0, <1>3, <2>1 DEF Frame, vars, files
  <2>3. phase'[w] = "run" /\ attempt'[w] = j /\ step'[w] \in {"process", "publish"}
    BY <1>1, <1>3, <2>1 DEF InStep, vars
  <2> QED BY <2>1, <2>2, <2>3 DEF Effect, Passes, Same, InStep, Step, vars, files
<1>6. ASSUME NEW content \in {"partial", "output"}, Write(w, content)
      PROVE  j \in Job /\ Effect(w, j) /\ step'[w] \in Step /\ InStep(w)'
  <2>1. /\ step[w] = "process" /\ step' = step /\ j \in Job
        /\ UNCHANGED <<vars, final, charged, sweeping, retries, overlapped>>
        /\ work' = [work EXCEPT ![j] = content]
    BY <1>2, <1>6 DEF Write, At, Quiet, Still
  <2>2. Frame(w, j)
    BY <1>0, <1>3, <2>1 DEF Frame, vars
  <2>3. phase'[w] = "run" /\ Fenced(w) /\ attempt'[w] = j /\ work'[j] = content
    BY <1>1, <1>3, <2>1 DEF InStep, vars, Fenced
  <2> QED BY <2>1, <2>2, <2>3 DEF Effect, Produces, InStep, Step, vars
<1>7. CASE Control(w)
  <2>1. /\ WorkerStep(w) /\ phase[w] = "run" /\ Fenced(w) /\ j \in Job
        /\ phase'[w] \in {"run", "pause", "cancel", "done"} /\ attempt' = attempt
    BY <1>2, <1>7 DEF Control, At, heartbeat, WorkerStep, Fenced, Enter, Split
  <2>2. /\ step[w] = "process" /\ UNCHANGED <<work, final, sweeping, retries, overlapped>>
        /\ charged' = charged \/ (Holds(w) /\ charged' = [charged EXCEPT ![j] = HasFiles(j)])
        /\ step' = [step EXCEPT ![w] = CASE phase'[w] = "run"  -> "process"
                                         [] phase'[w] = "done" -> "end"
                                         [] OTHER              -> "stop"]
    BY <1>7 DEF Control, At, Goto, Quiet, Still
  <2>3. Same(j)
    <3>1. CASE job' = [job EXCEPT ![j].live = TRUE]
      <4> DEFINE r == [job[j] EXCEPT !.live = TRUE]
      <4>1. job' = [job EXCEPT ![j] = r] /\ job[j] \in Row
        BY <2>1, <3>1 DEF Split
      <4>2. /\ r.status = job[j].status /\ r.lease = job[j].lease
            /\ r.aged = job[j].aged /\ r.deleted = job[j].deleted
            /\ r.purged = job[j].purged
        BY <4>1 DEF Row
      <4> HIDE DEF r
      <4> QED BY <2>1, <4>1, <4>2 DEF Same, Split
    <3>2. CASE job' = job
      BY <3>2 DEF Same
    <3> QED BY <1>7, <3>1, <3>2 DEF Control, heartbeat
  <2>4. Frame(w, j)
    BY <1>0, <1>3, <2>1, <2>2, OneWorker DEF Frame
  <2>5. /\ step'[w] \in {"process", "end", "stop"} /\ InStep(w)'
        /\ charged'[j] = charged[j] \/ job[j].lease = w
    <3>1. step'[w] = CASE phase'[w] = "run"  -> "process"
                       [] phase'[w] = "done" -> "end"
                       [] OTHER              -> "stop"
      BY <1>3, <2>2
    <3>2. charged' = charged \/ job[j].lease = w
      BY <2>2 DEF Holds
    <3> QED BY <2>1, <3>1, <3>2 DEF InStep
  <2>6. work'[j] = work[j] /\ final'[j] = final[j] /\ step[w] = "process"
    BY <2>2
  <2>7. Passes(w, j)
    BY <2>1, <2>3, <2>5, <2>6 DEF Passes
  <2> QED BY <2>1, <2>4, <2>5, <2>7 DEF Effect, Step
<1>8. ASSUME NEW retryable \in BOOLEAN, NEW frees \in BOOLEAN, Fail(w, retryable, frees)
      PROVE  j \in Job /\ Effect(w, j) /\ step'[w] \in Step /\ InStep(w)'
  <2> DEFINE outcome == FailOutcome(w, retryable)
             p == IF outcome = "canceled" \/ (outcome = "failed" /\ frees)
                  THEN "purge" ELSE "done"
  <2>1. /\ WorkerStep(w) /\ phase[w] = "run" /\ Fenced(w)
        /\ Settle(j, outcome) /\ Enter(w, p)
    BY <1>8 DEF Fail, fail_or_retry, WorkerStep, Fenced
  <2>2. Ends(w, j, outcome)
    BY <2>1, FailDecision, AttemptEnds
  <2>3. /\ step[w] = "process" /\ j \in Job /\ phase'[w] = p /\ attempt'[w] = j
        /\ step' = [step EXCEPT ![w] = IF phase'[w] = "purge" THEN "wipe" ELSE "end"]
        /\ j \notin sweeping
        /\ UNCHANGED <<work, final, charged, sweeping, retries, overlapped>>
    BY <1>2, <1>8, <2>1 DEF Fail, At, Goto, Enter, Split, Unlocked, files, Quiet, Still
  <2>4. step'[w] = (IF phase'[w] = "purge" THEN "wipe" ELSE "end") /\ InStep(w)'
    BY <1>3, <2>3 DEF InStep
  <2>5. Frame(w, j)
    BY <1>0, <1>3, <2>1, <2>3, OneWorker DEF Frame
  <2>6. Passes(w, j) \/ Settles(w, j)
    BY <2>1, <2>2, <2>3, <2>4 DEF Ends, Passes, Settles, Same, Into
  <2> QED BY <2>3, <2>4, <2>5, <2>6 DEF Effect, Step
<1>9. CASE Publish(w)
  <2>1. /\ step[w] = "publish" /\ step' = [step EXCEPT ![w] = "commit"] /\ j \in Job
        /\ UNCHANGED <<vars, charged, sweeping, retries, overlapped>>
        /\ work' = [work EXCEPT ![j] = "partial"] /\ final' = [final EXCEPT ![j] = TRUE]
    BY <1>2, <1>9 DEF Publish, At, Goto, Quiet, Still
  <2>2. Frame(w, j)
    BY <1>0, <1>3, <2>1 DEF Frame, vars
  <2>3. /\ phase'[w] = "run" /\ Fenced(w) /\ attempt'[w] = j /\ step'[w] = "commit"
        /\ work'[j] = "partial" /\ final'[j] = TRUE
    BY <1>1, <1>3, <2>1 DEF InStep, vars, Fenced
  <2> QED BY <2>1, <2>2, <2>3 DEF Effect, Produces, InStep, Step, vars
<1>10. CASE Complete(w)
  <2>1. /\ WorkerStep(w) /\ phase[w] = "run" /\ Fenced(w) /\ j \in Job
        /\ phase'[w] \in {"done", "cancel"} /\ attempt'[w] = j /\ j \notin sweeping
    BY <1>2, <1>10 DEF Complete, At, complete_job, WorkerStep, Fenced, Enter, Split, Unlocked
  <2>2. /\ step[w] = "commit" /\ UNCHANGED <<work, final, sweeping, retries, overlapped>>
        /\ \/ /\ phase'[w] = "done" /\ step' = [step EXCEPT ![w] = "tidy"]
              /\ charged' = [charged EXCEPT ![j] = TRUE]
           \/ /\ phase'[w] = "cancel" /\ step' = [step EXCEPT ![w] = "refused"]
              /\ charged' = charged
    BY <1>10, <2>1 DEF Complete, At, Goto, Quiet, Still
  <2>3. Frame(w, j)
    BY <1>0, <1>3, <2>1, <2>2, OneWorker DEF Frame
  <2>4. CASE phase'[w] = "done"
    <3> DEFINE row == [job[j] EXCEPT !.lease = NoWorker, !.live = FALSE, !.file = TRUE]
    <3>1. /\ job[j].lease = w /\ job[j].status \in {"running", "pausing"}
          /\ Move(j, "completed", row)
      BY <1>10, <2>1, <2>4 DEF Complete, complete_job, Enter, Split
    <3>2. job[j] \in Row
      BY <2>1 DEF Split
    <3>3. /\ row \in Row /\ row.lease = NoWorker /\ row.deleted = job[j].deleted
          /\ row.purged = job[j].purged
      BY <3>2 DEF Row
    <3> HIDE DEF row
    <3>4. Settled(j, "completed")
      BY <2>1, <3>1, <3>3, MoveFields DEF Settled, LEASED
    <3>5. step'[w] = "tidy" /\ InStep(w)'
      BY <1>3, <2>2, <2>4 DEF InStep
    <3> QED BY <2>1, <2>2, <2>3, <2>4, <3>1, <3>4, <3>5 DEF Effect, Completes, Step
  <2>5. CASE phase'[w] = "cancel"
    <3>1. job' = job
      BY <1>10, <2>1, <2>5 DEF Complete, complete_job, Enter, Split
    <3>2. step'[w] = "refused" /\ InStep(w)'
      BY <1>3, <2>2, <2>5 DEF InStep
    <3> QED BY <2>1, <2>2, <2>3, <2>5, <3>1, <3>2 DEF Effect, Passes, Same, Step
  <2> QED BY <2>1, <2>4, <2>5
<1>11. CASE Tidy(w) \/ Discard(w) \/ Wipe(w)
  <2>1. /\ j \in Job /\ UNCHANGED <<vars, charged, sweeping, retries, overlapped>>
        /\ \/ /\ step[w] = "tidy" /\ step' = [step EXCEPT ![w] = "end"]
              /\ work' = [work EXCEPT ![j] = "none"] /\ final' = final
           \/ /\ step[w] = "discard" /\ step' = [step EXCEPT ![w] = "end"]
              /\ work' = work /\ final' = [final EXCEPT ![j] = FALSE]
           \/ /\ step[w] = "wipe" /\ step' = [step EXCEPT ![w] = "mark"]
              /\ work' = [work EXCEPT ![j] = "none"] /\ final' = [final EXCEPT ![j] = FALSE]
    BY <1>2, <1>11 DEF Tidy, Discard, Wipe, RemoveJobFiles, At, Goto, Quiet, Still
  <2>2. Frame(w, j)
    BY <1>0, <1>3, <2>1 DEF Frame, vars
  <2>3. Clears(w, j) /\ InStep(w)'
    BY <1>1, <1>3, <2>1 DEF Clears, InStep, vars
  <2> QED BY <2>1, <2>2, <2>3 DEF Effect, Clears, Step
<1>12. CASE Stop(w)
  <2> DEFINE outcome == StopOutcome(w, phase[w])
             p == IF outcome = "canceled" THEN "purge" ELSE "done"
  <2>1. /\ WorkerStep(w) /\ phase[w] \in {"pause", "cancel"} /\ Fenced(w)
        /\ Settle(j, outcome) /\ Enter(w, p)
    BY <1>12 DEF Stop, finish_stop, WorkerStep, Fenced
  <2>2. /\ outcome \in {"canceled", "paused", "lost"}
        /\ outcome = "lost" <=> job[j].lease # w
    BY <2>1, StopDecision
  <2> HIDE DEF outcome
  <2>3. Ends(w, j, outcome)
    BY <2>1, <2>2, AttemptEnds
  <2>4. /\ step[w] \in {"stop", "refused"} /\ j \in Job /\ phase'[w] = p /\ attempt'[w] = j
        /\ j \notin sweeping
        /\ UNCHANGED <<work, final, charged, sweeping, retries, overlapped>>
    BY <1>2, <1>12, <2>1 DEF Stop, At, Goto, Enter, Split, Unlocked, files, Quiet, Still
  <2> HIDE DEF p
  <2>5. PICK s \in {"discard", "end", "wipe"} :
          step' = [step EXCEPT ![w] = s] /\ (s = "wipe" <=> p = "purge")
    <3>1. CASE p = "purge"
      BY <1>12, <2>4, <3>1 DEF Stop, Goto
    <3>2. CASE p # "purge"
      BY <1>12, <2>4, <3>2 DEF Stop, Goto
    <3> QED BY <3>1, <3>2
  <2>6. Frame(w, j)
    <3>1. \A v \in Worker \ {w} : step'[v] = step[v]
      BY <1>3, <2>5
    <3> QED BY <1>0, <2>1, <2>4, <3>1, OneWorker DEF Frame
  <2>7. step'[w] = s /\ p \in {"purge", "done"} /\ (p = "purge" <=> outcome = "canceled")
    BY <1>3, <2>5 DEF p
  <2>8. Passes(w, j) \/ Settles(w, j)
    BY <2>1, <2>2, <2>3, <2>4, <2>5, <2>7 DEF Ends, Passes, Settles, Same, Into
  <2>9. InStep(w)'
    BY <2>4, <2>5, <2>7 DEF InStep
  <2> QED BY <2>4, <2>5, <2>6, <2>7, <2>8, <2>9 DEF Effect, Step
<1>13. CASE Mark(w)
  <2> DEFINE kept == job[j].aged /\ job[j].status # "paused"
             r == [job[j] EXCEPT !.purged = TRUE, !.aged = kept]
  <2>1. /\ WorkerStep(w) /\ phase[w] = "purge" /\ j \in Job /\ job[j] \in Row
        /\ job' = [job EXCEPT ![j] = r] /\ Enter(w, "done")
    BY <1>2, <1>13 DEF Mark, At, mark_purged, WorkerStep, Split
  <2>2. /\ r.status = job[j].status /\ r.lease = job[j].lease /\ r.aged = kept
        /\ r.deleted = job[j].deleted /\ r.purged = TRUE
    BY <2>1 DEF Row
  <2> HIDE DEF r
  <2>3. job'[j] = r /\ phase'[w] = "done" /\ attempt'[w] = j
    BY <2>1 DEF Split, Enter
  <2> HIDE DEF kept
  <2>4. /\ step[w] = "mark" /\ step' = [step EXCEPT ![w] = "end"] /\ j \notin sweeping
        /\ charged' = [charged EXCEPT ![j] = FALSE]
        /\ UNCHANGED <<work, final, sweeping, retries, overlapped>>
    BY <1>13 DEF Mark, At, Goto, Unlocked, Quiet, Still
  <2>5. Frame(w, j)
    BY <1>0, <1>3, <2>1, <2>4, OneWorker DEF Frame
  <2>6. step'[w] = "end" /\ charged'[j] = FALSE /\ InStep(w)'
    <3>1. step'[w] = "end"
      BY <1>3, <2>4
    <3>2. charged'[j] = FALSE
      BY <2>1, <2>4 DEF XTypeOK
    <3> QED BY <2>3, <3>1, <3>2 DEF InStep
  <2>7. job'[j].aged = (job[j].aged /\ job[j].status # "paused")
    BY <2>2, <2>3 DEF kept
  <2>8. Marks(w, j)
    BY <2>1, <2>2, <2>3, <2>4, <2>6, <2>7, Zenon DEF Marks
  <2> QED BY <2>1, <2>5, <2>6, <2>8 DEF Effect, Step
<1>14. CASE Finish(w)
  <2>1. WorkerStep(w) /\ Leave(w) /\ phase[w] # "idle"
    BY <1>14 DEF Finish, Return, Crash, WorkerStep
  <2>2. /\ job' = job /\ attempt'[w] = NoJob /\ phase'[w] = "idle" /\ j \in Job
        /\ step' = [step EXCEPT ![w] = "none"]
        /\ UNCHANGED <<work, final, charged, sweeping, retries, overlapped>>
    BY <1>14, <2>1 DEF Finish, Leave, Split, SoundWorker, Goto, files, Quiet, Still
  <2>3. step'[w] = "none" /\ InStep(w)'
    BY <1>3, <2>2 DEF InStep
  <2>4. Frame(w, j)
    BY <1>0, <1>3, <2>1, <2>2, OneWorker DEF Frame
  <2> QED BY <2>2, <2>3, <2>4 DEF Effect, Departs, Step
<1> QED BY <1>4, <1>5, <1>6, <1>7, <1>8, <1>9, <1>10, <1>11, <1>12, <1>13, <1>14 DEF Attempt

(***************************************************************************)
(* What everybody else does.                                               *)
(***************************************************************************)

\* What a claim does to the program of a worker and to the history.
LEMMA ClaimEffect ==
  ASSUME Split, XTypeOK, NEW w \in Worker, NEW j \in Job, Claim(w, j)
  PROVE  /\ phase[w] = "idle" /\ attempt[w] = NoJob
         /\ attempt'[w] = j /\ phase'[w] = "run" /\ step'[w] = "check"
         /\ \A v \in Worker \ {w} : /\ attempt'[v] = attempt[v]
                                     /\ phase'[v] = phase[v] /\ step'[v] = step[v]
         /\ \A k \in Job : /\ k \in overlapped => k \in overlapped'
                           /\ k \in overlapped' => k = j \/ k \in overlapped
         /\ (\E v \in Worker : attempt[v] = j) => j \in overlapped'
         /\ overlapped' \subseteq Job
         /\ UNCHANGED <<files, sweeping, retries, stalls, helpers>>
<1>1. /\ phase[w] = "idle" /\ attempt' = [attempt EXCEPT ![w] = j]
      /\ phase' = [phase EXCEPT ![w] = "run"] /\ step' = [step EXCEPT ![w] = "check"]
      /\ UNCHANGED <<files, sweeping, retries, stalls, helpers>>
  BY DEF Claim, Claimed, Goto
<1>2. /\ attempt[w] = NoJob
      /\ attempt'[w] = j /\ phase'[w] = "run" /\ step'[w] = "check"
      /\ \A v \in Worker \ {w} : /\ attempt'[v] = attempt[v]
                                  /\ phase'[v] = phase[v] /\ step'[v] = step[v]
  BY <1>1 DEF Split, SoundWorker, XTypeOK
<1>3. overlapped' = IF \E v \in Worker : attempt[v] = j
                    THEN overlapped \cup {j} ELSE overlapped
  BY DEF Claim
<1> QED BY <1>1, <1>2, <1>3 DEF XTypeOK

\* A user's request leaves a row that is not finished with, or takes a
\* finished one back (which counts as a retry) or off the list.
Requested(j) ==
  /\ job'[j].lease = job[j].lease
  /\ \/ /\ job[j].status \in {"absent", "queued", "running", "pausing", "paused"}
        /\ job'[j].status \in {"queued", "pausing", "paused", "canceling", "canceled"}
        /\ ~job[j].deleted /\ ~job'[j].deleted /\ ~job'[j].aged
        /\ job'[j].purged => job[j].purged
     \/ /\ job[j].status \in RETRYABLE /\ job'[j].status = "queued"
        /\ ~job[j].deleted /\ ~job'[j].deleted
        /\ retries'[j] = retries[j] + 1
     \/ /\ job[j].status \in TERMINAL /\ job'[j].status = job[j].status
        /\ job'[j].deleted /\ job'[j].aged /\ job'[j].purged = job[j].purged

\* Time passes for the row.
Waits(j) ==
  /\ job'[j].status = job[j].status /\ job'[j].lease = job[j].lease
  /\ job[j].aged => job'[j].aged
  /\ job'[j].deleted = job[j].deleted /\ job'[j].purged = job[j].purged

\* The sweep records that the files of j are gone.
Cleaned(j) ==
  /\ j \in sweeping /\ Sweepable(j)
  /\ \/ job[j].status \in {"completed", "paused"} /\ job'[j].status = "expired"
     \/ /\ job'[j].status = job[j].status /\ job'[j].aged = job[j].aged
        /\ job[j].status \in {"canceled", "expired", "failed"} \/ job[j].deleted
  /\ job'[j].lease = job[j].lease /\ job'[j].deleted = job[j].deleted /\ job'[j].purged

\* Nothing but the job j is touched, and no worker moves.
Beside(j) ==
  /\ UNCHANGED <<attempt, phase, step, overlapped, survivors>>
  /\ stalls' = 0 => stalls = 0
  /\ \A k \in Job \ {j} :
       /\ job'[k] = job[k] /\ work'[k] = work[k] /\ final'[k] = final[k]
       /\ charged'[k] = charged[k] /\ retries'[k] = retries[k]
       /\ k \in sweeping' <=> k \in sweeping

OutsideEffect(j) ==
  /\ Beside(j)
  /\ \/ /\ UNCHANGED <<files, sweeping>> /\ j \notin sweeping /\ Requested(j)
        /\ retries'[j] = 0 => retries[j] = 0
     \/ /\ UNCHANGED <<files, sweeping, retries>> /\ j \notin sweeping
        /\ \E dst \in {"canceled", "paused", "failed", "queued"} : Settled(j, dst)
     \/ UNCHANGED <<files, sweeping, retries>> /\ Waits(j)
     \/ /\ UNCHANGED <<job, charged, retries>> /\ Sweepable(j)
        /\ work'[j] = "none" /\ final'[j] = FALSE
     \/ /\ Cleaned(j) /\ UNCHANGED <<work, final, retries>>
        /\ charged'[j] = FALSE /\ j \notin sweeping'
     \/ UNCHANGED <<job, files, retries>> /\ sweeping' \subseteq sweeping
     \/ /\ UNCHANGED <<job, final, charged, retries, sweeping>>
        /\ survivors[j] > 0 /\ work'[j] # "none"

LEMMA UserEffect ==
  ASSUME Split, XTypeOK, NEW j \in Job, UserOp(j)
  PROVE  OutsideEffect(j)
<1>1. job[j] \in Row /\ Fits(job[j], job[j].status)
  BY DEF Split, SoundRow
<1>2. /\ UNCHANGED <<files, sweeping, attempt, phase, stalls, step, overlapped, survivors>>
      /\ j \notin sweeping
  BY DEF helpers, UserOp, create_job, pause_job, resume_job, cancel_job, retry_job, delete_job,
         workers, Unlocked
<1>3. \A k \in Job \ {j} : job'[k] = job[k] /\ retries'[k] = retries[k]
  <2>1. \E r : job' = [job EXCEPT ![j] = r]
    BY DEF UserOp, create_job, pause_job, resume_job, cancel_job, retry_job, delete_job,
           Move
  <2>2. \A k \in Job \ {j} : retries'[k] = retries[k]
    BY DEF UserOp, XTypeOK
  <2> QED BY <2>1, <2>2 DEF Split
<1>4. Beside(j)
  BY <1>2, <1>3 DEF Beside, files
<1>5. CASE create_job(j) /\ retries' = retries
  <2> DEFINE row == [NoRow EXCEPT !.due = TRUE]
  <2>1. Move(j, "queued", row) /\ job[j].status = "absent" BY <1>5 DEF create_job
  <2>2. /\ row \in Row /\ row.lease = NoWorker /\ row.deleted = FALSE
        /\ row.purged = FALSE
    BY NewRow DEF Row, NoRow
  <2> HIDE DEF row
  <2>3. job[j].lease = NoWorker /\ ~job[j].deleted
    BY <1>1, <2>1 DEF Fits, LEASED, TERMINAL, Row
  <2>4. Requested(j)
    BY <2>1, <2>2, <2>3, MoveFields DEF Requested
  <2> QED BY <1>2, <1>4, <1>5, <2>4 DEF OutsideEffect
<1>6. CASE (pause_job(j) \/ cancel_job(j)) /\ retries' = retries
  <2> DEFINE row == [job[j] EXCEPT !.enqueued = "null"]
  <2>1. /\ row \in Row /\ row.lease = job[j].lease /\ row.deleted = job[j].deleted
        /\ row.purged = job[j].purged
    BY <1>1 DEF Row
  <2>2. /\ \E dst \in {"paused", "pausing", "canceling", "canceled"} :
             Move(j, dst, row) \/ Move(j, dst, job[j])
        /\ job[j].status \in {"queued", "running", "pausing", "paused"} /\ ~job[j].deleted
    BY <1>6 DEF pause_job, cancel_job, Visible
  <2> HIDE DEF row
  <2>3. Requested(j)
    BY <1>1, <2>1, <2>2, MoveFields DEF Requested
  <2> QED BY <1>2, <1>4, <1>6, <2>3 DEF OutsideEffect
<1>7. CASE resume_job(j) /\ retries' = retries
  <2> DEFINE row == [job[j] EXCEPT !.due = TRUE, !.enqueued = "null"]
  <2>1. /\ row \in Row /\ row.lease = job[j].lease /\ row.deleted = job[j].deleted
        /\ row.purged = job[j].purged
    BY <1>1 DEF Row
  <2>2. Move(j, "queued", row) /\ job[j].status = "paused" /\ ~job[j].deleted
    BY <1>7 DEF resume_job, Visible
  <2> HIDE DEF row
  <2>3. Requested(j)
    BY <1>1, <2>1, <2>2, MoveFields DEF Requested
  <2> QED BY <1>2, <1>4, <1>7, <2>3 DEF OutsideEffect
<1>8. CASE retry_job(j) /\ retries' = [retries EXCEPT ![j] = @ + 1]
  <2> DEFINE kept == IF job[j].status = "failed" THEN FALSE ELSE job[j].purged
             row == [job[j] EXCEPT !.attempts = 0, !.due = TRUE, !.enqueued = "null",
                        !.file = FALSE, !.purged = kept]
  <2>1. /\ Move(j, "queued", row) /\ job[j].status \in RETRYABLE
        /\ ~job[j].deleted
    BY <1>8 DEF retry_job, Visible
  <2>2. kept \in BOOLEAN
    BY <1>1 DEF Row
  <2> HIDE DEF kept
  <2>3. 0 \in 0..MaxAttempts
    OBVIOUS
  <2>4. row \in Row /\ row.lease = job[j].lease /\ row.deleted = job[j].deleted
    BY <1>1, <2>2, <2>3 DEF Row
  <2> HIDE DEF row
  <2>5. retries'[j] = retries[j] + 1 /\ retries[j] \in Nat
    BY <1>8 DEF XTypeOK
  <2>6. Requested(j)
    BY <1>1, <2>1, <2>4, <2>5, MoveFields DEF Requested
  <2> QED BY <1>2, <1>4, <2>5, <2>6 DEF OutsideEffect
<1>9. CASE delete_job(j) /\ retries' = retries
  <2> DEFINE r == [job[j] EXCEPT !.deleted = TRUE, !.aged = TRUE]
  <2>1. job' = [job EXCEPT ![j] = r] /\ job[j].status \in TERMINAL
    BY <1>9 DEF delete_job, DELETABLE
  <2>2. /\ r.status = job[j].status /\ r.lease = job[j].lease /\ r.aged = TRUE
        /\ r.deleted = TRUE /\ r.purged = job[j].purged
    BY <1>1 DEF Row
  <2> HIDE DEF r
  <2>3. Requested(j)
    BY <2>1, <2>2 DEF Split, Requested
  <2> QED BY <1>2, <1>4, <1>9, <2>3 DEF OutsideEffect
<1> QED BY <1>5, <1>6, <1>7, <1>8, <1>9 DEF UserOp

LEMMA RecoverEffect ==
  ASSUME Split, NEW j \in Job, Recover(j)
  PROVE  OutsideEffect(j)
<1>1. /\ UNCHANGED <<attempt, phase, step, files, stalls, sweeping, retries, overlapped, survivors>>
      /\ j \notin sweeping /\ job[j].status \in LEASED
  BY DEF helpers, Recover, recover_expired_leases, workers, Unlocked, Quiet, Still
<1>2. \E r : job' = [job EXCEPT ![j] = r]
  BY DEF Recover, recover_expired_leases, Settle, Move, Again, LEASED
<1>3. Beside(j)
  BY <1>1, <1>2 DEF Beside, files, Split
<1>4. \E outcome \in {"canceled", "paused", "failed", "retry"} : Settle(j, outcome)
  BY DEF Recover, recover_expired_leases, Again, LEASED
<1>5. \E dst \in {"canceled", "paused", "failed", "queued"} : Settled(j, dst)
  BY <1>1, <1>4, SettleFields DEF Into
<1> QED BY <1>1, <1>3, <1>5 DEF OutsideEffect

LEMMA ClockEffect ==
  ASSUME Split, NEW j \in Job, Clock(j)
  PROVE  OutsideEffect(j)
<1>1. /\ UNCHANGED <<attempt, phase, step, files, sweeping, retries, overlapped, survivors>>
      /\ stalls' = 0 => stalls = 0 /\ job[j] \in Row
  <2>1. CASE LeaseRunsOut(j)
    BY <2>1 DEF Split, Clock, LeaseRunsOut, Quiet, Still, helpers
  <2>2. CASE BackoffElapses(j) \/ Ages(j)
    BY <2>2 DEF Split, Clock, BackoffElapses, Ages, workers, Quiet, Still, helpers
  <2> QED BY <2>1, <2>2 DEF Clock
<1>2. \E r : /\ job' = [job EXCEPT ![j] = r]
             /\ r.status = job[j].status /\ r.lease = job[j].lease
             /\ job[j].aged => r.aged
             /\ r.deleted = job[j].deleted /\ r.purged = job[j].purged
  <2>0. job[j] \in Row
    BY DEF Split
  <2>1. CASE LeaseRunsOut(j)
    <3> DEFINE r == [job[j] EXCEPT !.live = FALSE]
    <3>1. job' = [job EXCEPT ![j] = r]
      BY <2>1 DEF LeaseRunsOut
    <3>2. /\ r.status = job[j].status /\ r.lease = job[j].lease /\ r.aged = job[j].aged
          /\ r.deleted = job[j].deleted /\ r.purged = job[j].purged
      BY <2>0 DEF Row
    <3> HIDE DEF r
    <3> QED BY <3>1, <3>2
  <2>2. CASE BackoffElapses(j)
    <3> DEFINE r == [job[j] EXCEPT !.due = TRUE]
    <3>1. job' = [job EXCEPT ![j] = r]
      BY <2>2 DEF BackoffElapses
    <3>2. /\ r.status = job[j].status /\ r.lease = job[j].lease /\ r.aged = job[j].aged
          /\ r.deleted = job[j].deleted /\ r.purged = job[j].purged
      BY <2>0 DEF Row
    <3> HIDE DEF r
    <3> QED BY <3>1, <3>2
  <2>3. CASE Ages(j)
    <3> DEFINE r == [job[j] EXCEPT !.aged = TRUE]
    <3>1. job' = [job EXCEPT ![j] = r]
      BY <2>3 DEF Ages
    <3>2. /\ r.status = job[j].status /\ r.lease = job[j].lease /\ r.aged = TRUE
          /\ r.deleted = job[j].deleted /\ r.purged = job[j].purged
      BY <2>0 DEF Row
    <3> HIDE DEF r
    <3> QED BY <3>1, <3>2
  <2> QED BY <2>1, <2>2, <2>3 DEF Clock
<1>3. Beside(j)
  BY <1>1, <1>2 DEF Beside, files, Split
<1>4. Waits(j)
  BY <1>2 DEF Waits, Split
<1> QED BY <1>1, <1>3, <1>4 DEF OutsideEffect

LEMMA SweepEffect ==
  ASSUME Split, XTypeOK, NEW j \in Job,
         SweepRemove(j) \/ SweepCommit(j) \/ SweepDies(j)
  PROVE  OutsideEffect(j)
<1>1. CASE SweepRemove(j)
  <2>1. /\ UNCHANGED <<vars, step, charged, retries, overlapped, survivors>> /\ Sweepable(j)
        /\ work' = [work EXCEPT ![j] = "none"] /\ final' = [final EXCEPT ![j] = FALSE]
        /\ sweeping' = sweeping \cup {j}
    BY <1>1 DEF SweepRemove, RemoveJobFiles, helpers
  <2>2. /\ work'[j] = "none" /\ final'[j] = FALSE
        /\ \A k \in Job \ {j} : work'[k] = work[k] /\ final'[k] = final[k]
    BY <2>1 DEF XTypeOK
  <2>3. Beside(j)
    BY <2>1, <2>2 DEF Beside, vars
  <2> QED BY <2>1, <2>2, <2>3 DEF OutsideEffect, vars
<1>2. CASE SweepCommit(j)
  <2>1. /\ j \in sweeping /\ sweeping' = sweeping \ {j} /\ job'[j].purged
        /\ charged' = [charged EXCEPT ![j] = FALSE]
        /\ UNCHANGED <<attempt, phase, stalls, step, work, final, retries, overlapped, survivors>>
    BY <1>2 DEF helpers, SweepCommit, sweep_expired, sweep_leftover, workers
  <2>2. \E r : job' = [job EXCEPT ![j] = r]
    BY <1>2 DEF SweepCommit, sweep_expired, sweep_leftover, Move
  <2>3. Beside(j) /\ charged'[j] = FALSE
    BY <2>1, <2>2 DEF Beside, Split, XTypeOK
  <2>4. Cleaned(j)
    <3>1. CASE sweep_expired(j)
      <4>1. PICK row \in Purged(job[j]) : Move(j, "expired", row)
        BY <3>1 DEF sweep_expired
      <4>2. /\ row \in Row /\ row.lease = job[j].lease
            /\ row.deleted = job[j].deleted
        BY PurgedRow DEF Split
      <4> QED BY <2>1, <3>1, <4>1, <4>2, MoveFields DEF Cleaned, Sweepable, sweep_expired
    <3>2. CASE sweep_leftover(j)
      <4>1. PICK row \in Purged(job[j]) : job' = [job EXCEPT ![j] = row]
        BY <3>2 DEF sweep_leftover
      <4>2. /\ row \in Row /\ row.lease = job[j].lease /\ row.status = job[j].status
            /\ row.deleted = job[j].deleted
        BY PurgedRow DEF Split
      <4>3. row.aged = job[j].aged
        <5>1. job[j] \in Row
          BY DEF Split
        <5> QED BY <4>1, <5>1 DEF Purged, Row
      <4> QED BY <2>1, <3>2, <4>1, <4>2, <4>3
              DEF Cleaned, Sweepable, sweep_leftover, Leftover, Split
    <3> QED BY <1>2, <3>1, <3>2 DEF SweepCommit
  <2> QED BY <2>1, <2>3, <2>4 DEF OutsideEffect
<1>3. CASE SweepDies(j)
  <2>1. UNCHANGED <<vars, step, files, retries, overlapped, survivors>> /\ sweeping' = sweeping \ {j}
    BY <1>3 DEF SweepDies, helpers
  <2>2. Beside(j)
    BY <2>1 DEF Beside, vars, files
  <2> QED BY <2>1, <2>2 DEF OutsideEffect, vars
<1> QED BY <1>1, <1>2, <1>3

LEMMA StrayEffect ==
  ASSUME Split, XTypeOK, NEW j \in Job, StrayWrites(j) \/ StrayEnds(j)
  PROVE  OutsideEffect(j)
<1>1. CASE StrayWrites(j)
  <2>1. /\ UNCHANGED <<vars, step, final, charged, sweeping, retries, overlapped, survivors>>
        /\ stray[j] > 0 /\ work' = [work EXCEPT ![j] = "partial"]
    BY <1>1 DEF StrayWrites, Quiet, Still, helpers
  <2>2. work'[j] = "partial" /\ \A k \in Job \ {j} : work'[k] = work[k]
    BY <2>1 DEF XTypeOK
  <2>3. survivors[j] > 0
    <3>1. stray[j] \in Nat /\ survivors[j] \in Nat /\ stray[j] <= survivors[j]
      BY DEF XTypeOK
    <3> QED BY <2>1, <3>1
  <2>4. Beside(j)
    BY <2>1, <2>2 DEF Beside, vars
  <2> QED BY <2>1, <2>2, <2>3, <2>4 DEF OutsideEffect, vars
<1>2. CASE StrayEnds(j)
  <2>1. UNCHANGED <<vars, step, files, sweeping, retries, overlapped, survivors>>
    BY <1>2 DEF StrayEnds, Still
  <2>2. Beside(j)
    BY <2>1 DEF Beside, vars, files
  <2> QED BY <2>1, <2>2 DEF OutsideEffect, vars
<1> QED BY <1>1, <1>2

LEMMA XSteps ==
  ASSUME Split, XTypeOK, [XNext]_xvars
  PROVE  \/ \E w \in Worker, j \in Job : attempt[w] = j /\ Effect(w, j)
         \/ \E w \in Worker, j \in Job : Claim(w, j)
         \/ \E j \in Job : OutsideEffect(j)
         \/ UNCHANGED xvars
BY AttemptEffect, UserEffect, RecoverEffect, ClockEffect, SweepEffect, StrayEffect DEF XNext

(***************************************************************************)
(* The program and its phases.                                             *)
(***************************************************************************)

\* The domains and ranges of the variables that hold the files.
FilesOK ==
  /\ work \in [Job -> {"none", "partial", "output"}]
  /\ final \in [Job -> BOOLEAN] /\ charged \in [Job -> BOOLEAN]
  /\ sweeping \subseteq Job /\ overlapped \subseteq Job
  /\ retries \in [Job -> 0..MaxRetries]

LEMMA AttemptFiles ==
  ASSUME XTypeOK, NEW w \in Worker, Attempt(w)
  PROVE  FilesOK' /\ \E s : step' = [step EXCEPT ![w] = s]
<1>1. HasFiles(attempt[w]) \in BOOLEAN
  BY DEF HasFiles
<1>2. step \in [Worker -> Step]
  BY DEF XTypeOK
<1>3. CASE Refuse(w) \/ Start(w) \/ Succeed(w)
  BY <1>3 DEF XTypeOK, FilesOK, Refuse, Start, Succeed, Goto, files, Quiet, Still
<1>4. ASSUME NEW content \in {"partial", "output"}, Write(w, content)
      PROVE  FilesOK' /\ \E s : step' = [step EXCEPT ![w] = s]
  <2>1. step' = [step EXCEPT ![w] = step[w]]
    BY <1>2, <1>4 DEF Write
  <2> QED BY <1>4, <2>1 DEF XTypeOK, FilesOK, Write, Quiet, Still
<1>5. CASE Control(w)
  BY <1>1, <1>5 DEF XTypeOK, FilesOK, Control, Goto, Quiet, Still
<1>6. ASSUME NEW retryable \in BOOLEAN, NEW frees \in BOOLEAN, Fail(w, retryable, frees)
      PROVE  FilesOK' /\ \E s : step' = [step EXCEPT ![w] = s]
  BY <1>6 DEF XTypeOK, FilesOK, Fail, Goto, files, Quiet, Still
<1>7. CASE Publish(w)
  BY <1>7 DEF XTypeOK, FilesOK, Publish, Goto, Quiet, Still
<1>8. CASE Complete(w)
  BY <1>8 DEF XTypeOK, FilesOK, Complete, Goto, Quiet, Still
<1>9. CASE Tidy(w) \/ Discard(w) \/ Wipe(w)
  BY <1>9 DEF XTypeOK, FilesOK, Tidy, Discard, Wipe, RemoveJobFiles, Goto, Quiet, Still
<1>10. CASE Stop(w)
  BY <1>10 DEF XTypeOK, FilesOK, Stop, Goto, files, Quiet, Still
<1>11. CASE Mark(w) \/ Finish(w)
  BY <1>11 DEF XTypeOK, FilesOK, Mark, Finish, Goto, files, Quiet, Still
<1> QED BY <1>3, <1>4, <1>5, <1>6, <1>7, <1>8, <1>9, <1>10, <1>11 DEF Attempt

LEMMA OutsideFiles ==
  ASSUME XTypeOK, NEW j \in Job,
         \/ UserOp(j) \/ Recover(j) \/ Clock(j)
         \/ SweepRemove(j) \/ SweepCommit(j) \/ SweepDies(j)
         \/ StrayWrites(j) \/ StrayEnds(j)
  PROVE  FilesOK' /\ HelpersOK'
<1>1. CASE UserOp(j)
  <2>1. retries' = retries \/ (retries[j] < MaxRetries /\ retries' = [retries EXCEPT ![j] = @ + 1])
    BY <1>1 DEF UserOp
  <2>2. retries' \in [Job -> 0..MaxRetries]
    BY <2>1 DEF XTypeOK
  <2> QED BY <1>1, <2>2 DEF XTypeOK, FilesOK, HelpersOK, UserOp, files, helpers
<1>2. CASE Recover(j) \/ Clock(j)
  BY <1>2 DEF XTypeOK, FilesOK, HelpersOK, Recover, Clock, files, helpers, Quiet, Still
<1>3. CASE SweepRemove(j) \/ SweepCommit(j) \/ SweepDies(j)
  BY <1>3 DEF XTypeOK, FilesOK, HelpersOK, SweepRemove, RemoveJobFiles, SweepCommit,
             SweepDies, files, helpers
<1>4. CASE StrayWrites(j)
  BY <1>4 DEF XTypeOK, FilesOK, HelpersOK, StrayWrites, Quiet, Still, helpers
<1>5. CASE StrayEnds(j)
  <2>1. \A k \in Job : /\ stray[k] \in 0..MaxSurvivors /\ survivors[k] \in 0..MaxSurvivors
                       /\ stray[k] <= survivors[k]
    BY DEF XTypeOK
  <2>2. /\ stray[j] > 0 /\ stray' = [stray EXCEPT ![j] = @ - 1] /\ survivors' = survivors
        /\ UNCHANGED <<files, sweeping, retries, overlapped>>
    BY <1>5 DEF StrayEnds, Still
  <2>3. stray[j] - 1 \in 0..MaxSurvivors /\ stray[j] - 1 <= survivors[j]
    BY <2>1, <2>2
  <2>4. HelpersOK'
    BY <2>1, <2>2, <2>3 DEF XTypeOK, HelpersOK
  <2> QED BY <2>2, <2>4 DEF XTypeOK, FilesOK, files
<1> QED BY <1>1, <1>2, <1>3, <1>4, <1>5

\* At every step the program of a worker agrees with the phase that its
\* transactions left behind, across crashes, refusals and lost leases.
THEOREM ProgramInStep == XSpec => []XTypeOK
<1>1. XInit => XTypeOK
  BY DEF XInit, Init, XTypeOK, Step
<1>2. Split /\ XTypeOK /\ [XNext]_xvars => XTypeOK'
  <2> SUFFICES ASSUME Split, XTypeOK, [XNext]_xvars PROVE XTypeOK'
    OBVIOUS
  <2>0. /\ \A v \in Worker : InStep(v)
        /\ FilesOK' /\ HelpersOK' /\ step' \in [Worker -> Step] /\ (\A v \in Worker : InStep(v)') => XTypeOK'
    BY DEF XTypeOK, InStep, FilesOK, HelpersOK
  <2>1. ASSUME NEW w \in Worker, Attempt(w) PROVE XTypeOK'
    <3>1. /\ attempt[w] \in Job /\ Frame(w, attempt[w])
          /\ step'[w] \in Step /\ InStep(w)'
      BY <2>1, AttemptEffect DEF Effect
    <3>2. FilesOK' /\ HelpersOK' /\ \E s : step' = [step EXCEPT ![w] = s]
      BY <2>1, AttemptFiles, AttemptHelpers
    <3>3. step' \in [Worker -> Step]
      BY <3>1, <3>2 DEF XTypeOK
    <3>4. ASSUME NEW v \in Worker PROVE InStep(v)'
      BY <2>0, <3>1 DEF Frame, InStep
    <3> QED BY <2>0, <3>2, <3>3, <3>4
  <2>2. ASSUME NEW w \in Worker, NEW j \in Job, Claim(w, j) PROVE XTypeOK'
    <3>1. FilesOK' /\ HelpersOK'
      BY <2>2, ClaimEffect DEF XTypeOK, FilesOK, HelpersOK, files, helpers
    <3>2. step' = [step EXCEPT ![w] = "check"]
      BY <2>2 DEF Claim, Goto
    <3>3. step' \in [Worker -> Step]
      BY <3>2 DEF XTypeOK, Step
    <3>4. ASSUME NEW v \in Worker PROVE InStep(v)'
      BY <2>0, <2>2, ClaimEffect DEF InStep
    <3> QED BY <2>0, <3>1, <3>3, <3>4
  <2>3. ASSUME NEW j \in Job,
               \/ UserOp(j) \/ Recover(j) \/ Clock(j)
               \/ SweepRemove(j) \/ SweepCommit(j) \/ SweepDies(j)
               \/ StrayWrites(j) \/ StrayEnds(j)
        PROVE  XTypeOK'
    <3>1. OutsideEffect(j) /\ FilesOK' /\ HelpersOK'
      BY <2>3, UserEffect, RecoverEffect, ClockEffect, SweepEffect, StrayEffect, OutsideFiles
    <3>2. step' = step /\ phase' = phase
      BY <3>1 DEF OutsideEffect, Beside
    <3>3. \A v \in Worker : InStep(v)'
      BY <2>0, <3>2 DEF InStep
    <3> QED BY <2>0, <3>1, <3>2, <3>3 DEF XTypeOK
  <2>4. CASE UNCHANGED xvars
    BY <2>4 DEF XTypeOK, xvars, vars, files, helpers
  <2> QED BY <2>1, <2>2, <2>3, <2>4 DEF XNext
<1> QED BY <1>1, <1>2, XInvariance, PTL DEF XSpec

LEMMA AstrayInvariance == XSpec => []AstrayPaid
<1>1. XInit => AstrayPaid
  <2> SUFFICES ASSUME XInit PROVE AstrayPaid
    OBVIOUS
  <2>1. Astray = {} /\ stalls = 0
    BY DEF XInit, Init, Astray, Engaged, Fenced
  <2> QED BY <2>1, FS_EmptySet DEF AstrayPaid
<1>2. Split /\ XTypeOK /\ AstrayPaid /\ [XNext]_xvars => AstrayPaid'
  <2> SUFFICES ASSUME Split, XTypeOK, AstrayPaid, [XNext]_xvars PROVE AstrayPaid'
    OBVIOUS
  <2>1. stalls \in Nat /\ Cardinality(Astray) \in Nat
    BY FS_CardinalityType DEF Split, AstrayPaid
  <2>2. CASE Astray' \subseteq Astray /\ stalls' = stalls
    <3>1. /\ IsFiniteSet(Astray') /\ Cardinality(Astray') <= Cardinality(Astray)
          /\ Cardinality(Astray') \in Nat
      BY <2>2, FS_Subset, FS_CardinalityType DEF AstrayPaid
    <3> QED BY <2>1, <2>2, <3>1 DEF AstrayPaid
  <2>3. ASSUME stalls' = stalls + 1, NEW v \in Worker, Astray' \subseteq Astray \cup {v}
        PROVE  AstrayPaid'
    <3>1. /\ IsFiniteSet(Astray \cup {v}) /\ Cardinality(Astray \cup {v}) \in Nat
          /\ Cardinality(Astray \cup {v}) <= Cardinality(Astray) + 1
      <4>1. /\ IsFiniteSet(Astray \cup {v})
            /\ \/ Cardinality(Astray \cup {v}) = Cardinality(Astray)
               \/ Cardinality(Astray \cup {v}) = Cardinality(Astray) + 1
        BY FS_AddElement DEF AstrayPaid
      <4> QED BY <2>1, <4>1
    <3>2. /\ IsFiniteSet(Astray') /\ Cardinality(Astray') <= Cardinality(Astray \cup {v})
          /\ Cardinality(Astray') \in Nat
      BY <2>3, <3>1, FS_Subset, FS_CardinalityType
    <3> QED BY <2>1, <2>3, <3>1, <3>2 DEF AstrayPaid
  <2> QED BY <2>2, <2>3, AstraySteps
<1> QED BY <1>1, <1>2, XInvariance, ProgramInStep, PTL DEF XSpec

LEMMA LeasesHeld == XSpec => []HeldUnlessStalled
BY PaidIsHeld, AstrayInvariance, XInvariance, PTL

\* Every process group beyond the first in the work directory of a job is paid
\* for, by a lease that ran out under a live worker or by a helper that
\* outlived its leader.
THEOREM NoTwoProcesses == XSpec => []OneProcess
<1>1. Split /\ XTypeOK /\ AstrayPaid => OneProcess
  <2> SUFFICES ASSUME Split, XTypeOK, AstrayPaid, NEW j \in Job
               PROVE  Groups(j) <= 1 + stalls + survivors[j]
    BY DEF OneProcess
  <2> DEFINE here == {w \in Worker : attempt[w] = j /\ HasGroup(w)}
             owner == job[j].lease
  <2>1. here \subseteq Astray \cup {owner}
    <3> SUFFICES ASSUME NEW w \in Worker, attempt[w] = j, HasGroup(w), w \notin Astray
                 PROVE  w = owner
      OBVIOUS
    <3>1. Engaged(w)
      BY DEF HasGroup, Engaged, Fenced, XTypeOK
    <3> QED BY <3>1 DEF Astray
  <2>2. /\ IsFiniteSet(Astray \cup {owner})
        /\ \/ Cardinality(Astray \cup {owner}) = Cardinality(Astray)
           \/ Cardinality(Astray \cup {owner}) = Cardinality(Astray) + 1
    BY FS_AddElement DEF AstrayPaid
  <2>3. /\ Cardinality(here) <= Cardinality(Astray \cup {owner})
        /\ Cardinality(here) \in Nat /\ Cardinality(Astray) \in Nat
    BY <2>1, <2>2, FS_Subset, FS_CardinalityType DEF AstrayPaid
  <2>4. /\ stray[j] \in Nat /\ survivors[j] \in Nat /\ stalls \in Nat
        /\ stray[j] <= survivors[j] /\ Cardinality(Astray) <= stalls
    BY DEF XTypeOK, Split, AstrayPaid
  <2>5. Groups(j) = Cardinality(here) + stray[j]
    BY DEF Groups
  <2> HIDE DEF here, owner
  <2> QED BY <2>2, <2>3, <2>4, <2>5
<1> QED BY <1>1, XInvariance, ProgramInStep, AstrayInvariance, PTL

(***************************************************************************)
(* The file of a completed job.                                            *)
(***************************************************************************)

\* A job that was never claimed over an older attempt has one attempt, which
\* alone can hold its lease; it finds the file in its place when it commits,
\* and has nothing left but the work directory when the job is completed.
Alone(j) ==
  j \notin overlapped =>
    \A w \in Worker : attempt[w] = j =>
      /\ \A v \in Worker : attempt[v] = j => v = w
      /\ job[j].lease \in {w, NoWorker}
      /\ step[w] = "commit" /\ job[j].lease = w => final[j]
      /\ job[j].status = "completed" => step[w] \in {"tidy", "end"}

\* The file outlives the completion, and a removed job is the sweep's.
Kept(j) ==
  /\ job[j].deleted /\ job[j].status = "completed" => job[j].aged
  /\ j \notin overlapped /\ job[j].status = "completed" /\ ~job[j].aged => final[j]

FileInv == \A j \in Job : Alone(j) /\ Kept(j)

\* A job that neither the sweep nor an attempt touches keeps its file.
LEMMA FileFrame ==
  ASSUME FileInv, NEW k \in Job, job'[k] = job[k], final'[k] = final[k],
         k \in overlapped => k \in overlapped',
         \A v \in Worker : attempt'[v] = k => /\ attempt[v] = k /\ step'[v] = step[v]
  PROVE  Alone(k)' /\ Kept(k)'
BY DEF FileInv, Alone, Kept

LEMMA FileAttempt ==
  ASSUME Split, Split', XTypeOK, FileInv, NEW w \in Worker, NEW j \in Job,
         attempt[w] = j, Effect(w, j)
  PROVE  FileInv'
<1>1. Frame(w, j) /\ attempt'[w] \in {j, NoJob}
  BY DEF Effect, Passes, Produces, Clears, Departs, Marks, Settles, Completes
<1>2. ASSUME NEW k \in Job \ {j} PROVE Alone(k)' /\ Kept(k)'
  BY <1>1, FileFrame DEF Frame
<1>3. /\ \A v \in Worker : attempt'[v] = j => attempt[v] = j
      /\ \A v \in Worker \ {w} : step'[v] = step[v] /\ attempt'[v] = attempt[v]
      /\ overlapped' = overlapped /\ Alone(j) /\ Kept(j)
  BY <1>1 DEF Frame, FileInv
<1>4. \A v \in Worker : Fenced(v) => step[v] \in {"check", "process", "publish", "commit",
                                                "stop", "refused"}
  BY DEF XTypeOK, Fenced, Step
<1>5. job[j].status = "completed" => job[j].lease = NoWorker
  BY DEF Split, SoundRow, Fits, LEASED
<1>6. Alone(j)' /\ Kept(j)'
  <2>1. CASE Passes(w, j)
    BY <1>3, <2>1 DEF Passes, Same, Alone, Kept
  <2>2. CASE Produces(w, j)
    BY <1>3, <1>4, <2>2 DEF Produces, Alone, Kept
  <2>3. CASE Clears(w, j)
    BY <1>3, <2>3 DEF Clears, Alone, Kept
  <2>4. CASE Departs(w, j)
    <3>1. Kept(j)'
      BY <1>3, <2>4 DEF Departs, Kept
    <3>2. Alone(j)'
      BY <1>3, <2>4 DEF Departs, Alone
    <3> QED BY <3>1, <3>2
  <2>5. CASE Marks(w, j)
    BY <1>3, <2>5 DEF Marks, Alone, Kept
  <2>6. CASE Settles(w, j)
    BY <1>3, <2>6 DEF Settles, Settled, Alone, Kept
  <2>7. CASE Completes(w, j)
    <3>1. ~job[j].deleted
      BY <2>7 DEF Split, SoundRow, Fits, Completes, Settled, LEASED, TERMINAL
    <3>2. Kept(j)'
      BY <1>3, <2>7, <3>1 DEF Completes, Settled, Alone, Kept
    <3>3. Alone(j)'
      BY <1>3, <2>7 DEF Completes, Settled, Alone
    <3> QED BY <3>2, <3>3
  <2> QED BY <2>1, <2>2, <2>3, <2>4, <2>5, <2>6, <2>7 DEF Effect
<1> QED BY <1>2, <1>6 DEF FileInv

LEMMA FileClaim ==
  ASSUME Split, XTypeOK, FileInv, NEW w \in Worker, NEW j \in Job, Claim(w, j)
  PROVE  FileInv'
<1>1. Claimed(w, j)
  BY DEF Claim
<1>2. ASSUME NEW k \in Job \ {j} PROVE Alone(k)' /\ Kept(k)'
  <2>1. /\ job'[k] = job[k] /\ final'[k] = final[k]
        /\ \A v \in Worker : attempt'[v] = k => attempt[v] = k /\ step'[v] = step[v]
    BY <1>1, ClaimedRow, ClaimEffect DEF files
  <2> QED BY <2>1, ClaimEffect, FileFrame
<1>3. Kept(j)'
  BY <1>1, ClaimedRow DEF Kept
<1>4. Alone(j)'
  <2>1. /\ job'[j].lease = w /\ job'[j].status = "running" /\ step'[w] = "check"
    BY <1>1, ClaimedRow, ClaimEffect
  <2>2. j \notin overlapped' => \A v \in Worker : attempt'[v] = j => v = w
    BY ClaimEffect
  <2> QED BY <2>1, <2>2 DEF Alone
<1> QED BY <1>2, <1>3, <1>4 DEF FileInv

LEMMA FileOutside ==
  ASSUME Split, Split', FileInv, NEW j \in Job, OutsideEffect(j)
  PROVE  FileInv'
<1>1. Beside(j) /\ Alone(j) /\ Kept(j)
  BY DEF OutsideEffect, FileInv
<1>2. ASSUME NEW k \in Job \ {j} PROVE Alone(k)' /\ Kept(k)'
  BY <1>1, FileFrame DEF Beside
<1>3. /\ step' = step /\ attempt' = attempt /\ overlapped' = overlapped
  BY <1>1 DEF Beside
<1>4. /\ \A w \in Worker : job[j].lease = w => job[j].status \in LEASED
      /\ job[j].deleted => job[j].status \in TERMINAL
  BY DEF Split, SoundRow, Fits
<1>5. Alone(j)' /\ Kept(j)'
  <2>1. CASE final' = final /\ Requested(j)
    BY <1>1, <1>3, <2>1 DEF Requested, Alone, Kept, RETRYABLE, TERMINAL
  <2>2. CASE final' = final /\ \E dst \in {"canceled", "paused", "failed", "queued"} : Settled(j, dst)
    BY <1>1, <1>3, <2>2 DEF Settled, Alone, Kept
  <2>3. CASE final' = final /\ Waits(j)
    BY <1>1, <1>3, <2>3 DEF Waits, Alone, Kept
  <2>4. CASE job' = job /\ Sweepable(j)
    <3>1. ~(job[j].status \in LEASED) /\ (job[j].status = "completed" => job[j].aged)
      BY <1>1, <1>4, <2>4 DEF Sweepable, Leftover, Kept, LEASED, TERMINAL
    <3> QED BY <1>1, <1>3, <1>4, <2>4, <3>1 DEF Alone, Kept
  <2>5. CASE final' = final /\ Cleaned(j)
    BY <1>1, <1>3, <2>5 DEF Cleaned, Alone, Kept
  <2>6. CASE final' = final /\ job' = job
    BY <1>1, <1>3, <2>6 DEF Alone, Kept
  <2> QED BY <2>1, <2>2, <2>3, <2>4, <2>5, <2>6 DEF OutsideEffect, files
<1> QED BY <1>2, <1>5 DEF FileInv

LEMMA FileInvariance == XSpec => []FileInv
<1>1. XInit => FileInv
  BY DEF XInit, Init, NoRow, FileInv, Alone, Kept
<1>2. Split /\ Split' /\ XTypeOK /\ FileInv /\ [XNext]_xvars => FileInv'
  <2> SUFFICES ASSUME Split, Split', XTypeOK, FileInv, [XNext]_xvars PROVE FileInv'
    OBVIOUS
  <2>1. CASE UNCHANGED xvars
    BY <2>1 DEF FileInv, Alone, Kept, xvars, vars, files
  <2> QED BY <2>1, XSteps, FileAttempt, FileClaim, FileOutside
<1> QED BY <1>1, <1>2, XInvariance, ProgramInStep, PTL DEF XSpec

\* A job shown as completed has its file until its retention is over,
\* wherever attempts, users and sweeps were interrupted, unless it was
\* claimed while an older attempt of it was still going on.
THEOREM FileStays == XSpec => []CompletedKeepsFile
<1>1. FileInv => CompletedKeepsFile
  BY DEF FileInv, Kept, CompletedKeepsFile
<1> QED BY <1>1, FileInvariance, PTL

\* Nobody removes the work directory of a job that a worker holds: an attempt
\* clears only after it has let go, and the sweep takes only what is over.
THEOREM WorkStays == XSpec => WorkNotPulledAway
<1> DEFINE Stays == \A j \in Job \ overlapped :
             job[j].status \in LEASED /\ job'[j].status \in LEASED /\ work[j] # "none"
               => work'[j] # "none"
<1>1. IInv /\ XTypeOK /\ FileInv /\ [XNext]_xvars => [Stays]_xvars
  <2> SUFFICES ASSUME IInv, XTypeOK, FileInv, XNext, NEW j \in Job \ overlapped,
                      job[j].status \in LEASED, work[j] # "none", work'[j] = "none"
               PROVE  FALSE
    OBVIOUS
  <2>0. Split
    BY SplitIInv
  <2>1. ASSUME NEW w \in Worker, NEW k \in Job, attempt[w] = k, Effect(w, k) PROVE FALSE
    <3>1. attempt[w] = j /\ k = j
      BY <2>1 DEF Effect, Frame
    <3>2. phase[w] \in {"purge", "done"}
      BY <2>1, <3>1 DEF Effect, Passes, Produces, Clears, Departs, Marks, Settles, Completes
    <3>3. job[j].lease # w
      BY <3>1, <3>2 DEF IInv, SettledLetsGo
    <3>4. job[j].lease = w
      <4>1. job[j].lease # NoWorker
        BY <2>0 DEF Split, SoundRow, Fits
      <4> QED BY <3>1, <4>1 DEF FileInv, Alone
    <3> QED BY <3>3, <3>4
  <2>2. ASSUME NEW w \in Worker, NEW k \in Job, Claim(w, k) PROVE FALSE
    BY <2>0, <2>2, ClaimEffect DEF files
  <2>3. ASSUME NEW k \in Job, OutsideEffect(k) PROVE FALSE
    <3>1. k = j /\ Sweepable(j)
      BY <2>3 DEF OutsideEffect, Beside, files, Cleaned
    <3>2. job[j].deleted => job[j].status \in TERMINAL
      BY DEF IInv, DeletedIsTerminal
    <3> QED BY <3>1, <3>2 DEF Sweepable, Leftover, LEASED, TERMINAL
  <2>4. ~UNCHANGED xvars
    BY DEF xvars, files
  <2> QED BY <2>0, <2>1, <2>2, <2>3, <2>4, XSteps
<1> QED BY <1>1, ExecutorRefines, Invariance, ProgramInStep, FileInvariance, PTL
       DEF XSpec, WorkNotPulledAway

(***************************************************************************)
(* What is left of a finished job.                                         *)
(***************************************************************************)

\* While the sweep has the row locked it stays the sweep's, and nobody puts a
\* file back.
Locked(j) ==
  j \in sweeping => Sweepable(j) /\ (stalls = 0 => ~OwnFiles(j))

\* A purged job is finished and has neither files nor a charge; an attempt
\* that is about to mark it so has removed the files, and the job has not
\* gone on meanwhile.
Cleared(j) ==
  retries[j] = 0 /\ stalls = 0 =>
    /\ job[j].purged => /\ job[j].status \in {"canceled", "expired", "failed"} \/ job[j].deleted
                        /\ ~OwnFiles(j) /\ ~charged[j]
    /\ \A w \in Worker : attempt[w] = j =>
         /\ phase[w] = "purge" => job[j].status \in {"canceled", "failed"}
         /\ step[w] = "mark" => ~OwnFiles(j)

LeakInv == \A j \in Job : Locked(j) /\ Cleared(j)

LEMMA LeakFrame ==
  ASSUME LeakInv, NEW k \in Job, job'[k] = job[k], stalls' = 0 => stalls = 0,
         work'[k] = work[k], final'[k] = final[k], charged'[k] = charged[k],
         retries'[k] = retries[k], k \in sweeping' => k \in sweeping,
         survivors'[k] = 0 => survivors[k] = 0,
         \A v \in Worker : attempt'[v] = k => /\ attempt[v] = k
                                             /\ phase'[v] = phase[v] /\ step'[v] = step[v]
  PROVE  Locked(k)' /\ Cleared(k)'
BY DEF LeakInv, Locked, Cleared, Sweepable, Leftover, OwnFiles

\* A job with a lease is neither purged nor the sweep's, and nobody is about
\* to purge it.
LEMMA LeasedIsClear ==
  ASSUME Split, LeakInv, NEW j \in Job, job[j].lease # NoWorker
  PROVE  /\ job[j].status \in LEASED /\ ~Sweepable(j) /\ j \notin sweeping
         /\ retries[j] = 0 /\ stalls = 0 =>
              /\ ~job[j].purged
              /\ \A w \in Worker : attempt[w] = j => phase[w] # "purge"
<1>1. job[j].status \in LEASED /\ (job[j].deleted => job[j].status \in TERMINAL)
  BY DEF Split, SoundRow, Fits
<1>2. ~Sweepable(j)
  BY <1>1 DEF Sweepable, Leftover, LEASED, TERMINAL
<1> QED BY <1>1, <1>2 DEF LeakInv, Locked, Cleared, LEASED, TERMINAL

LEMMA LeakAttempt ==
  ASSUME Split, XTypeOK, HeldUnlessStalled, LeakInv, NEW w \in Worker, NEW j \in Job,
         attempt[w] = j, Effect(w, j)
  PROVE  LeakInv'
<1>1. Frame(w, j) /\ attempt'[w] \in {j, NoJob}
  BY DEF Effect, Passes, Produces, Clears, Departs, Marks, Settles, Completes
<1>2. ASSUME NEW k \in Job \ {j} PROVE Locked(k)' /\ Cleared(k)'
  BY <1>1, LeakFrame DEF Frame, Recorded
<1>3. /\ \A v \in Worker \ {w} : /\ attempt'[v] = attempt[v]
                                 /\ phase'[v] = phase[v] /\ step'[v] = step[v]
      /\ stalls' = stalls /\ sweeping' = sweeping /\ retries' = retries
      /\ Locked(j) /\ Cleared(j) /\ (survivors'[j] = 0 => survivors[j] = 0)
  BY <1>1 DEF Frame, Recorded, LeakInv
<1>4. \A v \in Worker : step[v] \in {"wipe", "mark"} => phase[v] = "purge"
  BY DEF XTypeOK
<1>5. Fenced(w) /\ stalls = 0 => job[j].lease = w
  BY DEF HeldUnlessStalled
<1>6. Locked(j)'
  <2>1. CASE Passes(w, j)
    BY <1>3, <2>1 DEF Passes, Same, Locked, Sweepable, Leftover, OwnFiles
  <2>2. CASE Produces(w, j)
    <3>1. stalls = 0 => j \notin sweeping
      BY <1>5, <2>2, LeasedIsClear DEF Produces
    <3> QED BY <1>3, <2>2, <3>1 DEF Produces, Locked, Sweepable, Leftover
  <2>3. CASE Clears(w, j) \/ Departs(w, j)
    BY <1>3, <2>3 DEF Clears, Departs, Locked, Sweepable, Leftover, OwnFiles
  <2>4. CASE j \notin sweeping
    BY <1>3, <2>4 DEF Locked
  <2> QED BY <2>1, <2>2, <2>3, <2>4 DEF Effect, Marks
<1>7. Cleared(j)'
  <2> SUFFICES ASSUME retries[j] = 0, stalls = 0 PROVE Cleared(j)'
    BY <1>3 DEF Cleared
  <2>0. ASSUME job[j].lease = w
        PROVE  /\ ~job[j].purged /\ \A v \in Worker : attempt[v] = j => phase[v] # "purge"
               /\ \A v \in Worker : attempt[v] = j => step[v] # "mark"
    BY <1>4, <2>0, LeasedIsClear
  <2>1. CASE Passes(w, j)
    BY <1>3, <2>0, <2>1 DEF Passes, Same, Cleared, OwnFiles
  <2>2. CASE Produces(w, j)
    BY <1>3, <1>5, <2>0, <2>2 DEF Produces, Cleared
  <2>3. CASE Clears(w, j)
    BY <1>3, <2>3 DEF Clears, Cleared, OwnFiles
  <2>4. CASE Departs(w, j)
    BY <1>3, <2>4 DEF Departs, Cleared, OwnFiles
  <2>5. CASE Marks(w, j)
    BY <1>3, <2>5 DEF Marks, Cleared, OwnFiles
  <2>6. CASE Settles(w, j)
    BY <1>3, <2>0, <2>6 DEF Settles, Settled, Cleared
  <2>7. CASE Completes(w, j)
    BY <1>3, <2>0, <2>7 DEF Completes, Settled, Cleared
  <2> QED BY <2>1, <2>2, <2>3, <2>4, <2>5, <2>6, <2>7 DEF Effect
<1> QED BY <1>2, <1>6, <1>7 DEF LeakInv

LEMMA LeakClaim ==
  ASSUME Split, XTypeOK, LeakInv, NEW w \in Worker, NEW j \in Job, Claim(w, j)
  PROVE  LeakInv'
<1>1. /\ Claimed(w, j) /\ j \notin sweeping
      /\ job[j].status = "queued" /\ ~job[j].deleted
  BY DEF Claim, Unlocked, Claimed
<1>2. /\ stalls' = stalls /\ sweeping' = sweeping /\ retries' = retries
      /\ work' = work /\ final' = final /\ charged' = charged
      /\ survivors' = survivors
  BY ClaimEffect DEF files, helpers
<1>3. ASSUME NEW k \in Job \ {j} PROVE Locked(k)' /\ Cleared(k)'
  <2>1. /\ job'[k] = job[k]
        /\ \A v \in Worker : attempt'[v] = k => /\ attempt[v] = k
                                               /\ phase'[v] = phase[v] /\ step'[v] = step[v]
    BY <1>1, ClaimedRow, ClaimEffect
  <2> QED BY <1>2, <2>1, LeakFrame
<1>4. Locked(j)'
  BY <1>1, <1>2 DEF Locked
<1>5. Cleared(j)'
  <2>1. job'[j].purged = job[j].purged
    BY <1>1, ClaimedRow
  <2>2. Cleared(j) /\ \A v \in Worker : step[v] = "mark" => phase[v] = "purge"
    BY DEF LeakInv, XTypeOK
  <2>3. \A v \in Worker : attempt'[v] = j => \/ phase'[v] = "run" /\ step'[v] = "check"
                                            \/ /\ attempt[v] = j
                                               /\ phase'[v] = phase[v] /\ step'[v] = step[v]
    BY ClaimEffect
  <2> QED BY <1>1, <1>2, <2>1, <2>2, <2>3 DEF Cleared
<1> QED BY <1>3, <1>4, <1>5 DEF LeakInv

LEMMA LeakOutside ==
  ASSUME Split, XTypeOK, LeakInv, NEW j \in Job, OutsideEffect(j)
  PROVE  LeakInv'
<1>1. Beside(j) /\ Locked(j) /\ Cleared(j)
  BY DEF OutsideEffect, LeakInv
<1>2. ASSUME NEW k \in Job \ {j} PROVE Locked(k)' /\ Cleared(k)'
  BY <1>1, LeakFrame DEF Beside
<1>3. /\ step' = step /\ attempt' = attempt /\ phase' = phase
      /\ survivors' = survivors /\ (stalls' = 0 => stalls = 0)
  BY <1>1 DEF Beside
<1>4. Locked(j)' /\ Cleared(j)'
  <2>1. CASE /\ UNCHANGED <<files, sweeping>> /\ j \notin sweeping /\ Requested(j)
             /\ retries'[j] = 0 => retries[j] = 0
    <3>1. Locked(j)'
      BY <2>1 DEF Locked
    <3>2. retries[j] \in Nat
      BY DEF XTypeOK
    <3>3. CASE retries'[j] = retries[j] + 1
      BY <3>1, <3>2, <3>3 DEF Cleared
    <3>4. CASE /\ job[j].status \in {"absent", "queued", "running", "pausing", "paused"}
               /\ ~job[j].deleted /\ (job'[j].purged => job[j].purged)
      <4>1. \A v \in Worker : step[v] = "mark" => phase[v] = "purge"
        BY DEF XTypeOK
      <4> QED BY <1>1, <1>3, <2>1, <3>1, <3>4, <4>1 DEF Cleared, files
    <3>5. CASE /\ job'[j].status = job[j].status
               /\ job'[j].deleted /\ job'[j].purged = job[j].purged
      BY <1>1, <1>3, <2>1, <3>1, <3>5 DEF Cleared, files, OwnFiles
    <3> QED BY <2>1, <3>1, <3>3, <3>4, <3>5 DEF Requested
  <2>2. CASE /\ UNCHANGED <<files, sweeping, retries>> /\ j \notin sweeping
             /\ \E dst \in {"canceled", "paused", "failed", "queued"} : Settled(j, dst)
    <3>1. job[j].lease # NoWorker /\ job'[j].purged = job[j].purged
      BY <2>2 DEF Settled, Split, SoundRow, Fits
    <3>2. \A v \in Worker : step[v] = "mark" => phase[v] = "purge"
      BY DEF XTypeOK
    <3> QED BY <1>1, <1>3, <2>2, <3>1, <3>2, LeasedIsClear DEF Locked, Cleared
  <2>3. CASE UNCHANGED <<files, sweeping, retries>> /\ Waits(j)
    BY <1>1, <1>3, <2>3 DEF Waits, Locked, Cleared, Sweepable, Leftover, OwnFiles, files
  <2>4. CASE /\ UNCHANGED <<job, charged, retries>> /\ Sweepable(j)
             /\ work'[j] = "none" /\ final'[j] = FALSE
    BY <1>1, <1>3, <2>4 DEF Locked, Cleared, Sweepable, Leftover, OwnFiles
  <2>5. CASE /\ Cleaned(j) /\ UNCHANGED <<work, final, retries>>
             /\ charged'[j] = FALSE /\ j \notin sweeping'
    BY <1>1, <1>3, <2>5 DEF Cleaned, Locked, Cleared, OwnFiles
  <2>6. CASE UNCHANGED <<job, files, retries>> /\ sweeping' \subseteq sweeping
    BY <1>1, <1>3, <2>6 DEF Locked, Cleared, Sweepable, Leftover, OwnFiles, files
  <2>7. CASE /\ UNCHANGED <<job, final, charged, retries, sweeping>>
             /\ survivors[j] > 0 /\ work'[j] # "none"
    BY <1>1, <1>3, <2>7 DEF Locked, Cleared, Sweepable, Leftover, OwnFiles
  <2> QED BY <2>1, <2>2, <2>3, <2>4, <2>5, <2>6, <2>7 DEF OutsideEffect
<1> QED BY <1>2, <1>4 DEF LeakInv

LEMMA LeakInvariance == XSpec => []LeakInv
<1>1. XInit => LeakInv
  BY DEF XInit, Init, NoRow, LeakInv, Locked, Cleared, OwnFiles
<1>2. Split /\ XTypeOK /\ HeldUnlessStalled /\ LeakInv /\ [XNext]_xvars => LeakInv'
  <2> SUFFICES ASSUME Split, XTypeOK, HeldUnlessStalled, LeakInv, [XNext]_xvars
               PROVE  LeakInv'
    OBVIOUS
  <2>1. CASE UNCHANGED xvars
    BY <2>1 DEF LeakInv, Locked, Cleared, Sweepable, Leftover, OwnFiles, xvars, vars, files, helpers
  <2> QED BY <2>1, XSteps, LeakAttempt, LeakClaim, LeakOutside
<1> QED BY <1>1, <1>2, XInvariance, ProgramInStep, LeasesHeld, PTL DEF XSpec

\* What remains of a finished job, files or a charge, is still on the sweep's
\* list, wherever workers, users and earlier sweeps were interrupted.
THEOREM NothingLeaks == XSpec => []SweepFindsRemains
<1>1. LeakInv => SweepFindsRemains
  BY DEF LeakInv, Cleared, SweepFindsRemains, Remains, Leftover
<1> QED BY <1>1, LeakInvariance, PTL
=============================================================================
