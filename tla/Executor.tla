------------------------------ MODULE Executor ------------------------------
(***************************************************************************)
(* One download attempt on a worker, from claim to return, with the files  *)
(* it leaves in the job's directory, against the retention sweep and the   *)
(* user (backend/app/worker/executor.py, services/storage.py,              *)
(* reconcile.cleanup_files).                                               *)
(*                                                                         *)
(* JobService gives the transactions.  Here each is one step of the        *)
(* program of a worker, and the file operations between them are steps of  *)
(* their own: a worker may be overtaken, stalled or killed at any of them. *)
(* Messages are left to Dispatch: a queued job may be claimed at any time. *)
(***************************************************************************)
EXTENDS JobService

CONSTANTS
  MaxRetries,       \* bound: manual retries of one job
  MaxSurvivors      \* bound: leaders of one job that leave a helper behind

ASSUME RetriesAssumption == MaxRetries \in Nat /\ MaxSurvivors \in Nat

VARIABLES
  step,       \* step[w]: where execute_download is on slot w
  work,       \* work[j]: what jobs/<j>/work holds
  final,      \* final[j]: jobs/<j>/final/media.* exists
  charged,    \* charged[j]: disk_bytes > 0
  sweeping,   \* jobs whose rows the sweep has locked and whose files it removed
  retries,    \* retries[j]: manual retries so far
  overlapped, \* history: jobs claimed while an older attempt of theirs went on
  stray,      \* stray[j]: how many leaders of j left helpers that still run
  survivors   \* history: how many ever did

files == <<work, final, charged>>
helpers == <<stray, survivors>>
xvars == <<vars, step, files, sweeping, retries, overlapped, helpers>>

Step == {"none", "check", "process", "publish", "commit", "tidy", "discard",
         "stop", "lost", "refused", "wipe", "mark", "end"}

XInit ==
  /\ Init
  /\ step = [w \in Worker |-> "none"]
  /\ work = [j \in Job |-> "none"]
  /\ final = [j \in Job |-> FALSE]
  /\ charged = [j \in Job |-> FALSE]
  /\ sweeping = {}
  /\ retries = [j \in Job |-> 0]
  /\ overlapped = {}
  /\ stray = [j \in Job |-> 0] /\ survivors = [j \in Job |-> 0]

-----------------------------------------------------------------------------
\* A transaction on the row of j waits for the sweep that has it locked.
Unlocked(j) == j \notin sweeping

At(w, s) == step[w] = s
Goto(w, s) == step' = [step EXCEPT ![w] = s]
Still == UNCHANGED <<sweeping, retries, overlapped>>
Quiet == Still /\ UNCHANGED helpers

\* The process group of w, or what kill_process_group has left of it so far,
\* is in the work directory of its job.
HasGroup(w) == step[w] \in {"process", "stop", "lost"}

\* The leader of a download of j is gone, and perhaps the helpers it started
\* (aria2c, ffmpeg) are not: --pdeathsig is for the leader alone, and a
\* leader that has been reaped no longer leads _group_alive_safe to them.
Outlived(j) ==
  \/ UNCHANGED helpers
  \/ /\ survivors[j] < MaxSurvivors
     /\ stray' = [stray EXCEPT ![j] = @ + 1]
     /\ survivors' = [survivors EXCEPT ![j] = @ + 1]

HasFiles(j) == work[j] # "none" \/ final[j]

\* remove_job_files: the whole directory of the job.
RemoveJobFiles(j) ==
  /\ work' = [work EXCEPT ![j] = "none"]
  /\ final' = [final EXCEPT ![j] = FALSE]

-----------------------------------------------------------------------------
(* The user.                                                               *)

UserOp(j) ==
  /\ Unlocked(j)
  /\ \/ /\ create_job(j) \/ pause_job(j) \/ resume_job(j) \/ cancel_job(j) \/ delete_job(j)
        /\ UNCHANGED retries
     \/ /\ retries[j] < MaxRetries
        /\ retry_job(j)
        /\ retries' = [retries EXCEPT ![j] = @ + 1]
  /\ UNCHANGED <<step, files, sweeping, overlapped, helpers>>

-----------------------------------------------------------------------------
(* The attempt.                                                            *)

Claim(w, j) ==
  /\ Unlocked(j)
  /\ Claimed(w, j)
  /\ Goto(w, "check")
  /\ overlapped' = IF \E v \in Worker : attempt[v] = j
                   THEN overlapped \cup {j} ELSE overlapped
  /\ UNCHANGED <<files, sweeping, retries, helpers>>

\* The link policy, the selection or the configuration refuses the attempt.
Refuse(w) ==
  /\ At(w, "check")
  /\ Unlocked(attempt[w])
  /\ preflight_fail(w)
  /\ Goto(w, "end")
  /\ UNCHANGED files /\ Quiet

Start(w) ==
  /\ At(w, "check")
  /\ Goto(w, "process")
  /\ UNCHANGED <<vars, files>> /\ Quiet

\* yt-dlp writes partial data and in the end the finished file.
Write(w, content) ==
  /\ At(w, "process")
  /\ work' = [work EXCEPT ![attempt[w]] = content]
  /\ UNCHANGED <<vars, step, final, charged>> /\ Quiet

\* control(): heartbeat and, in the same transaction, disk_bytes.  A reason
\* to stop makes run_controlled kill the process group before it returns,
\* which takes the steps "stop" and "lost" until they are over.
Control(w) ==
  LET j == attempt[w] IN
  /\ At(w, "process")
  /\ Unlocked(j)
  /\ heartbeat(w)
  /\ charged' = IF Holds(w) THEN [charged EXCEPT ![j] = HasFiles(j)] ELSE charged
  /\ Goto(w, CASE phase'[w] = "run"  -> "process"
               [] phase'[w] = "done" -> "lost"
               [] OTHER              -> "stop")
  /\ UNCHANGED <<work, final>> /\ Quiet

\* The process fails, times out, grows too large or leaves no usable output.
Fail(w, retryable, frees) ==
  /\ At(w, "process")
  /\ Unlocked(attempt[w])
  /\ fail_or_retry(w, retryable, frees)
  /\ Goto(w, IF phase'[w] = "purge" THEN "wipe" ELSE "end")
  /\ Outlived(attempt[w])
  /\ UNCHANGED files /\ Still

\* Exit code 0, and find_output_file finds the finished file.
Succeed(w) ==
  /\ At(w, "process")
  /\ work[attempt[w]] = "output"
  /\ Goto(w, "publish")
  /\ Outlived(attempt[w])
  /\ UNCHANGED <<vars, files>> /\ Still

\* finalize_file.  If the output is gone by now os.replace raises and the
\* task ends like a crash.
Publish(w) ==
  LET j == attempt[w] IN
  /\ At(w, "publish")
  /\ work[j] = "output"
  /\ work' = [work EXCEPT ![j] = "partial"]
  /\ final' = [final EXCEPT ![j] = TRUE]
  /\ Goto(w, "commit")
  /\ UNCHANGED <<vars, charged>> /\ Quiet

Complete(w) ==
  LET j == attempt[w] IN
  /\ At(w, "commit")
  /\ Unlocked(j)
  /\ complete_job(w)
  /\ IF phase'[w] = "done"
     THEN Goto(w, "tidy") /\ charged' = [charged EXCEPT ![j] = TRUE]
     ELSE Goto(w, "refused") /\ UNCHANGED charged
  /\ UNCHANGED <<work, final>> /\ Quiet

\* The whole directory goes, not only the work directory.
Tidy_mutant(w) ==
  /\ At(w, "tidy")
  /\ RemoveJobFiles(attempt[w])
  /\ Goto(w, "end")
  /\ UNCHANGED <<vars, charged>> /\ Quiet

\* remove_work_dir.
Tidy(w) ==
  /\ At(w, "tidy")
  /\ work' = [work EXCEPT ![attempt[w]] = "none"]
  /\ Goto(w, "end")
  /\ UNCHANGED <<vars, final, charged>> /\ Quiet

\* A canceled job is not purged.
Stop_mutant(w) ==
  /\ step[w] \in {"stop", "refused"}
  /\ Unlocked(attempt[w])
  /\ finish_stop(w)
  /\ Goto(w, IF step[w] = "refused" THEN "discard" ELSE "end")
  /\ UNCHANGED files /\ Quiet

\* finish_stop, after a heartbeat ("stop") or a refused completion.
Stop(w) ==
  /\ step[w] \in {"stop", "refused"}
  /\ Unlocked(attempt[w])
  /\ finish_stop(w)
  /\ Goto(w, CASE phase'[w] = "purge" -> "wipe"
               [] phase'[w] # "purge" -> IF step[w] = "refused" THEN "discard" ELSE "end")
  /\ UNCHANGED files /\ Quiet

\* remove_tree(final_dir): the refused file must not be published.
Discard(w) ==
  /\ At(w, "discard")
  /\ final' = [final EXCEPT ![attempt[w]] = FALSE]
  /\ Goto(w, "end")
  /\ UNCHANGED <<vars, work, charged>> /\ Quiet

\* Only the work directory is removed.
Wipe_mutant(w) ==
  /\ At(w, "wipe")
  /\ work' = [work EXCEPT ![attempt[w]] = "none"]
  /\ Goto(w, "mark")
  /\ UNCHANGED <<vars, final, charged>> /\ Quiet

\* _purge of the executor: the files first, the row afterwards.
Wipe(w) ==
  /\ At(w, "wipe")
  /\ RemoveJobFiles(attempt[w])
  /\ Goto(w, "mark")
  /\ UNCHANGED <<vars, charged>> /\ Quiet

Mark(w) ==
  /\ At(w, "mark")
  /\ Unlocked(attempt[w])
  /\ mark_purged(w)
  /\ charged' = [charged EXCEPT ![attempt[w]] = FALSE]
  /\ Goto(w, "end")
  /\ UNCHANGED <<work, final>> /\ Quiet

\* The task returns and the group is gone, or the worker dies and the leader
\* of its group with it.
Finish(w) ==
  /\ \/ step[w] \in {"end", "lost"} /\ Return(w) /\ UNCHANGED helpers
     \/ Crash(w) /\ (IF HasGroup(w) THEN Outlived(attempt[w]) ELSE UNCHANGED helpers)
  /\ Goto(w, "none")
  /\ UNCHANGED files /\ Still

-----------------------------------------------------------------------------
(* Helpers without a leader.  They leave partial data only: whatever makes *)
(* a finished file of it is the leader's to do.                            *)

StrayWrites(j) ==
  /\ stray[j] > 0
  /\ work[j] = "none"
  /\ work' = [work EXCEPT ![j] = "partial"]
  /\ UNCHANGED <<vars, step, final, charged>> /\ Quiet

StrayEnds(j) ==
  /\ stray[j] > 0
  /\ stray' = [stray EXCEPT ![j] = @ - 1]
  /\ UNCHANGED <<vars, step, files, survivors>> /\ Still

-----------------------------------------------------------------------------
(* The reconciler and the sweep.  A sweep is one transaction: it locks the *)
(* row, removes the files at once, and commits what it did to the row at   *)
(* the end, or dies before.                                                *)

Recover(j) ==
  /\ Unlocked(j)
  /\ recover_expired_leases(j)
  /\ UNCHANGED <<step, files>> /\ Quiet

Sweepable(j) ==
  \/ job[j].status \in {"completed", "paused"} /\ job[j].aged
  \/ Leftover(j)

SweepRemove(j) ==
  /\ Unlocked(j)
  /\ Sweepable(j)
  /\ RemoveJobFiles(j)
  /\ sweeping' = sweeping \cup {j}
  /\ UNCHANGED <<vars, step, charged, retries, overlapped, helpers>>

SweepCommit(j) ==
  /\ j \in sweeping
  /\ sweep_expired(j) \/ sweep_leftover(j)
  /\ job'[j].purged
  /\ charged' = [charged EXCEPT ![j] = FALSE]
  /\ sweeping' = sweeping \ {j}
  /\ UNCHANGED <<step, work, final, retries, overlapped, helpers>>

SweepDies(j) ==
  /\ j \in sweeping
  /\ sweeping' = sweeping \ {j}
  /\ UNCHANGED <<vars, step, files, retries, overlapped, helpers>>

Clock(j) ==
  /\ LeaseRunsOut(j) \/ BackoffElapses(j) \/ Ages(j)
  /\ UNCHANGED <<step, files>> /\ Quiet

-----------------------------------------------------------------------------
Attempt(w) ==
  \/ Refuse(w) \/ Start(w) \/ Control(w) \/ Succeed(w) \/ Publish(w) \/ Complete(w)
  \/ Tidy(w) \/ Stop(w) \/ Discard(w) \/ Wipe(w) \/ Mark(w) \/ Finish(w)
  \/ \E content \in {"partial", "output"} : Write(w, content)
  \/ \E retryable, frees \in BOOLEAN : Fail(w, retryable, frees)

XNext ==
  \/ \E w \in Worker : Attempt(w) \/ \E j \in Job : Claim(w, j)
  \/ \E j \in Job : \/ UserOp(j) \/ Recover(j) \/ Clock(j)
                    \/ SweepRemove(j) \/ SweepCommit(j) \/ SweepDies(j)
                    \/ StrayWrites(j) \/ StrayEnds(j)

XSpec == XInit /\ [][XNext]_xvars

-----------------------------------------------------------------------------
(***************************************************************************)
(* Properties.                                                             *)
(***************************************************************************)

\* The program of a worker agrees with the phase its transactions left, and
\* the helpers that still run are some of those that survived.
XTypeOK ==
  /\ work \in [Job -> {"none", "partial", "output"}]
  /\ final \in [Job -> BOOLEAN] /\ charged \in [Job -> BOOLEAN]
  /\ sweeping \subseteq Job /\ overlapped \subseteq Job
  /\ retries \in [Job -> 0..MaxRetries]
  /\ stray \in [Job -> 0..MaxSurvivors] /\ survivors \in [Job -> 0..MaxSurvivors]
  /\ \A j \in Job : stray[j] <= survivors[j]
  /\ step \in [Worker -> Step]
  /\ \A w \in Worker :
       phase[w] = CASE step[w] = "none" -> "idle"
                    [] step[w] \in {"check", "process", "publish", "commit"} -> "run"
                    [] step[w] \in {"wipe", "mark"} -> "purge"
                    [] step[w] \in {"tidy", "discard", "lost", "end"} -> "done"
                    [] step[w] = "refused" -> "cancel"
                    [] OTHER -> IF phase[w] = "pause" THEN "pause" ELSE "cancel"

\* A job shown as completed has its file until its retention is over: no
\* crash, pause, cancel, retry, stall or sweep takes it away, unless the job
\* was claimed while an older attempt of it was still going on.
CompletedKeepsFile ==
  \A j \in Job \ overlapped :
    job[j].status = "completed" /\ ~job[j].aged => final[j]

\* The comment on COMPLETED in states.py: "file is on the server and ready to
\* transfer".
CompletedHasFile ==
  \A j \in Job : job[j].status = "completed" /\ ~job[j].aged => final[j]

\* Nobody removes the work directory of a job that a worker holds, so a pause
\* or a retry can resume from it; the exception is again an older attempt.
WorkNotPulledAway ==
  [][ \A j \in Job \ overlapped :
        job[j].status \in LEASED /\ job'[j].status \in LEASED /\ work[j] # "none"
          => work'[j] # "none" ]_xvars

\* The groups that download into the work directory of j, helpers without a
\* leader included.
Groups(j) == Cardinality({w \in Worker : attempt[w] = j /\ HasGroup(w)}) + stray[j]

\* A job is downloaded by one process group.  Every further group in its work
\* directory is paid for, by a lease that ran out under a live worker or by a
\* helper that outlived its leader: no crash, recovery, retry, pause or cancel
\* alone starts a second download beside the first.
OneProcess == \A j \in Job : Groups(j) <= 1 + stalls + survivors[j]

\* Files of j that no helper without a leader can have written.
OwnFiles(j) == final[j] \/ (work[j] # "none" /\ survivors[j] = 0)

\* What is left of a finished job: files or a charge on the owner's quota
\* although the job will not use them, and no attempt of it goes on.
Remains(j) ==
  /\ OwnFiles(j) \/ charged[j]
  /\ \/ job[j].status \in {"canceled", "expired"}
     \/ job[j].deleted /\ job[j].status # "completed"
  /\ j \notin sweeping
  /\ \A w \in Worker : attempt[w] # j

\* Nothing leaks: what remains of a finished job is still on the sweep's list,
\* wherever workers, users and earlier sweeps were interrupted.
SweepFindsRemains ==
  \A j \in Job : retries[j] = 0 /\ stalls = 0 /\ Remains(j) => Leftover(j)

\* The cleanup table of ARCHITECTURE.md for canceled jobs: "deleted immediately
\* by the worker (or by the next sweep if canceled before it started)".
CanceledIsSwept ==
  \A j \in Job :
    job[j].status = "canceled" /\ stalls = 0 /\ Remains(j) => Leftover(j)
=============================================================================
