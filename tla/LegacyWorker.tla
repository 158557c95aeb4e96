---------------------------- MODULE LegacyWorker ----------------------------
(***************************************************************************)
(* The queue of the single-user service (ytaria.py): JobStore, the worker  *)
(* thread that downloads one job at a time, and the HTTP threads that      *)
(* cancel, pause, resume and retry.                                        *)
(*                                                                         *)
(* Every method of JobStore is one transaction under a lock, hence one     *)
(* step.  What a thread does between two of them is interleaved: an HTTP   *)
(* thread reads Worker.current or the row, and acts on what it read later. *)
(* LegacyService adds the processes that run the threads.                  *)
(***************************************************************************)
EXTENDS Integers, FiniteSets

CONSTANTS
  Job,         \* row ids, in the order of insertion
  NoJob,
  Server,      \* service processes
  MaxFaults    \* bound: exceptions in the worker thread and processes killed

ASSUME LegacyAssumption ==
  /\ Job \subseteq Nat
  /\ IsFiniteSet(Job)
  /\ NoJob \notin Job
  /\ MaxFaults \in Nat

VARIABLES
  status,    \* status[j]: the row of j
  worker,    \* worker[s]: the worker thread of s and Worker.current
  request,   \* request[s]: the HTTP thread of s that cancels or pauses
  orphans,   \* jobs whose downloader nobody supervises any more
  blind,     \* jobs that a cancel hit while the worker was starting them
  dropped,   \* jobs claimed by a worker that did not get to know it
  faults     \* exceptions and killed processes so far

queueVars == <<status, worker, request, orphans, blind, dropped, faults>>

JobStatus == {"absent", "pending", "running", "done", "failed", "canceled", "paused"}

WorkerState ==
  [ pc     : {"off", "idle", "claimed", "run", "settled", "dead"},
    job    : Job \cup {NoJob},
    cancel : BOOLEAN,                 \* cancel_requested
    pause  : BOOLEAN,                 \* pause_requested
    child  : {"none", "alive", "stopping", "ok", "error", "sigterm"} ]

NoWorker ==
  [pc |-> "off", job |-> NoJob, cancel |-> FALSE, pause |-> FALSE, child |-> "none"]

IdleWorker == [NoWorker EXCEPT !.pc = "idle"]

Request ==
  [ pc   : {"none", "matched", "marked", "looked"},
    kind : {"cancel", "pause"},
    job  : Job \cup {NoJob} ]

NoRequest == [pc |-> "none", kind |-> "cancel", job |-> NoJob]

QueueInit ==
  /\ status = [j \in Job |-> "absent"]
  /\ worker = [s \in Server |-> NoWorker]
  /\ request = [s \in Server |-> NoRequest]
  /\ orphans = {}
  /\ blind = {}
  /\ dropped = {}
  /\ faults = 0

SetStatus(j, to) == status' = [status EXCEPT ![j] = to]

Running(s) == worker[s].child \in {"alive", "stopping"}

\* A downloader is taken to run when none does.
Orphaned_mutant(s) == orphans \cup {worker[s].job}

\* What is left of the downloader when nobody waits for it any more.
Orphaned(s) == IF Running(s) THEN orphans \cup {worker[s].job} ELSE orphans

-----------------------------------------------------------------------------
(* The worker thread.                                                      *)

Pending == {j \in Job : status[j] = "pending"}

\* get_job reads the row again after the commit.  If the database is locked
\* then, run() takes it for a failed claim and goes on.
claim_next_pending(s, j) ==
  /\ worker[s].pc = "idle"
  /\ j \in Pending /\ \A k \in Pending : j <= k
  /\ SetStatus(j, "running")
  /\ \/ /\ worker' = [worker EXCEPT ![s] = [@ EXCEPT !.pc = "claimed", !.job = j]]
        /\ dropped' = dropped \ {j}
        /\ UNCHANGED faults
     \/ /\ faults < MaxFaults
        /\ faults' = faults + 1
        /\ dropped' = dropped \cup {j}
        /\ UNCHANGED worker
  /\ UNCHANGED <<request, orphans, blind>>

\* The beginning of _run_job, up to self.current = CurrentJob(..).
Launch(s) ==
  /\ worker[s].pc = "claimed"
  /\ \/ /\ SetStatus(worker[s].job, "failed")          \* validate_url rejects it
        /\ worker' = [worker EXCEPT ![s] = IdleWorker]
     \/ /\ worker' = [worker EXCEPT ![s] = [@ EXCEPT !.pc = "run", !.child = "alive"]]
        /\ UNCHANGED status
  /\ UNCHANGED <<request, orphans, blind, dropped, faults>>

\* mkdir or Popen raises: nothing catches it, the thread is gone.
LaunchFails(s) ==
  /\ worker[s].pc = "claimed"
  /\ faults < MaxFaults
  /\ faults' = faults + 1
  /\ worker' = [worker EXCEPT ![s].pc = "dead"]
  /\ UNCHANGED <<status, request, orphans, blind, dropped>>

\* A downloader that is told to stop may still end in any way.
ChildEnds(s) ==
  /\ Running(s)
  /\ \E code \in {"ok", "error", "sigterm"} :
       /\ code = "sigterm" => worker[s].child = "stopping"
       /\ worker' = [worker EXCEPT ![s].child = code]
  /\ UNCHANGED <<status, request, orphans, blind, dropped, faults>>

Verdict(w) ==
  IF w.cancel THEN "canceled"
  ELSE IF w.pause THEN "paused"
  ELSE CASE w.child = "ok"      -> "done"
         [] w.child = "sigterm" -> "canceled"
         [] OTHER               -> "failed"

\* The row is settled without waiting for a downloader that was told to stop.
Settle_mutant(s) ==
  /\ worker[s].pc = "run"
  /\ ~Running(s) \/ worker[s].cancel \/ worker[s].pause
  /\ SetStatus(worker[s].job, Verdict(worker[s]))
  /\ worker' = [worker EXCEPT ![s].pc = "settled"]
  /\ UNCHANGED <<request, orphans, blind, dropped, faults>>

\* process.wait() has returned: update_job writes whatever the row says now.
Settle(s) ==
  /\ worker[s].pc = "run"
  /\ ~Running(s)
  /\ SetStatus(worker[s].job, Verdict(worker[s]))
  /\ worker' = [worker EXCEPT ![s].pc = "settled"]
  /\ UNCHANGED <<request, orphans, blind, dropped, faults>>

\* An exception while the output is read: the job fails, or if that cannot be
\* written either the thread dies.  The downloader is not stopped.
WorkFails(s) ==
  /\ worker[s].pc = "run"
  /\ faults < MaxFaults
  /\ faults' = faults + 1
  /\ orphans' = Orphaned(s)
  /\ \/ /\ SetStatus(worker[s].job, "failed")
        /\ worker' = [worker EXCEPT ![s] = IdleWorker]
     \/ /\ worker' = [worker EXCEPT ![s] = [NoWorker EXCEPT !.pc = "dead"]]
        /\ UNCHANGED status
  /\ UNCHANGED <<request, blind, dropped>>

\* finally: self.current = None.
Release(s) ==
  /\ worker[s].pc = "settled"
  /\ worker' = [worker EXCEPT ![s] = IdleWorker]
  /\ UNCHANGED <<status, request, orphans, blind, dropped, faults>>

OrphanEnds(j) ==
  /\ j \in orphans
  /\ orphans' = orphans \ {j}
  /\ UNCHANGED <<status, worker, request, blind, dropped, faults>>

-----------------------------------------------------------------------------
(* The HTTP threads of s, and whoever adds a job.                          *)

\* self.current and self.current.job_id == job_id
IsCurrent(s, j) == worker[s].pc \in {"run", "settled"} /\ worker[s].job = j

Idle(s) == request[s].pc = "none"

add_job(j) ==
  /\ status[j] = "absent" /\ \A k \in Job : k < j => status[k] # "absent"
  /\ SetStatus(j, "pending")
  /\ UNCHANGED <<worker, request, orphans, blind, dropped, faults>>

\* request_cancel and request_pause find the job to be the current one ...
Match(s, kind, j) ==
  /\ Idle(s)
  /\ IsCurrent(s, j)
  /\ request' = [request EXCEPT ![s] = [pc |-> "matched", kind |-> kind, job |-> j]]
  /\ UNCHANGED <<status, worker, orphans, blind, dropped, faults>>

\* ... mark what is the current one by now, and signal the downloader of what
\* is the current one then.  If there is none the request fails.
Mark(s) ==
  LET w == worker[s] IN
  /\ request[s].pc = "matched"
  /\ IF w.pc \in {"run", "settled"}
     THEN /\ request' = [request EXCEPT ![s].pc = "marked"]
          /\ worker' = [worker EXCEPT ![s] = [w EXCEPT
                          !.cancel = w.cancel \/ request[s].kind = "cancel",
                          !.pause  = w.pause \/ request[s].kind = "pause"]]
     ELSE request' = [request EXCEPT ![s] = NoRequest] /\ UNCHANGED worker
  /\ UNCHANGED <<status, orphans, blind, dropped, faults>>

Signal(s) ==
  /\ request[s].pc = "marked"
  /\ request' = [request EXCEPT ![s] = NoRequest]
  /\ worker' = [worker EXCEPT ![s].child = IF @ = "alive" THEN "stopping" ELSE @]
  /\ UNCHANGED <<status, orphans, blind, dropped, faults>>

Cancelable == {"pending", "running", "paused"}

\* request_cancel of another job: get_job, and update_job after that.
Look(s, j) ==
  /\ Idle(s)
  /\ worker[s].pc # "off" /\ ~IsCurrent(s, j)
  /\ status[j] \in Cancelable
  /\ request' = [request EXCEPT ![s] = [pc |-> "looked", kind |-> "cancel", job |-> j]]
  /\ UNCHANGED <<status, worker, orphans, blind, dropped, faults>>

\* The row is canceled unconditionally; blind records that the worker had it
\* (or even was through with it).
CancelRow(s) ==
  LET j == request[s].job IN
  /\ request[s].pc = "looked"
  /\ SetStatus(j, "canceled")
  /\ blind' = IF status[j] \in {"pending", "paused"} THEN blind ELSE blind \cup {j}
  /\ request' = [request EXCEPT ![s] = NoRequest]
  /\ UNCHANGED <<worker, orphans, dropped, faults>>

\* A process without a worker.
cancel_pending(s, j) ==
  /\ worker[s].pc = "off"
  /\ status[j] \in {"pending", "paused"}
  /\ SetStatus(j, "canceled")
  /\ UNCHANGED <<worker, request, orphans, blind, dropped, faults>>

\* The row is queued again whatever its status.
retry_job_mutant(j) ==
  /\ status[j] # "absent"
  /\ SetStatus(j, "pending")
  /\ UNCHANGED <<worker, request, orphans, blind, dropped, faults>>

retry_job(j) ==
  /\ status[j] \in {"failed", "canceled"}
  /\ SetStatus(j, "pending")
  /\ UNCHANGED <<worker, request, orphans, blind, dropped, faults>>

resume_job(j) ==
  /\ status[j] = "paused"
  /\ SetStatus(j, "pending")
  /\ UNCHANGED <<worker, request, orphans, blind, dropped, faults>>

-----------------------------------------------------------------------------
WorkerThread(s) ==
  \/ \E j \in Job : claim_next_pending(s, j)
  \/ Launch(s) \/ Settle(s) \/ Release(s)

Breakage(s) == LaunchFails(s) \/ WorkFails(s)

NewRequest(s) ==
  \E j \in Job :
    \/ \E kind \in {"cancel", "pause"} : Match(s, kind, j)
    \/ Look(s, j) \/ cancel_pending(s, j) \/ retry_job(j) \/ resume_job(j)

OngoingRequest(s) == Mark(s) \/ Signal(s) \/ CancelRow(s)
=============================================================================
