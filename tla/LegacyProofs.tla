----------------------------- MODULE LegacyProofs ---------------------------
(***************************************************************************)
(* Proofs about LegacyService, for any number of jobs and processes.       *)
(*                                                                         *)
(* The worker lock makes the holder's worker the only one, so the rows can *)
(* be related to one thread (Rows).  As long as no two commands overlap,   *)
(* one process at a time starts or serves, and from the moment it has      *)
(* written the pid file nobody else touches it (Alone).                    *)
(***************************************************************************)
EXTENDS LegacyService, TLAPS

USE LegacyAssumption, ServiceAssumption

(***************************************************************************)
(* The invariant.                                                          *)
(***************************************************************************)

\* A thread that has a job names one, and so does a request; only a worker
\* that waits for it has a downloader that runs.
Known ==
  \A s \in Server :
    /\ worker[s].pc \in {"off", "idle"} => worker[s].job = NoJob
    /\ worker[s].pc \in {"claimed", "run", "settled"} => worker[s].job \in Job
    /\ Running(s) => worker[s].pc = "run"
    /\ request[s].pc # "none" => request[s].job \in Job

\* What the row of the job in work says: running, unless a blind cancel was
\* there, and never paused before the downloader has ended.
Rows ==
  \A s \in Server :
    LET j == worker[s].job IN
    /\ worker[s].pc = "settled" => status[j] # "running"
    /\ worker[s].pc \in {"claimed", "run"} =>
         status[j] # "paused" /\ (j \notin blind => status[j] = "running")

Starting(s) == srv[s] \in {"checked", "listed", "ready"}

\* Without overlapping commands one process starts or serves, its pid is in
\* the file once it is written, and a stop command has nobody else to hit.
Alone ==
  ~overlap =>
    /\ \A s \in Server : srv[s] \in {"listed", "ready", "up"} => pidfile = s
    /\ \A s, t \in Server : s # t /\ Starting(s) => ~Starting(t) /\ srv[t] # "up"
    /\ stopper.pc = "wait" => \A s \in Server : ~Starting(s) /\ srv[s] # "up"

LInv == LegacyTypeOK /\ RunningIsHeld /\ Known /\ Rows /\ Alone

\* What FinalUnlessBlind says of a step.
Final ==
  \A j \in Job \ blind' :
    /\ status[j] = "done" => status'[j] = "done"
    /\ status[j] = "canceled" => status'[j] \in {"canceled", "pending"}

(***************************************************************************)
(* The threads of a process.                                               *)
(***************************************************************************)

LEMMA WorkerFacts ==
  ASSUME LegacyTypeOK, NEW s \in Server
  PROVE  /\ worker[s] \in WorkerState /\ request[s] \in Request
         /\ worker[s].pc \in {"off", "idle", "claimed", "run", "settled", "dead"}
         /\ worker[s].job \in Job \cup {NoJob}
         /\ worker[s].cancel \in BOOLEAN /\ worker[s].pause \in BOOLEAN
         /\ worker[s].child \in {"none", "alive", "stopping", "ok", "error", "sigterm"}
         /\ request[s].pc \in {"none", "matched", "marked", "looked"}
         /\ request[s].kind \in {"cancel", "pause"} /\ request[s].job \in Job \cup {NoJob}
BY DEF LegacyTypeOK, WorkerState, Request

LEMMA ConstantFacts ==
  /\ NoWorker \in WorkerState /\ NoWorker.pc = "off" /\ NoWorker.job = NoJob
  /\ NoWorker.child = "none"
  /\ IdleWorker \in WorkerState /\ IdleWorker.pc = "idle" /\ IdleWorker.job = NoJob
  /\ IdleWorker.child = "none"
  /\ NoRequest \in Request /\ NoRequest.pc = "none"
BY DEF NoWorker, IdleWorker, NoRequest, WorkerState, Request

\* The service's variables keep their types.
ServiceStays ==
  /\ UNCHANGED serviceVars
  /\ status' \in [Job -> JobStatus] /\ request' \in [Server -> Request]
  /\ orphans' \subseteq Job /\ blind \subseteq blind' /\ blind' \subseteq Job
  /\ dropped' \subseteq Job
  /\ faults' \in 0..MaxFaults

\* Rows change under a worker that stays, but not while the row is running,
\* unless blindly.
LEMMA RowsMove ==
  ASSUME LInv, ServiceStays, worker' = worker, dropped' = dropped,
         \A s \in Server : request'[s].pc # "none" => request'[s].job \in Job,
         \A j \in Job : \/ status'[j] = status[j]
                        \/ status'[j] = "canceled" /\ (j \in blind' \/ status[j] \in {"pending", "paused"})
                        \/ status'[j] = "pending" /\ status[j] \in {"absent", "failed", "canceled", "paused"}
  PROVE  LInv' /\ Final
<1>1. LegacyTypeOK'
  BY DEF LInv, LegacyTypeOK, ServiceStays, serviceVars
<1>2. RunningIsHeld'
  BY DEF LInv, RunningIsHeld, ServiceStays, serviceVars
<1>3. Known'
  BY DEF LInv, Known, Running
<1>4. Rows'
  BY DEF LInv, Rows, Known, ServiceStays
<1>5. Alone'
  BY DEF LInv, Alone, Starting, ServiceStays, serviceVars
<1>6. Final
  BY DEF Final
<1> QED
  BY <1>1, <1>2, <1>3, <1>4, <1>5, <1>6 DEF LInv

\* The worker of s moves, and with it only the row it works on.
LEMMA WorkerMoves ==
  ASSUME LInv, ServiceStays, request' = request,
         NEW s \in Server, worker[s].pc # "off",
         NEW w \in WorkerState, w.pc # "off", worker' = [worker EXCEPT ![s] = w],
         w.pc = "idle" => w.job = NoJob,
         w.pc \in {"claimed", "run", "settled"} => w.job \in Job,
         w.child \in {"alive", "stopping"} => w.pc = "run",
         w.pc = "settled" => status'[w.job] # "running",
         w.pc \in {"claimed", "run"} =>
           status'[w.job] # "paused" /\ (w.job \notin blind' => status'[w.job] = "running"),
         w.pc # "dead" => \A j \in Job \ dropped' : status'[j] = "running" => w.job = j,
         \A j \in Job : \/ status'[j] = status[j]
                        \/ status[j] = "pending"
                        \/ worker[s].pc \in {"claimed", "run"} /\ j = worker[s].job
  PROVE  LInv' /\ Final
<1>0. /\ LegacyTypeOK /\ RunningIsHeld /\ lock = s /\ lock' = s
      /\ worker' \in [Server -> WorkerState] /\ worker'[s] = w
      /\ \A t \in Server \ {s} : worker'[t] = worker[t]
  BY DEF LInv, LegacyTypeOK, RunningIsHeld, ServiceStays, serviceVars
<1>1. LegacyTypeOK'
  BY <1>0 DEF LegacyTypeOK, ServiceStays, serviceVars
<1>2. \A t \in Server \ {s} : worker'[t].pc = "off" /\ worker[t].pc = "off"
  BY <1>0 DEF RunningIsHeld
<1>3. RunningIsHeld'
  BY <1>0, <1>2 DEF RunningIsHeld
<1>4. Known'
  BY <1>0 DEF LInv, Known, Running
<1>5. Rows'
  BY <1>0, <1>2 DEF Rows
<1>6. Alone'
  BY DEF LInv, Alone, Starting, ServiceStays, serviceVars
<1>7. Final
  BY DEF Final, LInv, Rows, ServiceStays
<1> QED
  BY <1>1, <1>3, <1>4, <1>5, <1>6, <1>7 DEF LInv

LEMMA ClaimStep ==
  ASSUME LInv, NEW s \in Server, NEW j \in Job, claim_next_pending(s, j), UNCHANGED serviceVars
  PROVE  LInv' /\ Final
<1>0. /\ LegacyTypeOK /\ worker[s].pc = "idle" /\ status' = [status EXCEPT ![j] = "running"]
      /\ status[j] = "pending" /\ UNCHANGED <<request, orphans, blind>>
  BY DEF LInv, claim_next_pending, Pending, SetStatus
<1>1. \A k \in Job : status'[k] = IF k = j THEN "running" ELSE status[k]
  BY <1>0 DEF LegacyTypeOK
<1>2. \A k \in Job : status'[k] = status[k] \/ status[k] = "pending"
  BY <1>0, <1>1
<1>3. \A k \in Job \ dropped : status[k] # "running"
  BY <1>0 DEF LInv, RunningIsHeld, Known
<1>4. worker[s].pc # "off" /\ worker[s].child \notin {"alive", "stopping"}
  BY <1>0 DEF LInv, Known, Running
<1>5. CASE /\ worker' = [worker EXCEPT ![s] = [@ EXCEPT !.pc = "claimed", !.job = j]]
           /\ dropped' = dropped \ {j} /\ faults' = faults
  <2> DEFINE w == [worker[s] EXCEPT !.pc = "claimed", !.job = j]
  <2>1. w \in WorkerState /\ w.pc = "claimed" /\ w.job = j /\ w.child = worker[s].child
    BY <1>0, WorkerFacts DEF WorkerState
  <2>2. worker' = [worker EXCEPT ![s] = w]
    BY <1>0, <1>5 DEF LegacyTypeOK
  <2> HIDE DEF w
  <2>3. ServiceStays
    BY <1>0, <1>5 DEF ServiceStays, LegacyTypeOK, JobStatus
  <2>4. /\ w.job \in Job /\ status'[w.job] = "running"
        /\ \A k \in Job \ dropped' : status'[k] = "running" => w.job = k
    BY <1>1, <1>3, <1>5, <2>1
  <2> QED
    BY <1>0, <1>2, <1>4, <2>1, <2>2, <2>3, <2>4, WorkerMoves
<1>6. CASE /\ faults < MaxFaults /\ faults' = faults + 1
           /\ dropped' = dropped \cup {j} /\ worker' = worker
  <2>1. ServiceStays
    BY <1>0, <1>6 DEF ServiceStays, LegacyTypeOK, JobStatus
  <2>2. worker' = [worker EXCEPT ![s] = worker[s]] /\ worker[s] \in WorkerState
    BY <1>0, <1>6 DEF LegacyTypeOK
  <2>3. /\ worker[s].job = NoJob
        /\ \A k \in Job \ dropped' : status'[k] # "running"
    BY <1>0, <1>1, <1>3, <1>6 DEF LInv, Known
  <2> QED
    BY <1>0, <1>2, <1>4, <2>1, <2>2, <2>3, WorkerMoves
<1> QED
  BY <1>5, <1>6 DEF claim_next_pending

\* The worker gives up the row that it works on.
LEMMA GivesBack ==
  ASSUME LInv, NEW s \in Server, worker[s].pc \in {"claimed", "run"},
         NEW x \in JobStatus \ {"running"}, SetStatus(worker[s].job, x),
         NEW w \in WorkerState, worker' = [worker EXCEPT ![s] = w],
         w = IdleWorker \/ (w.pc = "settled" /\ w.job = worker[s].job
                            /\ w.child \notin {"alive", "stopping"}),
         request' = request, blind' = blind, dropped' = dropped, UNCHANGED serviceVars,
         orphans' \subseteq Job, faults' \in 0..MaxFaults
  PROVE  LInv' /\ Final
<1>0. LegacyTypeOK /\ worker[s].job \in Job
  BY DEF LInv, Known
<1>1. \A k \in Job : status'[k] = IF k = worker[s].job THEN x ELSE status[k]
  BY <1>0 DEF LegacyTypeOK, SetStatus
<1>2. ServiceStays
  BY <1>0 DEF ServiceStays, LegacyTypeOK, SetStatus
<1>3. \A k \in Job \ dropped' : status'[k] # "running"
  BY <1>0, <1>1 DEF LInv, RunningIsHeld
<1>4. w.pc \in {"idle", "settled"} /\ (w.pc = "idle" => w.job = NoJob)
      /\ (w.pc = "settled" => w.job \in Job) /\ w.child \notin {"alive", "stopping"}
  BY <1>0, ConstantFacts
<1>5. w.pc = "settled" => status'[w.job] # "running"
  BY <1>0, <1>1, ConstantFacts
<1> QED
  BY <1>1, <1>2, <1>3, <1>4, <1>5, WorkerMoves

LEMMA LaunchStep ==
  ASSUME LInv, NEW s \in Server, Launch(s), UNCHANGED serviceVars
  PROVE  LInv' /\ Final
<1>0. /\ LegacyTypeOK /\ worker[s].pc = "claimed" /\ worker[s].job \in Job
      /\ UNCHANGED <<request, orphans, blind, dropped, faults>>
  BY DEF LInv, Known, Launch
<1>1. CASE SetStatus(worker[s].job, "failed") /\ worker' = [worker EXCEPT ![s] = IdleWorker]
  BY <1>0, <1>1, ConstantFacts, GivesBack DEF LegacyTypeOK, JobStatus
<1>2. CASE /\ worker' = [worker EXCEPT ![s] = [@ EXCEPT !.pc = "run", !.child = "alive"]]
           /\ status' = status
  <2> DEFINE w == [worker[s] EXCEPT !.pc = "run", !.child = "alive"]
  <2>1. w \in WorkerState /\ w.pc = "run" /\ w.job = worker[s].job /\ w.child = "alive"
    BY <1>0, WorkerFacts DEF WorkerState
  <2>2. worker' = [worker EXCEPT ![s] = w]
    BY <1>0, <1>2 DEF LegacyTypeOK
  <2> HIDE DEF w
  <2>3. ServiceStays
    BY <1>0, <1>2 DEF ServiceStays, LegacyTypeOK
  <2>4. status[w.job] # "paused" /\ (w.job \notin blind => status[w.job] = "running")
        /\ \A j \in Job \ dropped : status[j] = "running" => w.job = j
    BY <1>0, <2>1 DEF LInv, Rows, RunningIsHeld
  <2> QED
    BY <1>0, <1>2, <2>1, <2>2, <2>3, <2>4, WorkerMoves
<1> QED
  BY <1>1, <1>2 DEF Launch

LEMMA LaunchFailsStep ==
  ASSUME LInv, NEW s \in Server, LaunchFails(s), UNCHANGED serviceVars
  PROVE  LInv' /\ Final
<1> DEFINE w == [worker[s] EXCEPT !.pc = "dead"]
<1>0. /\ LegacyTypeOK /\ worker[s].pc = "claimed" /\ faults < MaxFaults /\ faults' = faults + 1
      /\ UNCHANGED <<status, request, orphans, blind, dropped>>
  BY DEF LInv, LaunchFails
<1>1. w \in WorkerState /\ w.pc = "dead" /\ w.child = worker[s].child
  BY <1>0, WorkerFacts DEF WorkerState
<1>2. worker' = [worker EXCEPT ![s] = w]
  BY <1>0 DEF LaunchFails, LegacyTypeOK
<1> HIDE DEF w
<1>3. ServiceStays
  BY <1>0 DEF ServiceStays, LegacyTypeOK
<1>4. w.child \notin {"alive", "stopping"}
  BY <1>0, <1>1 DEF LInv, Known, Running
<1> QED
  BY <1>0, <1>1, <1>2, <1>3, <1>4, WorkerMoves

LEMMA SettleStep ==
  ASSUME LInv, NEW s \in Server, Settle(s), UNCHANGED serviceVars
  PROVE  LInv' /\ Final
<1> DEFINE w == [worker[s] EXCEPT !.pc = "settled"]
<1>0. /\ LegacyTypeOK /\ worker[s].pc = "run" /\ ~Running(s)
      /\ UNCHANGED <<request, orphans, blind, dropped, faults>>
  BY DEF LInv, Settle
<1>1. /\ w \in WorkerState /\ w.pc = "settled" /\ w.job = worker[s].job
      /\ w.child \notin {"alive", "stopping"}
  BY <1>0, WorkerFacts DEF WorkerState, Running
<1>2. worker' = [worker EXCEPT ![s] = w]
  BY <1>0 DEF Settle, LegacyTypeOK
<1> HIDE DEF w
<1>3. Verdict(worker[s]) \in JobStatus \ {"running"}
  BY DEF Verdict, JobStatus
<1>4. SetStatus(worker[s].job, Verdict(worker[s]))
  BY DEF Settle
<1>5. orphans' \subseteq Job /\ faults' \in 0..MaxFaults
  BY <1>0 DEF LegacyTypeOK
<1> QED
  BY <1>0, <1>1, <1>2, <1>3, <1>4, <1>5, GivesBack

LEMMA ReleaseStep ==
  ASSUME LInv, NEW s \in Server, Release(s), UNCHANGED serviceVars
  PROVE  LInv' /\ Final
<1>0. /\ LegacyTypeOK /\ worker[s].pc = "settled" /\ worker' = [worker EXCEPT ![s] = IdleWorker]
      /\ UNCHANGED <<status, request, orphans, blind, dropped, faults>>
  BY DEF LInv, Release
<1>1. ServiceStays
  BY <1>0 DEF ServiceStays, LegacyTypeOK
<1>2. \A j \in Job \ dropped : status[j] # "running"
  BY <1>0 DEF LInv, RunningIsHeld, Rows
<1> QED
  BY <1>0, <1>1, <1>2, ConstantFacts, WorkerMoves

\* What is left of the downloaders are jobs.
LEMMA OrphansAreJobs ==
  ASSUME LInv, NEW s \in Server
  PROVE  Orphaned(s) \subseteq Job
BY DEF LInv, LegacyTypeOK, Known, Orphaned

LEMMA WorkFailsStep ==
  ASSUME LInv, NEW s \in Server, WorkFails(s), UNCHANGED serviceVars
  PROVE  LInv' /\ Final
<1>0. /\ LegacyTypeOK /\ worker[s].pc = "run" /\ faults < MaxFaults /\ faults' = faults + 1
      /\ orphans' \subseteq Job /\ UNCHANGED <<request, blind, dropped>>
  BY OrphansAreJobs DEF LInv, WorkFails
<1>1. faults' \in 0..MaxFaults
  BY <1>0 DEF LegacyTypeOK
<1>2. CASE SetStatus(worker[s].job, "failed") /\ worker' = [worker EXCEPT ![s] = IdleWorker]
  BY <1>0, <1>1, <1>2, ConstantFacts, GivesBack DEF JobStatus
<1>3. CASE /\ worker' = [worker EXCEPT ![s] = [NoWorker EXCEPT !.pc = "dead"]] /\ status' = status
  <2> DEFINE w == [NoWorker EXCEPT !.pc = "dead"]
  <2>1. w \in WorkerState /\ w.pc = "dead" /\ w.child = "none"
    BY DEF WorkerState, NoWorker
  <2>2. worker' = [worker EXCEPT ![s] = w]
    BY <1>3
  <2> HIDE DEF w
  <2>3. ServiceStays
    BY <1>0, <1>1, <1>3 DEF ServiceStays, LegacyTypeOK
  <2> QED
    BY <1>0, <1>3, <2>1, <2>2, <2>3, WorkerMoves
<1> QED
  BY <1>2, <1>3 DEF WorkFails

\* The downloader or what is asked of it changes.
LEMMA ChildMoves ==
  ASSUME LInv, NEW s \in Server, NEW w \in WorkerState, worker[s].pc \in {"run", "settled"},
         w.pc = worker[s].pc, w.job = worker[s].job,
         w.child \in {"alive", "stopping"} => Running(s),
         worker' = [worker EXCEPT ![s] = w],
         UNCHANGED <<status, request, orphans, blind, dropped, faults>>, UNCHANGED serviceVars
  PROVE  LInv' /\ Final
<1>1. ServiceStays
  BY DEF LInv, ServiceStays, LegacyTypeOK
<1>2. /\ w.job \in Job /\ (w.child \in {"alive", "stopping"} => w.pc = "run")
      /\ w.pc = "settled" => status[w.job] # "running"
      /\ w.pc = "run" => status[w.job] # "paused" /\ (w.job \notin blind => status[w.job] = "running")
      /\ \A j \in Job \ dropped : status[j] = "running" => w.job = j
  BY DEF LInv, Known, Rows, RunningIsHeld
<1> QED
  BY <1>1, <1>2, WorkerMoves

LEMMA ChildEndsStep ==
  ASSUME LInv, NEW s \in Server, ChildEnds(s), UNCHANGED serviceVars
  PROVE  LInv' /\ Final
<1>0. LegacyTypeOK /\ worker[s].pc = "run" /\ UNCHANGED <<status, request, orphans, blind, dropped, faults>>
  BY DEF LInv, Known, ChildEnds
<1>1. PICK code \in {"ok", "error", "sigterm"} : worker' = [worker EXCEPT ![s].child = code]
  BY DEF ChildEnds
<1> DEFINE w == [worker[s] EXCEPT !.child = code]
<1>2. w \in WorkerState /\ w.pc = worker[s].pc /\ w.job = worker[s].job /\ w.child = code
  BY <1>0, WorkerFacts DEF WorkerState
<1>3. worker' = [worker EXCEPT ![s] = w]
  BY <1>0, <1>1 DEF LegacyTypeOK
<1> HIDE DEF w
<1> QED
  BY <1>0, <1>2, <1>3, ChildMoves

(***************************************************************************)
(* The HTTP threads, and what nobody supervises.                           *)
(***************************************************************************)

\* The worker is marked or its downloader signalled: it keeps its place and
\* its job.
LEMMA WorkerIsTold ==
  ASSUME LInv, NEW s \in Server, UNCHANGED serviceVars,
         NEW r \in Request, r.pc # "none" => r.job \in Job, request' = [request EXCEPT ![s] = r],
         NEW w \in WorkerState, w.pc = worker[s].pc, w.job = worker[s].job,
         w.child \in {"alive", "stopping"} => Running(s), worker' = [worker EXCEPT ![s] = w],
         UNCHANGED <<status, orphans, blind, dropped, faults>>
  PROVE  LInv' /\ Final
<1>1. /\ request' \in [Server -> Request]
      /\ \A t \in Server : request'[t].pc # "none" => request'[t].job \in Job
  BY DEF LInv, LegacyTypeOK, Known
<1>2. worker' \in [Server -> WorkerState] /\ worker'[s] = w
      /\ \A t \in Server \ {s} : worker'[t] = worker[t]
  BY DEF LInv, LegacyTypeOK
<1>3. \A t \in Server : /\ worker'[t].pc = worker[t].pc /\ worker'[t].job = worker[t].job
                         /\ worker'[t].child \in {"alive", "stopping"} => Running(t)
  BY <1>2 DEF Running
<1>4. LegacyTypeOK' /\ Final
  BY <1>1, <1>2 DEF LInv, LegacyTypeOK, serviceVars, Final
<1>5. RunningIsHeld'
  BY <1>3 DEF LInv, RunningIsHeld, serviceVars
<1>6. Known'
  BY <1>1, <1>3 DEF LInv, Known, Running
<1>7. Rows'
  BY <1>3 DEF LInv, Rows
<1>8. Alone'
  BY DEF LInv, Alone, Starting, serviceVars
<1> QED
  BY <1>4, <1>5, <1>6, <1>7, <1>8 DEF LInv

LEMMA MarkStep ==
  ASSUME LInv, NEW s \in Server, Mark(s), UNCHANGED serviceVars
  PROVE  LInv' /\ Final
<1> DEFINE c == worker[s].cancel \/ request[s].kind = "cancel"
           p == worker[s].pause \/ request[s].kind = "pause"
           w == [worker[s] EXCEPT !.cancel = c, !.pause = p]
           r == [request[s] EXCEPT !.pc = "marked"]
<1>0. /\ LegacyTypeOK /\ worker[s] \in WorkerState /\ request[s] \in Request
      /\ request[s].pc = "matched" /\ request[s].job \in Job
      /\ UNCHANGED <<status, orphans, blind, dropped, faults>>
  BY WorkerFacts DEF LInv, Known, Mark
<1>1. CASE request' = [request EXCEPT ![s] = NoRequest] /\ worker' = worker
  <2>1. worker' = [worker EXCEPT ![s] = worker[s]]
    BY <1>0, <1>1 DEF LegacyTypeOK
  <2> QED
    BY <1>0, <1>1, <2>1, ConstantFacts, WorkerIsTold DEF Running
<1>2. CASE /\ request' = [request EXCEPT ![s].pc = "marked"]
           /\ worker' = [worker EXCEPT ![s] = w]
  <2>1. c \in BOOLEAN /\ p \in BOOLEAN
    BY <1>0, WorkerFacts
  <2> HIDE DEF c, p
  <2>2. /\ w \in WorkerState /\ w.pc = worker[s].pc /\ w.job = worker[s].job
        /\ w.child = worker[s].child
    BY <1>0, <2>1 DEF WorkerState
  <2>3. r \in Request /\ r.job \in Job /\ request' = [request EXCEPT ![s] = r]
    BY <1>0, <1>2 DEF Request, LegacyTypeOK
  <2> HIDE DEF w, r
  <2> QED
    BY <1>0, <1>2, <2>2, <2>3, WorkerIsTold DEF Running
<1> QED
  BY <1>1, <1>2 DEF Mark

LEMMA SignalStep ==
  ASSUME LInv, NEW s \in Server, Signal(s), UNCHANGED serviceVars
  PROVE  LInv' /\ Final
<1> DEFINE h == IF worker[s].child = "alive" THEN "stopping" ELSE worker[s].child
           w == [worker[s] EXCEPT !.child = h]
<1>0. /\ LegacyTypeOK /\ worker[s] \in WorkerState
      /\ request' = [request EXCEPT ![s] = NoRequest] /\ worker' = [worker EXCEPT ![s] = w]
      /\ UNCHANGED <<status, orphans, blind, dropped, faults>>
  BY WorkerFacts DEF LInv, LegacyTypeOK, Signal
<1>1. /\ h \in {"none", "alive", "stopping", "ok", "error", "sigterm"}
      /\ h \in {"alive", "stopping"} => Running(s)
  BY <1>0, WorkerFacts DEF LInv, Running
<1> HIDE DEF h
<1>2. w \in WorkerState /\ w.pc = worker[s].pc /\ w.job = worker[s].job /\ w.child = h
  BY <1>0, <1>1 DEF WorkerState
<1> HIDE DEF w
<1> QED
  BY <1>0, <1>1, <1>2, ConstantFacts, WorkerIsTold

\* A request is noted, or nothing but rows changes.
LEMMA RequestSteps ==
  ASSUME LInv, NEW s \in Server, UNCHANGED serviceVars,
         NewRequest(s) \/ CancelRow(s)
  PROVE  LInv' /\ Final
<1>0. LegacyTypeOK
  BY DEF LInv
<1>1. ASSUME NEW j \in Job, NEW r \in Request, r.job \in Job,
             request' = [request EXCEPT ![s] = r],
             UNCHANGED <<status, worker, orphans, blind, dropped, faults>>
      PROVE  LInv' /\ Final
  <2>1. /\ request' \in [Server -> Request]
        /\ \A t \in Server : request'[t].pc # "none" => request'[t].job \in Job
    BY <1>0, <1>1 DEF LInv, LegacyTypeOK, Known
  <2>2. ServiceStays
    BY <1>0, <1>1, <2>1 DEF ServiceStays, LegacyTypeOK
  <2> QED
    BY <1>1, <2>1, <2>2, RowsMove
<1>2. ASSUME NEW j \in Job, NEW kind \in {"cancel", "pause"}, Match(s, kind, j)
      PROVE  LInv' /\ Final
  <2> DEFINE r == [pc |-> "matched", kind |-> kind, job |-> j]
  <2>1. r \in Request /\ r.job = j
    BY DEF Request
  <2>2. request' = [request EXCEPT ![s] = r] /\ UNCHANGED <<status, worker, orphans, blind, dropped, faults>>
    BY <1>2 DEF Match
  <2> HIDE DEF r
  <2> QED
    BY <1>1, <2>1, <2>2
<1>3. ASSUME NEW j \in Job, Look(s, j)
      PROVE  LInv' /\ Final
  <2> DEFINE r == [pc |-> "looked", kind |-> "cancel", job |-> j]
  <2>1. r \in Request /\ r.job = j
    BY DEF Request
  <2>2. request' = [request EXCEPT ![s] = r] /\ UNCHANGED <<status, worker, orphans, blind, dropped, faults>>
    BY <1>3 DEF Look
  <2> HIDE DEF r
  <2> QED
    BY <1>1, <2>1, <2>2
<1>4. ASSUME NEW j \in Job, NEW x \in {"pending", "canceled"}, SetStatus(j, x),
             UNCHANGED <<worker, orphans, dropped, faults>>,
             request' = request \/ request' = [request EXCEPT ![s] = NoRequest],
             blind' = blind \/ blind' = blind \cup {j},
             \/ x = "canceled" /\ (j \in blind' \/ status[j] \in {"pending", "paused"})
             \/ x = "pending" /\ status[j] \in {"absent", "failed", "canceled", "paused"}
      PROVE  LInv' /\ Final
  <2>1. /\ request' \in [Server -> Request]
        /\ \A t \in Server : request'[t].pc # "none" => request'[t].job \in Job
    BY <1>0, <1>4, ConstantFacts DEF LInv, LegacyTypeOK, Known
  <2>2. /\ status' \in [Job -> JobStatus]
        /\ \A k \in Job : status'[k] = IF k = j THEN x ELSE status[k]
    BY <1>0, <1>4 DEF LegacyTypeOK, SetStatus, JobStatus
  <2>3. ServiceStays
    BY <1>0, <1>4, <2>1, <2>2 DEF ServiceStays, LegacyTypeOK
  <2> QED
    BY <1>4, <2>1, <2>2, <2>3, RowsMove
<1>5. ASSUME NEW j \in Job, cancel_pending(s, j) \/ retry_job(j) \/ resume_job(j)
      PROVE  LInv' /\ Final
  BY <1>4, <1>5 DEF cancel_pending, retry_job, resume_job
<1>6. ASSUME CancelRow(s)
      PROVE  LInv' /\ Final
  <2>1. request[s].job \in Job
    BY <1>6 DEF LInv, Known, CancelRow
  <2> QED
    BY <1>4, <1>6, <2>1 DEF CancelRow
<1> QED
  BY <1>2, <1>3, <1>5, <1>6 DEF NewRequest

LEMMA AddStep ==
  ASSUME LInv, NEW j \in Job, add_job(j), UNCHANGED serviceVars
  PROVE  LInv' /\ Final
<1>0. /\ LegacyTypeOK /\ status[j] = "absent" /\ status' = [status EXCEPT ![j] = "pending"]
      /\ UNCHANGED <<worker, request, orphans, blind, dropped, faults>>
  BY DEF LInv, add_job, SetStatus
<1>1. /\ status' \in [Job -> JobStatus]
      /\ \A k \in Job : status'[k] = IF k = j THEN "pending" ELSE status[k]
  BY <1>0 DEF LegacyTypeOK, JobStatus
<1>2. ServiceStays
  BY <1>0, <1>1 DEF ServiceStays, LegacyTypeOK
<1> QED
  BY <1>0, <1>1, <1>2, RowsMove DEF LInv, Known

LEMMA OrphanEndsStep ==
  ASSUME LInv, NEW j \in Job, OrphanEnds(j), UNCHANGED serviceVars
  PROVE  LInv' /\ Final
<1>1. UNCHANGED <<status, worker, request, blind, dropped, faults>>
  BY DEF OrphanEnds
<1>2. ServiceStays
  BY <1>1 DEF LInv, LegacyTypeOK, ServiceStays, OrphanEnds
<1> QED
  BY <1>1, <1>2, RowsMove DEF LInv, Known

LEMMA ThreadsStep ==
  ASSUME LInv, NEW s \in Server, Threads(s)
  PROVE  LInv' /\ Final
<1>1. UNCHANGED serviceVars
  BY DEF Threads
<1> QED
  BY <1>1, ClaimStep, LaunchStep, SettleStep, ReleaseStep, LaunchFailsStep, WorkFailsStep,
     ChildEndsStep, MarkStep, SignalStep, RequestSteps
  DEF Threads, WorkerThread, Breakage, OngoingRequest

(***************************************************************************)
(* The processes.                                                          *)
(***************************************************************************)

\* The part of the invariant about rows and threads.
Queue ==
  /\ status \in [Job -> JobStatus]
  /\ worker \in [Server -> WorkerState]
  /\ request \in [Server -> Request]
  /\ orphans \subseteq Job /\ blind \subseteq Job /\ dropped \subseteq Job
  /\ lock \in Server \cup {NoServer}
  /\ RunningIsHeld /\ Known /\ Rows

LEMMA QueueStays ==
  ASSUME LInv, UNCHANGED <<status, worker, request, orphans, blind, dropped, lock>>
  PROVE  Queue' /\ Final
BY DEF LInv, LegacyTypeOK, Queue, RunningIsHeld, Known, Rows, Running, Final

LEMMA EnlistMoves ==
  ASSUME LInv, NEW s \in Server, Enlist(s)
  PROVE  Queue' /\ Final
<1>0. /\ LegacyTypeOK /\ lock = NoServer /\ lock' = s
      /\ status' = [j \in Job |-> IF status[j] = "running" THEN "pending" ELSE status[j]]
      /\ worker' = [worker EXCEPT ![s] = IdleWorker]
      /\ dropped' = {} /\ UNCHANGED <<request, orphans, blind>>
  BY DEF LInv, Enlist
<1>1. \A t \in Server : worker[t].pc = "off"
  BY <1>0 DEF LInv, RunningIsHeld
<1>2. /\ worker' \in [Server -> WorkerState] /\ worker'[s] = IdleWorker
      /\ \A t \in Server \ {s} : worker'[t] = worker[t]
  BY <1>0, ConstantFacts DEF LegacyTypeOK
<1>3. /\ status' \in [Job -> JobStatus]
      /\ \A j \in Job : status'[j] = IF status[j] = "running" THEN "pending" ELSE status[j]
  BY <1>0 DEF LegacyTypeOK, JobStatus
<1>4. RunningIsHeld'
  BY <1>0, <1>1, <1>2, <1>3, ConstantFacts DEF RunningIsHeld
<1>5. Known'
  BY <1>0, <1>2, ConstantFacts DEF LInv, Known, Running
<1>6. Rows'
  BY <1>1, <1>2, ConstantFacts DEF Rows
<1>7. Final
  BY <1>3 DEF Final
<1> QED
  BY <1>0, <1>2, <1>3, <1>4, <1>5, <1>6, <1>7 DEF Queue, LegacyTypeOK

LEMMA VanishMoves ==
  ASSUME LInv, NEW s \in Server, Vanish(s)
  PROVE  Queue' /\ Final /\ srv' = [srv EXCEPT ![s] = "gone"]
<1>0. /\ LegacyTypeOK /\ lock' = IF lock = s THEN NoServer ELSE lock
      /\ worker' = [worker EXCEPT ![s] = NoWorker]
      /\ request' = [request EXCEPT ![s] = NoRequest]
      /\ orphans' \subseteq Job
      /\ UNCHANGED <<status, blind, dropped>> /\ srv' = [srv EXCEPT ![s] = "gone"]
  BY OrphansAreJobs DEF LInv, Vanish, Go
<1>1. /\ worker' \in [Server -> WorkerState] /\ worker'[s] = NoWorker
      /\ \A t \in Server \ {s} : worker'[t] = worker[t]
      /\ request' \in [Server -> Request] /\ request'[s] = NoRequest
      /\ \A t \in Server \ {s} : request'[t] = request[t]
  BY <1>0, ConstantFacts DEF LegacyTypeOK
<1>2. RunningIsHeld'
  BY <1>0, <1>1, ConstantFacts DEF LInv, RunningIsHeld
<1>3. Known'
  BY <1>1, ConstantFacts DEF LInv, Known, Running
<1>4. Rows'
  BY <1>0, <1>1, ConstantFacts DEF LInv, Rows
<1>5. Final
  BY <1>0 DEF Final
<1> QED
  BY <1>0, <1>1, <1>2, <1>3, <1>4, <1>5 DEF Queue, LegacyTypeOK

\* The part about the processes is the rest.
LEMMA Together ==
  ASSUME LInv, Queue', Alone', faults' \in 0..MaxFaults,
         srv' \in [Server -> ServerState], pidfile' \in Server \cup {NoServer},
         stopper' \in [pc : {"none", "wait"}, target : Server \cup {NoServer}, managed : BOOLEAN],
         overlap' \in BOOLEAN
  PROVE  LInv'
BY DEF LInv, LegacyTypeOK, Queue

LEMMA ProcessFacts ==
  ASSUME LInv
  PROVE  /\ LegacyTypeOK /\ faults \in 0..MaxFaults
         /\ \A s \in Server : s # NoServer
         /\ \A s \in Server : srv[s] \in ServerState
         /\ pidfile \in Server \cup {NoServer} /\ overlap \in BOOLEAN
         /\ stopper.pc \in {"none", "wait"} /\ stopper.target \in Server \cup {NoServer}
BY DEF LInv, LegacyTypeOK

\* A process goes on to another state.
LEMMA Goes ==
  ASSUME LInv, NEW s \in Server, NEW to \in ServerState, srv' = [srv EXCEPT ![s] = to]
  PROVE  /\ srv' \in [Server -> ServerState] /\ srv'[s] = to
         /\ \A t \in Server \ {s} : srv'[t] = srv[t]
BY DEF LInv, LegacyTypeOK

LEMMA CheckStep ==
  ASSUME LInv, NEW s \in Server, serve_check(s)
  PROVE  LInv' /\ Final
<1>0. /\ srv[s] = "new" /\ ~is_pid_alive(pidfile) /\ pidfile' = NoServer
      /\ srv' = [srv EXCEPT ![s] = "checked"]
      /\ overlap' = (overlap \/ stopper.pc # "none" \/ \E t \in Server : Starting(t))
      /\ UNCHANGED <<status, worker, request, orphans, blind, dropped, faults, lock, stopper>>
  BY DEF serve_check, Go, Starting, queueVars
<1>1. /\ srv' \in [Server -> ServerState] /\ srv'[s] = "checked"
      /\ \A t \in Server \ {s} : srv'[t] = srv[t]
  BY <1>0, Goes DEF ServerState
<1>2. Alone'
  BY <1>0, <1>1, ProcessFacts DEF LInv, Alone, Starting, is_pid_alive
<1>3. overlap' \in BOOLEAN
  BY <1>0, ProcessFacts
<1> QED
  BY <1>0, <1>1, <1>2, <1>3, ProcessFacts, QueueStays, Together DEF LegacyTypeOK

LEMMA WritePidStep ==
  ASSUME LInv, NEW s \in Server, write_pidfile(s)
  PROVE  LInv' /\ Final
<1>0. /\ srv[s] = "checked" /\ pidfile' = s /\ srv' = [srv EXCEPT ![s] = "listed"]
      /\ UNCHANGED <<status, worker, request, orphans, blind, dropped, faults, lock, stopper, overlap>>
  BY DEF write_pidfile, Go, queueVars
<1>1. /\ srv' \in [Server -> ServerState] /\ srv'[s] = "listed"
      /\ \A t \in Server \ {s} : srv'[t] = srv[t]
  BY <1>0, Goes DEF ServerState
<1>2. Alone'
  BY <1>0, <1>1 DEF LInv, Alone, Starting
<1> QED
  BY <1>0, <1>1, <1>2, ProcessFacts, QueueStays, Together DEF LegacyTypeOK

LEMMA StartWorkerStep ==
  ASSUME LInv, NEW s \in Server, start_worker(s) \/ worker_main(s)
  PROVE  LInv' /\ Final
<1>0. /\ UNCHANGED <<pidfile, stopper, overlap>>
      /\ \/ srv[s] = "listed" /\ srv' = [srv EXCEPT ![s] = "ready"]
         \/ srv[s] = "new" /\ srv' = [srv EXCEPT ![s] = "worker"]
  BY DEF start_worker, worker_main, Go
<1>1. Queue' /\ Final /\ faults' = faults
  <2>1. CASE Enlist(s)
    BY <2>1, EnlistMoves DEF Enlist
  <2>2. CASE UNCHANGED <<lock, queueVars>>
    BY <2>2, QueueStays DEF queueVars
  <2> QED
    BY <2>1, <2>2 DEF start_worker, worker_main
<1>2. /\ srv' \in [Server -> ServerState]
      /\ \A t \in Server \ {s} : srv'[t] = srv[t]
      /\ \/ srv[s] = "listed" /\ srv'[s] = "ready"
         \/ srv[s] = "new" /\ srv'[s] = "worker"
  BY <1>0, Goes DEF ServerState
<1>3. Alone'
  BY <1>0, <1>2 DEF LInv, Alone, Starting
<1> QED
  BY <1>0, <1>1, <1>2, <1>3, ProcessFacts, Together DEF LegacyTypeOK

LEMMA BindStep ==
  ASSUME LInv, NEW s \in Server, Bind(s)
  PROVE  LInv' /\ Final
<1>0. srv[s] = "ready" /\ UNCHANGED <<stopper, overlap>>
  BY DEF Bind
<1>1. CASE /\ srv' = [srv EXCEPT ![s] = "up"] /\ UNCHANGED <<queueVars, lock, pidfile>>
  <2>1. /\ srv' \in [Server -> ServerState] /\ srv'[s] = "up"
        /\ \A t \in Server \ {s} : srv'[t] = srv[t]
    BY <1>1, Goes DEF ServerState
  <2>2. UNCHANGED <<status, worker, request, orphans, blind, dropped, faults, lock, pidfile>>
    BY <1>1 DEF queueVars
  <2>3. Alone'
    BY <1>0, <2>1, <2>2 DEF LInv, Alone, Starting
  <2> QED
    BY <1>0, <2>1, <2>2, <2>3, ProcessFacts, QueueStays, Together DEF LegacyTypeOK
<1>2. CASE Vanish(s) /\ pidfile' = NoServer /\ UNCHANGED faults
  <2>1. Queue' /\ Final /\ srv' = [srv EXCEPT ![s] = "gone"]
    BY <1>2, VanishMoves
  <2>2. /\ srv' \in [Server -> ServerState] /\ srv'[s] = "gone"
        /\ \A t \in Server \ {s} : srv'[t] = srv[t]
    BY <2>1, Goes DEF ServerState
  <2>3. Alone'
    BY <1>0, <1>2, <2>2 DEF LInv, Alone, Starting
  <2> QED
    BY <1>0, <1>2, <2>1, <2>2, <2>3, ProcessFacts, Together DEF LegacyTypeOK
<1> QED
  BY <1>1, <1>2 DEF Bind, Go

\* A process dies and nothing else happens to the pid file or the stop.
LEMMA Dies ==
  ASSUME LInv, NEW s \in Server, Vanish(s), faults' \in 0..MaxFaults,
         UNCHANGED <<pidfile, stopper, overlap>>
  PROVE  LInv' /\ Final
<1>1. Queue' /\ Final /\ srv' = [srv EXCEPT ![s] = "gone"]
  BY VanishMoves
<1>2. /\ srv' \in [Server -> ServerState] /\ srv'[s] = "gone"
      /\ \A t \in Server \ {s} : srv'[t] = srv[t]
  BY <1>1, Goes DEF ServerState
<1>3. Alone'
  BY <1>2 DEF LInv, Alone, Starting
<1> QED
  BY <1>1, <1>2, <1>3, ProcessFacts, Together DEF LegacyTypeOK

LEMMA CrashStep ==
  ASSUME LInv, NEW s \in Server, Crash(s)
  PROVE  LInv' /\ Final
<1>1. faults' \in 0..MaxFaults
  BY ProcessFacts DEF Crash
<1> QED
  BY <1>1, Dies DEF Crash

LEMMA StopBeginStep ==
  ASSUME LInv, NEW s \in Server, stop_begin(s)
  PROVE  LInv' /\ Final
<1>0. /\ Found(s) /\ stopper' = [pc |-> "wait", target |-> s, managed |-> pidfile = s]
      /\ pidfile' = IF is_pid_alive(pidfile) THEN pidfile ELSE NoServer
      /\ overlap' = (overlap \/ \E t \in Server \ {s} : Starting(t))
      /\ Terminate(s)
  BY DEF stop_begin, Starting
<1>1. Queue' /\ Final /\ faults' = faults
      /\ \/ srv' = [srv EXCEPT ![s] = "gone"]
         \/ srv' = [srv EXCEPT ![s] = "hung"]
  BY <1>0, VanishMoves, QueueStays DEF Terminate, Go, queueVars
<1>2. /\ srv' \in [Server -> ServerState] /\ srv'[s] \in {"gone", "hung"}
      /\ \A t \in Server \ {s} : srv'[t] = srv[t]
  BY <1>1, Goes DEF ServerState
<1>3. Alone'
  <2>1. ASSUME ~overlap', NEW t \in Server \ {s}
        PROVE  ~Starting(t) /\ srv[t] # "up"
    <3>1. ~Starting(t) /\ ~overlap
      BY <1>0, <2>1
    <3>2. srv[t] = "up" => pidfile = t /\ is_pid_alive(t)
      BY <3>1, ProcessFacts DEF LInv, Alone, is_pid_alive
    <3> QED
      BY <1>0, <3>1, <3>2 DEF Found
  <2>2. ~overlap' => \A t \in Server : ~Starting(t)' /\ srv'[t] # "up"
    BY <1>2, <2>1 DEF Starting
  <2> QED
    BY <2>2 DEF Alone, Starting
<1>4. pidfile' \in Server \cup {NoServer} /\ overlap' \in BOOLEAN
      /\ stopper' \in [pc : {"none", "wait"}, target : Server \cup {NoServer}, managed : BOOLEAN]
  BY <1>0, ProcessFacts
<1> QED
  BY <1>1, <1>2, <1>3, <1>4, ProcessFacts, Together

LEMMA StopStep ==
  ASSUME LInv, stop_kill \/ stop_end \/ stop_nothing
  PROVE  LInv' /\ Final
<1>1. CASE stop_kill
  <2>1. stopper.target \in Server
    BY <1>1, ProcessFacts DEF stop_kill, is_pid_alive
  <2> QED
    BY <1>1, <2>1, ProcessFacts, Dies DEF stop_kill
<1>2. CASE stop_end
  <2>0. /\ stopper.pc = "wait" /\ pidfile' \in {NoServer, pidfile} /\ stopper' = NoStop
        /\ UNCHANGED <<status, worker, request, orphans, blind, dropped, faults, srv, lock, overlap>>
    BY <1>2 DEF stop_end, queueVars
  <2>1. Alone'
    BY <2>0 DEF LInv, Alone, Starting, NoStop
  <2>2. stopper' \in [pc : {"none", "wait"}, target : Server \cup {NoServer}, managed : BOOLEAN]
    BY <2>0 DEF NoStop
  <2> QED
    BY <2>0, <2>1, <2>2, ProcessFacts, QueueStays, Together DEF LegacyTypeOK
<1>3. CASE stop_nothing
  <2>0. /\ pidfile' = NoServer
        /\ \A s \in Server : ~Found(s)
        /\ UNCHANGED <<status, worker, request, orphans, blind, dropped, faults, srv, lock, stopper, overlap>>
    BY <1>3 DEF stop_nothing, queueVars
  <2>1. \A s \in Server : pidfile = s => srv[s] \notin {"listed", "ready", "up"}
    BY <2>0, ProcessFacts DEF Found, is_pid_alive
  <2>2. Alone'
    BY <2>0, <2>1 DEF LInv, Alone, Starting
  <2> QED
    BY <2>0, <2>2, ProcessFacts, QueueStays, Together DEF LegacyTypeOK
<1> QED
  BY <1>1, <1>2, <1>3

(***************************************************************************)
(* The theorems.                                                           *)
(***************************************************************************)

LEMMA Initially ==
  ASSUME Init
  PROVE  LInv
<1>1. LegacyTypeOK
  <2>1. status \in [Job -> JobStatus] /\ srv \in [Server -> ServerState]
    BY DEF Init, QueueInit, JobStatus, ServerState
  <2>2. worker \in [Server -> WorkerState] /\ request \in [Server -> Request]
    BY ConstantFacts DEF Init, QueueInit
  <2>3. stopper \in [pc : {"none", "wait"}, target : Server \cup {NoServer}, managed : BOOLEAN]
    BY DEF Init, NoStop
  <2>4. orphans \subseteq Job /\ blind \subseteq Job /\ dropped \subseteq Job /\ faults \in 0..MaxFaults
    BY DEF Init, QueueInit
  <2>5. lock \in Server \cup {NoServer} /\ pidfile \in Server \cup {NoServer} /\ overlap \in BOOLEAN
    BY DEF Init
  <2> QED
    BY <2>1, <2>2, <2>3, <2>4, <2>5 DEF LegacyTypeOK
<1>2. RunningIsHeld /\ Known /\ Rows
  BY ConstantFacts DEF Init, QueueInit, RunningIsHeld, Known, Rows, Running
<1>3. Alone
  BY DEF Init, Alone, Starting, NoStop
<1> QED
  BY <1>1, <1>2, <1>3 DEF LInv

LEMMA StepKeeps ==
  ASSUME LInv, [Next]_vars
  PROVE  LInv' /\ Final
<1>1. ASSUME NEW s \in Server, Startup(s) PROVE LInv' /\ Final
  BY <1>1, CheckStep, WritePidStep, StartWorkerStep, BindStep DEF Startup
<1>2. ASSUME NEW s \in Server, Threads(s) \/ Crash(s) \/ stop_begin(s) PROVE LInv' /\ Final
  BY <1>2, ThreadsStep, CrashStep, StopBeginStep
<1>3. CASE stop_kill \/ stop_end \/ stop_nothing
  BY <1>3, StopStep
<1>4. CASE Outside
  BY <1>4, AddStep, OrphanEndsStep DEF Outside
<1>5. CASE UNCHANGED vars
  <2>1. UNCHANGED <<status, worker, request, orphans, blind, dropped, faults, srv, lock, pidfile, stopper, overlap>>
    BY <1>5 DEF vars, queueVars, serviceVars
  <2>2. Alone'
    BY <2>1 DEF LInv, Alone, Starting
  <2> QED
    BY <2>1, <2>2, ProcessFacts, QueueStays, Together DEF LegacyTypeOK
<1> QED
  BY <1>1, <1>2, <1>3, <1>4, <1>5 DEF Next

LEMMA AlwaysLInv == Spec => []LInv
<1>1. LInv /\ [Next]_vars => LInv'
  BY StepKeeps
<1> QED
  BY Initially, <1>1, PTL DEF Spec

\* Types; only a job is ever left to an orphaned downloader.
THEOREM ServiceInShape == Spec => []LegacyTypeOK
<1>1. LInv => LegacyTypeOK
  BY DEF LInv
<1> QED
  BY <1>1, AlwaysLInv, PTL

\* The worker lock makes running mean what it says: who holds it has the only
\* worker, and as long as its thread lives no other row is running, except
\* those whose claim it did not get to know.
THEOREM LockMeansWorker == Spec => []RunningIsHeld
<1>1. LInv => RunningIsHeld
  BY DEF LInv
<1> QED
  BY <1>1, AlwaysLInv, PTL

\* A row is paused only after the downloader that the worker waits for has
\* ended.
THEOREM PauseWaits == Spec => []PausedIsStopped
<1>1. LInv => PausedIsStopped
  BY DEF LInv, PausedIsStopped, Known, Rows
<1> QED
  BY <1>1, AlwaysLInv, PTL

\* The pid file names the service that runs, unless two commands overlapped.
THEOREM PidfileIsRight == Spec => []PidfileNamesService
<1>1. LInv => PidfileNamesService
  BY DEF LInv, Alone, PidfileNamesService
<1> QED
  BY <1>1, AlwaysLInv, PTL

\* What is done or canceled stays so until it is retried, unless a cancel hit
\* it blindly.
THEOREM EndsAreFinal == Spec => FinalUnlessBlind
<1>1. LInv /\ [Next]_vars =>
        [ \A j \in Job \ blind' :
            /\ status[j] = "done" => status'[j] = "done"
            /\ status[j] = "canceled" => status'[j] \in {"canceled", "pending"} ]_vars
  BY StepKeeps DEF Final
<1> QED
  BY <1>1, AlwaysLInv, PTL DEF Spec, FinalUnlessBlind
=============================================================================
