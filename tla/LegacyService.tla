---------------------------- MODULE LegacyService ---------------------------
(***************************************************************************)
(* The processes of the single-user service (ytaria.py): serve and worker, *)
(* the lock that lets one of them download, the pid file, and start and    *)
(* stop from the command line.                                             *)
(*                                                                         *)
(* A process is started once and gets a name of its own.  All serve on one *)
(* port, with one database and one pid file.                               *)
(***************************************************************************)
EXTENDS LegacyWorker

CONSTANTS NoServer

ASSUME ServiceAssumption == NoServer \notin Server

VARIABLES
  srv,      \* srv[s]: how far the process is
  lock,     \* the holder of the worker lock
  pidfile,  \* the process that the pid file names
  stopper,  \* a stop command under way
  overlap   \* two commands have worked on the pid file at the same time

serviceVars == <<srv, lock, pidfile, stopper, overlap>>
vars == <<queueVars, serviceVars>>

ServerState == {"new", "checked", "listed", "ready", "up", "hung", "worker", "gone"}

NoStop == [pc |-> "none", target |-> NoServer, managed |-> FALSE]

Init ==
  /\ QueueInit
  /\ srv = [s \in Server |-> "new"]
  /\ lock = NoServer
  /\ pidfile = NoServer
  /\ stopper = NoStop
  /\ overlap = FALSE

is_pid_alive(s) == s # NoServer /\ srv[s] \notin {"new", "gone"}

\* HTTP threads run on while the main thread is stuck in a signal handler,
\* but nobody accepts new requests.
Serves(s) == srv[s] \in {"up", "hung"}

Go(s, to) == srv' = [srv EXCEPT ![s] = to]

-----------------------------------------------------------------------------
(* A process starts.                                                       *)

\* A service that is already running is not noticed.
serve_check_mutant(s) ==
  /\ srv[s] = "new"
  /\ Go(s, "checked")
  /\ overlap' = (overlap \/ stopper.pc # "none" \/ \E t \in Server : srv[t] \in {"checked", "listed", "ready"})
  /\ UNCHANGED <<queueVars, lock, stopper, pidfile>>

\* get_running_pid, also by start_service before it runs serve: a live pid is
\* refused, the file of a dead one is removed.
serve_check(s) ==
  /\ srv[s] = "new"
  /\ ~is_pid_alive(pidfile)
  /\ pidfile' = NoServer
  /\ Go(s, "checked")
  /\ overlap' = (overlap \/ stopper.pc # "none" \/ \E t \in Server : srv[t] \in {"checked", "listed", "ready"})
  /\ UNCHANGED <<queueVars, lock, stopper>>

write_pidfile(s) ==
  /\ srv[s] = "checked"
  /\ pidfile' = s
  /\ Go(s, "listed")
  /\ UNCHANGED <<queueVars, lock, stopper, overlap>>

\* Orphans are not requeued.
Enlist_mutant(s) ==
  /\ lock = NoServer
  /\ lock' = s
  /\ worker' = [worker EXCEPT ![s] = IdleWorker]
  /\ UNCHANGED <<status, request, orphans, blind, dropped, faults>>

\* The lock is taken, rows that a dead worker left running are queued again.
Enlist(s) ==
  /\ lock = NoServer
  /\ lock' = s
  /\ status' = [j \in Job |-> IF status[j] = "running" THEN "pending" ELSE status[j]]
  /\ worker' = [worker EXCEPT ![s] = IdleWorker]
  /\ dropped' = {}
  /\ UNCHANGED <<request, orphans, blind, faults>>

start_worker(s) ==
  /\ srv[s] = "listed"
  /\ Go(s, "ready")
  /\ Enlist(s) \/ (lock # NoServer /\ UNCHANGED <<lock, queueVars>>)
  /\ UNCHANGED <<pidfile, stopper, overlap>>

worker_main(s) ==
  /\ srv[s] = "new"
  /\ Go(s, "worker")
  /\ Enlist(s)
  /\ UNCHANGED <<pidfile, stopper, overlap>>

-----------------------------------------------------------------------------
(* A process ends: its threads end with it, its lock is released and its   *)
(* downloader, which has a session of its own, goes on.                    *)

Vanish(s) ==
  /\ Go(s, "gone")
  /\ lock' = IF lock = s THEN NoServer ELSE lock
  /\ orphans' = Orphaned(s)
  /\ worker' = [worker EXCEPT ![s] = NoWorker]
  /\ request' = [request EXCEPT ![s] = NoRequest]
  /\ UNCHANGED <<status, blind, dropped>>

\* AppServer binds the port, or the process ends with an exception: then
\* atexit removes the pid file, whoever it names.
Bind(s) ==
  /\ srv[s] = "ready"
  /\ \/ /\ \A t \in Server : ~Serves(t)
        /\ Go(s, "up")
        /\ UNCHANGED <<queueVars, lock, pidfile>>
     \/ /\ \E t \in Server : Serves(t)
        /\ Vanish(s)
        /\ pidfile' = NoServer
        /\ UNCHANGED faults
  /\ UNCHANGED <<stopper, overlap>>

\* kill -9, by the user or the system.
Crash(s) ==
  /\ is_pid_alive(s)
  /\ faults < MaxFaults
  /\ faults' = faults + 1
  /\ Vanish(s)
  /\ UNCHANGED <<pidfile, stopper, overlap>>

\* SIGTERM.  The handler of serve calls server.shutdown() in the thread that
\* runs serve_forever, and waits for itself; before it is installed, and in
\* worker, the signal ends the process.
Terminate(s) ==
  IF Serves(s)
  THEN Go(s, "hung") /\ UNCHANGED <<queueVars, lock>>
  ELSE Vanish(s) /\ UNCHANGED faults

-----------------------------------------------------------------------------
(* stop_service.                                                           *)

\* get_service_pid: the pid file, else a process with the right command line.
Found(s) ==
  \/ is_pid_alive(pidfile) /\ s = pidfile
  \/ ~is_pid_alive(pidfile) /\ is_pid_alive(s) /\ srv[s] # "worker"

stop_begin(s) ==
  /\ stopper.pc = "none"
  /\ Found(s)
  /\ stopper' = [pc |-> "wait", target |-> s, managed |-> pidfile = s]
  /\ pidfile' = IF is_pid_alive(pidfile) THEN pidfile ELSE NoServer
  /\ Terminate(s)
  /\ overlap' = (overlap \/ \E t \in Server \ {s} : srv[t] \in {"checked", "listed", "ready"})

\* stop_pid after its timeout: SIGKILL.
stop_kill ==
  /\ stopper.pc = "wait"
  /\ is_pid_alive(stopper.target)
  /\ Vanish(stopper.target)
  /\ UNCHANGED <<faults, pidfile, stopper, overlap>>

stop_end ==
  /\ stopper.pc = "wait"
  /\ ~is_pid_alive(stopper.target)
  /\ pidfile' = IF stopper.managed THEN NoServer ELSE pidfile
  /\ stopper' = NoStop
  /\ UNCHANGED <<queueVars, srv, lock, overlap>>

\* Nothing to stop.
stop_nothing ==
  /\ stopper.pc = "none"
  /\ \A s \in Server : ~Found(s)
  /\ pidfile' = NoServer
  /\ UNCHANGED <<queueVars, srv, lock, stopper, overlap>>

-----------------------------------------------------------------------------
Startup(s) ==
  \/ serve_check(s) \/ write_pidfile(s) \/ start_worker(s) \/ worker_main(s) \/ Bind(s)

Threads(s) ==
  /\ \/ WorkerThread(s) \/ Breakage(s) \/ ChildEnds(s) \/ OngoingRequest(s)
     \/ srv[s] = "up" /\ NewRequest(s)
  /\ UNCHANGED serviceVars

Outside == (\E j \in Job : add_job(j) \/ OrphanEnds(j)) /\ UNCHANGED serviceVars

Next ==
  \/ \E s \in Server : Startup(s) \/ Threads(s) \/ Crash(s) \/ stop_begin(s)
  \/ stop_kill \/ stop_end \/ stop_nothing
  \/ Outside

Spec == Init /\ [][Next]_vars

-----------------------------------------------------------------------------
(***************************************************************************)
(* Properties.                                                             *)
(***************************************************************************)

LegacyTypeOK ==
  /\ status \in [Job -> JobStatus]
  /\ worker \in [Server -> WorkerState]
  /\ request \in [Server -> Request]
  /\ orphans \subseteq Job /\ blind \subseteq Job /\ dropped \subseteq Job
  /\ faults \in 0..MaxFaults
  /\ srv \in [Server -> ServerState]
  /\ lock \in Server \cup {NoServer}
  /\ pidfile \in Server \cup {NoServer}
  /\ stopper \in [pc : {"none", "wait"}, target : Server \cup {NoServer}, managed : BOOLEAN]
  /\ overlap \in BOOLEAN

\* Only the holder of the lock has a worker, and as long as its thread lives
\* no row is left running but the one it works on and those whose claim it did
\* not get to know: what a dead worker left is queued again before the next
\* one claims anything.
RunningIsHeld ==
  \A s \in Server :
    /\ worker[s].pc # "off" <=> lock = s
    /\ worker[s].pc \notin {"off", "dead"} =>
         \A j \in Job \ dropped : status[j] = "running" => worker[s].job = j

\* A finished download stays finished and a canceled one canceled, until it
\* is retried, except for jobs that a cancel hit blindly: between the claim
\* and the moment the worker knows its current job, or after a stale look.
FinalUnlessBlind ==
  [][ \A j \in Job \ blind' :
        /\ status[j] = "done" => status'[j] = "done"
        /\ status[j] = "canceled" => status'[j] \in {"canceled", "pending"} ]_vars

\* While a row is paused, the worker does not wait for a downloader of that
\* job: pausing is over only when the process that it started has ended.  What
\* that process leaves behind (its helpers, an orphan) is not meant.
PausedIsStopped ==
  \A j \in Job, s \in Server :
    status[j] = "paused" => ~(Running(s) /\ worker[s].job = j)

\* A service that runs is the one its pid file names, unless two commands
\* overlapped: the check and the write of the file are two steps, and so are
\* the end of a process and the removal of its file.
PidfileNamesService ==
  \A s \in Server : srv[s] = "up" /\ ~overlap => pidfile = s
=============================================================================
