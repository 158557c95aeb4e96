------------------------------ MODULE Dispatch ------------------------------
(***************************************************************************)
(* How a queued job reaches a worker: the API publishes after its commit,  *)
(* the broker keeps and sometimes loses messages, a worker acknowledges    *)
(* late, and the reconciler publishes again what seems not to be enqueued  *)
(* (backend/app/api/jobs.py, worker/dispatch.py, worker/tasks.py,          *)
(* services/reconcile.py).  The rows and their transactions are those of   *)
(* JobService; Celery and Redis are modelled as this code uses them.       *)
(***************************************************************************)
EXTENDS JobService

CONSTANTS
  MaxMessages,   \* bound: copies of one job's message in the broker
  MaxLosses,     \* bound: how often the broker loses all its messages
  MaxOps         \* bound: operations of the users after submission

ASSUME BoundsAssumption ==
  MaxMessages \in Nat \ {0} /\ MaxLosses \in Nat /\ MaxOps \in Nat

VARIABLES
  queue,    \* queue[j]: messages for j waiting in the broker
  api,      \* api[j]: where the API's requests are that will publish j
  losses, ops

dvars == <<vars, queue, api, losses, ops>>

DInit ==
  /\ Init
  /\ queue = [j \in Job |-> 0]
  /\ api = [j \in Job |-> {}]
  /\ losses = 0
  /\ ops = 0

-----------------------------------------------------------------------------
(* The API.                                                                *)

\* The request goes on to _dispatch_job after its commit.
WillPublish(j) == api' = [api EXCEPT ![j] = @ \cup {"publish"}]

Submit(j) == create_job(j) /\ WillPublish(j) /\ UNCHANGED <<queue, losses, ops>>

Operate(j) ==
  /\ ops < MaxOps
  /\ ops' = ops + 1
  /\ \/ (pause_job(j) \/ cancel_job(j) \/ delete_job(j)) /\ UNCHANGED api
     \/ (resume_job(j) \/ retry_job(j)) /\ WillPublish(j)
        \* resume or retry of a queued job changes nothing but publishes it again
     \/ Visible(j) /\ job[j].status = "queued" /\ WillPublish(j) /\ UNCHANGED vars
  /\ UNCHANGED <<queue, losses>>

\* get_dispatcher().download(j)
Publish(j) ==
  /\ "publish" \in api[j]
  /\ queue[j] < MaxMessages
  /\ queue' = [queue EXCEPT ![j] = @ + 1]
  /\ api' = [api EXCEPT ![j] = (@ \ {"publish"}) \cup {"stamp"}]
  /\ UNCHANGED <<vars, losses, ops>>

\* The UPDATE of enqueued_at after the message is out; it changes nothing
\* if the job is not queued any more or somebody else was faster.
Stamp(j) ==
  /\ "stamp" \in api[j]
  /\ IF job[j].status = "queued" /\ job[j].enqueued = "null"
     THEN mark_enqueued(j) ELSE UNCHANGED vars
  /\ api' = [api EXCEPT ![j] = @ \ {"stamp"}]
  /\ UNCHANGED <<queue, losses, ops>>

\* The broker is down, or the request dies.
GiveUp(j) ==
  /\ \E at \in api[j] : api' = [api EXCEPT ![j] = @ \ {at}]
  /\ UNCHANGED <<vars, queue, losses, ops>>

-----------------------------------------------------------------------------
(* The workers.                                                            *)

Taken(j) == queue' = [queue EXCEPT ![j] = @ - 1]

\* A free slot takes a message and claims the job.  The message is not
\* acknowledged before the attempt ends: attempt[w] stands for it.
Receive(w, j) ==
  /\ queue[j] > 0
  /\ Claimed(w, j)
  /\ Taken(j)
  /\ UNCHANGED <<api, losses, ops>>

\* The claim is deferred or skipped, and the message acknowledged.
ReceiveInVain(w, j) ==
  /\ queue[j] > 0
  /\ \/ \E lowDisk \in BOOLEAN : ClaimDeferred(w, j, lowDisk)
     \/ /\ phase[w] = "idle"
        /\ job[j].status # "queued" \/ job[j].deleted
        /\ UNCHANGED vars
  /\ Taken(j)
  /\ UNCHANGED <<api, losses, ops>>

Work(w) ==
  /\ \/ heartbeat(w) \/ complete_job(w) \/ preflight_fail(w)
     \/ \E retryable, frees \in BOOLEAN : fail_or_retry(w, retryable, frees)
     \/ finish_stop(w) \/ mark_purged(w) \/ Return(w)
  /\ UNCHANGED <<queue, api, losses, ops>>

\* task_reject_on_worker_lost: the message of a dead worker is queued again.
\* That of an attempt which raised is acknowledged like any other.
Die(w) ==
  /\ Crash(w)
  /\ \/ queue[attempt[w]] < MaxMessages /\ queue' = [queue EXCEPT ![attempt[w]] = @ + 1]
     \/ UNCHANGED queue
  /\ UNCHANGED <<api, losses, ops>>

-----------------------------------------------------------------------------
(* The broker, the reconciler and the clock.                               *)

LoseMessages ==
  /\ losses < MaxLosses
  /\ losses' = losses + 1
  /\ queue' = [j \in Job |-> 0]
  /\ UNCHANGED <<vars, api, ops>>

\* The message is published before the row is committed, under its lock.
Redispatch(j) ==
  /\ redispatch_queued(j)
  /\ queue[j] < MaxMessages
  /\ queue' = [queue EXCEPT ![j] = @ + 1]
  /\ UNCHANGED <<api, losses, ops>>

\* The same, but the reconciler dies before it commits.
RedispatchDies(j) ==
  /\ job[j].status = "queued" /\ job[j].due /\ job[j].enqueued # "fresh"
  /\ queue[j] < MaxMessages
  /\ queue' = [queue EXCEPT ![j] = @ + 1]
  /\ UNCHANGED <<vars, api, losses, ops>>

Upkeep(j) ==
  /\ recover_expired_leases(j) \/ sweep_expired(j) \/ sweep_leftover(j) \/ ClockStep(j)
  /\ UNCHANGED <<queue, api, losses, ops>>

-----------------------------------------------------------------------------
DNext ==
  \/ \E j \in Job : \/ Submit(j) \/ Operate(j) \/ Publish(j) \/ Stamp(j) \/ GiveUp(j)
                    \/ Redispatch(j) \/ RedispatchDies(j) \/ Upkeep(j)
  \/ \E w \in Worker : \/ Work(w) \/ Die(w)
                       \/ \E j \in Job : Receive(w, j) \/ ReceiveInVain(w, j)
  \/ LoseMessages

DSpec == DInit /\ [][DNext]_dvars

\* A live worker goes on: run_controlled polls control() at every interval
\* and ends the process at job_max_runtime_seconds, and what follows waits
\* for nobody.  Celery beat runs the reconciler again and again and the clock
\* goes on.  A free slot takes what is in the broker; strong fairness says
\* that the disk is not low at every single delivery.  Users, the API and the
\* broker owe nothing.
Alone == UNCHANGED <<queue, api, losses, ops>>

RunEnds(w) ==
  complete_job(w) \/ \E retryable, frees \in BOOLEAN : fail_or_retry(w, retryable, frees)

Fairness ==
  /\ \A w \in Worker :
       /\ WF_dvars(heartbeat(w) /\ Alone)
       /\ WF_dvars(RunEnds(w) /\ Alone)
       /\ WF_dvars((finish_stop(w) \/ mark_purged(w) \/ Return(w)) /\ Alone)
  /\ \A j \in Job :
       /\ WF_dvars(~HolderAlive(j) /\ LeaseRunsOut(j) /\ Alone)
       /\ WF_dvars(recover_expired_leases(j) /\ Alone)
       /\ WF_dvars(BackoffElapses(j) /\ Alone)
       /\ WF_dvars(EnqueuedGoesStale(j) /\ Alone)
       /\ WF_dvars(Redispatch(j))
       /\ WF_dvars(\E w \in Worker : ReceiveInVain(w, j))
       /\ SF_dvars(\E w \in Worker : Receive(w, j))

FairSpec == DSpec /\ Fairness

-----------------------------------------------------------------------------
(***************************************************************************)
(* Properties.                                                             *)
(***************************************************************************)

\* A submitted job is not forgotten: whatever messages are lost, doubled or
\* taken in vain, whoever dies, and whatever enqueued_at wrongly claims, a
\* queued job ends up finished, or paused because its user wanted that.
QueuedSettles ==
  \A j \in Job : job[j].status = "queued" ~> job[j].status \in TERMINAL \cup {"paused"}

\* A requested cancel is carried out, whether the worker hears of it at its
\* next heartbeat, finishes first, or dies and leaves it to the reconciler.
CancelServed ==
  \A j \in Job : job[j].status = "canceling" ~> job[j].status = "canceled"

\* A pausing job does not hang: it is paused, canceled or, when the process
\* was faster, finished.
PauseServed ==
  \A j \in Job : job[j].status = "pausing" ~> job[j].status # "pausing"
=============================================================================
