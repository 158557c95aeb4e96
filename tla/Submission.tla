------------------------------ MODULE Submission ----------------------------
(***************************************************************************)
(* create_job and retry_job of backend/app/services/jobs.py, statement by  *)
(* statement: several requests of one user read the table, wait for the    *)
(* user's row, read again and write, while jobs end meanwhile.  JobService *)
(* takes each of them for one step; here is why it may.                    *)
(*                                                                         *)
(* READ COMMITTED: a statement sees what is committed when it begins.  Of  *)
(* what else happens to a job only its end matters: no other operation     *)
(* makes a job active that was not.                                        *)
(***************************************************************************)
EXTENDS Admission

CONSTANTS Request, NoRequest, NoJob

ASSUME SubmissionAssumption == NoRequest \notin Request /\ NoJob \notin Job

VARIABLES
  req,       \* req[r]: one request of the user after another
  userLock   \* who holds the user's row FOR UPDATE

svars == <<row, req, userLock>>

Call ==
  [ pc   : {"idle", "lookup", "lock", "check", "write", "winner", "answered", "refused", "error"},
    op   : {"create", "retry"},
    wants : Content \cup {NoContent},
    key  : Key \cup {NoKey},
    job  : Job \cup {NoJob} ]     \* the job to retry, and the job of the answer

NoCall ==
  [pc |-> "idle", op |-> "create", wants |-> NoContent, key |-> NoKey, job |-> NoJob]

SInit ==
  /\ Init
  /\ req = [r \in Request |-> NoCall]
  /\ userLock = NoRequest

To(r, pc) == req' = [req EXCEPT ![r].pc = pc]

Answer(r, j) == req' = [req EXCEPT ![r] = [@ EXCEPT !.pc = "answered", !.job = j]]

\* A transaction is left open.
Unlock_mutant(r) == UNCHANGED userLock

\* The transaction ends, and with it its lock.
Unlock(r) == userLock' = IF userLock = r THEN NoRequest ELSE userLock

-----------------------------------------------------------------------------
create_job(r, c, k) ==
  /\ req[r].pc = "idle"
  /\ req' = [req EXCEPT ![r] = [NoCall EXCEPT !.pc = "lookup", !.wants = c, !.key = k]]
  /\ UNCHANGED <<row, userLock>>

retry_job(r, j) ==
  /\ req[r].pc = "idle"
  /\ row[j].status # "absent"
  /\ req' = [req EXCEPT ![r] = [NoCall EXCEPT !.pc = "lock", !.op = "retry", !.job = j]]
  /\ UNCHANGED <<row, userLock>>

\* A request without a key is answered with any row that has none.
Lookup_mutant(r) ==
  /\ req[r].pc = "lookup"
  /\ \/ \E j \in Job : row[j].status # "absent" /\ row[j].key = req[r].key /\ Answer(r, j)
     \/ (\A j \in Job : row[j].status # "absent" => row[j].key # req[r].key) /\ To(r, "lock")
  /\ UNCHANGED <<row, userLock>>

\* The key is looked up before anything is locked.
Lookup(r) ==
  /\ req[r].pc = "lookup"
  /\ \/ \E j \in Keyed(req[r].key) : Answer(r, j)
     \/ Keyed(req[r].key) = {} /\ To(r, "lock")
  /\ UNCHANGED <<row, userLock>>

\* A retry goes on without the user's row.
LockUser_mutant(r) ==
  /\ req[r].pc = "lock"
  /\ userLock' = IF req[r].op = "retry" THEN userLock ELSE r
  /\ req[r].op = "create" => userLock = NoRequest
  /\ To(r, "check")
  /\ UNCHANGED row

\* SELECT .. FROM users .. FOR UPDATE
LockUser(r) ==
  /\ req[r].pc = "lock"
  /\ userLock = NoRequest
  /\ userLock' = r
  /\ To(r, "check")
  /\ UNCHANGED row

Refuse(r) == To(r, "refused") /\ Unlock(r)

\* The inspection and the selection may be refused; a twin is the answer;
\* the limit, the quota and the file size may refuse.
CheckCreate(r) ==
  /\ req[r].pc = "check" /\ req[r].op = "create"
  /\ \/ Refuse(r)
     \/ \E j \in Twins(req[r].wants) : Answer(r, j) /\ Unlock(r)
     \/ Twins(req[r].wants) = {} /\ HasCapacity /\ To(r, "write") /\ UNCHANGED userLock
  /\ UNCHANGED row

\* A queued or running job is the answer, an ended one is retried unless it
\* is deleted, completed or not allowed for.
CheckRetry(r) ==
  LET j == req[r].job IN
  /\ req[r].pc = "check" /\ req[r].op = "retry"
  /\ \/ Refuse(r)
     \/ row[j].status = "active" /\ Answer(r, j) /\ Unlock(r)
     \/ row[j].status = "ended" /\ HasCapacity /\ To(r, "write") /\ UNCHANGED userLock
  /\ UNCHANGED row

\* There is no index on the key.
Conflicts_mutant(r) == Twins(req[r].wants) # {}

\* The unique indexes on (user, key) and, for active jobs, on (user, url,
\* selection) refuse the row: rollback.
Conflicts(r) == Twins(req[r].wants) # {} \/ Keyed(req[r].key) # {}

Insert(r) ==
  /\ req[r].pc = "write" /\ req[r].op = "create"
  /\ Unlock(r)
  /\ \/ /\ ~Conflicts(r)
        /\ \E j \in Job :
             /\ row[j].status = "absent"
             /\ row' = [row EXCEPT ![j] = [status |-> "active", wants |-> req[r].wants,
                                           key |-> req[r].key]]
             /\ Answer(r, j)
     \/ Conflicts(r) /\ To(r, "winner") /\ UNCHANGED row

\* The row that was in the way: the active twin, else the one with the key.
Winner(r) ==
  LET twins == Twins(req[r].wants)
      winners == IF twins # {} THEN twins ELSE Keyed(req[r].key)
  IN
  /\ req[r].pc = "winner"
  /\ IF winners = {} THEN To(r, "error") ELSE \E j \in winners : Answer(r, j)
  /\ UNCHANGED <<row, userLock>>

\* There is no index on active downloads.
Requeue_mutant(r) ==
  /\ req[r].pc = "write" /\ req[r].op = "retry"
  /\ Unlock(r)
  /\ row' = [row EXCEPT ![req[r].job].status = "active"]
  /\ To(r, "answered")

\* The UPDATE that queues the job again, unless the index refuses it.
Requeue(r) ==
  LET j == req[r].job IN
  /\ req[r].pc = "write" /\ req[r].op = "retry"
  /\ Unlock(r)
  /\ \/ /\ Twins(row[j].wants) = {}
        /\ row' = [row EXCEPT ![j].status = "active"]
        /\ To(r, "answered")
     \/ /\ Twins(row[j].wants) # {}
        /\ To(r, "refused")
        /\ UNCHANGED row

\* The response is sent, or the request is gone.
Respond(r) ==
  /\ req[r].pc \in {"answered", "refused", "error"}
  /\ req' = [req EXCEPT ![r] = NoCall]
  /\ UNCHANGED <<row, userLock>>

\* Workers, the user and the reconciler end jobs.
Ends(j) == End(j) /\ UNCHANGED <<req, userLock>>

-----------------------------------------------------------------------------
Begin(r) ==
  \/ \E c \in Content, k \in Key \cup {NoKey} : create_job(r, c, k)
  \/ \E j \in Job : retry_job(r, j)

Proceed(r) ==
  \/ Lookup(r) \/ LockUser(r) \/ CheckCreate(r) \/ CheckRetry(r)
  \/ Insert(r) \/ Winner(r) \/ Requeue(r) \/ Respond(r)

SNext ==
  \/ \E r \in Request : Begin(r) \/ Proceed(r)
  \/ \E j \in Job : Ends(j)

SSpec == SInit /\ [][SNext]_svars

-----------------------------------------------------------------------------
(***************************************************************************)
(* Properties.                                                             *)
(***************************************************************************)

\* The user's row is locked exactly by the request that is between its
\* checks and the end of its transaction: no answer leaves a lock behind.
SubmissionTypeOK ==
  /\ row \in [Job -> Row]
  /\ req \in [Request -> Call]
  /\ userLock \in Request \cup {NoRequest}
  /\ \A r \in Request : userLock = r <=> req[r].pc \in {"check", "write"}

\* max_active_jobs_per_user is never exceeded by submissions and retries that
\* count the active jobs at the same time.
ActiveWithinLimit == Cardinality(Active) <= MaxActive

\* Two active jobs never ask for the same content: a submission that looked
\* before a retry was through, or the other way round, gets the twin.
NoDuplicateActive == \A j \in Active : Twins(row[j].wants) = {j}

\* A submission is answered with a job for the requested content or with the
\* one its key stands for, a retry with its own job, and neither with a job
\* that does not exist.
AnswerFits ==
  \A r \in Request : req[r].pc = "answered" =>
    LET j == req[r].job IN
    /\ j \in Job /\ row[j].status # "absent"
    /\ req[r].op = "create" => row[j].wants = req[r].wants \/ j \in Keyed(req[r].key)

\* A conflict on a unique index always finds the row that won, although the
\* rollback has given up the lock under which it was there.
ConflictResolved == \A r \in Request : req[r].pc # "error"

\* queries.ts: the key lets no "retry after a network failure" create a
\* second job.  With that and the two invariants above, requests behave as if
\* they were served one at a time.
AsIfOneByOne == Spec
=============================================================================
