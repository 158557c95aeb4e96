------------------------------ MODULE Admission -----------------------------
(***************************************************************************)
(* What one user may expect of the jobs table however many requests are    *)
(* under way: every submission and every retry looks at the table and      *)
(* changes it in a single step.  Submission implements this.               *)
(***************************************************************************)
EXTENDS Integers, FiniteSets

CONSTANTS
  Job,              \* rows that may ever be inserted
  Content,          \* (url_hash, selection)
  NoContent,
  Key, NoKey,       \* Idempotency-Key
  MaxActive         \* settings.max_active_jobs_per_user

ASSUME AdmissionAssumption ==
  /\ IsFiniteSet(Job)
  /\ NoContent \notin Content
  /\ NoKey \notin Key
  /\ MaxActive \in Nat

VARIABLE row        \* row[j]: the row of j, as far as admission cares

\* "active" and "ended" stand for the statuses in ACTIVE and in TERMINAL.
Row ==
  [ status : {"absent", "active", "ended"},
    wants  : Content \cup {NoContent},
    key    : Key \cup {NoKey} ]

NoRow == [status |-> "absent", wants |-> NoContent, key |-> NoKey]

Init == row = [j \in Job |-> NoRow]

Active == {j \in Job : row[j].status = "active"}

Twins(c) == {j \in Active : row[j].wants = c}

Keyed(k) == {j \in Job : k # NoKey /\ row[j].key = k}

HasCapacity == Cardinality(Active) < MaxActive

Submit(j, c, k) ==
  /\ row[j].status = "absent"
  /\ Twins(c) = {} /\ Keyed(k) = {} /\ HasCapacity
  /\ row' = [row EXCEPT ![j] = [status |-> "active", wants |-> c, key |-> k]]

Retry(j) ==
  /\ row[j].status = "ended"
  /\ Twins(row[j].wants) = {} /\ HasCapacity
  /\ row' = [row EXCEPT ![j].status = "active"]

End(j) ==
  /\ row[j].status = "active"
  /\ row' = [row EXCEPT ![j].status = "ended"]

Next ==
  \E j \in Job :
    \/ \E c \in Content, k \in Key \cup {NoKey} : Submit(j, c, k)
    \/ Retry(j) \/ End(j)

Spec == Init /\ [][Next]_row
=============================================================================
