-------------------------- MODULE SubmissionProofs --------------------------
(***************************************************************************)
(* Proofs about Submission, for any number of concurrent requests, jobs,   *)
(* contents and keys and any limit.                                        *)
(*                                                                         *)
(* The point of the proof is what the user's row protects: what a request  *)
(* found under the lock (Checked) still holds when it writes, because the  *)
(* only steps that others can take meanwhile end jobs.  So the write is    *)
(* one step of Admission, and the limit and the uniqueness of the active   *)
(* contents are proved there, where there is nothing to interleave.        *)
(***************************************************************************)
EXTENDS Submission, FiniteSetTheorems, TLAPS

USE AdmissionAssumption, SubmissionAssumption

(***************************************************************************)
(* The invariant.                                                          *)
(***************************************************************************)

\* A row that is not inserted is empty, one that is asks for something.
RowsFilled ==
  \A j \in Job : IF row[j].status = "absent" THEN row[j] = NoRow
                                             ELSE row[j].wants \in Content

\* What a request asks for.
WellAsked(r) ==
  /\ req[r].op = "retry" /\ req[r].pc # "idle"
       => req[r].job \in Job /\ row[req[r].job].status # "absent"
  /\ req[r].op = "create" /\ req[r].pc # "idle" => req[r].wants \in Content
  /\ req[r].pc \in {"lookup", "winner"} => req[r].op = "create"

\* What a request that is about to write has found under the lock.
Checked(r) ==
  req[r].pc = "write" =>
    /\ HasCapacity
    /\ req[r].op = "create" => Twins(req[r].wants) = {}
    /\ req[r].op = "retry" => row[req[r].job].status = "ended"

\* The answer of a request fits what it asked for.
WellAnswered(r) ==
  req[r].pc = "answered" =>
    LET j == req[r].job IN
    /\ j \in Job /\ row[j].status # "absent"
    /\ req[r].op = "create" => row[j].wants = req[r].wants \/ j \in Keyed(req[r].key)

\* A conflict leaves the row that won to be found.
WinnerThere(r) ==
  /\ req[r].pc = "winner" => Keyed(req[r].key) # {}
  /\ req[r].pc # "error"

Sound(r) == WellAsked(r) /\ Checked(r) /\ WellAnswered(r) /\ WinnerThere(r)

SInv ==
  /\ SubmissionTypeOK
  /\ RowsFilled
  /\ \A r \in Request : Sound(r)

(***************************************************************************)
(* What a step does to the rows.                                           *)
(***************************************************************************)

\* A row that is there stays, with what it asks for and its key.
RowsStay ==
  \A j \in Job : row[j].status # "absent" =>
    /\ row'[j].status # "absent"
    /\ row'[j].wants = row[j].wants
    /\ row'[j].key = row[j].key

\* Nothing becomes active, and what has ended stays so.
NothingBegins ==
  \A j \in Job : /\ row'[j].status = "active" => row[j].status = "active"
                 /\ row[j].status = "ended" => row'[j].status = "ended"
                 /\ row'[j].wants = row[j].wants

\* The rows of a step are as they were, or one of them has ended: all that
\* can happen between the check and the write of a request.
LEMMA EndMoves ==
  ASSUME SubmissionTypeOK, RowsFilled, NEW j \in Job, End(j)
  PROVE  row' \in [Job -> Row] /\ RowsFilled' /\ RowsStay /\ NothingBegins
<1>1. row[j] \in Row
  BY DEF SubmissionTypeOK
<1>2. [row[j] EXCEPT !.status = "ended"] \in Row
  BY <1>1 DEF Row
<1>3. row' = [row EXCEPT ![j] = [row[j] EXCEPT !.status = "ended"]]
  BY DEF End
<1>4. row' \in [Job -> Row]
  BY <1>2, <1>3 DEF SubmissionTypeOK
<1>5. /\ row'[j].status = "ended" /\ row'[j].wants = row[j].wants /\ row'[j].key = row[j].key
      /\ \A i \in Job \ {j} : row'[i] = row[i]
  BY <1>1, <1>3 DEF SubmissionTypeOK, Row
<1>6. row[j].status = "active"
  BY DEF End
<1>7. RowsFilled'
  BY <1>5, <1>6 DEF RowsFilled
<1> QED
  BY <1>4, <1>5, <1>6, <1>7 DEF RowsStay, NothingBegins

\* The write of a submission.
LEMMA SubmitMoves ==
  ASSUME SubmissionTypeOK, RowsFilled, NEW j \in Job, NEW c \in Content,
         NEW k \in Key \cup {NoKey}, row[j].status = "absent",
         row' = [row EXCEPT ![j] = [status |-> "active", wants |-> c, key |-> k]]
  PROVE  /\ row' \in [Job -> Row] /\ RowsFilled' /\ RowsStay
         /\ row'[j] = [status |-> "active", wants |-> c, key |-> k]
<1> DEFINE new == [status |-> "active", wants |-> c, key |-> k]
<1>1. new \in Row
  BY DEF Row
<1>2. row' \in [Job -> Row] /\ row'[j] = new /\ \A i \in Job \ {j} : row'[i] = row[i]
  BY <1>1 DEF SubmissionTypeOK
<1>3. RowsFilled'
  BY <1>2 DEF RowsFilled
<1> QED
  BY <1>2, <1>3 DEF RowsStay

\* The write of a retry.
LEMMA RetryMoves ==
  ASSUME SubmissionTypeOK, RowsFilled, NEW j \in Job, row[j].status # "absent",
         row' = [row EXCEPT ![j].status = "active"]
  PROVE  row' \in [Job -> Row] /\ RowsFilled' /\ RowsStay /\ row'[j].status = "active"
<1>1. row[j] \in Row
  BY DEF SubmissionTypeOK
<1>2. [row[j] EXCEPT !.status = "active"] \in Row
  BY <1>1 DEF Row
<1>3. row' \in [Job -> Row]
  BY <1>2 DEF SubmissionTypeOK
<1>4. /\ row'[j].status = "active" /\ row'[j].wants = row[j].wants /\ row'[j].key = row[j].key
      /\ \A i \in Job \ {j} : row'[i] = row[i]
  BY <1>1 DEF SubmissionTypeOK, Row
<1>5. RowsFilled'
  BY <1>4 DEF RowsFilled
<1> QED
  BY <1>3, <1>4, <1>5 DEF RowsStay

\* A key that is taken stays taken, by the same rows.
LEMMA KeysStay ==
  ASSUME RowsFilled, RowsStay, NEW k
  PROVE  \A j \in Keyed(k) : j \in Job /\ row[j].status # "absent" /\ j \in Keyed(k)'
<1> SUFFICES ASSUME NEW j \in Keyed(k)
             PROVE  j \in Job /\ row[j].status # "absent" /\ j \in Keyed(k)'
  OBVIOUS
<1>1. j \in Job /\ k # NoKey /\ row[j].key = k
  BY DEF Keyed
<1>2. row[j].status # "absent"
  BY <1>1 DEF RowsFilled, NoRow
<1> QED
  BY <1>1, <1>2 DEF RowsStay, Keyed

\* What was found under the lock survives the end of jobs.
LEMMA RoomStays ==
  ASSUME NothingBegins
  PROVE  /\ HasCapacity => HasCapacity'
         /\ \A c : Twins(c) = {} => Twins(c)' = {}
<1>1. Active' \subseteq Active
  BY DEF NothingBegins, Active
<1>2. Cardinality(Active') <= Cardinality(Active) /\ Cardinality(Active') \in Nat
        /\ Cardinality(Active) \in Nat
  <2>1. IsFiniteSet(Active)
    BY FS_Subset, Active \subseteq Job DEF AdmissionAssumption, Active
  <2> QED
    BY <1>1, <2>1, FS_Subset, FS_CardinalityType
<1>3. HasCapacity => HasCapacity'
  BY <1>2 DEF HasCapacity, AdmissionAssumption
<1>4. ASSUME NEW c, Twins(c) = {} PROVE Twins(c)' = {}
  BY <1>1, <1>4 DEF Twins, Active, NothingBegins
<1> QED
  BY <1>3, <1>4

(***************************************************************************)
(* What a step does to the requests.                                       *)
(***************************************************************************)

\* A request that does not move keeps what it knows, if the rows it was told
\* of stay and nothing begins while it holds the lock.
LEMMA OthersKeep ==
  ASSUME RowsFilled, RowsStay, NEW q \in Request, Sound(q), req'[q] = req[q],
         req[q].pc = "write" => NothingBegins
  PROVE  Sound(q)'
<1>1. WellAsked(q)'
  BY DEF Sound, WellAsked, RowsStay
<1>2. Checked(q)'
  <2> SUFFICES ASSUME req[q].pc = "write" PROVE Checked(q)'
    BY DEF Checked
  <2>1. /\ HasCapacity'
        /\ req[q].op = "create" => Twins(req[q].wants)' = {}
    BY RoomStays DEF Sound, Checked
  <2>2. req[q].op = "retry" => row'[req[q].job].status = "ended"
    BY DEF Sound, Checked, WellAsked, NothingBegins
  <2> QED
    BY <2>1, <2>2 DEF Checked, Twins
<1>3. WellAnswered(q)'
  BY KeysStay DEF Sound, WellAnswered, RowsStay, Keyed
<1>4. WinnerThere(q)'
  BY KeysStay DEF Sound, WinnerThere, Keyed
<1> QED
  BY <1>1, <1>2, <1>3, <1>4 DEF Sound

PCs == {"idle", "lookup", "lock", "check", "write", "winner", "answered", "refused", "error"}

\* A request moves and nothing else of it changes.
LEMMA ToMoves ==
  ASSUME SubmissionTypeOK, NEW r \in Request, NEW pc \in PCs, To(r, pc)
  PROVE  /\ req' \in [Request -> Call]
         /\ req'[r].pc = pc /\ req'[r].op = req[r].op /\ req'[r].wants = req[r].wants
         /\ req'[r].key = req[r].key /\ req'[r].job = req[r].job
         /\ \A q \in Request \ {r} : req'[q] = req[q]
<1>1. req[r] \in Call /\ req \in [Request -> Call]
  BY DEF SubmissionTypeOK
<1>2. [req[r] EXCEPT !.pc = pc] \in Call
  BY <1>1 DEF Call, PCs
<1>3. req' = [req EXCEPT ![r] = [req[r] EXCEPT !.pc = pc]]
  BY DEF To
<1>4. req' \in [Request -> Call]
  BY <1>1, <1>2, <1>3
<1>5. req'[r] = [req[r] EXCEPT !.pc = pc] /\ \A q \in Request \ {r} : req'[q] = req[q]
  BY <1>1, <1>3
<1> QED
  BY <1>1, <1>4, <1>5 DEF Call

\* A request is answered with a job.
LEMMA AnswerMoves ==
  ASSUME SubmissionTypeOK, NEW r \in Request, NEW j \in Job, Answer(r, j)
  PROVE  /\ req' \in [Request -> Call]
         /\ req'[r].pc = "answered" /\ req'[r].op = req[r].op /\ req'[r].wants = req[r].wants
         /\ req'[r].key = req[r].key /\ req'[r].job = j
         /\ \A q \in Request \ {r} : req'[q] = req[q]
<1> DEFINE new == [req[r] EXCEPT !.pc = "answered", !.job = j]
<1>1. req[r] \in Call /\ req \in [Request -> Call]
  BY DEF SubmissionTypeOK
<1>2. new \in Call
  BY <1>1 DEF Call
<1>3. req' = [req EXCEPT ![r] = new]
  BY DEF Answer
<1>4. req' \in [Request -> Call]
  BY <1>1, <1>2, <1>3
<1>5. req'[r] = new /\ \A q \in Request \ {r} : req'[q] = req[q]
  BY <1>1, <1>3
<1> QED
  BY <1>1, <1>4, <1>5 DEF Call

\* Who holds the lock after a step of r: r or nobody, if r takes part in it.
LockMoves(r) ==
  /\ userLock' = r <=> req'[r].pc \in {"check", "write"}
  /\ \/ userLock' = userLock
     \/ userLock \in {r, NoRequest} /\ userLock' \in {r, NoRequest}

\* A step of r preserves the invariant, if it leaves r sound and does not
\* disturb what another one found under the lock.
LEMMA OneMoves ==
  ASSUME SInv, NEW r \in Request,
         row' \in [Job -> Row], RowsFilled', RowsStay,
         req' \in [Request -> Call], \A q \in Request \ {r} : req'[q] = req[q],
         LockMoves(r), NothingBegins \/ userLock = r, Sound(r)'
  PROVE  SInv'
<1>1. \A q \in Request : Sound(q)'
  <2>1. ASSUME NEW q \in Request \ {r} PROVE Sound(q)'
    <3>1. req[q].pc = "write" => NothingBegins
      BY DEF SInv, SubmissionTypeOK
    <3> QED
      BY <3>1, OthersKeep DEF SInv
  <2> QED
    BY <2>1
<1>2. SubmissionTypeOK'
  <2>1. userLock' \in Request \cup {NoRequest}
    BY DEF LockMoves, SInv, SubmissionTypeOK
  <2>2. ASSUME NEW q \in Request
        PROVE  userLock' = q <=> req'[q].pc \in {"check", "write"}
    <3>1. CASE q = r
      BY <3>1 DEF LockMoves
    <3>2. CASE q # r
      <4>1. userLock' = q <=> userLock = q
        BY <3>2 DEF LockMoves, SubmissionAssumption
      <4> QED
        BY <3>2, <4>1 DEF SInv, SubmissionTypeOK
    <3> QED
      BY <3>1, <3>2
  <2> QED
    BY <2>1, <2>2 DEF SubmissionTypeOK
<1> QED
  BY <1>1, <1>2 DEF SInv

\* A step that leaves the table alone.
LEMMA RowsRest ==
  ASSUME SInv, row' = row
  PROVE  /\ row' \in [Job -> Row] /\ RowsFilled' /\ RowsStay /\ NothingBegins
         /\ HasCapacity' <=> HasCapacity
         /\ \A c : Twins(c)' = Twins(c)
         /\ \A k : Keyed(k)' = Keyed(k)
<1>1. Active' = Active
  BY DEF Active
<1> QED
  BY <1>1 DEF SInv, SubmissionTypeOK, RowsFilled, RowsStay, NothingBegins, HasCapacity,
              Twins, Keyed, Active

\* A request that begins.
LEMMA BeginStep ==
  ASSUME SInv, NEW r \in Request, Begin(r)
  PROVE  SInv'
<1>1. CASE \E c \in Content, k \in Key \cup {NoKey} : create_job(r, c, k)
  <2> PICK c \in Content, k \in Key \cup {NoKey} : create_job(r, c, k)
    BY <1>1
  <2> DEFINE new == [NoCall EXCEPT !.pc = "lookup", !.wants = c, !.key = k]
  <2>1. new \in Call /\ new.pc = "lookup" /\ new.op = "create" /\ new.wants = c
    BY DEF NoCall, Call
  <2>2. req \in [Request -> Call]
    BY DEF SInv, SubmissionTypeOK
  <2>3. req' = [req EXCEPT ![r] = new] /\ row' = row /\ userLock' = userLock
    BY DEF create_job
  <2>4. /\ req' \in [Request -> Call] /\ req'[r] = new
        /\ \A q \in Request \ {r} : req'[q] = req[q]
    <3> HIDE DEF new
    <3> QED BY <2>1, <2>2, <2>3
  <2>5. LockMoves(r)
    BY <2>1, <2>3, <2>4 DEF LockMoves, create_job, SInv, SubmissionTypeOK
  <2>6. Sound(r)'
    BY <2>1, <2>4 DEF Sound, WellAsked, Checked, WellAnswered, WinnerThere
  <2> QED
    BY <2>3, <2>4, <2>5, <2>6, OneMoves, RowsRest
<1>2. CASE \E j \in Job : retry_job(r, j)
  <2> PICK j \in Job : retry_job(r, j)
    BY <1>2
  <2> DEFINE new == [NoCall EXCEPT !.pc = "lock", !.op = "retry", !.job = j]
  <2>1. new \in Call /\ new.pc = "lock" /\ new.op = "retry" /\ new.job = j
    BY DEF NoCall, Call
  <2>2. req \in [Request -> Call]
    BY DEF SInv, SubmissionTypeOK
  <2>3. /\ req' = [req EXCEPT ![r] = new] /\ row' = row /\ userLock' = userLock
        /\ row[j].status # "absent"
    BY DEF retry_job
  <2>4. /\ req' \in [Request -> Call] /\ req'[r] = new
        /\ \A q \in Request \ {r} : req'[q] = req[q]
    <3> HIDE DEF new
    <3> QED BY <2>1, <2>2, <2>3
  <2>5. LockMoves(r)
    BY <2>1, <2>3, <2>4 DEF LockMoves, retry_job, SInv, SubmissionTypeOK
  <2>6. Sound(r)'
    BY <2>1, <2>3, <2>4 DEF Sound, WellAsked, Checked, WellAnswered, WinnerThere
  <2> QED
    BY <2>3, <2>4, <2>5, <2>6, OneMoves, RowsRest
<1> QED
  BY <1>1, <1>2 DEF Begin

LEMMA LookupStep ==
  ASSUME SInv, NEW r \in Request, Lookup(r)
  PROVE  SInv'
<1>1. row' = row /\ userLock' = userLock /\ req[r].pc = "lookup"
  BY DEF Lookup
<1>2. Sound(r) /\ SubmissionTypeOK
  BY DEF SInv
<1>3. CASE \E j \in Keyed(req[r].key) : Answer(r, j)
  <2> PICK j \in Keyed(req[r].key) : Answer(r, j)
    BY <1>3
  <2>1. j \in Job /\ row[j].status # "absent"
    BY <1>1, RowsRest, KeysStay DEF SInv
  <2>2. /\ req' \in [Request -> Call] /\ req'[r].pc = "answered" /\ req'[r].op = req[r].op
        /\ req'[r].wants = req[r].wants /\ req'[r].key = req[r].key /\ req'[r].job = j
        /\ \A q \in Request \ {r} : req'[q] = req[q]
    BY <1>2, <2>1, AnswerMoves
  <2>3. j \in Keyed(req[r].key)'
    BY <1>1, <2>2 DEF Keyed
  <2>4. Sound(r)'
    BY <1>1, <1>2, <2>1, <2>2, <2>3
    DEF Sound, WellAsked, Checked, WellAnswered, WinnerThere
  <2>5. LockMoves(r)
    BY <1>1, <2>2 DEF LockMoves, SInv, SubmissionTypeOK
  <2> QED
    BY <1>1, <2>2, <2>4, <2>5, OneMoves, RowsRest
<1>4. CASE To(r, "lock")
  <2>1. /\ req' \in [Request -> Call] /\ req'[r].pc = "lock" /\ req'[r].op = req[r].op
        /\ req'[r].wants = req[r].wants
        /\ \A q \in Request \ {r} : req'[q] = req[q]
    BY <1>2, <1>4, ToMoves DEF PCs
  <2>2. Sound(r)'
    BY <1>1, <1>2, <2>1 DEF Sound, WellAsked, Checked, WellAnswered, WinnerThere
  <2>3. LockMoves(r)
    BY <1>1, <2>1 DEF LockMoves, SInv, SubmissionTypeOK
  <2> QED
    BY <1>1, <2>1, <2>2, <2>3, OneMoves, RowsRest
<1> QED
  BY <1>3, <1>4 DEF Lookup

LEMMA LockUserStep ==
  ASSUME SInv, NEW r \in Request, LockUser(r)
  PROVE  SInv'
<1>1. /\ row' = row /\ userLock = NoRequest /\ userLock' = r /\ req[r].pc = "lock"
      /\ To(r, "check")
  BY DEF LockUser
<1>2. Sound(r) /\ SubmissionTypeOK
  BY DEF SInv
<1>3. /\ req' \in [Request -> Call] /\ req'[r].pc = "check" /\ req'[r].op = req[r].op
      /\ req'[r].wants = req[r].wants /\ req'[r].job = req[r].job
      /\ \A q \in Request \ {r} : req'[q] = req[q]
  BY <1>1, <1>2, ToMoves DEF PCs
<1>4. Sound(r)'
  BY <1>1, <1>2, <1>3 DEF Sound, WellAsked, Checked, WellAnswered, WinnerThere
<1>5. LockMoves(r)
  BY <1>1, <1>3 DEF LockMoves
<1> QED
  BY <1>1, <1>3, <1>4, <1>5, OneMoves, RowsRest

\* A request that ends its transaction has given the lock back.
LEMMA UnlockMoves ==
  ASSUME SInv, NEW r \in Request, req[r].pc \in {"check", "write"}, Unlock(r),
         req'[r].pc \notin {"check", "write"}
  PROVE  LockMoves(r)
<1>1. userLock = r /\ userLock' = NoRequest
  BY DEF SInv, SubmissionTypeOK, Unlock
<1> QED
  BY <1>1 DEF LockMoves, SubmissionAssumption

LEMMA RefuseStep ==
  ASSUME SInv, NEW r \in Request, req[r].pc \in {"check", "write"}, To(r, "refused"),
         Unlock(r), row' = row
  PROVE  SInv'
<1>1. Sound(r) /\ SubmissionTypeOK
  BY DEF SInv
<1>2. /\ req' \in [Request -> Call] /\ req'[r].pc = "refused" /\ req'[r].op = req[r].op
      /\ req'[r].wants = req[r].wants /\ req'[r].job = req[r].job
      /\ \A q \in Request \ {r} : req'[q] = req[q]
  BY <1>1, ToMoves DEF PCs
<1>3. Sound(r)'
  BY <1>1, <1>2 DEF Sound, WellAsked, Checked, WellAnswered, WinnerThere
<1>4. LockMoves(r)
  BY <1>2, UnlockMoves
<1> QED
  BY <1>2, <1>3, <1>4, OneMoves, RowsRest

\* A request that is answered with a row that fits.
LEMMA AnswerStep ==
  ASSUME SInv, NEW r \in Request, req[r].pc \in {"check", "write", "winner"}, NEW j \in Job,
         Answer(r, j), Unlock(r),
         row' \in [Job -> Row], RowsFilled', RowsStay, NothingBegins \/ userLock = r,
         row'[j].status # "absent",
         req[r].op = "create" =>
           \/ row'[j].wants = req[r].wants
           \/ req[r].key # NoKey /\ row'[j].key = req[r].key
  PROVE  SInv'
<1>1. Sound(r) /\ SubmissionTypeOK
  BY DEF SInv
<1>2. /\ req' \in [Request -> Call] /\ req'[r].pc = "answered" /\ req'[r].op = req[r].op
      /\ req'[r].wants = req[r].wants /\ req'[r].key = req[r].key /\ req'[r].job = j
      /\ \A q \in Request \ {r} : req'[q] = req[q]
  BY <1>1, AnswerMoves
<1>3. WellAsked(r)' /\ Checked(r)' /\ WinnerThere(r)'
  BY <1>1, <1>2 DEF Sound, WellAsked, Checked, WinnerThere
<1>4. WellAnswered(r)'
  BY <1>2 DEF WellAnswered, Keyed
<1>5. LockMoves(r)
  <2>1. CASE req[r].pc \in {"check", "write"}
    BY <1>2, <2>1, UnlockMoves
  <2>2. CASE req[r].pc = "winner"
    BY <1>2, <2>2 DEF LockMoves, Unlock, SInv, SubmissionTypeOK
  <2> QED
    BY <2>1, <2>2
<1> QED
  BY <1>2, <1>3, <1>4, <1>5, OneMoves DEF Sound

\* What the check of a submission finds holds when it goes on to write.
LEMMA CheckCreateStep ==
  ASSUME SInv, NEW r \in Request, CheckCreate(r)
  PROVE  SInv'
<1>1. row' = row /\ req[r].pc = "check" /\ req[r].op = "create"
  BY DEF CheckCreate
<1>2. Sound(r) /\ SubmissionTypeOK
  BY DEF SInv
<1>3. CASE Refuse(r)
  BY <1>1, <1>3, RefuseStep DEF Refuse
<1>4. CASE \E j \in Twins(req[r].wants) : Answer(r, j) /\ Unlock(r)
  <2> PICK j \in Twins(req[r].wants) : Answer(r, j) /\ Unlock(r)
    BY <1>4
  <2>1. j \in Job /\ row[j].status = "active" /\ row[j].wants = req[r].wants
    BY DEF Twins, Active
  <2> QED
    BY <1>1, <2>1, AnswerStep, RowsRest
<1>5. CASE Twins(req[r].wants) = {} /\ HasCapacity /\ To(r, "write") /\ UNCHANGED userLock
  <2>1. /\ req' \in [Request -> Call] /\ req'[r].pc = "write" /\ req'[r].op = req[r].op
        /\ req'[r].wants = req[r].wants
        /\ \A q \in Request \ {r} : req'[q] = req[q]
    BY <1>2, <1>5, ToMoves DEF PCs
  <2>2. Twins(req[r].wants)' = {} /\ HasCapacity'
    BY <1>1, <1>5, <2>1, RowsRest DEF Twins, Active
  <2>3. Sound(r)'
    BY <1>1, <1>2, <2>1, <2>2 DEF Sound, WellAsked, Checked, WellAnswered, WinnerThere
  <2>4. LockMoves(r)
    BY <1>1, <1>5, <2>1 DEF LockMoves, SInv, SubmissionTypeOK
  <2> QED
    BY <1>1, <2>1, <2>3, <2>4, OneMoves, RowsRest
<1> QED
  BY <1>3, <1>4, <1>5 DEF CheckCreate

\* The same for a retry.
LEMMA CheckRetryStep ==
  ASSUME SInv, NEW r \in Request, CheckRetry(r)
  PROVE  SInv'
<1> DEFINE j == req[r].job
<1>1. row' = row /\ req[r].pc = "check" /\ req[r].op = "retry"
  BY DEF CheckRetry
<1>2. Sound(r) /\ SubmissionTypeOK
  BY DEF SInv
<1>3. j \in Job
  BY <1>1, <1>2 DEF Sound, WellAsked
<1>4. CASE Refuse(r)
  BY <1>1, <1>4, RefuseStep DEF Refuse
<1>5. CASE row[j].status = "active" /\ Answer(r, j) /\ Unlock(r)
  BY <1>1, <1>3, <1>5, AnswerStep, RowsRest
<1>6. CASE row[j].status = "ended" /\ HasCapacity /\ To(r, "write") /\ UNCHANGED userLock
  <2>1. /\ req' \in [Request -> Call] /\ req'[r].pc = "write" /\ req'[r].op = req[r].op
        /\ req'[r].wants = req[r].wants /\ req'[r].job = req[r].job
        /\ \A q \in Request \ {r} : req'[q] = req[q]
    BY <1>2, <1>6, ToMoves DEF PCs
  <2>2. HasCapacity'
    BY <1>1, <1>6, RowsRest
  <2>3. Sound(r)'
    BY <1>1, <1>2, <1>6, <2>1, <2>2 DEF Sound, WellAsked, Checked, WellAnswered, WinnerThere
  <2>4. LockMoves(r)
    BY <1>1, <1>6, <2>1 DEF LockMoves, SInv, SubmissionTypeOK
  <2> QED
    BY <1>1, <2>1, <2>3, <2>4, OneMoves, RowsRest
<1> QED
  BY <1>4, <1>5, <1>6 DEF CheckRetry

\* A submission that writes: nobody could begin a job since its checks, so if
\* an index refuses the row it is the one on the keys, and keys stay.
LEMMA InsertStep ==
  ASSUME SInv, NEW r \in Request, Insert(r)
  PROVE  SInv'
<1>1. req[r].pc = "write" /\ req[r].op = "create" /\ Unlock(r)
  BY DEF Insert
<1>2. Sound(r) /\ SubmissionTypeOK
  BY DEF SInv
<1>3. userLock = r /\ req[r].wants \in Content /\ req[r].key \in Key \cup {NoKey}
  BY <1>1, <1>2 DEF SubmissionTypeOK, Sound, WellAsked, Call
<1>4. ASSUME NEW j \in Job, row[j].status = "absent",
             row' = [row EXCEPT ![j] = [status |-> "active", wants |-> req[r].wants,
                                        key |-> req[r].key]],
             Answer(r, j)
      PROVE  SInv'
  <2>1. /\ row' \in [Job -> Row] /\ RowsFilled' /\ RowsStay
        /\ row'[j] = [status |-> "active", wants |-> req[r].wants, key |-> req[r].key]
    BY <1>2, <1>3, <1>4, SubmitMoves DEF SInv
  <2> QED
    BY <1>1, <1>3, <1>4, <2>1, AnswerStep
<1>5. CASE Conflicts(r) /\ To(r, "winner") /\ UNCHANGED row
  <2>1. /\ req' \in [Request -> Call] /\ req'[r].pc = "winner" /\ req'[r].op = req[r].op
        /\ req'[r].wants = req[r].wants /\ req'[r].key = req[r].key
        /\ \A q \in Request \ {r} : req'[q] = req[q]
    BY <1>2, <1>5, ToMoves DEF PCs
  <2>2. Keyed(req[r].key)' # {}
    BY <1>1, <1>2, <1>5, <2>1 DEF Conflicts, Sound, Checked, Keyed
  <2>3. Sound(r)'
    BY <1>1, <1>2, <2>1, <2>2
    DEF Sound, WellAsked, Checked, WellAnswered, WinnerThere, Keyed
  <2>4. LockMoves(r)
    BY <1>1, <2>1, UnlockMoves
  <2> QED
    BY <1>5, <2>1, <2>3, <2>4, OneMoves, RowsRest
<1> QED
  BY <1>4, <1>5 DEF Insert

\* The row that was in the way is found.
LEMMA WinnerStep ==
  ASSUME SInv, NEW r \in Request, Winner(r)
  PROVE  SInv'
<1>1. /\ req[r].pc = "winner" /\ row' = row /\ userLock' = userLock
      /\ Sound(r) /\ SubmissionTypeOK
  BY DEF Winner, SInv
<1>2. req[r].op = "create" /\ Keyed(req[r].key) # {} /\ userLock # r
  BY <1>1 DEF Sound, WellAsked, WinnerThere, SubmissionTypeOK
<1>3. Unlock(r)
  BY <1>1, <1>2 DEF Unlock
<1>4. PICK j : /\ Answer(r, j)
               /\ j \in Twins(req[r].wants) \/ j \in Keyed(req[r].key)
  BY <1>2 DEF Winner
<1>5. CASE j \in Twins(req[r].wants)
  <2>1. j \in Job /\ row[j].status = "active" /\ row[j].wants = req[r].wants
    BY <1>5 DEF Twins, Active
  <2> QED
    BY <1>1, <1>3, <1>4, <2>1, AnswerStep, RowsRest
<1>6. CASE j \in Keyed(req[r].key)
  <2>1. j \in Job /\ row[j].status # "absent"
    BY <1>1, <1>6, RowsRest, KeysStay DEF SInv
  <2>2. req[r].key # NoKey /\ row[j].key = req[r].key
    BY <1>6 DEF Keyed
  <2> QED
    BY <1>1, <1>3, <1>4, <2>1, <2>2, AnswerStep, RowsRest
<1> QED
  BY <1>4, <1>5, <1>6

LEMMA RequeueStep ==
  ASSUME SInv, NEW r \in Request, Requeue(r)
  PROVE  SInv'
<1> DEFINE j == req[r].job
<1>1. req[r].pc = "write" /\ req[r].op = "retry" /\ Unlock(r)
  BY DEF Requeue
<1>2. Sound(r) /\ SubmissionTypeOK
  BY DEF SInv
<1>3. userLock = r /\ j \in Job /\ row[j].status = "ended"
  BY <1>1, <1>2 DEF SubmissionTypeOK, Sound, WellAsked, Checked
<1>4. CASE row' = [row EXCEPT ![j].status = "active"] /\ To(r, "answered")
  <2>1. /\ row' \in [Job -> Row] /\ RowsFilled' /\ RowsStay
        /\ row'[j].status = "active"
    BY <1>2, <1>3, <1>4, RetryMoves DEF SInv
  <2>2. /\ req' \in [Request -> Call] /\ req'[r].pc = "answered" /\ req'[r].op = req[r].op
        /\ req'[r].wants = req[r].wants /\ req'[r].job = req[r].job
        /\ \A q \in Request \ {r} : req'[q] = req[q]
    BY <1>2, <1>4, ToMoves DEF PCs
  <2>3. Sound(r)'
    BY <1>1, <1>3, <2>1, <2>2 DEF Sound, WellAsked, Checked, WellAnswered, WinnerThere
  <2>4. LockMoves(r)
    BY <1>1, <2>2, UnlockMoves
  <2> QED
    BY <1>3, <2>1, <2>2, <2>3, <2>4, OneMoves
<1>5. CASE To(r, "refused") /\ UNCHANGED row
  BY <1>1, <1>5, RefuseStep
<1> QED
  BY <1>4, <1>5 DEF Requeue

LEMMA RespondStep ==
  ASSUME SInv, NEW r \in Request, Respond(r)
  PROVE  SInv'
<1>1. /\ req' = [req EXCEPT ![r] = NoCall] /\ row' = row /\ userLock' = userLock
      /\ req[r].pc \in {"answered", "refused", "error"}
  BY DEF Respond
<1>2. NoCall \in Call /\ NoCall.pc = "idle"
  BY DEF NoCall, Call
<1>3. req \in [Request -> Call]
  BY DEF SInv, SubmissionTypeOK
<1>4. /\ req' \in [Request -> Call] /\ req'[r] = NoCall
      /\ \A q \in Request \ {r} : req'[q] = req[q]
  BY <1>1, <1>2, <1>3
<1>5. Sound(r)'
  BY <1>2, <1>4 DEF Sound, WellAsked, Checked, WellAnswered, WinnerThere
<1>6. LockMoves(r)
  BY <1>1, <1>2, <1>4 DEF LockMoves, SInv, SubmissionTypeOK
<1> QED
  BY <1>1, <1>4, <1>5, <1>6, OneMoves, RowsRest

\* A job ends while requests are under way.
LEMMA EndsStep ==
  ASSUME SInv, NEW j \in Job, Ends(j)
  PROVE  SInv'
<1>1. End(j) /\ req' = req /\ userLock' = userLock
  BY DEF Ends
<1>2. row' \in [Job -> Row] /\ RowsFilled' /\ RowsStay /\ NothingBegins
  BY <1>1, EndMoves DEF SInv
<1>3. SubmissionTypeOK'
  BY <1>1, <1>2 DEF SInv, SubmissionTypeOK
<1>4. \A q \in Request : Sound(q)'
  BY <1>1, <1>2, OthersKeep DEF SInv
<1> QED
  BY <1>2, <1>3, <1>4 DEF SInv

(***************************************************************************)
(* The theorems.                                                           *)
(***************************************************************************)

LEMMA SInvInit == SInit => SInv
<1> SUFFICES ASSUME SInit PROVE SInv
  OBVIOUS
<1>1. NoRow \in Row /\ NoRow.status = "absent"
  BY DEF NoRow, Row
<1>2. NoCall \in Call /\ NoCall.pc = "idle"
  BY DEF NoCall, Call
<1>3. SubmissionTypeOK
  BY <1>1, <1>2 DEF SInit, Init, SubmissionTypeOK, SubmissionAssumption
<1>4. RowsFilled
  BY <1>1 DEF SInit, Init, RowsFilled
<1>5. ASSUME NEW r \in Request PROVE Sound(r)
  BY <1>2 DEF SInit, Sound, WellAsked, Checked, WellAnswered, WinnerThere
<1> QED
  BY <1>3, <1>4, <1>5 DEF SInv

LEMMA SInvStep == SInv /\ [SNext]_svars => SInv'
<1> SUFFICES ASSUME SInv, [SNext]_svars PROVE SInv'
  OBVIOUS
<1>1. ASSUME NEW r \in Request, Begin(r) \/ Proceed(r) PROVE SInv'
  BY <1>1, BeginStep, LookupStep, LockUserStep, CheckCreateStep, CheckRetryStep, InsertStep,
     WinnerStep, RequeueStep, RespondStep
  DEF Proceed
<1>2. ASSUME NEW j \in Job, Ends(j) PROVE SInv'
  BY <1>2, EndsStep
<1>3. CASE UNCHANGED svars
  <2>1. row' = row /\ req' = req /\ userLock' = userLock
    BY <1>3 DEF svars
  <2>2. SubmissionTypeOK' /\ RowsFilled'
    BY <2>1 DEF SInv, SubmissionTypeOK, RowsFilled
  <2>3. \A q \in Request : Sound(q)'
    BY <2>1, RowsRest, OthersKeep DEF SInv
  <2> QED
    BY <2>2, <2>3 DEF SInv
<1> QED
  BY <1>1, <1>2, <1>3 DEF SNext

LEMMA SInvAlways == SSpec => []SInv
BY SInvInit, SInvStep, PTL DEF SSpec

\* The user's row is locked exactly by the request that is between its checks
\* and the end of its transaction: no way out of create_job or retry_job
\* leaves it locked.
THEOREM LocksAreReturned == SSpec => []SubmissionTypeOK
<1>1. SInv => SubmissionTypeOK
  BY DEF SInv
<1> QED
  BY <1>1, SInvAlways, PTL

\* A request is answered with a job that is there and is what was asked for,
\* whatever other requests did since it was found.
THEOREM AnswersFit == SSpec => []AnswerFits
<1>1. SInv => AnswerFits
  BY DEF SInv, Sound, WellAnswered, AnswerFits
<1> QED
  BY <1>1, SInvAlways, PTL

\* After an IntegrityError create_job always finds the row that won: the last
\* raise of its handler is never reached.
THEOREM WinnerIsFound == SSpec => []ConflictResolved
<1>1. SInv => ConflictResolved
  BY DEF SInv, Sound, WinnerThere, ConflictResolved
<1> QED
  BY <1>1, SInvAlways, PTL

(***************************************************************************)
(* Requests behave as if they were served one at a time.                   *)
(***************************************************************************)

\* A write is Admission's step, since its checks still hold; all else that a
\* request does leaves the table alone.
LEMMA StepsAreOne == SInv /\ [SNext]_svars => [Next]_row
<1> SUFFICES ASSUME SInv, [SNext]_svars, row' # row PROVE Next
  OBVIOUS
<1>1. ASSUME NEW r \in Request, Begin(r) PROVE FALSE
  BY <1>1 DEF Begin, create_job, retry_job
<1>2. ASSUME NEW r \in Request, Insert(r) PROVE Next
  <2>1. req[r].pc = "write" /\ req[r].op = "create" /\ Sound(r) /\ req[r] \in Call
    BY <1>2 DEF Insert, SInv, SubmissionTypeOK
  <2>2. /\ HasCapacity /\ Twins(req[r].wants) = {} /\ req[r].wants \in Content
        /\ req[r].key \in Key \cup {NoKey}
    BY <2>1 DEF Sound, Checked, WellAsked, Call
  <2>3. PICK j \in Job :
          /\ row[j].status = "absent" /\ ~Conflicts(r)
          /\ row' = [row EXCEPT ![j] = [status |-> "active", wants |-> req[r].wants,
                                        key |-> req[r].key]]
    BY <1>2 DEF Insert
  <2>4. Submit(j, req[r].wants, req[r].key)
    BY <2>2, <2>3 DEF Submit, Conflicts
  <2> QED
    BY <2>2, <2>4 DEF Next
<1>3. ASSUME NEW r \in Request, Requeue(r) PROVE Next
  <2>1. req[r].pc = "write" /\ req[r].op = "retry" /\ Sound(r)
    BY <1>3 DEF Requeue, SInv
  <2>2. HasCapacity /\ req[r].job \in Job /\ row[req[r].job].status = "ended"
    BY <2>1 DEF Sound, Checked, WellAsked
  <2>3. Retry(req[r].job)
    BY <1>3, <2>2 DEF Requeue, Retry
  <2> QED
    BY <2>2, <2>3 DEF Next
<1>4. ASSUME NEW r \in Request,
             \/ Lookup(r) \/ LockUser(r) \/ CheckCreate(r) \/ CheckRetry(r)
             \/ Winner(r) \/ Respond(r)
      PROVE  FALSE
  BY <1>4 DEF Lookup, LockUser, CheckCreate, CheckRetry, Winner, Respond
<1>5. ASSUME NEW j \in Job, Ends(j) PROVE Next
  BY <1>5 DEF Ends, Next
<1>6. CASE UNCHANGED svars
  BY <1>6 DEF svars
<1> QED
  BY <1>1, <1>2, <1>3, <1>4, <1>5, <1>6 DEF SNext, Proceed

\* Submissions and retries of one user, interleaved statement by statement,
\* do to the table what Admission does in one step each: this is why
\* JobService may take a request for one step.
THEOREM RequestsAreSerial == SSpec => AsIfOneByOne
<1>1. SInit => Init
  BY DEF SInit
<1> QED
  BY <1>1, StepsAreOne, SInvAlways, PTL DEF SSpec, Spec, AsIfOneByOne

(***************************************************************************)
(* What Admission promises, and with it Submission.                        *)
(***************************************************************************)

\* The steps of the table, one at a time: one job enters the active ones under
\* the limit and as the only one for its content, or none does.
LEMMA AdmissionMoves ==
  ASSUME row \in [Job -> Row], [Next]_row
  PROVE  /\ row' \in [Job -> Row]
         /\ \/ /\ Active' \subseteq Active
               /\ \A j \in Active' : row'[j].wants = row[j].wants
            \/ \E j \in Job :
                 /\ Active' = Active \cup {j} /\ HasCapacity
                 /\ Twins(row'[j].wants) = {}
                 /\ \A i \in Active : i # j /\ row'[i].wants = row[i].wants
<1>1. CASE row' = row
  BY <1>1 DEF Active
<1>2. ASSUME NEW j \in Job, NEW c \in Content, NEW k \in Key \cup {NoKey}, Submit(j, c, k)
      PROVE  /\ row' \in [Job -> Row] /\ Active' = Active \cup {j} /\ HasCapacity
             /\ Twins(row'[j].wants) = {}
             /\ \A i \in Active : i # j /\ row'[i].wants = row[i].wants
  <2> DEFINE new == [status |-> "active", wants |-> c, key |-> k]
  <2>1. new \in Row /\ new.status = "active" /\ new.wants = c
    BY DEF Row
  <2>2. row' = [row EXCEPT ![j] = new] /\ row[j].status = "absent"
    BY <1>2 DEF Submit
  <2>3. row' \in [Job -> Row] /\ row'[j] = new /\ \A i \in Job \ {j} : row'[i] = row[i]
    <3> HIDE DEF new
    <3> QED BY <2>1, <2>2
  <2> QED
    BY <1>2, <2>1, <2>2, <2>3 DEF Submit, Active
<1>3. ASSUME NEW j \in Job, Retry(j)
      PROVE  /\ row' \in [Job -> Row] /\ Active' = Active \cup {j} /\ HasCapacity
             /\ Twins(row'[j].wants) = {}
             /\ \A i \in Active : i # j /\ row'[i].wants = row[i].wants
  <2> DEFINE new == [row[j] EXCEPT !.status = "active"]
  <2>1. row[j] \in Row
    OBVIOUS
  <2>2. new \in Row /\ new.status = "active" /\ new.wants = row[j].wants
    BY <2>1 DEF Row
  <2>3. row' = [row EXCEPT ![j] = new] /\ row[j].status = "ended"
    BY <1>3 DEF Retry
  <2>4. row' \in [Job -> Row] /\ row'[j] = new /\ \A i \in Job \ {j} : row'[i] = row[i]
    <3> HIDE DEF new
    <3> QED BY <2>2, <2>3
  <2> QED
    BY <1>3, <2>2, <2>3, <2>4 DEF Retry, Active
<1>4. ASSUME NEW j \in Job, End(j)
      PROVE  /\ row' \in [Job -> Row] /\ Active' \subseteq Active
             /\ \A i \in Active' : row'[i].wants = row[i].wants
  <2> DEFINE new == [row[j] EXCEPT !.status = "ended"]
  <2>1. row[j] \in Row
    OBVIOUS
  <2>2. new \in Row /\ new.status = "ended"
    BY <2>1 DEF Row
  <2>3. row' = [row EXCEPT ![j] = new]
    BY <1>4 DEF End
  <2>4. row' \in [Job -> Row] /\ row'[j] = new /\ \A i \in Job \ {j} : row'[i] = row[i]
    <3> HIDE DEF new
    <3> QED BY <2>2, <2>3
  <2> QED
    BY <2>2, <2>4 DEF Active
<1> QED
  BY <1>1, <1>2, <1>3, <1>4 DEF Next

LEMMA AdmissionTyped == Spec => [](row \in [Job -> Row])
<1>1. Init => row \in [Job -> Row]
  BY DEF Init, NoRow, Row
<1>2. row \in [Job -> Row] /\ [Next]_row => (row \in [Job -> Row])'
  BY AdmissionMoves
<1> QED
  BY <1>1, <1>2, PTL DEF Spec

LEMMA ActiveFinite == IsFiniteSet(Active) /\ Cardinality(Active) \in Nat
BY FS_Subset, FS_CardinalityType, Active \subseteq Job DEF Active

\* max_active_jobs_per_user is never exceeded, however many requests have
\* counted the active jobs before one of them writes.
THEOREM LimitIsKept == SSpec => []ActiveWithinLimit
<1>1. Init => ActiveWithinLimit
  <2> SUFFICES ASSUME Init PROVE ActiveWithinLimit
    OBVIOUS
  <2>1. Active = {}
    BY DEF Init, NoRow, Active
  <2> QED
    BY <2>1, FS_EmptySet DEF ActiveWithinLimit
<1>2. row \in [Job -> Row] /\ ActiveWithinLimit /\ [Next]_row => ActiveWithinLimit'
  <2> SUFFICES ASSUME row \in [Job -> Row], ActiveWithinLimit, [Next]_row
               PROVE  ActiveWithinLimit'
    OBVIOUS
  <2>1. CASE Active' \subseteq Active
    <3>1. IsFiniteSet(Active') /\ Cardinality(Active') <= Cardinality(Active)
      BY <2>1, ActiveFinite, FS_Subset
    <3> QED
      BY <3>1, ActiveFinite, FS_CardinalityType DEF ActiveWithinLimit
  <2>2. ASSUME NEW j \in Job, Active' = Active \cup {j}, HasCapacity
        PROVE  ActiveWithinLimit'
    <3>1. Cardinality(Active') \in {Cardinality(Active), Cardinality(Active) + 1}
      BY <2>2, ActiveFinite, FS_AddElement
    <3> QED
      BY <2>2, <3>1, ActiveFinite DEF HasCapacity, ActiveWithinLimit
  <2> QED
    BY <2>1, <2>2, AdmissionMoves
<1>3. Spec => []ActiveWithinLimit
  BY <1>1, <1>2, AdmissionTyped, PTL DEF Spec
<1> QED
  BY <1>3, RequestsAreSerial, PTL DEF AsIfOneByOne

\* Two active jobs never ask for the same content.
THEOREM ContentsAreUnique == SSpec => []NoDuplicateActive
<1>1. Init => NoDuplicateActive
  BY DEF Init, NoRow, Active, NoDuplicateActive
<1>2. row \in [Job -> Row] /\ NoDuplicateActive /\ [Next]_row => NoDuplicateActive'
  <2> SUFFICES ASSUME row \in [Job -> Row], NoDuplicateActive, [Next]_row,
                      NEW i \in Active', NEW k \in Active', row'[i].wants = row'[k].wants
               PROVE  i = k
    BY DEF NoDuplicateActive, Twins
  <2>1. CASE Active' \subseteq Active /\ \A j \in Active' : row'[j].wants = row[j].wants
    BY <2>1 DEF NoDuplicateActive, Twins
  <2>2. ASSUME NEW j \in Job, Active' = Active \cup {j}, Twins(row'[j].wants) = {},
               \A a \in Active : a # j /\ row'[a].wants = row[a].wants
        PROVE  i = k
    BY <2>2 DEF NoDuplicateActive, Twins
  <2> QED
    BY <2>1, <2>2, AdmissionMoves
<1>3. Spec => []NoDuplicateActive
  BY <1>1, <1>2, AdmissionTyped, PTL DEF Spec
<1> QED
  BY <1>3, RequestsAreSerial, PTL DEF AsIfOneByOne
=============================================================================
