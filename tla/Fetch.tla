-------------------------------- MODULE Fetch --------------------------------
(***************************************************************************)
(* What the slots of a worker run on the network side: inspections and     *)
(* downloads as process groups, and the connections of those groups        *)
(* through the proxy.  Composes Inspections, Runner and EgressProxy.  The  *)
(* rows and files of a download are the business of JobService and         *)
(* Executor: here one may start, and be told to stop, at any time.         *)
(***************************************************************************)
EXTENDS Inspections, Runner, EgressProxy

CONSTANTS
  NoInsp, Orphan,
  Takes       \* Takes[w]: the kinds of task in the queues that w listens to

ASSUME FetchAssumption ==
  /\ NoInsp \notin Insp
  /\ Orphan \notin Worker
  /\ Process = Worker \cup {Orphan}
  /\ Takes \in [Worker -> SUBSET {"download", "inspect"}]

VARIABLE inspects     \* inspects[w]: the inspection slot w executes, or NoInsp

rvars == <<group, orphan>>
fvars == <<ivars, rvars, conn, inspects>>

FInit ==
  /\ InspInit /\ RunnerInit /\ ProxyInit
  /\ inspects = [w \in Worker |-> NoInsp]

-----------------------------------------------------------------------------
\* The kernel closes the connections of a group when nobody of it lives; while
\* somebody does, they are p's from now on, and UsesNetwork may close any.
HangUp(w, lives, p) ==
  conn' = [c \in Conn |->
    IF conn[c].client # w THEN conn[c]
    ELSE [conn[c] EXCEPT !.client = IF lives THEN p ELSE NoClient]]

-----------------------------------------------------------------------------
(* The slots.                                                              *)

IsFree(w) == inspects[w] = NoInsp /\ group[w].pc = "idle"

\* run_inspection: the message is not acknowledged before the task returns.
ClaimInspection(w, i) ==
  /\ IsFree(w) /\ "inspect" \in Takes[w]
  /\ Claim(i)
  /\ inspects' = [inspects EXCEPT ![w] = i]
  /\ UNCHANGED <<rvars, conn>>

StartInspection(w) ==
  /\ inspects[w] # NoInsp /\ insp[inspects[w]].status = "running"
  /\ Start(w, "inspect")
  /\ UNCHANGED <<ivars, conn, inspects>>

\* The outcome of the process, or the refusal or failure that came before it.
FinishInspection(w) ==
  /\ inspects[w] # NoInsp /\ insp[inspects[w]].status = "running"
  /\ group[w].pc \in {"idle", "over"}
  /\ Finish(inspects[w])
  /\ UNCHANGED <<rvars, conn, inspects>>

StartDownload(w) ==
  /\ IsFree(w) /\ "download" \in Takes[w]
  /\ Start(w, "download")
  /\ UNCHANGED <<ivars, conn, inspects>>

\* What the runner and the group do while the slot keeps them.
RunStep(w) ==
  /\ \/ Spawn(w) \/ LeaderExits(w) \/ HelperExits(w)
     \/ Terminate(w) \/ GraceEnds(w) \/ Exits(w) \/ Capped(w)
  /\ HangUp(w, Lives(group'[w]), w)
  /\ UNCHANGED <<ivars, inspects>>

\* The task returns, and its message is acknowledged.
TaskReturns(w) ==
  /\ inspects[w] # NoInsp => insp[inspects[w]].status # "running"
  /\ \/ RunReturns(w)
     \/ inspects[w] # NoInsp /\ group[w].pc = "idle" /\ UNCHANGED rvars
  /\ HangUp(w, Lives(group[w]), Orphan)
  /\ inspects' = [inspects EXCEPT ![w] = NoInsp]
  /\ UNCHANGED ivars

Dies(w) ==
  /\ ~IsFree(w)
  /\ WorkerDies(w)
  /\ HangUp(w, Lives(Widowed(group[w])), Orphan)
  /\ inspects' = [inspects EXCEPT ![w] = NoInsp]
  /\ IF inspects[w] = NoInsp THEN UNCHANGED box ELSE Reject(inspects[w])
  /\ UNCHANGED <<insp, api>>

OrphansEndAndHangUp ==
  /\ OrphansEnd
  /\ HangUp(Orphan, FALSE, Orphan)
  /\ UNCHANGED <<ivars, inspects>>

\* A process that lives connects, or closes a connection of its own.
UsesNetwork(c, p) ==
  /\ IF p = Orphan THEN orphan ELSE Lives(group[p])
  /\ Connect(c, p) \/ Closes(c, p)
  /\ UNCHANGED <<ivars, rvars, inspects>>

\* A row is not executed any more an hour after it has expired: the claim
\* asked for an unexpired one, and a task takes inspect_timeout_seconds.
Cleanup(i) ==
  /\ \A w \in Worker : inspects[w] # i
  /\ cleanup_records(i)
  /\ UNCHANGED <<rvars, conn, inspects>>

-----------------------------------------------------------------------------
SlotStep(w) ==
  \/ StartInspection(w) \/ FinishInspection(w) \/ StartDownload(w)
  \/ RunStep(w) \/ TaskReturns(w) \/ Dies(w)
  \/ \E i \in Insp : ClaimInspection(w, i)

RowStep(i) ==
  \/ InspStep(i) /\ UNCHANGED <<rvars, conn, inspects>>
  \/ Cleanup(i)

FNext ==
  \/ \E w \in Worker : SlotStep(w)
  \/ \E i \in Insp : RowStep(i)
  \/ LoseMessages /\ UNCHANGED <<rvars, conn, inspects>>
  \/ OrphansEndAndHangUp
  \/ \E c \in Conn : \/ ProxyStep(c) /\ UNCHANGED <<ivars, rvars, inspects>>
                     \/ \E p \in Process : UsesNetwork(c, p)

FSpec == FInit /\ [][FNext]_fvars

\* The clock and the scheduler's cleanup go on, a live slot carries its
\* inspection on, communicate() times out, and the proxy's event loop runs.
\* Users, brokers, tools, destinations and downloads owe nothing.
ClockGoesOn(i) == (Expires(i) /\ UNCHANGED <<rvars, conn, inspects>>) \/ Cleanup(i)

InspectionGoesOn(w) ==
  \/ StartInspection(w) \/ FinishInspection(w) \/ TaskReturns(w)
  \/ Capped(w) /\ HangUp(w, FALSE, w) /\ UNCHANGED <<ivars, inspects>>

FFairness ==
  /\ \A i \in Insp : WF_fvars(ClockGoesOn(i))
  /\ \A w \in Worker : WF_fvars(InspectionGoesOn(w))
  /\ \A c \in Conn : WF_fvars(ProxyProgress(c) /\ UNCHANGED <<ivars, rvars, inspects>>)

FairSpec == FSpec /\ FFairness

-----------------------------------------------------------------------------
(***************************************************************************)
(* Properties.                                                             *)
(***************************************************************************)

\* The shape of the state; no more tunnels than the semaphore has slots, and
\* no connection that a dead group seems to hold open.
FetchTypeOK ==
  /\ insp \in [Insp -> InspRow] /\ box \in [Insp -> 0..MaxMessages]
  /\ api \in SUBSET Insp
  /\ group \in [Worker -> Group] /\ orphan \in BOOLEAN
  /\ inspects \in [Worker -> Insp \cup {NoInsp}]
  /\ conn \in [Conn -> Connection]
  /\ Cardinality(Holders) <= MaxConnections
  /\ \A c \in Conn, w \in Worker : conn[c].client = w => Lives(group[w])

\* An inspection is executed by one slot at a time, however many messages
\* the API, the reconciler and the death of a worker have made of it.
OneExecutor ==
  \A v, w \in Worker : inspects[v] = inspects[w] /\ v # w => inspects[v] = NoInsp

\* A user at the limit on pending inspections gets out of it without doing
\* anything, also when the worker that ran one is gone, its message is lost
\* and nobody will ever finish it.
LimitLifts ==
  Cardinality(Counted) >= MaxPending ~> Cardinality(Counted) < MaxPending

\* The proxy lets go of a connection whose client is gone, for instance with
\* its process group, without waiting for the deadline of four hours: also
\* when the destination takes no more data and never says a word.
TunnelsFollow ==
  \A c \in Conn : c \in Holders /\ ~Open(c) ~> c \notin Holders
=============================================================================
