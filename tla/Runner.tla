------------------------------- MODULE Runner -------------------------------
(***************************************************************************)
(* The process groups that the slots of a worker run: run_controlled for a *)
(* download, _run_capped for an inspection (backend/app/services/runner.py *)
(* and inspections.py).                                                    *)
(*                                                                         *)
(* A group is a leader, the tool itself, and perhaps a helper that the     *)
(* leader started.  A process that has exited stays a zombie until it is   *)
(* reaped, and only then does its id stop leading to the group.            *)
(***************************************************************************)
CONSTANTS Worker        \* slots of the Celery pool

VARIABLES
  group,    \* group[w]: what slot w runs
  orphan    \* processes live on that no slot knows any more

Group ==
  [ kind   : {"none", "download", "inspect"},
    pc     : {"idle", "run", "term", "over"},
    leader : {"none", "alive", "zombie", "reaped"},
    helper : BOOLEAN,       \* a child of the leader is alive
    killed : BOOLEAN ]      \* the run was ended, it did not end by itself

NoGroup == [kind |-> "none", pc |-> "idle", leader |-> "none", helper |-> FALSE, killed |-> FALSE]

RunnerInit == group = [w \in Worker |-> NoGroup] /\ orphan = FALSE

In(w, kind, pc) == group[w].kind = kind /\ group[w].pc = pc

Set(w, value) == group' = [group EXCEPT ![w] = value]

Lives(g) == g.leader = "alive" \/ g.helper

Over(g) == [g EXCEPT !.pc = "over", !.leader = "reaped"]

-----------------------------------------------------------------------------
(* The processes.                                                          *)

Start(w, kind) ==
  /\ group[w].pc = "idle"
  /\ Set(w, [NoGroup EXCEPT !.kind = kind, !.pc = "run", !.leader = "alive"])
  /\ UNCHANGED orphan

Spawn(w) ==
  /\ group[w].leader = "alive" /\ ~group[w].helper
  /\ Set(w, [group[w] EXCEPT !.helper = TRUE])
  /\ UNCHANGED orphan

\* Also what SIGTERM does to a process that obeys it.
LeaderExits(w) ==
  /\ group[w].leader = "alive"
  /\ Set(w, [group[w] EXCEPT !.leader = "zombie"])
  /\ UNCHANGED orphan

HelperExits(w) ==
  /\ group[w].helper
  /\ Set(w, [group[w] EXCEPT !.helper = FALSE])
  /\ UNCHANGED orphan

-----------------------------------------------------------------------------
(* run_controlled.                                                         *)

\* control() returns a reason, the time is up, or the terminal was closed
\* by a leader that goes on: kill_process_group sends SIGTERM.
Terminate(w) ==
  /\ In(w, "download", "run")
  /\ Set(w, [group[w] EXCEPT !.pc = "term", !.killed = TRUE])
  /\ UNCHANGED orphan

\* It looks at the leader only.
GraceEnds_mutant(w) ==
  /\ In(w, "download", "term")
  /\ \/ group[w].leader = "zombie" /\ Set(w, Over(group[w]))
     \/ Set(w, [Over(group[w]) EXCEPT !.helper = FALSE])
  /\ UNCHANGED orphan

\* Everybody has obeyed, or SIGKILL goes to whoever is left of the group.
GraceEnds(w) ==
  /\ In(w, "download", "term")
  /\ \/ group[w].leader = "zombie" /\ ~group[w].helper /\ Set(w, Over(group[w]))
     \/ Set(w, [Over(group[w]) EXCEPT !.helper = FALSE])
  /\ UNCHANGED orphan

\* poll() reaps the leader; its id leads to no group any more, so
\* _group_alive_safe says that nobody is left.
Exits(w) ==
  /\ In(w, "download", "run")
  /\ group[w].leader = "zombie"
  /\ Set(w, Over(group[w]))
  /\ UNCHANGED orphan

-----------------------------------------------------------------------------
\* _run_capped: communicate() returns or times out; the group is killed.
Capped(w) ==
  /\ In(w, "inspect", "run")
  /\ Set(w, [Over(group[w]) EXCEPT !.helper = FALSE])
  /\ UNCHANGED orphan

\* setpriv --pdeathsig KILL: the leader of a download dies with its worker,
\* but neither its helper nor the group of an inspection.
Widowed(g) == IF g.kind = "download" THEN [g EXCEPT !.leader = "reaped"] ELSE g

\* The slot is free again; nobody knows what is left of its group.
Forget(w, g) ==
  /\ Set(w, NoGroup)
  /\ orphan' = (orphan \/ Lives(g))

RunReturns(w) == group[w].pc = "over" /\ Forget(w, group[w])

WorkerDies(w) == Forget(w, Widowed(group[w]))

OrphansEnd == orphan /\ orphan' = FALSE /\ UNCHANGED group

-----------------------------------------------------------------------------
\* No run that was stopped, and no inspection, leaves a process behind:
\* whoever ignores SIGTERM, and whoever outlives a leader that obeys it,
\* is gone when the slot goes on.  A download whose leader exited by itself
\* promises no such thing.
NothingLeftAfterStop ==
  \A w \in Worker :
    group[w].pc = "over" /\ (group[w].killed \/ group[w].kind = "inspect")
      => ~Lives(group[w])
=============================================================================
