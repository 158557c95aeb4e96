------------------------------ MODULE Delivery ------------------------------
(***************************************************************************)
(* How the finished file of one job reaches the devices of its user        *)
(* (backend/app/api/files.py): requests with and without ranges, one open  *)
(* descriptor per stream, the transfers table that counts what was sent,   *)
(* and the retention sweep that must not pull the file away               *)
(* (services/reconcile.py).                                                *)
(*                                                                         *)
(* The file has two pieces, each at least as large as what is sent between *)
(* two flushes.  Of the job only what a request can tell apart is kept: it *)
(* is "completed", "deleted" by its user, or "away" (expired, or retried   *)
(* and on its way to a new file).  A new file is a new generation with an  *)
(* ETag of its own.                                                        *)
(***************************************************************************)
EXTENDS Integers, FiniteSets

CONSTANTS
  Client,       \* devices; each makes one request at a time
  Transfer,     \* rows of transfers, in the order of started_at
  NoTransfer,
  MaxGen        \* bound: how often the job produces a file

ASSUME DeliveryAssumption ==
  /\ Transfer \subseteq Nat /\ IsFiniteSet(Transfer)
  /\ NoTransfer \notin Transfer
  /\ MaxGen \in Nat \ {0}

VARIABLES
  job,      \* "completed", "deleted" or "away"
  disk,     \* generation of the file below final/, 0 if there is none
  gen,      \* generations so far
  sweep,    \* "checked": the sweep found no active transfer and goes on
  row,      \* row[t]: the transfer
  stream,   \* stream[c]: the response that c is being sent
  device,   \* device[c]: what c has put together
  late      \* transfers that were heard of since the check of the sweep

fileVars == <<job, disk, gen, sweep>>
vars == <<fileVars, row, stream, device, late>>

Gen == 0..MaxGen
Size == 2
Piece == 1..Size

Row ==
  [ state : {"absent", "open", "completed"},     \* server_completed_at
    idle  : BOOLEAN,                             \* last_seen_at <= cutoff
    sent  : Nat,                                 \* bytes_sent
    real  : Nat ]                                \* what was sent, for the record

NoRow == [state |-> "absent", idle |-> FALSE, sent |-> 0, real |-> 0]

Stream ==
  [ pc    : {"none", "opened", "run", "flush", "closing", "last"},
    gen   : Gen,                       \* the open descriptor
    next  : 1..(Size + 1),             \* the next piece to send
    end   : Piece,
    from  : BOOLEAN,                   \* the range starts after the first byte
    due   : 0..Size,                   \* sent - last_flush
    seen  : Nat,                       \* bytes_sent as the flush has read it
    row   : Transfer \cup {NoTransfer} ]

NoStream ==
  [pc |-> "none", gen |-> 0, next |-> 1, end |-> Size, from |-> FALSE, due |-> 0,
   seen |-> 0, row |-> NoTransfer]

Init ==
  /\ job = "away" /\ disk = 0 /\ gen = 0 /\ sweep = "none"
  /\ row = [t \in Transfer |-> NoRow]
  /\ stream = [c \in Client |-> NoStream]
  /\ device = [c \in Client |-> [p \in Piece |-> 0]]
  /\ late = {}

-----------------------------------------------------------------------------
(* The job and its file.                                                   *)

\* An attempt completes; its file replaces what an earlier one left.
Produce ==
  /\ job = "away" /\ sweep = "none"
  /\ gen < MaxGen
  /\ gen' = gen + 1
  /\ disk' = gen + 1
  /\ job' = "completed"
  /\ UNCHANGED <<sweep, row, stream, device, late>>

delete_job ==
  /\ job = "completed" /\ sweep = "none"
  /\ job' = "deleted"
  /\ UNCHANGED <<disk, gen, sweep, row, stream, device, late>>

\* _has_active_transfer
ActiveTransfer == \E t \in Transfer : row[t].state = "open" /\ ~row[t].idle

\* The sweep locks the job and removes its file without a look at transfers.
sweep_check_mutant ==
  /\ sweep = "none" /\ disk # 0
  /\ sweep' = "checked"
  /\ late' = {}
  /\ UNCHANGED <<job, disk, gen, row, stream, device>>

\* The sweep locks the job, whose time is over or that has left a file, and
\* finds no active transfer.
sweep_check ==
  /\ sweep = "none" /\ disk # 0
  /\ ~ActiveTransfer
  /\ sweep' = "checked"
  /\ late' = {}
  /\ UNCHANGED <<job, disk, gen, row, stream, device>>

\* The file goes, or its removal fails and is tried again by the next sweep.
sweep_purge ==
  /\ sweep = "checked"
  /\ sweep' = "none"
  /\ disk' \in {0, disk}
  /\ job' = IF job = "completed" THEN "away" ELSE job
  /\ late' = {}
  /\ UNCHANGED <<gen, row, stream, device>>

-----------------------------------------------------------------------------
(* A request.                                                              *)

\* The pieces that c lacks, and the generation of those it has.
Missing(c) == {p \in Piece : device[c][p] = 0}
ETag(c) == IF device[c][1] = 0 THEN 0 ELSE device[c][1]

Respond(c, first, last) ==
  stream' = [stream EXCEPT ![c] = [NoStream EXCEPT
               !.pc = "opened", !.gen = disk, !.next = first, !.end = last, !.from = first > 1]]

\* The validator of the client is not compared.
Resume_mutant(c) ==
  /\ Missing(c) # {} /\ Missing(c) # Piece
  /\ Respond(c, 2, Size)
  /\ UNCHANGED device

\* A range from where the client stopped, with If-Range.  Another file is
\* sent from its beginning, and the client begins again with it.
Resume(c) ==
  /\ Missing(c) # {} /\ Missing(c) # Piece
  /\ IF ETag(c) = disk
     THEN Respond(c, 2, Size) /\ UNCHANGED device
     ELSE Respond(c, 1, Size) /\ device' = [device EXCEPT ![c] = [p \in Piece |-> 0]]

\* The whole file or its first piece.
Fresh(c) ==
  /\ \E last \in Piece : Respond(c, 1, last)
  /\ device' = [device EXCEPT ![c] = [p \in Piece |-> 0]]

\* The job is completed and the file is there: a descriptor is open from now
\* on.  Neither the job nor the sweep is locked.
serve_job_file(c) ==
  /\ stream[c].pc = "none"
  /\ job = "completed" /\ disk # 0
  /\ Resume(c) \/ Fresh(c)
  /\ UNCHANGED <<fileVars, row, late>>

\* last_seen_at of t is now.
Heard(t) == late' = IF sweep = "checked" THEN late \cup {t} ELSE late

\* The latest transfer that is neither completed nor idle, if there is one.
Continued ==
  LET open == {t \in Transfer : row[t].state = "open" /\ ~row[t].idle}
  IN  {t \in open : \A u \in open : u <= t}

Unused == {t \in Transfer : row[t].state = "absent"}

_track_start(c) ==
  /\ stream[c].pc = "opened"
  /\ \/ /\ stream[c].from
        /\ \E t \in Continued :
             stream' = [stream EXCEPT ![c] = [@ EXCEPT !.pc = "run", !.row = t]]
        /\ UNCHANGED row
     \/ /\ stream[c].from => Continued = {}
        /\ \E t \in Unused :
             /\ \A u \in Unused : t <= u
             /\ row' = [row EXCEPT ![t].state = "open"]
             /\ stream' = [stream EXCEPT ![c] = [@ EXCEPT !.pc = "run", !.row = t]]
  /\ Heard(stream'[c].row)
  /\ UNCHANGED <<fileVars, device>>

\* The client is gone before the response begins: the generator never runs,
\* and nothing closes the descriptor.
Unheard(c) ==
  /\ stream[c].pc \in {"opened", "run"} /\ stream[c].due = 0
  /\ stream' = [stream EXCEPT ![c] = NoStream]
  /\ UNCHANGED <<fileVars, row, device, late>>

-----------------------------------------------------------------------------
(* _stream and _flush.                                                     *)

\* The file is read to its end, whatever range was asked for.
Send_mutant(c) ==
  LET s == stream[c] IN
  /\ s.pc = "run" /\ s.next <= Size
  /\ stream' = [stream EXCEPT ![c] = [s EXCEPT !.next = s.next + 1, !.due = s.due + 1]]
  /\ row' = [row EXCEPT ![s.row].real = @ + 1]
  /\ device' = [device EXCEPT ![c][s.next] = s.gen]
  /\ UNCHANGED <<fileVars, late>>

\* A piece is sent; the client gets it, or the connection breaks there.
Send(c) ==
  LET s == stream[c] IN
  /\ s.pc = "run" /\ s.next <= s.end
  /\ stream' = [stream EXCEPT ![c] = [s EXCEPT !.next = s.next + 1, !.due = s.due + 1]]
  /\ row' = [row EXCEPT ![s.row].real = @ + 1]
  /\ device' = [device EXCEPT ![c][s.next] = s.gen]
  /\ UNCHANGED <<fileVars, late>>

\* s.get(Transfer): the session reads the row ...
FlushRead(c) ==
  LET s == stream[c] IN
  /\ s.pc \in {"run", "closing"}
  /\ s.pc = "run" => s.due > 0
  /\ stream' = [stream EXCEPT ![c] = [s EXCEPT
                 !.pc = IF s.pc = "run" THEN "flush" ELSE "last",
                 !.seen = row[s.row].sent]]
  /\ UNCHANGED <<fileVars, row, device, late>>

\* Everything sent so far is counted at every flush.
Delta_mutant(s) == s.next - 1

Delta(s) == s.due

\* The whole range was sent and it reached the end of the file.
Finished(s) == s.next > s.end /\ s.end = Size

\* ... and writes what it has computed, over what others have written since.
FlushWrite(c) ==
  LET s == stream[c] IN
  /\ s.pc \in {"flush", "last"}
  /\ row' = [row EXCEPT ![s.row] = [row[s.row] EXCEPT
               !.sent = s.seen + Delta(s),
               !.idle = FALSE,
               !.state = IF s.pc = "last" /\ Finished(s) THEN "completed" ELSE row[s.row].state]]
  /\ stream' = [stream EXCEPT ![c] =
                  IF s.pc = "last" THEN NoStream ELSE [s EXCEPT !.pc = "run", !.due = 0]]
  /\ Heard(s.row)
  /\ UNCHANGED <<fileVars, device>>

\* The end of the range, a disconnect, or an exception: finally.
Close(c) ==
  /\ stream[c].pc = "run"
  /\ stream' = [stream EXCEPT ![c].pc = "closing"]
  /\ UNCHANGED <<fileVars, row, device, late>>

\* "accounting must never break a transfer": a flush that fails is dropped.
FlushFails(c) ==
  LET s == stream[c] IN
  /\ s.pc \in {"flush", "last"}
  /\ stream' = [stream EXCEPT ![c] =
                  IF s.pc = "last" THEN NoStream ELSE [s EXCEPT !.pc = "run", !.due = 0]]
  /\ UNCHANGED <<fileVars, row, device, late>>

\* transfer_active_window_seconds pass without a flush, although pieces may
\* be on their way.
GoesIdle(t) ==
  /\ row[t].state = "open" /\ ~row[t].idle
  /\ row' = [row EXCEPT ![t].idle = TRUE]
  /\ UNCHANGED <<fileVars, stream, device, late>>

\* A device tells how saving went: the latest transfer of the job, whatever has
\* become of it, was heard of, or a new one if there is none.
report_transfer(t) ==
  /\ job # "deleted"
  /\ IF Unused = Transfer THEN \A u \in Transfer : t <= u
     ELSE t \notin Unused /\ \A u \in Transfer \ Unused : u <= t
  /\ row' = [row EXCEPT ![t].idle = FALSE,
                        ![t].state = IF @ = "absent" THEN "open" ELSE @]
  /\ Heard(t)
  /\ UNCHANGED <<fileVars, stream, device>>

-----------------------------------------------------------------------------
JobStep == Produce \/ delete_job \/ sweep_check \/ sweep_purge

RequestStep(c) ==
  \/ serve_job_file(c) \/ _track_start(c) \/ Unheard(c) \/ Send(c)
  \/ FlushRead(c) \/ FlushWrite(c) \/ FlushFails(c) \/ Close(c)

RowStep(t) == GoesIdle(t) \/ report_transfer(t)

Next == JobStep \/ (\E c \in Client : RequestStep(c)) \/ (\E t \in Transfer : RowStep(t))

Spec == Init /\ [][Next]_vars

-----------------------------------------------------------------------------
(***************************************************************************)
(* Properties.                                                             *)
(***************************************************************************)

DeliveryTypeOK ==
  /\ job \in {"completed", "deleted", "away"}
  /\ disk \in Gen /\ gen \in Gen /\ disk <= gen
  /\ sweep \in {"none", "checked"}
  /\ row \in [Transfer -> Row]
  /\ stream \in [Client -> Stream]
  /\ \A c \in Client : stream[c].next <= stream[c].end + 1     \* Content-Length
  /\ device \in [Client -> [Piece -> Gen]]
  /\ late \subseteq Transfer

\* What a device has put together from several responses is one file, never
\* the beginning of one generation and the end of another.
PartsAgree ==
  \A c \in Client, p, q \in Piece :
    device[c][p] # 0 /\ device[c][q] # 0 => device[c][p] = device[c][q]

\* bytes_sent never claims more than the server has sent: parallel streams of
\* one transfer lose counts and never gain any.
NeverOvercounted == \A t \in Transfer : row[t].sent <= row[t].real

\* The sweep takes a file away only from streams that it could not know of,
\* because their transfer was first or again heard of after its check, or was
\* not heard of for the whole window, or another stream completed it.
SweepSparesTransfers ==
  [][ disk # 0 /\ disk' = 0 =>
        \A c \in Client : stream[c].pc \in {"run", "flush", "closing", "last"}
          => stream[c].row \in late \/ row[stream[c].row].idle
             \/ row[stream[c].row].state = "completed" ]_vars
=============================================================================
