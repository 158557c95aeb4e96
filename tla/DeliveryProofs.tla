---------------------------- MODULE DeliveryProofs --------------------------
(***************************************************************************)
(* Proofs about Delivery, for any number of devices, transfers and         *)
(* generations of the file.                                                *)
(*                                                                         *)
(* Every part of the state has its own invariant, and each is inductive    *)
(* given Typed: a stream only ever adds to what its device has of the same *)
(* file (Agreed); what the sweep did not see is in late (Spared); and what *)
(* is counted never gets ahead of what was sent, although flushes of       *)
(* parallel streams overwrite each other (Counts).                         *)
(***************************************************************************)
EXTENDS Delivery, FiniteSetTheorems, TLAPS

USE DeliveryAssumption

(***************************************************************************)
(* The invariant.                                                          *)
(***************************************************************************)

Streaming == {"run", "flush", "closing", "last"}

\* A stream between its first piece and its last flush has a transfer; before
\* that it has sent nothing, and it never has more to count than it has sent.
StreamSound(s) ==
  /\ s.next <= s.end + 1
  /\ s.due <= s.next - 1
  /\ s.pc \in Streaming => s.row \in Transfer
  /\ s.pc \notin Streaming => s.due = 0

Typed ==
  /\ job \in {"completed", "deleted", "away"}
  /\ disk \in Gen /\ gen \in Gen /\ disk <= gen
  /\ sweep \in {"none", "checked"}
  /\ row \in [Transfer -> Row]
  /\ stream \in [Client -> Stream]
  /\ device \in [Client -> [Piece -> Gen]]
  /\ late \subseteq Transfer
  /\ \A c \in Client : StreamSound(stream[c])

\* A device that is being sent a file has pieces of no other one.
SameFile(c) ==
  stream[c].pc # "none" => \A p \in Piece : device[c][p] \in {0, stream[c].gen}

Agreed == \A c \in Client : SameFile(c)

\* What the sweep has not found is what it has been told of since its check,
\* and every stream has a row that it could have found.
Spared ==
  /\ \A c \in Client : stream[c].pc \in Streaming => row[stream[c].row].state # "absent"
  /\ sweep = "checked" =>
       \A t \in Transfer : row[t].state = "open" => t \in late \/ row[t].idle

\* The pieces of t that were sent and that no flush has counted yet.
Uncounted(t) ==
  {x \in Client \X Piece : stream[x[1]].row = t /\ x[2] <= stream[x[1]].due}

\* A flush that has read bytes_sent of t and will add what is due.
Flushing(c, t) == stream[c].pc \in {"flush", "last"} /\ stream[c].row = t

\* What is counted, or what a flush has read, plus what is still to be counted
\* never exceeds what was sent.
CountFits(t) ==
  /\ IsFiniteSet(Uncounted(t))
  /\ row[t].sent + Cardinality(Uncounted(t)) <= row[t].real
  /\ \A c \in Client : Flushing(c, t) =>
       stream[c].seen + Cardinality(Uncounted(t)) <= row[t].real

Counts == \A t \in Transfer : CountFits(t)

(***************************************************************************)
(* What the actions do to streams and rows.                                *)
(***************************************************************************)

\* The stream of c becomes s.
StreamTo(c, s) ==
  /\ s \in Stream /\ StreamSound(s)
  /\ stream' \in [Client -> Stream] /\ stream'[c] = s
  /\ \A d \in Client \ {c} : stream'[d] = stream[d]

\* The row of t becomes r.
RowTo(t, r) ==
  /\ r \in Row
  /\ row' \in [Transfer -> Row] /\ row'[t] = r
  /\ \A u \in Transfer \ {t} : row'[u] = row[u]

LEMMA StreamMoves ==
  ASSUME Typed, NEW c \in Client, NEW s \in Stream, StreamSound(s),
         stream' = [stream EXCEPT ![c] = s]
  PROVE  StreamTo(c, s)
BY DEF Typed, StreamTo

LEMMA RowMoves ==
  ASSUME Typed, NEW t \in Transfer, NEW r \in Row, row' = [row EXCEPT ![t] = r]
  PROVE  RowTo(t, r)
BY DEF Typed, RowTo

LEMMA NoStreamSound == NoStream \in Stream /\ StreamSound(NoStream)
BY DEF NoStream, Stream, StreamSound, Streaming, Gen, Piece, Size

\* A response begins: nothing is sent and nothing is due.
LEMMA RespondMoves ==
  ASSUME Typed, NEW c \in Client, NEW first \in Piece, NEW last \in Piece, first <= last,
         Respond(c, first, last)
  PROVE  \E s : /\ StreamTo(c, s) /\ s.pc = "opened" /\ s.gen = disk /\ s.due = 0
                /\ s.row = NoTransfer
<1> DEFINE s == [NoStream EXCEPT !.pc = "opened", !.gen = disk, !.next = first, !.end = last,
                                 !.from = first > 1]
<1>1. s \in Stream /\ s.pc = "opened" /\ s.gen = disk /\ s.due = 0 /\ s.row = NoTransfer
      /\ s.next = first /\ s.end = last
  <2>1. ASSUME NEW b \in BOOLEAN
        PROVE  LET r == [NoStream EXCEPT !.pc = "opened", !.gen = disk, !.next = first,
                                         !.end = last, !.from = b]
               IN  r \in Stream /\ r.pc = "opened" /\ r.gen = disk /\ r.due = 0
                   /\ r.row = NoTransfer /\ r.next = first /\ r.end = last
    <3>1. disk \in Gen /\ first \in 1..(Size + 1) /\ 0 \in 0..Size
      BY DEF Typed, Piece, Size
    <3> QED
      BY <3>1 DEF NoStream, Stream
  <2>2. (first > 1) \in BOOLEAN
    OBVIOUS
  <2> QED
    BY <2>1, <2>2
<1>2. stream' = [stream EXCEPT ![c] = s]
  BY DEF Respond
<1> HIDE DEF s
<1>3. StreamSound(s)
  BY <1>1 DEF StreamSound, Streaming, Piece, Size
<1> QED
  BY <1>1, <1>2, <1>3, StreamMoves

\* The pieces that were there stay, or the device begins again.
LEMMA ServeMoves ==
  ASSUME Typed, Agreed, PartsAgree, NEW c \in Client, serve_job_file(c)
  PROVE  /\ \E s : /\ StreamTo(c, s) /\ s.pc = "opened" /\ s.gen = disk /\ s.due = 0
                   /\ s.row = NoTransfer
         /\ stream[c].pc = "none"
         /\ device' \in [Client -> [Piece -> Gen]]
         /\ \A d \in Client \ {c} : device'[d] = device[d]
         /\ \A p \in Piece : device'[c][p] \in {0, disk}
         /\ UNCHANGED <<fileVars, row, late>>
<1> DEFINE blank == [p \in Piece |-> 0]
<1>0. device \in [Client -> [Piece -> Gen]] /\ disk \in Gen /\ disk # 0 /\ blank \in [Piece -> Gen]
  BY DEF Typed, serve_job_file, Gen, DeliveryAssumption
<1>1. Piece = {1, 2} /\ 1 \in Piece /\ Size \in Piece /\ 2 \in Piece
  BY DEF Piece, Size
<1>2. ASSUME device' = [device EXCEPT ![c] = blank]
      PROVE  /\ device' \in [Client -> [Piece -> Gen]]
             /\ \A d \in Client \ {c} : device'[d] = device[d]
             /\ \A p \in Piece : device'[c][p] \in {0, disk}
  <2>1. device'[c] = blank
    BY <1>0, <1>2
  <2> QED
    BY <1>0, <1>2, <2>1
<1>3. CASE Resume(c) /\ ETag(c) = disk
  <2>1. Respond(c, 2, Size) /\ device' = device
    BY <1>3 DEF Resume
  <2>2. device[c][1] = disk
    BY <1>0, <1>3 DEF ETag
  <2>3. \A p \in Piece : device[c][p] \in {0, disk}
    BY <1>0, <1>1, <2>2 DEF PartsAgree
  <2> QED
    BY <1>0, <1>1, <2>1, <2>3, RespondMoves DEF serve_job_file, Size
<1>4. CASE Resume(c) /\ ETag(c) # disk
  <2>1. Respond(c, 1, Size) /\ device' = [device EXCEPT ![c] = blank]
    BY <1>4 DEF Resume
  <2> QED
    BY <1>1, <1>2, <2>1, RespondMoves DEF serve_job_file, Size
<1>5. CASE Fresh(c)
  <2>1. PICK last \in Piece : Respond(c, 1, last)
    BY <1>5 DEF Fresh
  <2>2. device' = [device EXCEPT ![c] = blank]
    BY <1>5 DEF Fresh
  <2> QED
    BY <1>1, <1>2, <2>1, <2>2, RespondMoves DEF serve_job_file, Piece
<1> QED
  BY <1>3, <1>4, <1>5 DEF serve_job_file

\* A stream finds or makes its transfer, which is heard of now.
LEMMA TrackMoves ==
  ASSUME Typed, NEW c \in Client, _track_start(c)
  PROVE  \E t \in Transfer :
           /\ \E s : StreamTo(c, s) /\ s.pc = "run" /\ s.row = t /\ s.due = 0
                     /\ s.gen = stream[c].gen
           /\ stream[c].pc = "opened"
           /\ row' \in [Transfer -> Row] /\ row'[t].state = "open"
           /\ \A u \in Transfer : /\ row'[u].sent = row[u].sent /\ row'[u].real = row[u].real
                                  /\ u # t => row'[u] = row[u]
           /\ late' = IF sweep = "checked" THEN late \cup {t} ELSE late
           /\ UNCHANGED <<fileVars, device>>
<1>0. /\ stream[c] \in Stream /\ StreamSound(stream[c]) /\ stream[c].pc = "opened"
      /\ UNCHANGED <<fileVars, device>>
  BY DEF Typed, _track_start
<1>1. ASSUME NEW t \in Transfer, stream' = [stream EXCEPT ![c] = [stream[c] EXCEPT !.pc = "run", !.row = t]]
      PROVE  /\ \E s : StreamTo(c, s) /\ s.pc = "run" /\ s.row = t /\ s.due = 0
                       /\ s.gen = stream[c].gen
             /\ late' = IF sweep = "checked" THEN late \cup {t} ELSE late
  <2> DEFINE s == [stream[c] EXCEPT !.pc = "run", !.row = t]
  <2>1. /\ s \in Stream /\ s.pc = "run" /\ s.row = t /\ s.due = stream[c].due
        /\ s.gen = stream[c].gen /\ s.next = stream[c].next /\ s.end = stream[c].end
    BY <1>0 DEF Stream
  <2>2. stream' = [stream EXCEPT ![c] = s]
    BY <1>1
  <2> HIDE DEF s
  <2>3. StreamSound(s) /\ s.due = 0
    BY <1>0, <2>1 DEF StreamSound, Streaming
  <2>4. StreamTo(c, s)
    BY <2>1, <2>2, <2>3, StreamMoves
  <2>5. stream'[c].row = t
    BY <2>1, <2>4 DEF StreamTo
  <2> QED
    BY <2>1, <2>3, <2>4, <2>5 DEF _track_start, Heard
<1>2. ASSUME NEW t \in Continued,
             stream' = [stream EXCEPT ![c] = [stream[c] EXCEPT !.pc = "run", !.row = t]],
             UNCHANGED row
      PROVE  /\ t \in Transfer /\ row' \in [Transfer -> Row] /\ row'[t].state = "open"
             /\ \A u \in Transfer : /\ row'[u].sent = row[u].sent /\ row'[u].real = row[u].real
                                    /\ u # t => row'[u] = row[u]
  BY <1>2 DEF Continued, Typed
<1>3. ASSUME NEW t \in Unused, row' = [row EXCEPT ![t].state = "open"]
      PROVE  /\ t \in Transfer /\ row' \in [Transfer -> Row] /\ row'[t].state = "open"
             /\ \A u \in Transfer : /\ row'[u].sent = row[u].sent /\ row'[u].real = row[u].real
                                    /\ u # t => row'[u] = row[u]
  <2> DEFINE r == [row[t] EXCEPT !.state = "open"]
  <2>1. t \in Transfer /\ row[t] \in Row
    BY DEF Unused, Typed
  <2>2. r \in Row /\ r.state = "open" /\ r.sent = row[t].sent /\ r.real = row[t].real
    BY <2>1 DEF Row
  <2>3. RowTo(t, r)
    BY <1>3, <2>1, <2>2, RowMoves
  <2> HIDE DEF r
  <2> QED
    BY <2>1, <2>2, <2>3 DEF RowTo
<1> QED
  BY <1>0, <1>1, <1>2, <1>3 DEF _track_start, Continued

\* What a device tells counts nothing; the transfer is heard of now.
LEMMA ReportMoves ==
  ASSUME Typed, NEW t \in Transfer, report_transfer(t)
  PROVE  /\ row' \in [Transfer -> Row]
         /\ \A u \in Transfer : /\ row'[u].sent = row[u].sent /\ row'[u].real = row[u].real
                                /\ u # t => row'[u] = row[u]
                                /\ row[u].state # "absent" => row'[u].state # "absent"
         /\ late' = IF sweep = "checked" THEN late \cup {t} ELSE late
         /\ UNCHANGED <<fileVars, stream, device>>
<1> DEFINE state == IF row[t].state = "absent" THEN "open" ELSE row[t].state
           r == [row[t] EXCEPT !.idle = FALSE, !.state = state]
<1>1. row \in [Transfer -> Row] /\ row[t] \in Row
  BY DEF Typed
<1>2. state \in {"open", "completed"}
  BY <1>1 DEF Row
<1>3. row' = [row EXCEPT ![t] = r]
  BY <1>1 DEF report_transfer
<1> HIDE DEF state
<1>4. r \in Row /\ r.sent = row[t].sent /\ r.real = row[t].real /\ r.state # "absent"
  BY <1>1, <1>2 DEF Row
<1>5. RowTo(t, r)
  BY <1>3, <1>4, RowMoves
<1> HIDE DEF r
<1> QED
  BY <1>4, <1>5 DEF RowTo, report_transfer, Heard

\* A stream goes on, or ends, without sending and counting anything: what is
\* due may be dropped, and a flush has read what is counted.
Calms(c, s) ==
  /\ StreamTo(c, s)
  /\ s.pc # "none" => s.gen = stream[c].gen /\ stream[c].pc # "none"
  /\ s.pc \in Streaming => stream[c].pc \in Streaming
  /\ s.due = 0 \/ (s.due = stream[c].due /\ s.row = stream[c].row)
  /\ s.pc \in Streaming => s.row = stream[c].row
  /\ s.pc \in {"flush", "last"} => s.seen = row[s.row].sent

LEMMA NoStreamCalms ==
  ASSUME Typed, NEW c \in Client, stream' = [stream EXCEPT ![c] = NoStream]
  PROVE  \E s : Calms(c, s) /\ s.due = 0 /\ s.pc \notin {"flush", "last"}
<1>1. NoStream.due = 0 /\ NoStream.pc = "none" /\ NoStream.row = NoTransfer
  BY DEF NoStream
<1>2. StreamTo(c, NoStream)
  BY NoStreamSound, StreamMoves
<1>3. Calms(c, NoStream)
  BY <1>1, <1>2 DEF Calms, Streaming
<1> QED
  BY <1>1, <1>3

\* After a flush nothing is due.
LEMMA FlushedCalms ==
  ASSUME Typed, NEW c \in Client, stream[c].pc \in {"flush", "last"},
         stream' = [stream EXCEPT ![c] =
                      IF stream[c].pc = "last" THEN NoStream
                      ELSE [stream[c] EXCEPT !.pc = "run", !.due = 0]]
  PROVE  \E s : Calms(c, s) /\ s.due = 0 /\ s.pc \notin {"flush", "last"}
<1>1. CASE stream[c].pc = "last"
  BY <1>1, NoStreamCalms
<1>2. CASE stream[c].pc = "flush"
  <2> DEFINE s == [stream[c] EXCEPT !.pc = "run", !.due = 0]
  <2>0. stream[c] \in Stream /\ StreamSound(stream[c])
    BY DEF Typed
  <2>1. /\ s \in Stream /\ s.pc = "run" /\ s.due = 0 /\ s.row = stream[c].row
        /\ s.gen = stream[c].gen /\ s.next = stream[c].next /\ s.end = stream[c].end
    <3>1. 0 \in 0..Size
      BY DEF Size
    <3> QED
      BY <2>0, <3>1 DEF Stream
  <2>2. stream' = [stream EXCEPT ![c] = s]
    BY <1>2
  <2> HIDE DEF s
  <2>3. StreamSound(s)
    BY <1>2, <2>0, <2>1 DEF StreamSound, Streaming, Stream, Piece, Size
  <2>4. StreamTo(c, s)
    BY <2>1, <2>2, <2>3, StreamMoves
  <2> QED
    BY <1>2, <2>1, <2>4 DEF Calms, Streaming
<1> QED
  BY <1>1, <1>2

\* The steps that leave the rows alone.
LEMMA CalmMoves ==
  ASSUME Typed, NEW c \in Client, Unheard(c) \/ FlushRead(c) \/ Close(c) \/ FlushFails(c)
  PROVE  (\E s : Calms(c, s)) /\ UNCHANGED <<fileVars, row, device, late>>
<1>0. stream[c] \in Stream /\ StreamSound(stream[c])
  BY DEF Typed
<1>1. CASE Unheard(c)
  BY <1>1, NoStreamCalms DEF Unheard
<1>2. CASE FlushFails(c)
  BY <1>2, FlushedCalms DEF FlushFails
<1>3. CASE Close(c)
  <2> DEFINE s == [stream[c] EXCEPT !.pc = "closing"]
  <2>1. /\ s \in Stream /\ s.pc = "closing" /\ s.due = stream[c].due /\ s.row = stream[c].row
        /\ s.gen = stream[c].gen /\ s.next = stream[c].next /\ s.end = stream[c].end
    BY <1>0 DEF Stream
  <2>2. stream' = [stream EXCEPT ![c] = s] /\ stream[c].pc = "run"
    BY <1>3 DEF Close
  <2> HIDE DEF s
  <2>3. StreamSound(s)
    BY <1>0, <2>1, <2>2 DEF StreamSound, Streaming
  <2>4. StreamTo(c, s)
    BY <2>1, <2>2, <2>3, StreamMoves
  <2> QED
    BY <1>3, <2>1, <2>2, <2>4 DEF Calms, Streaming, Close
<1>4. CASE FlushRead(c)
  <2>1. stream[c].pc \in {"run", "closing"} /\ stream[c].row \in Transfer
    BY <1>0, <1>4 DEF FlushRead, StreamSound, Streaming
  <2>2. row[stream[c].row].sent \in Nat
    BY <2>1 DEF Typed, Row
  <2> DEFINE pc == IF stream[c].pc = "run" THEN "flush" ELSE "last"
             s == [stream[c] EXCEPT !.pc = pc, !.seen = row[stream[c].row].sent]
  <2>3. pc \in {"flush", "last"}
    OBVIOUS
  <2>4. stream' = [stream EXCEPT ![c] = s]
    BY <1>4 DEF FlushRead
  <2> HIDE DEF pc
  <2>5. /\ s \in Stream /\ s.pc = pc /\ s.due = stream[c].due /\ s.row = stream[c].row
        /\ s.gen = stream[c].gen /\ s.next = stream[c].next /\ s.end = stream[c].end
        /\ s.seen = row[stream[c].row].sent
    BY <1>0, <2>2, <2>3 DEF Stream
  <2> HIDE DEF s
  <2>6. StreamSound(s)
    BY <1>0, <2>1, <2>3, <2>5 DEF StreamSound, Streaming
  <2>7. StreamTo(c, s)
    BY <2>4, <2>5, <2>6, StreamMoves
  <2> QED
    BY <1>4, <2>1, <2>3, <2>5, <2>7 DEF Calms, Streaming, FlushRead
<1> QED
  BY <1>1, <1>2, <1>3, <1>4

\* A piece is sent and is due to be counted.
LEMMA SendMoves ==
  ASSUME Typed, NEW c \in Client, Send(c)
  PROVE  /\ stream[c].row \in Transfer /\ stream[c].pc = "run"
         /\ \E s : /\ StreamTo(c, s) /\ s.pc = "run" /\ s.row = stream[c].row
                   /\ s.gen = stream[c].gen /\ s.due = stream[c].due + 1
         /\ RowTo(stream[c].row, [row[stream[c].row] EXCEPT !.real = @ + 1])
         /\ stream[c].next \in Piece
         /\ device' = [device EXCEPT ![c][stream[c].next] = stream[c].gen]
         /\ UNCHANGED <<fileVars, late>>
<1> DEFINE t == stream[c].row
<1>1. stream[c] \in Stream /\ StreamSound(stream[c]) /\ stream[c].pc = "run"
  BY DEF Typed, Send
<1>2. t \in Transfer
  BY <1>1 DEF StreamSound, Streaming
<1>3. stream[c].next <= stream[c].end /\ stream[c].end \in 1..2 /\ stream[c].next \in 1..3
      /\ stream[c].due \in 0..2
  BY <1>1 DEF Send, Stream, Piece, Size
<1>4. stream[c].next \in Piece /\ stream[c].next + 1 \in 1..(Size + 1)
      /\ stream[c].due + 1 \in 0..Size
  BY <1>1, <1>3 DEF Piece, Size, StreamSound
<1> DEFINE s == [stream[c] EXCEPT !.next = stream[c].next + 1, !.due = stream[c].due + 1]
<1>5. /\ s \in Stream /\ s.pc = "run" /\ s.due = stream[c].due + 1 /\ s.row = t
      /\ s.gen = stream[c].gen /\ s.next = stream[c].next + 1 /\ s.end = stream[c].end
  BY <1>1, <1>4 DEF Stream
<1>6. stream' = [stream EXCEPT ![c] = s]
  BY DEF Send
<1> HIDE DEF s
<1>7. StreamSound(s)
  BY <1>1, <1>2, <1>3, <1>5 DEF StreamSound, Streaming
<1>8. StreamTo(c, s)
  BY <1>5, <1>6, <1>7, StreamMoves
<1>9. row[t] \in Row
  BY <1>2 DEF Typed
<1>10. [row[t] EXCEPT !.real = @ + 1] \in Row
  BY <1>9 DEF Row
<1>11. RowTo(t, [row[t] EXCEPT !.real = @ + 1])
  BY <1>2, <1>10, RowMoves DEF Send
<1> QED
  BY <1>1, <1>2, <1>4, <1>5, <1>8, <1>11 DEF Send

\* What a flush has read and what is due become what is counted.
LEMMA FlushMoves ==
  ASSUME Typed, NEW c \in Client, FlushWrite(c)
  PROVE  /\ stream[c].row \in Transfer /\ stream[c].pc \in {"flush", "last"}
         /\ \E s : Calms(c, s) /\ s.due = 0 /\ s.pc \notin {"flush", "last"}
         /\ \E r : /\ RowTo(stream[c].row, r)
                   /\ r.sent = stream[c].seen + stream[c].due
                   /\ r.real = row[stream[c].row].real
                   /\ r.state \in {"completed", row[stream[c].row].state}
         /\ late' = IF sweep = "checked" THEN late \cup {stream[c].row} ELSE late
         /\ UNCHANGED <<fileVars, device>>
<1> DEFINE t == stream[c].row
<1>1. /\ stream[c] \in Stream /\ StreamSound(stream[c]) /\ stream[c].pc \in {"flush", "last"}
  BY DEF Typed, FlushWrite
<1>2. t \in Transfer /\ row[t] \in Row
  BY <1>1 DEF StreamSound, Streaming, Typed
<1> DEFINE state == IF stream[c].pc = "last" /\ Finished(stream[c]) THEN "completed"
                    ELSE row[t].state
           sent == stream[c].seen + stream[c].due
           r == [row[t] EXCEPT !.sent = sent, !.idle = FALSE, !.state = state]
<1>3. state \in {"completed", row[t].state}
  OBVIOUS
<1>4. sent \in Nat
  BY <1>1 DEF Stream
<1>5. row' = [row EXCEPT ![t] = r]
  BY DEF FlushWrite, Delta
<1> HIDE DEF state, sent
<1>6. /\ r \in Row /\ r.sent = sent /\ r.state = state /\ r.real = row[t].real
  BY <1>2, <1>3, <1>4 DEF Row
<1>7. RowTo(t, r)
  BY <1>2, <1>5, <1>6, RowMoves
<1>8. \E s : Calms(c, s) /\ s.due = 0 /\ s.pc \notin {"flush", "last"}
  BY <1>1, FlushedCalms DEF FlushWrite
<1>9. sent = stream[c].seen + stream[c].due
  BY DEF sent
<1> HIDE DEF r
<1> QED
  BY <1>1, <1>2, <1>3, <1>6, <1>7, <1>8, <1>9 DEF FlushWrite, Heard

(***************************************************************************)
(* The shape of the state, and the file that a device is sent.             *)
(***************************************************************************)

DInv == Typed /\ PartsAgree /\ Agreed /\ Spared /\ Counts

LEMMA StreamTyped ==
  ASSUME Typed, NEW c \in Client, NEW s, StreamTo(c, s)
  PROVE  stream' \in [Client -> Stream] /\ \A d \in Client : StreamSound(stream'[d])
BY DEF Typed, StreamTo

\* Nothing that a request does can break the shape of the state.
LEMMA TypedStep == DInv /\ [Next]_vars => Typed'
<1> SUFFICES ASSUME DInv, [Next]_vars PROVE Typed'
  OBVIOUS
<1>0. Typed /\ Agreed /\ PartsAgree
  BY DEF DInv
<1>1. CASE JobStep
  <2>1. 0 \in Gen /\ \A g \in Gen : g \in Nat
    BY DEF Gen, DeliveryAssumption
  <2>2. UNCHANGED <<row, stream, device>> /\ late' \subseteq Transfer
    BY <1>0, <1>1 DEF JobStep, Produce, delete_job, sweep_check, sweep_purge, Typed
  <2>3. /\ job' \in {"completed", "deleted", "away"} /\ sweep' \in {"none", "checked"}
    BY <1>0, <1>1 DEF JobStep, Produce, delete_job, sweep_check, sweep_purge, Typed
  <2>4. disk' \in Gen /\ gen' \in Gen /\ disk' <= gen'
    <3>1. CASE Produce
      BY <1>0, <3>1 DEF Produce, Typed, Gen, DeliveryAssumption
    <3>2. CASE delete_job \/ sweep_check
      BY <1>0, <3>2 DEF delete_job, sweep_check, Typed
    <3>3. CASE sweep_purge
      BY <1>0, <2>1, <3>3 DEF sweep_purge, Typed, Gen, DeliveryAssumption
    <3> QED
      BY <1>1, <3>1, <3>2, <3>3 DEF JobStep
  <2> QED
    BY <1>0, <2>2, <2>3, <2>4 DEF Typed
<1>2. ASSUME NEW c \in Client, serve_job_file(c) PROVE Typed'
  <2>1. /\ \E s : StreamTo(c, s)
        /\ device' \in [Client -> [Piece -> Gen]]
        /\ UNCHANGED <<fileVars, row, late>>
    BY <1>0, <1>2, ServeMoves
  <2>2. stream' \in [Client -> Stream] /\ \A d \in Client : StreamSound(stream'[d])
    BY <1>0, <2>1, StreamTyped
  <2> QED
    BY <1>0, <2>1, <2>2 DEF Typed, fileVars
<1>3. ASSUME NEW c \in Client, _track_start(c) PROVE Typed'
  <2>1. PICK t \in Transfer :
          /\ \E s : StreamTo(c, s)
          /\ row' \in [Transfer -> Row]
          /\ late' = IF sweep = "checked" THEN late \cup {t} ELSE late
          /\ UNCHANGED <<fileVars, device>>
    BY <1>0, <1>3, TrackMoves
  <2>2. stream' \in [Client -> Stream] /\ \A d \in Client : StreamSound(stream'[d])
    BY <1>0, <2>1, StreamTyped
  <2> QED
    BY <1>0, <2>1, <2>2 DEF Typed, fileVars
<1>4. ASSUME NEW c \in Client, Unheard(c) \/ FlushRead(c) \/ Close(c) \/ FlushFails(c)
      PROVE  Typed'
  <2>1. (\E s : StreamTo(c, s)) /\ UNCHANGED <<fileVars, row, device, late>>
    BY <1>0, <1>4, CalmMoves DEF Calms
  <2>2. stream' \in [Client -> Stream] /\ \A d \in Client : StreamSound(stream'[d])
    BY <1>0, <2>1, StreamTyped
  <2> QED
    BY <1>0, <2>1, <2>2 DEF Typed, fileVars
<1>5. ASSUME NEW c \in Client, Send(c) PROVE Typed'
  <2>1. /\ \E s : StreamTo(c, s)
        /\ \E r : RowTo(stream[c].row, r)
        /\ stream[c].next \in Piece
        /\ device' = [device EXCEPT ![c][stream[c].next] = stream[c].gen]
        /\ UNCHANGED <<fileVars, late>>
    BY <1>0, <1>5, SendMoves
  <2>2. stream' \in [Client -> Stream] /\ \A d \in Client : StreamSound(stream'[d])
    BY <1>0, <2>1, StreamTyped
  <2>3. stream[c].gen \in Gen /\ device \in [Client -> [Piece -> Gen]]
    BY <1>0 DEF Typed, Stream
  <2>4. device' \in [Client -> [Piece -> Gen]]
    BY <2>1, <2>3
  <2> QED
    BY <1>0, <2>1, <2>2, <2>4 DEF Typed, fileVars, RowTo
<1>6. ASSUME NEW c \in Client, FlushWrite(c) PROVE Typed'
  <2>1. /\ \E s : StreamTo(c, s)
        /\ stream[c].row \in Transfer
        /\ \E r : RowTo(stream[c].row, r)
        /\ late' = IF sweep = "checked" THEN late \cup {stream[c].row} ELSE late
        /\ UNCHANGED <<fileVars, device>>
    BY <1>0, <1>6, FlushMoves DEF Calms
  <2>2. stream' \in [Client -> Stream] /\ \A d \in Client : StreamSound(stream'[d])
    BY <1>0, <2>1, StreamTyped
  <2> QED
    BY <1>0, <2>1, <2>2 DEF Typed, fileVars, RowTo
<1>7. ASSUME NEW t \in Transfer, GoesIdle(t) PROVE Typed'
  <2>1. row[t] \in Row
    BY <1>0 DEF Typed
  <2>2. [row[t] EXCEPT !.idle = TRUE] \in Row
    BY <2>1 DEF Row
  <2>3. row' = [row EXCEPT ![t] = [row[t] EXCEPT !.idle = TRUE]]
    BY <1>7 DEF GoesIdle
  <2>4. row' \in [Transfer -> Row]
    BY <1>0, <2>2, <2>3 DEF Typed
  <2> QED
    BY <1>0, <1>7, <2>4 DEF Typed, GoesIdle, fileVars
<1>8. ASSUME NEW t \in Transfer, report_transfer(t) PROVE Typed'
  BY <1>0, <1>8, ReportMoves DEF Typed, fileVars
<1>9. CASE UNCHANGED vars
  BY <1>0, <1>9 DEF Typed, vars, fileVars
<1> QED
  BY <1>1, <1>2, <1>3, <1>4, <1>5, <1>6, <1>7, <1>8, <1>9 DEF Next, RequestStep, RowStep

\* A device that goes on with a file has nothing of another one.
LEMMA AgreedStep == DInv /\ [Next]_vars => PartsAgree' /\ Agreed'
<1> SUFFICES ASSUME DInv, [Next]_vars PROVE PartsAgree' /\ Agreed'
  OBVIOUS
<1>0. Typed /\ Agreed /\ PartsAgree
  BY DEF DInv
<1>1. ASSUME UNCHANGED <<stream, device>> PROVE PartsAgree' /\ Agreed'
  BY <1>0, <1>1 DEF PartsAgree, Agreed, SameFile
\* a stream that sends nothing, or nothing yet
<1>2. ASSUME NEW c \in Client, NEW s, StreamTo(c, s), UNCHANGED device,
             s.pc # "none" => stream[c].pc # "none" /\ s.gen = stream[c].gen
      PROVE  PartsAgree' /\ Agreed'
  <2>1. PartsAgree'
    BY <1>0, <1>2 DEF PartsAgree
  <2>2. ASSUME NEW d \in Client PROVE SameFile(d)'
    BY <1>0, <1>2 DEF Agreed, SameFile, StreamTo
  <2> QED
    BY <2>1, <2>2 DEF Agreed
\* the pieces of one device change, and they are of the file that it is sent
<1>3. ASSUME NEW c \in Client, NEW s, StreamTo(c, s),
             \A d \in Client \ {c} : device'[d] = device[d],
             \A p \in Piece : device'[c][p] \in {0, s.gen}
      PROVE  PartsAgree' /\ Agreed'
  <2>1. ASSUME NEW d \in Client, NEW p \in Piece, NEW q \in Piece,
               device'[d][p] # 0, device'[d][q] # 0
        PROVE  device'[d][p] = device'[d][q]
    <3>1. CASE d = c
      BY <1>3, <2>1, <3>1
    <3>2. CASE d # c
      BY <1>0, <1>3, <2>1, <3>2 DEF PartsAgree
    <3> QED
      BY <3>1, <3>2
  <2>2. ASSUME NEW d \in Client PROVE SameFile(d)'
    <3>1. CASE d = c
      BY <1>3, <3>1 DEF SameFile, StreamTo
    <3>2. CASE d # c
      BY <1>0, <1>3, <3>2 DEF Agreed, SameFile, StreamTo
    <3> QED
      BY <3>1, <3>2
  <2> QED
    BY <2>1, <2>2 DEF PartsAgree, Agreed
<1>4. CASE JobStep
  BY <1>1, <1>4 DEF JobStep, Produce, delete_job, sweep_check, sweep_purge
<1>5. ASSUME NEW c \in Client, serve_job_file(c) PROVE PartsAgree' /\ Agreed'
  <2>1. PICK s : StreamTo(c, s) /\ s.gen = disk
    BY <1>0, <1>5, ServeMoves
  <2>2. /\ \A d \in Client \ {c} : device'[d] = device[d]
        /\ \A p \in Piece : device'[c][p] \in {0, disk}
    BY <1>0, <1>5, ServeMoves
  <2> QED
    BY <1>3, <2>1, <2>2
<1>6. ASSUME NEW c \in Client, _track_start(c) PROVE PartsAgree' /\ Agreed'
  <2>1. stream[c].pc = "opened" /\ UNCHANGED device
        /\ \E s : StreamTo(c, s) /\ s.gen = stream[c].gen
    BY <1>0, <1>6, TrackMoves
  <2> QED
    BY <1>2, <2>1
<1>7. ASSUME NEW c \in Client, Unheard(c) \/ FlushRead(c) \/ Close(c) \/ FlushFails(c)
      PROVE  PartsAgree' /\ Agreed'
  BY <1>0, <1>2, <1>7, CalmMoves DEF Calms
<1>8. ASSUME NEW c \in Client, FlushWrite(c) PROVE PartsAgree' /\ Agreed'
  BY <1>0, <1>2, <1>8, FlushMoves DEF Calms
<1>9. ASSUME NEW c \in Client, Send(c) PROVE PartsAgree' /\ Agreed'
  <2>1. PICK s : StreamTo(c, s) /\ s.gen = stream[c].gen
    BY <1>0, <1>9, SendMoves
  <2>2. /\ stream[c].pc = "run" /\ stream[c].next \in Piece
        /\ device' = [device EXCEPT ![c][stream[c].next] = stream[c].gen]
    BY <1>0, <1>9, SendMoves
  <2>3. device \in [Client -> [Piece -> Gen]]
    BY <1>0 DEF Typed
  <2>4. /\ \A d \in Client \ {c} : device'[d] = device[d]
        /\ \A p \in Piece : device'[c][p] \in {device[c][p], stream[c].gen}
    BY <2>2, <2>3
  <2>5. \A p \in Piece : device'[c][p] \in {0, s.gen}
    BY <1>0, <2>1, <2>2, <2>4 DEF Agreed, SameFile
  <2> QED
    BY <1>3, <2>1, <2>4, <2>5
<1>10. ASSUME NEW t \in Transfer, RowStep(t) PROVE PartsAgree' /\ Agreed'
  BY <1>1, <1>10 DEF RowStep, GoesIdle, report_transfer
<1>11. CASE UNCHANGED vars
  BY <1>1, <1>11 DEF vars
<1> QED
  BY <1>4, <1>5, <1>6, <1>7, <1>8, <1>9, <1>10, <1>11 DEF Next, RequestStep

(***************************************************************************)
(* What the sweep has not seen.                                            *)
(***************************************************************************)

\* A stream moves on; its row, if it has got one just now, is there.
LEMMA SparedMoves ==
  ASSUME Typed, Spared, NEW c \in Client, NEW s, StreamTo(c, s),
         sweep' = sweep, late \subseteq late',
         \A t \in Transfer :
           /\ row[t].state # "absent" => row'[t].state # "absent"
           /\ row'[t] = row[t] \/ sweep # "checked" \/ t \in late'
              \/ (row'[t].state = row[t].state /\ row'[t].idle = row[t].idle),
         s.pc \in Streaming =>
           \/ stream[c].pc \in Streaming /\ s.row = stream[c].row
           \/ row'[s.row].state # "absent"
  PROVE  Spared'
<1>1. ASSUME NEW d \in Client, stream'[d].pc \in Streaming
      PROVE  row'[stream'[d].row].state # "absent"
  <2>1. stream[d].pc \in Streaming => stream[d].row \in Transfer /\ row[stream[d].row].state # "absent"
    BY DEF Typed, StreamSound, Spared
  <2> QED
    BY <1>1, <2>1 DEF StreamTo
<1>2. ASSUME NEW t \in Transfer, sweep' = "checked", row'[t].state = "open"
      PROVE  t \in late' \/ row'[t].idle
  BY <1>2 DEF Spared
<1> QED
  BY <1>1, <1>2 DEF Spared

LEMMA SparedStep == DInv /\ [Next]_vars => Spared'
<1> SUFFICES ASSUME DInv, [Next]_vars PROVE Spared'
  OBVIOUS
<1>0. Typed /\ Agreed /\ PartsAgree /\ Spared
  BY DEF DInv
<1>1. CASE JobStep
  <2>1. UNCHANGED <<row, stream>>
    BY <1>1 DEF JobStep, Produce, delete_job, sweep_check, sweep_purge
  <2>2. CASE Produce \/ delete_job
    BY <1>0, <2>1, <2>2 DEF Produce, delete_job, Spared
  <2>3. CASE sweep_check
    BY <1>0, <2>1, <2>3 DEF sweep_check, ActiveTransfer, Spared
  <2>4. CASE sweep_purge
    BY <1>0, <2>1, <2>4 DEF sweep_purge, Spared
  <2> QED
    BY <1>1, <2>2, <2>3, <2>4 DEF JobStep
<1>2. ASSUME NEW c \in Client, serve_job_file(c) PROVE Spared'
  <2>1. PICK s : StreamTo(c, s) /\ s.pc = "opened"
    BY <1>0, <1>2, ServeMoves
  <2>2. UNCHANGED <<fileVars, row, late>> /\ s.pc \notin Streaming
    BY <1>2, <2>1 DEF serve_job_file, Streaming
  <2> QED
    BY <1>0, <2>1, <2>2, SparedMoves DEF fileVars
<1>3. ASSUME NEW c \in Client, _track_start(c) PROVE Spared'
  <2>1. PICK t \in Transfer :
          /\ \E s : StreamTo(c, s) /\ s.row = t
          /\ row'[t].state = "open"
          /\ \A u \in Transfer : u # t => row'[u] = row[u]
          /\ late' = IF sweep = "checked" THEN late \cup {t} ELSE late
          /\ UNCHANGED <<fileVars, device>>
    BY <1>0, <1>3, TrackMoves
  <2>2. PICK s : StreamTo(c, s) /\ s.row = t
    BY <2>1
  <2>3. /\ sweep' = sweep /\ late \subseteq late'
        /\ \A u \in Transfer :
             /\ row[u].state # "absent" => row'[u].state # "absent"
             /\ row'[u] = row[u] \/ sweep # "checked" \/ u \in late'
    BY <2>1 DEF fileVars
  <2>4. row'[s.row].state # "absent"
    BY <2>1, <2>2
  <2> QED
    BY <1>0, <2>2, <2>3, <2>4, SparedMoves
<1>4. ASSUME NEW c \in Client, NEW s, Calms(c, s), UNCHANGED <<fileVars, row, late>>
      PROVE  Spared'
  BY <1>0, <1>4, SparedMoves DEF Calms, fileVars
<1>5. ASSUME NEW c \in Client, Unheard(c) \/ FlushRead(c) \/ Close(c) \/ FlushFails(c)
      PROVE  Spared'
  BY <1>0, <1>4, <1>5, CalmMoves
<1>6. ASSUME NEW c \in Client, Send(c) PROVE Spared'
  <2> DEFINE t == stream[c].row
  <2>1. PICK s : StreamTo(c, s) /\ s.row = t /\ s.pc = "run"
    BY <1>0, <1>6, SendMoves
  <2>2. /\ t \in Transfer /\ stream[c].pc = "run" /\ UNCHANGED <<fileVars, late>>
        /\ RowTo(t, [row[t] EXCEPT !.real = @ + 1])
    BY <1>0, <1>6, SendMoves
  <2>3. row[t] \in Row
    BY <1>0, <2>2 DEF Typed
  <2>4. /\ row'[t].state = row[t].state /\ row'[t].idle = row[t].idle
        /\ \A u \in Transfer \ {t} : row'[u] = row[u]
    BY <2>2, <2>3 DEF RowTo, Row
  <2> QED
    BY <1>0, <2>1, <2>2, <2>4, SparedMoves DEF fileVars, Streaming
<1>7. ASSUME NEW c \in Client, FlushWrite(c) PROVE Spared'
  <2> DEFINE t == stream[c].row
  <2>1. PICK s : Calms(c, s)
    BY <1>0, <1>7, FlushMoves
  <2>2. /\ t \in Transfer /\ stream[c].pc \in {"flush", "last"} /\ UNCHANGED fileVars
        /\ late' = IF sweep = "checked" THEN late \cup {t} ELSE late
    BY <1>0, <1>7, FlushMoves
  <2>3. PICK r : RowTo(t, r) /\ r.state \in {"completed", row[t].state}
    BY <1>0, <1>7, FlushMoves
  <2>4. row[t].state # "absent" => row'[t].state # "absent"
    BY <2>3 DEF RowTo
  <2>5. /\ sweep' = sweep /\ late \subseteq late'
        /\ \A u \in Transfer :
             /\ row[u].state # "absent" => row'[u].state # "absent"
             /\ row'[u] = row[u] \/ sweep # "checked" \/ u \in late'
    BY <2>2, <2>3, <2>4 DEF RowTo, fileVars
  <2> QED
    BY <1>0, <2>1, <2>5, SparedMoves DEF Calms
<1>8. ASSUME NEW t \in Transfer, GoesIdle(t) PROVE Spared'
  <2>1. row[t] \in Row /\ row' = [row EXCEPT ![t] = [row[t] EXCEPT !.idle = TRUE]]
        /\ UNCHANGED <<fileVars, stream, late>>
    BY <1>0, <1>8 DEF Typed, GoesIdle
  <2>2. /\ row'[t].idle /\ row'[t].state = row[t].state
        /\ \A u \in Transfer \ {t} : row'[u] = row[u]
    BY <1>0, <2>1 DEF Typed, Row
  <2>3. \A u \in Transfer : row'[u].state = row[u].state /\ (row[u].idle => row'[u].idle)
    BY <2>2
  <2>4. \A d \in Client : stream[d].pc \in Streaming => stream[d].row \in Transfer
    BY <1>0 DEF Typed, StreamSound
  <2> QED
    BY <1>0, <2>1, <2>3, <2>4 DEF Spared, fileVars
<1>9. ASSUME NEW t \in Transfer, report_transfer(t) PROVE Spared'
  <2>1. /\ \A u \in Transfer : /\ row[u].state # "absent" => row'[u].state # "absent"
                               /\ u # t => row'[u] = row[u]
        /\ late' = IF sweep = "checked" THEN late \cup {t} ELSE late
        /\ UNCHANGED <<fileVars, stream, device>>
    BY <1>0, <1>9, ReportMoves
  <2>2. \A d \in Client : stream[d].pc \in Streaming => stream[d].row \in Transfer
    BY <1>0 DEF Typed, StreamSound
  <2> QED
    BY <1>0, <2>1, <2>2 DEF Spared, fileVars
<1>10. CASE UNCHANGED vars
  BY <1>0, <1>10 DEF vars, fileVars, Spared
<1> QED
  BY <1>1, <1>2, <1>3, <1>5, <1>6, <1>7, <1>8, <1>9, <1>10 DEF Next, RequestStep, RowStep

(***************************************************************************)
(* What is counted.                                                        *)
(***************************************************************************)

\* Pieces are counted or dropped, or are due already.
LEMMA UncountedMoves ==
  ASSUME NEW c \in Client, NEW s, StreamTo(c, s),
         s.due = 0 \/ (s.due = stream[c].due /\ s.row = stream[c].row)
  PROVE  \A t : Uncounted(t)' \subseteq Uncounted(t)
<1> SUFFICES ASSUME NEW t, NEW x \in Uncounted(t)' PROVE x \in Uncounted(t)
  OBVIOUS
<1>1. /\ x \in Client \X Piece /\ x[1] \in Client /\ x[2] \in Piece
      /\ stream'[x[1]].row = t /\ x[2] <= stream'[x[1]].due
  BY DEF Uncounted
<1>2. x[2] \in Nat /\ x[2] > 0
  BY <1>1 DEF Piece, Size
<1> QED
  BY <1>1, <1>2 DEF StreamTo, Uncounted

LEMMA Subsets ==
  ASSUME NEW S, IsFiniteSet(S), NEW T, T \subseteq S
  PROVE  IsFiniteSet(T) /\ Cardinality(T) \in Nat /\ Cardinality(S) \in Nat
         /\ Cardinality(T) <= Cardinality(S)
BY FS_Subset, FS_CardinalityType

\* A transfer to which nothing is added, and which is not counted anew.
LEMMA CountsShrink ==
  ASSUME Typed, Typed', NEW t \in Transfer, CountFits(t), Uncounted(t)' \subseteq Uncounted(t),
         row'[t].sent = row[t].sent, row'[t].real = row[t].real,
         \A c \in Client : Flushing(c, t)' =>
           \/ stream'[c].seen = row[t].sent
           \/ Flushing(c, t) /\ stream'[c].seen = stream[c].seen
  PROVE  CountFits(t)'
<1>1. /\ IsFiniteSet(Uncounted(t)') /\ Cardinality(Uncounted(t)') \in Nat
      /\ Cardinality(Uncounted(t)) \in Nat
      /\ Cardinality(Uncounted(t)') <= Cardinality(Uncounted(t))
  BY Subsets DEF CountFits
<1>2. row[t].sent \in Nat /\ row[t].real \in Nat
  BY DEF Typed, Row
<1>3. ASSUME NEW c \in Client, Flushing(c, t)'
      PROVE  stream'[c].seen + Cardinality(Uncounted(t)') <= row'[t].real
  <2>1. CASE stream'[c].seen = row[t].sent
    BY <1>1, <1>2, <2>1 DEF CountFits
  <2>2. CASE Flushing(c, t) /\ stream'[c].seen = stream[c].seen
    <3>1. stream[c].seen \in Nat
      BY DEF Typed, Stream
    <3> QED
      BY <1>1, <1>2, <2>2, <3>1 DEF CountFits
  <2> QED
    BY <1>3, <2>1, <2>2
<1> QED
  BY <1>1, <1>2, <1>3 DEF CountFits

\* A piece is sent: it is due, and it is really sent.
LEMMA SendCounts ==
  ASSUME Typed, Typed', Counts, NEW c \in Client, Send(c), NEW t \in Transfer
  PROVE  CountFits(t)'
<1>1. PICK s : /\ StreamTo(c, s) /\ s.pc = "run" /\ s.row = stream[c].row
               /\ s.due = stream[c].due + 1
  BY SendMoves
<1>2. /\ stream[c].row \in Transfer
      /\ RowTo(stream[c].row, [row[stream[c].row] EXCEPT !.real = @ + 1])
  BY SendMoves
<1>3. CountFits(t) /\ row[t] \in Row /\ stream[c] \in Stream
  BY DEF Counts, Typed
<1>4. \A d \in Client : Flushing(d, t)' => Flushing(d, t) /\ stream'[d].seen = stream[d].seen
  BY <1>1 DEF Flushing, StreamTo
<1>5. CASE t # stream[c].row
  <2>1. row'[t] = row[t]
    BY <1>2, <1>5 DEF RowTo
  <2>2. Uncounted(t)' \subseteq Uncounted(t)
    BY <1>1, <1>5 DEF Uncounted, StreamTo
  <2> QED
    BY <1>3, <1>4, <2>1, <2>2, CountsShrink
<1>6. CASE t = stream[c].row
  <2>1. row'[t].real = row[t].real + 1 /\ row'[t].sent = row[t].sent
        /\ row[t].real \in Nat /\ row[t].sent \in Nat
    BY <1>2, <1>3, <1>6 DEF RowTo, Row
  <2> DEFINE x == <<c, stream[c].due + 1>>
  <2>2. Uncounted(t)' \subseteq Uncounted(t) \cup {x}
    <3> SUFFICES ASSUME NEW y \in Uncounted(t)', y \notin Uncounted(t) PROVE y = x
      OBVIOUS
    <3>1. /\ y \in Client \X Piece /\ y[1] \in Client /\ y[2] \in Piece
          /\ stream'[y[1]].row = t /\ y[2] <= stream'[y[1]].due
          /\ y = <<y[1], y[2]>>
      BY DEF Uncounted
    <3>2. ~(stream[y[1]].row = t /\ y[2] <= stream[y[1]].due)
      BY <3>1 DEF Uncounted
    <3>3. y[1] = c /\ y[2] <= stream[c].due + 1 /\ ~(y[2] <= stream[c].due)
      BY <1>1, <1>6, <3>1, <3>2 DEF StreamTo
    <3>4. y[2] = stream[c].due + 1
      BY <1>3, <3>1, <3>3 DEF Piece, Stream, Size
    <3> QED
      BY <3>1, <3>3, <3>4
  <2>3. /\ IsFiniteSet(Uncounted(t) \cup {x}) /\ Cardinality(Uncounted(t)) \in Nat
        /\ Cardinality(Uncounted(t) \cup {x}) \in {Cardinality(Uncounted(t)), Cardinality(Uncounted(t)) + 1}
    BY <1>3, FS_AddElement, FS_CardinalityType DEF CountFits
  <2>4. /\ IsFiniteSet(Uncounted(t)') /\ Cardinality(Uncounted(t)') \in Nat
        /\ Cardinality(Uncounted(t)') <= Cardinality(Uncounted(t)) + 1
    BY <2>2, <2>3, Subsets
  <2>5. \A d \in Client : stream[d].seen \in Nat
    BY DEF Typed, Stream
  <2>6. row'[t].sent + Cardinality(Uncounted(t)') <= row'[t].real
    BY <1>3, <2>1, <2>3, <2>4 DEF CountFits
  <2>7. ASSUME NEW d \in Client, Flushing(d, t)'
        PROVE  stream'[d].seen + Cardinality(Uncounted(t)') <= row'[t].real
    BY <1>3, <1>4, <2>1, <2>3, <2>4, <2>5, <2>7 DEF CountFits
  <2> QED
    BY <2>4, <2>6, <2>7 DEF CountFits
<1> QED
  BY <1>5, <1>6

\* A set that has lost an element that was in it.
LEMMA OneLess ==
  ASSUME NEW S, IsFiniteSet(S), NEW x \in S, NEW T, T \subseteq S \ {x}
  PROVE  IsFiniteSet(T) /\ Cardinality(T) + 1 <= Cardinality(S)
<1>1. /\ IsFiniteSet(S \ {x}) /\ Cardinality(S \ {x}) = Cardinality(S) - 1
      /\ Cardinality(S) \in Nat
  BY FS_RemoveElement, FS_CardinalityType
<1> QED
  BY <1>1, Subsets

\* A flush counts what is due and no more than what it has read before.
LEMMA FlushCounts ==
  ASSUME Typed, Typed', Counts, NEW c \in Client, FlushWrite(c), NEW t \in Transfer
  PROVE  CountFits(t)'
<1>1. PICK s : Calms(c, s) /\ s.due = 0 /\ s.pc \notin {"flush", "last"}
  BY FlushMoves
<1>2. stream[c].row \in Transfer /\ stream[c].pc \in {"flush", "last"}
  BY FlushMoves
<1>3. PICK r : /\ RowTo(stream[c].row, r) /\ r.sent = stream[c].seen + stream[c].due
               /\ r.real = row[stream[c].row].real
  BY FlushMoves
<1>4. CountFits(t) /\ row[t] \in Row /\ stream[c] \in Stream
  BY DEF Counts, Typed
<1>5. StreamTo(c, s) /\ Uncounted(t)' \subseteq Uncounted(t)
  BY <1>1, UncountedMoves DEF Calms
<1>6. \A d \in Client : Flushing(d, t)' => Flushing(d, t) /\ stream'[d].seen = stream[d].seen
  BY <1>1, <1>5 DEF Flushing, StreamTo
<1>7. CASE t # stream[c].row
  <2>1. row'[t] = row[t]
    BY <1>3, <1>7 DEF RowTo
  <2> QED
    BY <1>4, <1>5, <1>6, <2>1, CountsShrink
<1>8. CASE t = stream[c].row
  <2>1. /\ row'[t].sent = stream[c].seen + stream[c].due /\ row'[t].real = row[t].real
        /\ row[t].real \in Nat /\ stream[c].seen \in Nat /\ stream[c].due \in {0, 1, 2}
    BY <1>3, <1>4, <1>8 DEF RowTo, Row, Stream, Size
  <2>2. /\ IsFiniteSet(Uncounted(t)) /\ Cardinality(Uncounted(t)) \in Nat
        /\ IsFiniteSet(Uncounted(t)') /\ Cardinality(Uncounted(t)') \in Nat
        /\ Cardinality(Uncounted(t)') <= Cardinality(Uncounted(t))
    BY <1>4, <1>5, Subsets DEF CountFits
  <2>3. stream[c].seen + Cardinality(Uncounted(t)) <= row[t].real
    BY <1>2, <1>4, <1>8 DEF CountFits, Flushing
  <2>4. ASSUME NEW i \in Piece, i <= stream[c].due
        PROVE  <<c, i>> \in Uncounted(t) /\ <<c, i>> \notin Uncounted(t)'
    <3>1. <<c, i>> \in Uncounted(t)
      BY <1>8, <2>4 DEF Uncounted
    <3>2. stream'[c].due = 0 /\ ~(i <= 0)
      BY <1>1, <1>5 DEF StreamTo, Piece, Size
    <3> QED
      BY <3>1, <3>2 DEF Uncounted
  <2>5. Cardinality(Uncounted(t)') + stream[c].due <= Cardinality(Uncounted(t))
    <3>1. CASE stream[c].due = 0
      BY <2>2, <3>1
    <3>2. CASE stream[c].due = 1
      <4>1. 1 \in Piece
        BY DEF Piece, Size
      <4>2. Uncounted(t)' \subseteq Uncounted(t) \ {<<c, 1>>} /\ <<c, 1>> \in Uncounted(t)
        BY <1>5, <2>4, <3>2, <4>1
      <4> QED
        BY <2>2, <3>2, <4>2, OneLess
    <3>3. CASE stream[c].due = 2
      <4>1. 1 \in Piece /\ 2 \in Piece
        BY DEF Piece, Size
      <4>2. /\ <<c, 1>> \in Uncounted(t) /\ <<c, 1>> \notin Uncounted(t)'
            /\ <<c, 2>> \in Uncounted(t) /\ <<c, 2>> \notin Uncounted(t)'
        BY <2>4, <3>3, <4>1
      <4> DEFINE rest == Uncounted(t) \ {<<c, 1>>}
      <4>3. IsFiniteSet(rest) /\ Cardinality(rest) + 1 <= Cardinality(Uncounted(t))
        BY <2>2, <4>2, OneLess
      <4>4. <<c, 2>> \in rest /\ Uncounted(t)' \subseteq rest \ {<<c, 2>>}
        BY <1>5, <4>2
      <4>5. Cardinality(Uncounted(t)') + 1 <= Cardinality(rest) /\ Cardinality(rest) \in Nat
        <5> HIDE DEF rest
        <5> QED BY <4>3, <4>4, OneLess, FS_CardinalityType
      <4> HIDE DEF rest
      <4> QED
        BY <2>2, <3>3, <4>3, <4>5
    <3> QED
      BY <2>1, <3>1, <3>2, <3>3
  <2>6. row'[t].sent + Cardinality(Uncounted(t)') <= row'[t].real
    BY <2>1, <2>2, <2>3, <2>5
  <2>7. ASSUME NEW d \in Client, Flushing(d, t)'
        PROVE  stream'[d].seen + Cardinality(Uncounted(t)') <= row'[t].real
    <3>1. stream[d].seen \in Nat
      BY DEF Typed, Stream
    <3> QED
      BY <1>4, <1>6, <2>1, <2>2, <2>7, <3>1 DEF CountFits
  <2> QED
    BY <2>2, <2>6, <2>7 DEF CountFits
<1> QED
  BY <1>7, <1>8

LEMMA CountsStep == DInv /\ Typed' /\ [Next]_vars => Counts'
<1> SUFFICES ASSUME DInv, Typed', [Next]_vars, NEW t \in Transfer PROVE CountFits(t)'
  BY DEF Counts
<1>0. Typed /\ Agreed /\ PartsAgree /\ Counts /\ CountFits(t)
  BY DEF DInv, Counts
\* a stream moves on and no row is counted anew
<1>1. ASSUME NEW c \in Client, NEW s, StreamTo(c, s),
             s.due = 0 \/ (s.due = stream[c].due /\ s.row = stream[c].row),
             row'[t].sent = row[t].sent, row'[t].real = row[t].real,
             s.pc \in {"flush", "last"} => s.seen = row[s.row].sent
      PROVE  CountFits(t)'
  <2>1. Uncounted(t)' \subseteq Uncounted(t)
    BY <1>1, UncountedMoves
  <2>2. ASSUME NEW d \in Client, Flushing(d, t)'
        PROVE  \/ stream'[d].seen = row[t].sent
               \/ Flushing(d, t) /\ stream'[d].seen = stream[d].seen
    BY <1>1, <2>2 DEF Flushing, StreamTo
  <2> QED
    BY <1>0, <1>1, <2>1, <2>2, CountsShrink
<1>2. ASSUME UNCHANGED stream, row'[t].sent = row[t].sent, row'[t].real = row[t].real
      PROVE  CountFits(t)'
  <2>1. Uncounted(t)' = Uncounted(t) /\ \A d \in Client : Flushing(d, t)' <=> Flushing(d, t)
    BY <1>2 DEF Uncounted, Flushing
  <2> QED
    BY <1>0, <1>2, <2>1, CountsShrink
<1>3. CASE JobStep
  BY <1>2, <1>3 DEF JobStep, Produce, delete_job, sweep_check, sweep_purge
<1>4. ASSUME NEW c \in Client, serve_job_file(c) PROVE CountFits(t)'
  <2>1. PICK s : StreamTo(c, s) /\ s.pc = "opened" /\ s.due = 0
    BY <1>0, <1>4, ServeMoves
  <2>2. UNCHANGED row
    BY <1>4 DEF serve_job_file
  <2> QED
    BY <1>1, <2>1, <2>2
<1>5. ASSUME NEW c \in Client, _track_start(c) PROVE CountFits(t)'
  <2>1. /\ \E s : StreamTo(c, s) /\ s.pc = "run" /\ s.due = 0
        /\ row'[t].sent = row[t].sent /\ row'[t].real = row[t].real
    BY <1>0, <1>5, TrackMoves
  <2>2. PICK s : StreamTo(c, s) /\ s.pc = "run" /\ s.due = 0
    BY <2>1
  <2> QED
    BY <1>1, <2>1, <2>2
<1>6. ASSUME NEW c \in Client, Unheard(c) \/ FlushRead(c) \/ Close(c) \/ FlushFails(c)
      PROVE  CountFits(t)'
  BY <1>0, <1>1, <1>6, CalmMoves DEF Calms
<1>7. ASSUME NEW c \in Client, Send(c) PROVE CountFits(t)'
  BY <1>0, <1>7, SendCounts
<1>8. ASSUME NEW c \in Client, FlushWrite(c) PROVE CountFits(t)'
  BY <1>0, <1>8, FlushCounts
<1>9. ASSUME NEW u \in Transfer, GoesIdle(u) PROVE CountFits(t)'
  <2>1. row[u] \in Row /\ row[t] \in Row /\ row' = [row EXCEPT ![u] = [row[u] EXCEPT !.idle = TRUE]]
        /\ UNCHANGED stream /\ row \in [Transfer -> Row]
    BY <1>0, <1>9 DEF Typed, GoesIdle
  <2>2. row'[t].sent = row[t].sent /\ row'[t].real = row[t].real
    BY <2>1 DEF Row
  <2> QED
    BY <1>2, <2>1, <2>2
<1>10. ASSUME NEW u \in Transfer, report_transfer(u) PROVE CountFits(t)'
  BY <1>0, <1>2, <1>10, ReportMoves
<1>11. CASE UNCHANGED vars
  BY <1>2, <1>11 DEF vars
<1> QED
  BY <1>3, <1>4, <1>5, <1>6, <1>7, <1>8, <1>9, <1>10, <1>11 DEF Next, RequestStep, RowStep

(***************************************************************************)
(* The theorems.                                                           *)
(***************************************************************************)

LEMMA DInvInit == Init => DInv
<1> SUFFICES ASSUME Init PROVE DInv
  OBVIOUS
<1>1. NoRow \in Row /\ NoRow.sent = 0 /\ NoRow.real = 0 /\ NoRow.state = "absent"
  BY DEF NoRow, Row
<1>2. NoStream \in Stream /\ StreamSound(NoStream)
  BY NoStreamSound
<1>3. NoStream.pc = "none" /\ NoStream.due = 0
  BY DEF NoStream
<1>4. 0 \in Gen
  BY DEF Gen, DeliveryAssumption
<1>5. Typed
  BY <1>1, <1>2, <1>4 DEF Init, Typed, Gen, DeliveryAssumption
<1>6. PartsAgree /\ Agreed /\ Spared
  BY <1>3 DEF Init, PartsAgree, Agreed, SameFile, Spared, Streaming
<1>7. ASSUME NEW t \in Transfer PROVE CountFits(t)
  <2>1. Uncounted(t) = {}
    <3> SUFFICES ASSUME NEW x \in Uncounted(t) PROVE FALSE
      OBVIOUS
    <3>1. x[1] \in Client /\ x[2] \in Piece /\ x[2] <= stream[x[1]].due
      BY DEF Uncounted
    <3>2. x[2] \in Nat /\ x[2] > 0 /\ stream[x[1]].due = 0
      BY <1>3, <3>1 DEF Init, Piece, Size
    <3> QED
      BY <3>1, <3>2
  <2>2. IsFiniteSet(Uncounted(t)) /\ Cardinality(Uncounted(t)) = 0
    BY <2>1, FS_EmptySet
  <2>3. \A d \in Client : ~Flushing(d, t)
    BY <1>3 DEF Init, Flushing
  <2> QED
    BY <1>1, <2>2, <2>3 DEF Init, CountFits
<1> QED
  BY <1>5, <1>6, <1>7 DEF DInv, Counts

LEMMA DInvStep == DInv /\ [Next]_vars => DInv'
BY TypedStep, AgreedStep, SparedStep, CountsStep DEF DInv

LEMMA DInvAlways == Spec => []DInv
BY DInvInit, DInvStep, PTL DEF Spec

\* The state keeps its shape; no stream sends more than its Content-Length.
THEOREM StreamsEndInTime == Spec => []DeliveryTypeOK
<1>1. DInv => DeliveryTypeOK
  BY DEF DInv, Typed, StreamSound, DeliveryTypeOK
<1> QED
  BY <1>1, DInvAlways, PTL

\* If-Range: no device puts pieces of two generations of the file together,
\* whenever the job is retried and however its downloads are interrupted.
THEOREM OneGeneration == Spec => []PartsAgree
<1>1. DInv => PartsAgree
  BY DEF DInv
<1> QED
  BY <1>1, DInvAlways, PTL

\* bytes_sent never claims more than was sent, although parallel streams read
\* and write it without a lock.
THEOREM NothingGained == Spec => []NeverOvercounted
<1>1. DInv => NeverOvercounted
  <2> SUFFICES ASSUME DInv, NEW t \in Transfer PROVE row[t].sent <= row[t].real
    BY DEF NeverOvercounted
  <2>1. row[t].sent \in Nat /\ row[t].real \in Nat /\ CountFits(t)
    BY DEF DInv, Typed, Row, Counts
  <2>2. Cardinality(Uncounted(t)) \in Nat
    BY <2>1, FS_CardinalityType DEF CountFits
  <2> QED
    BY <2>1, <2>2 DEF CountFits
<1> QED
  BY <1>1, DInvAlways, PTL

\* The sweep takes the file away from no stream that it could have known of.
THEOREM SweepIsCareful == Spec => SweepSparesTransfers
<1>1. ASSUME DInv, Next, disk # 0, disk' = 0, NEW c \in Client, stream[c].pc \in Streaming
      PROVE  \/ stream[c].row \in late \/ row[stream[c].row].idle
             \/ row[stream[c].row].state = "completed"
  <2>1. Typed /\ Spared /\ stream[c].row \in Transfer /\ row[stream[c].row].state # "absent"
    BY <1>1 DEF DInv, Typed, StreamSound, Spared
  <2>2. row[stream[c].row] \in Row /\ gen \in Nat
    <3>1. row \in [Transfer -> Row] /\ gen \in Gen
      BY <2>1 DEF Typed
    <3>2. row[stream[c].row] \in Row
      BY <2>1, <3>1
    <3>3. gen \in Nat
      BY <3>1 DEF Gen, DeliveryAssumption
    <3> QED
      BY <3>2, <3>3
  <2>3. ASSUME NEW d \in Client, RequestStep(d) PROVE disk' = disk
    BY <2>3 DEF RequestStep, serve_job_file, _track_start, Unheard, Send, FlushRead, FlushWrite,
       Close, FlushFails, fileVars
  <2>4. ASSUME NEW t \in Transfer, RowStep(t) PROVE disk' = disk
    BY <2>4 DEF RowStep, GoesIdle, report_transfer, fileVars
  <2>5. sweep_purge
    BY <1>1, <2>2, <2>3, <2>4 DEF Next, JobStep, Produce, delete_job, sweep_check
  <2> QED
    BY <2>1, <2>2, <2>5 DEF Spared, Row, sweep_purge
<1>2. DInv /\ [Next]_vars =>
        [ disk # 0 /\ disk' = 0 =>
            \A c \in Client : stream[c].pc \in {"run", "flush", "closing", "last"}
              => stream[c].row \in late \/ row[stream[c].row].idle
                 \/ row[stream[c].row].state = "completed" ]_vars
  BY <1>1 DEF Streaming
<1> QED
  BY <1>2, DInvAlways, PTL DEF Spec, SweepSparesTransfers
=============================================================================
