---------------------------- MODULE EgressProxy ----------------------------
(***************************************************************************)
(* The forward proxy through which the workers' tools reach the internet   *)
(* (backend/app/egress_proxy.py): a coroutine per connection, a semaphore, *)
(* and a tunnel of two pumps, one for each direction.                      *)
(*                                                                         *)
(* A pump that is reading gives up after IDLE_TIMEOUT; a pump that waits   *)
(* for a full buffer to drain has no timeout of its own.  What is resolved *)
(* and which destination is refused is a choice here.                      *)
(***************************************************************************)
EXTENDS Naturals, FiniteSets

CONSTANTS
  Conn,             \* connections that may be open at once
  Process, NoClient,    \* the process groups that may open one
  MaxConnections    \* MAX_CONNECTIONS

ASSUME ProxyAssumption ==
  /\ IsFiniteSet(Conn)
  /\ MaxConnections \in Nat \ {0}
  /\ NoClient \notin Process

VARIABLE conn       \* conn[c]: the coroutine handle() of c and its client

\* Of the pump towards the client it does not matter whether it reads or
\* drains: a client that is gone makes it end from either.
Up == {"reads", "drains", "ended"}
Down == {"flows", "ended"}

Connection ==
  [ pc     : {"free", "waits", "serves", "pipes"},
    client : Process \cup {NoClient},    \* who holds the other end open
    up     : Up, down : Down ]

Free == [pc |-> "free", client |-> NoClient, up |-> "ended", down |-> "ended"]

ProxyInit == conn = [c \in Conn |-> Free]

Holders == {c \in Conn : conn[c].pc \in {"serves", "pipes"}}

Becomes(c, value) == conn' = [conn EXCEPT ![c] = value]

Freed(c) == Becomes(c, Free)

Open(c) == conn[c].client # NoClient

-----------------------------------------------------------------------------
\* A process of group p connects; handle() starts and asks for a slot.
Connect(c, p) ==
  /\ conn[c].pc = "free"
  /\ Becomes(c, [Free EXCEPT !.pc = "waits", !.client = p])

\* The process closes it again.
Closes(c, p) ==
  /\ conn[c].client = p
  /\ Becomes(c, [conn[c] EXCEPT !.client = NoClient])

\* One connection too many.
Acquire_mutant(c) ==
  /\ conn[c].pc = "waits"
  /\ Cardinality(Holders) <= MaxConnections
  /\ Becomes(c, [conn[c] EXCEPT !.pc = "serves"])

\* async with self._slots
Acquire(c) ==
  /\ conn[c].pc = "waits"
  /\ Cardinality(Holders) < MaxConnections
  /\ Becomes(c, [conn[c] EXCEPT !.pc = "serves"])

\* _serve up to the tunnel: the head is bad or late, the destination is
\* blocked or does not answer, or the client is gone when it is told so.
Declined(c) == conn[c].pc = "serves" /\ Freed(c)

\* The destination answers, and both pumps start.
Opened(c) ==
  /\ conn[c].pc = "serves"
  /\ Becomes(c, [conn[c] EXCEPT !.pc = "pipes", !.up = "reads", !.down = "flows"])

Piping(c) == conn[c].pc = "pipes"

\* The destination does not take what the client sends, until it does.
Backpressure(c) ==
  /\ Piping(c)
  /\ \/ conn[c].up = "reads" /\ Becomes(c, [conn[c] EXCEPT !.up = "drains"])
     \/ conn[c].up = "drains" /\ Becomes(c, [conn[c] EXCEPT !.up = "reads"])

\* The other end fails or is done, or nothing came for IDLE_TIMEOUT.
Breaks(c) ==
  /\ Piping(c)
  /\ \/ conn[c].up # "ended" /\ Becomes(c, [conn[c] EXCEPT !.up = "ended"])
     \/ conn[c].down # "ended" /\ Becomes(c, [conn[c] EXCEPT !.down = "ended"])

\* A pump hears that the client is gone: the read upwards returns nothing;
\* downwards a write fails, or there is nothing to write for IDLE_TIMEOUT.
UpHears(c) ==
  /\ Piping(c) /\ ~Open(c)
  /\ conn[c].up = "reads"
  /\ Becomes(c, [conn[c] EXCEPT !.up = "ended"])

DownHears(c) ==
  /\ Piping(c) /\ ~Open(c)
  /\ conn[c].down # "ended"
  /\ Becomes(c, [conn[c] EXCEPT !.down = "ended"])

\* The tunnel waits for both pumps.
TunnelEnds_mutant(c) ==
  /\ Piping(c)
  /\ conn[c].up = "ended" /\ conn[c].down = "ended"
  /\ Freed(c)

\* FIRST_COMPLETED: the other pump is canceled, both ends are closed.
TunnelEnds(c) ==
  /\ Piping(c)
  /\ conn[c].up = "ended" \/ conn[c].down = "ended"
  /\ Freed(c)

\* MAX_CONNECTION_SECONDS
Deadline(c) == c \in Holders /\ Freed(c)

ProxyStep(c) ==
  \/ Acquire(c) \/ Declined(c) \/ Opened(c)
  \/ Backpressure(c) \/ Breaks(c) \/ UpHears(c) \/ DownHears(c)
  \/ TunnelEnds(c) \/ Deadline(c)

\* The head and every connection attempt have their timeouts, and what a
\* pump hears and the end of a tunnel are up to the event loop alone.  The
\* deadline of four hours is left out: nothing below needs to wait for it.
ProxyProgress(c) ==
  Acquire(c) \/ Declined(c) \/ Opened(c) \/ UpHears(c) \/ DownHears(c) \/ TunnelEnds(c)
=============================================================================
