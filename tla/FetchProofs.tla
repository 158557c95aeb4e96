----------------------------- MODULE FetchProofs ----------------------------
(***************************************************************************)
(* Proofs about Fetch, for any number of slots, inspections, connections   *)
(* and proxy slots.                                                        *)
(*                                                                         *)
(* The composition is what makes the argument short: Inspections knows     *)
(* rows and messages, Runner process groups, EgressProxy connections, and  *)
(* each part has an invariant of its own (RowsInv, GroupsInv, ConnInv).    *)
(* What ties them together is that an inspection is claimed only when it   *)
(* is pending, while one that a slot executes never is (RowsInv), and that *)
(* every step by which a group ends hangs its connections up (ConnInv).    *)
(***************************************************************************)
EXTENDS Fetch, FiniteSetTheorems, TLAPS

USE InspectionsAssumption, ProxyAssumption, FetchAssumption

(***************************************************************************)
(* The invariant.                                                          *)
(***************************************************************************)

\* What a slot executes has been claimed and is not claimed again.
RowsInv ==
  /\ insp \in [Insp -> InspRow] /\ box \in [Insp -> 0..MaxMessages]
  /\ api \in SUBSET Insp
  /\ inspects \in [Worker -> Insp \cup {NoInsp}]
  /\ \A w \in Worker : inspects[w] # NoInsp => insp[inspects[w]].status \in {"running", "done"}
  /\ OneExecutor

\* A run that goes on has not been ended; one that is over has reaped its
\* leader, and has killed the helper unless the leader exited by itself.
RunSound(g) ==
  /\ g.pc = "run" => ~g.killed
  /\ g.pc = "over" => g.leader = "reaped" /\ (g.killed \/ g.kind = "inspect" => ~g.helper)

GroupsInv ==
  /\ group \in [Worker -> Group] /\ orphan \in BOOLEAN
  /\ \A w \in Worker : RunSound(group[w])

ConnTyped ==
  /\ conn \in [Conn -> Connection]
  /\ Cardinality(Holders) <= MaxConnections

ClientsLive == \A c \in Conn, w \in Worker : conn[c].client = w => Lives(group[w])

FInv == RowsInv /\ GroupsInv /\ ConnTyped /\ ClientsLive

(***************************************************************************)
(* Rows and messages.                                                      *)
(***************************************************************************)

\* A row changes that no slot executes, or it changes nothing that counts.
LEMMA RowChanges ==
  ASSUME RowsInv, NEW i \in Insp, NEW r \in InspRow, Update(i, r),
         box' \in [Insp -> 0..MaxMessages], api' \in SUBSET Insp, inspects' = inspects,
         \/ insp[i].status \in {"absent", "pending"}
         \/ insp[i].status = "running" /\ r.status \in {"running", "done"}
         \/ r.status = insp[i].status
         \/ \A w \in Worker : inspects[w] # i
  PROVE  RowsInv'
<1>1. insp' \in [Insp -> InspRow] /\ insp'[i] = r /\ \A k \in Insp \ {i} : insp'[k] = insp[k]
  BY DEF RowsInv, Update
<1>2. ASSUME NEW w \in Worker, inspects[w] # NoInsp
      PROVE  insp'[inspects[w]].status \in {"running", "done"}
  BY <1>1, <1>2 DEF RowsInv
<1> QED
  BY <1>1, <1>2 DEF RowsInv, OneExecutor

\* Only the messages change.
LEMMA RowsRest ==
  ASSUME RowsInv, insp' = insp, inspects' = inspects,
         box' \in [Insp -> 0..MaxMessages], api' \in SUBSET Insp
  PROVE  RowsInv'
BY DEF RowsInv, OneExecutor

LEMMA SendTyped ==
  ASSUME RowsInv, NEW i \in Insp, Send(i)
  PROVE  box' \in [Insp -> 0..MaxMessages]
BY DEF RowsInv, Send, InspectionsAssumption

LEMMA TakeTyped ==
  ASSUME RowsInv, NEW i \in Insp, Take(i)
  PROVE  box' \in [Insp -> 0..MaxMessages] /\ api' = api
BY DEF RowsInv, Take, InspectionsAssumption

LEMMA InspStepRows ==
  ASSUME RowsInv, NEW i \in Insp, InspStep(i), inspects' = inspects
  PROVE  RowsInv'
<1>0. insp[i] \in InspRow /\ box \in [Insp -> 0..MaxMessages] /\ api \in SUBSET Insp
  BY DEF RowsInv
<1>1. CASE create_inspection(i)
  <2>1. [NoInspRow EXCEPT !.status = "pending"] \in InspRow
    BY DEF NoInspRow, InspRow
  <2> QED
    BY <1>0, <1>1, <2>1, RowChanges DEF create_inspection
<1>2. ASSUME Stamped(i), box' \in [Insp -> 0..MaxMessages], api' \in SUBSET Insp
      PROVE  RowsInv'
  <2>1. [insp[i] EXCEPT !.fresh = TRUE] \in InspRow
    BY <1>0 DEF InspRow
  <2> QED
    BY <1>2, <2>1, RowChanges DEF Stamped
<1>3. CASE Publish(i)
  <2>1. api' \in SUBSET Insp
    BY <1>0, <1>3 DEF Publish
  <2>2. CASE Send(i) /\ Stamped(i)
    BY <1>2, <2>1, <2>2, SendTyped
  <2>3. CASE Send(i) /\ UNCHANGED insp
    BY <2>1, <2>3, SendTyped, RowsRest
  <2>4. CASE UNCHANGED <<insp, box>>
    BY <1>0, <2>1, <2>4, RowsRest
  <2> QED
    BY <1>3, <2>2, <2>3, <2>4 DEF Publish
<1>4. CASE Skip(i)
  BY <1>0, <1>4, TakeTyped, RowsRest DEF Skip
<1>5. CASE Redispatch(i)
  <2>1. api' \in SUBSET Insp /\ box' \in [Insp -> 0..MaxMessages]
    BY <1>0, <1>5, SendTyped DEF Redispatch
  <2> QED
    BY <1>2, <1>5, <2>1, RowsRest DEF Redispatch
<1>6. CASE EnqueuedAges(i)
  <2>1. [insp[i] EXCEPT !.fresh = FALSE] \in InspRow
        /\ [insp[i] EXCEPT !.fresh = FALSE].status = insp[i].status
    BY <1>0 DEF InspRow
  <2> QED
    BY <1>0, <1>6, <2>1, RowChanges DEF EnqueuedAges
<1>7. CASE Expires(i)
  <2>1. [insp[i] EXCEPT !.expired = TRUE] \in InspRow
        /\ [insp[i] EXCEPT !.expired = TRUE].status = insp[i].status
    BY <1>0 DEF InspRow
  <2> QED
    BY <1>0, <1>7, <2>1, RowChanges DEF Expires
<1> QED
  BY <1>1, <1>3, <1>4, <1>5, <1>6, <1>7 DEF InspStep

\* A row is claimed when it is pending, so no slot executes it.
LEMMA ClaimRows ==
  ASSUME RowsInv, NEW w \in Worker, NEW i \in Insp, ClaimInspection(w, i)
  PROVE  RowsInv'
<1>1. insp[i] \in InspRow /\ insp[i].status = "pending"
  BY DEF RowsInv, ClaimInspection, Claim, Claimable
<1> DEFINE r == [insp[i] EXCEPT !.status = "running", !.fresh = FALSE]
<1>2. r \in InspRow /\ r.status = "running"
  BY <1>1 DEF InspRow
<1>3. insp' = [insp EXCEPT ![i] = r] /\ inspects' = [inspects EXCEPT ![w] = i]
  BY DEF ClaimInspection, Claim, Update
<1> HIDE DEF r
<1>4. insp' \in [Insp -> InspRow] /\ insp'[i] = r /\ \A k \in Insp \ {i} : insp'[k] = insp[k]
  BY <1>2, <1>3 DEF RowsInv
<1>5. /\ inspects' \in [Worker -> Insp \cup {NoInsp}] /\ inspects'[w] = i
      /\ \A v \in Worker \ {w} : inspects'[v] = inspects[v]
  BY <1>3 DEF RowsInv
<1>6. \A v \in Worker : inspects[v] # i
  BY <1>1 DEF RowsInv, FetchAssumption
<1>7. \A v \in Worker : inspects'[v] # NoInsp => insp'[inspects'[v]].status \in {"running", "done"}
  BY <1>2, <1>4, <1>5, <1>6 DEF RowsInv
<1>8. OneExecutor'
  BY <1>5, <1>6 DEF RowsInv, OneExecutor
<1>9. box' \in [Insp -> 0..MaxMessages] /\ api' \in SUBSET Insp
  BY TakeTyped DEF ClaimInspection, Claim, RowsInv
<1> QED
  BY <1>4, <1>5, <1>7, <1>8, <1>9 DEF RowsInv

\* A slot that gives an inspection up executes none.
LEMMA SlotFreed ==
  ASSUME RowsInv, NEW w \in Worker, inspects' = [inspects EXCEPT ![w] = NoInsp],
         insp' = insp, box' \in [Insp -> 0..MaxMessages], api' = api
  PROVE  RowsInv'
<1>1. /\ inspects' \in [Worker -> Insp \cup {NoInsp}] /\ inspects'[w] = NoInsp
      /\ \A v \in Worker \ {w} : inspects'[v] = inspects[v]
  BY DEF RowsInv
<1> QED
  BY <1>1 DEF RowsInv, OneExecutor

(***************************************************************************)
(* Process groups.                                                         *)
(***************************************************************************)

LEMMA GroupMoves ==
  ASSUME GroupsInv, NEW w \in Worker, NEW g \in Group, RunSound(g), Set(w, g),
         orphan' \in BOOLEAN
  PROVE  /\ GroupsInv' /\ group'[w] = g
         /\ \A v \in Worker \ {w} : group'[v] = group[v]
BY DEF GroupsInv, Set

\* What a group of one slot does, and that nobody else's changes.
LEMMA RunStepGroups ==
  ASSUME GroupsInv, NEW w \in Worker,
         \/ Spawn(w) \/ LeaderExits(w) \/ HelperExits(w)
         \/ Terminate(w) \/ GraceEnds(w) \/ Exits(w) \/ Capped(w)
  PROVE  GroupsInv' /\ \A v \in Worker \ {w} : group'[v] = group[v]
<1> DEFINE g == group[w]
<1>0. g \in Group /\ RunSound(g) /\ orphan \in BOOLEAN
  BY DEF GroupsInv
<1>1. CASE Spawn(w)
  <2>1. [g EXCEPT !.helper = TRUE] \in Group /\ RunSound([g EXCEPT !.helper = TRUE])
    BY <1>0, <1>1 DEF Group, RunSound, Spawn
  <2> QED
    BY <1>0, <1>1, <2>1, GroupMoves DEF Spawn
<1>2. CASE LeaderExits(w)
  <2>1. [g EXCEPT !.leader = "zombie"] \in Group /\ RunSound([g EXCEPT !.leader = "zombie"])
    BY <1>0, <1>2 DEF Group, RunSound, LeaderExits
  <2> QED
    BY <1>0, <1>2, <2>1, GroupMoves DEF LeaderExits
<1>3. CASE HelperExits(w)
  <2>1. [g EXCEPT !.helper = FALSE] \in Group /\ RunSound([g EXCEPT !.helper = FALSE])
    BY <1>0, <1>3 DEF Group, RunSound, HelperExits
  <2> QED
    BY <1>0, <1>3, <2>1, GroupMoves DEF HelperExits
<1>4. CASE Terminate(w)
  <2>1. /\ [g EXCEPT !.pc = "term", !.killed = TRUE] \in Group
        /\ RunSound([g EXCEPT !.pc = "term", !.killed = TRUE])
    BY <1>0, <1>4 DEF Group, RunSound, Terminate, In
  <2> QED
    BY <1>0, <1>4, <2>1, GroupMoves DEF Terminate
<1>5. [Over(g) EXCEPT !.helper = FALSE] \in Group /\ RunSound([Over(g) EXCEPT !.helper = FALSE])
  BY <1>0 DEF Group, RunSound, Over
<1>6. CASE GraceEnds(w)
  <2>1. CASE g.leader = "zombie" /\ ~g.helper /\ Set(w, Over(g))
    <3>1. Over(g) \in Group /\ RunSound(Over(g))
      BY <1>0, <2>1 DEF Group, RunSound, Over
    <3> QED
      BY <1>0, <1>6, <2>1, <3>1, GroupMoves DEF GraceEnds
  <2>2. CASE Set(w, [Over(g) EXCEPT !.helper = FALSE])
    BY <1>0, <1>5, <1>6, <2>2, GroupMoves DEF GraceEnds
  <2> QED
    BY <1>6, <2>1, <2>2 DEF GraceEnds
<1>7. CASE Exits(w)
  <2>1. Over(g) \in Group /\ RunSound(Over(g))
    BY <1>0, <1>7 DEF Group, RunSound, Over, Exits, In
  <2> QED
    BY <1>0, <1>7, <2>1, GroupMoves DEF Exits
<1>8. CASE Capped(w)
  BY <1>0, <1>5, <1>8, GroupMoves DEF Capped
<1> QED
  BY <1>1, <1>2, <1>3, <1>4, <1>6, <1>7, <1>8

LEMMA StartGroups ==
  ASSUME GroupsInv, NEW w \in Worker, NEW kind \in {"download", "inspect"}, Start(w, kind)
  PROVE  GroupsInv' /\ Lives(group'[w]) /\ \A v \in Worker \ {w} : group'[v] = group[v]
<1> DEFINE g == [NoGroup EXCEPT !.kind = kind, !.pc = "run", !.leader = "alive"]
<1>1. g \in Group /\ RunSound(g) /\ Lives(g)
  BY DEF Group, NoGroup, RunSound, Lives
<1>2. Set(w, g) /\ orphan' \in BOOLEAN
  BY DEF Start, GroupsInv
<1> HIDE DEF g
<1> QED
  BY <1>1, <1>2, GroupMoves

\* A slot forgets its group.
LEMMA ForgetGroups ==
  ASSUME GroupsInv, NEW w \in Worker, NEW g \in Group, Forget(w, g)
  PROVE  GroupsInv' /\ \A v \in Worker \ {w} : group'[v] = group[v]
<1>1. NoGroup \in Group /\ RunSound(NoGroup)
  BY DEF Group, NoGroup, RunSound
<1>2. Set(w, NoGroup) /\ orphan' \in BOOLEAN
  BY DEF Forget, Lives, Group, GroupsInv
<1> QED
  BY <1>1, <1>2, GroupMoves

(***************************************************************************)
(* Connections.                                                            *)
(***************************************************************************)

\* What a coroutine of the proxy does: nobody takes a slot that is not free.
LEMMA ConnMoves ==
  ASSUME ConnTyped, ClientsLive, NEW c \in Conn, NEW v \in Connection, Becomes(c, v),
         UNCHANGED group,
         v.client \in {NoClient, conn[c].client} \/ \A w \in Worker : v.client = w => Lives(group[w]),
         \/ v.pc \in {"serves", "pipes"} => c \in Holders
         \/ Cardinality(Holders) < MaxConnections
  PROVE  ConnTyped' /\ ClientsLive'
<1>1. /\ conn' \in [Conn -> Connection] /\ conn'[c] = v
      /\ \A d \in Conn \ {c} : conn'[d] = conn[d]
  BY DEF ConnTyped, Becomes
<1>2. /\ IsFiniteSet(Holders) /\ Cardinality(Holders) \in Nat
  BY FS_Subset, FS_CardinalityType, Holders \subseteq Conn DEF Holders
<1>3. Cardinality(Holders') <= MaxConnections
  <2>1. CASE v.pc \in {"serves", "pipes"} => c \in Holders
    <3>1. Holders' \subseteq Holders
      BY <1>1, <2>1 DEF Holders
    <3>2. Cardinality(Holders') <= Cardinality(Holders) /\ IsFiniteSet(Holders')
      BY <1>2, <3>1, FS_Subset
    <3> QED
      BY <1>2, <3>2, FS_CardinalityType DEF ConnTyped
  <2>2. CASE Cardinality(Holders) < MaxConnections
    <3>1. Holders' \subseteq Holders \cup {c}
      BY <1>1 DEF Holders
    <3>2. /\ IsFiniteSet(Holders \cup {c})
          /\ Cardinality(Holders \cup {c}) \in {Cardinality(Holders), Cardinality(Holders) + 1}
      BY <1>2, FS_AddElement
    <3>3. IsFiniteSet(Holders') /\ Cardinality(Holders') <= Cardinality(Holders \cup {c})
      BY <3>1, <3>2, FS_Subset
    <3> QED
      BY <1>2, <2>2, <3>2, <3>3, FS_CardinalityType
  <2> QED
    BY <2>1, <2>2
<1>4. ClientsLive'
  <2> SUFFICES ASSUME NEW d \in Conn, NEW w \in Worker, conn'[d].client = w
               PROVE  Lives(group'[w])
    BY DEF ClientsLive
  <2>1. CASE d = c
    <3>1. v.client # NoClient
      BY <1>1, <2>1
    <3>2. Lives(group[w])
      BY <1>1, <2>1, <3>1 DEF ClientsLive
    <3> QED
      BY <3>2
  <2>2. CASE d # c
    BY <1>1, <2>2 DEF ClientsLive
  <2> QED
    BY <2>1, <2>2
<1> QED
  BY <1>1, <1>3, <1>4 DEF ConnTyped

LEMMA ProxyStepConn ==
  ASSUME ConnTyped, ClientsLive, NEW c \in Conn, ProxyStep(c), UNCHANGED group
  PROVE  ConnTyped' /\ ClientsLive'
<1> DEFINE k == conn[c]
<1>0. k \in Connection
  BY DEF ConnTyped
<1>1. Free \in Connection /\ Free.client = NoClient /\ Free.pc = "free"
  BY DEF Free, Connection, Up, Down
<1>2. CASE Acquire(c)
  <2>1. [k EXCEPT !.pc = "serves"] \in Connection /\ [k EXCEPT !.pc = "serves"].client = k.client
    BY <1>0 DEF Connection
  <2> QED
    BY <1>2, <2>1, ConnMoves DEF Acquire
<1>3. CASE Declined(c) \/ TunnelEnds(c) \/ Deadline(c)
  BY <1>1, <1>3, ConnMoves DEF Declined, TunnelEnds, Deadline, Freed
<1>4. CASE Opened(c)
  <2> DEFINE v == [k EXCEPT !.pc = "pipes", !.up = "reads", !.down = "flows"]
  <2>1. v \in Connection /\ v.client = k.client
    BY <1>0 DEF Connection, Up, Down
  <2>2. Becomes(c, v) /\ c \in Holders
    BY <1>4 DEF Opened, Holders
  <2> HIDE DEF v
  <2> QED
    BY <2>1, <2>2, ConnMoves
<1>5. ASSUME NEW u \in Up, Becomes(c, [k EXCEPT !.up = u])
      PROVE  ConnTyped' /\ ClientsLive'
  <2>1. /\ [k EXCEPT !.up = u] \in Connection /\ [k EXCEPT !.up = u].client = k.client
        /\ [k EXCEPT !.up = u].pc = k.pc
    BY <1>0 DEF Connection
  <2> QED
    BY <1>5, <2>1, ConnMoves DEF Holders
<1>6. CASE Becomes(c, [k EXCEPT !.down = "ended"])
  <2>1. /\ [k EXCEPT !.down = "ended"] \in Connection
        /\ [k EXCEPT !.down = "ended"].client = k.client
        /\ [k EXCEPT !.down = "ended"].pc = k.pc
    BY <1>0 DEF Connection, Down
  <2> QED
    BY <1>6, <2>1, ConnMoves DEF Holders
<1>7. CASE Backpressure(c) \/ UpHears(c)
  BY <1>5, <1>7 DEF Backpressure, UpHears, Up
<1>8. CASE Breaks(c) \/ DownHears(c)
  BY <1>5, <1>6, <1>8 DEF Breaks, DownHears, Up
<1> QED
  BY <1>2, <1>3, <1>4, <1>7, <1>8 DEF ProxyStep

\* Only a process that lives has connections to open and to close.
LEMMA UsesNetworkConn ==
  ASSUME ConnTyped, ClientsLive, NEW c \in Conn, NEW p \in Process, UsesNetwork(c, p)
  PROVE  ConnTyped' /\ ClientsLive'
<1>0. conn[c] \in Connection /\ UNCHANGED group
  BY DEF ConnTyped, UsesNetwork, rvars
<1>1. CASE Connect(c, p)
  <2> DEFINE v == [Free EXCEPT !.pc = "waits", !.client = p]
  <2>1. v \in Connection /\ v.client = p /\ v.pc = "waits"
    BY DEF Free, Connection, Up, Down
  <2>2. Becomes(c, v) /\ \A w \in Worker : p = w => Lives(group[w])
    BY <1>1 DEF Connect, UsesNetwork, FetchAssumption
  <2> HIDE DEF v
  <2> QED
    BY <1>0, <2>1, <2>2, ConnMoves
<1>2. CASE Closes(c, p)
  <2> DEFINE v == [conn[c] EXCEPT !.client = NoClient]
  <2>1. v \in Connection /\ v.client = NoClient /\ v.pc = conn[c].pc
    BY <1>0 DEF Connection
  <2>2. Becomes(c, v) /\ (v.pc \in {"serves", "pipes"} => c \in Holders)
    BY <1>2, <2>1 DEF Closes, Holders
  <2> HIDE DEF v
  <2> QED
    BY <1>0, <2>1, <2>2, ConnMoves
<1> QED
  BY <1>1, <1>2 DEF UsesNetwork

\* Connections are handed over or hung up, and no slot of the proxy changes.
LEMMA HangUpConn ==
  ASSUME ConnTyped, NEW w \in Process, NEW lives \in BOOLEAN, NEW p \in Process,
         HangUp(w, lives, p)
  PROVE  /\ ConnTyped'
         /\ \A c \in Conn :
              conn'[c].client = IF conn[c].client # w THEN conn[c].client
                                ELSE IF lives THEN p ELSE NoClient
<1> DEFINE heir == IF lives THEN p ELSE NoClient
           new(c) == IF conn[c].client # w THEN conn[c] ELSE [conn[c] EXCEPT !.client = heir]
<1>1. ASSUME NEW c \in Conn
      PROVE  /\ new(c) \in Connection /\ new(c).pc = conn[c].pc
             /\ new(c).client = IF conn[c].client # w THEN conn[c].client ELSE heir
  <2>1. conn[c] \in Connection /\ heir \in Process \cup {NoClient}
    BY DEF ConnTyped
  <2> HIDE DEF heir
  <2> QED
    BY <2>1 DEF Connection
<1>2. conn' = [c \in Conn |-> new(c)]
  BY DEF HangUp
<1> HIDE DEF new
<1>3. conn' \in [Conn -> Connection] /\ \A c \in Conn : conn'[c].pc = conn[c].pc
  BY <1>1, <1>2
<1>4. Holders' = Holders
  BY <1>3 DEF Holders
<1> QED
  BY <1>1, <1>2, <1>3, <1>4 DEF ConnTyped

\* Whoever lives on has its connections; nobody else has.
LEMMA HangUpClients ==
  ASSUME ConnTyped, ClientsLive, NEW w \in Worker, NEW lives \in BOOLEAN,
         NEW p \in {w, Orphan}, HangUp(w, lives, p),
         \A v \in Worker \ {w} : group'[v] = group[v],
         lives /\ p = w => Lives(group'[w])
  PROVE  ConnTyped' /\ ClientsLive'
<1>1. w \in Process /\ p \in Process /\ \A v \in Worker : v # NoClient /\ v # Orphan
  BY DEF FetchAssumption, ProxyAssumption
<1>2. /\ ConnTyped'
      /\ \A c \in Conn :
           conn'[c].client = IF conn[c].client # w THEN conn[c].client
                             ELSE IF lives THEN p ELSE NoClient
  BY <1>1, HangUpConn
<1>3. ASSUME NEW c \in Conn, NEW v \in Worker, conn'[c].client = v PROVE Lives(group'[v])
  <2>1. CASE conn[c].client # w
    <3>1. conn[c].client = v /\ v # w
      BY <1>2, <1>3, <2>1
    <3>2. Lives(group[v]) /\ group'[v] = group[v]
      BY <3>1 DEF ClientsLive
    <3> QED
      BY <3>2
  <2>2. CASE conn[c].client = w
    <3>1. lives /\ p = w /\ v = w
      BY <1>1, <1>2, <1>3, <2>2
    <3> QED
      BY <3>1
  <2> QED
    BY <2>1, <2>2
<1> QED
  BY <1>2, <1>3 DEF ClientsLive

(***************************************************************************)
(* The theorems.                                                           *)
(***************************************************************************)

LEMMA FInvInit == FInit => FInv
<1> SUFFICES ASSUME FInit PROVE FInv
  OBVIOUS
<1>1. RowsInv
  BY DEF FInit, InspInit, InspRow, NoInspRow, RowsInv, OneExecutor, InspectionsAssumption
<1>2. GroupsInv
  BY DEF FInit, RunnerInit, GroupsInv, Group, NoGroup, RunSound
<1>3. ClientsLive
  BY DEF FInit, ProxyInit, Free, ClientsLive, FetchAssumption, ProxyAssumption
<1>4. Free \in Connection /\ Free.pc = "free"
  BY DEF Free, Connection, Up, Down
<1>5. conn \in [Conn -> Connection] /\ Holders = {}
  BY <1>4 DEF FInit, ProxyInit, Holders
<1>6. ConnTyped
  BY <1>5, FS_EmptySet DEF ConnTyped, ProxyAssumption
<1> QED
  BY <1>1, <1>2, <1>3, <1>6 DEF FInv

LEMMA SlotStepInv ==
  ASSUME FInv, NEW w \in Worker, SlotStep(w)
  PROVE  FInv'
<1>0. RowsInv /\ GroupsInv /\ ConnTyped /\ ClientsLive
  BY DEF FInv
<1>00. group[w] \in Group
  BY <1>0 DEF GroupsInv
<1>1. ASSUME NEW i \in Insp, ClaimInspection(w, i) PROVE FInv'
  <2>1. UNCHANGED <<group, orphan, conn>>
    BY <1>1 DEF ClaimInspection, rvars
  <2> QED
    BY <1>0, <1>1, <2>1, ClaimRows
    DEF FInv, GroupsInv, ConnTyped, ClientsLive, Holders
<1>2. ASSUME NEW kind \in {"download", "inspect"}, Start(w, kind),
             UNCHANGED <<ivars, conn, inspects>>
      PROVE  FInv'
  <2>1. GroupsInv' /\ Lives(group'[w]) /\ \A v \in Worker \ {w} : group'[v] = group[v]
    BY <1>0, <1>2, StartGroups
  <2>2. RowsInv'
    BY <1>0, <1>2 DEF RowsInv, OneExecutor, ivars
  <2>3. ConnTyped'
    BY <1>0, <1>2 DEF ConnTyped, Holders
  <2>4. ASSUME NEW c \in Conn, NEW v \in Worker, conn'[c].client = v PROVE Lives(group'[v])
    <3>1. Lives(group[v])
      BY <1>0, <1>2, <2>4 DEF ClientsLive
    <3> QED
      BY <2>1, <3>1
  <2> QED
    BY <2>1, <2>2, <2>3, <2>4 DEF FInv, ClientsLive
<1>3. CASE FinishInspection(w)
  <2> DEFINE i == inspects[w]
  <2>1. i \in Insp /\ insp[i] \in InspRow /\ insp[i].status = "running"
    BY <1>0, <1>3 DEF RowsInv, FinishInspection
  <2>2. [insp[i] EXCEPT !.status = "done"] \in InspRow /\ [insp[i] EXCEPT !.status = "done"].status = "done"
    BY <2>1 DEF InspRow
  <2>3. box' = box /\ api' = api /\ inspects' = inspects /\ UNCHANGED <<group, orphan, conn>>
    BY <1>3 DEF FinishInspection, Finish, rvars
  <2>4. Update(i, [insp[i] EXCEPT !.status = "done"])
    BY <1>3 DEF FinishInspection, Finish
  <2>5. box' \in [Insp -> 0..MaxMessages] /\ api' \in SUBSET Insp
    BY <1>0, <2>3 DEF RowsInv
  <2>6. RowsInv'
    BY <1>0, <2>1, <2>2, <2>3, <2>4, <2>5, RowChanges
  <2> QED
    BY <1>0, <2>3, <2>6 DEF FInv, GroupsInv, ConnTyped, ClientsLive, Holders
<1>4. CASE RunStep(w)
  <2>1. GroupsInv' /\ \A v \in Worker \ {w} : group'[v] = group[v]
    BY <1>0, <1>4, RunStepGroups DEF RunStep
  <2>2. RowsInv'
    BY <1>0, <1>4 DEF RowsInv, OneExecutor, ivars, RunStep
  <2>3. Lives(group'[w]) \in BOOLEAN
    BY <2>1 DEF GroupsInv, Group, Lives
  <2>4. PICK lives \in BOOLEAN : lives <=> Lives(group'[w])
    BY <2>3
  <2>5. HangUp(w, lives, w)
    BY <1>4, <2>4 DEF RunStep, HangUp
  <2>6. ConnTyped' /\ ClientsLive'
    BY <1>0, <2>1, <2>4, <2>5, HangUpClients
  <2> QED
    BY <2>1, <2>2, <2>6 DEF FInv
<1>5. ASSUME NEW g \in Group, NEW lives \in BOOLEAN, HangUp(w, lives, Orphan),
             Forget(w, g) \/ (UNCHANGED rvars)
      PROVE  GroupsInv' /\ ConnTyped' /\ ClientsLive'
  <2>1. GroupsInv' /\ \A v \in Worker \ {w} : group'[v] = group[v]
    <3>1. CASE Forget(w, g)
      BY <1>0, <3>1, ForgetGroups
    <3>2. CASE UNCHANGED rvars
      BY <1>0, <3>2 DEF rvars, GroupsInv
    <3> QED
      BY <1>5, <3>1, <3>2
  <2> QED
    BY <1>0, <1>5, <2>1, HangUpClients, Orphan # w DEF FetchAssumption
<1>6. CASE TaskReturns(w)
  <2>1. Lives(group[w]) \in BOOLEAN
    BY <1>00 DEF Group, Lives
  <2>2. HangUp(w, Lives(group[w]), Orphan) /\ (Forget(w, group[w]) \/ UNCHANGED rvars)
    BY <1>6 DEF TaskReturns, RunReturns
  <2>3. GroupsInv' /\ ConnTyped' /\ ClientsLive'
    BY <1>00, <1>5, <2>1, <2>2
  <2>4. /\ inspects' = [inspects EXCEPT ![w] = NoInsp] /\ insp' = insp /\ api' = api
        /\ box' \in [Insp -> 0..MaxMessages]
    BY <1>0, <1>6 DEF TaskReturns, ivars, RowsInv
  <2>5. RowsInv'
    BY <1>0, <2>4, SlotFreed
  <2> QED
    BY <2>3, <2>5 DEF FInv
<1>7. CASE Dies(w)
  <2>1. Widowed(group[w]) \in Group
    BY <1>00 DEF Widowed, Group
  <2>2. Lives(Widowed(group[w])) \in BOOLEAN
    BY <2>1 DEF Group, Lives
  <2>3. HangUp(w, Lives(Widowed(group[w])), Orphan) /\ Forget(w, Widowed(group[w]))
    BY <1>7 DEF Dies, WorkerDies
  <2>4. GroupsInv' /\ ConnTyped' /\ ClientsLive'
    BY <1>5, <2>1, <2>2, <2>3
  <2>5. inspects' = [inspects EXCEPT ![w] = NoInsp] /\ insp' = insp /\ api' = api
    BY <1>7 DEF Dies
  <2>6. box' \in [Insp -> 0..MaxMessages]
    <3>1. CASE UNCHANGED box
      BY <1>0, <3>1 DEF RowsInv
    <3>2. CASE inspects[w] # NoInsp /\ Send(inspects[w])
      <4>1. inspects[w] \in Insp
        BY <1>0, <3>2 DEF RowsInv
      <4> QED
        BY <1>0, <3>2, <4>1, SendTyped
    <3> QED
      BY <1>7, <3>1, <3>2 DEF Dies, Reject
  <2>7. RowsInv'
    BY <1>0, <2>5, <2>6, SlotFreed
  <2> QED
    BY <2>4, <2>7 DEF FInv
<1> QED
  BY <1>1, <1>2, <1>3, <1>4, <1>6, <1>7 DEF SlotStep, StartInspection, StartDownload

LEMMA FInvStep == FInv /\ [FNext]_fvars => FInv'
<1> SUFFICES ASSUME FInv, [FNext]_fvars PROVE FInv'
  OBVIOUS
<1>0. RowsInv /\ GroupsInv /\ ConnTyped /\ ClientsLive
  BY DEF FInv
<1>1. ASSUME NEW w \in Worker, SlotStep(w) PROVE FInv'
  BY <1>1, SlotStepInv
<1>2. ASSUME RowsInv', UNCHANGED <<rvars, conn>> PROVE FInv'
  BY <1>0, <1>2 DEF FInv, rvars, GroupsInv, ConnTyped, ClientsLive, Holders
<1>3. ASSUME NEW i \in Insp, InspStep(i), UNCHANGED <<rvars, conn, inspects>> PROVE FInv'
  BY <1>0, <1>2, <1>3, InspStepRows
<1>4. ASSUME NEW i \in Insp, Cleanup(i) PROVE FInv'
  <2>1. NoInspRow \in InspRow
    BY DEF NoInspRow, InspRow
  <2>2. /\ Update(i, NoInspRow) /\ box' = box /\ api' = api
        /\ inspects' = inspects /\ UNCHANGED <<rvars, conn>>
        /\ \A w \in Worker : inspects[w] # i
    BY <1>4 DEF Cleanup, cleanup_records
  <2>3. RowsInv'
    BY <1>0, <2>1, <2>2, RowChanges DEF RowsInv
  <2> QED
    BY <1>2, <2>2, <2>3
<1>5. CASE LoseMessages /\ UNCHANGED <<rvars, conn, inspects>>
  <2>1. box' \in [Insp -> 0..MaxMessages] /\ insp' = insp /\ api' = api /\ inspects' = inspects
    BY <1>5 DEF LoseMessages, InspectionsAssumption
  <2>2. RowsInv'
    BY <1>0, <2>1, RowsRest DEF RowsInv
  <2> QED
    BY <1>2, <1>5, <2>2
<1>6. CASE OrphansEndAndHangUp
  <2>1. HangUp(Orphan, FALSE, Orphan) /\ group' = group /\ orphan' = FALSE
        /\ UNCHANGED <<ivars, inspects>>
    BY <1>6 DEF OrphansEndAndHangUp, OrphansEnd
  <2>2. /\ ConnTyped'
        /\ \A c \in Conn : conn'[c].client = IF conn[c].client # Orphan THEN conn[c].client
                                             ELSE IF FALSE THEN Orphan ELSE NoClient
    <3>1. Orphan \in Process /\ FALSE \in BOOLEAN
      BY DEF FetchAssumption
    <3> QED
      BY <1>0, <2>1, <3>1, HangUpConn
  <2>3. ClientsLive'
    <3> SUFFICES ASSUME NEW c \in Conn, NEW w \in Worker, conn'[c].client = w
                 PROVE  Lives(group'[w])
      BY DEF ClientsLive
    <3>1. conn[c].client = w
      BY <2>2 DEF FetchAssumption, ProxyAssumption
    <3> QED
      BY <1>0, <2>1, <3>1 DEF ClientsLive
  <2>4. RowsInv' /\ GroupsInv'
    BY <1>0, <2>1 DEF RowsInv, GroupsInv, OneExecutor, ivars
  <2> QED
    BY <2>2, <2>3, <2>4 DEF FInv
<1>7. ASSUME ConnTyped', ClientsLive', UNCHANGED <<ivars, rvars, inspects>> PROVE FInv'
  BY <1>0, <1>7 DEF FInv, RowsInv, GroupsInv, OneExecutor, ivars, rvars
<1>8. ASSUME NEW c \in Conn, ProxyStep(c), UNCHANGED <<ivars, rvars, inspects>> PROVE FInv'
  <2>1. UNCHANGED group
    BY <1>8 DEF rvars
  <2> QED
    BY <1>0, <1>7, <1>8, <2>1, ProxyStepConn
<1>9. ASSUME NEW c \in Conn, NEW p \in Process, UsesNetwork(c, p) PROVE FInv'
  BY <1>0, <1>7, <1>9, UsesNetworkConn DEF UsesNetwork
<1>10. CASE UNCHANGED fvars
  BY <1>0, <1>10
  DEF fvars, ivars, rvars, FInv, RowsInv, GroupsInv, ConnTyped, ClientsLive, OneExecutor, Holders
<1> QED
  BY <1>1, <1>3, <1>4, <1>5, <1>6, <1>8, <1>9, <1>10 DEF FNext, RowStep

LEMMA FInvAlways == FSpec => []FInv
BY FInvInit, FInvStep, PTL DEF FSpec

\* The proxy never serves more tunnels than its semaphore has slots, and no
\* connection seems to be held open by a group that is dead: whichever way a
\* group ends, what was its own is hung up or left to who lives on.
THEOREM SlotsOfTheProxy == FSpec => []FetchTypeOK
<1>1. FInv => FetchTypeOK
  BY DEF FInv, RowsInv, GroupsInv, ConnTyped, ClientsLive, FetchTypeOK
<1> QED
  BY <1>1, FInvAlways, PTL

\* An inspection is executed by one slot at a time, however many messages for
\* it the request, the reconciler and dying workers have sent.
THEOREM InspectedOnce == FSpec => []OneExecutor
<1>1. FInv => OneExecutor
  BY DEF FInv, RowsInv
<1> QED
  BY <1>1, FInvAlways, PTL

\* A run that was ended, and any inspection, leaves no process behind when
\* its slot goes on.
THEOREM GroupsAreKilled == FSpec => []NothingLeftAfterStop
<1>1. FInv => NothingLeftAfterStop
  BY DEF FInv, GroupsInv, RunSound, Group, Lives, NothingLeftAfterStop
<1> QED
  BY <1>1, FInvAlways, PTL
=============================================================================
