------------------------------ MODULE Sessions ------------------------------
(***************************************************************************)
(* Login sessions: the refresh tokens of the server (api/auth.py and       *)
(* api/deps.py) and the clients that rotate them (lib/session.ts and       *)
(* lib/api.ts).                                                            *)
(*                                                                         *)
(* The database runs READ COMMITTED.  A transaction that changes tokens is *)
(* three steps: what it reads, the row locks it waits for, its commit.  An *)
(* UPDATE of a family locks the rows its snapshot had, one at a time, so a *)
(* token inserted meanwhile escapes it.                                    *)
(*                                                                         *)
(* jar holds the credentials the tabs of a browser share (cookies), or     *)
(* those of the one native client (keystore and memory).  Every tab has at *)
(* most one refresh and one logout under way.  A client that lost a call   *)
(* notices after the server has dealt with it.                             *)
(***************************************************************************)
EXTENDS Integers, Sequences, FiniteSets

CONSTANTS
  Tab,
  MainTab,         \* the only client in the native application
  Client,          \* the kinds of client to consider
  MaxTokens,       \* bound: refresh tokens ever issued
  MaxFamilies,     \* bound: logins
  MaxLosses        \* bound: calls that end in a network failure

ASSUME SessionsAssumption ==
  /\ MainTab \in Tab
  /\ Client \subseteq {"web", "nolocks", "native"}
  /\ MaxTokens \in Nat \ {0}
  /\ MaxFamilies \in Nat \ {0}
  /\ MaxLosses \in Nat

VARIABLES
  client,    \* the kind of client; "nolocks" is a browser without Web Locks
  row,       \* row[t]: refresh token t, in the order of insertion
  call,      \* call[c]: the refresh or logout c of a tab
  jar,       \* the refresh token and the family of the access token held
  tab,       \* tab[b]: the SessionState that b shows
  resend,    \* tabs that repeat a request after a refresh
  losses,    \* calls lost so far
  faults     \* what has happened that may end a session

vars == <<client, row, call, jar, tab, resend, losses, faults>>

Token == 1..MaxTokens
NoToken == 0
Calls == Tab \X {"refresh", "logout"}
refreshing(b) == <<b, "refresh">>
logging(b) == <<b, "logout">>
Tabs == IF client = "native" THEN {MainTab} ELSE Tab

TokenRow ==
  [ family : 1..MaxFamilies,
    used   : {"no", "grace", "old"},  \* used_at, by refresh_reuse_grace_seconds
    valid  : BOOLEAN ]                \* not revoked and not expired

Call ==
  [ pc    : {"idle", "queued", "ready", "sent", "rotate", "revoke", "answer"},
    token : Token \cup {NoToken},     \* presented; in an "ok" answer the new one
    again : BOOLEAN,                  \* second attempt of doRefresh
    boot  : BOOLEAN,                  \* called by bootstrap
    snap  : SUBSET Token,             \* rows the UPDATE of the family found
    held  : SUBSET Token,             \* rows locked by the transaction
    raced : BOOLEAN,                  \* a rotation overlapped that UPDATE
    reply : {"none", "ok", "invalid", "conflict", "reuse", "error"} ]

NoCall ==
  [ pc |-> "idle", token |-> NoToken, again |-> FALSE, boot |-> FALSE,
    snap |-> {}, held |-> {}, raced |-> FALSE, reply |-> "none" ]

Fresh(f) == [family |-> f, used |-> "no", valid |-> TRUE]

Init ==
  /\ client \in Client
  /\ row = <<Fresh(1)>>
  /\ call = [c \in Calls |-> NoCall]
  /\ jar = [refresh |-> 1, access |-> 1]
  /\ tab = [b \in Tab |-> "loading"]
  /\ resend = {}
  /\ losses = 0
  /\ faults = {}

\* History: trouble at launch counts until something graver has happened.
Blame(fault) == faults' = (faults \ {"trouble"}) \cup {fault}

-----------------------------------------------------------------------------
(* The server.                                                             *)

Tokens(f) == {t \in DOMAIN row : row[t].family = f}

\* authenticate accepts the access tokens of f.
Live(f) == \E t \in Tokens(f) : row[t].valid

Families == {row[t].family : t \in DOMAIN row}

LockedByOther(c, t) == \E d \in Calls \ {c} : t \in call[d].held

Rotating(f) ==
  \E c \in Calls : call[c].pc = "rotate" /\ row[call[c].token].family = f

Answer(c, reply) ==
  call' = [call EXCEPT ![c] = [@ EXCEPT
             !.pc = "answer", !.reply = reply, !.snap = {}, !.held = {}, !.raced = FALSE]]

\* UPDATE refresh_tokens SET revoked_at .. WHERE family_id = .. AND revoked_at
\* IS NULL: the snapshot is taken, the rows are locked by LockRow.
StartRevoking(c, held) ==
  LET f == row[call[c].token].family IN
  call' = [call EXCEPT ![c] = [@ EXCEPT
             !.pc = "revoke", !.held = held, !.raced = Rotating(f),
             !.snap = {t \in Tokens(f) : row[t].valid}]]

\* The token is selected without FOR UPDATE.
Selected_mutant(b) == call[refreshing(b)].pc = "sent"

\* The presented token of a refresh that reached the server is selected FOR
\* UPDATE, which waits for the lock on its row.
Selected(b) ==
  /\ call[refreshing(b)].pc = "sent"
  /\ ~LockedByOther(refreshing(b), call[refreshing(b)].token)

refresh_rejected(b) ==
  LET t == call[refreshing(b)].token IN
  /\ Selected(b)
  /\ t # NoToken => ~row[t].valid
  /\ Answer(refreshing(b), "invalid")
  /\ UNCHANGED <<client, row, jar, tab, resend, losses, faults>>

refresh_conflict(b) ==
  LET t == call[refreshing(b)].token IN
  /\ Selected(b)
  /\ t # NoToken /\ row[t].valid /\ row[t].used = "grace"
  /\ Answer(refreshing(b), "conflict")
  /\ UNCHANGED <<client, row, jar, tab, resend, losses, faults>>

refresh_reuse(b) ==
  LET t == call[refreshing(b)].token IN
  /\ Selected(b)
  /\ t # NoToken /\ row[t].valid /\ row[t].used = "old"
  /\ StartRevoking(refreshing(b), {t})
  /\ Blame("reuse")
  /\ UNCHANGED <<client, row, jar, tab, resend, losses>>

\* The revoking updates of the family that are under way are raced by it.
refresh_rotate(b) ==
  LET t == call[refreshing(b)].token
      overlapped(c) == call[c].pc = "revoke" /\ row[call[c].token].family = row[t].family
  IN
  /\ Selected(b)
  /\ t # NoToken /\ row[t].valid /\ row[t].used = "no"
  /\ call' = [c \in Calls |->
       IF c = refreshing(b) THEN [call[c] EXCEPT !.pc = "rotate", !.held = {t}]
       ELSE [call[c] EXCEPT !.raced = @ \/ overlapped(c)]]
  /\ UNCHANGED <<client, row, jar, tab, resend, losses, faults>>

\* used_at is set, _issue_tokens inserts the successor, commit.
rotate_commit(b) ==
  LET c == refreshing(b)
      t == call[c].token
  IN
  /\ call[c].pc = "rotate"
  /\ row' = Append([row EXCEPT ![t].used = "grace"], Fresh(row[t].family))
  /\ call' = [call EXCEPT ![c] = [@ EXCEPT
                !.pc = "answer", !.reply = "ok", !.token = Len(row) + 1, !.held = {}]]
  /\ UNCHANGED <<client, jar, tab, resend, losses, faults>>

\* logout selects the row without a lock; a request without a known token
\* only clears the cookies.
logout_lookup(b) ==
  LET c == logging(b) IN
  /\ call[c].pc = "sent"
  /\ IF call[c].token = NoToken THEN Answer(c, "ok") ELSE StartRevoking(c, {})
  /\ UNCHANGED <<client, row, jar, tab, resend, losses, faults>>

\* Both kinds of update scan a family in the same order.
NextRow(c, t) ==
  /\ call[c].pc = "revoke"
  /\ t \in call[c].snap \ call[c].held
  /\ \A u \in call[c].snap \ call[c].held : t <= u

LockRow(c, t) ==
  /\ NextRow(c, t)
  /\ ~LockedByOther(c, t)
  /\ call' = [call EXCEPT ![c].held = @ \cup {t}]
  /\ UNCHANGED <<client, row, jar, tab, resend, losses, faults>>

\* Only the presented token is revoked.
revoke_commit_mutant(c) ==
  /\ call[c].pc = "revoke"
  /\ call[c].snap \subseteq call[c].held
  /\ row' = [row EXCEPT ![call[c].token].valid = FALSE]
  /\ Answer(c, IF c[2] = "refresh" THEN "reuse" ELSE "ok")
  /\ UNCHANGED <<client, jar, tab, resend, losses, faults>>

revoke_commit(c) ==
  /\ call[c].pc = "revoke"
  /\ call[c].snap \subseteq call[c].held
  /\ row' = [t \in DOMAIN row |-> IF t \in call[c].snap THEN [row[t] EXCEPT !.valid = FALSE]
                                  ELSE row[t]]
  /\ Answer(c, IF c[2] = "refresh" THEN "reuse" ELSE "ok")
  /\ UNCHANGED <<client, jar, tab, resend, losses, faults>>

Waits(c, d) == \E t \in call[d].held : NextRow(c, t)

\* The database ends a deadlock by failing one of the transactions.
deadlock_victim(c) ==
  /\ \E d \in Calls \ {c} : Waits(c, d) /\ Waits(d, c)
  /\ Answer(c, "error")
  /\ UNCHANGED <<client, row, jar, tab, resend, losses, faults>>

\* The rate limit (429) or a failure (5xx) answers before a row is read.
server_trouble(c) ==
  /\ call[c].pc = "sent"
  /\ Answer(c, "error")
  /\ UNCHANGED <<client, row, jar, tab, resend, losses, faults>>

-----------------------------------------------------------------------------
(* The client.                                                             *)

\* Bound: every refresh under way may insert a token, but one that presents a
\* used token inserts none.
UnderWay == {b \in Tab : call[refreshing(b)].pc # "idle"}
Room == Len(row) + Cardinality(UnderWay) < MaxTokens
Spent == jar.refresh # NoToken /\ row[jar.refresh].used # "no"

LockFree == \A b \in Tab : call[refreshing(b)].pc \in {"idle", "queued"}

\* refresh(): single-flight within the tab.
Refresh(b, boot) ==
  /\ call[refreshing(b)].pc = "idle"
  /\ ~Room => Spent /\ UnderWay = {}
  /\ call' = [call EXCEPT ![refreshing(b)] = [NoCall EXCEPT !.pc = "queued", !.boot = boot]]

\* expire(): in the native application the stored token goes as well.
Expire(b) ==
  /\ tab' = [tab EXCEPT ![b] = "signed-out"]
  /\ jar' = IF client = "native" THEN [refresh |-> NoToken, access |-> 0] ELSE jar

\* GET /api/auth/me: 401 asks for a refresh, whatever else is not OK signs
\* out, and without an answer the session stays unknown.
bootstrap_web(b) ==
  \/ /\ jar.access # 0 /\ Live(jar.access)
     /\ tab' = [tab EXCEPT ![b] = "signed-in"]
     /\ UNCHANGED <<call, faults>>
  \/ /\ jar.access # 0 => ~Live(jar.access)
     /\ tab' = [tab EXCEPT ![b] = "loading"]
     /\ Refresh(b, TRUE)
     /\ UNCHANGED faults
  \/ /\ tab' = [tab EXCEPT ![b] = "signed-out"]
     /\ faults' = IF faults = {} THEN {"trouble"} ELSE faults
     /\ UNCHANGED call
  \/ /\ tab' = [tab EXCEPT ![b] = "unreachable"]
     /\ UNCHANGED <<call, faults>>

\* Every reload of the page starts here; what was under way has ended.
bootstrap(b) ==
  /\ call[refreshing(b)].pc = "idle" /\ call[logging(b)].pc = "idle"
  /\ tab[b] \in {"loading", "unreachable", "signed-out"}
  /\ \/ /\ client = "native" /\ jar.refresh = NoToken
        /\ tab' = [tab EXCEPT ![b] = "signed-out"]
        /\ UNCHANGED <<call, faults>>
     \/ /\ client = "native" /\ jar.refresh # NoToken
        /\ tab' = [tab EXCEPT ![b] = "loading"]
        /\ Refresh(b, TRUE)
        /\ UNCHANGED faults
     \/ client # "native" /\ bootstrap_web(b)
  /\ UNCHANGED <<client, row, jar, resend, losses>>

\* request(): a missing or expired access token asks for a refresh, that of
\* a session that is over (session_revoked) signs the tab out.
request_refused(b) ==
  /\ tab[b] = "signed-in"
  /\ \/ /\ jar.access = 0
        /\ Refresh(b, FALSE)
        /\ UNCHANGED <<tab, jar>>
     \/ /\ jar.access # 0 /\ ~Live(jar.access)
        /\ Expire(b)
        /\ UNCHANGED call
  /\ UNCHANGED <<client, row, resend, losses, faults>>

\* The request is sent once more with the new credentials; whatever 401 it
\* gets now signs the tab out.
request_again(b) ==
  /\ b \in resend
  /\ resend' = resend \ {b}
  /\ IF jar.access # 0 /\ Live(jar.access) THEN UNCHANGED <<tab, jar>> ELSE Expire(b)
  /\ UNCHANGED <<client, row, call, losses, faults>>

\* The other tabs are forgotten: no Web Lock.
doRefreshLocked_mutant(b) ==
  /\ call[refreshing(b)].pc = "queued"
  /\ call' = [call EXCEPT ![refreshing(b)].pc = "ready"]
  /\ UNCHANGED <<client, row, jar, tab, resend, losses, faults>>

\* navigator.locks: one tab of the browser refreshes at a time.
doRefreshLocked(b) ==
  /\ call[refreshing(b)].pc = "queued"
  /\ client = "web" => LockFree
  /\ call' = [call EXCEPT ![refreshing(b)].pc = "ready"]
  /\ UNCHANGED <<client, row, jar, tab, resend, losses, faults>>

\* One round of doRefresh's loop: the token the jar holds now is presented.
doRefresh(b) ==
  /\ call[refreshing(b)].pc = "ready"
  /\ call' = [call EXCEPT ![refreshing(b)] = [@ EXCEPT !.pc = "sent", !.token = jar.refresh]]
  /\ UNCHANGED <<client, row, jar, tab, resend, losses, faults>>

\* The native application keeps the old token in its keystore.
adopt_mutant(b) ==
  LET c == refreshing(b) IN
  /\ call[c].pc = "answer" /\ call[c].reply = "ok"
  /\ jar' = [jar EXCEPT !.access = row[call[c].token].family]
  /\ tab' = [tab EXCEPT ![b] = "signed-in"]
  /\ resend' = IF call[c].boot THEN resend ELSE resend \cup {b}
  /\ call' = [call EXCEPT ![c] = NoCall]
  /\ UNCHANGED <<client, row, losses, faults>>

adopt(b) ==
  LET c == refreshing(b)
      t == call[c].token
  IN
  /\ call[c].pc = "answer" /\ call[c].reply = "ok"
  /\ jar' = [refresh |-> t, access |-> row[t].family]
  /\ tab' = [tab EXCEPT ![b] = "signed-in"]
  /\ resend' = IF call[c].boot THEN resend ELSE resend \cup {b}
  /\ call' = [call EXCEPT ![c] = NoCall]
  /\ UNCHANGED <<client, row, losses, faults>>

\* refresh_conflict is answered by another attempt every time.
refresh_retry_mutant(b) ==
  LET c == refreshing(b) IN
  /\ call[c].pc = "answer" /\ call[c].reply = "conflict"
  /\ call' = [call EXCEPT ![c] = [NoCall EXCEPT !.pc = "ready", !.boot = call[c].boot]]
  /\ UNCHANGED <<client, row, jar, tab, resend, losses, faults>>

\* refresh_conflict: another tab just rotated, try once more.
refresh_retry(b) ==
  LET c == refreshing(b) IN
  /\ call[c].pc = "answer" /\ call[c].reply = "conflict" /\ ~call[c].again
  /\ call' = [call EXCEPT ![c] = [NoCall EXCEPT !.pc = "ready", !.again = TRUE,
                                                !.boot = call[c].boot]]
  /\ UNCHANGED <<client, row, jar, tab, resend, losses, faults>>

\* fail(): the server rejected the session.
fail(b) ==
  LET c == refreshing(b) IN
  /\ call[c].pc = "answer"
  /\ \/ call[c].reply \in {"invalid", "reuse"}
     \/ call[c].reply = "conflict" /\ call[c].again
  /\ Expire(b)
  /\ call' = [call EXCEPT ![c] = NoCall]
  /\ UNCHANGED <<client, row, resend, losses, faults>>

\* NetworkError: the session is kept.
Unreachable(b) ==
  /\ tab' = [tab EXCEPT ![b] = IF call[refreshing(b)].boot THEN "unreachable" ELSE @]
  /\ call' = [call EXCEPT ![refreshing(b)] = NoCall]
  /\ UNCHANGED jar

refresh_error(b) ==
  /\ call[refreshing(b)].pc = "answer" /\ call[refreshing(b)].reply = "error"
  /\ Unreachable(b)
  /\ UNCHANGED <<client, row, resend, losses, faults>>

\* Bound: the user signs out in one tab at a time.
logout(b) ==
  /\ tab[b] = "signed-in"
  /\ \A d \in Tab : call[logging(d)].pc = "idle"
  /\ call' = [call EXCEPT ![logging(b)] = [NoCall EXCEPT !.pc = "sent", !.token = jar.refresh]]
  /\ Blame("ended")
  /\ UNCHANGED <<client, row, jar, tab, resend, losses>>

\* The answer to a logout clears the cookies, whoever has set them.
logout_done(b) ==
  LET c == logging(b) IN
  /\ call[c].pc = "answer"
  /\ tab' = [tab EXCEPT ![b] = "signed-out"]
  /\ jar' = IF client # "native" /\ call[c].reply = "error" THEN jar
            ELSE [refresh |-> NoToken, access |-> 0]
  /\ call' = [call EXCEPT ![c] = NoCall]
  /\ UNCHANGED <<client, row, resend, losses, faults>>

\* The request or its answer is lost: fetch throws.
Lose(c) ==
  /\ losses < MaxLosses
  /\ call[c].pc \in {"sent", "answer"}
  /\ losses' = losses + 1
  /\ Blame("loss")
  /\ IF c[2] = "refresh" THEN Unreachable(c[1])
     ELSE Expire(c[1]) /\ call' = [call EXCEPT ![c] = NoCall]
  /\ UNCHANGED <<client, row, resend>>

\* authenticate(): the user signs in, which starts a family.
login(b) ==
  LET f == Cardinality(Families) + 1 IN
  /\ tab[b] = "signed-out"
  /\ f <= MaxFamilies
  /\ Room
  /\ row' = Append(row, Fresh(f))
  /\ jar' = [refresh |-> Len(row) + 1, access |-> f]
  /\ tab' = [tab EXCEPT ![b] = "signed-in"]
  /\ UNCHANGED <<client, call, resend, losses, faults>>

-----------------------------------------------------------------------------
(* The clock.                                                              *)

\* An access token lives for minutes: it outlives the request that is repeated
\* as soon as it is there.
AccessExpires ==
  /\ jar.access # 0 /\ resend = {}
  /\ jar' = [jar EXCEPT !.access = 0]
  /\ UNCHANGED <<client, row, call, tab, resend, losses, faults>>

GraceEnds(t) ==
  /\ row[t].used = "grace"
  /\ row' = [row EXCEPT ![t].used = "old"]
  /\ UNCHANGED <<client, call, jar, tab, resend, losses, faults>>

\* A family that nobody refreshes for refresh_ttl_seconds is over; calls take
\* seconds, so none is under way then.
FamilyExpires(f) ==
  /\ \A c \in Calls : call[c].pc = "idle"
  /\ Live(f)
  /\ row' = [t \in DOMAIN row |-> [row[t] EXCEPT !.valid = @ /\ row[t].family # f]]
  /\ Blame("ended")
  /\ UNCHANGED <<client, call, jar, tab, resend, losses>>

-----------------------------------------------------------------------------
ServerStep(b) ==
  \/ refresh_rejected(b) \/ refresh_conflict(b) \/ refresh_reuse(b)
  \/ refresh_rotate(b) \/ rotate_commit(b) \/ logout_lookup(b)
  \/ server_trouble(refreshing(b)) \/ server_trouble(logging(b))

RevokeStep(c) ==
  revoke_commit(c) \/ deadlock_victim(c) \/ \E t \in DOMAIN row : LockRow(c, t)

RefreshStep(b) ==
  \/ doRefresh(b) \/ adopt(b) \/ refresh_retry(b) \/ fail(b) \/ refresh_error(b)

ClientStep(b) ==
  \/ doRefreshLocked(b) \/ RefreshStep(b) \/ logout_done(b) \/ request_again(b)

UserStep(b) == bootstrap(b) \/ request_refused(b) \/ logout(b) \/ login(b)

ClockStep ==
  \/ AccessExpires
  \/ \E t \in DOMAIN row : GraceEnds(t)
  \/ \E f \in Families : FamilyExpires(f)

Next ==
  \/ \E b \in Tabs : ServerStep(b) \/ ClientStep(b) \/ UserStep(b)
  \/ \E c \in Calls : RevokeStep(c) \/ Lose(c)
  \/ ClockStep

Spec == Init /\ [][Next]_vars

\* The server deals with every call that reached it and the browser with every
\* answer; Web Locks are granted in the order they were asked for.  Nobody has
\* to start anything new.
Fairness ==
  /\ \A b \in Tab : /\ WF_vars(ServerStep(b))
                    /\ WF_vars(RefreshStep(b))
                    /\ WF_vars(logout_done(b))
                    /\ SF_vars(doRefreshLocked(b))
  /\ \A c \in Calls : WF_vars(RevokeStep(c))

FairSpec == Spec /\ Fairness

-----------------------------------------------------------------------------
(***************************************************************************)
(* Properties.                                                             *)
(***************************************************************************)

SessionsTypeOK ==
  /\ client \in Client
  /\ row \in Seq(TokenRow) /\ Len(row) <= MaxTokens
  /\ call \in [Calls -> Call]
  /\ jar \in [refresh : Token \cup {NoToken}, access : 0..MaxFamilies]
  /\ tab \in [Tab -> {"loading", "signed-in", "signed-out", "unreachable"}]
  /\ resend \subseteq Tab
  /\ \A t \in DOMAIN row : Cardinality({c \in Calls : t \in call[c].held}) <= 1
  /\ losses \in 0..MaxLosses
  /\ faults \subseteq {"reuse", "loss", "ended", "trouble"}

\* A family has one token that was never used, the last: whatever refreshes
\* overlap, no token is rotated twice and the chain never breaks.
OneFresh ==
  \A f \in Families : Cardinality({t \in Tokens(f) : row[t].used = "no"}) = 1

\* A family that has ended never lives again: a rotation that would revive
\* it found the presented token revoked.
DeadStaysDead == [][\A f \in Families : ~Live(f) => ~Live(f)']_vars

\* A logout or a detected reuse ends the whole family, unless a rotation of
\* the family overlapped the revoking update (its new token is in no snapshot).
RevokingEndsFamily ==
  [][ \A c \in Calls :
        /\ call[c].pc = "revoke" /\ ~call[c].raced
        /\ call'[c].pc = "answer" /\ call'[c].reply # "error"
        => ~Live(row[call[c].token].family)' ]_vars

\* In the native application and in browsers with Web Locks, in as many tabs
\* as there are and whatever their order, nobody is signed out by refreshing:
\* not by a lost race, nor by a refresh that the server refuses or fails to
\* deal with (429, 5xx).  Excepted are a lost call, a session that has ended,
\* a detected reuse and, at the launch of a tab, an answer to /api/auth/me
\* that is neither OK nor 401 ("trouble").
HonestStaysSignedIn ==
  client # "nolocks" /\ faults = {} => \A b \in Tab : tab[b] # "signed-out"

\* In the native application and in browsers with Web Locks a family is ended
\* for token reuse only after an answer was lost: one refresh at a time and
\* the new token in the jar, an honest client presents no token twice, not
\* even around a logout or another login.
ReuseMeansLoss ==
  client # "nolocks" /\ "reuse" \in faults => "loss" \in faults

\* Every refresh comes to an end, and with it the Web Lock is released: the
\* row locks of refreshes and logouts do not block each other for ever.
RefreshEnds ==
  \A b \in Tab : call[refreshing(b)].pc # "idle" ~> call[refreshing(b)].pc = "idle"
=============================================================================
