---------------------------- MODULE SessionsProofs --------------------------
(***************************************************************************)
(* Proofs about Sessions, for any number of tabs, tokens, logins and lost  *)
(* calls and all kinds of client.                                          *)
(*                                                                         *)
(* The server's side is a matter of row locks: a token that is being       *)
(* rotated is locked, unused and not revoked (Chained), and a revoking     *)
(* update that no rotation overlaps has all that lives in its snapshot     *)
(* (Cornered).  The client's side adds that refreshes come one at a time   *)
(* (OneAtATime), so that what the jar holds is unused unless its successor *)
(* is on the way (NoReplay), and that nothing else can end a session of    *)
(* which nothing was lost (Loyal).                                         *)
(***************************************************************************)
EXTENDS Sessions, FiniteSetTheorems, SequenceTheorems, TLAPS

USE SessionsAssumption

(***************************************************************************)
(* The invariant.                                                          *)
(***************************************************************************)

\* A call holds locks only in a transaction that asked for them, and knows no
\* token that is not there.
Sound(c, k) ==
  /\ k.token <= Len(row) /\ k.snap \subseteq DOMAIN row /\ k.held \subseteq DOMAIN row
  /\ c[2] = "logout" => k.pc \in {"idle", "sent", "revoke", "answer"}
  /\ k.pc = "rotate" => k.token # NoToken /\ k.held = {k.token}
  /\ k.pc = "revoke" => k.token # NoToken
  /\ k.pc \notin {"rotate", "revoke"} => k.held = {}
  /\ c[2] = "refresh" /\ k.pc = "answer" /\ k.reply = "ok" => k.token # NoToken

Typed ==
  /\ client \in Client
  /\ row \in Seq(TokenRow)
  /\ call \in [Calls -> Call]
  /\ jar \in [refresh : Token \cup {NoToken}, access : 0..MaxFamilies]
  /\ jar.refresh <= Len(row)
  /\ tab \in [Tab -> {"loading", "signed-in", "signed-out", "unreachable"}]
  /\ resend \subseteq Tab
  /\ losses \in 0..MaxLosses
  /\ faults \subseteq {"reuse", "loss", "ended", "trouble"}
  /\ \A c \in Calls : Sound(c, call[c])

\* No row is locked twice.
Exclusive == \A c, d \in Calls : c # d => call[c].held \cap call[d].held = {}

\* Refreshes that may still insert a token.
Inserting ==
  {b \in UnderWay : ~(call[refreshing(b)].pc = "answer" /\ call[refreshing(b)].reply = "ok")}

\* The token t of a call or of the jar inserts none.
Harmless(t) == t = NoToken \/ row[t].used # "no"

\* There is room for what the refreshes under way may insert, or the tokens
\* are used up and nobody has one that is good for another.
Bounded ==
  \/ /\ IsFiniteSet(UnderWay)
     /\ Len(row) + Cardinality(Inserting) <= MaxTokens
  \/ /\ IsFiniteSet(UnderWay)
     /\ Len(row) = MaxTokens
     /\ Harmless(jar.refresh)
     /\ \A b \in Tab : LET k == call[refreshing(b)] IN
          /\ k.pc # "rotate" /\ ~(k.pc = "answer" /\ k.reply = "ok")
          /\ k.pc = "sent" => Harmless(k.token)

Unused(f) == {t \in Tokens(f) : row[t].used = "no"}

\* The families are numbered as they begin, each has one unused token, and
\* what is being rotated is that one, not revoked yet.
Chained ==
  /\ \E n \in 1..MaxFamilies : Families = 1..n
  /\ \A f \in Families : \E t \in DOMAIN row : Unused(f) = {t}
  /\ \A c \in Calls : call[c].pc = "rotate" =>
       row[call[c].token].used = "no" /\ row[call[c].token].valid

\* A revoking update that no rotation overlaps has found all that lives.
Cornered ==
  \A c \in Calls : call[c].pc = "revoke" /\ ~call[c].raced =>
    LET f == row[call[c].token].family IN
    ~Rotating(f) /\ \A t \in Tokens(f) : row[t].valid => t \in call[c].snap

\* One refresh at a time.
OneAtATime ==
  client # "nolocks" =>
    /\ \A a, b \in Tab : a # b /\ call[refreshing(a)].pc \notin {"idle", "queued"}
                           => call[refreshing(b)].pc \in {"idle", "queued"}
    /\ client = "native" => \A b \in Tab \ {MainTab} : call[refreshing(b)].pc = "idle"

Rotated(b) == call[refreshing(b)].pc = "answer" /\ call[refreshing(b)].reply = "ok"

\* As long as no answer is lost, the jar holds an unused token, unless its
\* successor is on the way, and only unused tokens are presented.
NoReplay ==
  client # "nolocks" /\ "loss" \notin faults =>
    /\ "reuse" \notin faults
    /\ Harmless(jar.refresh) => jar.refresh = NoToken \/ \E b \in Tab : Rotated(b)
    /\ \A b \in Tab : LET k == call[refreshing(b)] IN
         /\ k.pc \in {"sent"} => k.token = NoToken \/ row[k.token].used = "no"
         /\ Rotated(b) => row[k.token].used = "no"
         /\ k.pc = "answer" => k.reply # "conflict"

\* As long as nothing happens that ends a session, the first one goes on.
Loyal ==
  client # "nolocks" /\ faults = {} =>
    /\ \A t \in DOMAIN row : row[t].valid /\ row[t].family = 1
    /\ jar.refresh # NoToken /\ jar.access \in {0, 1}
    /\ resend # {} => jar.access # 0
    /\ \A b \in Tab :
         /\ tab[b] # "signed-out"
         /\ call[logging(b)].pc = "idle"
         /\ LET k == call[refreshing(b)] IN
            /\ k.pc # "revoke"
            /\ k.pc = "sent" => k.token # NoToken
            /\ k.pc = "answer" => k.reply \in {"ok", "error"}

SInv ==
  /\ Typed /\ Exclusive /\ Bounded /\ Chained /\ Cornered
  /\ OneAtATime /\ NoReplay /\ Loyal

(***************************************************************************)
(* Calls and rows.                                                         *)
(***************************************************************************)

LEMMA CallNames ==
  /\ \A b \in Tab : /\ refreshing(b) \in Calls /\ refreshing(b)[2] = "refresh"
                    /\ logging(b) \in Calls /\ logging(b)[2] = "logout"
                    /\ refreshing(b)[1] = b /\ logging(b)[1] = b
  /\ \A c \in Calls : /\ c[1] \in Tab /\ c[2] \in {"refresh", "logout"}
                      /\ c[2] = "refresh" => c = refreshing(c[1])
                      /\ c[2] = "logout" => c = logging(c[1])
  /\ \A a, b \in Tab : /\ refreshing(a) # logging(b)
                       /\ refreshing(a) = refreshing(b) => a = b
                       /\ logging(a) = logging(b) => a = b
BY DEF Calls, refreshing, logging

LEMMA RowFacts ==
  ASSUME row \in Seq(TokenRow)
  PROVE  /\ Len(row) \in Nat /\ DOMAIN row = 1..Len(row)
         /\ \A t \in DOMAIN row :
              /\ t \in Nat /\ t # 0 /\ t <= Len(row) /\ row[t] \in TokenRow
              /\ row[t].family \in 1..MaxFamilies /\ row[t].family \in Families
              /\ row[t].used \in {"no", "grace", "old"} /\ row[t].valid \in BOOLEAN
         /\ \A t \in Nat : t # 0 /\ t <= Len(row) => t \in DOMAIN row
<1>1. Len(row) \in Nat /\ DOMAIN row = 1..Len(row)
  BY LenProperties
<1>2. \A t \in DOMAIN row : row[t] \in TokenRow
  BY <1>1, ElementOfSeq
<1> QED
  BY <1>1, <1>2 DEF TokenRow, Families

\* What a call presents is a token that is there.
LEMMA Presented ==
  ASSUME Typed, NEW c \in Calls, call[c].token # NoToken
  PROVE  call[c].token \in DOMAIN row
<1>1. call[c] \in Call /\ Sound(c, call[c])
  BY DEF Typed
<1>2. call[c].token \in Nat /\ call[c].token <= Len(row)
  BY <1>1 DEF Call, Token, NoToken, Sound
<1> QED
  BY <1>2, RowFacts DEF Typed, NoToken

\* The call c becomes k.
CallTo(c, k) ==
  /\ k \in Call
  /\ call' \in [Calls -> Call] /\ call'[c] = k
  /\ \A d \in Calls \ {c} : call'[d] = call[d]

LEMMA CallMoves ==
  ASSUME Typed, NEW c \in Calls, NEW k \in Call, call' = [call EXCEPT ![c] = k]
  PROVE  CallTo(c, k)
BY DEF Typed, CallTo

LEMMA NoCallFacts ==
  /\ NoCall \in Call /\ NoCall.pc = "idle" /\ NoCall.token = NoToken
  /\ NoCall.held = {} /\ NoCall.snap = {} /\ NoCall.reply = "none"
BY DEF NoCall, Call

\* The rest of the state keeps its shape.
Shaped ==
  /\ client' = client
  /\ jar' \in [refresh : Token \cup {NoToken}, access : 0..MaxFamilies]
  /\ tab' \in [Tab -> {"loading", "signed-in", "signed-out", "unreachable"}]
  /\ resend' \subseteq Tab
  /\ losses' \in 0..MaxLosses
  /\ faults' \subseteq {"reuse", "loss", "ended", "trouble"}

\* A call moves, outside of a transaction that changes rows.
LEMMA QuietCall ==
  ASSUME SInv, NEW c \in Calls, NEW k, CallTo(c, k), Sound(c, k), k.pc \notin {"rotate", "revoke"},
         row' = row, Shaped, jar'.refresh <= Len(row)
  PROVE  Typed' /\ Exclusive' /\ Chained' /\ Cornered'
<1>0. Typed /\ Exclusive /\ Chained /\ Cornered
  BY DEF SInv
<1>1. Typed'
  BY <1>0 DEF Typed, Shaped, CallTo, Sound
<1>2. k.held = {}
  BY DEF Sound
<1>3. Exclusive'
  BY <1>0, <1>2 DEF Exclusive, CallTo
<1>4. Families' = Families /\ \A f : Tokens(f)' = Tokens(f) /\ Unused(f)' = Unused(f)
  BY DEF Families, Tokens, Unused
<1>5. Chained'
  BY <1>0, <1>4 DEF Chained, CallTo
<1>6. \A f : Rotating(f)' => Rotating(f)
  BY DEF Rotating, CallTo
<1>7. Cornered'
  BY <1>0, <1>4, <1>6 DEF Cornered, CallTo, Tokens
<1> QED
  BY <1>1, <1>3, <1>5, <1>7

\* The same if no call moves.
LEMMA QuietRest ==
  ASSUME SInv, call' = call, row' = row, Shaped, jar'.refresh <= Len(row)
  PROVE  Typed' /\ Exclusive' /\ Chained' /\ Cornered'
<1>0. Typed /\ Exclusive /\ Chained /\ Cornered
  BY DEF SInv
<1>1. Typed'
  BY <1>0 DEF Typed, Shaped, Sound
<1>2. Exclusive'
  BY <1>0 DEF Exclusive
<1>3. Families' = Families /\ \A f : Tokens(f)' = Tokens(f) /\ Unused(f)' = Unused(f)
  BY DEF Families, Tokens, Unused
<1>4. Chained'
  BY <1>0, <1>3 DEF Chained
<1>5. \A f : Rotating(f)' => Rotating(f)
  BY DEF Rotating
<1>6. Cornered'
  BY <1>0, <1>3, <1>5 DEF Cornered, Tokens
<1> QED
  BY <1>1, <1>2, <1>4, <1>6

(***************************************************************************)
(* The client's part of the invariant, when little changes.                *)
(***************************************************************************)

\* No token is inserted, and no refresh under way may insert one that could
\* not before.
LEMMA BoundedKeeps ==
  ASSUME SInv, Len(row') = Len(row), DOMAIN row' = DOMAIN row,
         \A t \in DOMAIN row : row[t].used # "no" => row'[t].used # "no",
         UnderWay' \subseteq UnderWay, Inserting' \subseteq Inserting,
         jar'.refresh \in {NoToken, jar.refresh} \/ \E b \in Tab : Rotated(b),
         jar.refresh = NoToken \/ jar.refresh \in DOMAIN row,
         \A b \in Tab : call'[refreshing(b)].pc = "rotate" =>
                           call[refreshing(b)].pc = "rotate"
                           \/ (call[refreshing(b)].pc = "sent" /\ ~Harmless(call[refreshing(b)].token)),
         \A b \in Tab : Rotated(b)' => Rotated(b),
         \A b \in Tab : call'[refreshing(b)].pc = "sent" =>
                           call'[refreshing(b)].token = jar.refresh
                           \/ (/\ call[refreshing(b)].pc = "sent"
                               /\ call'[refreshing(b)].token = call[refreshing(b)].token)
  PROVE  Bounded'
<1>0. Typed /\ Bounded
  BY DEF SInv
<1>1. IsFiniteSet(UnderWay) => IsFiniteSet(UnderWay')
  BY FS_Subset
<1>2. Inserting \subseteq UnderWay /\ Inserting' \subseteq UnderWay'
  BY DEF Inserting, UnderWay
<1>3. CASE IsFiniteSet(UnderWay) /\ Len(row) + Cardinality(Inserting) <= MaxTokens
  <2>1. Cardinality(Inserting') <= Cardinality(Inserting)
        /\ Cardinality(Inserting) \in Nat /\ Cardinality(Inserting') \in Nat
    BY <1>2, <1>3, FS_Subset, FS_CardinalityType
  <2>2. Len(row) \in Nat
    BY <1>0, RowFacts DEF Typed
  <2>3. Len(row') + Cardinality(Inserting') <= MaxTokens
    BY <1>3, <2>1, <2>2
  <2> QED
    BY <1>1, <1>3, <2>3 DEF Bounded
<1>4. CASE ~(IsFiniteSet(UnderWay) /\ Len(row) + Cardinality(Inserting) <= MaxTokens)
  <2>1. /\ IsFiniteSet(UnderWay) /\ Len(row) = MaxTokens /\ Harmless(jar.refresh)
        /\ \A b \in Tab :
             /\ call[refreshing(b)].pc # "rotate" /\ ~Rotated(b)
             /\ call[refreshing(b)].pc = "sent" => Harmless(call[refreshing(b)].token)
    BY <1>0, <1>4 DEF Bounded, Rotated
  <2>2. \A t : (t = NoToken \/ t \in DOMAIN row) /\ Harmless(t) => Harmless(t)'
    BY DEF Harmless
  <2>3. Harmless(jar.refresh)'
    BY <2>1, <2>2 DEF Harmless
  <2>4. \A b \in Tab : call'[refreshing(b)].pc # "rotate" /\ ~Rotated(b)'
    BY <2>1
  <2>5. \A b \in Tab : call[refreshing(b)].token = NoToken \/ call[refreshing(b)].token \in DOMAIN row
    BY <1>0, Presented, CallNames
  <2>7. ASSUME NEW b \in Tab, call'[refreshing(b)].pc = "sent"
        PROVE  Harmless(call[refreshing(b)].token)'
    <3>1. CASE call'[refreshing(b)].token = jar.refresh
      BY <2>1, <2>2, <3>1 DEF Harmless
    <3>2. CASE /\ call[refreshing(b)].pc = "sent"
               /\ call'[refreshing(b)].token = call[refreshing(b)].token
      BY <2>1, <2>2, <2>5, <3>2 DEF Harmless
    <3> QED
      BY <2>7, <3>1, <3>2
  <2> QED
    BY <1>1, <2>1, <2>3, <2>4, <2>7 DEF Bounded, Rotated
<1> QED
  BY <1>3, <1>4

\* No refresh goes past the lock.
LEMMA OneKeeps ==
  ASSUME SInv, client' = client,
         \A b \in Tab : call'[refreshing(b)].pc \in {"idle", "queued"}
                        \/ call[refreshing(b)].pc \notin {"idle", "queued"},
         \A b \in Tab : client = "native" /\ b # MainTab =>
                        call'[refreshing(b)].pc = "idle" \/ call[refreshing(b)].pc # "idle"
  PROVE  OneAtATime'
BY DEF SInv, OneAtATime

\* A refresh that is under way moves on, outside of a transaction that changes
\* rows, and gets no new token.
LEMMA RefreshMoves ==
  ASSUME SInv, NEW b \in Tab, NEW k, CallTo(refreshing(b), k), Sound(refreshing(b), k),
         k.pc \notin {"rotate", "revoke"}, row' = row, Shaped,
         call[refreshing(b)].pc # "idle",
         Rotated(b) => k.pc = "idle",
         ~(k.pc = "answer" /\ k.reply = "ok"),
         k.pc = "sent" => k.token = jar.refresh,
         jar'.refresh \in {NoToken, jar.refresh}
           \/ (Rotated(b) /\ jar'.refresh = call[refreshing(b)].token)
  PROVE  Typed' /\ Exclusive' /\ Chained' /\ Cornered' /\ Bounded'
<1>0. Typed
  BY DEF SInv
<1>1. refreshing(b) \in Calls /\ \A a \in Tab : a # b => refreshing(a) \in Calls \ {refreshing(b)}
  BY CallNames
<1>2. Len(row) \in Nat /\ NoToken <= Len(row)
  BY <1>0, RowFacts DEF Typed, NoToken
<1>3. jar.refresh <= Len(row) /\ call[refreshing(b)].token <= Len(row)
  BY <1>0, <1>1 DEF Typed, Sound
<1>4. jar'.refresh <= Len(row)
  BY <1>2, <1>3
<1>5. Typed' /\ Exclusive' /\ Chained' /\ Cornered'
  BY <1>1, <1>4, QuietCall
<1>6. \A a \in Tab : a # b => call'[refreshing(a)] = call[refreshing(a)]
  BY <1>1 DEF CallTo
<1>7. call'[refreshing(b)] = k
  BY DEF CallTo
<1>8. UnderWay' \subseteq UnderWay
  BY <1>6 DEF UnderWay
<1>9. Inserting' \subseteq Inserting
  BY <1>6, <1>7, <1>8 DEF Inserting, UnderWay, Rotated
<1>10. jar.refresh = NoToken \/ jar.refresh \in DOMAIN row
  BY <1>0, <1>3, RowFacts DEF Typed, Token, NoToken
<1>11. \A a \in Tab : call'[refreshing(a)].pc = "rotate" => call[refreshing(a)].pc = "rotate"
  BY <1>6, <1>7
<1>12. \A a \in Tab : Rotated(a)' => Rotated(a)
  BY <1>6, <1>7 DEF Rotated
<1>13. \A a \in Tab : call'[refreshing(a)].pc = "sent" =>
                        call'[refreshing(a)].token = jar.refresh
                        \/ (/\ call[refreshing(a)].pc = "sent"
                            /\ call'[refreshing(a)].token = call[refreshing(a)].token)
  BY <1>6, <1>7
<1>14. Bounded'
  BY <1>8, <1>9, <1>10, <1>11, <1>12, <1>13, BoundedKeeps
<1> QED
  BY <1>5, <1>14

\* The other calls stay as they are.
LEMMA Others ==
  ASSUME NEW b \in Tab, NEW k
  PROVE  /\ CallTo(refreshing(b), k) =>
              /\ call'[refreshing(b)] = k
              /\ \A a \in Tab : a # b => call'[refreshing(a)] = call[refreshing(a)]
              /\ \A a \in Tab : call'[logging(a)] = call[logging(a)]
         /\ CallTo(logging(b), k) =>
              /\ call'[logging(b)] = k
              /\ \A a \in Tab : a # b => call'[logging(a)] = call[logging(a)]
              /\ \A a \in Tab : call'[refreshing(a)] = call[refreshing(a)]
BY CallNames DEF CallTo

(***************************************************************************)
(* The steps of a refresh in the client.                                   *)
(***************************************************************************)

LEMMA LockedStep ==
  ASSUME SInv, NEW b \in Tab, client = "native" => b = MainTab, doRefreshLocked(b)
  PROVE  SInv'
<1> DEFINE c == refreshing(b)
           k == [call[c] EXCEPT !.pc = "ready"]
<1>0. Typed /\ c \in Calls /\ call[c] \in Call /\ Sound(c, call[c]) /\ call[c].pc = "queued"
  BY CallNames DEF SInv, Typed, doRefreshLocked
<1>1. /\ k \in Call /\ k.pc = "ready" /\ k.held = {} /\ k.token = call[c].token
      /\ k.snap = call[c].snap
  BY <1>0 DEF Call, Sound
<1>2. CallTo(c, k)
  <2>1. call' = [call EXCEPT ![c] = k]
    BY <1>0 DEF doRefreshLocked, Typed
  <2> QED
    BY <1>0, <1>1, <2>1, CallMoves
<1>3. Sound(c, k)
  BY <1>0, <1>1, CallNames DEF Sound
<1>4. Shaped /\ row' = row /\ jar' = jar /\ tab' = tab /\ faults' = faults /\ client' = client
      /\ resend' = resend
  BY <1>0 DEF doRefreshLocked, Typed, Shaped
<1> HIDE DEF k
<1>5. Typed' /\ Exclusive' /\ Chained' /\ Cornered' /\ Bounded'
  BY <1>0, <1>1, <1>2, <1>3, <1>4, RefreshMoves DEF Rotated
<1>6. /\ \A a \in Tab : a # b => call'[refreshing(a)] = call[refreshing(a)]
      /\ \A a \in Tab : call'[logging(a)] = call[logging(a)]
      /\ call'[c] = k
  BY <1>2, Others
<1>9. OneAtATime'
  <2>1. client = "web" => LockFree
    BY DEF doRefreshLocked
  <2>2. OneAtATime /\ client \in {"web", "nolocks", "native"}
    BY <1>0 DEF SInv, Typed
  <2> QED
    BY <1>0, <1>1, <1>4, <1>6, <2>1, <2>2 DEF OneAtATime, LockFree
<1>10. \A a \in Tab : Rotated(a)' <=> Rotated(a)
  BY <1>0, <1>1, <1>6 DEF Rotated
<1>11. NoReplay'
  BY <1>0, <1>1, <1>4, <1>6, <1>10 DEF SInv, NoReplay, Harmless, Rotated
<1>12. Loyal'
  BY <1>0, <1>1, <1>4, <1>6 DEF SInv, Loyal
<1> QED
  BY <1>5, <1>9, <1>11, <1>12 DEF SInv

LEMMA SentStep ==
  ASSUME SInv, NEW b \in Tab, doRefresh(b)
  PROVE  SInv'
<1> DEFINE c == refreshing(b)
           k == [call[c] EXCEPT !.pc = "sent", !.token = jar.refresh]
<1>0. Typed /\ c \in Calls /\ call[c] \in Call /\ Sound(c, call[c]) /\ call[c].pc = "ready"
  BY CallNames DEF SInv, Typed, doRefresh
<1>1. jar.refresh \in Token \cup {NoToken} /\ jar.refresh <= Len(row)
  BY <1>0 DEF Typed
<1>2. /\ k \in Call /\ k.pc = "sent" /\ k.held = {} /\ k.token = jar.refresh
      /\ k.snap = call[c].snap
  BY <1>0, <1>1 DEF Call, Sound
<1>3. CallTo(c, k)
  <2>1. call' = [call EXCEPT ![c] = k]
    BY <1>0 DEF doRefresh, Typed
  <2> QED
    BY <1>0, <1>2, <2>1, CallMoves
<1>4. Sound(c, k)
  BY <1>0, <1>1, <1>2, CallNames DEF Sound
<1>5. Shaped /\ row' = row /\ jar' = jar /\ tab' = tab /\ faults' = faults /\ client' = client
      /\ resend' = resend
  BY <1>0 DEF doRefresh, Typed, Shaped
<1> HIDE DEF k
<1>6. Typed' /\ Exclusive' /\ Chained' /\ Cornered' /\ Bounded'
  BY <1>0, <1>2, <1>3, <1>4, <1>5, RefreshMoves DEF Rotated
<1>7. /\ \A a \in Tab : a # b => call'[refreshing(a)] = call[refreshing(a)]
      /\ \A a \in Tab : call'[logging(a)] = call[logging(a)]
      /\ call'[c] = k
  BY <1>3, Others
<1>8. OneAtATime'
  BY <1>0, <1>2, <1>5, <1>7, OneKeeps
<1>9. \A a \in Tab : Rotated(a)' <=> Rotated(a)
  BY <1>0, <1>2, <1>7 DEF Rotated
<1>10. NoReplay'
  <2>1. client # "nolocks" => \A a \in Tab : ~Rotated(a)
    BY <1>0 DEF SInv, OneAtATime, Rotated
  <2> QED
    BY <1>0, <1>2, <1>5, <1>7, <1>9, <2>1 DEF SInv, NoReplay, Harmless, Rotated
<1>11. Loyal'
  BY <1>0, <1>2, <1>5, <1>7 DEF SInv, Loyal
<1> QED
  BY <1>6, <1>8, <1>10, <1>11 DEF SInv

\* The call of a refresh ends.
LEMMA Ends ==
  ASSUME SInv, NEW b \in Tab, call' = [call EXCEPT ![refreshing(b)] = NoCall]
  PROVE  CallTo(refreshing(b), NoCall) /\ Sound(refreshing(b), NoCall)
<1>1. Typed /\ refreshing(b) \in Calls /\ Len(row) \in Nat
  BY CallNames, RowFacts DEF SInv, Typed
<1>2. CallTo(refreshing(b), NoCall)
  BY <1>1, CallMoves, NoCallFacts
<1>3. NoCall.token <= Len(row)
  BY <1>1, NoCallFacts DEF NoToken
<1>4. Sound(refreshing(b), NoCall)
  BY <1>3, NoCallFacts, CallNames DEF Sound
<1> QED
  BY <1>2, <1>4

LEMMA AdoptStep ==
  ASSUME SInv, NEW b \in Tab, adopt(b)
  PROVE  SInv'
<1> DEFINE c == refreshing(b)
           t == call[c].token
<1>0. Typed /\ c \in Calls /\ call[c] \in Call /\ Sound(c, call[c]) /\ Rotated(b)
  BY CallNames DEF SInv, Typed, adopt, Rotated
<1>1. t # NoToken /\ t \in DOMAIN row
  BY <1>0, Presented, CallNames DEF Sound, Rotated
<1>2. row[t].family \in 1..MaxFamilies /\ t \in Token /\ t <= Len(row)
  BY <1>0, <1>1, RowFacts DEF Typed, Call, NoToken
<1>3. CallTo(c, NoCall) /\ Sound(c, NoCall)
  BY Ends DEF adopt
<1>4. /\ jar' = [refresh |-> t, access |-> row[t].family] /\ row' = row /\ faults' = faults
      /\ client' = client /\ resend' \subseteq resend \cup {b}
      /\ tab' = [tab EXCEPT ![b] = "signed-in"] /\ losses' = losses
  BY DEF adopt
<1>5. Shaped
  <2>1. jar' \in [refresh : Token \cup {NoToken}, access : 0..MaxFamilies]
    BY <1>2, <1>4
  <2> QED
    BY <1>0, <1>4, <2>1 DEF Typed, Shaped
<1>6. jar'.refresh = t /\ jar'.access = row[t].family
  BY <1>4
<1>7. Typed' /\ Exclusive' /\ Chained' /\ Cornered' /\ Bounded'
  BY <1>0, <1>3, <1>4, <1>5, <1>6, NoCallFacts, RefreshMoves DEF Rotated
<1>8. /\ \A a \in Tab : a # b => call'[refreshing(a)] = call[refreshing(a)]
      /\ \A a \in Tab : call'[logging(a)] = call[logging(a)]
      /\ call'[c] = NoCall
  BY <1>3, Others
<1>9. OneAtATime'
  BY <1>0, <1>4, <1>8, NoCallFacts, OneKeeps DEF Rotated
<1>10. NoReplay'
  BY <1>0, <1>1, <1>4, <1>6, <1>8, NoCallFacts DEF SInv, NoReplay, Harmless, Rotated
<1>11. Loyal'
  BY <1>0, <1>1, <1>4, <1>6, <1>8, NoCallFacts DEF SInv, Typed, Loyal
<1> QED
  BY <1>7, <1>9, <1>10, <1>11 DEF SInv

LEMMA RetryStep ==
  ASSUME SInv, NEW b \in Tab, refresh_retry(b)
  PROVE  SInv'
<1> DEFINE c == refreshing(b)
           k == [NoCall EXCEPT !.pc = "ready", !.again = TRUE, !.boot = call[c].boot]
<1>0. /\ Typed /\ c \in Calls /\ call[c] \in Call /\ Sound(c, call[c])
      /\ call[c].pc = "answer" /\ call[c].reply = "conflict"
  BY CallNames DEF SInv, Typed, refresh_retry
<1>1. k \in Call /\ k.pc = "ready" /\ k.held = {} /\ k.token = NoToken /\ k.snap = {}
  BY <1>0 DEF Call, NoCall
<1>2. CallTo(c, k)
  BY <1>0, <1>1, CallMoves DEF refresh_retry
<1>3. Len(row) \in Nat /\ NoToken <= Len(row)
  BY <1>0, RowFacts DEF Typed, NoToken
<1>4. Sound(c, k)
  BY <1>0, <1>1, <1>3, CallNames DEF Sound
<1>5. Shaped /\ row' = row /\ jar' = jar /\ tab' = tab /\ faults' = faults /\ client' = client
      /\ resend' = resend
  BY <1>0 DEF refresh_retry, Typed, Shaped
<1> HIDE DEF k
<1>6. Typed' /\ Exclusive' /\ Chained' /\ Cornered' /\ Bounded'
  BY <1>0, <1>1, <1>2, <1>4, <1>5, RefreshMoves DEF Rotated
<1>7. /\ \A a \in Tab : a # b => call'[refreshing(a)] = call[refreshing(a)]
      /\ \A a \in Tab : call'[logging(a)] = call[logging(a)]
      /\ call'[c] = k
  BY <1>2, Others
<1>8. OneAtATime'
  BY <1>0, <1>1, <1>5, <1>7, OneKeeps
<1>9. \A a \in Tab : Rotated(a)' <=> Rotated(a)
  BY <1>0, <1>1, <1>7 DEF Rotated
<1>10. NoReplay'
  BY <1>0, <1>1, <1>5, <1>7, <1>9 DEF SInv, NoReplay, Harmless, Rotated
<1>11. Loyal'
  BY <1>0, <1>1, <1>5, <1>7 DEF SInv, Loyal
<1> QED
  BY <1>6, <1>8, <1>10, <1>11 DEF SInv

\* A refresh ends without a new token.  Unless nothing was lost so far, tabs
\* may be signed out.
LEMMA GivesUp ==
  ASSUME SInv, NEW b \in Tab, call' = [call EXCEPT ![refreshing(b)] = NoCall],
         call[refreshing(b)].pc # "queued", call[refreshing(b)].pc # "idle",
         Shaped, row' = row, resend' = resend,
         jar' = jar \/ jar' = [refresh |-> NoToken, access |-> 0],
         Rotated(b) => "loss" \in faults',
         "loss" \in faults => "loss" \in faults', "reuse" \in faults' => "reuse" \in faults,
         faults' = {} => faults = {},
         client # "nolocks" /\ faults' = {} => jar' = jar /\ \A a \in Tab : tab'[a] # "signed-out"
  PROVE  SInv'
<1> DEFINE c == refreshing(b)
<1>0. Typed /\ c \in Calls
  BY CallNames DEF SInv, Typed
<1>1. CallTo(c, NoCall) /\ Sound(c, NoCall)
  BY Ends
<1>2. jar'.refresh \in {NoToken, jar.refresh} /\ client' = client
  BY DEF Shaped
<1>3. Typed' /\ Exclusive' /\ Chained' /\ Cornered' /\ Bounded'
  BY <1>1, <1>2, NoCallFacts, RefreshMoves DEF Rotated
<1>4. /\ \A a \in Tab : a # b => call'[refreshing(a)] = call[refreshing(a)]
      /\ \A a \in Tab : call'[logging(a)] = call[logging(a)]
      /\ call'[c] = NoCall
  BY <1>1, Others
<1>5. OneAtATime'
  BY <1>2, <1>4, NoCallFacts, OneKeeps
<1>6. NoReplay'
  BY <1>2, <1>4, NoCallFacts DEF SInv, NoReplay, Harmless, Rotated
<1>7. Loyal'
  BY <1>2, <1>4, NoCallFacts DEF SInv, Loyal
<1> QED
  BY <1>3, <1>5, <1>6, <1>7 DEF SInv

LEMMA FailStep ==
  ASSUME SInv, NEW b \in Tab, fail(b)
  PROVE  SInv'
<1>0. Typed
  BY DEF SInv
<1>1. /\ call' = [call EXCEPT ![refreshing(b)] = NoCall] /\ call[refreshing(b)].pc = "answer"
      /\ row' = row /\ resend' = resend /\ faults' = faults /\ client' = client
      /\ losses' = losses /\ tab' = [tab EXCEPT ![b] = "signed-out"]
      /\ jar' = jar \/ jar' = [refresh |-> NoToken, access |-> 0]
      /\ call[refreshing(b)].reply \notin {"ok", "error"}
  BY DEF fail, Expire
<1>2. ~(client # "nolocks" /\ faults = {})
  BY <1>1 DEF SInv, Loyal
<1>3. Shaped
  BY <1>0, <1>1 DEF Shaped, Typed
<1> QED
  BY <1>1, <1>2, <1>3, GivesUp DEF Rotated

LEMMA ErrorStep ==
  ASSUME SInv, NEW b \in Tab, refresh_error(b)
  PROVE  SInv'
<1>0. Typed
  BY DEF SInv
<1>1. /\ call' = [call EXCEPT ![refreshing(b)] = NoCall] /\ call[refreshing(b)].pc = "answer"
      /\ row' = row /\ resend' = resend /\ faults' = faults /\ client' = client
      /\ losses' = losses /\ jar' = jar /\ call[refreshing(b)].reply # "ok"
      /\ tab' \in {[tab EXCEPT ![b] = "unreachable"], tab}
  BY <1>0 DEF refresh_error, Unreachable, Typed
<1>2. Shaped
  BY <1>0, <1>1 DEF Shaped, Typed
<1>3. client # "nolocks" /\ faults = {} => \A a \in Tab : tab[a] # "signed-out"
  BY DEF SInv, Loyal
<1>4. client # "nolocks" /\ faults = {} => \A a \in Tab : tab'[a] # "signed-out"
  BY <1>0, <1>1, <1>3 DEF Typed
<1> QED
  BY <1>1, <1>2, <1>4, GivesUp DEF Rotated

LEMMA LoseRefreshStep ==
  ASSUME SInv, NEW c \in Calls, c[2] = "refresh", Lose(c)
  PROVE  SInv'
<1> DEFINE b == c[1]
<1>0. Typed /\ b \in Tab /\ c = refreshing(b)
  BY CallNames DEF SInv
<1>1. /\ call' = [call EXCEPT ![refreshing(b)] = NoCall] /\ call[refreshing(b)].pc \in {"sent", "answer"}
      /\ row' = row /\ resend' = resend /\ faults' = (faults \ {"trouble"}) \cup {"loss"}
      /\ losses < MaxLosses /\ losses' = losses + 1 /\ jar' = jar /\ client' = client
      /\ tab' \in {[tab EXCEPT ![b] = "unreachable"], tab}
  BY <1>0 DEF Lose, Unreachable, Blame, Typed
<1>2. tab' \in [Tab -> {"loading", "signed-in", "signed-out", "unreachable"}]
  BY <1>0, <1>1 DEF Typed
<1>3. losses' \in 0..MaxLosses
  BY <1>0, <1>1 DEF Typed
<1>4. Shaped
  BY <1>0, <1>1, <1>2, <1>3 DEF Shaped, Typed
<1>5. faults' # {} /\ "loss" \in faults' /\ ("reuse" \in faults' => "reuse" \in faults)
  BY <1>1
<1> HIDE DEF b
<1> QED
  BY <1>0, <1>1, <1>4, <1>5, GivesUp

(***************************************************************************)
(* The steps of a logout and of the server that change no row.             *)
(***************************************************************************)

\* The call that is answered.
Answered(c, reply) ==
  [call[c] EXCEPT !.pc = "answer", !.reply = reply, !.snap = {}, !.held = {}, !.raced = FALSE]

LEMMA AnswerMoves ==
  ASSUME Typed, NEW c \in Calls, NEW reply \in {"none", "ok", "invalid", "conflict", "reuse", "error"},
         Answer(c, reply)
  PROVE  /\ CallTo(c, Answered(c, reply))
         /\ Answered(c, reply).pc = "answer" /\ Answered(c, reply).reply = reply
         /\ Answered(c, reply).token = call[c].token
         /\ Answered(c, reply).held = {} /\ Answered(c, reply).snap = {}
         /\ c[2] = "logout" \/ reply # "ok" => Sound(c, Answered(c, reply))
<1>1. call[c] \in Call /\ Sound(c, call[c])
  BY DEF Typed
<1>2. /\ Answered(c, reply) \in Call
      /\ Answered(c, reply).pc = "answer" /\ Answered(c, reply).reply = reply
      /\ Answered(c, reply).token = call[c].token
      /\ Answered(c, reply).held = {} /\ Answered(c, reply).snap = {}
  BY <1>1 DEF Call, Answered
<1>3. call' = [call EXCEPT ![c] = Answered(c, reply)]
  BY DEF Answer, Answered, Typed
<1>4. c[2] = "logout" \/ reply # "ok" => Sound(c, Answered(c, reply))
  BY <1>1, <1>2, CallNames DEF Sound
<1> QED
  BY <1>2, <1>3, <1>4, CallMoves

\* A refresh that the server has is answered without a token.
LEMMA Refused ==
  ASSUME SInv, NEW b \in Tab,
         NEW reply \in {"none", "ok", "invalid", "conflict", "reuse", "error"},
         reply # "ok", Answer(refreshing(b), reply),
         call[refreshing(b)].pc \in {"sent", "rotate", "revoke"},
         UNCHANGED <<client, row, jar, tab, resend, losses, faults>>,
         client # "nolocks" /\ "loss" \notin faults => reply # "conflict",
         client # "nolocks" /\ faults = {}
           => reply = "error" /\ call[refreshing(b)].pc # "revoke"
  PROVE  SInv'
<1> DEFINE c == refreshing(b)
           k == Answered(c, reply)
<1>0. Typed /\ c \in Calls /\ c[2] = "refresh"
  BY CallNames DEF SInv
<1>1. /\ CallTo(c, k) /\ k.pc = "answer" /\ k.reply = reply /\ Sound(c, k)
      /\ k.held = {} /\ k.snap = {}
  BY <1>0, AnswerMoves
<1>2. Shaped /\ row' = row /\ jar' = jar /\ tab' = tab /\ faults' = faults /\ client' = client
      /\ resend' = resend
  BY <1>0 DEF Typed, Shaped
<1> HIDE DEF k
<1>3. Typed' /\ Exclusive' /\ Chained' /\ Cornered' /\ Bounded'
  BY <1>0, <1>1, <1>2, RefreshMoves DEF Rotated
<1>4. /\ \A a \in Tab : a # b => call'[refreshing(a)] = call[refreshing(a)]
      /\ \A a \in Tab : call'[logging(a)] = call[logging(a)]
      /\ call'[c] = k
  BY <1>1, Others
<1>5. OneAtATime'
  BY <1>1, <1>2, <1>4, OneKeeps
<1>6. \A a \in Tab : Rotated(a)' <=> Rotated(a)
  BY <1>1, <1>4 DEF Rotated
<1>7. NoReplay'
  BY <1>1, <1>2, <1>4, <1>6 DEF SInv, NoReplay, Harmless, Rotated
<1>8. Loyal'
  BY <1>1, <1>2, <1>4 DEF SInv, Loyal
<1> QED
  BY <1>3, <1>5, <1>7, <1>8 DEF SInv

LEMMA RejectedStep ==
  ASSUME SInv, NEW b \in Tab, refresh_rejected(b)
  PROVE  SInv'
<1>1. call[refreshing(b)].pc = "sent"
  BY DEF refresh_rejected, Selected
<1>2. call[refreshing(b)].token # NoToken => call[refreshing(b)].token \in DOMAIN row
  BY Presented, CallNames DEF SInv
<1>3. ~(client # "nolocks" /\ faults = {})
  BY <1>1, <1>2 DEF SInv, Loyal, refresh_rejected
<1> QED
  BY <1>1, <1>3, Refused DEF refresh_rejected

LEMMA ConflictStep ==
  ASSUME SInv, NEW b \in Tab, refresh_conflict(b)
  PROVE  SInv'
<1>1. call[refreshing(b)].pc = "sent"
  BY DEF refresh_conflict, Selected
<1>2. ~(client # "nolocks" /\ "loss" \notin faults)
  BY <1>1 DEF SInv, NoReplay, refresh_conflict
<1> QED
  BY <1>1, <1>2, Refused DEF refresh_conflict

\* A logout moves, and no row changes.
LEMMA LogoutMoves ==
  ASSUME SInv, NEW b \in Tab, NEW k, CallTo(logging(b), k), Sound(logging(b), k),
         k.pc \notin {"rotate", "revoke"}, row' = row, Shaped,
         jar'.refresh \in {NoToken, jar.refresh},
         "loss" \in faults => "loss" \in faults', "reuse" \in faults' => "reuse" \in faults,
         faults' = {} => faults = {},
         call[logging(b)].pc # "idle" \/ faults' # {}
  PROVE  SInv'
<1>0. Typed /\ client' = client
  BY DEF SInv, Shaped
<1>1. logging(b) \in Calls
  BY CallNames
<1>2. Len(row) \in Nat /\ NoToken <= Len(row) /\ jar.refresh <= Len(row)
  BY <1>0, RowFacts DEF Typed, NoToken
<1>3. jar'.refresh <= Len(row)
  BY <1>2
<1>4. Typed' /\ Exclusive' /\ Chained' /\ Cornered'
  BY <1>1, <1>3, QuietCall
<1>5. \A a \in Tab : call'[refreshing(a)] = call[refreshing(a)]
  BY Others
<1>6. UnderWay' = UnderWay
  BY <1>5 DEF UnderWay
<1>7. Inserting' = Inserting
  <2>1. \A a \in UnderWay : call'[refreshing(a)] = call[refreshing(a)]
    BY <1>5 DEF UnderWay
  <2>2. \A a \in UnderWay : (a \in Inserting') <=> (a \in Inserting)
    BY <1>6, <2>1 DEF Inserting
  <2> QED
    BY <1>6, <2>2 DEF Inserting
<1>8. jar.refresh = NoToken \/ jar.refresh \in DOMAIN row
  BY <1>0, <1>2, RowFacts DEF Typed, Token, NoToken
<1>9. \A a \in Tab : Rotated(a)' <=> Rotated(a)
  BY <1>5 DEF Rotated
<1>10. Bounded'
  BY <1>5, <1>6, <1>7, <1>8, <1>9, BoundedKeeps
<1>11. OneAtATime'
  BY <1>0, <1>5, OneKeeps
<1>12. NoReplay'
  BY <1>0, <1>5, <1>9 DEF SInv, NoReplay, Harmless
<1>13. Loyal'
  BY <1>0 DEF SInv, Loyal
<1> QED
  BY <1>4, <1>10, <1>11, <1>12, <1>13 DEF SInv

LEMMA LogoutStep ==
  ASSUME SInv, NEW b \in Tab, logout(b)
  PROVE  SInv'
<1> DEFINE c == logging(b)
           k == [NoCall EXCEPT !.pc = "sent", !.token = jar.refresh]
<1>0. Typed /\ c \in Calls /\ c[2] = "logout"
  BY CallNames DEF SInv
<1>1. jar.refresh \in Token \cup {NoToken} /\ jar.refresh <= Len(row)
  BY <1>0 DEF Typed
<1>2. /\ k \in Call /\ k.pc = "sent" /\ k.held = {} /\ k.token = jar.refresh /\ k.snap = {}
  BY <1>1 DEF Call, NoCall
<1>3. CallTo(c, k)
  BY <1>0, <1>2, CallMoves DEF logout
<1>4. Sound(c, k)
  BY <1>0, <1>1, <1>2 DEF Sound
<1>5. Shaped /\ row' = row /\ jar' = jar
      /\ faults' = (faults \ {"trouble"}) \cup {"ended"}
  BY <1>0 DEF logout, Blame, Typed, Shaped
<1> HIDE DEF k
<1> QED
  BY <1>2, <1>3, <1>4, <1>5, LogoutMoves

\* A logout that knows no token only clears the cookies.
LEMMA LookupNothing ==
  ASSUME SInv, NEW b \in Tab, logout_lookup(b), call[logging(b)].token = NoToken
  PROVE  SInv'
<1> DEFINE c == logging(b)
           k == Answered(c, "ok")
<1>0. Typed /\ c \in Calls /\ c[2] = "logout" /\ call[c].pc = "sent" /\ Answer(c, "ok")
  BY CallNames DEF SInv, logout_lookup
<1>1. CallTo(c, k) /\ k.pc = "answer" /\ Sound(c, k)
  BY <1>0, AnswerMoves
<1>2. Shaped /\ row' = row /\ jar' = jar /\ faults' = faults
  BY <1>0 DEF logout_lookup, Typed, Shaped
<1> HIDE DEF k
<1> QED
  BY <1>0, <1>1, <1>2, LogoutMoves

\* The call of a logout ends.
LEMMA LogoutEnds ==
  ASSUME SInv, NEW b \in Tab, call' = [call EXCEPT ![logging(b)] = NoCall]
  PROVE  CallTo(logging(b), NoCall) /\ Sound(logging(b), NoCall)
<1>1. Typed /\ logging(b) \in Calls /\ Len(row) \in Nat
  BY CallNames, RowFacts DEF SInv, Typed
<1>2. CallTo(logging(b), NoCall)
  BY <1>1, CallMoves, NoCallFacts
<1>3. NoCall.token <= Len(row)
  BY <1>1, NoCallFacts DEF NoToken
<1>4. Sound(logging(b), NoCall)
  BY <1>3, NoCallFacts, CallNames DEF Sound
<1> QED
  BY <1>2, <1>4

LEMMA LogoutDoneStep ==
  ASSUME SInv, NEW b \in Tab, logout_done(b)
  PROVE  SInv'
<1>0. Typed /\ call[logging(b)].pc = "answer"
  BY DEF SInv, logout_done
<1>1. CallTo(logging(b), NoCall) /\ Sound(logging(b), NoCall)
  BY LogoutEnds DEF logout_done
<1>2. Shaped /\ row' = row /\ faults' = faults /\ jar'.refresh \in {NoToken, jar.refresh}
  BY <1>0 DEF logout_done, Typed, Shaped
<1> QED
  BY <1>0, <1>1, <1>2, NoCallFacts, LogoutMoves

LEMMA LoseLogoutStep ==
  ASSUME SInv, NEW c \in Calls, c[2] = "logout", Lose(c)
  PROVE  SInv'
<1> DEFINE b == c[1]
<1>0. Typed /\ b \in Tab /\ c = logging(b)
  BY CallNames DEF SInv
<1>1. /\ call' = [call EXCEPT ![logging(b)] = NoCall] /\ row' = row /\ resend' = resend
      /\ faults' = (faults \ {"trouble"}) \cup {"loss"} /\ client' = client
      /\ losses < MaxLosses /\ losses' = losses + 1
      /\ jar' = jar \/ jar' = [refresh |-> NoToken, access |-> 0]
      /\ tab' = [tab EXCEPT ![b] = "signed-out"]
  BY <1>0 DEF Lose, Expire, Blame
<1>2. CallTo(logging(b), NoCall) /\ Sound(logging(b), NoCall)
  BY <1>0, <1>1, LogoutEnds
<1>3. losses' \in 0..MaxLosses
  BY <1>0, <1>1 DEF Typed
<1>4. Shaped /\ jar'.refresh \in {NoToken, jar.refresh}
  BY <1>0, <1>1, <1>3 DEF Shaped, Typed
<1> HIDE DEF b
<1> QED
  BY <1>0, <1>1, <1>2, <1>4, NoCallFacts, LogoutMoves

LEMMA VictimStep ==
  ASSUME SInv, NEW c \in Calls, deadlock_victim(c)
  PROVE  SInv'
<1>0. Typed /\ call[c].pc = "revoke" /\ Answer(c, "error")
  BY DEF SInv, deadlock_victim, Waits, NextRow
<1>1. CASE c[2] = "refresh"
  <2>1. c[1] \in Tab /\ c = refreshing(c[1])
    BY <1>1, CallNames
  <2>2. ~(client # "nolocks" /\ faults = {})
    BY <1>0, <2>1 DEF SInv, Loyal
  <2> QED
    BY <1>0, <2>1, <2>2, Refused DEF deadlock_victim
<1>2. CASE c[2] = "logout"
  <2>1. c[1] \in Tab /\ c = logging(c[1])
    BY <1>2, CallNames
  <2>2. /\ CallTo(c, Answered(c, "error")) /\ Sound(c, Answered(c, "error"))
        /\ Answered(c, "error").pc = "answer"
    BY <1>0, <1>2, AnswerMoves
  <2>3. Shaped /\ row' = row /\ jar' = jar /\ faults' = faults
    BY <1>0 DEF deadlock_victim, Typed, Shaped
  <2> QED
    BY <1>0, <2>1, <2>2, <2>3, LogoutMoves
<1> QED
  BY <1>1, <1>2, CallNames

LEMMA TroubleStep ==
  ASSUME SInv, NEW c \in Calls, server_trouble(c)
  PROVE  SInv'
<1>0. Typed /\ call[c].pc = "sent" /\ Answer(c, "error")
      /\ UNCHANGED <<client, row, jar, tab, resend, losses, faults>>
  BY DEF SInv, server_trouble
<1>1. CASE c[2] = "refresh"
  <2>1. c[1] \in Tab /\ c = refreshing(c[1])
    BY <1>1, CallNames
  <2> QED
    BY <1>0, <2>1, Refused
<1>2. CASE c[2] = "logout"
  <2>1. c[1] \in Tab /\ c = logging(c[1])
    BY <1>2, CallNames
  <2>2. /\ CallTo(c, Answered(c, "error")) /\ Sound(c, Answered(c, "error"))
        /\ Answered(c, "error").pc = "answer"
    BY <1>0, <1>2, AnswerMoves
  <2>3. Shaped /\ row' = row /\ jar' = jar /\ faults' = faults
    BY <1>0 DEF Typed, Shaped
  <2> QED
    BY <1>0, <2>1, <2>2, <2>3, LogoutMoves
<1> QED
  BY <1>1, <1>2, CallNames

(***************************************************************************)
(* The steps of the user and of the access token.                          *)
(***************************************************************************)

\* No call moves and no row changes; there may be trouble at the launch of a tab.
LEMMA RestMoves ==
  ASSUME SInv, call' = call, row' = row, Shaped,
         faults' = faults \/ (faults = {} /\ faults' = {"trouble"}),
         jar'.refresh \in {NoToken, jar.refresh},
         client # "nolocks" /\ faults' = {} =>
           /\ jar'.refresh = jar.refresh /\ jar'.access \in {0, jar.access}
           /\ \A a \in Tab : tab'[a] # "signed-out"
           /\ resend' \subseteq resend
           /\ resend' # {} => jar'.access = jar.access
  PROVE  SInv'
<1>0. Typed /\ client' = client
  BY DEF SInv, Shaped
<1>1. Len(row) \in Nat /\ NoToken <= Len(row) /\ jar.refresh <= Len(row)
  BY <1>0, RowFacts DEF Typed, NoToken
<1>2. jar'.refresh <= Len(row)
  BY <1>1
<1>3. Typed' /\ Exclusive' /\ Chained' /\ Cornered'
  BY <1>2, QuietRest
<1>4. UnderWay' = UnderWay /\ Inserting' = Inserting
  BY DEF UnderWay, Inserting
<1>5. jar.refresh = NoToken \/ jar.refresh \in DOMAIN row
  BY <1>0, <1>1, RowFacts DEF Typed, Token, NoToken
<1>6. \A a \in Tab : Rotated(a)' <=> Rotated(a)
  BY DEF Rotated
<1>7. Bounded'
  BY <1>4, <1>5, <1>6, BoundedKeeps
<1>8. OneAtATime'
  BY <1>0, OneKeeps
<1>9. NoReplay'
  BY <1>0, <1>6 DEF SInv, NoReplay, Harmless
<1>10. Loyal'
  BY <1>0 DEF SInv, Loyal
<1> QED
  BY <1>3, <1>7, <1>8, <1>9, <1>10 DEF SInv

\* A refresh asks for the lock.
LEMMA RefreshStarts ==
  ASSUME SInv, NEW b \in Tab, client = "native" => b = MainTab, NEW boot \in BOOLEAN,
         Refresh(b, boot), row' = row, jar' = jar, faults' = faults, resend' = resend, Shaped,
         client # "nolocks" /\ faults = {} => \A a \in Tab : tab'[a] # "signed-out"
  PROVE  SInv'
<1> DEFINE c == refreshing(b)
           k == [NoCall EXCEPT !.pc = "queued", !.boot = boot]
<1>0. /\ Typed /\ c \in Calls /\ c[2] = "refresh" /\ call[c].pc = "idle" /\ client' = client
      /\ jar.refresh <= Len(row)
  BY CallNames DEF SInv, Typed, Refresh, Shaped
<1>1. /\ k \in Call /\ k.pc = "queued" /\ k.held = {} /\ k.token = NoToken /\ k.snap = {}
  BY DEF Call, NoCall
<1>2. CallTo(c, k)
  BY <1>0, <1>1, CallMoves DEF Refresh
<1>3. Len(row) \in Nat /\ NoToken <= Len(row)
  BY <1>0, RowFacts DEF Typed, NoToken
<1>4. Sound(c, k)
  BY <1>0, <1>1, <1>3 DEF Sound
<1> HIDE DEF k
<1>5. Typed' /\ Exclusive' /\ Chained' /\ Cornered'
  BY <1>0, <1>1, <1>2, <1>4, QuietCall
<1>6. /\ \A a \in Tab : a # b => call'[refreshing(a)] = call[refreshing(a)]
      /\ \A a \in Tab : call'[logging(a)] = call[logging(a)]
      /\ call'[c] = k
  BY <1>2, Others
<1>7. \A a \in Tab : Rotated(a)' <=> Rotated(a)
  BY <1>0, <1>1, <1>6 DEF Rotated
<1>8. UnderWay' = UnderWay \cup {b} /\ b \notin UnderWay
  BY <1>0, <1>1, <1>6 DEF UnderWay
<1>9. IsFiniteSet(UnderWay)
  BY DEF SInv, Bounded
<1>10. /\ IsFiniteSet(UnderWay') /\ Cardinality(UnderWay') = Cardinality(UnderWay) + 1
       /\ Cardinality(UnderWay) \in Nat
  BY <1>8, <1>9, FS_AddElement, FS_CardinalityType
<1>11. Bounded'
  <2>1. CASE Room
    <3>1. Inserting' \subseteq UnderWay'
      BY DEF Inserting
    <3>2. Cardinality(Inserting') <= Cardinality(UnderWay') /\ Cardinality(Inserting') \in Nat
      BY <1>10, <3>1, FS_Subset, FS_CardinalityType
    <3>3. Len(row) + Cardinality(UnderWay) < MaxTokens
      BY <2>1 DEF Room
    <3>4. Len(row) + Cardinality(Inserting') <= MaxTokens
      BY <1>3, <1>10, <3>2, <3>3
    <3> QED
      BY <1>10, <3>4 DEF Bounded
  <2>2. CASE ~Room
    <3>1. Spent /\ UnderWay = {}
      BY <2>2 DEF Refresh
    <3>2. Cardinality(UnderWay) = 0
      BY <3>1, FS_EmptySet
    <3>3. Len(row) >= MaxTokens
      BY <1>3, <2>2, <3>2 DEF Room
    <3>4. Len(row) <= MaxTokens
      <4>1. Inserting = {}
        BY <3>1 DEF Inserting
      <4>2. Cardinality(Inserting) = 0
        BY <4>1, FS_EmptySet
      <4> QED
        BY <1>3, <4>2 DEF SInv, Bounded
    <3>5. Len(row) = MaxTokens
      BY <1>3, <3>3, <3>4
    <3>6. Harmless(jar.refresh)'
      BY <3>1 DEF Spent, Harmless
    <3>7. \A a \in Tab : a # b => call'[refreshing(a)].pc = "idle"
      BY <1>6, <3>1 DEF UnderWay
    <3> QED
      BY <1>1, <1>6, <1>10, <3>5, <3>6, <3>7 DEF Bounded
  <2> QED
    BY <2>1, <2>2
<1>12. OneAtATime'
  BY <1>0, <1>1, <1>6, OneKeeps
<1>13. NoReplay'
  <2>1. NoReplay
    BY DEF SInv
  <2>2. \A a \in Tab : /\ call'[refreshing(a)].pc = "sent" \/ Rotated(a)'
                            => call'[refreshing(a)] = call[refreshing(a)] /\ Rotated(a)' = Rotated(a)
                       /\ call'[refreshing(a)].pc = "answer"
                            => call'[refreshing(a)] = call[refreshing(a)]
    BY <1>1, <1>6 DEF Rotated
  <2>3. Harmless(jar.refresh)' <=> Harmless(jar.refresh)
    BY DEF Harmless
  <2> QED
    BY <1>0, <1>7, <2>1, <2>2, <2>3 DEF NoReplay
<1>14. Loyal'
  BY <1>0, <1>1, <1>6 DEF SInv, Loyal
<1> QED
  BY <1>5, <1>11, <1>12, <1>13, <1>14 DEF SInv

\* While nothing has ended the first session, it is alive.
LEMMA FirstLives ==
  ASSUME SInv, client # "nolocks", faults = {}
  PROVE  Live(1) /\ jar.refresh # NoToken /\ jar.access \in {0, 1}
<1>1. /\ \A t \in DOMAIN row : row[t].valid /\ row[t].family = 1
      /\ jar.refresh # NoToken /\ jar.access \in {0, 1}
  BY DEF SInv, Loyal
<1>2. jar.refresh \in DOMAIN row
  BY <1>1, RowFacts DEF SInv, Typed, Token, NoToken
<1> QED
  BY <1>1, <1>2 DEF Live, Tokens

LEMMA BootstrapStep ==
  ASSUME SInv, NEW b \in Tabs, bootstrap(b)
  PROVE  SInv'
<1>0. Typed /\ b \in Tab /\ (client = "native" => b = MainTab)
  BY DEF SInv, Tabs
<1>1. /\ row' = row /\ jar' = jar /\ resend' = resend /\ client' = client
      /\ losses' = losses
      /\ tab' \in {[tab EXCEPT ![b] = s] :
                     s \in {"signed-out", "loading", "signed-in", "unreachable"}}
      /\ faults' = faults \/ (faults = {} /\ faults' = {"trouble"} /\ call' = call)
  BY DEF bootstrap, bootstrap_web
<1>2. Shaped
  BY <1>0, <1>1 DEF Typed, Shaped
<1>3. client # "nolocks" /\ faults = {} => \A a \in Tab : tab[a] # "signed-out"
  BY DEF SInv, Loyal
<1>4. client # "nolocks" /\ faults' = {} => tab' # [tab EXCEPT ![b] = "signed-out"]
  <2>1. client # "nolocks" /\ faults' = {} => jar.refresh # NoToken
    BY <1>1, FirstLives
  <2>2. tab' = [tab EXCEPT ![b] = "signed-out"] => tab'[b] = "signed-out"
    BY <1>0 DEF Typed
  <2>3. tab'[b] = "signed-out" => jar.refresh = NoToken \/ faults' # {}
    BY <1>0 DEF bootstrap, bootstrap_web, Typed
  <2> QED
    BY <2>1, <2>2, <2>3
<1>5. client # "nolocks" /\ faults' = {} => \A a \in Tab : tab'[a] # "signed-out"
  BY <1>0, <1>1, <1>3, <1>4 DEF Typed
<1>6. CASE Refresh(b, TRUE) /\ faults' = faults
  BY <1>0, <1>1, <1>2, <1>5, <1>6, RefreshStarts
<1>7. CASE call' = call
  BY <1>1, <1>2, <1>5, <1>7, RestMoves
<1> QED
  BY <1>6, <1>7 DEF bootstrap, bootstrap_web

LEMMA RefusedStep ==
  ASSUME SInv, NEW b \in Tabs, request_refused(b)
  PROVE  SInv'
<1>0. Typed /\ b \in Tab /\ (client = "native" => b = MainTab)
  BY DEF SInv, Tabs
<1>1. row' = row /\ resend' = resend /\ faults' = faults /\ client' = client /\ losses' = losses
  BY DEF request_refused
<1>2. CASE Refresh(b, FALSE) /\ tab' = tab /\ jar' = jar
  <2>1. Shaped
    BY <1>0, <1>1, <1>2 DEF Typed, Shaped
  <2>2. client # "nolocks" /\ faults = {} => \A a \in Tab : tab[a] # "signed-out"
    BY DEF SInv, Loyal
  <2> QED
    BY <1>0, <1>1, <1>2, <2>1, <2>2, RefreshStarts
<1>3. CASE call' = call /\ Expire(b) /\ jar.access # 0 /\ ~Live(jar.access)
  <2>1. ~(client # "nolocks" /\ faults = {})
    BY <1>3, FirstLives
  <2>2. Shaped /\ jar'.refresh \in {NoToken, jar.refresh}
    BY <1>0, <1>1, <1>3 DEF Typed, Shaped, Expire
  <2> QED
    BY <1>1, <1>3, <2>1, <2>2, RestMoves
<1> QED
  BY <1>2, <1>3 DEF request_refused

LEMMA AgainStep ==
  ASSUME SInv, NEW b \in Tab, request_again(b)
  PROVE  SInv'
<1>0. Typed
  BY DEF SInv
<1>1. row' = row /\ resend' \subseteq resend /\ faults' = faults /\ client' = client
      /\ losses' = losses /\ call' = call
  BY DEF request_again
<1>2. CASE jar' = jar /\ tab' = tab
  <2>1. Shaped
    BY <1>0, <1>1, <1>2 DEF Typed, Shaped
  <2>2. client # "nolocks" /\ faults = {} => \A a \in Tab : tab[a] # "signed-out"
    BY DEF SInv, Loyal
  <2> QED
    BY <1>1, <1>2, <2>1, <2>2, RestMoves
<1>3. CASE Expire(b) /\ ~(jar.access # 0 /\ Live(jar.access))
  <2>1. ~(client # "nolocks" /\ faults = {})
    <3>1. client # "nolocks" /\ faults = {} => jar.access # 0
      BY DEF SInv, Loyal, request_again
    <3> QED
      BY <1>3, <3>1, FirstLives
  <2>2. Shaped /\ jar'.refresh \in {NoToken, jar.refresh}
    BY <1>0, <1>1, <1>3 DEF Typed, Shaped, Expire
  <2> QED
    BY <1>1, <1>3, <2>1, <2>2, RestMoves
<1> QED
  BY <1>2, <1>3 DEF request_again

LEMMA AccessStep ==
  ASSUME SInv, AccessExpires
  PROVE  SInv'
<1>0. Typed
  BY DEF SInv
<1>1. /\ row' = row /\ resend' = {} /\ faults' = faults /\ client' = client
      /\ losses' = losses /\ call' = call /\ tab' = tab
      /\ jar'.refresh = jar.refresh /\ jar'.access = 0
  BY <1>0 DEF AccessExpires, Typed
<1>2. Shaped
  BY <1>0, <1>1 DEF Typed, Shaped, AccessExpires
<1>3. client # "nolocks" /\ faults = {} => \A a \in Tab : tab[a] # "signed-out"
  BY DEF SInv, Loyal
<1> QED
  BY <1>1, <1>2, <1>3, RestMoves

(***************************************************************************)
(* The steps of the server's transactions.                                 *)
(***************************************************************************)

\* There are never more tokens than the bound.
LEMMA WithinBound ==
  ASSUME SInv
  PROVE  Len(row) \in Nat /\ Len(row) <= MaxTokens /\ DOMAIN row \subseteq Token
<1>1. Len(row) \in Nat /\ DOMAIN row = 1..Len(row)
  BY RowFacts DEF SInv, Typed
<1>2. Len(row) <= MaxTokens
  <2>1. Inserting \subseteq UnderWay
    BY DEF Inserting
  <2>2. IsFiniteSet(UnderWay)
    BY DEF SInv, Bounded
  <2>3. Cardinality(Inserting) \in Nat
    BY <2>1, <2>2, FS_Subset, FS_CardinalityType
  <2>4. Len(row) + Cardinality(Inserting) <= MaxTokens \/ Len(row) = MaxTokens
    BY DEF SInv, Bounded
  <2>5. \A m, n \in Nat : m + n <= MaxTokens \/ m = MaxTokens => m <= MaxTokens
    OBVIOUS
  <2> QED
    BY <1>1, <2>3, <2>4, <2>5
<1> QED
  BY <1>1, <1>2 DEF Token

\* A call moves to or within a transaction that revokes; nobody gets a new
\* token.
LEMMA RevokerMoves ==
  ASSUME SInv, NEW c \in Calls, NEW k, CallTo(c, k), Sound(c, k), k.pc = "revoke",
         call[c].pc \in {"sent", "revoke"}, k.token = call[c].token,
         UNCHANGED <<client, row, jar, tab, resend, losses>>,
         Shaped, \A d \in Calls \ {c} : k.held \cap call[d].held = {},
         ~k.raced => LET f == row[k.token].family IN
                     ~Rotating(f) /\ \A t \in Tokens(f) : row[t].valid => t \in k.snap
  PROVE  /\ Typed' /\ Exclusive' /\ Chained' /\ Cornered' /\ Bounded' /\ OneAtATime'
         /\ \A b \in Tab : \/ call'[refreshing(b)] = call[refreshing(b)]
                           \/ c = refreshing(b) /\ call'[refreshing(b)] = k
<1>0. Typed /\ Exclusive /\ Chained /\ Cornered
  BY DEF SInv
<1>1. Typed'
  BY <1>0 DEF Typed, Shaped, CallTo, Sound
<1>2. Exclusive'
  BY <1>0 DEF Exclusive, CallTo
<1>3. Families' = Families /\ \A f : Tokens(f)' = Tokens(f) /\ Unused(f)' = Unused(f)
  BY DEF Families, Tokens, Unused
<1>4. Chained'
  BY <1>0, <1>3 DEF Chained, CallTo
<1>5. \A f : Rotating(f)' => Rotating(f)
  BY DEF Rotating, CallTo
<1>6. Cornered'
  <2>1. ASSUME NEW d \in Calls, call'[d].pc = "revoke", ~call'[d].raced
        PROVE  LET f == row[call'[d].token].family IN
               ~Rotating(f) /\ \A t \in Tokens(f) : row[t].valid => t \in call'[d].snap
    BY <1>0, <2>1 DEF Cornered, CallTo
  <2> QED
    BY <1>3, <1>5, <2>1 DEF Cornered, Tokens
<1>7. \A b \in Tab : \/ call'[refreshing(b)] = call[refreshing(b)]
                     \/ c = refreshing(b) /\ call'[refreshing(b)] = k
  BY CallNames DEF CallTo
<1>8. UnderWay' \subseteq UnderWay
  BY <1>7 DEF UnderWay
<1>9. Inserting' \subseteq Inserting
  BY <1>7, <1>8 DEF Inserting, UnderWay
<1>10. \A b \in Tab : Rotated(b)' => Rotated(b)
  BY <1>7 DEF Rotated
<1>11. jar.refresh = NoToken \/ jar.refresh \in DOMAIN row
  BY <1>0, RowFacts DEF Typed, Token, NoToken
<1>12. Bounded'
  BY <1>7, <1>8, <1>9, <1>10, <1>11, BoundedKeeps
<1>13. OneAtATime'
  BY <1>7, OneKeeps
<1> QED
  BY <1>1, <1>2, <1>4, <1>6, <1>7, <1>12, <1>13

\* A revoking update of the family of the presented token begins.
LEMMA StartMoves ==
  ASSUME SInv, NEW c \in Calls, call[c].pc = "sent", call[c].token # NoToken,
         NEW held, held = {} \/ (held = {call[c].token} /\ ~LockedByOther(c, call[c].token)),
         StartRevoking(c, held),
         UNCHANGED <<client, row, jar, tab, resend, losses>>,
         Shaped
  PROVE  /\ Typed' /\ Exclusive' /\ Chained' /\ Cornered' /\ Bounded' /\ OneAtATime'
         /\ \A b \in Tab : \/ call'[refreshing(b)] = call[refreshing(b)]
                           \/ c = refreshing(b) /\ call'[refreshing(b)].pc = "revoke"
<1> DEFINE f == row[call[c].token].family
           found == {t \in Tokens(f) : row[t].valid}
           raced == Rotating(f)
           k == [call[c] EXCEPT !.pc = "revoke", !.held = held, !.raced = raced, !.snap = found]
<1>0. Typed /\ call[c] \in Call /\ Sound(c, call[c]) /\ call[c].token \in DOMAIN row
  BY Presented DEF SInv, Typed
<1>1. found \subseteq DOMAIN row /\ found \subseteq Token /\ held \subseteq DOMAIN row
      /\ held \subseteq Token
  BY <1>0, WithinBound DEF Tokens
<1>2. raced \in BOOLEAN
  BY DEF Rotating
<1>3. call' = [call EXCEPT ![c] = k]
  BY <1>0 DEF StartRevoking, Typed
<1> HIDE DEF found, raced
<1>4. /\ k \in Call /\ k.pc = "revoke" /\ k.held = held /\ k.raced = raced /\ k.snap = found
      /\ k.token = call[c].token
  BY <1>0, <1>1, <1>2 DEF Call
<1>5. CallTo(c, k)
  BY <1>0, <1>3, <1>4, CallMoves
<1>6. c[2] = "logout" => k.pc = "revoke"
  BY <1>4
<1>7. Sound(c, k)
  BY <1>0, <1>1, <1>4 DEF Sound
<1> HIDE DEF k
<1>8. \A d \in Calls \ {c} : k.held \cap call[d].held = {}
  BY <1>4 DEF LockedByOther
<1>9. ~k.raced => ~Rotating(f) /\ \A t \in Tokens(f) : row[t].valid => t \in k.snap
  BY <1>4 DEF found, raced
<1>10. /\ Typed' /\ Exclusive' /\ Chained' /\ Cornered' /\ Bounded' /\ OneAtATime'
       /\ \A b \in Tab : \/ call'[refreshing(b)] = call[refreshing(b)]
                         \/ c = refreshing(b) /\ call'[refreshing(b)] = k
  BY <1>4, <1>5, <1>7, <1>8, <1>9, RevokerMoves
<1> QED
  BY <1>4, <1>10

LEMMA ReuseStep ==
  ASSUME SInv, NEW b \in Tab, refresh_reuse(b)
  PROVE  SInv'
<1> DEFINE c == refreshing(b)
<1>0. Typed /\ c \in Calls /\ call[c].pc = "sent" /\ call[c].token # NoToken
      /\ ~LockedByOther(c, call[c].token) /\ row[call[c].token].used = "old"
      /\ StartRevoking(c, {call[c].token}) /\ faults' = (faults \ {"trouble"}) \cup {"reuse"}
      /\ UNCHANGED <<client, row, jar, tab, resend, losses>>
  BY CallNames DEF SInv, refresh_reuse, Selected, Blame
<1>1. Shaped
  BY <1>0 DEF Typed, Shaped
<1>2. /\ Typed' /\ Exclusive' /\ Chained' /\ Cornered' /\ Bounded' /\ OneAtATime'
  BY <1>0, <1>1, StartMoves
<1>3. ~(client # "nolocks" /\ "loss" \notin faults)
  BY <1>0 DEF SInv, NoReplay
<1>4. NoReplay'
  BY <1>0, <1>3 DEF NoReplay
<1>5. Loyal'
  BY <1>0 DEF Loyal
<1> QED
  BY <1>2, <1>4, <1>5 DEF SInv

LEMMA LookupStep ==
  ASSUME SInv, NEW b \in Tab, logout_lookup(b)
  PROVE  SInv'
<1> DEFINE c == logging(b)
<1>1. CASE call[c].token = NoToken
  BY <1>1, LookupNothing
<1>2. CASE call[c].token # NoToken
  <2>0. Typed /\ c \in Calls /\ call[c].pc = "sent" /\ StartRevoking(c, {})
        /\ UNCHANGED <<client, row, jar, tab, resend, losses, faults>>
    BY <1>2, CallNames DEF SInv, logout_lookup
  <2>1. Shaped
    BY <2>0 DEF Typed, Shaped
  <2>2. /\ Typed' /\ Exclusive' /\ Chained' /\ Cornered' /\ Bounded' /\ OneAtATime'
        /\ \A a \in Tab : call'[refreshing(a)] = call[refreshing(a)]
    BY <1>2, <2>0, <2>1, StartMoves, CallNames
  <2>3. NoReplay'
    BY <2>0, <2>2 DEF SInv, NoReplay, Harmless, Rotated
  <2>4. Loyal'
    BY <2>0 DEF SInv, Loyal
  <2> QED
    BY <2>2, <2>3, <2>4 DEF SInv
<1> QED
  BY <1>1, <1>2

LEMMA LockStep ==
  ASSUME SInv, NEW c \in Calls, NEW t \in DOMAIN row, LockRow(c, t)
  PROVE  SInv'
<1> DEFINE held == call[c].held \cup {t}
           k == [call[c] EXCEPT !.held = held]
<1>0. /\ Typed /\ call[c] \in Call /\ Sound(c, call[c]) /\ call[c].pc = "revoke"
      /\ t \in call[c].snap /\ ~LockedByOther(c, t)
      /\ UNCHANGED <<client, row, jar, tab, resend, losses, faults>>
  BY DEF SInv, Typed, LockRow, NextRow
<1>1. held \subseteq DOMAIN row /\ held \subseteq Token
  BY <1>0 DEF Sound, Call
<1>2. call' = [call EXCEPT ![c] = k]
  BY <1>0 DEF LockRow, Typed
<1> HIDE DEF held
<1>3. /\ k \in Call /\ k.pc = "revoke" /\ k.held = held /\ k.raced = call[c].raced
      /\ k.snap = call[c].snap /\ k.token = call[c].token
  BY <1>0, <1>1 DEF Call
<1>4. CallTo(c, k)
  BY <1>0, <1>2, <1>3, CallMoves
<1>5. Sound(c, k)
  BY <1>0, <1>1, <1>3 DEF Sound
<1> HIDE DEF k
<1>6. \A d \in Calls \ {c} : k.held \cap call[d].held = {}
  BY <1>0, <1>3 DEF SInv, Exclusive, LockedByOther, held
<1>7. ~k.raced => LET f == row[k.token].family IN
                  ~Rotating(f) /\ \A u \in Tokens(f) : row[u].valid => u \in k.snap
  BY <1>0, <1>3 DEF SInv, Cornered
<1>8. Shaped
  BY <1>0 DEF Typed, Shaped
<1>9. /\ Typed' /\ Exclusive' /\ Chained' /\ Cornered' /\ Bounded' /\ OneAtATime'
      /\ \A a \in Tab : \/ call'[refreshing(a)] = call[refreshing(a)]
                        \/ c = refreshing(a) /\ call'[refreshing(a)] = k
  BY <1>0, <1>3, <1>4, <1>5, <1>6, <1>7, <1>8, RevokerMoves
<1>10. NoReplay'
  BY <1>0, <1>3, <1>9 DEF SInv, NoReplay, Harmless, Rotated
<1>11. Loyal'
  <2>1. ~(client # "nolocks" /\ faults = {})
    BY <1>0, CallNames DEF SInv, Loyal
  <2> QED
    BY <1>0, <2>1 DEF Loyal
<1> QED
  BY <1>9, <1>10, <1>11 DEF SInv

LEMMA RotateStep ==
  ASSUME SInv, NEW b \in Tab, refresh_rotate(b)
  PROVE  SInv'
<1> DEFINE c == refreshing(b)
           t == call[c].token
           k == [call[c] EXCEPT !.pc = "rotate", !.held = {t}]
           overlapped(d) == call[d].pc = "revoke" /\ row[call[d].token].family = row[t].family
           other(d) == [call[d] EXCEPT !.raced = call[d].raced \/ overlapped(d)]
<1>0. /\ Typed /\ Exclusive /\ Chained /\ Cornered /\ c \in Calls /\ c[2] = "refresh"
      /\ call[c] \in Call /\ Sound(c, call[c]) /\ call[c].pc = "sent"
      /\ t # NoToken /\ row[t].valid /\ row[t].used = "no" /\ ~LockedByOther(c, t)
      /\ UNCHANGED <<client, row, jar, tab, resend, losses, faults>>
  BY CallNames DEF SInv, Typed, refresh_rotate, Selected
<1>1. t \in DOMAIN row /\ t \in Token
  BY <1>0, Presented DEF Call, NoToken
<1>2. k \in Call /\ k.pc = "rotate" /\ k.held = {t} /\ k.token = t /\ k.snap = call[c].snap
  BY <1>0, <1>1 DEF Call
<1>3. Sound(c, k)
  BY <1>0, <1>1, <1>2 DEF Sound
<1>4. ASSUME NEW d \in Calls
      PROVE  /\ other(d) \in Call /\ other(d).pc = call[d].pc /\ other(d).held = call[d].held
             /\ other(d).token = call[d].token /\ other(d).snap = call[d].snap
             /\ other(d).reply = call[d].reply
             /\ other(d).raced = (call[d].raced \/ overlapped(d))
  <2>1. call[d] \in Call /\ (call[d].raced \/ overlapped(d)) \in BOOLEAN
    BY <1>0 DEF Typed, Call
  <2> HIDE DEF overlapped
  <2> QED
    BY <2>1 DEF Call
<1>5. call' \in [Calls -> Call] /\ call'[c] = k /\ \A d \in Calls \ {c} : call'[d] = other(d)
  <2>1. call' = [d \in Calls |-> IF d = c THEN k ELSE other(d)]
    BY DEF refresh_rotate
  <2> HIDE DEF k, other, overlapped
  <2> QED
    BY <1>0, <1>2, <1>4, <2>1
<1>6. ASSUME NEW d \in Calls \ {c}
      PROVE  /\ call'[d].pc = call[d].pc /\ call'[d].held = call[d].held
             /\ call'[d].token = call[d].token /\ call'[d].snap = call[d].snap
             /\ call'[d].reply = call[d].reply
             /\ call'[d].raced = (call[d].raced \/ overlapped(d))
  <2>1. call'[d] = other(d)
    BY <1>5
  <2> HIDE DEF other, overlapped
  <2> QED
    BY <1>4, <2>1
<1> HIDE DEF k, other
<1>7. Typed'
  <2>1. \A d \in Calls : Sound(d, call'[d])
    <3>1. ASSUME NEW d \in Calls \ {c}
          PROVE  Sound(d, call'[d])
      <4>1. Sound(d, call[d])
        BY <1>0 DEF Typed
      <4> QED
        BY <1>6, <4>1 DEF Sound
    <3> QED
      BY <1>3, <1>5, <3>1
  <2>2. \A d \in Calls : Sound(d, call[d])'
    BY <1>0, <2>1 DEF Sound
  <2> QED
    BY <1>0, <1>5, <2>2 DEF Typed
<1>8. Exclusive'
  BY <1>0, <1>2, <1>5, <1>6 DEF Exclusive, LockedByOther
<1>9. Families' = Families /\ \A f : Tokens(f)' = Tokens(f) /\ Unused(f)' = Unused(f)
  BY <1>0 DEF Families, Tokens, Unused
<1>10. Chained'
  BY <1>0, <1>2, <1>5, <1>6, <1>9 DEF Chained
<1>11. Cornered'
  <2>1. ASSUME NEW d \in Calls, call'[d].pc = "revoke", ~call'[d].raced,
               NEW f, f = row[call'[d].token].family
        PROVE  ~Rotating(f)' /\ \A u \in Tokens(f) : row[u].valid => u \in call'[d].snap
    <3>1. d # c
      BY <1>2, <1>5, <2>1
    <3>2. call[d].pc = "revoke" /\ ~call[d].raced /\ f = row[call[d].token].family
          /\ call'[d].snap = call[d].snap /\ row[t].family # f
      BY <1>6, <2>1, <3>1
    <3>3. ~Rotating(f) /\ \A u \in Tokens(f) : row[u].valid => u \in call[d].snap
      BY <1>0, <3>2 DEF Cornered
    <3>4. ASSUME NEW e \in Calls, call'[e].pc = "rotate"
          PROVE  row'[call'[e].token].family # f
      BY <1>0, <1>2, <1>5, <1>6, <3>2, <3>3, <3>4 DEF Rotating
    <3> QED
      BY <3>2, <3>3, <3>4 DEF Rotating
  <2> QED
    BY <1>0, <1>9, <2>1 DEF Cornered, Tokens
<1>12. ASSUME NEW a \in Tab, a # b
       PROVE  /\ call'[refreshing(a)].pc = call[refreshing(a)].pc
              /\ call'[refreshing(a)].token = call[refreshing(a)].token
              /\ call'[refreshing(a)].reply = call[refreshing(a)].reply
  BY <1>6, <1>12, CallNames
<1>13. ASSUME NEW a \in Tab PROVE call'[logging(a)].pc = call[logging(a)].pc
  BY <1>6, CallNames
<1>14. \A a \in Tab : Rotated(a)' <=> Rotated(a)
  BY <1>0, <1>2, <1>5, <1>12 DEF Rotated
<1>15. Bounded'
  <2>1. UnderWay' \subseteq UnderWay
    BY <1>0, <1>12 DEF UnderWay
  <2>2. Inserting' \subseteq Inserting
    BY <1>0, <1>12, <2>1 DEF Inserting, UnderWay
  <2>3. jar.refresh = NoToken \/ jar.refresh \in DOMAIN row
    BY <1>0, RowFacts DEF Typed, Token, NoToken
  <2>4. ~Harmless(t)
    BY <1>0 DEF Harmless
  <2> QED
    BY <1>0, <1>2, <1>5, <1>12, <1>14, <2>1, <2>2, <2>3, <2>4, BoundedKeeps
<1>16. OneAtATime'
  BY <1>0, <1>12, OneKeeps
<1>17. NoReplay'
  BY <1>0, <1>2, <1>5, <1>12, <1>14 DEF SInv, NoReplay, Harmless, Rotated
<1>18. Loyal'
  BY <1>0, <1>2, <1>5, <1>12, <1>13 DEF SInv, Loyal
<1> QED
  BY <1>7, <1>8, <1>10, <1>11, <1>15, <1>16, <1>17, <1>18 DEF SInv

\* No family that is over comes to life.
Buried == \A f \in Families : Live(f)' => Live(f)

\* A row is inserted.
LEMMA Inserted ==
  ASSUME row \in Seq(TokenRow), NEW r \in Seq(TokenRow), Len(r) = Len(row),
         NEW x \in TokenRow, row' = Append(r, x)
  PROVE  /\ row' \in Seq(TokenRow) /\ Len(row') = Len(row) + 1 /\ Len(row) \in Nat
         /\ DOMAIN row' = DOMAIN row \cup {Len(row) + 1} /\ Len(row) + 1 \notin DOMAIN row
         /\ row'[Len(row) + 1] = x
         /\ \A u \in DOMAIN row : row'[u] = r[u] /\ u # Len(row) + 1
<1>1. Len(row) \in Nat /\ DOMAIN row = 1..Len(row) /\ DOMAIN r = 1..Len(row)
  BY LenProperties
<1>2. /\ row' \in Seq(TokenRow) /\ Len(row') = Len(row) + 1 /\ row'[Len(row) + 1] = x
      /\ \A u \in 1..Len(row) : row'[u] = r[u]
  BY <1>1, AppendProperties
<1>3. DOMAIN row' = 1..(Len(row) + 1)
  BY <1>2, LenProperties
<1> QED
  BY <1>1, <1>2, <1>3

LEMMA CommitStep ==
  ASSUME SInv, NEW b \in Tab, rotate_commit(b)
  PROVE  SInv' /\ Buried
<1> DEFINE c == refreshing(b)
           t == call[c].token
           n == Len(row) + 1
           r == [row EXCEPT ![t].used = "grace"]
           k == [call[c] EXCEPT !.pc = "answer", !.reply = "ok", !.token = n, !.held = {}]
<1>0. /\ Typed /\ Exclusive /\ Chained /\ Cornered /\ c \in Calls /\ c[2] = "refresh"
      /\ call[c] \in Call /\ Sound(c, call[c]) /\ call[c].pc = "rotate"
      /\ row \in Seq(TokenRow)
      /\ UNCHANGED <<client, jar, tab, resend, losses, faults>>
  BY CallNames DEF SInv, Typed, rotate_commit
<1>1. /\ t # NoToken /\ call[c].held = {t} /\ t \in DOMAIN row
      /\ row[t].used = "no" /\ row[t].valid
  BY <1>0, Presented DEF Sound, Chained
<1> PICK g : g = row[t].family
  OBVIOUS
<1>2. /\ \A u \in DOMAIN row : row[u] \in TokenRow /\ row[u].family \in Families
      /\ g \in Families /\ g \in 1..MaxFamilies /\ Len(row) \in Nat
      /\ DOMAIN row = 1..Len(row)
  BY <1>0, <1>1, RowFacts
<1>3. /\ r \in Seq(TokenRow) /\ Len(r) = Len(row)
      /\ \A u \in DOMAIN row : /\ r[u].family = row[u].family /\ r[u].valid = row[u].valid
                               /\ r[u].used = IF u = t THEN "grace" ELSE row[u].used
  <2> DEFINE x == [row[t] EXCEPT !.used = "grace"]
  <2>1. row[t] \in TokenRow
    BY <1>1, <1>2
  <2>2. x \in TokenRow /\ x.family = row[t].family /\ x.valid = row[t].valid /\ x.used = "grace"
    BY <2>1 DEF TokenRow
  <2>3. r = [row EXCEPT ![t] = x]
    BY <1>0, <1>1
  <2> HIDE DEF x
  <2>4. r \in Seq(TokenRow) /\ Len(r) = Len(row)
    BY <1>0, <1>1, <1>2, <2>2, <2>3, ExceptSeq
  <2>5. \A u \in DOMAIN row : r[u] = IF u = t THEN x ELSE row[u]
    BY <1>1, <2>3
  <2> QED
    BY <2>2, <2>4, <2>5
<1>4. Fresh(g) \in TokenRow
  BY <1>2 DEF Fresh, TokenRow
<1>5. /\ row' \in Seq(TokenRow) /\ Len(row') = n
      /\ DOMAIN row' = DOMAIN row \cup {n} /\ n \notin DOMAIN row
      /\ row'[n] = Fresh(g)
      /\ \A u \in DOMAIN row : row'[u] = r[u] /\ u # n
  <2>1. row' = Append(r, Fresh(g))
    BY DEF rotate_commit
  <2> HIDE DEF r
  <2> QED
    BY <1>0, <1>3, <1>4, <2>1, Inserted
<1> HIDE DEF r, n
<1>6. /\ \A u \in DOMAIN row : /\ row'[u].family = row[u].family /\ row'[u].valid = row[u].valid
                               /\ row'[u].used = IF u = t THEN "grace" ELSE row[u].used
      /\ row'[n].family = g /\ row'[n].valid /\ row'[n].used = "no"
  <2>1. Fresh(g).family = g /\ Fresh(g).valid /\ Fresh(g).used = "no"
    BY DEF Fresh
  <2> QED
    BY <1>3, <1>5, <2>1
<1>7. /\ n + Cardinality(Inserting \ {b}) <= MaxTokens /\ n <= MaxTokens
      /\ IsFiniteSet(UnderWay) /\ b \in Inserting /\ n \in Nat
  <2>1. /\ IsFiniteSet(UnderWay) /\ Len(row) + Cardinality(Inserting) <= MaxTokens
    BY <1>0 DEF SInv, Bounded
  <2>2. b \in Inserting
    BY <1>0 DEF Inserting, UnderWay
  <2>3. IsFiniteSet(Inserting)
    BY <2>1, FS_Subset DEF Inserting
  <2>4. /\ Cardinality(Inserting \ {b}) = Cardinality(Inserting) - 1
        /\ Cardinality(Inserting) \in Nat
        /\ Cardinality(Inserting \ {b}) \in Nat
    BY <2>2, <2>3, FS_RemoveElement, FS_CardinalityType, FS_Subset
  <2>5. \A m, i, j \in Nat : m + i <= MaxTokens /\ j = i - 1
          => (m + 1) + j <= MaxTokens /\ m + 1 <= MaxTokens
    OBVIOUS
  <2> QED
    BY <1>2, <2>1, <2>2, <2>4, <2>5 DEF n
<1>8. /\ k \in Call /\ k.pc = "answer" /\ k.reply = "ok" /\ k.token = n /\ k.held = {}
      /\ k.snap = call[c].snap
  <2>1. n \in Token
    BY <1>2, <1>7 DEF Token, n
  <2> QED
    BY <1>0, <2>1 DEF Call
<1>9. CallTo(c, k)
  <2>1. call' = [call EXCEPT ![c] = k]
    BY <1>0 DEF rotate_commit, Typed, n
  <2> QED
    BY <1>0, <1>8, <2>1, CallMoves
<1> HIDE DEF k
<1>10. /\ \A a \in Tab : a # b => call'[refreshing(a)] = call[refreshing(a)]
       /\ \A a \in Tab : call'[logging(a)] = call[logging(a)]
       /\ call'[c] = k /\ call' \in [Calls -> Call]
       /\ \A d \in Calls \ {c} : call'[d] = call[d]
  BY <1>9, Others DEF CallTo
<1>11. Len(row) <= n /\ n # NoToken /\ n \in DOMAIN row'
  BY <1>2, <1>5 DEF n, NoToken
<1>12. Typed'
  <2>1. \A d \in Calls \ {c} : Sound(d, call[d])'
    <3>1. ASSUME NEW d \in Calls \ {c}
          PROVE  Sound(d, call[d])'
      <4>1. Sound(d, call[d]) /\ call[d] \in Call /\ call'[d] = call[d]
        BY <1>0, <1>10 DEF Typed
      <4>2. call[d].token <= Len(row')
        BY <1>2, <1>5, <1>7, <1>11, <4>1 DEF Sound, Call, Token, NoToken
      <4> QED
        BY <1>5, <4>1, <4>2 DEF Sound
    <3> QED
      BY <3>1
  <2>2. Sound(c, call[c])'
    <3>1. k.token <= Len(row')
      BY <1>5, <1>7, <1>8
    <3>2. k.snap \subseteq DOMAIN row'
      BY <1>0, <1>5, <1>8 DEF Sound
    <3> QED
      BY <1>0, <1>8, <1>10, <1>11, <3>1, <3>2 DEF Sound
  <2>3. jar'.refresh <= Len(row')
    BY <1>0, <1>2, <1>5, <1>7, <1>11 DEF Typed, Token, NoToken
  <2> QED
    BY <1>0, <1>5, <1>10, <2>1, <2>2, <2>3 DEF Typed
<1>13. Exclusive'
  BY <1>0, <1>8, <1>10 DEF Exclusive
<1>14. Families' = Families
  BY <1>2, <1>5, <1>6 DEF Families
<1>15. /\ Tokens(g)' = Tokens(g) \cup {n} /\ Unused(g)' = {n}
       /\ \A f : f # g => Tokens(f)' = Tokens(f) /\ Unused(f)' = Unused(f)
  <2>1. Unused(g) = {t}
    BY <1>0, <1>1, <1>2 DEF Chained, Unused, Tokens
  <2>2. Tokens(g)' = Tokens(g) \cup {n}
    BY <1>5, <1>6 DEF Tokens
  <2>3. Unused(g)' = {n}
    BY <1>5, <1>6, <2>1, <2>2 DEF Unused, Tokens
  <2>4. \A f : f # g => Tokens(f)' = Tokens(f)
    BY <1>5, <1>6 DEF Tokens
  <2>5. \A f : f # g => \A u \in Tokens(f) : u # t
    BY DEF Tokens
  <2>6. \A f : f # g => Unused(f)' = Unused(f)
    BY <1>6, <2>4, <2>5 DEF Unused, Tokens
  <2> QED
    BY <2>2, <2>3, <2>4, <2>6
<1>16. ASSUME NEW d \in Calls, call'[d].pc = "rotate"
       PROVE  /\ d # c /\ call'[d] = call[d] /\ call[d].token \in DOMAIN row
              /\ call[d].token # t
  <2>1. d # c /\ call'[d] = call[d]
    BY <1>8, <1>10, <1>16
  <2>2. call[d].token # NoToken /\ call[d].held = {call[d].token}
    BY <1>0, <1>16, <2>1 DEF Typed, Sound
  <2>3. call[d].token \in DOMAIN row
    BY <1>0, <2>2, Presented
  <2>4. call[d].token # t
    BY <1>0, <1>1, <2>1, <2>2 DEF Exclusive
  <2> QED
    BY <2>1, <2>3, <2>4
<1>17. Chained'
  <2>1. \E i \in 1..MaxFamilies : Families' = 1..i
    BY <1>0, <1>14 DEF Chained
  <2>2. ASSUME NEW f \in Families PROVE \E u \in DOMAIN row' : Unused(f)' = {u}
    <3>1. CASE f = g
      BY <1>11, <1>15, <3>1
    <3>2. CASE f # g
      BY <1>0, <1>5, <1>15, <3>2 DEF Chained
    <3> QED
      BY <3>1, <3>2
  <2>3. \A d \in Calls : call'[d].pc = "rotate" =>
           row'[call'[d].token].used = "no" /\ row'[call'[d].token].valid
    BY <1>0, <1>6, <1>16 DEF Chained
  <2> QED
    BY <1>14, <2>1, <2>2, <2>3 DEF Chained
<1>18. Cornered'
  <2>1. ASSUME NEW d \in Calls, call'[d].pc = "revoke", ~call'[d].raced,
               NEW f, f = row'[call'[d].token].family
        PROVE  ~Rotating(f)' /\ \A u \in Tokens(f)' : row'[u].valid => u \in call'[d].snap
    <3>1. call'[d] = call[d]
      BY <1>8, <1>10, <2>1
    <3>2. call[d].token \in DOMAIN row
      <4>1. call[d].token # NoToken
        BY <1>0, <2>1, <3>1 DEF Typed, Sound
      <4> QED
        BY <1>0, <4>1, Presented
    <3>3. f = row[call[d].token].family
      BY <1>6, <2>1, <3>1, <3>2
    <3>4. ~Rotating(f) /\ \A u \in Tokens(f) : row[u].valid => u \in call[d].snap
      BY <1>0, <2>1, <3>1, <3>3 DEF Cornered
    <3>5. f # g
      BY <1>0, <3>4 DEF Rotating
    <3>6. ~Rotating(f)'
      BY <1>6, <1>16, <3>4 DEF Rotating
    <3> QED
      BY <1>6, <1>15, <3>1, <3>4, <3>5, <3>6 DEF Tokens
  <2> QED
    BY <2>1 DEF Cornered
<1>19. UnderWay' = UnderWay
  BY <1>0, <1>8, <1>10 DEF UnderWay
<1>20. Inserting' = Inserting \ {b}
  BY <1>8, <1>10, <1>19 DEF Inserting, UnderWay
<1>21. Bounded'
  BY <1>5, <1>7, <1>19, <1>20 DEF Bounded
<1>22. OneAtATime'
  BY <1>0, <1>8, <1>10, OneKeeps
<1>23. NoReplay'
  <2>1. client # "nolocks" => \A a \in Tab : a # b => call[refreshing(a)].pc \in {"idle", "queued"}
    BY <1>0 DEF SInv, OneAtATime
  <2>2. Rotated(b)'
    BY <1>8, <1>10 DEF Rotated
  <2> QED
    BY <1>0, <1>6, <1>8, <1>10, <2>1, <2>2 DEF SInv, NoReplay, Harmless, Rotated
<1>24. Loyal'
  BY <1>0, <1>1, <1>5, <1>6, <1>8, <1>10 DEF SInv, Loyal
<1>25. Buried
  <2>1. Live(g)
    BY <1>1, <1>2 DEF Live, Tokens
  <2>2. ASSUME NEW f \in Families, f # g, Live(f)' PROVE Live(f)
    <3>1. PICK u \in Tokens(f)' : row'[u].valid
      BY <2>2 DEF Live
    <3>2. u \in Tokens(f) /\ u \in DOMAIN row
      BY <1>15, <2>2, <3>1 DEF Tokens
    <3> QED
      BY <1>6, <3>1, <3>2 DEF Live
  <2> QED
    BY <2>1, <2>2 DEF Buried
<1> QED
  BY <1>12, <1>13, <1>17, <1>18, <1>21, <1>22, <1>23, <1>24, <1>25 DEF SInv

LEMMA LoginStep ==
  ASSUME SInv, NEW b \in Tab, login(b)
  PROVE  SInv' /\ Buried
<1> DEFINE n == Len(row) + 1
<1>0. /\ Typed /\ Exclusive /\ Chained /\ Cornered /\ row \in Seq(TokenRow)
      /\ UNCHANGED <<client, call, resend, losses, faults>>
      /\ tab' = [tab EXCEPT ![b] = "signed-in"] /\ tab[b] = "signed-out"
      /\ Room
  BY DEF SInv, Typed, login
<1> PICK g : g = Cardinality(Families) + 1
  OBVIOUS
<1>1. /\ g \in 1..MaxFamilies /\ g \notin Families
      /\ Families \cup {g} = 1..g
  <2>1. PICK i \in 1..MaxFamilies : Families = 1..i
    BY <1>0 DEF Chained
  <2>2. Cardinality(1..i) = i
    BY FS_Interval
  <2>3. g = i + 1
    BY <2>1, <2>2
  <2>4. g <= MaxFamilies
    BY DEF login
  <2> QED
    BY <2>1, <2>3, <2>4
<1>2. Fresh(g) \in TokenRow /\ Fresh(g).family = g /\ Fresh(g).valid /\ Fresh(g).used = "no"
  BY <1>1 DEF Fresh, TokenRow
<1>3. /\ row' \in Seq(TokenRow) /\ Len(row') = n /\ Len(row) \in Nat
      /\ DOMAIN row' = DOMAIN row \cup {n} /\ n \notin DOMAIN row
      /\ row'[n] = Fresh(g)
      /\ \A u \in DOMAIN row : row'[u] = row[u] /\ u # n
  <2>1. row' = Append(row, Fresh(g))
    BY DEF login
  <2> QED
    BY <1>0, <1>2, <2>1, Inserted
<1>4. jar' = [refresh |-> n, access |-> g]
  BY DEF login
<1>5. IsFiniteSet(UnderWay) /\ n + Cardinality(Inserting) <= MaxTokens /\ n <= MaxTokens
  <2>1. IsFiniteSet(UnderWay)
    BY DEF SInv, Bounded
  <2>2. Inserting \subseteq UnderWay
    BY DEF Inserting
  <2>3. /\ Cardinality(Inserting) <= Cardinality(UnderWay)
        /\ Cardinality(Inserting) \in Nat /\ Cardinality(UnderWay) \in Nat
    BY <2>1, <2>2, FS_Subset, FS_CardinalityType
  <2>4. \A m, i, j \in Nat : m + i < MaxTokens /\ j <= i
          => (m + 1) + j <= MaxTokens /\ m + 1 <= MaxTokens
    OBVIOUS
  <2> QED
    BY <1>0, <1>3, <2>1, <2>3, <2>4 DEF Room
<1>6. n \in Nat /\ Len(row) <= n /\ n # NoToken
  BY <1>3 DEF NoToken
<1> HIDE DEF n
<1>7. Typed'
  <2>1. \A d \in Calls : Sound(d, call[d])'
    <3>1. ASSUME NEW d \in Calls
          PROVE  Sound(d, call[d])'
      <4>1. Sound(d, call[d]) /\ call[d] \in Call /\ call'[d] = call[d]
        BY <1>0 DEF Typed
      <4>2. call[d].token <= Len(row')
        BY <1>3, <1>6, <4>1 DEF Sound, Call, Token, NoToken
      <4> QED
        BY <1>3, <4>1, <4>2 DEF Sound
    <3> QED
      BY <3>1
  <2>2. jar' \in [refresh : Token \cup {NoToken}, access : 0..MaxFamilies]
        /\ jar'.refresh <= Len(row')
    BY <1>1, <1>3, <1>4, <1>5, <1>6 DEF Token, NoToken
  <2>3. tab' \in [Tab -> {"loading", "signed-in", "signed-out", "unreachable"}]
    BY <1>0 DEF Typed
  <2> QED
    BY <1>0, <1>3, <2>1, <2>2, <2>3 DEF Typed
<1>8. Exclusive'
  BY <1>0 DEF Exclusive
<1>9. Families' = Families \cup {g}
  BY <1>2, <1>3 DEF Families
<1>10. Tokens(g)' = {n} /\ Unused(g)' = {n}
  <2>1. \A u \in DOMAIN row : row'[u].family # g
    BY <1>1, <1>3 DEF Families
  <2>2. Tokens(g)' = {n}
    BY <1>2, <1>3, <2>1 DEF Tokens
  <2> QED
    BY <1>2, <1>3, <2>2 DEF Unused
<1>11. \A f : f # g => Tokens(f)' = Tokens(f) /\ Unused(f)' = Unused(f)
  <2>1. \A f : f # g => Tokens(f)' = Tokens(f)
    BY <1>2, <1>3 DEF Tokens
  <2>2. \A f : Tokens(f) \subseteq DOMAIN row
    BY DEF Tokens
  <2> QED
    BY <1>3, <2>1, <2>2 DEF Unused
<1>12. ASSUME NEW d \in Calls, call[d].pc \in {"rotate", "revoke"}
       PROVE  /\ call[d].token \in DOMAIN row /\ row'[call[d].token] = row[call[d].token]
              /\ row[call[d].token].family # g
  <2>1. call[d].token # NoToken
    BY <1>0, <1>12 DEF Typed, Sound
  <2>2. call[d].token \in DOMAIN row
    BY <1>0, <2>1, Presented
  <2> QED
    BY <1>1, <1>3, <2>2 DEF Families
<1>13. Chained'
  <2>1. \E i \in 1..MaxFamilies : Families' = 1..i
    BY <1>1, <1>9
  <2>2. ASSUME NEW f \in Families' PROVE \E u \in DOMAIN row' : Unused(f)' = {u}
    <3>1. CASE f = g
      BY <1>3, <1>10, <3>1
    <3>2. CASE f # g
      BY <1>0, <1>3, <1>9, <1>11, <3>2 DEF Chained
    <3> QED
      BY <3>1, <3>2
  <2>3. \A d \in Calls : call'[d].pc = "rotate" =>
           row'[call'[d].token].used = "no" /\ row'[call'[d].token].valid
    BY <1>0, <1>12 DEF Chained
  <2> QED
    BY <2>1, <2>2, <2>3 DEF Chained
<1>14. Cornered'
  <2>1. ASSUME NEW d \in Calls, call'[d].pc = "revoke", ~call'[d].raced,
               NEW f, f = row'[call'[d].token].family
        PROVE  ~Rotating(f)' /\ \A u \in Tokens(f)' : row'[u].valid => u \in call'[d].snap
    <3>1. f # g /\ f = row[call[d].token].family
      BY <1>0, <1>12, <2>1
    <3>2. ~Rotating(f) /\ \A u \in Tokens(f) : row[u].valid => u \in call[d].snap
      BY <1>0, <2>1, <3>1 DEF Cornered
    <3>3. ~Rotating(f)'
      BY <1>0, <1>12, <3>2 DEF Rotating
    <3> QED
      BY <1>0, <1>3, <1>11, <3>1, <3>2, <3>3 DEF Tokens
  <2> QED
    BY <2>1 DEF Cornered
<1>15. UnderWay' = UnderWay /\ Inserting' = Inserting
  BY <1>0 DEF UnderWay, Inserting
<1>16. Bounded'
  BY <1>3, <1>5, <1>15 DEF Bounded
<1>17. OneAtATime'
  BY <1>0, OneKeeps
<1>18. NoReplay'
  <2>1. ASSUME NEW a \in Tab
        PROVE  call[refreshing(a)].token = NoToken
               \/ row'[call[refreshing(a)].token] = row[call[refreshing(a)].token]
    BY <1>0, <1>3, Presented, CallNames
  <2>2. ASSUME NEW a \in Tab, Rotated(a) PROVE call[refreshing(a)].token # NoToken
    BY <1>0, <2>2, CallNames DEF Typed, Sound, Rotated
  <2> QED
    BY <1>0, <1>2, <1>3, <1>4, <1>6, <2>1, <2>2 DEF SInv, NoReplay, Harmless, Rotated
<1>19. Loyal'
  BY <1>0 DEF SInv, Loyal
<1>20. Buried
  <2>1. ASSUME NEW f \in Families, Live(f)' PROVE Live(f)
    <3>1. f # g
      BY <1>1
    <3> QED
      BY <1>3, <1>11, <2>1, <3>1 DEF Live, Tokens
  <2> QED
    BY <2>1 DEF Buried
<1> QED
  BY <1>7, <1>8, <1>13, <1>14, <1>16, <1>17, <1>18, <1>19, <1>20 DEF SInv

\* Rows change their state, but no row that is being rotated.
Touched ==
  /\ row' \in Seq(TokenRow) /\ Len(row') = Len(row) /\ DOMAIN row' = DOMAIN row
  /\ \A t \in DOMAIN row : /\ row'[t].family = row[t].family
                           /\ row'[t].used = "no" <=> row[t].used = "no"
                           /\ row'[t].valid => row[t].valid
  /\ \A c \in Calls : call[c].pc = "rotate" => row'[call[c].token].valid

LEMMA RowsTouched ==
  ASSUME SInv, Touched, Shaped, jar' = jar, call' \in [Calls -> Call],
         \A c \in Calls : /\ Sound(c, call'[c])
                          /\ call'[c].held \subseteq call[c].held
                          /\ call'[c].pc = call[c].pc \/ call'[c].pc = "answer"
                          /\ call'[c].token = call[c].token
                          /\ call'[c].pc = "revoke" => call'[c] = call[c],
         \A a \in Tab : call'[refreshing(a)] = call[refreshing(a)]
                        \/ (/\ call[refreshing(a)].pc = "revoke"
                            /\ call'[refreshing(a)].reply \notin {"ok", "conflict"})
  PROVE  /\ Typed' /\ Exclusive' /\ Chained' /\ Cornered' /\ Bounded' /\ OneAtATime'
         /\ faults' = faults \/ faults' = (faults \ {"trouble"}) \cup {"ended"} => NoReplay'
<1>0. Typed /\ Exclusive /\ Chained /\ Cornered
  BY DEF SInv
<1>1. Typed'
  BY <1>0 DEF Typed, Shaped, Touched, Sound
<1>2. Exclusive'
  BY <1>0 DEF Exclusive
<1>3. Families' = Families /\ \A f : Tokens(f)' = Tokens(f)
  BY DEF Families, Tokens, Touched
<1>4. \A f : Unused(f)' = Unused(f)
  BY <1>3 DEF Unused, Tokens, Touched
<1>5. ASSUME NEW c \in Calls, call[c].pc \in {"rotate", "revoke"}
      PROVE  call[c].token \in DOMAIN row
  BY <1>0, <1>5, Presented DEF Typed, Sound
<1>6. Chained'
  <2>1. \A c \in Calls : call'[c].pc = "rotate" =>
           row'[call'[c].token].used = "no" /\ row'[call'[c].token].valid
    BY <1>0, <1>5 DEF Chained, Touched
  <2> QED
    BY <1>0, <1>3, <1>4, <2>1 DEF Chained, Touched
<1>7. Cornered'
  <2>1. ASSUME NEW d \in Calls, call'[d].pc = "revoke", ~call'[d].raced,
               NEW f, f = row'[call'[d].token].family
        PROVE  ~Rotating(f)' /\ \A u \in Tokens(f)' : row'[u].valid => u \in call'[d].snap
    <3>1. call'[d] = call[d] /\ f = row[call[d].token].family
      BY <1>5, <2>1 DEF Touched
    <3>2. ~Rotating(f) /\ \A u \in Tokens(f) : row[u].valid => u \in call[d].snap
      BY <1>0, <2>1, <3>1 DEF Cornered
    <3>3. ~Rotating(f)'
      BY <1>5, <3>2 DEF Rotating, Touched
    <3> QED
      BY <1>3, <3>1, <3>2, <3>3 DEF Tokens, Touched
  <2> QED
    BY <2>1 DEF Cornered
<1>8. \A b \in Tab : Rotated(b)' <=> Rotated(b)
  BY CallNames DEF Rotated
<1>9. UnderWay' \subseteq UnderWay /\ Inserting' \subseteq Inserting
  BY CallNames DEF UnderWay, Inserting
<1>10. jar.refresh = NoToken \/ jar.refresh \in DOMAIN row
  BY <1>0, RowFacts DEF Typed, Token, NoToken
<1>11. Bounded'
  BY <1>8, <1>9, <1>10, BoundedKeeps, CallNames DEF Touched
<1>12. OneAtATime'
  BY OneKeeps, CallNames DEF Shaped
<1>13. \A t : t = NoToken \/ t \in DOMAIN row => (row'[t].used = "no" <=> row[t].used = "no") \/ t = NoToken
  BY DEF Touched
<1>14. \A b \in Tab : call[refreshing(b)].token = NoToken \/ call[refreshing(b)].token \in DOMAIN row
  BY <1>0, Presented, CallNames
<1>15. \A b \in Tab : Rotated(b) => call[refreshing(b)].token # NoToken
  BY <1>0, CallNames DEF Typed, Sound, Rotated
<1>16. ASSUME faults' = faults \/ faults' = (faults \ {"trouble"}) \cup {"ended"} PROVE NoReplay'
  <2>1. Harmless(jar.refresh)' => Harmless(jar.refresh)
    BY <1>10, <1>13 DEF Harmless
  <2>2. ASSUME NEW b \in Tab
        PROVE  /\ call'[refreshing(b)].pc = "sent" => call'[refreshing(b)] = call[refreshing(b)]
               /\ Rotated(b)' => call'[refreshing(b)] = call[refreshing(b)]
               /\ \/ call'[refreshing(b)] = call[refreshing(b)]
                  \/ call'[refreshing(b)].reply # "conflict"
    <3>1. CASE call'[refreshing(b)] = call[refreshing(b)]
      BY <3>1
    <3>2. CASE /\ call[refreshing(b)].pc = "revoke"
               /\ call'[refreshing(b)].reply \notin {"ok", "conflict"}
      BY <3>2, CallNames DEF Rotated
    <3> QED
      BY <3>1, <3>2
  <2>3. client' = client /\ (client # "nolocks" /\ "loss" \notin faults' => NoReplay /\ "loss" \notin faults
                             /\ ("reuse" \in faults' => "reuse" \in faults))
    BY <1>16 DEF SInv, Shaped
  <2>4. CASE client # "nolocks" /\ "loss" \notin faults'
    <3>1. /\ "reuse" \notin faults'
          /\ Harmless(jar.refresh)' => jar'.refresh = NoToken \/ \E b \in Tab : Rotated(b)'
      BY <1>8, <2>1, <2>3, <2>4 DEF NoReplay
    <3>2. ASSUME NEW b \in Tab
          PROVE  /\ call'[refreshing(b)].pc = "sent"
                      => \/ call'[refreshing(b)].token = NoToken
                         \/ row'[call'[refreshing(b)].token].used = "no"
                 /\ Rotated(b)' => row'[call'[refreshing(b)].token].used = "no"
                 /\ call'[refreshing(b)].pc = "answer" => call'[refreshing(b)].reply # "conflict"
      BY <1>8, <1>13, <1>14, <1>15, <2>2, <2>3, <2>4 DEF NoReplay
    <3> QED
      BY <3>1, <3>2 DEF NoReplay
  <2>5. CASE ~(client # "nolocks" /\ "loss" \notin faults')
    BY <2>3, <2>5 DEF NoReplay
  <2> QED
    BY <2>4, <2>5
<1> QED
  BY <1>1, <1>2, <1>6, <1>7, <1>11, <1>12, <1>16

LEMMA TouchedBuries ==
  ASSUME Touched
  PROVE  Buried
BY DEF Touched, Buried, Live, Tokens

\* A function on the rows is a sequence of rows.
LEMMA RowMap ==
  ASSUME row \in Seq(TokenRow), row' \in [DOMAIN row -> TokenRow]
  PROVE  row' \in Seq(TokenRow) /\ Len(row') = Len(row) /\ DOMAIN row' = DOMAIN row
<1>1. Len(row) \in Nat /\ DOMAIN row = 1..Len(row)
  BY LenProperties
<1> QED
  BY <1>1

LEMMA RevokeCommitStep ==
  ASSUME SInv, NEW c \in Calls, revoke_commit(c)
  PROVE  SInv' /\ Buried
<1> DEFINE reply == IF c[2] = "refresh" THEN "reuse" ELSE "ok"
           k == Answered(c, reply)
           snap == call[c].snap
           new(t) == IF t \in snap THEN [row[t] EXCEPT !.valid = FALSE] ELSE row[t]
<1>0. /\ Typed /\ Exclusive /\ Chained /\ call[c].pc = "revoke" /\ snap \subseteq call[c].held
      /\ row \in Seq(TokenRow) /\ \A t \in DOMAIN row : row[t] \in TokenRow
      /\ Answer(c, reply)
      /\ UNCHANGED <<client, jar, tab, resend, losses, faults>>
  BY RowFacts DEF SInv, Typed, revoke_commit
<1>1. /\ CallTo(c, k) /\ k.pc = "answer" /\ k.reply = reply /\ Sound(c, k)
      /\ k.held = {} /\ k.snap = {} /\ k.token = call[c].token
  BY <1>0, AnswerMoves, CallNames
<1>2. ASSUME NEW t \in DOMAIN row
      PROVE  /\ new(t) \in TokenRow
             /\ new(t).family = row[t].family /\ new(t).used = row[t].used
             /\ new(t).valid = (row[t].valid /\ t \notin snap)
  BY <1>0 DEF TokenRow
<1>3. row' = [t \in DOMAIN row |-> new(t)]
  BY DEF revoke_commit
<1> HIDE DEF new
<1>4. row' \in [DOMAIN row -> TokenRow]
  BY <1>2, <1>3
<1>5. /\ \A t \in DOMAIN row : /\ row'[t].family = row[t].family /\ row'[t].used = row[t].used
                               /\ row'[t].valid = (row[t].valid /\ t \notin snap)
      /\ row' \in Seq(TokenRow) /\ Len(row') = Len(row) /\ DOMAIN row' = DOMAIN row
  BY <1>0, <1>2, <1>3, <1>4, RowMap
<1>6. ASSUME NEW d \in Calls, call[d].pc = "rotate"
      PROVE  row'[call[d].token].valid
  <2>1. call[d].token # NoToken /\ call[d].held = {call[d].token}
    BY <1>0, <1>6 DEF Typed, Sound
  <2>2. call[d].token \in DOMAIN row
    BY <1>0, <2>1, Presented
  <2>3. call[d].token \notin snap
    BY <1>0, <1>6, <2>1 DEF Exclusive
  <2> QED
    BY <1>0, <1>5, <1>6, <2>2, <2>3 DEF Chained
<1>7. Touched
  BY <1>5, <1>6 DEF Touched
<1>8. Shaped
  BY <1>0 DEF Typed, Shaped
<1> HIDE DEF k
<1>9. /\ call' \in [Calls -> Call] /\ call'[c] = k
      /\ \A d \in Calls \ {c} : call'[d] = call[d]
  BY <1>1 DEF CallTo
<1>10. \A d \in Calls : /\ Sound(d, call'[d])
                        /\ call'[d].held \subseteq call[d].held
                        /\ call'[d].pc = call[d].pc \/ call'[d].pc = "answer"
                        /\ call'[d].token = call[d].token
                        /\ call'[d].pc = "revoke" => call'[d] = call[d]
  BY <1>0, <1>1, <1>9 DEF Typed
<1>11. ASSUME NEW a \in Tab
       PROVE  call'[refreshing(a)] = call[refreshing(a)]
              \/ (/\ call[refreshing(a)].pc = "revoke"
                  /\ call'[refreshing(a)].reply \notin {"ok", "conflict"})
  BY <1>0, <1>1, <1>9, CallNames
<1>12. /\ Typed' /\ Exclusive' /\ Chained' /\ Cornered' /\ Bounded' /\ OneAtATime' /\ NoReplay'
  BY <1>0, <1>7, <1>8, <1>9, <1>10, <1>11, RowsTouched
<1>13. Loyal'
  <2>1. ~(client # "nolocks" /\ faults = {})
    BY <1>0, CallNames DEF SInv, Loyal
  <2> QED
    BY <1>0, <2>1 DEF Loyal
<1> QED
  BY <1>12, <1>13, <1>7, TouchedBuries DEF SInv

LEMMA GraceStep ==
  ASSUME SInv, NEW t \in DOMAIN row, GraceEnds(t)
  PROVE  SInv' /\ Buried
<1> DEFINE x == [row[t] EXCEPT !.used = "old"]
<1>0. /\ Typed /\ Chained /\ row \in Seq(TokenRow) /\ row[t] \in TokenRow /\ row[t].used = "grace"
      /\ UNCHANGED <<client, call, jar, tab, resend, losses, faults>>
  BY RowFacts DEF SInv, Typed, GraceEnds
<1>1. x \in TokenRow /\ x.family = row[t].family /\ x.used = "old" /\ x.valid = row[t].valid
  BY <1>0 DEF TokenRow
<1>2. row' = [row EXCEPT ![t] = x]
  BY <1>0 DEF GraceEnds
<1> HIDE DEF x
<1>3. /\ row' \in Seq(TokenRow) /\ Len(row') = Len(row) /\ DOMAIN row' = DOMAIN row
      /\ \A u \in DOMAIN row : row'[u] = IF u = t THEN x ELSE row[u]
  <2>1. t \in 1..Len(row)
    BY <1>0, RowFacts
  <2> QED
    BY <1>0, <1>1, <1>2, <2>1, ExceptSeq, LenProperties
<1>4. \A d \in Calls : call[d].pc = "rotate" => row'[call[d].token].valid
  <2>1. ASSUME NEW d \in Calls, call[d].pc = "rotate" PROVE row'[call[d].token].valid
    <3>1. call[d].token \in DOMAIN row
      BY <1>0, <2>1, Presented DEF Typed, Sound
    <3> QED
      BY <1>0, <1>1, <1>3, <2>1, <3>1 DEF Chained
  <2> QED
    BY <2>1
<1>5. \A u \in DOMAIN row : /\ row'[u].family = row[u].family
                            /\ row'[u].used = "no" <=> row[u].used = "no"
                            /\ row'[u].valid = row[u].valid
  BY <1>0, <1>1, <1>3
<1>6. Touched
  BY <1>3, <1>4, <1>5 DEF Touched
<1>7. Shaped
  BY <1>0 DEF Typed, Shaped
<1>8. /\ Typed' /\ Exclusive' /\ Chained' /\ Cornered' /\ Bounded' /\ OneAtATime' /\ NoReplay'
  BY <1>0, <1>6, <1>7, RowsTouched DEF Typed
<1>9. Loyal'
  BY <1>0, <1>3, <1>5 DEF SInv, Loyal
<1> QED
  BY <1>8, <1>9, <1>6, TouchedBuries DEF SInv

LEMMA FamilyStep ==
  ASSUME SInv, NEW f \in Families, FamilyExpires(f)
  PROVE  SInv' /\ Buried
<1> DEFINE new(t) == [row[t] EXCEPT !.valid = row[t].valid /\ row[t].family # f]
<1>0. /\ Typed /\ row \in Seq(TokenRow) /\ \A t \in DOMAIN row : row[t] \in TokenRow
      /\ \A d \in Calls : call[d].pc = "idle"
      /\ UNCHANGED <<client, call, jar, tab, resend, losses>>
      /\ faults' = (faults \ {"trouble"}) \cup {"ended"}
  BY RowFacts DEF SInv, Typed, FamilyExpires, Blame
<1>1. ASSUME NEW t \in DOMAIN row
      PROVE  /\ new(t) \in TokenRow
             /\ new(t).family = row[t].family /\ new(t).used = row[t].used
             /\ new(t).valid => row[t].valid
  BY <1>0 DEF TokenRow
<1>2. row' = [t \in DOMAIN row |-> new(t)]
  BY DEF FamilyExpires
<1> HIDE DEF new
<1>3. row' \in [DOMAIN row -> TokenRow]
  BY <1>1, <1>2
<1>4. Touched
  BY <1>0, <1>1, <1>2, <1>3, RowMap DEF Touched
<1>5. Shaped
  BY <1>0 DEF Typed, Shaped
<1>6. /\ Typed' /\ Exclusive' /\ Chained' /\ Cornered' /\ Bounded' /\ OneAtATime' /\ NoReplay'
  BY <1>0, <1>4, <1>5, RowsTouched DEF Typed
<1>7. Loyal'
  BY <1>0 DEF Loyal
<1> QED
  BY <1>6, <1>7, <1>4, TouchedBuries DEF SInv

(***************************************************************************)
(* The theorems.                                                           *)
(***************************************************************************)

LEMMA Initially ==
  ASSUME Init
  PROVE  SInv
<1>1. row = <<Fresh(1)>> /\ Fresh(1) \in TokenRow /\ Len(row) = 1 /\ DOMAIN row = {1}
      /\ row[1].family = 1 /\ row[1].used = "no" /\ row[1].valid
  BY DEF Init, Fresh, TokenRow
<1>2. \A c \in Calls : call[c] = NoCall
  BY DEF Init
<1>3. jar.refresh = 1 /\ jar.access = 1 /\ 1 \in Token /\ 1 # NoToken
  BY DEF Init, Token, NoToken
<1>4. Typed
  <2>1. call \in [Calls -> Call]
    BY NoCallFacts DEF Init
  <2>2. row \in Seq(TokenRow)
    BY <1>1
  <2>3. jar \in [refresh : Token \cup {NoToken}, access : 0..MaxFamilies]
    BY <1>3 DEF Init
  <2>4. \A c \in Calls : Sound(c, call[c])
    BY <1>1, <1>2, NoCallFacts DEF Sound, NoToken
  <2>5. jar.refresh <= Len(row)
    BY <1>1, <1>3
  <2> QED
    BY <2>1, <2>2, <2>3, <2>4, <2>5 DEF Typed, Init
<1>5. Exclusive /\ Cornered
  BY <1>2, NoCallFacts DEF Exclusive, Cornered
<1>6. Bounded
  <2>1. UnderWay = {} /\ Inserting = {}
    BY <1>2, NoCallFacts, CallNames DEF UnderWay, Inserting
  <2>2. IsFiniteSet(UnderWay) /\ Cardinality(Inserting) = 0
    BY <2>1, FS_EmptySet
  <2> QED
    BY <1>1, <2>2 DEF Bounded
<1>7. Chained
  <2>1. Families = 1..1 /\ 1 \in 1..MaxFamilies
    BY <1>1 DEF Families
  <2>2. Unused(1) = {1}
    BY <1>1 DEF Unused, Tokens
  <2>3. \A f \in Families : \E t \in DOMAIN row : Unused(f) = {t}
    BY <1>1, <2>1, <2>2
  <2>4. \E n \in 1..MaxFamilies : Families = 1..n
    BY <2>1
  <2> QED
    BY <1>2, <2>3, <2>4, NoCallFacts DEF Chained
<1>8. OneAtATime
  BY <1>2, NoCallFacts, CallNames DEF OneAtATime
<1>9. NoReplay
  BY <1>1, <1>2, <1>3, NoCallFacts, CallNames DEF NoReplay, Init, Harmless, Rotated
<1>10. Loyal
  BY <1>1, <1>2, <1>3, NoCallFacts, CallNames DEF Loyal, Init
<1> QED
  BY <1>4, <1>5, <1>6, <1>7, <1>8, <1>9, <1>10 DEF SInv

LEMMA RowsStay ==
  ASSUME row' = row
  PROVE  Buried
BY DEF Buried, Live, Tokens

LEMMA StepKeeps ==
  ASSUME SInv, [Next]_vars
  PROVE  SInv' /\ Buried
<1>1. ASSUME NEW b \in Tabs, ServerStep(b)
      PROVE  SInv' /\ Buried
  <2>1. b \in Tab
    BY DEF SInv, Typed, Tabs
  <2>2. CASE rotate_commit(b)
    BY <2>1, <2>2, CommitStep
  <2>3. CASE ~rotate_commit(b)
    <3>1. row' = row
      BY <1>1, <2>3 DEF ServerStep, refresh_rejected, refresh_conflict, refresh_reuse,
                        refresh_rotate, logout_lookup, server_trouble
    <3>2. SInv'
      BY <1>1, <2>1, <2>3, RejectedStep, ConflictStep, ReuseStep, RotateStep, LookupStep,
         TroubleStep, CallNames DEF ServerStep
    <3> QED
      BY <3>1, <3>2, RowsStay
  <2> QED
    BY <2>2, <2>3
<1>2. ASSUME NEW b \in Tabs, ClientStep(b)
      PROVE  SInv' /\ Buried
  <2>1. b \in Tab /\ (client = "native" => b = MainTab)
    BY DEF SInv, Typed, Tabs
  <2>2. row' = row
    BY <1>2 DEF ClientStep, RefreshStep, doRefreshLocked, doRefresh, adopt, refresh_retry,
                fail, refresh_error, logout_done, request_again
  <2>3. SInv'
    BY <1>2, <2>1, LockedStep, SentStep, AdoptStep, RetryStep, FailStep, ErrorStep,
       LogoutDoneStep, AgainStep DEF ClientStep, RefreshStep
  <2> QED
    BY <2>2, <2>3, RowsStay
<1>3. ASSUME NEW b \in Tabs, UserStep(b)
      PROVE  SInv' /\ Buried
  <2>1. b \in Tab
    BY DEF SInv, Typed, Tabs
  <2>2. CASE login(b)
    BY <2>1, <2>2, LoginStep
  <2>3. CASE ~login(b)
    <3>1. row' = row
      BY <1>3, <2>3 DEF UserStep, bootstrap, request_refused, logout
    <3>2. SInv'
      BY <1>3, <2>1, <2>3, BootstrapStep, RefusedStep, LogoutStep DEF UserStep
    <3> QED
      BY <3>1, <3>2, RowsStay
  <2> QED
    BY <2>2, <2>3
<1>4. ASSUME NEW c \in Calls, RevokeStep(c)
      PROVE  SInv' /\ Buried
  <2>1. CASE revoke_commit(c)
    BY <2>1, RevokeCommitStep
  <2>2. CASE deadlock_victim(c)
    BY <2>2, VictimStep, RowsStay DEF deadlock_victim
  <2>3. CASE \E t \in DOMAIN row : LockRow(c, t)
    BY <2>3, LockStep, RowsStay DEF LockRow
  <2> QED
    BY <1>4, <2>1, <2>2, <2>3 DEF RevokeStep
<1>5. ASSUME NEW c \in Calls, Lose(c)
      PROVE  SInv' /\ Buried
  BY <1>5, LoseRefreshStep, LoseLogoutStep, CallNames, RowsStay DEF Lose
<1>6. ASSUME ClockStep
      PROVE  SInv' /\ Buried
  BY <1>6, AccessStep, GraceStep, FamilyStep, RowsStay DEF ClockStep, AccessExpires
<1>7. CASE UNCHANGED vars
  <2>1. /\ UNCHANGED <<client, row, call, jar, tab, resend, losses, faults>>
    BY <1>7 DEF vars
  <2>2. Shaped
    BY <2>1 DEF SInv, Typed, Shaped
  <2>3. client # "nolocks" /\ faults = {} => \A a \in Tab : tab[a] # "signed-out"
    BY DEF SInv, Loyal
  <2> QED
    BY <2>1, <2>2, <2>3, RestMoves, RowsStay
<1> QED
  BY <1>1, <1>2, <1>3, <1>4, <1>5, <1>6, <1>7 DEF Next

LEMMA AlwaysSInv == Spec => []SInv
<1>1. SInv /\ [Next]_vars => SInv'
  BY StepKeeps
<1> QED
  BY Initially, <1>1, PTL DEF Spec

\* Types, and a row is locked by one transaction at a time.
THEOREM RowsAreLockedOnce == Spec => []SessionsTypeOK
<1>1. ASSUME SInv PROVE SessionsTypeOK
  <2>1. ASSUME NEW t \in DOMAIN row
        PROVE  Cardinality({c \in Calls : t \in call[c].held}) <= 1
    <3> DEFINE S == {c \in Calls : t \in call[c].held}
    <3>1. \A c, d \in S : c = d
      BY <1>1 DEF SInv, Exclusive
    <3> HIDE DEF S
    <3>2. CASE S = {}
      <4>1. Cardinality(S) = 0
        BY <3>2, FS_EmptySet
      <4> QED
        BY <4>1 DEF S
    <3>3. ASSUME NEW c, S = {c} PROVE Cardinality({d \in Calls : t \in call[d].held}) <= 1
      <4>1. Cardinality(S) = 1
        BY <3>3, FS_Singleton
      <4> QED
        BY <4>1 DEF S
    <3>4. S = {} \/ \E c : S = {c}
      BY <3>1
    <3> QED
      BY <3>2, <3>3, <3>4
  <2> QED
    BY <1>1, <2>1, WithinBound DEF SInv, Typed, SessionsTypeOK
<1> QED
  BY <1>1, AlwaysSInv, PTL

\* Whatever refreshes, logouts and logins overlap, a family has one token that
\* was never used.
THEOREM ChainsNeverBreak == Spec => []OneFresh
<1>1. ASSUME SInv PROVE OneFresh
  <2>1. ASSUME NEW f \in Families
        PROVE  Cardinality({t \in Tokens(f) : row[t].used = "no"}) = 1
    <3>1. PICK t \in DOMAIN row : Unused(f) = {t}
      BY <1>1 DEF SInv, Chained
    <3> QED
      BY <3>1, FS_Singleton DEF Unused
  <2> QED
    BY <2>1 DEF OneFresh
<1> QED
  BY <1>1, AlwaysSInv, PTL

\* In the native application and in browsers with Web Locks no tab shows
\* signed-out as long as no call was lost, no session has ended, no reuse was
\* detected and no tab had trouble at its launch: a refresh presents an unused
\* token and gets a new one, or an error that it survives.
THEOREM HonestClientsStay == Spec => []HonestStaysSignedIn
<1>1. SInv => HonestStaysSignedIn
  BY DEF SInv, Loyal, HonestStaysSignedIn
<1> QED
  BY <1>1, AlwaysSInv, PTL

\* In the native application and in browsers with Web Locks a token is
\* presented twice only if an answer was lost before.
THEOREM ReuseIsLoss == Spec => []ReuseMeansLoss
<1>1. SInv => ReuseMeansLoss
  BY DEF SInv, NoReplay, ReuseMeansLoss
<1> QED
  BY <1>1, AlwaysSInv, PTL

\* A family that is over stays over.
THEOREM FamiliesStayDead == Spec => DeadStaysDead
<1>1. SInv /\ [Next]_vars => [\A f \in Families : ~Live(f) => ~Live(f)']_vars
  BY StepKeeps DEF Buried
<1> QED
  BY <1>1, AlwaysSInv, PTL DEF Spec, DeadStaysDead

\* A call that leaves its revoking transaction with success has committed it.
LEMMA OnlyCommit ==
  ASSUME SInv, [Next]_vars, NEW c \in Calls, call[c].pc = "revoke",
         call'[c].pc = "answer", call'[c].reply # "error"
  PROVE  revoke_commit(c)
<1>0. Typed
  BY DEF SInv
<1>1. ASSUME NEW b \in Tabs, ServerStep(b)
      PROVE  FALSE
  <2>1. b \in Tab /\ refreshing(b) \in Calls /\ logging(b) \in Calls
    BY <1>0, CallNames DEF Typed, Tabs
  <2>2. CASE refresh_rotate(b)
    <3>1. c # refreshing(b)
      BY <2>2 DEF refresh_rotate, Selected
    <3>2. PICK y \in BOOLEAN : call'[c] = [call[c] EXCEPT !.raced = y]
      <4>1. call[c].raced \in BOOLEAN
        BY <1>0 DEF Typed, Call
      <4> QED
        BY <2>2, <3>1, <4>1 DEF refresh_rotate
    <3>3. call[c] \in Call
      BY <1>0 DEF Typed
    <3>4. call'[c].pc = call[c].pc
      BY <3>2, <3>3 DEF Call
    <3> QED
      BY <3>4
  <2>3. CASE ~refresh_rotate(b)
    BY <1>0, <1>1, <2>1, <2>3
    DEF ServerStep, refresh_rejected, refresh_conflict, refresh_reuse, rotate_commit,
        logout_lookup, server_trouble, Selected, Answer, StartRevoking, Typed
  <2> QED
    BY <2>2, <2>3
<1>2. ASSUME NEW b \in Tabs, ClientStep(b)
      PROVE  FALSE
  <2>1. b \in Tab /\ refreshing(b) \in Calls /\ logging(b) \in Calls
    BY <1>0, CallNames DEF Typed, Tabs
  <2> QED
    BY <1>0, <1>2, <2>1
    DEF ClientStep, RefreshStep, doRefreshLocked, doRefresh, adopt, refresh_retry,
        fail, refresh_error, Unreachable, logout_done, request_again, Typed
<1>3. ASSUME NEW b \in Tabs, UserStep(b)
      PROVE  FALSE
  <2>1. b \in Tab /\ refreshing(b) \in Calls /\ logging(b) \in Calls
    BY <1>0, CallNames DEF Typed, Tabs
  <2> QED
    BY <1>0, <1>3, <2>1
    DEF UserStep, bootstrap, bootstrap_web, request_refused, Refresh, logout, login, Typed
<1>4. ASSUME NEW d \in Calls, d # c, RevokeStep(d)
      PROVE  FALSE
  <2>1. call'[c] = call[c]
    BY <1>0, <1>4 DEF RevokeStep, revoke_commit, deadlock_victim, LockRow, Answer, Typed
  <2> QED
    BY <2>1
<1>5. ASSUME RevokeStep(c)
      PROVE  revoke_commit(c)
  <2>1. ~deadlock_victim(c)
    <3>1. ASSUME Answer(c, "error") PROVE FALSE
      BY <1>0, <3>1, AnswerMoves DEF CallTo
    <3> QED
      BY <3>1 DEF deadlock_victim
  <2>2. ASSUME NEW t \in DOMAIN row, LockRow(c, t) PROVE FALSE
    <3>1. call[c] \in Call
      BY <1>0 DEF Typed
    <3>2. call'[c].pc = call[c].pc
      BY <1>0, <2>2, <3>1 DEF LockRow, Typed, Call
    <3> QED
      BY <3>2
  <2> QED
    BY <1>5, <2>1, <2>2 DEF RevokeStep
<1>6. ASSUME NEW d \in Calls, Lose(d)
      PROVE  FALSE
  <2>1. c # d
    BY <1>6 DEF Lose
  <2>2. call' = [call EXCEPT ![d] = NoCall]
    BY <1>6, CallNames DEF Lose, Unreachable
  <2> QED
    BY <1>0, <2>1, <2>2 DEF Typed
<1>7. ASSUME ClockStep
      PROVE  FALSE
  BY <1>7 DEF ClockStep, AccessExpires, GraceEnds, FamilyExpires
<1>8. CASE UNCHANGED vars
  BY <1>8 DEF vars
<1> QED
  BY <1>1, <1>2, <1>3, <1>4, <1>5, <1>6, <1>7, <1>8 DEF Next

\* A committed revocation that no rotation overlapped ends the family.
LEMMA CommitEnds ==
  ASSUME SInv, NEW c \in Calls, revoke_commit(c), ~call[c].raced
  PROVE  ~Live(row[call[c].token].family)'
<1>1. call[c].pc = "revoke" /\ Typed
  BY DEF SInv, revoke_commit
<1>2. call[c].token \in DOMAIN row
  BY <1>1, Presented DEF Typed, Sound
<1>3. PICK f : f = row[call[c].token].family
  OBVIOUS
<1>4. \A t \in Tokens(f) : row[t].valid => t \in call[c].snap
  BY <1>1, <1>3 DEF SInv, Cornered
<1>5. /\ DOMAIN row' = DOMAIN row
      /\ \A t \in DOMAIN row : /\ row'[t].family = row[t].family
                               /\ row'[t].valid => row[t].valid /\ t \notin call[c].snap
  <2>1. \A t \in DOMAIN row : row[t] \in TokenRow
    BY <1>1, RowFacts DEF Typed
  <2>2. row' = [t \in DOMAIN row |-> IF t \in call[c].snap THEN [row[t] EXCEPT !.valid = FALSE]
                                     ELSE row[t]]
    BY DEF revoke_commit
  <2> QED
    BY <2>1, <2>2 DEF TokenRow
<1>6. call'[c].token = call[c].token
  BY <1>1, AnswerMoves DEF revoke_commit, CallTo
<1>7. row'[call'[c].token].family = f
  BY <1>2, <1>3, <1>5, <1>6
<1>8. \A t \in DOMAIN row : row'[t].family = f => ~row'[t].valid
  BY <1>4, <1>5 DEF Tokens
<1> QED
  BY <1>5, <1>7, <1>8 DEF Live, Tokens

\* What a logout or a detected reuse revokes is the whole family, unless a
\* rotation of the family overlapped the revoking update.
THEOREM RevocationIsFinal == Spec => RevokingEndsFamily
<1>1. SInv /\ [Next]_vars =>
        [ \A c \in Calls :
            /\ call[c].pc = "revoke" /\ ~call[c].raced
            /\ call'[c].pc = "answer" /\ call'[c].reply # "error"
            => ~Live(row[call[c].token].family)' ]_vars
  BY OnlyCommit, CommitEnds
<1> QED
  BY <1>1, AlwaysSInv, PTL DEF Spec, RevokingEndsFamily
=============================================================================
