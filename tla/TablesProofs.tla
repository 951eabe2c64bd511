---------------------------- MODULE TablesProofs ----------------------------
(***************************************************************************)
(* Theorems about the two tables the user edits (UserTables, with          *)
(* TokenWatchlist and Contacts), for every number of callers, contracts    *)
(* and addresses, and every bound; and, at the end, about the prices of    *)
(* the tokens on the list (Portfolio), for every lifetime of an entry and  *)
(* every timeout of the client.                                            *)
(***************************************************************************)
EXTENDS UserTables, Portfolio, SequenceTheorems, TLAPS

(***************************************************************************)
(* The watchlist: one row per contract and per id, and no id handed out    *)
(* twice, though a removal may come between any two statements of a call.  *)
(***************************************************************************)
RowsInv ==
  /\ \A r \in rows : r.id <= lastId
  /\ \A r, q \in rows : r.id = q.id => r = q

(***************************************************************************)
(* A call about to unhide a row holds an id that is, or was, the row of    *)
(* its own contract; a seed has seen each contract it no longer means to   *)
(* add; a call that succeeded has seen all of its contracts.               *)
(***************************************************************************)
CallInv(c) ==
  /\ At(c, "idle") => call[c] = NoCall
  /\ At(c, "ensureList") => call[c].op = "ensure"
  /\ call[c].pc \in {"addList", "unhide", "metadata", "create"} => call[c].op \in {"add", "ensure"}
  /\ call[c].pc \in {"seedList", "seedCreate"} => call[c].op = "seed"
  /\ call[c].op \in {"add", "ensure"} => call[c].about = {Subject(c)}
  /\ At(c, "unhide") =>
       call[c].id <= lastId /\ \A r \in rows : r.id = call[c].id => r.contract \in call[c].about
  /\ At(c, "seedCreate") => call[c].about \ call[c].todo \subseteq seen[c]
  /\ At(c, "ok") => call[c].about \subseteq seen[c]

\* TypeOK, but for the count of imports.
ListTyped ==
  /\ rows \subseteq Row
  /\ \A r, q \in rows : r.contract = q.contract => r = q
  /\ call \in [Caller -> Call]
  /\ lastId \in Nat /\ calls \in 0..MaxCalls /\ edits \in 0..MaxEdits
  /\ seen \in [Caller -> SUBSET Contract]

TokenInv == ListTyped /\ RowsInv /\ \A c \in Caller : CallInv(c)

(***************************************************************************)
(* The address book: the same of its rows; an RPC holds what its method    *)
(* needs; and the status of an answer is that of the end of its chain.     *)
(***************************************************************************)
ContactsInv ==
  /\ Book!ContactTypeOK
  /\ made \in Nat
  /\ \A r \in contacts : r.id <= made
  /\ \A r, q \in contacts : r.id = q.id => r = q

\* What decides the outcome of an RPC, and what it may be told.
Ends == {"", "done", "refused", "panic", "PLAIN", "NOT_FOUND", "ALREADY_EXISTS"}
Statuses == {"", "OK", "UNAUTHENTICATED", "INTERNAL", "NOT_FOUND", "ALREADY_EXISTS"}

Rpcs ==
  [method : Book!Method \cup {""}, pc : {"idle", "handler", "update", "done"}, id : Nat,
   address : Address \cup {""}, name : Name \cup {""}, favorite : BOOLEAN,
   read : SUBSET Book!Contact, status : Statuses]

RpcInv ==
  /\ rpc \in [Caller -> Rpcs] /\ why \in [Caller -> Ends] /\ rpcs \in Nat
  /\ \A c \in Caller :
       /\ rpc[c].method = "CreateContact" => rpc[c].address \in Address
       /\ rpc[c].method \in {"CreateContact", "UpdateContact"} => rpc[c].name \in Name

BookInv == ContactsInv /\ RpcInv /\ StatusIsTrue

TablesInv == TokenInv /\ BookInv /\ resets \in Nat

-----------------------------------------------------------------------------
(* The statements of watched_tokens. *)

RowsTyped ==
  /\ rows \subseteq Row /\ lastId \in Nat
  /\ \A r, q \in rows : r.contract = q.contract => r = q
  /\ RowsInv

\* A step gives no row an id that was handed out before.
Fresh ==
  /\ lastId <= lastId'
  /\ \A q \in rows' : q.id <= lastId => \E r \in rows : r.id = q.id /\ r.contract = q.contract

\* A row of the table, with one of its flags set.
LEMMA FlagRow ==
  ASSUME NEW r \in Row, NEW b \in BOOLEAN
  PROVE  /\ [r EXCEPT !.hidden = b] \in Row
         /\ [r EXCEPT !.hidden = b].id = r.id /\ [r EXCEPT !.hidden = b].contract = r.contract
         /\ [r EXCEPT !.hidden = b].pinned = r.pinned /\ [r EXCEPT !.hidden = b].hidden = b
         /\ [r EXCEPT !.pinned = b] \in Row
         /\ [r EXCEPT !.pinned = b].id = r.id /\ [r EXCEPT !.pinned = b].contract = r.contract
         /\ [r EXCEPT !.pinned = b].hidden = r.hidden
BY DEF Row

\* An INSERT that goes through: one contract more, on a visible row.
LEMMA Inserted ==
  ASSUME RowsTyped, NEW k \in Contract, Create(k)
  PROVE  /\ RowsTyped' /\ Fresh
         /\ Watched' = Watched \cup {k} /\ k \notin Watched
         /\ \E q \in rows' : q.contract = k /\ ~q.hidden
         /\ rows \subseteq rows'
<1> DEFINE new == [id |-> lastId + 1, contract |-> k, pinned |-> FALSE, hidden |-> FALSE]
<1>1. /\ rows' = rows \cup {new} /\ lastId' = lastId + 1 /\ k \notin Watched
      /\ rows \subseteq Row /\ lastId \in Nat
  BY DEF Create, RowsTyped
<1>2. /\ new \in Row /\ new.id = lastId + 1 /\ new.contract = k /\ new.hidden = FALSE
  BY <1>1 DEF Row
<1>3. \A r \in rows : r.id \in Nat /\ r.id <= lastId /\ r.contract # k
  BY <1>1 DEF RowsTyped, RowsInv, Row, Watched
<1> HIDE DEF new
<1>4. Watched' = Watched \cup {k}
  BY <1>1, <1>2 DEF Watched
<1>5. /\ rows' \subseteq Row /\ lastId' \in Nat /\ lastId <= lastId'
      /\ \A r \in rows' : r.id <= lastId'
  BY <1>1, <1>2, <1>3
<1>6. \A r, q \in rows' : r.contract = q.contract => r = q
  BY <1>1, <1>2, <1>3 DEF RowsTyped
<1>7. \A r, q \in rows' : r.id = q.id => r = q
  BY <1>1, <1>2, <1>3 DEF RowsTyped, RowsInv
<1>8. Fresh
  BY <1>1, <1>2, <1>3, <1>5 DEF Fresh
<1> QED
  BY <1>1, <1>2, <1>4, <1>5, <1>6, <1>7, <1>8 DEF RowsTyped, RowsInv

\* An UPDATE of a flag of one row keeps all of the rows, but for that flag.
LEMMA Updated ==
  ASSUME RowsTyped, UNCHANGED lastId, NEW id, NEW b \in BOOLEAN,
         SetHidden(id, b) \/ SetPinned(id, b)
  PROVE  /\ RowsTyped' /\ Fresh /\ Watched' = Watched
         /\ SetHidden(id, b) => \A r \in rows : \E q \in rows' :
              /\ q.id = r.id /\ q.contract = r.contract /\ q.pinned = r.pinned
              /\ q.hidden = IF r.id = id THEN b ELSE r.hidden
<1>1. PICK new \in [rows -> Row] :
        /\ rows' = {new[r] : r \in rows}
        /\ \A r \in rows :
             /\ new[r].id = r.id /\ new[r].contract = r.contract
             /\ SetHidden(id, b) =>
                  new[r].pinned = r.pinned /\ new[r].hidden = IF r.id = id THEN b ELSE r.hidden
  <2>0. rows \subseteq Row
    BY DEF RowsTyped
  <2>1. CASE SetHidden(id, b)
    <3> DEFINE f == [r \in rows |-> IF r.id = id THEN [r EXCEPT !.hidden = b] ELSE r]
    <3>1. f \in [rows -> Row]
      BY <2>0, FlagRow
    <3>2. rows' = {f[r] : r \in rows}
      BY <2>1 DEF SetHidden
    <3>3. \A r \in rows :
            /\ f[r].id = r.id /\ f[r].contract = r.contract
            /\ f[r].pinned = r.pinned /\ f[r].hidden = IF r.id = id THEN b ELSE r.hidden
      BY <2>0, FlagRow
    <3> HIDE DEF f
    <3> QED
      BY <3>1, <3>2, <3>3
  <2>2. CASE ~SetHidden(id, b)
    <3> DEFINE f == [r \in rows |-> IF r.id = id THEN [r EXCEPT !.pinned = b] ELSE r]
    <3>1. f \in [rows -> Row]
      BY <2>0, FlagRow
    <3>2. rows' = {f[r] : r \in rows}
      BY <2>2 DEF SetPinned
    <3>3. \A r \in rows : f[r].id = r.id /\ f[r].contract = r.contract
      BY <2>0, FlagRow
    <3> HIDE DEF f
    <3> QED
      BY <2>2, <3>1, <3>2, <3>3
  <2> QED
    BY <2>1, <2>2
<1>2. rows' \subseteq Row /\ lastId' = lastId /\ lastId \in Nat
  BY <1>1 DEF RowsTyped
<1>3. \A r, q \in rows' : r.contract = q.contract => r = q
  BY <1>1 DEF RowsTyped
<1>4. RowsInv'
  BY <1>1, <1>2 DEF RowsTyped, RowsInv
<1>5. Fresh
  BY <1>1, <1>2 DEF Fresh
<1>6. Watched' = Watched
  BY <1>1 DEF Watched
<1> QED
  BY <1>1, <1>2, <1>3, <1>4, <1>5, <1>6 DEF RowsTyped

\* A DELETE takes the one row with the id, and with it one contract.
LEMMA Deleted ==
  ASSUME RowsTyped, UNCHANGED lastId, NEW r \in rows, Delete(r.id)
  PROVE  /\ RowsTyped' /\ Fresh
         /\ r.contract \in Watched /\ Watched' = Watched \ {r.contract}
<1>1. rows' = rows \ {r}
  BY DEF Delete, RowsTyped, RowsInv
<1>2. Watched' = Watched \ {r.contract}
  BY <1>1 DEF Watched, RowsTyped
<1>3. RowsTyped'
  BY <1>1 DEF RowsTyped, RowsInv
<1>4. Fresh
  BY <1>1 DEF Fresh, RowsTyped
<1> QED
  BY <1>2, <1>3, <1>4 DEF Watched

-----------------------------------------------------------------------------
(* The calls on the watchlist. *)

Pc == {"idle", "ensureList", "addList", "unhide", "metadata", "create",
       "seedList", "seedCreate", "ok", "failed"}

\* A call that goes on to its next statement changes in nothing else.
LEMMA GoneTo ==
  ASSUME call \in [Caller -> Call], NEW c \in Caller, NEW there \in Pc, Goto(c, there)
  PROVE  /\ call' \in [Caller -> Call]
         /\ \A d \in Caller \ {c} : call'[d] = call[d]
         /\ call'[c].pc = there /\ call'[c].op = call[c].op /\ call'[c].id = call[c].id
         /\ call'[c].about = call[c].about /\ call'[c].todo = call[c].todo
BY DEF Goto, Call, Pc

\* What a call has seen is not forgotten until it returns.
LEMMA Observed ==
  ASSUME ListTyped, rows' \subseteq Row, call' \in [Caller -> Call], Observe
  PROVE  /\ seen' \in [Caller -> SUBSET Contract]
         /\ \A d \in Caller : ~At(d, "idle")' => seen[d] \subseteq seen'[d]
         /\ \A d \in Caller : \A q \in rows' :
              ~At(d, "idle")' /\ q.contract \in call'[d].about /\ (call'[d].op = "add" => ~q.hidden)
                => q.contract \in seen'[d]
<1>1. ASSUME NEW d \in Caller
      PROVE  /\ seen'[d] = IF call'[d].pc = "idle" THEN {}
                           ELSE seen[d] \cup {r.contract : r \in {q \in rows' :
                             q.contract \in call'[d].about /\ (call'[d].op = "add" => ~q.hidden)}}
             /\ seen'[d] \subseteq Contract
  BY <1>1 DEF Observe, ListTyped, Row
<1>2. seen' \in [Caller -> SUBSET Contract]
  BY <1>1 DEF Observe
<1>3. \A d \in Caller : ~At(d, "idle")' => seen[d] \subseteq seen'[d]
  BY <1>1 DEF At
<1>4. ASSUME NEW d \in Caller, NEW q \in rows',
             ~At(d, "idle")', q.contract \in call'[d].about, call'[d].op = "add" => ~q.hidden
      PROVE  q.contract \in seen'[d]
  BY <1>1, <1>4 DEF At
<1> QED
  BY <1>2, <1>3, <1>4

\* What a step must do to the rows, the counters and the calls, so that its
\* effect on its own call is all that is left to look at.
Sound(c) ==
  /\ RowsTyped' /\ Fresh
  /\ call' \in [Caller -> Call] /\ \A d \in Caller \ {c} : call'[d] = call[d]
  /\ calls' \in 0..MaxCalls /\ edits' \in 0..MaxEdits

\* The other calls keep what they know: their rows and what they have seen.
LEMMA OthersKeep ==
  ASSUME TokenInv, NEW c, Sound(c), Observe, NEW d \in Caller \ {c}
  PROVE  CallInv(d)'
<1>1. /\ call'[d] = call[d] /\ call[d] \in Call
      /\ lastId' \in Nat /\ lastId \in Nat /\ lastId <= lastId'
  BY DEF Sound, TokenInv, ListTyped, Fresh, RowsTyped
<1>2. ~At(d, "idle") => seen[d] \subseteq seen'[d]
  BY <1>1, Observed DEF Sound, RowsTyped, TokenInv, At
<1>3. CallInv(d)
  BY DEF TokenInv
<1>4. (Subject(d))' = Subject(d)
  BY <1>1 DEF Subject
<1>5. ASSUME At(d, "unhide")
      PROVE  /\ call[d].id <= lastId'
             /\ \A r \in rows' : r.id = call[d].id => r.contract \in call[d].about
  <2>1. /\ call[d].id <= lastId /\ call[d].id \in Nat
        /\ \A r \in rows : r.id = call[d].id => r.contract \in call[d].about
    BY <1>1, <1>3, <1>5 DEF CallInv, Call
  <2> QED
    BY <1>1, <2>1 DEF Sound, Fresh
<1> QED
  BY <1>1, <1>2, <1>3, <1>4, <1>5 DEF CallInv, At

\* So a step keeps the invariant if its own call keeps its part of it.
LEMMA CallKeeps ==
  ASSUME TokenInv, NEW c, Sound(c), Observe, c \in Caller => CallInv(c)'
  PROVE  TokenInv'
<1>1. rows' \subseteq Row /\ lastId' \in Nat /\ RowsInv'
      /\ \A r, q \in rows' : r.contract = q.contract => r = q
  BY DEF Sound, RowsTyped
<1>2. seen' \in [Caller -> SUBSET Contract]
  BY <1>1, Observed DEF Sound, TokenInv
<1>3. ListTyped'
  BY <1>1, <1>2 DEF Sound, ListTyped
<1>4. \A d \in Caller : CallInv(d)'
  BY OthersKeep
<1> QED
  BY <1>1, <1>3, <1>4 DEF TokenInv

\* Every state of the invariant has a well-formed table.
LEMMA InvTypes ==
  ASSUME TokenInv
  PROVE  /\ RowsTyped /\ call \in [Caller -> Call] /\ seen \in [Caller -> SUBSET Contract]
         /\ calls \in 0..MaxCalls /\ edits \in 0..MaxEdits /\ calls \in Nat /\ edits \in Nat
         /\ \A c \in Caller : CallInv(c) /\ call[c] \in Call
BY WatchlistAssumption DEF TokenInv, ListTyped, RowsTyped

\* The table left alone is a sound table.
LEMMA Untouched ==
  ASSUME TokenInv, UNCHANGED <<rows, lastId>>
  PROVE  RowsTyped' /\ Fresh
BY DEF TokenInv, ListTyped, RowsTyped, RowsInv, Fresh

\* Every call begins knowing nothing.
LEMMA Began ==
  ASSUME TokenInv, Observe, NEW c \in Caller, NEW about \in SUBSET Contract,
         NEW op, NEW start, Begin(c, op, start, about),
         \/ op = "add" /\ start = "addList" /\ \E k \in Contract : about = {k}
         \/ op = "ensure" /\ start = "ensureList" /\ \E k \in Contract : about = {k}
         \/ op = "seed" /\ start = "seedList"
  PROVE  TokenInv'
<1> USE InvTypes
<1> DEFINE new == [NoCall EXCEPT !.op = op, !.pc = start, !.about = about]
<1>1. /\ new \in Call /\ new.op = op /\ new.pc = start /\ new.about = about
  BY DEF NoCall, Call
<1>2. /\ call' = [call EXCEPT ![c] = new] /\ calls < MaxCalls /\ calls' = calls + 1
      /\ UNCHANGED <<rows, lastId, edits>>
  BY DEF Begin
<1> HIDE DEF new
<1>3. call' \in [Caller -> Call] /\ call'[c] = new /\ \A d \in Caller \ {c} : call'[d] = call[d]
  BY <1>1, <1>2
<1>4. calls' \in 0..MaxCalls
  BY <1>2, WatchlistAssumption
<1>5. Sound(c)
  BY <1>2, <1>3, <1>4, Untouched DEF Sound
<1>6. op \in {"add", "ensure"} => call'[c].about = {(Subject(c))'}
  BY <1>1, <1>3 DEF Subject
<1>7. CallInv(c)'
  BY <1>1, <1>3, <1>6 DEF CallInv, At
<1> QED
  BY <1>5, <1>7, CallKeeps

\* The subject of Add and EnsureWatched is the one contract they are about.
LEMMA SubjectOf ==
  ASSUME TokenInv, NEW c \in Caller, call[c].op \in {"add", "ensure"}
  PROVE  Subject(c) \in Contract /\ call[c].about = {Subject(c)}
BY InvTypes DEF CallInv, Call

\* A statement that leaves the table alone and moves its call along.
LEMMA MovedOn ==
  ASSUME TokenInv, Observe, NEW c \in Caller, NEW there \in Pc, Goto(c, there),
         RowsTyped' /\ Fresh, UNCHANGED <<calls, edits>>,
         there \in {"ok", "failed", "addList", "metadata", "create"},
         there \in {"addList", "metadata", "create"} => call[c].op \in {"add", "ensure"},
         there = "ok" => call[c].about \subseteq seen'[c]
  PROVE  TokenInv'
<1>1. Sound(c)
  BY InvTypes, GoneTo DEF Sound
<1>2. /\ call'[c].pc = there /\ call'[c].op = call[c].op /\ call'[c].about = call[c].about
  BY InvTypes, GoneTo
<1>3. (Subject(c))' = Subject(c)
  BY <1>2 DEF Subject
<1>4. CallInv(c)'
  BY <1>2, <1>3, InvTypes DEF CallInv, At
<1> QED
  BY <1>1, <1>4, CallKeeps

\* What is on the list after a step, a call that works on it has seen,
\* whether the row is hidden or, for Add, if it is not.
LEMMA SeenNow ==
  ASSUME TokenInv, Observe, rows' \subseteq Row, call' \in [Caller -> Call], NEW c \in Caller,
         call'[c].pc # "idle", NEW q \in rows', q.contract \in call'[c].about,
         call'[c].op # "add" \/ ~q.hidden
  PROVE  q.contract \in seen'[c]
BY Observed DEF TokenInv, At

\* A look of EnsureWatched finds the row, or has Add look for itself.
LEMMA EnsureWatchedKeeps ==
  ASSUME TokenInv, Observe, NEW c \in Caller, EnsureWatched(c)
  PROVE  TokenInv'
<1>1. call[c].op = "ensure" /\ UNCHANGED <<rows, lastId, calls, edits>>
  BY InvTypes DEF EnsureWatched, CallInv
<1>2. RowsTyped' /\ Fresh
  BY <1>1, Untouched
<1>3. CASE Goto(c, "ok") /\ Subject(c) \in Watched
  <2>1. PICK q \in rows : q.contract = Subject(c)
    BY <1>3 DEF Watched
  <2>2. /\ call' \in [Caller -> Call] /\ call'[c].pc = "ok" /\ call'[c].op = "ensure"
        /\ call'[c].about = {Subject(c)}
    BY <1>1, <1>3, GoneTo, InvTypes, SubjectOf DEF Pc
  <2>3. rows' = rows /\ rows' \subseteq Row
    BY <1>1, <1>2 DEF RowsTyped
  <2>4. Subject(c) \in seen'[c]
    BY <2>1, <2>2, <2>3, SeenNow
  <2> QED
    BY <1>1, <1>2, <1>3, <2>4, SubjectOf, MovedOn DEF Pc
<1>4. CASE Goto(c, "addList")
  BY <1>1, <1>2, <1>4, MovedOn DEF Pc
<1>5. CASE Goto(c, "failed")
  BY <1>1, <1>2, <1>5, MovedOn DEF Pc
<1> QED
  BY <1>3, <1>4, <1>5 DEF EnsureWatched

\* A look of Add finds a row to return, a row to unhide, or none.
LEMMA AddKeeps ==
  ASSUME TokenInv, Observe, NEW c \in Caller, Add(c)
  PROVE  TokenInv'
<1>1. call[c].op \in {"add", "ensure"} /\ UNCHANGED <<rows, lastId, calls, edits>> /\ call[c] \in Call
  BY InvTypes DEF Add, CallInv, At
<1>2. RowsTyped' /\ Fresh /\ RowsTyped
  BY <1>1, Untouched, InvTypes
<1>3. CASE Goto(c, "metadata")
  BY <1>1, <1>2, <1>3, MovedOn DEF Pc
<1>4. CASE Goto(c, "failed")
  BY <1>1, <1>2, <1>4, MovedOn DEF Pc
<1>5. ASSUME NEW r, r = RowOf(Subject(c)), Subject(c) \in Watched,
             call' = [call EXCEPT ![c] =
               [call[c] EXCEPT !.id = r.id, !.pc = IF r.hidden THEN "unhide" ELSE "ok"]]
      PROVE  TokenInv'
  <2>1. r \in rows /\ r \in Row /\ r.contract = Subject(c) /\ r.id <= lastId
    BY <1>2, <1>5 DEF RowOf, Watched, RowsTyped, RowsInv
  <2>2. PICK pc \in {"unhide", "ok"} : pc = IF r.hidden THEN "unhide" ELSE "ok"
    OBVIOUS
  <2>3. r.id \in Nat /\ r.hidden \in BOOLEAN
    BY <2>1 DEF Row
  <2> DEFINE new == [call[c] EXCEPT !.id = r.id, !.pc = pc]
  <2>4. /\ new \in Call /\ new.op = call[c].op /\ new.about = call[c].about /\ new.pc = pc
        /\ new.id = r.id
    BY <1>1, <2>3 DEF Call
  <2>5. call' = [call EXCEPT ![c] = new]
    BY <1>5, <2>2
  <2> HIDE DEF new
  <2>6. call' \in [Caller -> Call] /\ call'[c] = new /\ \A d \in Caller \ {c} : call'[d] = call[d]
    BY <2>4, <2>5, InvTypes
  <2>7. Sound(c)
    BY <1>1, <1>2, <2>6, InvTypes DEF Sound
  <2>8. (Subject(c))' = Subject(c) /\ call[c].about = {Subject(c)}
    BY <2>4, <2>6, <1>1, SubjectOf DEF Subject
  <2>9. pc = "ok" => call[c].about \subseteq seen'[c]
    <3>1. pc = "ok" => ~r.hidden
      BY <2>2
    <3> QED
      BY <1>1, <1>2, <2>1, <2>4, <2>6, <2>8, <3>1, SeenNow DEF RowsTyped
  <2>10. \A q \in rows : q.id = r.id => q.contract \in call[c].about
    BY <1>2, <2>1, <2>8 DEF RowsTyped, RowsInv
  <2>11. CallInv(c)'
    BY <1>1, <2>1, <2>4, <2>6, <2>8, <2>9, <2>10 DEF CallInv, At
  <2> QED
    BY <2>7, <2>11, CallKeeps
<1> QED
  BY <1>3, <1>4, <1>5 DEF Add

\* The UPDATE of Add: its row, if it is still there, is visible now.
LEMMA UnhideKeeps ==
  ASSUME TokenInv, Observe, NEW c \in Caller, Unhide(c)
  PROVE  TokenInv'
<1>1. call[c].op \in {"add", "ensure"} /\ UNCHANGED <<lastId, calls, edits>>
      /\ CallInv(c) /\ At(c, "unhide")
  BY InvTypes DEF Unhide, CallInv, At
<1>2. CASE UNCHANGED rows /\ Goto(c, "failed")
  BY <1>1, <1>2, Untouched, MovedOn DEF Pc
<1>3. ASSUME NEW r \in rows, r.id = call[c].id, SetHidden(call[c].id, FALSE), Goto(c, "ok")
      PROVE  TokenInv'
  <2>1. RowsTyped' /\ Fresh
    BY <1>1, <1>3, Updated, InvTypes
  <2>2. PICK q \in rows' : q.contract = r.contract /\ q.hidden = FALSE
    BY <1>1, <1>3, Updated, InvTypes
  <2>3. r.contract = Subject(c)
    BY <1>1, <1>3, SubjectOf DEF CallInv
  <2>4. call' \in [Caller -> Call] /\ call'[c].pc = "ok" /\ call'[c].about = {Subject(c)}
    BY <1>1, <1>3, GoneTo, InvTypes, SubjectOf DEF Pc
  <2>5. Subject(c) \in seen'[c]
    BY <2>1, <2>2, <2>3, <2>4, SeenNow DEF RowsTyped
  <2> QED
    BY <1>1, <1>3, <2>1, <2>5, SubjectOf, MovedOn DEF Pc
<1> QED
  BY <1>2, <1>3 DEF Unhide

\* The INSERT of Add.
LEMMA CreateRowKeeps ==
  ASSUME TokenInv, Observe, NEW c \in Caller, CreateRow(c)
  PROVE  TokenInv'
<1>1. call[c].op \in {"add", "ensure"} /\ UNCHANGED <<calls, edits>>
  BY InvTypes DEF CreateRow, CallInv, At
<1>2. CASE UNCHANGED <<rows, lastId>> /\ Goto(c, "failed")
  BY <1>1, <1>2, Untouched, MovedOn DEF Pc
<1>3. CASE Create(Subject(c)) /\ Goto(c, "ok")
  <2>1. RowsTyped' /\ Fresh
    BY <1>1, <1>3, Inserted, InvTypes, SubjectOf
  <2>2. PICK q \in rows' : q.contract = Subject(c) /\ ~q.hidden
    BY <1>1, <1>3, Inserted, InvTypes, SubjectOf
  <2>3. call' \in [Caller -> Call] /\ call'[c].pc = "ok" /\ call'[c].about = {Subject(c)}
    BY <1>1, <1>3, GoneTo, InvTypes, SubjectOf DEF Pc
  <2>4. Subject(c) \in seen'[c]
    BY <2>1, <2>2, <2>3, SeenNow DEF RowsTyped
  <2> QED
    BY <1>1, <1>3, <2>1, <2>4, SubjectOf, MovedOn DEF Pc
<1> QED
  BY <1>2, <1>3 DEF CreateRow

\* The look of Seed: what it will not add is on the list.
LEMMA SeedKeeps ==
  ASSUME TokenInv, Observe, NEW c \in Caller, Seed(c)
  PROVE  TokenInv'
<1>1. call[c].op = "seed" /\ UNCHANGED <<rows, lastId, calls, edits>> /\ call[c] \in Call
  BY InvTypes DEF Seed, CallInv, At
<1>2. RowsTyped' /\ Fresh /\ RowsTyped
  BY <1>1, Untouched, InvTypes
<1>3. CASE Goto(c, "failed")
  BY <1>1, <1>2, <1>3, MovedOn DEF Pc
<1>4. CASE call' = [call EXCEPT ![c] =
               [call[c] EXCEPT !.todo = call[c].about \ Watched, !.pc = "seedCreate"]]
  <2> DEFINE new == [call[c] EXCEPT !.todo = call[c].about \ Watched, !.pc = "seedCreate"]
  <2>1. /\ new \in Call /\ new.op = "seed" /\ new.about = call[c].about
        /\ new.todo = call[c].about \ Watched /\ new.pc = "seedCreate"
    BY <1>1 DEF Call
  <2>2. call' = [call EXCEPT ![c] = new]
    BY <1>4
  <2> HIDE DEF new
  <2>3. call' \in [Caller -> Call] /\ call'[c] = new /\ \A d \in Caller \ {c} : call'[d] = call[d]
    BY <2>1, <2>2, InvTypes
  <2>4. Sound(c)
    BY <1>1, <1>2, <2>3, InvTypes DEF Sound
  <2>5. ASSUME NEW k \in call'[c].about \ call'[c].todo
        PROVE  k \in seen'[c]
    <3>1. PICK q \in rows : q.contract = k
      BY <2>1, <2>3, <2>5 DEF Watched
    <3> QED
      BY <1>1, <1>2, <2>1, <2>3, <2>5, <3>1, SeenNow DEF RowsTyped
  <2>6. CallInv(c)'
    BY <2>1, <2>3, <2>5 DEF CallInv, At
  <2> QED
    BY <2>4, <2>6, CallKeeps
<1> QED
  BY <1>3, <1>4 DEF Seed

\* One INSERT of the seed: its token is on the list, or out of the claim.
LEMMA SeedCreateKeeps ==
  ASSUME TokenInv, Observe, NEW c \in Caller, SeedCreate(c)
  PROVE  TokenInv'
<1>1. /\ call[c].op = "seed" /\ UNCHANGED <<calls, edits>> /\ call[c] \in Call
      /\ call[c].pc = "seedCreate" /\ call[c].about \ call[c].todo \subseteq seen[c]
  BY InvTypes DEF SeedCreate, CallInv, At
<1>2. PICK k \in call[c].todo :
        \/ /\ Create(k) \/ (k \in Watched /\ UNCHANGED <<rows, lastId>>)
           /\ call' = [call EXCEPT ![c].todo = @ \ {k}]
        \/ /\ call' = [call EXCEPT ![c] = [call[c] EXCEPT !.todo = @ \ {k}, !.about = @ \ {k}]]
           /\ UNCHANGED <<rows, lastId>>
  BY DEF SeedCreate
<1>3. k \in Contract
  BY <1>1 DEF Call
<1>4. RowsTyped' /\ Fresh
  BY <1>2, <1>3, Inserted, Untouched, InvTypes
<1>5. /\ call' \in [Caller -> Call] /\ \A d \in Caller \ {c} : call'[d] = call[d]
      /\ call'[c].op = "seed" /\ call'[c].pc = "seedCreate" /\ call'[c].todo = call[c].todo \ {k}
      /\ \/ call'[c].about = call[c].about /\ (Create(k) \/ (k \in Watched /\ UNCHANGED rows))
         \/ call'[c].about = call[c].about \ {k}
  <2>1. CASE call' = [call EXCEPT ![c].todo = @ \ {k}]
             /\ (Create(k) \/ (k \in Watched /\ UNCHANGED <<rows, lastId>>))
    BY <1>1, <2>1, InvTypes DEF Call
  <2>2. CASE call' = [call EXCEPT ![c] = [call[c] EXCEPT !.todo = @ \ {k}, !.about = @ \ {k}]]
    <3> DEFINE new == [call[c] EXCEPT !.todo = @ \ {k}, !.about = @ \ {k}]
    <3>1. /\ new \in Call /\ new.op = call[c].op /\ new.pc = call[c].pc
          /\ new.about = call[c].about \ {k} /\ new.todo = call[c].todo \ {k}
      BY <1>1 DEF Call
    <3>2. call' = [call EXCEPT ![c] = new]
      BY <2>2
    <3> HIDE DEF new
    <3> QED
      BY <1>1, <3>1, <3>2, InvTypes
  <2> QED
    BY <1>2, <2>1, <2>2
<1>6. Sound(c)
  BY <1>1, <1>4, <1>5, InvTypes DEF Sound
<1>7. seen[c] \subseteq seen'[c]
  BY <1>4, <1>5, Observed DEF At, RowsTyped, TokenInv
<1>8. ASSUME call'[c].about = call[c].about, Create(k) \/ (k \in Watched /\ UNCHANGED rows),
             k \in call[c].about
      PROVE  k \in seen'[c]
  <2>1. PICK q \in rows' : q.contract = k
    BY <1>3, <1>8, Inserted, InvTypes DEF Watched
  <2> QED
    BY <1>4, <1>5, <1>8, <2>1, SeenNow DEF RowsTyped
<1>9. call'[c].about \ call'[c].todo \subseteq seen'[c]
  BY <1>1, <1>5, <1>7, <1>8
<1>10. CallInv(c)'
  BY <1>5, <1>9 DEF CallInv, At
<1> QED
  BY <1>6, <1>10, CallKeeps

\* The loop is over: nothing is left out of what it has seen.
LEMMA SeedDoneKeeps ==
  ASSUME TokenInv, Observe, NEW c \in Caller, SeedDone(c)
  PROVE  TokenInv'
<1>1. /\ call[c].todo = {} /\ Goto(c, "ok") /\ UNCHANGED <<rows, lastId, calls, edits>>
      /\ call[c].about \ call[c].todo \subseteq seen[c]
  BY InvTypes DEF SeedDone, CallInv
<1>2. RowsTyped' /\ Fresh
  BY <1>1, Untouched
<1>3. call' \in [Caller -> Call] /\ call'[c].pc = "ok"
  BY <1>1, GoneTo, InvTypes DEF Pc
<1>4. seen[c] \subseteq seen'[c]
  BY <1>2, <1>3, Observed DEF At, RowsTyped, TokenInv
<1> QED
  BY <1>1, <1>2, <1>4, MovedOn DEF Pc

\* TokenMetadata, and the return of a call.
LEMMA MetadataKeeps ==
  ASSUME TokenInv, Observe, NEW c \in Caller, Metadata(c)
  PROVE  TokenInv'
<1>1. call[c].op \in {"add", "ensure"} /\ UNCHANGED <<rows, lastId, calls, edits>>
  BY InvTypes DEF Metadata, CallInv, At
<1> QED
  BY <1>1, Untouched, MovedOn DEF Metadata, Pc

\* A call that returned is forgotten.
LEMMA ReturnKeeps ==
  ASSUME TokenInv, Observe, NEW c \in Caller, Return(c)
  PROVE  TokenInv'
<1>1. NoCall \in Call
  BY DEF NoCall, Call
<1>2. call' = [call EXCEPT ![c] = NoCall] /\ UNCHANGED <<rows, lastId, calls, edits>>
  BY DEF Return
<1>3. call' \in [Caller -> Call] /\ call'[c] = NoCall /\ \A d \in Caller \ {c} : call'[d] = call[d]
  BY <1>1, <1>2, InvTypes
<1>4. Sound(c)
  BY <1>2, <1>3, Untouched, InvTypes DEF Sound
<1>5. CallInv(c)'
  BY <1>3 DEF CallInv, At, NoCall
<1> QED
  BY <1>4, <1>5, CallKeeps

\* The user's own statements, under any call's feet.
LEMMA EditKeeps ==
  ASSUME TokenInv, Observe, Edit, RowsTyped' /\ Fresh
  PROVE  TokenInv'
<1>1. edits' \in 0..MaxEdits /\ UNCHANGED <<call, lastId, calls>>
  BY InvTypes, WatchlistAssumption DEF Edit
<1>2. ASSUME NEW c PROVE Sound(c)
  BY <1>1, InvTypes DEF Sound
<1>3. PICK nobody : nobody \notin Caller
  BY NoSetContainsEverything
<1> QED
  BY <1>2, <1>3, CallKeeps

-----------------------------------------------------------------------------
(* What a step of the watchlist does. *)

\* Every step of the watchlist keeps its invariant.
LEMMA TokenStepKeeps ==
  ASSUME TokenInv, Next
  PROVE  TokenInv'
<1>1. Observe
  BY DEF Next
<1>2. ASSUME NEW c \in Caller, AddToken(c) \/ EnsureSwapToken(c) \/ BeginSeed(c)
      PROVE  TokenInv'
  <2>1. CASE AddToken(c)
    BY <1>1, <2>1, Began DEF AddToken
  <2>2. CASE EnsureSwapToken(c)
    BY <1>1, <2>2, Began DEF EnsureSwapToken
  <2>3. CASE BeginSeed(c)
    BY <1>1, <2>3, Began DEF BeginSeed
  <2> QED
    BY <1>2, <2>1, <2>2, <2>3
<1>3. ASSUME PinToken \/ HideToken \/ RemoveToken
      PROVE  TokenInv'
  <2>1. CASE PinToken
    <3>1. PICK r \in rows, p \in BOOLEAN : SetPinned(r.id, p)
      BY <2>1 DEF PinToken
    <3> QED
      BY <1>1, <2>1, <3>1, Updated, InvTypes, EditKeeps DEF PinToken, Edit
  <2>2. CASE HideToken
    <3>1. PICK r \in rows, h \in BOOLEAN : SetHidden(r.id, h)
      BY <2>2 DEF HideToken
    <3> QED
      BY <1>1, <2>2, <3>1, Updated, InvTypes, EditKeeps DEF HideToken, Edit
  <2>3. CASE RemoveToken
    BY <1>1, <2>3, Deleted, InvTypes, EditKeeps DEF RemoveToken, Edit
  <2> QED
    BY <1>3, <2>1, <2>2, <2>3
<1> QED
  BY <1>1, <1>2, <1>3, EnsureWatchedKeeps, AddKeeps, UnhideKeeps, MetadataKeeps,
     CreateRowKeeps, SeedKeeps, SeedCreateKeeps, SeedDoneKeeps, ReturnKeeps DEF Next

\* Every step of the watchlist adds one contract, removes one, or leaves the
\* set of them alone.
LEMMA OneContractAtATime ==
  ASSUME TokenInv, Next
  PROVE  Abstract!Next \/ UNCHANGED <<Watched, resets>>
<1> USE InvTypes
<1>0. UNCHANGED resets
  BY DEF Next
<1>1. ASSUME NEW k \in Contract, Create(k)
      PROVE  Abstract!Next
  BY <1>0, <1>1, Inserted DEF Abstract!Next, Abstract!Watch
<1>2. UNCHANGED rows => UNCHANGED Watched
  BY DEF Watched
<1>3. ASSUME NEW c \in Caller, Unhide(c)
      PROVE  UNCHANGED Watched
  BY <1>2, <1>3, Updated DEF Unhide
<1>4. ASSUME NEW c \in Caller, CreateRow(c)
      PROVE  Abstract!Next \/ UNCHANGED Watched
  <2>1. Create(Subject(c)) \/ UNCHANGED rows
    BY <1>4 DEF CreateRow
  <2>2. Subject(c) \in Contract
    BY <1>4, SubjectOf DEF CreateRow, CallInv, At
  <2> QED
    BY <1>1, <1>2, <2>1, <2>2
<1>5. ASSUME NEW c \in Caller, SeedCreate(c)
      PROVE  Abstract!Next \/ UNCHANGED Watched
  <2>1. PICK k \in call[c].todo : Create(k) \/ UNCHANGED rows
    BY <1>5 DEF SeedCreate
  <2>2. k \in Contract
    BY DEF Call
  <2> QED
    BY <1>1, <1>2, <2>1, <2>2
<1>6. ASSUME PinToken \/ HideToken
      PROVE  UNCHANGED Watched
  <2>1. UNCHANGED lastId /\ \E r \in rows, b \in BOOLEAN : SetPinned(r.id, b) \/ SetHidden(r.id, b)
    BY <1>6 DEF PinToken, HideToken, Edit
  <2> QED
    BY <2>1, Updated
<1>7. ASSUME RemoveToken
      PROVE  Abstract!Next
  <2>1. PICK r \in rows : Delete(r.id) /\ UNCHANGED lastId
    BY <1>7 DEF RemoveToken, Edit
  <2>2. r.contract \in Contract
    BY DEF RowsTyped, Row
  <2> QED
    BY <1>0, <2>1, <2>2, Deleted DEF Abstract!Next, Abstract!Unwatch
<1>8. ASSUME NEW c \in Caller,
             \/ AddToken(c) \/ EnsureSwapToken(c) \/ BeginSeed(c)
             \/ EnsureWatched(c) \/ Add(c) \/ Metadata(c) \/ Seed(c) \/ SeedDone(c) \/ Return(c)
      PROVE  UNCHANGED rows
  BY <1>8 DEF AddToken, EnsureSwapToken, BeginSeed, Begin, EnsureWatched, Add, Metadata, Seed,
              SeedDone, Return
<1> QED
  BY <1>0, <1>2, <1>3, <1>4, <1>5, <1>6, <1>7, <1>8 DEF Next

\* What a step keeps of the rows unless it is the user's.
Kept == edits' = edits => \A r \in rows : \E q \in rows' :
  /\ q.id = r.id /\ q.contract = r.contract
  /\ q.pinned = r.pinned /\ (q.hidden => r.hidden)

\* No call pins, hides, removes or replaces a row.
LEMMA OnlyTheUserEdits ==
  ASSUME TokenInv, Next
  PROVE  Kept
<1> USE InvTypes
<1>1. rows \subseteq rows' => Kept
  BY DEF Kept
<1>2. UNCHANGED rows => Kept
  BY DEF Kept
<1>3. ASSUME NEW k \in Contract, Create(k)
      PROVE  Kept
  BY <1>1, <1>3, Inserted
<1>4. ASSUME NEW c \in Caller, Unhide(c)
      PROVE  Kept
  <2>1. CASE UNCHANGED rows
    BY <1>2, <2>1
  <2>2. CASE SetHidden(call[c].id, FALSE) /\ UNCHANGED lastId
    <3>1. ASSUME NEW r \in rows
          PROVE  \E q \in rows' :
                   /\ q.id = r.id /\ q.contract = r.contract
                   /\ q.pinned = r.pinned /\ (q.hidden => r.hidden)
      <4>1. PICK q \in rows' :
              /\ q.id = r.id /\ q.contract = r.contract /\ q.pinned = r.pinned
              /\ q.hidden = IF r.id = call[c].id THEN FALSE ELSE r.hidden
        BY <2>2, Updated
      <4>2. q.hidden = FALSE \/ q.hidden = r.hidden
        BY <4>1
      <4>3. q.hidden => r.hidden
        BY <4>2, Zenon
      <4> QED
        BY <4>1, <4>3
    <3> QED
      BY <3>1 DEF Kept
  <2> QED
    BY <1>4, <2>1, <2>2 DEF Unhide
<1>5. ASSUME NEW c \in Caller, CreateRow(c) \/ SeedCreate(c)
      PROVE  Kept
  <2>1. CASE UNCHANGED rows
    BY <1>2, <2>1
  <2>2. ASSUME NEW k \in Contract, Create(k)
        PROVE  Kept
    BY <1>3, <2>2
  <2>3. CASE CreateRow(c)
    <3>1. Subject(c) \in Contract
      BY <2>3, SubjectOf DEF CreateRow, CallInv, At
    <3> QED
      BY <2>1, <2>2, <2>3, <3>1 DEF CreateRow
  <2>4. CASE SeedCreate(c)
    <3>1. call[c].todo \subseteq Contract
      BY DEF Call
    <3> QED
      BY <2>1, <2>2, <2>4, <3>1 DEF SeedCreate
  <2> QED
    BY <1>5, <2>3, <2>4
<1>6. ASSUME PinToken \/ HideToken \/ RemoveToken
      PROVE  edits' # edits
  BY <1>6 DEF PinToken, HideToken, RemoveToken, Edit
<1>7. ASSUME NEW c \in Caller,
             \/ AddToken(c) \/ EnsureSwapToken(c) \/ BeginSeed(c)
             \/ EnsureWatched(c) \/ Add(c) \/ Metadata(c) \/ Seed(c) \/ SeedDone(c) \/ Return(c)
      PROVE  UNCHANGED rows
  BY <1>7 DEF AddToken, EnsureSwapToken, BeginSeed, Begin, EnsureWatched, Add, Metadata, Seed,
              SeedDone, Return
<1>8. edits' # edits => Kept
  BY DEF Kept
<1> QED
  BY <1>2, <1>4, <1>5, <1>6, <1>7, <1>8 DEF Next

\* The import of another wallet empties the list at once, under any call's
\* feet; it is the user's.
LEMMA WalletReplaced ==
  ASSUME TokenInv, resets \in Nat, Reset
  PROVE  TokenInv' /\ resets' \in Nat /\ Kept /\ Abstract!Replace
<1>1. Observe /\ Edit /\ rows' = {} /\ resets' = resets + 1
  BY DEF Reset, DeleteAllRows
<1>2. RowsTyped' /\ Fresh
  BY <1>1, InvTypes DEF RowsTyped, RowsInv, Fresh, Edit
<1>3. TokenInv'
  BY <1>1, <1>2, EditKeeps
<1>4. edits' # edits
  BY <1>1, InvTypes DEF Edit
<1>5. Abstract!Replace
  BY <1>1 DEF Abstract!Replace, Watched
<1> QED
  BY <1>1, <1>3, <1>4, <1>5 DEF Kept

-----------------------------------------------------------------------------
(* From the error of a handler to the status of its RPC. *)

\* What the end of a chain should be reported as.
Truth(end) ==
  CASE end = "done" -> "OK"
    [] end \in {"NOT_FOUND", "ALREADY_EXISTS"} -> end
    [] end = "refused" -> "UNAUTHENTICATED"
    [] OTHER -> "INTERNAL"

\* The chains the contact handlers return.
Chains ==
  {<<>>, <<"NOT_FOUND">>, <<"ALREADY_EXISTS">>, <<"PLAIN">>, <<"INTERNAL", "PLAIN">>,
   <<"INTERNAL", "NOT_FOUND">>, <<"INTERNAL", "ALREADY_EXISTS">>,
   <<"INTERNAL", "INTERNAL", "PLAIN">>}

\* A code in front of a chain of one code.
LEMMA OneWrapped ==
  ASSUME NEW S, NEW s \in S, NEW t \in S
  PROVE  <<s>> \o <<t>> = <<s, t>>
<1>1. /\ <<s>> \o <<t>> \in Seq(S) /\ Len(<<s>> \o <<t>>) = 2
      /\ (<<s>> \o <<t>>)[1] = s /\ (<<s>> \o <<t>>)[2] = t
  OBVIOUS
<1>2. <<s, t>> \in Seq(S) /\ Len(<<s, t>>) = 2 /\ <<s, t>>[1] = s /\ <<s, t>>[2] = t
  OBVIOUS
<1>3. \A i \in 1..2 : i = 1 \/ i = 2
  OBVIOUS
<1>4. \A i \in 1..2 : (<<s>> \o <<t>>)[i] = <<s, t>>[i]
  BY <1>1, <1>2, <1>3
<1> QED
  BY <1>1, <1>2, <1>4, SeqEqual

\* A code in front of a chain of two.
LEMMA TwoWrapped ==
  ASSUME NEW S, NEW s \in S, NEW t \in S, NEW u \in S
  PROVE  <<s>> \o <<t, u>> = <<s, t, u>>
<1>1. /\ <<s>> \o <<t, u>> \in Seq(S) /\ Len(<<s>> \o <<t, u>>) = 3
      /\ (<<s>> \o <<t, u>>)[1] = s /\ (<<s>> \o <<t, u>>)[2] = t
      /\ (<<s>> \o <<t, u>>)[3] = u
  OBVIOUS
<1>2. /\ <<s, t, u>> \in Seq(S) /\ Len(<<s, t, u>>) = 3
      /\ <<s, t, u>>[1] = s /\ <<s, t, u>>[2] = t /\ <<s, t, u>>[3] = u
  OBVIOUS
<1>3. \A i \in 1..3 : i = 1 \/ i = 2 \/ i = 3
  OBVIOUS
<1>4. \A i \in 1..3 : (<<s>> \o <<t, u>>)[i] = <<s, t, u>>[i]
  BY <1>1, <1>2, <1>3
<1> QED
  BY <1>1, <1>2, <1>4, SeqEqual

\* The statements return such chains, and still do once wrapped.
LEMMA Wrapped ==
  ASSUME NEW err \in Book!StorageError
  PROVE  err \in Chains /\ Book!Wrapf(err, "INTERNAL") \in Chains
<1> DEFINE Words == {"INTERNAL", "PLAIN", "NOT_FOUND", "ALREADY_EXISTS"}
<1>0. /\ <<"INTERNAL">> \o <<"PLAIN">> = <<"INTERNAL", "PLAIN">>
      /\ <<"INTERNAL">> \o <<"NOT_FOUND">> = <<"INTERNAL", "NOT_FOUND">>
      /\ <<"INTERNAL">> \o <<"ALREADY_EXISTS">> = <<"INTERNAL", "ALREADY_EXISTS">>
      /\ <<"INTERNAL">> \o <<"INTERNAL", "PLAIN">> = <<"INTERNAL", "INTERNAL", "PLAIN">>
  <2>1. /\ "INTERNAL" \in Words /\ "PLAIN" \in Words
        /\ "NOT_FOUND" \in Words /\ "ALREADY_EXISTS" \in Words
    OBVIOUS
  <2> HIDE DEF Words
  <2>2. \A s, t \in Words : <<s>> \o <<t>> = <<s, t>>
    BY OneWrapped
  <2>3. \A s, t, u \in Words : <<s>> \o <<t, u>> = <<s, t, u>>
    BY TwoWrapped
  <2> QED
    BY <2>1, <2>2, <2>3
<1>1. Book!ExecFails = <<"INTERNAL", "PLAIN">>
  <2>1. <<"PLAIN">> # <<>>
    OBVIOUS
  <2> QED
    BY <1>0, <2>1 DEF Book!ExecFails, Book!Wrapf
<1>2. \/ err = <<>> \/ err = <<"NOT_FOUND">> \/ err = <<"ALREADY_EXISTS">>
      \/ err = <<"INTERNAL", "PLAIN">> \/ err = <<"PLAIN">>
  BY <1>1 DEF Book!StorageError, Book!ErrNotFound, Book!ErrAlreadyExists, Book!New
<1>3. err # <<>> => Book!Wrapf(err, "INTERNAL") = <<"INTERNAL">> \o err
  BY DEF Book!Wrapf
<1>4. err = <<>> => Book!Wrapf(err, "INTERNAL") = <<>>
  BY DEF Book!Wrapf
<1>5. /\ err = <<"NOT_FOUND">> => <<"INTERNAL">> \o err = <<"INTERNAL", "NOT_FOUND">>
      /\ err = <<"ALREADY_EXISTS">> => <<"INTERNAL">> \o err = <<"INTERNAL", "ALREADY_EXISTS">>
      /\ err = <<"PLAIN">> => <<"INTERNAL">> \o err = <<"INTERNAL", "PLAIN">>
      /\ err = <<"INTERNAL", "PLAIN">> => <<"INTERNAL">> \o err = <<"INTERNAL", "INTERNAL", "PLAIN">>
  BY <1>0
<1>6. Book!Wrapf(err, "INTERNAL") \in Chains
  BY <1>2, <1>3, <1>4, <1>5, Zenon DEF Chains
<1> QED
  BY <1>2, <1>6 DEF Chains

\* However an error was wrapped, its status is that of the end of its chain.
LEMMA HandledTruly ==
  ASSUME NEW err \in Chains
  PROVE  Book!HandleError(err) = Truth(IF err = <<>> THEN "done" ELSE err[Len(err)])
<1> USE DEF Book!HandleError, Book!ToGRPCError, Book!grpcCode, Book!Is, Truth
<1>1. CASE err = <<>>
  BY <1>1
<1>2. CASE err = <<"NOT_FOUND">> \/ err = <<"INTERNAL", "NOT_FOUND">>
  BY <1>2
<1>3. CASE err = <<"ALREADY_EXISTS">> \/ err = <<"INTERNAL", "ALREADY_EXISTS">>
  BY <1>3
<1>4. CASE err = <<"PLAIN">>
  BY <1>4 DEF Book!Tagged
<1>5. CASE err = <<"INTERNAL", "PLAIN">> \/ err = <<"INTERNAL", "INTERNAL", "PLAIN">>
  <2>1. 1 \in Book!Tagged(err) /\ Book!Tagged(err) \subseteq Nat \ {0}
    BY <1>5 DEF Book!Tagged
  <2>2. Book!As(err) = "INTERNAL"
    <3> DEFINE first == CHOOSE i \in Book!Tagged(err) : \A j \in Book!Tagged(err) : i <= j
    <3>1. first = 1
      BY <2>1
    <3>2. Book!As(err) = err[first]
      BY DEF Book!As
    <3> HIDE DEF first
    <3>3. err[1] = "INTERNAL"
      BY <1>5
    <3> QED
      BY <3>1, <3>2, <3>3
  <2> QED
    BY <1>5, <2>1, <2>2
<1> QED
  BY <1>1, <1>2, <1>3, <1>4, <1>5 DEF Chains

-----------------------------------------------------------------------------
(* The statements of the contacts table. *)

\* What a step keeps of the stars.
SameStars == \A r \in contacts, q \in contacts' : r.id = q.id => r.favorite = q.favorite

\* A table left alone.
LEMMA BookUntouched ==
  ASSUME ContactsInv, UNCHANGED <<contacts, made>>
  PROVE  ContactsInv' /\ SameStars
BY DEF ContactsInv, Book!ContactTypeOK, SameStars

\* An INSERT: a new id and a new address, or nothing.
LEMMA ContactInserted ==
  ASSUME ContactsInv, NEW a \in Address, NEW n \in Name, NEW err, Book!Insert(a, n, err)
  PROVE  ContactsInv' /\ SameStars
<1> DEFINE new == [id |-> made + 1, address |-> a, name |-> n, favorite |-> FALSE]
<1>1. CASE UNCHANGED <<contacts, made>>
  BY <1>1, BookUntouched
<1>2. CASE /\ ~\E r \in contacts : r.address = a
           /\ made' = made + 1 /\ contacts' = contacts \cup {new}
  <2>1. /\ made \in Nat /\ contacts \subseteq Book!Contact
        /\ \A r \in contacts : r.id \in Nat /\ r.id <= made /\ r.address # a
    BY <1>2 DEF ContactsInv, Book!ContactTypeOK, Book!Contact
  <2>2. /\ new \in Book!Contact /\ new.id = made + 1 /\ new.address = a
    BY <2>1 DEF Book!Contact
  <2>3. contacts' = contacts \cup {new} /\ made' = made + 1
    BY <1>2
  <2> HIDE DEF new
  <2>4. \A r, q \in contacts' : r.address = q.address => r = q
    BY <2>1, <2>2, <2>3 DEF ContactsInv, Book!ContactTypeOK
  <2>5. \A r, q \in contacts' : r.id = q.id => r = q
    BY <2>1, <2>2, <2>3 DEF ContactsInv
  <2>6. contacts' \subseteq Book!Contact /\ made' \in Nat /\ \A r \in contacts' : r.id <= made'
    BY <2>1, <2>2, <2>3
  <2>7. SameStars
    BY <2>1, <2>2, <2>3 DEF SameStars, ContactsInv
  <2> QED
    BY <2>4, <2>5, <2>6, <2>7 DEF ContactsInv, Book!ContactTypeOK
<1> QED
  BY <1>1, <1>2 DEF Book!Insert

\* An UPDATE or DELETE of the one row with an id.
LEMMA ContactReplaced ==
  ASSUME ContactsInv, NEW id, NEW new, NEW err, Book!Exec(id, new, err),
         \A q \in new : /\ q \in Book!Contact
                        /\ \E r \in Book!RowsAt(id) : q.id = r.id /\ q.address = r.address,
         \A p, q \in new : p = q
  PROVE  /\ ContactsInv'
         /\ \A r \in contacts, q \in contacts' :
              r.id = q.id => q = r \/ (q \in new /\ r \in Book!RowsAt(id))
<1>1. CASE UNCHANGED contacts
  BY <1>1, BookUntouched DEF Book!Exec, ContactsInv
<1>2. CASE contacts' = (contacts \ Book!RowsAt(id)) \cup new
  <2>1. made' = made /\ made \in Nat /\ contacts \subseteq Book!Contact
    BY DEF Book!Exec, ContactsInv, Book!ContactTypeOK
  <2>2. \A r \in contacts : r.id <= made
    BY DEF ContactsInv
  <2>3. \A r, q \in contacts : r.id = q.id \/ r.address = q.address => r = q
    BY DEF ContactsInv, Book!ContactTypeOK
  <2>4. /\ Book!RowsAt(id) \subseteq contacts
        /\ \A r \in contacts : r \in Book!RowsAt(id) <=> r.id = id
    BY DEF Book!RowsAt
  <2>5. \A r \in contacts' : r \in Book!Contact /\ r.id <= made
    BY <1>2, <2>1, <2>2, <2>4
  <2>6. \A r, q \in contacts' : r.id = q.id \/ r.address = q.address => r = q
    BY <1>2, <2>3, <2>4
  <2>7. ContactsInv'
    BY <2>1, <2>5, <2>6 DEF ContactsInv, Book!ContactTypeOK
  <2>8. \A r \in contacts, q \in contacts' :
          r.id = q.id => q = r \/ (q \in new /\ r \in Book!RowsAt(id))
    BY <1>2, <2>3, <2>4
  <2> QED
    BY <2>7, <2>8
<1> QED
  BY <1>1, <1>2 DEF Book!Exec

\* A contact with another name.
LEMMA EditedContact ==
  ASSUME NEW r \in Book!Contact, NEW n \in Name
  PROVE  /\ [r EXCEPT !.name = n] \in Book!Contact
         /\ [r EXCEPT !.name = n].id = r.id /\ [r EXCEPT !.name = n].address = r.address
         /\ [r EXCEPT !.name = n].favorite = r.favorite
BY DEF Book!Contact

\* A contact with another flag.
LEMMA FlaggedContact ==
  ASSUME NEW r \in Book!Contact, NEW f \in BOOLEAN
  PROVE  /\ [r EXCEPT !.favorite = f] \in Book!Contact
         /\ [r EXCEPT !.favorite = f].id = r.id /\ [r EXCEPT !.favorite = f].address = r.address
         /\ [r EXCEPT !.favorite = f].favorite = f
BY DEF Book!Contact

\* The UPDATE of a name leaves the star of its row as it finds it, whatever
\* was read before.
LEMMA ContactRenamed ==
  ASSUME ContactsInv, NEW id, NEW n \in Name, NEW read, NEW err, Book!Update(id, n, read, err)
  PROVE  ContactsInv' /\ SameStars
<1> DEFINE new == {[r EXCEPT !.name = n] : r \in Book!RowsAt(id)}
<1>1. \A r, q \in Book!RowsAt(id) : r = q /\ r \in Book!Contact
  BY DEF Book!RowsAt, ContactsInv, Book!ContactTypeOK
<1>2. \A q \in new : \E r \in Book!RowsAt(id) :
        /\ q = [r EXCEPT !.name = n] /\ q \in Book!Contact
        /\ q.id = r.id /\ q.address = r.address /\ q.favorite = r.favorite
  <2>1. ASSUME NEW q \in new
        PROVE  \E r \in Book!RowsAt(id) :
                 /\ q = [r EXCEPT !.name = n] /\ q \in Book!Contact
                 /\ q.id = r.id /\ q.address = r.address /\ q.favorite = r.favorite
    <3>1. PICK r \in Book!RowsAt(id) : q = [r EXCEPT !.name = n]
      OBVIOUS
    <3>2. r \in Book!Contact
      BY <1>1
    <3> QED
      BY <3>1, <3>2, EditedContact
  <2> QED
    BY <2>1
<1>3. \A p, q \in new : p = q
  BY <1>1, <1>2
<1>4. Book!Exec(id, new, err)
  BY DEF Book!Update
<1> HIDE DEF new
<1>5. /\ ContactsInv'
      /\ \A r \in contacts, q \in contacts' :
           r.id = q.id => q = r \/ (q \in new /\ r \in Book!RowsAt(id))
  BY <1>2, <1>3, <1>4, ContactReplaced
<1> QED
  BY <1>1, <1>2, <1>5 DEF SameStars

\* The UPDATE of a star changes that of the row it names.
LEMMA ContactStarred ==
  ASSUME ContactsInv, NEW id, NEW f \in BOOLEAN, NEW err, Book!SetFavorite(id, f, err)
  PROVE  /\ ContactsInv'
         /\ \A r \in contacts, q \in contacts' :
              r.id = q.id => r.favorite = q.favorite \/ (r.id = id /\ q.favorite = f)
<1> DEFINE new == {[r EXCEPT !.favorite = f] : r \in Book!RowsAt(id)}
<1>1. \A r, q \in Book!RowsAt(id) : r = q /\ r \in Book!Contact /\ r.id = id
  BY DEF Book!RowsAt, ContactsInv, Book!ContactTypeOK
<1>2. \A q \in new : \E r \in Book!RowsAt(id) :
        /\ q = [r EXCEPT !.favorite = f] /\ q \in Book!Contact
        /\ q.id = r.id /\ q.address = r.address /\ q.favorite = f
  <2>1. ASSUME NEW q \in new
        PROVE  \E r \in Book!RowsAt(id) :
                 /\ q = [r EXCEPT !.favorite = f] /\ q \in Book!Contact
                 /\ q.id = r.id /\ q.address = r.address /\ q.favorite = f
    <3>1. PICK r \in Book!RowsAt(id) : q = [r EXCEPT !.favorite = f]
      OBVIOUS
    <3>2. r \in Book!Contact
      BY <1>1
    <3> QED
      BY <3>1, <3>2, FlaggedContact
  <2> QED
    BY <2>1
<1>3. \A p, q \in new : p = q
  BY <1>1, <1>2
<1>4. Book!Exec(id, new, err)
  BY DEF Book!SetFavorite
<1> HIDE DEF new
<1>5. /\ ContactsInv'
      /\ \A r \in contacts, q \in contacts' :
           r.id = q.id => q = r \/ (q \in new /\ r \in Book!RowsAt(id))
  BY <1>2, <1>3, <1>4, ContactReplaced
<1> QED
  BY <1>1, <1>2, <1>5

\* A DELETE leaves the other rows alone.
LEMMA ContactDeleted ==
  ASSUME ContactsInv, NEW id, NEW err, Book!Delete(id, err)
  PROVE  ContactsInv' /\ SameStars
<1>1. Book!Exec(id, {}, err)
  BY DEF Book!Delete
<1>2. /\ ContactsInv' /\ \A r \in contacts, q \in contacts' : r.id = q.id => q = r
  BY <1>1, ContactReplaced
<1> QED
  BY <1>2 DEF SameStars

-----------------------------------------------------------------------------
(* The contact RPCs. *)

\* A step of one RPC keeps what is known of the others.
LEMMA RpcKeeps ==
  ASSUME RpcInv, StatusIsTrue, NEW c \in Caller, NEW r \in Rpcs, NEW w \in Ends,
         rpc' = [rpc EXCEPT ![c] = r], why' = [why EXCEPT ![c] = w], rpcs' \in Nat,
         r.method = "CreateContact" => r.address \in Address,
         r.method \in {"CreateContact", "UpdateContact"} => r.name \in Name,
         r.pc = "done" => r.status = Truth(w)
  PROVE  RpcInv' /\ StatusIsTrue'
<1>1. /\ rpc' \in [Caller -> Rpcs] /\ why' \in [Caller -> Ends]
      /\ rpc'[c] = r /\ why'[c] = w
      /\ \A d \in Caller \ {c} : rpc'[d] = rpc[d] /\ why'[d] = why[d]
  BY DEF RpcInv
<1>2. RpcInv'
  BY <1>1 DEF RpcInv
<1>3. \A d \in Caller : rpc[d].pc = "done" => rpc[d].status = Truth(why[d])
  BY DEF StatusIsTrue, Book!StatusIsTrue, Truth
<1>4. \A d \in Caller : rpc'[d].pc = "done" => rpc'[d].status = Truth(why'[d])
  BY <1>1, <1>3
<1>5. StatusIsTrue'
  BY <1>4 DEF StatusIsTrue, Book!StatusIsTrue, Truth
<1> QED
  BY <1>2, <1>5

\* The end of a chain is a word, and so is the status it becomes.
LEMMA ChainWords ==
  ASSUME NEW err \in Chains
  PROVE  (IF err = <<>> THEN "done" ELSE err[Len(err)]) \in Ends
<1>1. CASE err = <<>>
  BY <1>1 DEF Ends
<1>2. ASSUME NEW w \in Ends, err = <<w>>
      PROVE  (IF err = <<>> THEN "done" ELSE err[Len(err)]) \in Ends
  BY <1>2
<1>3. ASSUME NEW v, NEW w \in Ends, err = <<v, w>>
      PROVE  (IF err = <<>> THEN "done" ELSE err[Len(err)]) \in Ends
  BY <1>3
<1>4. ASSUME NEW u, NEW v, NEW w \in Ends, err = <<u, v, w>>
      PROVE  (IF err = <<>> THEN "done" ELSE err[Len(err)]) \in Ends
  BY <1>4
<1>5. /\ "PLAIN" \in Ends /\ "NOT_FOUND" \in Ends /\ "ALREADY_EXISTS" \in Ends
  BY DEF Ends
<1>6. \/ err = <<>> \/ \E w \in Ends : err = <<w>> \/ (\E v : err = <<v, w>>)
      \/ \E u, v : \E w \in Ends : err = <<u, v, w>>
  BY <1>5, Zenon DEF Chains
<1> QED
  BY <1>1, <1>2, <1>3, <1>4, <1>6

\* The status of a word is a word.
LEMMA TruthWords ==
  ASSUME NEW w \in Ends
  PROVE  Truth(w) \in Statuses
BY DEF Truth, Ends, Statuses

\* An answer is true, whatever the chain.
LEMMA AnswerKeeps ==
  ASSUME RpcInv, StatusIsTrue, NEW c \in Caller, NEW err \in Chains, Book!Answer(c, err)
  PROVE  RpcInv' /\ StatusIsTrue'
<1>1. PICK w : w = IF err = <<>> THEN "done" ELSE err[Len(err)]
  OBVIOUS
<1>2. w \in Ends /\ Book!HandleError(err) = Truth(w) /\ Truth(w) \in Statuses
  BY <1>1, ChainWords, HandledTruly, TruthWords
<1> DEFINE r == [rpc[c] EXCEPT !.pc = "done", !.read = {}, !.status = Book!HandleError(err)]
<1>3. rpc[c] \in Rpcs
  BY DEF RpcInv
<1>4. /\ r \in Rpcs /\ r.pc = "done" /\ r.status = Truth(w) /\ r.method = rpc[c].method
      /\ r.address = rpc[c].address /\ r.name = rpc[c].name
  BY <1>2, <1>3 DEF Rpcs
<1>5. /\ rpc' = [rpc EXCEPT ![c] = r] /\ why' = [why EXCEPT ![c] = w] /\ rpcs' \in Nat
  BY <1>1 DEF Book!Answer, RpcInv
<1> HIDE DEF r
<1> QED
  BY <1>2, <1>4, <1>5, RpcKeeps DEF RpcInv

\* A request that is let in, or refused.
LEMMA ArriveKeeps ==
  ASSUME RpcInv, StatusIsTrue, NEW c \in Caller, NEW request \in Rpcs, Book!Arrive(c, request),
         request.pc = "handler",
         request.method = "CreateContact" => request.address \in Address,
         request.method \in {"CreateContact", "UpdateContact"} => request.name \in Name
  PROVE  RpcInv' /\ StatusIsTrue' /\ UNCHANGED <<contacts, made>>
<1>1. UNCHANGED <<contacts, made>> /\ rpcs' \in Nat
  BY DEF Book!Arrive, RpcInv
<1>2. CASE rpc' = [rpc EXCEPT ![c] = request] /\ UNCHANGED why
  <2>1. why[c] \in Ends /\ why' = [why EXCEPT ![c] = why[c]]
    BY <1>2 DEF RpcInv
  <2> QED
    BY <1>1, <1>2, <2>1, RpcKeeps
<1>3. CASE /\ rpc' = [rpc EXCEPT ![c] =
                [request EXCEPT !.pc = "done", !.status = "UNAUTHENTICATED"]]
           /\ why' = [why EXCEPT ![c] = "refused"]
  <2> DEFINE r == [request EXCEPT !.pc = "done", !.status = "UNAUTHENTICATED"]
  <2>1. /\ r \in Rpcs /\ r.pc = "done" /\ r.status = "UNAUTHENTICATED"
        /\ r.method = request.method /\ r.address = request.address /\ r.name = request.name
    BY DEF Rpcs, Statuses
  <2>2. rpc' = [rpc EXCEPT ![c] = r] /\ why' = [why EXCEPT ![c] = "refused"]
    BY <1>3
  <2>3. Truth("refused") = "UNAUTHENTICATED" /\ "refused" \in Ends
    BY DEF Truth, Ends
  <2> HIDE DEF r
  <2> QED
    BY <1>1, <2>1, <2>2, <2>3, RpcKeeps
<1> QED
  BY <1>2, <1>3 DEF Book!Arrive

\* An empty request, and one of each method.
LEMMA Requested ==
  ASSUME NEW m \in Book!Method
  PROVE  /\ Book!NoRpc \in Rpcs /\ Book!NoRpc.method = "" /\ Book!NoRpc.pc = "idle"
         /\ Book!Request(m) \in Rpcs /\ Book!Request(m).method = m
         /\ Book!Request(m).pc = "handler"
BY DEF Book!NoRpc, Rpcs, Book!Request, Statuses, Book!Method

\* Whatever a client asks for is a request of the service.
LEMMA SendKeeps ==
  ASSUME ContactsInv, RpcInv, StatusIsTrue, NEW c \in Caller, Book!Send(c)
  PROVE  RpcInv' /\ StatusIsTrue' /\ UNCHANGED <<contacts, made>>
<1>1. \A i \in 1..made : i \in Nat
  BY DEF ContactsInv
<1>2. ASSUME NEW a \in Address, NEW n \in Name,
             Book!Arrive(c, [Book!Request("CreateContact") EXCEPT !.address = a, !.name = n])
      PROVE  RpcInv' /\ StatusIsTrue' /\ UNCHANGED <<contacts, made>>
  <2> DEFINE r == [Book!Request("CreateContact") EXCEPT !.address = a, !.name = n]
  <2>1. r \in Rpcs /\ r.pc = "handler" /\ r.address = a /\ r.name = n
    <3>1. PICK base : base = Book!Request("CreateContact")
      OBVIOUS
    <3>2. base \in Rpcs /\ base.pc = "handler"
      BY <3>1, Requested DEF Book!Method
    <3>3. r = [base EXCEPT !.address = a, !.name = n]
      BY <3>1
    <3> QED
      BY <3>2, <3>3 DEF Rpcs
  <2> HIDE DEF r
  <2>2. Book!Arrive(c, r)
    BY <1>2 DEF r
  <2> QED
    BY <2>1, <2>2, ArriveKeeps
<1>3. ASSUME NEW i \in 1..made, NEW n \in Name,
             Book!Arrive(c, [Book!Request("UpdateContact") EXCEPT !.id = i, !.name = n])
      PROVE  RpcInv' /\ StatusIsTrue' /\ UNCHANGED <<contacts, made>>
  <2> DEFINE r == [Book!Request("UpdateContact") EXCEPT !.id = i, !.name = n]
  <2>1. r \in Rpcs /\ r.pc = "handler" /\ r.method = "UpdateContact" /\ r.name = n
    <3>1. PICK base : base = Book!Request("UpdateContact")
      OBVIOUS
    <3>2. base \in Rpcs /\ base.pc = "handler" /\ base.method = "UpdateContact"
      BY <3>1, Requested DEF Book!Method
    <3>3. r = [base EXCEPT !.id = i, !.name = n] /\ i \in Nat
      BY <1>1, <3>1
    <3> QED
      BY <3>2, <3>3 DEF Rpcs
  <2>2. Book!Arrive(c, r)
    BY <1>3
  <2> HIDE DEF r
  <2> QED
    BY <2>1, <2>2, ArriveKeeps
<1>4. ASSUME NEW i \in 1..made, NEW m \in {"GetContact", "DeleteContact"},
             Book!Arrive(c, [Book!Request(m) EXCEPT !.id = i])
      PROVE  RpcInv' /\ StatusIsTrue' /\ UNCHANGED <<contacts, made>>
  <2> DEFINE r == [Book!Request(m) EXCEPT !.id = i]
  <2>1. r \in Rpcs /\ r.pc = "handler" /\ r.method = m
    <3>1. PICK base : base = Book!Request(m)
      OBVIOUS
    <3>2. base \in Rpcs /\ base.pc = "handler" /\ base.method = m
      BY <3>1, Requested DEF Book!Method
    <3>3. r = [base EXCEPT !.id = i]
      BY <3>1
    <3> QED
      BY <1>1, <3>2, <3>3 DEF Rpcs
  <2>2. Book!Arrive(c, r)
    BY <1>4
  <2> HIDE DEF r
  <2> QED
    BY <2>1, <2>2, ArriveKeeps
<1>5. ASSUME NEW i \in 1..made, NEW f \in BOOLEAN,
             Book!Arrive(c, [Book!Request("FavoriteContact") EXCEPT !.id = i, !.favorite = f])
      PROVE  RpcInv' /\ StatusIsTrue' /\ UNCHANGED <<contacts, made>>
  <2> DEFINE r == [Book!Request("FavoriteContact") EXCEPT !.id = i, !.favorite = f]
  <2>1. r \in Rpcs /\ r.pc = "handler" /\ r.method = "FavoriteContact"
    <3>1. PICK base : base = Book!Request("FavoriteContact")
      OBVIOUS
    <3>2. base \in Rpcs /\ base.pc = "handler" /\ base.method = "FavoriteContact"
      BY <3>1, Requested DEF Book!Method
    <3>3. r = [base EXCEPT !.id = i, !.favorite = f]
      BY <3>1
    <3> QED
      BY <1>1, <3>2, <3>3 DEF Rpcs
  <2>2. Book!Arrive(c, r)
    BY <1>5
  <2> HIDE DEF r
  <2> QED
    BY <2>1, <2>2, ArriveKeeps
<1>6. CASE Book!Arrive(c, Book!Request("ListContacts"))
  BY <1>6, Requested, ArriveKeeps DEF Book!Method
<1> QED
  BY <1>2, <1>3, <1>4, <1>5, <1>6 DEF Book!Send

\* What a step of the contacts may do to a star.
StarsStep ==
  \A r \in contacts, q \in contacts' :
    r.id = q.id /\ r.favorite # q.favorite =>
      \E c \in Caller : Book!In(c, "FavoriteContact", "handler") /\ rpc[c].id = r.id
                        /\ rpc[c].favorite = q.favorite

\* A handler that answers, and leaves every star alone.
LEMMA HandlerKeeps ==
  ASSUME BookInv, NEW c \in Caller, NEW err \in Chains, Book!Answer(c, err),
         ContactsInv' /\ SameStars
  PROVE  BookInv' /\ StarsStep
<1>1. RpcInv' /\ StatusIsTrue'
  BY AnswerKeeps DEF BookInv
<1> QED
  BY <1>1 DEF BookInv, SameStars, StarsStep

\* CreateContact wraps the error of its INSERT.
LEMMA CreateContactKeeps ==
  ASSUME BookInv, NEW c \in Caller, Book!CreateContact(c)
  PROVE  BookInv' /\ StarsStep
<1>1. /\ ContactsInv /\ rpc[c].address \in Address /\ rpc[c].name \in Name
  BY DEF BookInv, RpcInv, Book!CreateContact, Book!In
<1>2. CASE Book!Answer(c, <<"PLAIN">>) /\ UNCHANGED <<contacts, made>>
  <2>1. <<"PLAIN">> \in Chains
    BY DEF Chains
  <2> QED
    BY <1>1, <1>2, <2>1, BookUntouched, HandlerKeeps
<1>3. ASSUME NEW err \in Book!StorageError, Book!Insert(rpc[c].address, rpc[c].name, err),
             Book!Answer(c, Book!Wrapf(err, "INTERNAL"))
      PROVE  BookInv' /\ StarsStep
  BY <1>1, <1>3, ContactInserted, Wrapped, HandlerKeeps
<1> QED
  BY <1>2, <1>3 DEF Book!CreateContact

\* The first statement of an update; the row it read is one of the table.
LEMMA UpdateLoadsKeeps ==
  ASSUME BookInv, NEW c \in Caller, Book!UpdateLoads(c)
  PROVE  BookInv' /\ StarsStep
<1>1. PICK err \in Book!StorageError :
        /\ UNCHANGED <<contacts, made>>
        /\ \/ Book!Answer(c, err)
           \/ /\ rpc' = [rpc EXCEPT ![c] =
                   [rpc[c] EXCEPT !.pc = "update", !.read = Book!RowsAt(rpc[c].id)]]
              /\ UNCHANGED <<rpcs, why>>
  BY DEF Book!UpdateLoads, Book!GetByID
<1>2. ContactsInv' /\ SameStars /\ ContactsInv
  BY <1>1, BookUntouched DEF BookInv
<1>3. CASE Book!Answer(c, err)
  BY <1>2, <1>3, Wrapped, HandlerKeeps
<1>4. CASE /\ rpc' = [rpc EXCEPT ![c] =
                [rpc[c] EXCEPT !.pc = "update", !.read = Book!RowsAt(rpc[c].id)]]
           /\ UNCHANGED <<rpcs, why>>
  <2>1. /\ rpc[c] \in Rpcs /\ why[c] \in Ends /\ why' = [why EXCEPT ![c] = why[c]]
        /\ rpcs' \in Nat
    BY <1>4 DEF BookInv, RpcInv
  <2>2. Book!RowsAt(rpc[c].id) \subseteq Book!Contact
    BY <1>2 DEF ContactsInv, Book!ContactTypeOK, Book!RowsAt
  <2> DEFINE r == [rpc[c] EXCEPT !.pc = "update", !.read = Book!RowsAt(rpc[c].id)]
  <2>3. /\ r \in Rpcs /\ r.pc = "update" /\ r.method = rpc[c].method
        /\ r.address = rpc[c].address /\ r.name = rpc[c].name
    BY <2>1, <2>2 DEF Rpcs
  <2>4. rpc' = [rpc EXCEPT ![c] = r]
    BY <1>4
  <2> HIDE DEF r
  <2>5. RpcInv' /\ StatusIsTrue'
    BY <2>1, <2>3, <2>4, RpcKeeps DEF BookInv, RpcInv
  <2> QED
    BY <1>2, <2>5 DEF BookInv, SameStars, StarsStep
<1> QED
  BY <1>1, <1>3, <1>4

\* The second: it writes the name alone.
LEMMA UpdateContactKeeps ==
  ASSUME BookInv, NEW c \in Caller, Book!UpdateContact(c)
  PROVE  BookInv' /\ StarsStep
<1>1. ContactsInv /\ rpc[c].name \in Name
  BY DEF BookInv, RpcInv, Book!UpdateContact, Book!In
<1>2. PICK err \in Book!StorageError :
        /\ Book!Update(rpc[c].id, rpc[c].name, rpc[c].read, err)
        /\ Book!Answer(c, Book!Wrapf(err, "INTERNAL"))
  BY DEF Book!UpdateContact
<1> QED
  BY <1>1, <1>2, ContactRenamed, Wrapped, HandlerKeeps

\* FavoriteContact sets the star it was asked to set.
LEMMA FavoriteContactKeeps ==
  ASSUME BookInv, NEW c \in Caller, Book!FavoriteContact(c)
  PROVE  BookInv' /\ StarsStep
<1>1. ContactsInv /\ rpc[c].favorite \in BOOLEAN /\ Book!In(c, "FavoriteContact", "handler")
  BY DEF BookInv, RpcInv, Rpcs, Book!FavoriteContact
<1>2. PICK err \in Book!StorageError :
        Book!SetFavorite(rpc[c].id, rpc[c].favorite, err) /\ Book!Answer(c, err)
  BY DEF Book!FavoriteContact
<1>3. /\ ContactsInv'
      /\ \A r \in contacts, q \in contacts' :
           r.id = q.id => r.favorite = q.favorite \/ (r.id = rpc[c].id /\ q.favorite = rpc[c].favorite)
  BY <1>1, <1>2, ContactStarred
<1>4. RpcInv' /\ StatusIsTrue'
  BY <1>2, Wrapped, AnswerKeeps DEF BookInv
<1> QED
  BY <1>1, <1>3, <1>4 DEF BookInv, StarsStep

\* The handlers of one statement that is not an UPDATE.
LEMMA OtherHandlersKeep ==
  ASSUME BookInv, NEW c \in Caller,
         Book!GetContact(c) \/ Book!DeleteContact(c) \/ Book!ListContacts(c)
  PROVE  BookInv' /\ StarsStep
<1>1. ContactsInv
  BY DEF BookInv
<1>2. CASE Book!GetContact(c) \/ Book!ListContacts(c)
  <2>1. PICK err \in Book!StorageError : UNCHANGED <<contacts, made>> /\ Book!Answer(c, err)
    BY <1>2 DEF Book!GetContact, Book!ListContacts, Book!GetByID, Book!List
  <2> QED
    BY <1>1, <2>1, BookUntouched, Wrapped, HandlerKeeps
<1>3. CASE Book!DeleteContact(c)
  <2>1. PICK err \in Book!StorageError : Book!Delete(rpc[c].id, err) /\ Book!Answer(c, err)
    BY <1>3 DEF Book!DeleteContact
  <2> QED
    BY <1>1, <2>1, ContactDeleted, Wrapped, HandlerKeeps
<1> QED
  BY <1>2, <1>3

\* A panic is internal; a reply forgets the RPC; a request is new.
LEMMA PathKeeps ==
  ASSUME BookInv, NEW c \in Caller, Book!Send(c) \/ Book!Reply(c) \/ Book!Panic(c)
  PROVE  BookInv' /\ StarsStep
<1>1. ContactsInv /\ RpcInv /\ StatusIsTrue /\ rpc[c] \in Rpcs /\ rpcs \in Nat
  BY DEF BookInv, RpcInv
<1>2. UNCHANGED <<contacts, made>> => ContactsInv' /\ StarsStep
  BY <1>1, BookUntouched DEF SameStars, StarsStep
<1>3. CASE Book!Send(c)
  BY <1>1, <1>2, <1>3, SendKeeps DEF BookInv
<1>4. CASE Book!Reply(c)
  <2>1. Book!NoRpc \in Rpcs /\ Book!NoRpc.method = "" /\ Book!NoRpc.pc = "idle" /\ "" \in Ends
    BY Requested DEF Book!Method, Ends
  <2>2. RpcInv' /\ StatusIsTrue'
    BY <1>1, <1>4, <2>1, RpcKeeps DEF Book!Reply
  <2> QED
    BY <1>2, <1>4, <2>2 DEF BookInv, Book!Reply
<1>5. CASE Book!Panic(c)
  <2> DEFINE r == [rpc[c] EXCEPT !.pc = "done", !.read = {}, !.status = Book!Recovered]
  <2>1. /\ r \in Rpcs /\ r.pc = "done" /\ r.status = "INTERNAL" /\ r.method = rpc[c].method
        /\ r.address = rpc[c].address /\ r.name = rpc[c].name
    BY <1>1 DEF Rpcs, Book!Recovered, Statuses
  <2>2. Truth("panic") = "INTERNAL" /\ "panic" \in Ends
    BY DEF Truth, Ends
  <2>3. /\ rpc' = [rpc EXCEPT ![c] = r] /\ why' = [why EXCEPT ![c] = "panic"]
        /\ UNCHANGED <<contacts, made, rpcs>>
    BY <1>5 DEF Book!Panic
  <2> HIDE DEF r
  <2>4. RpcInv' /\ StatusIsTrue'
    BY <1>1, <2>1, <2>2, <2>3, RpcKeeps DEF RpcInv
  <2> QED
    BY <1>2, <2>3, <2>4 DEF BookInv
<1> QED
  BY <1>3, <1>4, <1>5

\* Every step of the contacts keeps their invariant and the stars.
LEMMA ContactStepKeeps ==
  ASSUME BookInv, Book!ContactNext
  PROVE  BookInv' /\ StarsStep
BY PathKeeps, CreateContactKeeps, UpdateLoadsKeeps, UpdateContactKeeps, FavoriteContactKeeps,
   OtherHandlersKeep DEF Book!ContactNext

\* So does the import of another wallet, which empties the book: an RPC under
\* way keeps what it holds, and no row is left to lose a star.
LEMMA BookEmptied ==
  ASSUME BookInv, Book!Reset
  PROVE  BookInv' /\ StarsStep
<1>1. contacts' = {} /\ UNCHANGED <<rpc, made, rpcs, why>>
  BY DEF Book!Reset, Book!DeleteAll
<1>2. ContactsInv'
  BY <1>1 DEF BookInv, ContactsInv, Book!ContactTypeOK
<1>3. RpcInv' /\ StatusIsTrue'
  BY <1>1 DEF BookInv, RpcInv, StatusIsTrue, Book!StatusIsTrue
<1> QED
  BY <1>1, <1>2, <1>3 DEF BookInv, StarsStep

-----------------------------------------------------------------------------
(* The theorems. *)

\* Both tables start empty, and no request is under way.
LEMMA TablesStart ==
  ASSUME TablesInit
  PROVE  TablesInv
<1>1. TokenInv
  <2>1. NoCall \in Call
    BY DEF NoCall, Call
  <2>2. ListTyped /\ RowsInv
    BY <2>1, WatchlistAssumption DEF TablesInit, Init, ListTyped, RowsInv
  <2>3. \A c \in Caller : CallInv(c)
    BY DEF TablesInit, Init, CallInv, At, NoCall
  <2> QED
    BY <2>2, <2>3 DEF TokenInv
<1>2. BookInv
  <2>1. Book!NoRpc \in Rpcs /\ Book!NoRpc.method = "" /\ Book!NoRpc.pc = "idle" /\ "" \in Ends
    BY Requested DEF Book!Method, Ends
  <2>2. ContactsInv /\ RpcInv
    BY <2>1 DEF TablesInit, Book!ContactInit, ContactsInv, Book!ContactTypeOK, RpcInv
  <2>3. StatusIsTrue
    BY <2>1 DEF TablesInit, Book!ContactInit, StatusIsTrue, Book!StatusIsTrue
  <2> QED
    BY <2>2, <2>3 DEF BookInv
<1>3. resets \in Nat
  BY DEF TablesInit, Init
<1> QED
  BY <1>1, <1>2, <1>3 DEF TablesInv

\* A step of either table keeps the invariant of both, the flags, the stars
\* and the abstract list.
LEMMA TablesStep ==
  ASSUME TablesInv, [TablesNext]_allVars
  PROVE  /\ TablesInv'
         /\ [Kept]_vars /\ [StarsStep]_(Book!contactVars)
         /\ [Abstract!Next]_<<Watched, resets>>
<1>1. UNCHANGED vars => TokenInv' /\ UNCHANGED <<Watched, resets>>
  BY DEF TablesInv, TokenInv, vars, ListTyped, RowsInv, CallInv, At, Subject, Watched
<1>2. UNCHANGED <<contacts, rpc, made, rpcs, why>> => BookInv'
  BY DEF TablesInv, BookInv, ContactsInv, RpcInv, StatusIsTrue, Book!StatusIsTrue,
         Book!ContactTypeOK
<1>3. CASE TokenStep
  <2>1. TokenInv' /\ Kept /\ (Abstract!Next \/ UNCHANGED <<Watched, resets>>)
    BY <1>3, TokenStepKeeps, OnlyTheUserEdits, OneContractAtATime DEF TokenStep, TablesInv
  <2>2. UNCHANGED resets
    BY <1>3 DEF TokenStep, Next
  <2> QED
    BY <1>2, <1>3, <2>1, <2>2 DEF TokenStep, TablesInv, Book!contactVars
<1>4. CASE ContactStep
  <2>1. UNCHANGED resets
    BY <1>4 DEF ContactStep, vars
  <2> QED
    BY <1>1, <1>4, <2>1, ContactStepKeeps DEF ContactStep, TablesInv
<1>5. CASE UNCHANGED allVars
  BY <1>1, <1>2, <1>5 DEF allVars, vars, TablesInv, Book!contactVars
<1>6. CASE WalletReset
  <2>1. TokenInv' /\ resets' \in Nat /\ Kept /\ Abstract!Next
    BY <1>6, WalletReplaced DEF WalletReset, TablesInv, Abstract!Next
  <2>2. BookInv' /\ StarsStep
    BY <1>6, BookEmptied DEF WalletReset, TablesInv
  <2> QED
    BY <2>1, <2>2 DEF TablesInv
<1> QED
  BY <1>3, <1>4, <1>5, <1>6 DEF TablesNext

(***************************************************************************)
(* Rows stay one per contract, per address and per id, though every call   *)
(* looks before it inserts without a lock, and every RPC in flight holds   *)
(* what its handler needs.                                                 *)
(***************************************************************************)
THEOREM TablesInvariant == TablesSpec => []TablesInv
<1>1. TablesInit => TablesInv
  BY TablesStart
<1>2. TablesInv /\ [TablesNext]_allVars => TablesInv'
  BY TablesStep
<1> QED
  BY <1>1, <1>2, PTL DEF TablesSpec

(***************************************************************************)
(* Type correctness of the watchlist, and one row per contract.            *)
(***************************************************************************)
THEOREM WatchlistTypeCorrect == TablesSpec => []TypeOK
<1>1. TablesInv => TypeOK
  BY DEF TablesInv, TokenInv, ListTyped, TypeOK
<1> QED
  BY <1>1, TablesInvariant, PTL

(***************************************************************************)
(* An Add, EnsureWatched or Seed that succeeds has had each of its tokens  *)
(* on the list, and visible if it was Add, at a moment of its own.         *)
(***************************************************************************)
THEOREM CallsAreCovered == TablesSpec => []CallsCover
<1>1. TablesInv => CallsCover
  BY DEF TablesInv, TokenInv, CallInv, CallsCover
<1> QED
  BY <1>1, TablesInvariant, PTL

(***************************************************************************)
(* The status of every contact RPC is what really happened, however often  *)
(* its error was wrapped on the way to HandleError.                        *)
(***************************************************************************)
THEOREM StatusesAreTrue == TablesSpec => []StatusIsTrue
<1>1. TablesInv => StatusIsTrue
  BY DEF TablesInv, BookInv
<1> QED
  BY <1>1, TablesInvariant, PTL

(***************************************************************************)
(* No call pins, hides, removes or replaces a row of the watchlist, and    *)
(* only FavoriteContact changes a star, whatever rows the calls hold.      *)
(***************************************************************************)
THEOREM UserEditsStay == TablesSpec => UserEditsHold
<1>1. TablesInv /\ [TablesNext]_allVars => [Kept]_vars /\ [StarsStep]_(Book!contactVars)
  BY TablesStep
<1>2. TablesSpec => [][Kept]_vars /\ [][StarsStep]_(Book!contactVars)
  BY <1>1, TablesInvariant, PTL DEF TablesSpec
<1> QED
  BY <1>2 DEF UserEditsHold, FlagsAreTheUsers, Kept, Book!StarsAreKept, StarsStep

(***************************************************************************)
(* To the rest of the program the list is a set that changes by one        *)
(* contract at a time, and is emptied at once only when the wallet is      *)
(* replaced (Storage.Reset), whatever calls are under way then: the        *)
(* watchlist implements WatchedSet.                                        *)
(***************************************************************************)
THEOREM WatchlistImplementsSet == TablesSpec => ImplementsWatchedSet
<1>1. TablesInit => Abstract!Init
  BY DEF TablesInit, Init, Abstract!Init, Watched
<1>2. TablesInv /\ [TablesNext]_allVars => [Abstract!Next]_<<Watched, resets>>
  BY TablesStep
<1> QED
  BY <1>1, <1>2, TablesInvariant, PTL DEF TablesSpec, ImplementsWatchedSet, Abstract!Spec

-----------------------------------------------------------------------------
(* The price feed. *)

Price == [any : BOOLEAN, hit : BOOLEAN, age : Nat]

PriceKey ==
  {Key(kind, about) : kind \in {"none", "native", "token", "spark"}, about \in SUBSET Listed}

GetCall == [pc : {"idle", "asking", "answered", "done"}, key : PriceKey,
            began : Nat, sampled : Nat, got : Price]

(***************************************************************************)
(* An entry, whichever of two racing answers it is from, has not long      *)
(* outlived what it holds, and a key that was ever stored has one.         *)
(***************************************************************************)
CacheInv ==
  /\ \A e \in cache : /\ e.sampled \in 0..now /\ e.expires \in 0..(MaxNow + TTL)
                      /\ e.expires <= e.sampled + FetchTimeout + TTL
  /\ \A e, f \in cache : e.key = f.key => e = f
  /\ stored = {e.key : e \in cache}

(***************************************************************************)
(* A fetch under way is no older than the client's timeout, and what it    *)
(* was answered no older than the fetch.                                   *)
(***************************************************************************)
InTime(c) ==
  /\ c.pc \in {"asking", "answered"} => c.began <= now /\ now <= c.began + FetchTimeout
  /\ c.pc = "answered" => c.began <= c.sampled /\ c.sampled <= now

ReaderInv == reader \in [Reader -> GetCall] /\ \A v \in Reader : InTime(reader[v])

FeedInv ==
  /\ now \in 0..MaxNow /\ reads \in 0..MaxReads
  /\ watched \subseteq Listed /\ replaced \in Nat /\ changes \in 0..MaxChanges
  /\ CacheInv /\ ReaderInv

\* AnswersServe of one reader, of a step after which its call is c.
Serves(v, c) ==
  reader[v].pc # "done" /\ c.pc = "done" =>
    /\ c.got.hit => c.got.age <= TTL + FetchTimeout
    /\ reader[v].pc # "idle" /\ reader[v].key \in stored => c.got.any

(***************************************************************************)
(* A step of one call leaves the other calls as they are.                  *)
(***************************************************************************)
LEMMA CallMoves ==
  ASSUME ReaderInv, NEW v \in Reader, NEW c \in GetCall,
         reader' = [reader EXCEPT ![v] = c], now' = now, InTime(c), Serves(v, c)
  PROVE  ReaderInv' /\ \A w \in Reader : Serves(w, reader'[w])
<1>1. reader' \in [Reader -> GetCall] /\ reader'[v] = c
        /\ \A w \in Reader : w # v => reader'[w] = reader[w]
  BY DEF ReaderInv
<1>2. ASSUME NEW w \in Reader PROVE InTime(reader[w])' /\ Serves(w, reader'[w])
  <2>1. CASE w = v
    <3>1. InTime(reader[w])'
      BY <1>1, <2>1 DEF InTime
    <3> QED BY <1>1, <2>1, <3>1
  <2>2. CASE w # v
    <3>1. reader'[w] = reader[w]
      BY <1>1, <2>2
    <3>2. InTime(reader[w])'
      BY <3>1 DEF InTime, ReaderInv
    <3> QED BY <3>1, <3>2 DEF Serves
  <2> QED BY <2>1, <2>2
<1> QED BY <1>1, <1>2 DEF ReaderInv

(***************************************************************************)
(* Steps that touch no entry.                                              *)
(***************************************************************************)
LEMMA CacheKept ==
  ASSUME CacheInv, UNCHANGED <<cache, now, stored>>
  PROVE  CacheInv'
BY DEF CacheInv

(***************************************************************************)
(* A call that has not begun is one of no reader's.                        *)
(***************************************************************************)
LEMMA NoReadType == NoRead \in GetCall /\ Empty \in Price /\ NoRead.pc = "idle"
<1>1. NoKey \in PriceKey
  BY DEF NoKey, PriceKey
<1>2. Empty \in Price
  BY DEF Empty, Price
<1> QED BY <1>1, <1>2 DEF NoRead, GetCall

(***************************************************************************)
(* Lookup: an entry that is taken for fresh has not expired.               *)
(***************************************************************************)
LEMMA LookupKeeps ==
  ASSUME FeedInv, NEW v \in Reader, NEW key \in PriceKey, Lookup(v, key)
  PROVE  /\ CacheInv' /\ ReaderInv' /\ now' = now /\ reads' \in 0..MaxReads
         /\ \A w \in Reader : Serves(w, reader'[w])
<1> USE FeedAssumption
<1>1. reads' \in 0..MaxReads /\ now' = now /\ now \in Nat
  <2>1. reads < MaxReads /\ reads' = reads + 1 /\ now' = now
    BY Zenon DEF Lookup
  <2>2. reads \in 0..MaxReads /\ now \in 0..MaxNow
    BY DEF FeedInv
  <2> QED BY <2>1, <2>2
<1>2. CacheInv'
  BY CacheKept DEF FeedInv, Lookup
<1>3. reader[v].pc = "idle"
  BY DEF Lookup
<1>4. ASSUME NEW e \in Get(key),
             reader' = [reader EXCEPT ![v] = [NoRead EXCEPT !.pc = "done", !.key = key,
                          !.got = [any |-> TRUE, hit |-> TRUE, age |-> now - e.sampled]]]
      PROVE  ReaderInv' /\ \A w \in Reader : Serves(w, reader'[w])
  <2> DEFINE got == [any |-> TRUE, hit |-> TRUE, age |-> now - e.sampled]
             c == [NoRead EXCEPT !.pc = "done", !.key = key, !.got = got]
  <2>1. now <= e.expires /\ e.sampled \in 0..now /\ e.expires \in Nat
          /\ e.expires <= e.sampled + FetchTimeout + TTL
    BY DEF Get, Entries, FeedInv, CacheInv
  <2>2. now - e.sampled \in Nat /\ now - e.sampled <= TTL + FetchTimeout
    BY <1>1, <2>1
  <2>3. got \in Price /\ got.hit /\ got.age <= TTL + FetchTimeout
    BY <2>2 DEF Price
  <2> HIDE DEF got
  <2>4. c \in GetCall /\ c.pc = "done" /\ c.got = got
    BY <2>3, NoReadType DEF GetCall
  <2>5. reader' = [reader EXCEPT ![v] = c]
    BY <1>4 DEF got
  <2> HIDE DEF c
  <2>6. InTime(c) /\ Serves(v, c)
    BY <1>3, <2>3, <2>4 DEF InTime, Serves
  <2> QED BY <1>1, <2>4, <2>5, <2>6, CallMoves DEF FeedInv
<1>5. ASSUME reader' = [reader EXCEPT ![v] = [NoRead EXCEPT !.pc = "asking", !.key = key,
                                                            !.began = now]]
      PROVE  ReaderInv' /\ \A w \in Reader : Serves(w, reader'[w])
  <2> DEFINE c == [NoRead EXCEPT !.pc = "asking", !.key = key, !.began = now]
  <2>1. c \in GetCall /\ c.pc = "asking" /\ c.began = now
    BY <1>1, NoReadType DEF GetCall
  <2>2. reader' = [reader EXCEPT ![v] = c]
    BY <1>5
  <2> HIDE DEF c
  <2>3. InTime(c) /\ Serves(v, c)
    BY <1>1, <2>1 DEF InTime, Serves
  <2> QED BY <1>1, <2>1, <2>2, <2>3, CallMoves DEF FeedInv
<1> QED BY <1>1, <1>2, <1>4, <1>5 DEF Lookup

(***************************************************************************)
(* Respond: the sample is of now.                                          *)
(***************************************************************************)
LEMMA RespondKeeps ==
  ASSUME FeedInv, NEW v \in Reader, Respond(v)
  PROVE  CacheInv' /\ ReaderInv' /\ \A w \in Reader : Serves(w, reader'[w])
<1> DEFINE c == [reader[v] EXCEPT !.pc = "answered", !.sampled = now]
<1>1. reader[v] \in GetCall /\ InTime(reader[v]) /\ reader[v].pc = "asking" /\ now \in Nat
  BY FeedAssumption DEF FeedInv, ReaderInv, Respond
<1>2. c \in GetCall /\ c.pc = "answered" /\ c.sampled = now /\ c.began = reader[v].began
  BY <1>1 DEF GetCall
<1>3. reader' = [reader EXCEPT ![v] = c] /\ now' = now
  BY DEF Respond
<1> HIDE DEF c
<1>4. InTime(c) /\ Serves(v, c)
  BY <1>1, <1>2 DEF InTime, Serves
<1>5. CacheInv'
  BY CacheKept DEF Respond, FeedInv
<1> QED BY <1>2, <1>3, <1>4, <1>5, CallMoves DEF FeedInv

(***************************************************************************)
(* FetchOK: the lifetime of an entry counts from its arrival, which is no  *)
(* later than one fetch after the sample.                                  *)
(***************************************************************************)
LEMMA FetchOKKeeps ==
  ASSUME FeedInv, NEW v \in Reader, FetchOK(v)
  PROVE  CacheInv' /\ ReaderInv' /\ \A w \in Reader : Serves(w, reader'[w])
<1> USE FeedAssumption
<1> DEFINE s == reader[v].sampled
           got == [any |-> TRUE, hit |-> FALSE, age |-> now - s]
           c == [reader[v] EXCEPT !.pc = "done", !.got = got]
<1>1. reader[v] \in GetCall /\ InTime(reader[v]) /\ reader[v].pc = "answered" /\ now \in 0..MaxNow
  BY DEF FeedInv, ReaderInv, FetchOK
<1>2. reader' = [reader EXCEPT ![v] = c] /\ now' = now
  BY DEF FetchOK, Finish
<1>3. s \in 0..now /\ reader[v].began \in Nat /\ reader[v].began <= s
        /\ now <= reader[v].began + FetchTimeout /\ now - s \in Nat
  BY <1>1 DEF InTime, GetCall
<1>4. got \in Price /\ got.any /\ ~got.hit
  BY <1>3 DEF Price
<1> HIDE DEF got
<1>5. c \in GetCall /\ c.pc = "done" /\ c.got = got
  BY <1>1, <1>4 DEF GetCall
<1> HIDE DEF c
<1>6. InTime(c) /\ Serves(v, c)
  BY <1>4, <1>5 DEF InTime, Serves
<1>7. CacheInv'
  <2> DEFINE key == reader[v].key
             new == [key |-> key, sampled |-> s, expires |-> now + TTL]
             kept == {e \in cache : e.key # key}
  <2>1. cache' = kept \cup {new} /\ stored' = stored \cup {key}
    BY DEF FetchOK, Set
  <2>2. new.sampled \in 0..now /\ new.expires \in 0..(MaxNow + TTL) /\ new.key = key
          /\ new.expires <= new.sampled + FetchTimeout + TTL
    BY <1>1, <1>3
  <2> HIDE DEF new, s
  <2>3. \A e \in cache' : /\ e.sampled \in 0..now /\ e.expires \in 0..(MaxNow + TTL)
                          /\ e.expires <= e.sampled + FetchTimeout + TTL
    BY <2>1, <2>2 DEF FeedInv, CacheInv
  <2>4. \A e, f \in cache' : e.key = f.key => e = f
    BY <2>1, <2>2 DEF FeedInv, CacheInv
  <2>5. stored' = {e.key : e \in cache'}
    <3>1. stored = {e.key : e \in cache}
      BY DEF FeedInv, CacheInv
    <3> QED BY <2>1, <2>2, <3>1
  <2> QED BY <1>2, <2>3, <2>4, <2>5 DEF CacheInv
<1> QED BY <1>2, <1>5, <1>6, <1>7, CallMoves DEF FeedInv

(***************************************************************************)
(* FetchFails: a key that was stored has an entry to fall back to.         *)
(***************************************************************************)
LEMMA FetchFailsKeeps ==
  ASSUME FeedInv, NEW v \in Reader, FetchFails(v)
  PROVE  CacheInv' /\ ReaderInv' /\ \A w \in Reader : Serves(w, reader'[w])
<1> USE FeedAssumption
<1>1. reader[v] \in GetCall /\ now \in 0..MaxNow
  BY DEF FeedInv, ReaderInv
<1>2. CacheInv' /\ now' = now
  BY CacheKept DEF FetchFails, FeedInv
<1>3. ASSUME NEW got \in Price, ~got.hit, reader[v].key \in stored => got.any, Finish(v, got)
      PROVE  ReaderInv' /\ \A w \in Reader : Serves(w, reader'[w])
  <2> DEFINE c == [reader[v] EXCEPT !.pc = "done", !.got = got]
  <2>1. c \in GetCall /\ c.pc = "done" /\ c.got = got
    BY <1>1 DEF GetCall
  <2>2. reader' = [reader EXCEPT ![v] = c]
    BY <1>3 DEF Finish
  <2> HIDE DEF c
  <2>3. InTime(c) /\ Serves(v, c)
    BY <1>3, <2>1 DEF InTime, Serves
  <2> QED BY <1>2, <2>1, <2>2, <2>3, CallMoves DEF FeedInv
<1>4. ASSUME NEW e \in GetStale(reader[v].key),
             Finish(v, [any |-> TRUE, hit |-> FALSE, age |-> now - e.sampled])
      PROVE  ReaderInv' /\ \A w \in Reader : Serves(w, reader'[w])
  <2> DEFINE got == [any |-> TRUE, hit |-> FALSE, age |-> now - e.sampled]
  <2>1. e.sampled \in 0..now
    BY DEF GetStale, Entries, FeedInv, CacheInv
  <2>2. now - e.sampled \in Nat
    BY <1>1, <2>1
  <2>3. got \in Price /\ ~got.hit /\ got.any
    BY <2>2 DEF Price
  <2>4. Finish(v, got)
    BY <1>4
  <2> HIDE DEF got
  <2> QED BY <1>3, <2>3, <2>4
<1>5. ASSUME GetStale(reader[v].key) = {}, Finish(v, Empty)
      PROVE  ReaderInv' /\ \A w \in Reader : Serves(w, reader'[w])
  <2>1. reader[v].key \notin stored
    BY <1>5 DEF GetStale, Entries, FeedInv, CacheInv
  <2>2. Empty \in Price /\ ~Empty.hit
    BY NoReadType DEF Empty
  <2> QED BY <1>3, <1>5, <2>1, <2>2
<1> QED BY <1>2, <1>4, <1>5 DEF FetchFails

(***************************************************************************)
(* Every step keeps the invariant, and answers as it should.               *)
(***************************************************************************)
LEMMA PortfolioStep ==
  ASSUME FeedInv, [PortfolioNext]_portfolioVars
  PROVE  FeedInv' /\ (UNCHANGED feedVars \/ \A v \in Reader : Serves(v, reader'[v]))
<1> USE FeedAssumption, PortfolioAssumption
<1> DEFINE FeedStays == CacheInv' /\ ReaderInv' /\ \A w \in Reader : Serves(w, reader'[w])
<1>1. CASE ListChanges
  <2>1. watched' \subseteq Listed /\ replaced' \in Nat /\ changes' \in 0..MaxChanges
    <3>1. watched' \subseteq Listed /\ replaced' \in Nat
      BY <1>1 DEF ListChanges, List!Next, List!Watch, List!Unwatch, List!Replace, FeedInv
    <3>2. changes' \in 0..MaxChanges
      BY <1>1 DEF ListChanges, FeedInv
    <3> QED BY <3>1, <3>2
  <2>2. UNCHANGED feedVars
    BY <1>1 DEF ListChanges
  <2>3. CacheInv' /\ ReaderInv'
    BY <2>2, CacheKept DEF feedVars, FeedInv, ReaderInv, InTime
  <2> QED BY <2>1, <2>2, <2>3 DEF feedVars, FeedInv
<1>2. CASE FeedStep
  <2>1. UNCHANGED <<watched, replaced, changes>>
    BY <1>2 DEF FeedStep
  <2>2. ASSUME NEW v \in Reader, NEW key \in PriceKey, Lookup(v, key)
        PROVE  FeedStays /\ now' \in 0..MaxNow /\ reads' \in 0..MaxReads
    <3>1. now' = now /\ reads' \in 0..MaxReads /\ FeedStays
      BY <2>2, LookupKeeps
    <3> QED BY <3>1 DEF FeedInv
  <2>3. ASSUME NEW v \in Reader,
               ListWithBalances(v) \/ GetPrice(v) \/ GetSparkline(v) \/ GetPricesForTokens(v)
        PROVE  FeedStays /\ now' \in 0..MaxNow /\ reads' \in 0..MaxReads
    <3>1. /\ Key("token", watched) \in PriceKey /\ Key("native", {}) \in PriceKey
          /\ Key("token", Listed) \in PriceKey
          /\ \A k \in watched : Key("spark", {k}) \in PriceKey
      BY DEF PriceKey, FeedInv
    <3> QED BY <2>2, <2>3, <3>1 DEF ListWithBalances, GetPrice, GetSparkline, GetPricesForTokens
  <2>4. ASSUME NEW v \in Reader, Respond(v) \/ FetchOK(v) \/ FetchFails(v)
        PROVE  FeedStays /\ now' \in 0..MaxNow /\ reads' \in 0..MaxReads
    <3>1. now' = now /\ reads' = reads
      BY <2>4 DEF Respond, FetchOK, FetchFails
    <3> QED BY <2>4, <3>1, RespondKeeps, FetchOKKeeps, FetchFailsKeeps DEF FeedInv
  <2>5. ASSUME NEW v \in Reader, Done(v)
        PROVE  FeedStays /\ now' \in 0..MaxNow /\ reads' \in 0..MaxReads
    <3>1. reader' = [reader EXCEPT ![v] = NoRead] /\ UNCHANGED <<cache, now, stored, reads>>
      BY <2>5 DEF Done
    <3>2. InTime(NoRead) /\ Serves(v, NoRead)
      BY NoReadType DEF InTime, Serves
    <3> QED BY <3>1, <3>2, NoReadType, CallMoves, CacheKept DEF FeedInv
  <2>6. ASSUME Tick PROVE FeedStays /\ now' \in 0..MaxNow /\ reads' \in 0..MaxReads
    <3>1. /\ now < MaxNow /\ now' = now + 1 /\ UNCHANGED <<cache, reader, stored, reads>>
          /\ \A v \in Reader : reader[v].pc \in {"asking", "answered"} =>
               now < reader[v].began + FetchTimeout
      BY <2>6 DEF Tick
    <3>2. now \in Nat /\ now' \in 0..MaxNow
      BY <3>1 DEF FeedInv
    <3>3. CacheInv'
      <4>1. \A e \in cache : e.sampled \in 0..(now + 1)
        BY <3>2 DEF FeedInv, CacheInv
      <4> QED BY <3>1, <4>1 DEF FeedInv, CacheInv
    <3>4. ReaderInv'
      <4>1. ASSUME NEW v \in Reader PROVE InTime(reader[v])'
        <5>1. reader[v] \in GetCall /\ InTime(reader[v])
          BY DEF FeedInv, ReaderInv
        <5> QED BY <3>1, <3>2, <5>1 DEF InTime, GetCall
      <4> QED BY <3>1, <4>1 DEF FeedInv, ReaderInv
    <3>5. \A w \in Reader : Serves(w, reader'[w])
      BY <3>1 DEF Serves
    <3>6. FeedStays
      BY <3>3, <3>4, <3>5
    <3>7. reads' \in 0..MaxReads
      BY <3>1 DEF FeedInv
    <3> QED BY <3>2, <3>6, <3>7
  <2> HIDE DEF FeedStays
  <2>7. FeedStays /\ now' \in 0..MaxNow /\ reads' \in 0..MaxReads
    BY <1>2, <2>3, <2>4, <2>5, <2>6, Zenon DEF FeedStep
  <2> QED BY <2>1, <2>7 DEF FeedInv, FeedStays
<1>3. CASE UNCHANGED portfolioVars
  <2>1. UNCHANGED feedVars /\ UNCHANGED <<watched, replaced, changes>>
    BY <1>3 DEF portfolioVars
  <2>2. CacheInv' /\ ReaderInv'
    BY <2>1, CacheKept DEF feedVars, FeedInv, ReaderInv, InTime
  <2> QED BY <2>1, <2>2 DEF feedVars, FeedInv
<1> QED BY <1>1, <1>2, <1>3 DEF PortfolioNext

(***************************************************************************)
(* The invariant of the price feed holds in every reachable state.         *)
(***************************************************************************)
LEMMA FeedInvariant == PortfolioSpec => []FeedInv
<1>1. PortfolioInit => FeedInv
  <2> SUFFICES ASSUME PortfolioInit PROVE FeedInv
    OBVIOUS
  <2>1. cache = {} /\ stored = {} /\ now = 0 /\ reads = 0 /\ watched = {} /\ replaced = 0 /\ changes = 0
    BY DEF PortfolioInit, FeedInit, List!Init
  <2>2. CacheInv
    BY <2>1 DEF CacheInv
  <2>3. ReaderInv
    BY NoReadType DEF PortfolioInit, FeedInit, ReaderInv, InTime
  <2> QED BY <2>1, <2>2, <2>3, FeedAssumption, PortfolioAssumption DEF FeedInv
<1>2. FeedInv /\ [PortfolioNext]_portfolioVars => FeedInv'
  BY PortfolioStep
<1> QED BY <1>1, <1>2, PTL DEF PortfolioSpec

(***************************************************************************)
(* Every reachable state of the feed and its readers is well typed: at     *)
(* most one entry for a key, none from the future.                         *)
(***************************************************************************)
THEOREM PortfolioTypeCorrect == PortfolioSpec => []PortfolioTypeOK
<1>1. FeedInv => PortfolioTypeOK
  <2> SUFFICES ASSUME FeedInv PROVE PortfolioTypeOK
    OBVIOUS
  <2>1. \A v \in Reader : reader[v].pc \in {"idle", "asking", "answered", "done"}
    BY DEF FeedInv, ReaderInv, GetCall
  <2> QED BY <2>1 DEF FeedInv, CacheInv, PortfolioTypeOK, FeedTypeOK
<1> QED BY <1>1, FeedInvariant, PTL

(***************************************************************************)
(* A price taken for fresh is no older than the lifetime of an entry and   *)
(* one fetch, whichever of two racing answers came last, and a key that    *)
(* was answered once is never answered with nothing again.                 *)
(***************************************************************************)
THEOREM AnswersAreServed == PortfolioSpec => AnswersServe
<1> DEFINE Served == \A v \in Reader : Serves(v, reader'[v])
<1>1. FeedInv /\ [PortfolioNext]_portfolioVars => [Served]_feedVars
  BY PortfolioStep
<1>2. PortfolioSpec => [][Served]_feedVars
  BY <1>1, FeedInvariant, PTL DEF PortfolioSpec
<1> QED BY <1>2 DEF AnswersServe, Serves
=============================================================================
