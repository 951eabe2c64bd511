--------------------------- MODULE TokenWatchlist ---------------------------
(***************************************************************************)
(* The token watchlist (usecase/token over domain/token): Add,             *)
(* EnsureWatched and Seed look before they insert, without a lock or a     *)
(* transaction, while the user pins, hides and removes rows, or replaces   *)
(* the wallet.  A SQL statement is one step and may fail; contract_address *)
(* is UNIQUE.                                                              *)
(***************************************************************************)
EXTENDS Naturals

CONSTANTS
  Contract,   \* token contracts
  Known,      \* those whose symbol is in autoSeedSymbols
  Caller,     \* goroutines inside Add, EnsureWatched or Seed
  MaxCalls,   \* bound on calls
  MaxEdits    \* bound on pins, hides, removals and imports by the user

ASSUME WatchlistAssumption ==
  Known \subseteq Contract /\ MaxCalls \in Nat /\ MaxEdits \in Nat

VARIABLES
  rows,     \* watched_tokens: records [id, contract, pinned, hidden]
  call,     \* the call a caller is in
  lastId,   \* history: ids handed out
  calls, edits,  \* history: what the bounds count
  resets,   \* history: how often the import of a wallet has emptied the table
  seen      \* history: contracts on the list, or visible for Add, at some moment of the call

vars == <<rows, call, lastId, calls, edits, resets, seen>>

Row == [id : Nat \ {0}, contract : Contract, pinned : BOOLEAN, hidden : BOOLEAN]

\* about: the contracts the call works on; id: the row Add is to unhide.
Call ==
  [op : {"none", "add", "ensure", "seed"},
   pc : {"idle", "ensureList", "addList", "unhide", "metadata", "create",
         "seedList", "seedCreate", "ok", "failed"},
   about : SUBSET Contract, todo : SUBSET Contract, id : Nat]
NoCall == [op |-> "none", pc |-> "idle", about |-> {}, todo |-> {}, id |-> 0]

TypeOK ==
  /\ rows \subseteq Row
  /\ \A r, q \in rows : r.contract = q.contract => r = q
  /\ call \in [Caller -> Call]
  /\ lastId \in Nat /\ calls \in 0..MaxCalls /\ edits \in 0..MaxEdits /\ resets \in Nat
  /\ seen \in [Caller -> SUBSET Contract]

Init ==
  /\ rows = {}
  /\ call = [c \in Caller |-> NoCall]
  /\ lastId = 0 /\ calls = 0 /\ edits = 0 /\ resets = 0
  /\ seen = [c \in Caller |-> {}]

\* Storage.List.
Watched == {r.contract : r \in rows}
RowOf(k) == CHOOSE r \in rows : r.contract = k

-----------------------------------------------------------------------------
(* Statements. *)

\* Storage.Create: nothing is inserted when the contract has a row.
Create(k) ==
  /\ k \notin Watched
  /\ lastId' = lastId + 1
  /\ rows' = rows \cup {[id |-> lastId + 1, contract |-> k, pinned |-> FALSE, hidden |-> FALSE]}

SetHidden(id, h) ==
  rows' = {IF r.id = id THEN [r EXCEPT !.hidden = h] ELSE r : r \in rows}
SetPinned(id, p) ==
  rows' = {IF r.id = id THEN [r EXCEPT !.pinned = p] ELSE r : r \in rows}

\* Mutant: the DELETE has lost its WHERE.
DeleteAll(id) == rows' = {}

Delete(id) == rows' = {r \in rows : r.id # id}

\* The watchlist's part of the transaction that empties six tables.
DeleteAllRows == rows' = {}

-----------------------------------------------------------------------------
(* Calls. *)

At(c, here) == call[c].pc = here
Goto(c, there) == call' = [call EXCEPT ![c].pc = there]

Begin(c, op, start, about) ==
  /\ At(c, "idle") /\ calls < MaxCalls
  /\ calls' = calls + 1
  /\ call' = [call EXCEPT ![c] = [NoCall EXCEPT !.op = op, !.pc = start, !.about = about]]
  /\ UNCHANGED <<rows, lastId, edits>>

AddToken(c) == \E k \in Contract : Begin(c, "add", "addList", {k})
EnsureSwapToken(c) == \E k \in Contract : Begin(c, "ensure", "ensureList", {k})

\* kickoffWalletSeed: DiscoverTokens has answered.
BeginSeed(c) == \E found \in SUBSET Contract : Begin(c, "seed", "seedList", found \cap Known)

Subject(c) == CHOOSE k \in call[c].about : TRUE

\* EnsureWatched: a row, hidden or not, is left as it is.
EnsureWatched(c) ==
  /\ At(c, "ensureList")
  /\ \/ Goto(c, IF Subject(c) \in Watched THEN "ok" ELSE "addList")
     \/ Goto(c, "failed")
  /\ UNCHANGED <<rows, lastId, calls, edits>>

\* Mutant: Add returns a hidden row as it is.
AddLeavesHidden(c) ==
  /\ At(c, "addList")
  /\ Goto(c, IF Subject(c) \in Watched THEN "ok" ELSE "metadata")
  /\ UNCHANGED <<rows, lastId, calls, edits>>

\* Add: a row is returned, after being made visible if it is hidden.
Add(c) ==
  /\ At(c, "addList")
  /\ \/ /\ Subject(c) \in Watched
        /\ LET r == RowOf(Subject(c)) IN
             call' = [call EXCEPT ![c] =
               [call[c] EXCEPT !.id = r.id, !.pc = IF r.hidden THEN "unhide" ELSE "ok"]]
     \/ Subject(c) \notin Watched /\ Goto(c, "metadata")
     \/ Goto(c, "failed")
  /\ UNCHANGED <<rows, lastId, calls, edits>>

\* The UPDATE finds no row when it was removed in between: NotFound.
Unhide(c) ==
  /\ At(c, "unhide")
  /\ \/ /\ \E r \in rows : r.id = call[c].id
        /\ SetHidden(call[c].id, FALSE)
        /\ Goto(c, "ok")
     \/ UNCHANGED rows /\ Goto(c, "failed")
  /\ UNCHANGED <<lastId, calls, edits>>

\* TokenMetadata of the contract.
Metadata(c) ==
  /\ At(c, "metadata")
  /\ Goto(c, "create") \/ Goto(c, "failed")
  /\ UNCHANGED <<rows, lastId, calls, edits>>

\* A row that appeared since the look is a UNIQUE violation, and an error.
CreateRow(c) ==
  /\ At(c, "create")
  /\ \/ Create(Subject(c)) /\ Goto(c, "ok")
     \/ UNCHANGED <<rows, lastId>> /\ Goto(c, "failed")
  /\ UNCHANGED <<calls, edits>>

\* Seed: the tokens it means to add are fixed by one look at the list.
Seed(c) ==
  /\ At(c, "seedList")
  /\ \/ call' = [call EXCEPT ![c] =
          [call[c] EXCEPT !.todo = call[c].about \ Watched, !.pc = "seedCreate"]]
     \/ Goto(c, "failed")
  /\ UNCHANGED <<rows, lastId, calls, edits>>

\* One INSERT of the loop.  One the table refuses because the row is there
\* is skipped; so is one that fails, and the call does without its token.
SeedCreate(c) ==
  /\ At(c, "seedCreate")
  /\ \E k \in call[c].todo :
       \/ /\ Create(k) \/ (k \in Watched /\ UNCHANGED <<rows, lastId>>)
          /\ call' = [call EXCEPT ![c].todo = @ \ {k}]
       \/ /\ call' = [call EXCEPT ![c] = [call[c] EXCEPT !.todo = @ \ {k}, !.about = @ \ {k}]]
          /\ UNCHANGED <<rows, lastId>>
  /\ UNCHANGED <<calls, edits>>

SeedDone(c) ==
  /\ At(c, "seedCreate") /\ call[c].todo = {}
  /\ Goto(c, "ok")
  /\ UNCHANGED <<rows, lastId, calls, edits>>

Return(c) ==
  /\ call[c].pc \in {"ok", "failed"}
  /\ call' = [call EXCEPT ![c] = NoCall]
  /\ UNCHANGED <<rows, lastId, calls, edits>>

-----------------------------------------------------------------------------
(* The user, one statement each. *)

Edit == edits < MaxEdits /\ edits' = edits + 1 /\ UNCHANGED <<call, lastId, calls>>

PinToken == Edit /\ \E r \in rows, p \in BOOLEAN : SetPinned(r.id, p)
HideToken == Edit /\ \E r \in rows, h \in BOOLEAN : SetHidden(r.id, h)
RemoveToken == Edit /\ \E r \in rows : Delete(r.id)

\* What a call may later claim: its contracts that are on the list now, and
\* not hidden if the call is Add.
Observe == seen' = [c \in Caller |->
  IF call'[c].pc = "idle" THEN {}
  ELSE seen[c] \cup {r.contract : r \in {q \in rows' :
         q.contract \in call'[c].about /\ (call'[c].op = "add" => ~q.hidden)}}]

Next ==
  /\ \/ \E c \in Caller :
          \/ AddToken(c) \/ EnsureSwapToken(c) \/ BeginSeed(c)
          \/ EnsureWatched(c) \/ Add(c) \/ Unhide(c) \/ Metadata(c) \/ CreateRow(c)
          \/ Seed(c) \/ SeedCreate(c) \/ SeedDone(c) \/ Return(c)
     \/ PinToken \/ HideToken \/ RemoveToken
  /\ Observe /\ UNCHANGED resets

\* ImportWallet replaces the wallet, whatever calls are under way.
Reset == Edit /\ DeleteAllRows /\ Observe /\ resets' = resets + 1

Spec == Init /\ [][Next \/ Reset]_vars

-----------------------------------------------------------------------------
(* Add, EnsureWatched and Seed hold no lock, so another call may delete or *)
(* hide what they found; still, a call that succeeds can point to a moment *)
(* of its own when each of its tokens was on the list, and visible if the  *)
(* call was Add.  The history filter and the dialog rely on no more.       *)
CallsCover == \A c \in Caller : At(c, "ok") => call[c].about \subseteq seen[c]

(* What the user set on a row is the user's: without a pin, a hide, a      *)
(* removal or another wallet, a row of the list stays, keeps its id and    *)
(* its pin, and is never hidden; no call replaces it.                      *)
FlagsAreTheUsers == [][edits' = edits => \A r \in rows : \E q \in rows' :
  /\ q.id = r.id /\ q.contract = r.contract
  /\ q.pinned = r.pinned /\ (q.hidden => r.hidden)]_vars

(* The rest of the program sees the set of watched contracts, and sees it  *)
(* change by one contract at a time, but for the wipe when the wallet is   *)
(* replaced (Storage.Reset): no call on a token adds or drops two, and     *)
(* none empties the list.                                                  *)
Abstract == INSTANCE WatchedSet WITH watched <- Watched, replaced <- resets
ImplementsWatchedSet == Abstract!Spec
=============================================================================
