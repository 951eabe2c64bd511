---------------------------- MODULE HistorySync ----------------------------
(***************************************************************************)
(* Filling the transaction history (internal/usecase/history): GetHistory, *)
(* Sync and SyncForce start sync runs; a run pages through its directions  *)
(* in parallel, stores every transfer and looks up its gas fee in a        *)
(* goroutine of its own, all under one semaphore.                          *)
(*                                                                         *)
(* Transfers are numbered in the order Alchemy indexes them, which is the  *)
(* order it pages through them.  Each belongs to one direction.            *)
(***************************************************************************)
EXTENDS Naturals, FiniteSets, FiniteSetsExt

CONSTANTS
  Run,        \* calls that may start a sync
  Direction,  \* the independent fetch directions of a run
  N,          \* number of transfers
  DirOf,      \* DirOf[t]: the direction of transfer t
  TokenOf,    \* TokenOf[t]: what it moves: native, a listed token or another one
  PageSize,   \* transfers per page
  Slots,      \* alchemyConcurrency, the weight of the semaphore
  None        \* nobody

Transfer == 1..N

ASSUME HistoryAssumption ==
  /\ None \notin Run
  /\ N \in Nat /\ PageSize \in Nat \ {0} /\ Slots \in Nat \ {0}
  /\ DirOf \in [Transfer -> Direction]
  /\ TokenOf \in [Transfer -> {"native", "listed", "unlisted"}]

VARIABLES
  indexed,   \* transfers 1..indexed are on chain and indexed
  cooling,   \* less than syncCooldown has passed since lastSync
  syncing,   \* Usecase.syncing: the SyncForce call that has set it, or None
  pc,        \* idle, running, done, failed, skipped
  dir,       \* dir[r][d]: idle, in a fetch, storing a page (more to come, or the
             \* last), done or failed
  page,      \* page[r][d]: transfers of the page still to store
  cursor,    \* cursor[r][d]: the last transfer of the last page
  enriching, \* <<r, t>>: gas lookups waiting for a slot
  looking,   \* <<r, t>>: gas lookups that hold one
  rows,      \* rows[t] in the transactions table: none, bare or with its fee
  unsaved,   \* history: <<r, t>> whose Upsert failed
  target     \* history: what was indexed when the call was made

fetching == <<dir, page, cursor>>
gas == <<enriching, looking>>
vars == <<indexed, cooling, syncing, pc, fetching, gas, rows, unsaved, target>>

\* Mutant: the slot of the last page is released when the direction ends.
InUseToTheEnd ==
  Cardinality({x \in Run \X Direction : dir[x[1]][x[2]] \in {"fetch", "last"}})
    + Cardinality(looking)

\* Slots of the semaphore in use.
InUse ==
  Cardinality({x \in Run \X Direction : dir[x[1]][x[2]] = "fetch"}) + Cardinality(looking)

SetDir(r, d, to) == dir' = [dir EXCEPT ![r][d] = to]

-----------------------------------------------------------------------------
(* The three entry points. *)

Start(r) ==
  /\ pc' = [pc EXCEPT ![r] = "running"]
  /\ dir' = [dir EXCEPT ![r] = [d \in Direction |-> "more"]]
  /\ cooling' = TRUE
  /\ target' = [target EXCEPT ![r] = indexed]
  /\ UNCHANGED <<indexed, page, cursor, gas, rows, unsaved>>

\* GetHistory's background sync, and Sync: only the cooldown is looked at.
SyncRoutine(r) ==
  /\ pc[r] = "idle"
  /\ ~cooling
  /\ Start(r)
  /\ UNCHANGED syncing

SyncForce(r) ==
  /\ pc[r] = "idle"
  /\ syncing = None
  /\ syncing' = r
  /\ Start(r)

\* Another SyncForce is running: return at once.
SyncForceSkips(r) ==
  /\ pc[r] = "idle"
  /\ syncing # None
  /\ pc' = [pc EXCEPT ![r] = "skipped"]
  /\ target' = [target EXCEPT ![r] = indexed]
  /\ UNCHANGED <<indexed, cooling, syncing, fetching, gas, rows, unsaved>>

-----------------------------------------------------------------------------
(* fetchAllPages. *)

\* One direction has failed: errgroup cancels the context of the others.
Cancelled(r) == \E d \in Direction : dir[r][d] = "failed"

\* The top of the loop: the page is stored and there is another one.
AtTop(r, d) == dir[r][d] = "more" /\ page[r][d] = {}

AcquirePage(r, d) ==
  /\ AtTop(r, d)
  /\ InUse < Slots
  /\ SetDir(r, d, "fetch")
  /\ UNCHANGED <<indexed, cooling, syncing, pc, page, cursor, gas, rows, unsaved, target>>

AcquireCancelled(r, d) ==
  /\ AtTop(r, d)
  /\ Cancelled(r)
  /\ SetDir(r, d, "failed")
  /\ UNCHANGED <<indexed, cooling, syncing, pc, page, cursor, gas, rows, unsaved, target>>

Remaining(r, d) == {t \in 1..indexed : DirOf[t] = d /\ t > cursor[r][d]}

\* The first PageSize transfers of S.
FirstPage(S) == {t \in S : Cardinality({u \in S : u < t}) < PageSize}

\* A native transfer never is, nor one of a token on the verified list.
isSpamTransfer(t) == TokenOf[t] = "unlisted"

Kept(got) == {t \in got : ~isSpamTransfer(t)}

\* Mutant: a page with one more transfer behind it is taken for the last.
FetchPageStopsEarly(r, d) ==
  LET rest == Remaining(r, d)
      got == FirstPage(rest)
  IN /\ dir[r][d] = "fetch"
     /\ SetDir(r, d, IF Cardinality(rest) <= PageSize + 1 THEN "last" ELSE "more")
     /\ page' = [page EXCEPT ![r][d] = Kept(got)]
     /\ cursor' = [cursor EXCEPT ![r][d] = IF got = {} THEN @ ELSE Max(got)]
     /\ UNCHANGED <<indexed, cooling, syncing, pc, gas, rows, unsaved, target>>

\* A page arrives; without a page key it is the last one.  Spam is passed over.
FetchPage(r, d) ==
  LET rest == Remaining(r, d)
      got == FirstPage(rest)
  IN /\ dir[r][d] = "fetch"
     /\ SetDir(r, d, IF got = rest THEN "last" ELSE "more")
     /\ page' = [page EXCEPT ![r][d] = Kept(got)]
     /\ cursor' = [cursor EXCEPT ![r][d] = IF got = {} THEN @ ELSE Max(got)]
     /\ UNCHANGED <<indexed, cooling, syncing, pc, gas, rows, unsaved, target>>

FetchFails(r, d) ==
  /\ dir[r][d] = "fetch"
  /\ SetDir(r, d, "failed")
  /\ UNCHANGED <<indexed, cooling, syncing, pc, page, cursor, gas, rows, unsaved, target>>

Storing(r, d, t) ==
  /\ dir[r][d] \in {"more", "last"}
  /\ page[r][d] # {} /\ t = Min(page[r][d])
  /\ page' = [page EXCEPT ![r][d] = @ \ {t}]
  /\ UNCHANGED <<indexed, cooling, syncing, pc, dir, cursor, looking, target>>

\* Mutant: on a conflict every column is overwritten.
UpsertAll(t) == rows' = [rows EXCEPT ![t] = "bare"]

\* INSERT; on a conflict of unique_id only cached_at is updated.
Upsert(t) == rows' = [rows EXCEPT ![t] = IF @ = "none" THEN "bare" ELSE @]

StoreTransfer(r, d, t) ==
  /\ Storing(r, d, t)
  /\ Upsert(t)
  /\ enriching' = enriching \cup {<<r, t>>}
  /\ UNCHANGED unsaved

\* An Upsert that fails is logged; the page goes on.
StoreFails(r, d, t) ==
  /\ Storing(r, d, t)
  /\ unsaved' = unsaved \cup {<<r, t>>}
  /\ UNCHANGED <<enriching, rows>>

\* wg.Wait: the direction ends when its gas lookups have.
DirectionEnds(r, d) ==
  /\ dir[r][d] = "last" /\ page[r][d] = {}
  /\ \A x \in enriching \cup looking : x[1] = r => DirOf[x[2]] # d
  /\ SetDir(r, d, "done")
  /\ UNCHANGED <<indexed, cooling, syncing, pc, page, cursor, gas, rows, unsaved, target>>

\* The lookups have a context of their own: they survive a failed run.
AcquireLookup(r, t) ==
  /\ <<r, t>> \in enriching
  /\ InUse < Slots
  /\ enriching' = enriching \ {<<r, t>>}
  /\ looking' = looking \cup {<<r, t>>}
  /\ UNCHANGED <<indexed, cooling, syncing, pc, fetching, rows, unsaved, target>>

\* The receipt is found and stored.
enrichGasFee(r, t) ==
  /\ <<r, t>> \in looking
  /\ looking' = looking \ {<<r, t>>}
  /\ rows' = [rows EXCEPT ![t] = "fee"]
  /\ UNCHANGED <<indexed, cooling, syncing, pc, fetching, enriching, unsaved, target>>

\* No receipt, or the lookup or the UPDATE failed.
enrichGasFeeFails(r, t) ==
  /\ <<r, t>> \in looking
  /\ looking' = looking \ {<<r, t>>}
  /\ UNCHANGED <<indexed, cooling, syncing, pc, fetching, enriching, rows, unsaved, target>>

Returned(r) == \A d \in Direction : dir[r][d] \in {"done", "failed"}

\* syncFromAlchemy returns, its locals go out of scope; SyncForce lowers its flag.
SyncEnds(r) ==
  /\ pc[r] = "running"
  /\ Returned(r)
  /\ pc' = [pc EXCEPT ![r] = IF Cancelled(r) THEN "failed" ELSE "done"]
  /\ syncing' = IF syncing = r THEN None ELSE syncing
  /\ dir' = [dir EXCEPT ![r] = [d \in Direction |-> "idle"]]
  /\ page' = [page EXCEPT ![r] = [d \in Direction |-> {}]]
  /\ cursor' = [cursor EXCEPT ![r] = [d \in Direction |-> 0]]
  /\ UNCHANGED <<indexed, cooling, gas, rows, unsaved, target>>

-----------------------------------------------------------------------------
(* The environment. *)

Index ==
  /\ indexed < N
  /\ indexed' = indexed + 1
  /\ UNCHANGED <<cooling, syncing, pc, fetching, gas, rows, unsaved, target>>

CooldownEnds ==
  /\ cooling
  /\ cooling' = FALSE
  /\ UNCHANGED <<indexed, syncing, pc, fetching, gas, rows, unsaved, target>>

-----------------------------------------------------------------------------

Init ==
  /\ indexed = 0
  /\ cooling = FALSE /\ syncing = None
  /\ pc = [r \in Run |-> "idle"]
  /\ dir = [r \in Run |-> [d \in Direction |-> "idle"]]
  /\ page = [r \in Run |-> [d \in Direction |-> {}]]
  /\ cursor = [r \in Run |-> [d \in Direction |-> 0]]
  /\ enriching = {} /\ looking = {}
  /\ rows = [t \in Transfer |-> "none"]
  /\ unsaved = {}
  /\ target = [r \in Run |-> 0]

fetchAllPages(r, d) ==
  \/ AcquirePage(r, d) \/ AcquireCancelled(r, d)
  \/ FetchPage(r, d) \/ FetchFails(r, d)
  \/ \E t \in Transfer : StoreTransfer(r, d, t) \/ StoreFails(r, d, t)
  \/ DirectionEnds(r, d)

Lookup(r, t) == AcquireLookup(r, t) \/ enrichGasFee(r, t) \/ enrichGasFeeFails(r, t)

\* The goroutines of the syncs.
Goroutines ==
  \/ \E r \in Run, d \in Direction : fetchAllPages(r, d)
  \/ \E r \in Run, t \in Transfer : Lookup(r, t)
  \/ \E r \in Run : SyncEnds(r)

Next ==
  \/ Goroutines
  \/ \E r \in Run : SyncRoutine(r) \/ SyncForce(r) \/ SyncForceSkips(r)
  \/ Index \/ CooldownEnds

(***************************************************************************)
(* The Go runtime does not stand still while a goroutine can run.  Nothing *)
(* is asked for any one of them: which one gets a free slot is open.       *)
(***************************************************************************)
Fairness == WF_vars(Goroutines)

Spec == Init /\ [][Next]_vars /\ Fairness

-----------------------------------------------------------------------------
(* Properties. *)

\* Every variable has its type, and the semaphore is never oversubscribed.
TypeOK ==
  /\ indexed \in 0..N
  /\ cooling \in BOOLEAN /\ syncing \in Run \cup {None}
  /\ pc \in [Run -> {"idle", "running", "done", "failed", "skipped"}]
  /\ dir \in [Run -> [Direction ->
       {"idle", "fetch", "more", "last", "done", "failed"}]]
  /\ page \in [Run -> [Direction -> SUBSET Transfer]]
  /\ cursor \in [Run -> [Direction -> 0..N]]
  /\ enriching \subseteq Run \X Transfer /\ looking \subseteq Run \X Transfer
  /\ InUse <= Slots
  /\ rows \in [Transfer -> {"none", "bare", "fee"}]
  /\ unsaved \subseteq Run \X Transfer
  /\ target \in [Run -> 0..N]

(***************************************************************************)
(* A sync that returned without error is complete (fetchAllPages): every   *)
(* transfer indexed when it began is stored, unless it is spam or its own  *)
(* Upsert failed, however many pages and whatever was indexed meanwhile.   *)
(***************************************************************************)
SyncIsComplete ==
  \A r \in Run : pc[r] = "done" =>
    \A t \in Kept(1..target[r]) : rows[t] # "none" \/ <<r, t>> \in unsaved

(***************************************************************************)
(* No sync takes back a gas fee (Storage.Upsert, UpdateGasFees): not one   *)
(* that stores the same transfer after or while another looks it up.       *)
(***************************************************************************)
FeeIsKept == [][\A t \in Transfer : rows[t] = "fee" => rows'[t] = "fee"]_vars

(***************************************************************************)
(* The syncs that run come to an end, failing or not, also with one slot   *)
(* for all the pages and lookups (fetchAllPages, wg.Wait): no goroutine    *)
(* waits for a slot while it holds one.                                    *)
(***************************************************************************)
EverySyncEnds ==
  (\E r \in Run : pc[r] = "running") ~> (\A r \in Run : pc[r] # "running")
=============================================================================
