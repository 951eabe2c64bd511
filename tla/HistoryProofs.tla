---------------------------- MODULE HistoryProofs ----------------------------
(***************************************************************************)
(* Theorems about the history: its sync (HistorySync), for any number of   *)
(* calls, directions, transfers, pages and slots, and at the end its pages *)
(* (HistoryPages), for any finite set of legs and any limits.              *)
(***************************************************************************)
EXTENDS HistorySync, HistoryPages, FiniteSetTheorems, WellFoundedInduction, SequenceTheorems,
        TLAPS

(***************************************************************************)
(* A non-empty set of naturals has a least element.                        *)
(***************************************************************************)
LEMMA LeastNatural ==
  ASSUME NEW S \in SUBSET Nat, S # {}
  PROVE  \E n \in S : \A m \in S : n <= m
<1>1. IsWellFoundedOn(OpToRel(<, Nat), Nat)
  BY NatLessThanWellFounded
<1>2. PICK n \in S : \A m \in S : <<m, n>> \notin OpToRel(<, Nat)
  BY <1>1, WFMin
<1>3. \A m \in S : ~(m < n)
  BY <1>2 DEF OpToRel
<1> QED
  BY <1>3

(***************************************************************************)
(* Max picks the greatest element of a non-empty set of bounded naturals.  *)
(***************************************************************************)
LEMMA MaxIsGreatest ==
  ASSUME NEW b \in Nat, NEW S \in SUBSET (0..b), S # {}
  PROVE  Max(S) \in S /\ \A x \in S : x <= Max(S)
<1> DEFINE Bounds == {n \in Nat : \A x \in S : x <= n}
<1>1. PICK n \in Bounds : \A m \in Bounds : n <= m
  <2>1. b \in Bounds
    OBVIOUS
  <2>2. Bounds \in SUBSET Nat
    OBVIOUS
  <2> HIDE DEF Bounds
  <2> QED BY <2>1, <2>2, LeastNatural
<1>2. n \in S
  <2> SUFFICES ASSUME n \notin S PROVE FALSE
    OBVIOUS
  <2>1. PICK x \in S : TRUE
    OBVIOUS
  <2>2. x < n /\ \A y \in S : y < n
    BY <1>1
  <2>3. n - 1 \in Bounds
    BY <2>1, <2>2
  <2> QED BY <1>1, <2>3
<1>3. \A x \in S : n >= x
  BY <1>1
<1>4. Max(S) \in S /\ \A y \in S : Max(S) >= y
  BY <1>2, <1>3 DEF Max
<1> QED BY <1>4

(***************************************************************************)
(* A page is cut from the front (FirstPage): whatever comes before one of  *)
(* its transfers is on it as well.                                         *)
(***************************************************************************)
LEMMA FirstPageIsPrefix ==
  ASSUME NEW S, IsFiniteSet(S), S \subseteq Nat,
         NEW u \in FirstPage(S), NEW t \in S, t <= u
  PROVE  t \in FirstPage(S)
<1> DEFINE Earlier(x) == {v \in S : v < x}
<1>1. Earlier(t) \in SUBSET Earlier(u) /\ Earlier(u) \in SUBSET S
  <2>1. u \in Nat /\ t \in Nat
    BY DEF FirstPage
  <2>2. \A v \in S : v < t => v < u
    BY <2>1
  <2> QED BY <2>2
<1>2. IsFiniteSet(Earlier(u)) /\ Cardinality(Earlier(u)) \in Nat
  BY <1>1, FS_Subset, FS_CardinalityType
<1>3. Cardinality(Earlier(t)) <= Cardinality(Earlier(u)) /\ Cardinality(Earlier(t)) \in Nat
  BY <1>1, <1>2, FS_Subset, FS_CardinalityType
<1>4. Cardinality(Earlier(u)) < PageSize
  BY DEF FirstPage
<1> QED BY <1>2, <1>3, <1>4, HistoryAssumption DEF FirstPage

-----------------------------------------------------------------------------
(* Type correctness and the semaphore. *)

Fetching == {x \in Run \X Direction : dir[x[1]][x[2]] = "fetch"}

(***************************************************************************)
(* The slots in use are counted: only finitely many goroutines hold one.   *)
(***************************************************************************)
SlotInv == IsFiniteSet(Fetching) /\ IsFiniteSet(looking)

\* Both parts of InUse are numbers.
LEMMA SlotsInUse ==
  ASSUME TypeOK, SlotInv
  PROVE  /\ Cardinality(Fetching) \in Nat /\ Cardinality(looking) \in Nat
         /\ InUse = Cardinality(Fetching) + Cardinality(looking) /\ InUse <= Slots
BY FS_CardinalityType DEF SlotInv, InUse, Fetching, TypeOK

(***************************************************************************)
(* A step that takes no slot: neither set of holders grows.                *)
(***************************************************************************)
LEMMA NoSlotTaken ==
  ASSUME TypeOK, SlotInv, Fetching' \in SUBSET Fetching, looking' \in SUBSET looking
  PROVE  SlotInv' /\ InUse' <= Slots
<1>1. IsFiniteSet(Fetching') /\ Cardinality(Fetching') <= Cardinality(Fetching)
  BY FS_Subset DEF SlotInv
<1>2. IsFiniteSet(looking') /\ Cardinality(looking') <= Cardinality(looking)
  BY FS_Subset DEF SlotInv
<1>3. Cardinality(Fetching') \in Nat /\ Cardinality(looking') \in Nat
  BY <1>1, <1>2, FS_CardinalityType
<1>4. InUse' = Cardinality(Fetching') + Cardinality(looking')
  BY DEF InUse, Fetching
<1> QED BY <1>1, <1>2, <1>3, <1>4, SlotsInUse, HistoryAssumption DEF SlotInv

(***************************************************************************)
(* A step that takes a free slot, for a page or for a lookup.              *)
(***************************************************************************)
LEMMA SlotTaken ==
  ASSUME TypeOK, SlotInv, InUse < Slots,
         \/ looking' = looking /\ \E x : Fetching' = Fetching \cup {x}
         \/ Fetching' = Fetching /\ \E x : looking' = looking \cup {x}
  PROVE  SlotInv' /\ InUse' <= Slots
<1>1. InUse' = Cardinality(Fetching') + Cardinality(looking')
  BY DEF InUse, Fetching
<1>2. CASE looking' = looking /\ \E x : Fetching' = Fetching \cup {x}
  <2>1. PICK x : Fetching' = Fetching \cup {x}
    BY <1>2
  <2>2. IsFiniteSet(Fetching') /\ Cardinality(Fetching') \in {Cardinality(Fetching), Cardinality(Fetching) + 1}
    BY <2>1, FS_AddElement DEF SlotInv
  <2>3. Cardinality(looking') = Cardinality(looking) /\ IsFiniteSet(looking')
    BY <1>2 DEF SlotInv
  <2> QED BY <1>1, <2>2, <2>3, SlotsInUse, HistoryAssumption DEF SlotInv
<1>3. CASE Fetching' = Fetching /\ \E x : looking' = looking \cup {x}
  <2>1. PICK x : looking' = looking \cup {x}
    BY <1>3
  <2>2. IsFiniteSet(looking') /\ Cardinality(looking') \in {Cardinality(looking), Cardinality(looking) + 1}
    BY <2>1, FS_AddElement DEF SlotInv
  <2>3. Cardinality(Fetching') = Cardinality(Fetching) /\ IsFiniteSet(Fetching')
    BY <1>3 DEF SlotInv
  <2> QED BY <1>1, <2>2, <2>3, SlotsInUse, HistoryAssumption DEF SlotInv
<1> QED BY <1>2, <1>3

\* Every step keeps the types and the count of the slots.
LEMMA HistoryType == TypeOK /\ SlotInv /\ [Next]_vars => TypeOK' /\ SlotInv'
<1> SUFFICES ASSUME TypeOK, SlotInv, [Next]_vars
             PROVE  TypeOK' /\ SlotInv'
  OBVIOUS
<1> USE HistoryAssumption DEF Transfer
<1> DEFINE Typed ==
      /\ indexed \in 0..N
      /\ cooling \in BOOLEAN /\ syncing \in Run \cup {None}
      /\ pc \in [Run -> {"idle", "running", "done", "failed", "skipped"}]
      /\ dir \in [Run -> [Direction -> {"idle", "fetch", "more", "last", "done", "failed"}]]
      /\ page \in [Run -> [Direction -> SUBSET Transfer]]
      /\ cursor \in [Run -> [Direction -> 0..N]]
      /\ enriching \subseteq Run \X Transfer /\ looking \subseteq Run \X Transfer
      /\ rows \in [Transfer -> {"none", "bare", "fee"}]
      /\ unsaved \subseteq Run \X Transfer
      /\ target \in [Run -> 0..N]
<1>0. Typed
  BY DEF TypeOK
<1>1. ASSUME NEW r \in Run, SyncRoutine(r) \/ SyncForce(r)
      PROVE  Typed' /\ Fetching' \in SUBSET Fetching /\ looking' \in SUBSET looking
  <2>1. Start(r) /\ syncing' \in Run \cup {None}
    BY <1>0, <1>1 DEF SyncRoutine, SyncForce
  <2> QED BY <1>0, <2>1 DEF Start, gas, Fetching
<1>2. ASSUME NEW r \in Run, SyncForceSkips(r)
      PROVE  Typed' /\ Fetching' \in SUBSET Fetching /\ looking' \in SUBSET looking
  BY <1>0, <1>2 DEF SyncForceSkips, fetching, gas, Fetching
<1>3. ASSUME NEW r \in Run, NEW d \in Direction, AcquirePage(r, d)
      PROVE  Typed' /\ InUse < Slots /\ looking' = looking
             /\ Fetching' = Fetching \cup {<<r, d>>}
  BY <1>0, <1>3 DEF AcquirePage, SetDir, gas, Fetching
<1>4. ASSUME NEW r \in Run, NEW d \in Direction,
             AcquireCancelled(r, d) \/ FetchFails(r, d) \/ DirectionEnds(r, d)
      PROVE  Typed' /\ Fetching' \in SUBSET Fetching /\ looking' \in SUBSET looking
  <2>1. /\ \E to \in {"failed", "done"} : dir' = [dir EXCEPT ![r][d] = to]
        /\ UNCHANGED <<indexed, cooling, syncing, pc, page, cursor, gas, rows, unsaved, target>>
    BY <1>4 DEF AcquireCancelled, FetchFails, DirectionEnds, SetDir
  <2>2. PICK to \in {"failed", "done"} : dir' = [dir EXCEPT ![r][d] = to]
    BY <2>1
  <2>3. Typed'
    BY <1>0, <2>1, <2>2 DEF gas
  <2> QED BY <1>0, <2>1, <2>2 DEF gas, Fetching
<1>5. ASSUME NEW r \in Run, NEW d \in Direction, FetchPage(r, d)
      PROVE  Typed' /\ Fetching' \in SUBSET Fetching /\ looking' \in SUBSET looking
  <2> DEFINE got == FirstPage(Remaining(r, d))
  <2>1. got \in SUBSET (0..N) /\ Kept(got) \in SUBSET Transfer
    BY <1>0 DEF FirstPage, Remaining, Kept
  <2>2. got # {} => Max(got) \in 0..N
    BY <2>1, MaxIsGreatest
  <2>3. /\ page' = [page EXCEPT ![r][d] = Kept(got)]
        /\ cursor' = [cursor EXCEPT ![r][d] = IF got = {} THEN @ ELSE Max(got)]
        /\ \E to \in {"last", "more"} : SetDir(r, d, to)
        /\ UNCHANGED <<indexed, cooling, syncing, pc, gas, rows, unsaved, target>>
    BY <1>5 DEF FetchPage
  <2> HIDE DEF got
  <2>4. PICK to \in {"last", "more"} : dir' = [dir EXCEPT ![r][d] = to]
    BY <2>3 DEF SetDir
  <2>5. page' \in [Run -> [Direction -> SUBSET Transfer]]
    BY <1>0, <2>1, <2>3
  <2>6. cursor' \in [Run -> [Direction -> 0..N]]
    BY <1>0, <2>2, <2>3
  <2>7. dir' \in [Run -> [Direction -> {"idle", "fetch", "more", "last", "done", "failed"}]]
    BY <1>0, <2>4
  <2>8. Typed'
    BY <1>0, <2>3, <2>5, <2>6, <2>7 DEF gas
  <2>9. \A x \in Fetching' : x \in Fetching
    BY <1>0, <2>4 DEF Fetching
  <2> QED BY <2>3, <2>8, <2>9 DEF gas
<1>6. ASSUME NEW r \in Run, NEW d \in Direction, NEW t \in Transfer,
             StoreTransfer(r, d, t) \/ StoreFails(r, d, t)
      PROVE  Typed' /\ Fetching' \in SUBSET Fetching /\ looking' \in SUBSET looking
  <2>1. /\ page' = [page EXCEPT ![r][d] = @ \ {t}]
        /\ UNCHANGED <<indexed, cooling, syncing, pc, dir, cursor, looking, target>>
        /\ rows' \in {rows, [rows EXCEPT ![t] = IF @ = "none" THEN "bare" ELSE @]}
        /\ enriching' \in {enriching, enriching \cup {<<r, t>>}}
        /\ unsaved' \in {unsaved, unsaved \cup {<<r, t>>}}
    BY <1>6 DEF StoreTransfer, StoreFails, Storing, Upsert
  <2>2. rows' \in [Transfer -> {"none", "bare", "fee"}]
    BY <1>0, <2>1
  <2>3. page' \in [Run -> [Direction -> SUBSET Transfer]]
    BY <1>0, <2>1
  <2>4. enriching' \subseteq Run \X Transfer /\ unsaved' \subseteq Run \X Transfer
    BY <1>0, <2>1
  <2>5. Typed'
    BY <1>0, <2>1, <2>2, <2>3, <2>4, Zenon
  <2> QED BY <2>1, <2>5 DEF Fetching
<1>7. ASSUME NEW r \in Run, NEW t \in Transfer, AcquireLookup(r, t)
      PROVE  Typed' /\ InUse < Slots /\ Fetching' = Fetching
             /\ looking' = looking \cup {<<r, t>>}
  BY <1>0, <1>7 DEF AcquireLookup, fetching, Fetching
<1>8. ASSUME NEW r \in Run, NEW t \in Transfer, enrichGasFee(r, t) \/ enrichGasFeeFails(r, t)
      PROVE  Typed' /\ Fetching' \in SUBSET Fetching /\ looking' \in SUBSET looking
  BY <1>0, <1>8 DEF enrichGasFee, enrichGasFeeFails, fetching, Fetching
<1>9. ASSUME NEW r \in Run, SyncEnds(r)
      PROVE  Typed' /\ Fetching' \in SUBSET Fetching /\ looking' \in SUBSET looking
  <2>1. pc' \in [Run -> {"idle", "running", "done", "failed", "skipped"}]
    BY <1>0, <1>9 DEF SyncEnds
  <2>2. dir' \in [Run -> [Direction -> {"idle", "fetch", "more", "last", "done", "failed"}]]
    BY <1>0, <1>9 DEF SyncEnds
  <2>3. page' \in [Run -> [Direction -> SUBSET Transfer]]
    BY <1>0, <1>9 DEF SyncEnds
  <2>4. cursor' \in [Run -> [Direction -> 0..N]]
    BY <1>0, <1>9 DEF SyncEnds
  <2>5. syncing' \in Run \cup {None}
    BY <1>0, <1>9 DEF SyncEnds
  <2>6. UNCHANGED <<indexed, cooling, enriching, looking, rows, unsaved, target>>
    BY <1>9 DEF SyncEnds, gas
  <2>7. Typed'
    BY <1>0, <2>1, <2>2, <2>3, <2>4, <2>5, <2>6, Zenon
  <2>8. \A x \in Fetching' : x \in Fetching
    BY <1>0, <1>9 DEF SyncEnds, Fetching
  <2> QED BY <2>6, <2>7, <2>8
<1>10. ASSUME Index \/ CooldownEnds \/ UNCHANGED vars
      PROVE  Typed' /\ Fetching' \in SUBSET Fetching /\ looking' \in SUBSET looking
  <2>1. UNCHANGED <<syncing, pc, dir, page, cursor, enriching, looking, rows, unsaved, target>>
    BY <1>10 DEF Index, CooldownEnds, vars, fetching, gas
  <2>2. indexed' \in 0..N
    BY <1>0, <1>10 DEF Index, CooldownEnds, vars
  <2>3. cooling' \in BOOLEAN
    BY <1>0, <1>10, Zenon DEF Index, CooldownEnds, vars
  <2>4. Typed'
    BY <1>0, <2>1, <2>2, <2>3, Zenon
  <2> QED BY <2>1, <2>4 DEF Fetching
<1>11. Typed' /\ InUse' <= Slots => TypeOK'
  BY DEF TypeOK
<1> HIDE DEF Typed
<1> QED
  BY <1>1, <1>2, <1>3, <1>4, <1>5, <1>6, <1>7, <1>8, <1>9, <1>10, <1>11,
     NoSlotTaken, SlotTaken
  DEF Next, Goroutines, fetchAllPages, Lookup

(***************************************************************************)
(* Every variable keeps its type, and the pages and lookups of all syncs   *)
(* together never use more than the semaphore's slots (syncFromAlchemy).   *)
(***************************************************************************)
THEOREM HistoryTypeCorrect == Spec => [](TypeOK /\ SlotInv)
<1>1. Init => TypeOK /\ SlotInv
  <2> SUFFICES ASSUME Init PROVE TypeOK /\ SlotInv
    OBVIOUS
  <2>1. Fetching = {} /\ looking = {}
    BY DEF Init, Fetching
  <2>2. SlotInv /\ InUse = 0
    BY <2>1, FS_EmptySet DEF SlotInv, InUse, Fetching
  <2>3. /\ dir \in [Run -> [Direction -> {"idle", "fetch", "more", "last", "done", "failed"}]]
        /\ page \in [Run -> [Direction -> SUBSET Transfer]]
        /\ cursor \in [Run -> [Direction -> 0..N]]
    BY HistoryAssumption DEF Init, Transfer
  <2>4. indexed \in 0..N /\ InUse <= Slots /\ target \in [Run -> 0..N]
    BY <2>2, HistoryAssumption DEF Init
  <2> QED BY <2>2, <2>3, <2>4 DEF Init, TypeOK
<1> QED BY <1>1, HistoryType, PTL DEF Spec

-----------------------------------------------------------------------------
(* A sync that returns without error is complete. *)

Saved(r, t) == rows[t] # "none" \/ <<r, t>> \in unsaved

(***************************************************************************)
(* What every step keeps of sync r.  Everything up to the cursor is stored *)
(* or on the page in hand; a direction that has seen its last page has its *)
(* cursor at or past all that was indexed when the sync began.             *)
(***************************************************************************)
AtRest(r) ==
  pc[r] # "running" => \A d \in Direction :
    dir[r][d] = "idle" /\ page[r][d] = {} /\ cursor[r][d] = 0

PageInHand(r) ==
  \A d \in Direction : dir[r][d] \notin {"more", "last"} => page[r][d] = {}

CursorCovers(r) ==
  \A t \in Transfer :
    ~isSpamTransfer(t) /\ t <= cursor[r][DirOf[t]]
      => t \in page[r][DirOf[t]] \/ Saved(r, t)

LastReached(r) ==
  \A t \in 1..target[r] :
    dir[r][DirOf[t]] \in {"last", "done"} => t <= cursor[r][DirOf[t]]

Complete(r) ==
  pc[r] = "done" => \A t \in Kept(1..target[r]) : Saved(r, t)

SyncOf(r) ==
  /\ target[r] <= indexed
  /\ AtRest(r) /\ PageInHand(r) /\ CursorCovers(r) /\ LastReached(r) /\ Complete(r)

SyncInv == \A r \in Run : SyncOf(r)

(***************************************************************************)
(* What is stored stays stored, and a failed Upsert stays on record.       *)
(***************************************************************************)
LEMMA SavedStays ==
  ASSUME TypeOK, [Next]_vars
  PROVE  /\ indexed' \in Nat /\ indexed <= indexed'
         /\ \A t \in Transfer : rows[t] # "none" => rows'[t] # "none"
         /\ unsaved \subseteq unsaved'
<1>1. ASSUME NEW r \in Run, NEW d \in Direction, NEW t \in Transfer,
             StoreTransfer(r, d, t) \/ StoreFails(r, d, t)
      PROVE  /\ indexed' = indexed /\ unsaved \subseteq unsaved'
             /\ \A u \in Transfer : rows[u] # "none" => rows'[u] # "none"
  BY <1>1 DEF StoreTransfer, StoreFails, Storing, Upsert, TypeOK
<1>2. ASSUME NEW r \in Run, NEW t \in Transfer, Lookup(r, t)
      PROVE  /\ indexed' = indexed /\ unsaved' = unsaved
             /\ \A u \in Transfer : rows[u] # "none" => rows'[u] # "none"
  BY <1>2 DEF Lookup, AcquireLookup, enrichGasFee, enrichGasFeeFails, TypeOK
<1>3. ASSUME Index PROVE indexed' = indexed + 1 /\ UNCHANGED <<rows, unsaved>>
  BY <1>3 DEF Index
<1>4. ASSUME NEW r \in Run, NEW d \in Direction,
             \/ AcquirePage(r, d) \/ AcquireCancelled(r, d) \/ FetchPage(r, d)
             \/ FetchFails(r, d) \/ DirectionEnds(r, d)
      PROVE  UNCHANGED <<indexed, rows, unsaved>>
  BY <1>4 DEF AcquirePage, AcquireCancelled, FetchPage, FetchFails, DirectionEnds
<1>5. ASSUME NEW r \in Run,
             SyncEnds(r) \/ SyncRoutine(r) \/ SyncForce(r) \/ SyncForceSkips(r)
      PROVE  UNCHANGED <<indexed, rows, unsaved>>
  BY <1>5 DEF SyncEnds, SyncRoutine, SyncForce, SyncForceSkips, Start
<1>6. ASSUME CooldownEnds \/ UNCHANGED vars PROVE UNCHANGED <<indexed, rows, unsaved>>
  BY <1>6 DEF CooldownEnds, vars
<1>7. indexed \in Nat
  BY HistoryAssumption DEF TypeOK
<1> QED
  BY <1>1, <1>2, <1>3, <1>4, <1>5, <1>6, <1>7 DEF Next, Goroutines, fetchAllPages

(***************************************************************************)
(* A step of another sync, of a lookup or of the environment.              *)
(***************************************************************************)
LEMMA OtherSync ==
  ASSUME TypeOK, TypeOK', [Next]_vars, NEW r \in Run, SyncOf(r),
         pc'[r] = pc[r], dir'[r] = dir[r], page'[r] = page[r],
         cursor'[r] = cursor[r], target'[r] = target[r]
  PROVE  SyncOf(r)'
<1> USE HistoryAssumption
<1>1. target'[r] <= indexed'
  BY SavedStays DEF SyncOf, TypeOK
<1>2. target[r] \in 0..N /\ \A t \in 1..target[r] : t \in Transfer
  BY DEF TypeOK, Transfer
<1>3. \A t \in Transfer : Saved(r, t) => Saved(r, t)'
  BY SavedStays DEF Saved
<1>4. AtRest(r)' /\ PageInHand(r)'
  BY DEF SyncOf, AtRest, PageInHand
<1>5. CursorCovers(r)' /\ LastReached(r)'
  BY <1>3 DEF SyncOf, CursorCovers, LastReached, isSpamTransfer
<1>6. Complete(r)'
  BY <1>2, <1>3 DEF SyncOf, Complete, Kept, isSpamTransfer
<1> QED BY <1>1, <1>4, <1>5, <1>6 DEF SyncOf

(***************************************************************************)
(* The page that arrives covers every transfer up to the new cursor, and   *)
(* the last page every transfer indexed so far.                            *)
(***************************************************************************)
LEMMA PageCovers ==
  ASSUME TypeOK, NEW r \in Run, NEW d \in Direction, FetchPage(r, d),
         NEW t \in Transfer, DirOf[t] = d
  PROVE  /\ cursor'[r][d] \in Nat /\ cursor[r][d] <= cursor'[r][d]
         /\ t <= cursor'[r][d] /\ ~isSpamTransfer(t) =>
              t <= cursor[r][d] \/ t \in page'[r][d]
         /\ dir'[r][d] = "last" /\ t <= indexed => t <= cursor'[r][d]
<1> DEFINE rest == Remaining(r, d)
           got == FirstPage(rest)
<1> USE HistoryAssumption
<1>1. indexed \in Nat /\ cursor[r][d] \in Nat
  BY DEF TypeOK
<1>2. rest \in SUBSET (1..indexed) /\ rest \in SUBSET (0..indexed) /\ rest \subseteq Nat
  BY <1>1 DEF Remaining
<1>3. IsFiniteSet(rest)
  <2>1. IsFiniteSet(1..indexed)
    BY <1>1, FS_Interval
  <2> QED BY <1>2, <2>1, FS_Subset
<1>4. got \in SUBSET (0..indexed) /\ got \subseteq rest
  BY <1>2 DEF FirstPage
<1>5. /\ page'[r][d] = Kept(got)
      /\ cursor'[r][d] = IF got = {} THEN cursor[r][d] ELSE Max(got)
      /\ dir'[r][d] = IF got = rest THEN "last" ELSE "more"
  BY DEF FetchPage, SetDir, TypeOK
<1>6. got # {} => Max(got) \in got /\ \A x \in got : x <= Max(got)
  BY <1>1, <1>4, MaxIsGreatest
<1>7. \A x \in rest : x \in Nat /\ x > cursor[r][d] /\ x <= indexed
  BY <1>1 DEF Remaining
<1>8. t <= indexed /\ t > cursor[r][d] => t \in rest
  BY <1>1 DEF Remaining, Transfer
<1>9. ASSUME got # {}, t \in rest, t <= Max(got) PROVE t \in got
  BY <1>2, <1>3, <1>6, <1>9, FirstPageIsPrefix
<1>10. t \in Nat
  BY DEF Transfer
<1>11. t \in got /\ ~isSpamTransfer(t) => t \in Kept(got)
  BY DEF Kept
<1> HIDE DEF rest, got
<1>12. cursor'[r][d] \in Nat /\ cursor[r][d] <= cursor'[r][d]
  <2>1. CASE got = {}
    BY <1>1, <1>5, <2>1
  <2>2. CASE got # {}
    <3>1. Max(got) \in rest
      BY <1>4, <1>6, <2>2
    <3> QED BY <1>1, <1>5, <1>7, <2>2, <3>1
  <2> QED BY <2>1, <2>2
<1>13. t <= cursor'[r][d] /\ ~isSpamTransfer(t) => t <= cursor[r][d] \/ t \in page'[r][d]
  <2> SUFFICES ASSUME t <= cursor'[r][d], ~isSpamTransfer(t), ~(t <= cursor[r][d])
               PROVE  t \in page'[r][d]
    OBVIOUS
  <2>1. got # {} /\ cursor'[r][d] = Max(got)
    BY <1>5
  <2>2. Max(got) <= indexed
    BY <1>4, <1>6, <1>7, <2>1
  <2>3. Max(got) \in Nat
    BY <1>4, <1>6, <1>7, <2>1
  <2>4. t \in rest
    BY <1>1, <1>8, <1>10, <2>1, <2>2, <2>3
  <2> QED BY <1>5, <1>9, <1>11, <2>1, <2>4
<1>14. dir'[r][d] = "last" /\ t <= indexed => t <= cursor'[r][d]
  <2> SUFFICES ASSUME dir'[r][d] = "last", t <= indexed, t > cursor[r][d]
               PROVE  t <= cursor'[r][d]
    BY <1>1, <1>10, <1>12
  <2> QED BY <1>5, <1>6, <1>8
<1> QED BY <1>12, <1>13, <1>14

(***************************************************************************)
(* A step of one direction of the sync.                                    *)
(***************************************************************************)
LEMMA DirectionStep ==
  ASSUME TypeOK, TypeOK', NEW r \in Run, SyncOf(r),
         NEW d \in Direction, fetchAllPages(r, d)
  PROVE  SyncOf(r)'
<1> USE HistoryAssumption
<1>1. [Next]_vars
  BY DEF Next, Goroutines
<1>2. pc[r] = "running" /\ pc' = pc /\ target' = target
  BY DEF fetchAllPages, AcquirePage, AcquireCancelled, FetchPage, FetchFails, StoreTransfer,
         StoreFails, DirectionEnds, AtTop, Storing, SyncOf, AtRest
<1>3. target'[r] <= indexed' /\ AtRest(r)' /\ Complete(r)'
  BY <1>1, <1>2, SavedStays DEF SyncOf, AtRest, Complete, TypeOK
<1>4. \A t \in Transfer : Saved(r, t) => Saved(r, t)'
  BY <1>1, SavedStays DEF Saved
<1>5. target[r] \in 0..N /\ \A t \in 1..target[r] : t \in Transfer /\ t <= indexed
  BY DEF TypeOK, Transfer, SyncOf
<1>6. \A t \in Transfer : DirOf[t] \in Direction /\ (isSpamTransfer(t)' <=> isSpamTransfer(t))
  BY DEF isSpamTransfer
<1>7. CASE FetchPage(r, d)
  <2>1. /\ dir'[r][d] \in {"more", "last"} /\ page[r][d] = {}
        /\ \A e \in Direction \ {d} :
             dir'[r][e] = dir[r][e] /\ page'[r][e] = page[r][e] /\ cursor'[r][e] = cursor[r][e]
    <3>1. page[r][d] = {}
      BY <1>7 DEF FetchPage, SyncOf, PageInHand
    <3>2. PICK to \in {"more", "last"} : dir' = [dir EXCEPT ![r][d] = to]
      BY <1>7 DEF FetchPage, SetDir
    <3>3. \A e \in Direction \ {d} : page'[r][e] = page[r][e] /\ cursor'[r][e] = cursor[r][e]
      BY <1>7 DEF FetchPage, TypeOK
    <3> QED BY <3>1, <3>2, <3>3 DEF TypeOK
  <2>2. PageInHand(r)'
    BY <2>1 DEF SyncOf, PageInHand
  <2>3. CursorCovers(r)'
    <3> SUFFICES ASSUME NEW t \in Transfer, ~isSpamTransfer(t), t <= cursor'[r][DirOf[t]]
                 PROVE  t \in page'[r][DirOf[t]] \/ Saved(r, t)'
      BY <1>6 DEF CursorCovers
    <3>1. CASE DirOf[t] = d
      BY <1>4, <1>7, <2>1, <3>1, PageCovers DEF SyncOf, CursorCovers
    <3>2. CASE DirOf[t] # d
      BY <1>4, <1>6, <2>1, <3>2 DEF SyncOf, CursorCovers
    <3> QED BY <3>1, <3>2
  <2>4. LastReached(r)'
    <3> SUFFICES ASSUME NEW t \in 1..target[r], dir'[r][DirOf[t]] \in {"last", "done"}
                 PROVE  t <= cursor'[r][DirOf[t]]
      BY <1>2 DEF LastReached
    <3>1. CASE DirOf[t] = d
      BY <1>5, <1>7, <2>1, <3>1, PageCovers
    <3>2. CASE DirOf[t] # d
      BY <1>5, <1>6, <2>1, <3>2 DEF SyncOf, LastReached
    <3> QED BY <3>1, <3>2
  <2> QED BY <1>3, <2>2, <2>3, <2>4 DEF SyncOf
<1>8. ASSUME NEW t \in Transfer, StoreTransfer(r, d, t) \/ StoreFails(r, d, t)
      PROVE  SyncOf(r)'
  <2>1. /\ dir' = dir /\ cursor' = cursor /\ dir[r][d] \in {"more", "last"}
        /\ page' = [page EXCEPT ![r][d] = @ \ {t}]
    BY <1>8 DEF StoreTransfer, StoreFails, Storing
  <2>2. Saved(r, t)'
    BY <1>8 DEF StoreTransfer, StoreFails, Storing, Upsert, Saved, TypeOK
  <2>3. \A u \in Transfer, e \in Direction : u \in page[r][e] => u \in page'[r][e] \/ u = t
    BY <2>1 DEF TypeOK
  <2>4. \A e \in Direction : page[r][e] = {} => page'[r][e] = {}
    BY <2>1 DEF TypeOK
  <2>5. PageInHand(r)'
    BY <2>1, <2>4 DEF SyncOf, PageInHand
  <2>6. CursorCovers(r)'
    BY <1>4, <1>6, <2>1, <2>2, <2>3 DEF SyncOf, CursorCovers
  <2>7. LastReached(r)'
    BY <1>2, <2>1 DEF SyncOf, LastReached
  <2> QED BY <1>3, <2>5, <2>6, <2>7 DEF SyncOf
<1>9. CASE \/ AcquirePage(r, d) \/ AcquireCancelled(r, d)
           \/ FetchFails(r, d) \/ DirectionEnds(r, d)
  <2>1. /\ page' = page /\ cursor' = cursor /\ page[r][d] = {}
        /\ dir'[r][d] \in {"fetch", "failed"} \/ dir[r][d] = "last"
        /\ \A e \in Direction \ {d} : dir'[r][e] = dir[r][e]
    BY <1>9 DEF AcquirePage, AcquireCancelled, FetchFails, DirectionEnds, AtTop, SetDir,
                SyncOf, PageInHand, TypeOK
  <2>2. PageInHand(r)' /\ CursorCovers(r)'
    BY <1>4, <1>6, <2>1 DEF SyncOf, PageInHand, CursorCovers
  <2>3. LastReached(r)'
    BY <1>2, <1>5, <1>6, <2>1 DEF SyncOf, LastReached
  <2> QED BY <1>3, <2>2, <2>3 DEF SyncOf
<1> QED BY <1>7, <1>8, <1>9 DEF fetchAllPages

(***************************************************************************)
(* The sync starts, is passed over, or returns.                            *)
(***************************************************************************)
LEMMA SyncStep ==
  ASSUME TypeOK, TypeOK', NEW r \in Run, SyncOf(r),
         SyncRoutine(r) \/ SyncForce(r) \/ SyncForceSkips(r) \/ SyncEnds(r)
  PROVE  SyncOf(r)'
<1> USE HistoryAssumption
<1>1. target'[r] \in 0..N /\ target'[r] <= indexed'
  BY DEF SyncRoutine, SyncForce, SyncForceSkips, Start, SyncEnds, SyncOf, TypeOK
<1>2. CASE Start(r)
  <2>1. /\ pc'[r] = "running" /\ page' = page /\ cursor' = cursor
        /\ \A d \in Direction : dir'[r][d] = "more"
    BY <1>2 DEF Start, TypeOK
  <2>2. pc[r] = "idle"
    BY <1>2, <2>1 DEF SyncRoutine, SyncForce, SyncForceSkips, SyncEnds, TypeOK
  <2>3. \A t \in Transfer : DirOf[t] \in Direction /\ cursor[r][DirOf[t]] = 0
    BY <2>2 DEF SyncOf, AtRest
  <2>4. CursorCovers(r)'
    BY <2>1, <2>3 DEF CursorCovers, Transfer
  <2> QED BY <1>1, <2>1, <2>3, <2>4
          DEF SyncOf, AtRest, PageInHand, LastReached, Complete, Transfer
<1>3. CASE SyncForceSkips(r)
  <2>1. /\ pc[r] = "idle" /\ pc'[r] = "skipped"
        /\ UNCHANGED <<dir, page, cursor, rows, unsaved>>
    BY <1>3 DEF SyncForceSkips, fetching, TypeOK
  <2>2. AtRest(r)' /\ PageInHand(r)' /\ Complete(r)'
    BY <2>1 DEF SyncOf, AtRest, PageInHand, Complete
  <2>3. CursorCovers(r)'
    BY <2>1 DEF SyncOf, CursorCovers, Saved, isSpamTransfer
  <2>4. \A d \in Direction : dir'[r][d] = "idle"
    BY <2>1 DEF SyncOf, AtRest
  <2>5. LastReached(r)'
    BY <1>1, <2>4 DEF LastReached, Transfer
  <2> QED BY <1>1, <2>2, <2>3, <2>5 DEF SyncOf
<1>4. CASE SyncEnds(r)
  <2>1. /\ pc[r] = "running" /\ pc'[r] # "running" /\ rows' = rows /\ unsaved' = unsaved
        /\ target' = target
        /\ \A d \in Direction : dir'[r][d] = "idle" /\ page'[r][d] = {} /\ cursor'[r][d] = 0
    BY <1>4 DEF SyncEnds, TypeOK
  <2>2. CursorCovers(r)'
    BY <2>1 DEF CursorCovers, Transfer
  <2>3. Complete(r)'
    <3> SUFFICES ASSUME pc'[r] = "done", NEW t \in Kept(1..target[r])
                 PROVE  Saved(r, t)
      BY <2>1 DEF Complete, Saved, Kept, isSpamTransfer
    <3>1. \A d \in Direction : dir[r][d] = "done"
      BY <1>4 DEF SyncEnds, Returned, Cancelled, TypeOK
    <3>2. t \in Transfer /\ t \in 1..target[r] /\ ~isSpamTransfer(t)
      BY DEF Kept, Transfer, TypeOK
    <3>3. DirOf[t] \in Direction /\ t <= cursor[r][DirOf[t]] /\ page[r][DirOf[t]] = {}
      BY <3>1, <3>2 DEF SyncOf, LastReached, PageInHand
    <3> QED BY <3>2, <3>3 DEF SyncOf, CursorCovers
  <2>4. AtRest(r)' /\ PageInHand(r)'
    BY <2>1 DEF AtRest, PageInHand
  <2>5. LastReached(r)'
    BY <1>1, <2>1 DEF LastReached, Transfer
  <2> QED BY <1>1, <2>2, <2>3, <2>4, <2>5 DEF SyncOf
<1> QED BY <1>2, <1>3, <1>4 DEF SyncRoutine, SyncForce

\* Every step keeps what SyncOf says, for every sync.
LEMMA SyncKept == TypeOK /\ TypeOK' /\ SyncInv /\ [Next]_vars => SyncInv'
<1> SUFFICES ASSUME TypeOK, TypeOK', SyncInv, [Next]_vars, NEW r \in Run
             PROVE  SyncOf(r)'
  BY DEF SyncInv
<1>1. SyncOf(r)
  BY DEF SyncInv
<1> DEFINE Untouched == /\ pc'[r] = pc[r] /\ dir'[r] = dir[r] /\ page'[r] = page[r]
                        /\ cursor'[r] = cursor[r] /\ target'[r] = target[r]
<1>2. ASSUME NEW s \in Run, NEW d \in Direction, fetchAllPages(s, d), s # r
      PROVE  Untouched
  <2>1. pc' = pc /\ target' = target
    BY <1>2 DEF fetchAllPages, AcquirePage, AcquireCancelled, FetchPage, FetchFails,
                StoreTransfer, StoreFails, Storing, DirectionEnds
  <2>2. dir'[r] = dir[r]
    BY <1>2 DEF fetchAllPages, AcquirePage, AcquireCancelled, FetchPage, FetchFails,
                StoreTransfer, StoreFails, Storing, DirectionEnds, SetDir, TypeOK
  <2>3. page'[r] = page[r] /\ cursor'[r] = cursor[r]
    BY <1>2 DEF fetchAllPages, AcquirePage, AcquireCancelled, FetchPage, FetchFails,
                StoreTransfer, StoreFails, Storing, DirectionEnds, TypeOK
  <2> QED BY <2>1, <2>2, <2>3
<1>3. ASSUME NEW s \in Run, s # r,
             SyncRoutine(s) \/ SyncForce(s) \/ SyncForceSkips(s) \/ SyncEnds(s)
      PROVE  Untouched
  <2>1. CASE SyncRoutine(s) \/ SyncForce(s)
    BY <1>3, <2>1 DEF SyncRoutine, SyncForce, Start, TypeOK
  <2>2. CASE SyncForceSkips(s)
    BY <1>3, <2>2 DEF SyncForceSkips, fetching, TypeOK
  <2>3. CASE SyncEnds(s)
    BY <1>3, <2>3 DEF SyncEnds, TypeOK
  <2> QED BY <1>3, <2>1, <2>2, <2>3
<1>4. ASSUME NEW s \in Run, NEW t \in Transfer, Lookup(s, t)
      PROVE  Untouched
  BY <1>4 DEF Lookup, AcquireLookup, enrichGasFee, enrichGasFeeFails, fetching
<1>5. CASE Index \/ CooldownEnds \/ UNCHANGED vars
  BY <1>1, <1>5, OtherSync DEF Index, CooldownEnds, vars, fetching
<1> QED
  BY <1>1, <1>2, <1>3, <1>4, <1>5, OtherSync, DirectionStep, SyncStep DEF Next, Goroutines

(***************************************************************************)
(* A sync that returned without error is complete (fetchAllPages), with    *)
(* any number of pages, directions and overlapping syncs, and whatever is  *)
(* indexed meanwhile.                                                      *)
(***************************************************************************)
THEOREM SyncsAreComplete == Spec => []SyncIsComplete
<1>1. Init => SyncInv
  BY HistoryAssumption
  DEF Init, SyncInv, SyncOf, AtRest, PageInHand, CursorCovers, LastReached, Complete, Transfer
<1>2. SyncInv => SyncIsComplete
  BY DEF SyncInv, SyncOf, Complete, Saved, SyncIsComplete
<1> QED BY <1>1, <1>2, SyncKept, HistoryTypeCorrect, PTL DEF Spec

(***************************************************************************)
(* No sync takes back a gas fee (Storage.Upsert, UpdateGasFees), in any    *)
(* interleaving of stores and lookups.                                     *)
(***************************************************************************)
THEOREM FeesAreKept == Spec => FeeIsKept
<1>1. ASSUME TypeOK, [Next]_vars, NEW t \in Transfer, rows[t] = "fee"
      PROVE  rows'[t] = "fee"
  <2>1. ASSUME NEW r \in Run, NEW d \in Direction, NEW u \in Transfer,
               StoreTransfer(r, d, u) \/ StoreFails(r, d, u)
        PROVE  rows'[t] = "fee"
    BY <1>1, <2>1 DEF StoreTransfer, StoreFails, Upsert, TypeOK
  <2>2. ASSUME NEW r \in Run, NEW u \in Transfer, Lookup(r, u)
        PROVE  rows'[t] = "fee"
    BY <1>1, <2>2 DEF Lookup, AcquireLookup, enrichGasFee, enrichGasFeeFails, TypeOK
  <2>3. ASSUME NEW r \in Run, NEW d \in Direction,
               \/ AcquirePage(r, d) \/ AcquireCancelled(r, d) \/ FetchPage(r, d)
               \/ FetchFails(r, d) \/ DirectionEnds(r, d)
        PROVE  rows' = rows
    BY <2>3 DEF AcquirePage, AcquireCancelled, FetchPage, FetchFails, DirectionEnds
  <2>4. ASSUME NEW r \in Run,
               SyncEnds(r) \/ SyncRoutine(r) \/ SyncForce(r) \/ SyncForceSkips(r)
        PROVE  rows' = rows
    BY <2>4 DEF SyncEnds, SyncRoutine, SyncForce, SyncForceSkips, Start
  <2>5. ASSUME Index \/ CooldownEnds \/ UNCHANGED vars PROVE rows' = rows
    BY <2>5 DEF Index, CooldownEnds, vars
  <2> QED
    BY <1>1, <2>1, <2>2, <2>3, <2>4, <2>5 DEF Next, Goroutines, fetchAllPages
<1>2. TypeOK /\ [Next]_vars => [\A t \in Transfer : rows[t] = "fee" => rows'[t] = "fee"]_vars
  BY <1>1
<1> QED BY <1>2, HistoryTypeCorrect, PTL DEF Spec, FeeIsKept

-----------------------------------------------------------------------------
(* Sequences that are laid end to end. *)

(***************************************************************************)
(* q holds the elements of the first n sequences of s, each once: the x-th *)
(* of q is the at[x]-th of the from[x]-th sequence.                        *)
(***************************************************************************)
LaidOut(q, s, n, from, at) ==
  /\ from \in [1..Len(q) -> 1..n] /\ at \in [1..Len(q) -> Nat \ {0}]
  /\ \A x \in 1..Len(q) : at[x] <= Len(s[from[x]]) /\ q[x] = s[from[x]][at[x]]
  /\ \A x, y \in 1..Len(q) : from[x] = from[y] /\ at[x] = at[y] => x = y
  /\ \A i \in 1..n : \A k \in 1..Len(s[i]) : \E x \in 1..Len(q) : from[x] = i /\ at[x] = k

(***************************************************************************)
(* The next sequence goes behind the others.                               *)
(***************************************************************************)
LEMMA LaidOutNext ==
  ASSUME NEW E, NEW s \in Seq(Seq(E)), NEW n \in Nat, n + 1 <= Len(s), NEW q \in Seq(E),
         NEW from, NEW at, LaidOut(q, s, n, from, at)
  PROVE  \E f, g : LaidOut(q \o s[n + 1], s, n + 1, f, g)
<1> DEFINE r == q \o s[n + 1]
           a == Len(q)
           b == Len(s[n + 1])
           f == [x \in 1..(a + b) |-> IF x <= a THEN from[x] ELSE n + 1]
           g == [x \in 1..(a + b) |-> IF x <= a THEN at[x] ELSE x - a]
<1>0. n + 1 \in 1..Len(s) /\ s[n + 1] \in Seq(E) /\ a \in Nat /\ b \in Nat
  <2>1. n + 1 \in 1..Len(s)
    OBVIOUS
  <2>2. s[n + 1] \in Seq(E)
    BY <2>1, ElementOfSeq
  <2> QED BY <2>1, <2>2
<1>1. /\ Len(r) = a + b
      /\ \A x \in 1..a : r[x] = q[x]
      /\ \A x \in (a + 1)..(a + b) : r[x] = s[n + 1][x - a]
  <2>1. /\ Len(r) = a + b
        /\ \A x \in 1..(a + b) : r[x] = IF x <= a THEN q[x] ELSE s[n + 1][x - a]
    BY <1>0, ConcatProperties
  <2> HIDE DEF r, a, b
  <2> QED BY <1>0, <2>1
<1>2. /\ from \in [1..a -> 1..n] /\ at \in [1..a -> Nat \ {0}]
      /\ \A x \in 1..a : at[x] <= Len(s[from[x]]) /\ q[x] = s[from[x]][at[x]]
      /\ \A x, y \in 1..a : from[x] = from[y] /\ at[x] = at[y] => x = y
      /\ \A i \in 1..n : \A k \in 1..Len(s[i]) : \E x \in 1..a : from[x] = i /\ at[x] = k
  BY DEF LaidOut
<1> HIDE DEF r, a
<1>3. ASSUME NEW x \in 1..(a + b)
      PROVE  /\ x \in 1..a => f[x] = from[x] /\ g[x] = at[x]
             /\ x \notin 1..a => f[x] = n + 1 /\ g[x] = x - a /\ g[x] \in 1..b
  BY <1>0
<1>4. f \in [1..(a + b) -> 1..(n + 1)] /\ g \in [1..(a + b) -> Nat \ {0}]
  <2>1. ASSUME NEW x \in 1..(a + b)
        PROVE  /\ (IF x <= a THEN from[x] ELSE n + 1) \in 1..(n + 1)
               /\ (IF x <= a THEN at[x] ELSE x - a) \in Nat \ {0}
    <3>1. CASE x <= a
      <4>1. x \in 1..a /\ from[x] \in 1..n /\ at[x] \in Nat \ {0}
        BY <1>0, <1>2, <3>1
      <4> QED BY <3>1, <4>1
    <3>2. CASE ~(x <= a)
      BY <1>0, <3>2
    <3> QED BY <3>1, <3>2
  <2> QED BY <2>1
<1> HIDE DEF f, g, b
<1>5. ASSUME NEW x \in 1..(a + b)
      PROVE  g[x] <= Len(s[f[x]]) /\ r[x] = s[f[x]][g[x]]
  <2>1. CASE x \in 1..a
    BY <1>1, <1>2, <1>3, <2>1
  <2>2. CASE x \notin 1..a
    <3>1. x \in (a + 1)..(a + b)
      BY <1>0, <2>2
    <3>2. g[x] \in 1..b /\ f[x] = n + 1 /\ g[x] = x - a /\ r[x] = s[n + 1][x - a]
      BY <1>1, <1>3, <2>2, <3>1
    <3> QED BY <1>0, <3>2 DEF b
  <2> QED BY <2>1, <2>2
<1>6. ASSUME NEW x \in 1..(a + b), NEW y \in 1..(a + b), f[x] = f[y], g[x] = g[y]
      PROVE  x = y
  <2>1. CASE x \in 1..a /\ y \in 1..a
    <3>1. from[x] = from[y] /\ at[x] = at[y]
      BY <1>3, <1>6, <2>1
    <3> QED BY <1>2, <2>1, <3>1
  <2>2. CASE x \notin 1..a /\ y \notin 1..a
    <3>1. x - a = y - a
      BY <1>3, <1>6, <2>2
    <3> QED BY <1>0, <3>1
  <2>3. CASE x \in 1..a /\ y \notin 1..a
    <3>1. f[x] \in 1..n /\ f[y] = n + 1
      BY <1>2, <1>3, <2>3
    <3> QED BY <1>6, <3>1
  <2>4. CASE x \notin 1..a /\ y \in 1..a
    <3>1. f[y] \in 1..n /\ f[x] = n + 1
      BY <1>2, <1>3, <2>4
    <3> QED BY <1>6, <3>1
  <2> QED BY <2>1, <2>2, <2>3, <2>4
<1>7. ASSUME NEW i \in 1..(n + 1), NEW k \in 1..Len(s[i])
      PROVE  \E x \in 1..(a + b) : f[x] = i /\ g[x] = k
  <2>1. CASE i \in 1..n
    <3>1. PICK x \in 1..a : from[x] = i /\ at[x] = k
      BY <1>2, <2>1
    <3>2. x \in 1..(a + b)
      BY <1>0
    <3> QED BY <1>3, <3>1, <3>2
  <2>2. CASE i = n + 1
    <3>1. k \in 1..b
      BY <2>2 DEF b
    <3>2. a + k \in 1..(a + b) /\ a + k \notin 1..a /\ (a + k) - a = k
      BY <1>0, <3>1
    <3> QED BY <1>3, <2>2, <3>2
  <2> QED BY <2>1, <2>2
<1>8. LaidOut(r, s, n + 1, f, g)
  BY <1>1, <1>4, <1>5, <1>6, <1>7 DEF LaidOut
<1> QED BY <1>8 DEF r

(***************************************************************************)
(* The recursion of FlattenSeq has a solution, up to any of its sequences. *)
(***************************************************************************)
LEMMA FlattenExists ==
  ASSUME NEW s, NEW n \in Nat
  PROVE  \E F : F = [i \in 1..n |-> IF i = 1 THEN s[i] ELSE F[i - 1] \o s[i]]
<1> DEFINE Solves(F, m) == F = [i \in 1..m |-> IF i = 1 THEN s[i] ELSE F[i - 1] \o s[i]]
           bad == {m \in Nat : ~ \E F : Solves(F, m)}
<1>1. \E F : Solves(F, 0)
  <2> DEFINE F == [i \in 1..0 |-> s[i]]
  <2>1. F = [i \in 1..0 |-> IF i = 1 THEN s[i] ELSE F[i - 1] \o s[i]]
    OBVIOUS
  <2>2. Solves(F, 0)
    BY <2>1
  <2> HIDE DEF F, Solves
  <2> QED BY <2>2
<1>2. ASSUME NEW m \in Nat, NEW F, Solves(F, m)
      PROVE  \E G : Solves(G, m + 1)
  <2> DEFINE G == [i \in 1..(m + 1) |->
                     IF i = m + 1 THEN (IF i = 1 THEN s[i] ELSE F[m] \o s[i]) ELSE F[i]]
  <2>1. ASSUME NEW i \in 1..(m + 1)
        PROVE  G[i] = IF i = 1 THEN s[i] ELSE G[i - 1] \o s[i]
    <3>1. CASE i = m + 1
      <4>1. CASE i = 1
        BY <3>1, <4>1
      <4>2. CASE i # 1
        <5>1. i - 1 = m /\ m \in 1..(m + 1) /\ m # m + 1
          BY <3>1, <4>2
        <5>2. G[m] = F[m]
          BY <5>1
        <5> QED BY <3>1, <4>2, <5>1, <5>2
      <4> QED BY <4>1, <4>2
    <3>2. CASE i # m + 1
      <4>1. i \in 1..m /\ G[i] = F[i]
        BY <3>2
      <4>2. F[i] = IF i = 1 THEN s[i] ELSE F[i - 1] \o s[i]
        BY <1>2, <4>1
      <4>3. i # 1 => G[i - 1] = F[i - 1]
        BY <3>2
      <4> HIDE DEF G
      <4> QED BY <4>1, <4>2, <4>3
    <3> QED BY <3>1, <3>2
  <2>2. G = [i \in 1..(m + 1) |-> G[i]]
    OBVIOUS
  <2> HIDE DEF G
  <2>3. Solves(G, m + 1)
    BY <2>1, <2>2
  <2> HIDE DEF Solves
  <2> QED BY <2>3
<1> HIDE DEF Solves
<1>3. bad = {}
  <2> SUFFICES ASSUME bad # {} PROVE FALSE
    OBVIOUS
  <2>1. PICK m \in bad : \A k \in bad : m <= k
    <3>1. bad \in SUBSET Nat
      OBVIOUS
    <3> HIDE DEF bad
    <3> QED BY <3>1, LeastNatural
  <2>2. m # 0
    BY <1>1
  <2>3. m - 1 \in Nat /\ m - 1 \notin bad /\ (m - 1) + 1 = m
    BY <2>1, <2>2
  <2>4. PICK F : Solves(F, m - 1)
    BY <2>3
  <2>5. \E G : Solves(G, (m - 1) + 1)
    BY <1>2, <2>3, <2>4
  <2> QED BY <2>3, <2>5
<1> QED BY <1>3 DEF Solves

(***************************************************************************)
(* FlattenSeq lays the sequences end to end.                               *)
(***************************************************************************)
LEMMA FlattenLaysOut ==
  ASSUME NEW E, NEW s \in Seq(Seq(E))
  PROVE  /\ FlattenSeq(s) \in Seq(E)
         /\ \E from, at : LaidOut(FlattenSeq(s), s, Len(s), from, at)
<1> DEFINE n == Len(s)
<1>0. n \in Nat /\ \A i \in 1..n : s[i] \in Seq(E)
  BY ElementOfSeq
<1>1. CASE n = 0
  <2>1. FlattenSeq(s) = s
    BY <1>1 DEF FlattenSeq
  <2>2. s = <<>>
    BY <1>1, EmptySeq
  <2>3. <<>> \in Seq(E) /\ Len(<<>>) = 0
    OBVIOUS
  <2>4. LaidOut(<<>>, s, n, [x \in 1..0 |-> 1], [x \in 1..0 |-> 1])
    BY <1>1, <2>3 DEF LaidOut
  <2> QED BY <2>1, <2>2, <2>3, <2>4
<1>2. CASE n # 0
  <2> DEFINE F == CHOOSE f : f = [i \in 1..n |-> IF i = 1 THEN s[i] ELSE f[i - 1] \o s[i]]
  <2>1. F = [i \in 1..n |-> IF i = 1 THEN s[i] ELSE F[i - 1] \o s[i]]
    <3>1. \E f : f = [i \in 1..n |-> IF i = 1 THEN s[i] ELSE f[i - 1] \o s[i]]
      BY <1>0, FlattenExists
    <3> HIDE DEF n
    <3> QED BY <3>1
  <2>2. FlattenSeq(s) = F[n]
    BY <1>2 DEF FlattenSeq
  <2> HIDE DEF F
  <2> DEFINE Good(i) == F[i] \in Seq(E) /\ \E f, g : LaidOut(F[i], s, i, f, g)
             bad == {i \in 1..n : ~Good(i)}
  <2>3. Good(1)
    <3>1. 1 \in 1..n /\ F[1] = s[1] /\ s[1] \in Seq(E)
      BY <1>0, <1>2, <2>1
    <3> DEFINE f == [x \in 1..Len(s[1]) |-> 1]
               g == [x \in 1..Len(s[1]) |-> x]
    <3>2. LaidOut(s[1], s, 1, f, g)
      <4>1. Len(s[1]) \in Nat
        BY <3>1
      <4>2. f \in [1..Len(s[1]) -> 1..1] /\ g \in [1..Len(s[1]) -> Nat \ {0}]
        BY <4>1
      <4>3. \A x \in 1..Len(s[1]) : f[x] = 1 /\ g[x] = x /\ g[x] <= Len(s[1])
        BY <4>1
      <4> HIDE DEF f, g
      <4> QED BY <4>1, <4>2, <4>3 DEF LaidOut
    <3> HIDE DEF f, g
    <3> QED BY <3>1, <3>2
  <2>4. ASSUME NEW i \in 1..n, i + 1 <= n, Good(i) PROVE Good(i + 1)
    <3>1. i + 1 \in 1..n /\ i + 1 # 1 /\ (i + 1) - 1 = i
      BY <1>0, <2>4
    <3>2. F[i + 1] = F[i] \o s[i + 1]
      BY <2>1, <3>1
    <3>3. F[i + 1] \in Seq(E)
      BY <1>0, <2>4, <3>1, <3>2, ConcatProperties
    <3>4. PICK f, g : LaidOut(F[i], s, i, f, g)
      BY <2>4
    <3>5. \E h, k : LaidOut(F[i] \o s[i + 1], s, i + 1, h, k)
      <4>1. i \in Nat /\ F[i] \in Seq(E) /\ i + 1 <= Len(s)
        BY <2>4
      <4> HIDE DEF F
      <4> QED BY <3>4, <4>1, LaidOutNext
    <3> QED BY <3>2, <3>3, <3>5
  <2> HIDE DEF Good
  <2>5. bad = {}
    <3> SUFFICES ASSUME bad # {} PROVE FALSE
      OBVIOUS
    <3>1. bad \in SUBSET Nat
      OBVIOUS
    <3>2. PICK m \in bad : \A k \in bad : m <= k
      <4> HIDE DEF bad
      <4> QED BY <3>1, LeastNatural
    <3>3. m # 1
      BY <2>3
    <3>4. m - 1 \in 1..n /\ m - 1 \notin bad /\ (m - 1) + 1 = m /\ m <= n
      BY <1>0, <3>2, <3>3
    <3>5. Good((m - 1) + 1)
      BY <2>4, <3>4
    <3> QED BY <3>4, <3>5
  <2>6. Good(n)
    <3>1. n \in 1..n
      BY <1>0, <1>2
    <3> QED BY <2>5, <3>1
  <2> QED BY <2>2, <2>6 DEF Good
<1> QED BY <1>1, <1>2

-----------------------------------------------------------------------------
(* Merging the legs of a swap. *)

Distinct(u) == \A i, j \in 1..Len(u) : u[i] = u[j] => i = j

(***************************************************************************)
(* A group holds each leg of its transaction once.                         *)
(***************************************************************************)
LEMMA GroupFacts ==
  ASSUME NEW txs \in Seq(Legs), Distinct(txs), NEW h
  PROVE  /\ Group(txs, h) \in Seq(Legs) /\ Distinct(Group(txs, h))
         /\ \A k \in 1..Len(Group(txs, h)) :
              Group(txs, h)[k].hash = h /\ \E i \in 1..Len(txs) : Group(txs, h)[k] = txs[i]
         /\ \A i \in 1..Len(txs) : txs[i].hash = h =>
              \E k \in 1..Len(Group(txs, h)) : Group(txs, h)[k] = txs[i]
<1> DEFINE n == Len(txs)
           parts == [i \in 1..n |-> IF txs[i].hash = h THEN <<txs[i]>> ELSE <<>>]
           g == Group(txs, h)
<1>1. n \in Nat /\ \A i \in 1..n : txs[i] \in Legs
  BY ElementOfSeq
<1>2. \A i \in 1..n : (IF txs[i].hash = h THEN <<txs[i]>> ELSE <<>>) \in Seq(Legs)
  BY <1>1
<1>3. parts \in Seq(Seq(Legs)) /\ Len(parts) = n /\ g = FlattenSeq(parts)
  BY <1>1, <1>2 DEF Group
<1>4. \A i \in 1..n : \A k \in 1..Len(parts[i]) :
        k = 1 /\ txs[i].hash = h /\ parts[i][k] = txs[i]
  OBVIOUS
<1>5. \A i \in 1..n : txs[i].hash = h => 1 \in 1..Len(parts[i]) /\ parts[i][1] = txs[i]
  OBVIOUS
<1> HIDE DEF parts, g
<1>6. g \in Seq(Legs)
  BY <1>3, FlattenLaysOut
<1>7. PICK from, at : LaidOut(g, parts, n, from, at)
  BY <1>3, FlattenLaysOut
<1>8. ASSUME NEW k \in 1..Len(g)
      PROVE  from[k] \in 1..n /\ at[k] = 1 /\ txs[from[k]].hash = h /\ g[k] = txs[from[k]]
  <2>1. from[k] \in 1..n /\ at[k] \in Nat \ {0} /\ at[k] <= Len(parts[from[k]])
          /\ g[k] = parts[from[k]][at[k]]
    BY <1>7 DEF LaidOut
  <2>2. Len(parts[from[k]]) \in Nat
    <3>1. parts[from[k]] \in Seq(Legs)
      BY <1>3, <2>1, ElementOfSeq
    <3> QED BY <3>1
  <2>3. at[k] \in 1..Len(parts[from[k]])
    BY <2>1, <2>2
  <2> QED BY <1>4, <2>1, <2>3
<1>9. Distinct(g)
  <2> SUFFICES ASSUME NEW k \in 1..Len(g), NEW m \in 1..Len(g), g[k] = g[m] PROVE k = m
    BY DEF Distinct
  <2>1. from[k] = from[m] /\ at[k] = at[m]
    BY <1>8 DEF Distinct
  <2> QED BY <1>7, <2>1 DEF LaidOut
<1>10. ASSUME NEW i \in 1..n, txs[i].hash = h
       PROVE  \E k \in 1..Len(g) : g[k] = txs[i]
  <2>1. PICK k \in 1..Len(g) : from[k] = i /\ at[k] = 1
    BY <1>5, <1>7, <1>10 DEF LaidOut
  <2> QED BY <1>8, <2>1
<1> QED BY <1>6, <1>8, <1>9, <1>10 DEF g

(***************************************************************************)
(* The legs tryMergeSwap looks for.                                        *)
(***************************************************************************)
LEMMA SwapLegs ==
  ASSUME NEW g \in Seq(Legs)
  PROVE  /\ SentLeg(g) # 0 => SentLeg(g) \in 1..Len(g) /\ g[SentLeg(g)].from = Wallet
         /\ ReceivedLeg(g) # 0 => /\ ReceivedLeg(g) \in 1..Len(g)
                                  /\ g[ReceivedLeg(g)].to = Wallet
                                  /\ ReceivedLeg(g) # SentLeg(g)
<1>0. ASSUME NEW I \in SUBSET Nat, I # {} PROVE Min(I) \in I
  <2>1. PICK m \in I : \A k \in I : m <= k
    BY <1>0, LeastNatural
  <2> QED BY <2>1 DEF Min
<1>1. ASSUME SentLeg(g) # 0 PROVE SentLeg(g) \in 1..Len(g) /\ g[SentLeg(g)].from = Wallet
  <2> DEFINE I == {i \in 1..Len(g) : g[i].from = Wallet}
  <2>1. SentLeg(g) = IF I # {} THEN Min(I) ELSE 0
    BY DEF SentLeg, SelectInSeq
  <2>2. I \in SUBSET Nat
    OBVIOUS
  <2>3. SentLeg(g) \in I
    <3> HIDE DEF I
    <3> QED BY <1>0, <1>1, <2>1, <2>2
  <2> QED BY <2>3
<1>2. ASSUME ReceivedLeg(g) # 0
      PROVE  /\ ReceivedLeg(g) \in 1..Len(g) /\ g[ReceivedLeg(g)].to = Wallet
             /\ ReceivedLeg(g) # SentLeg(g)
  <2> DEFINE pairs == [i \in 1..Len(g) |-> <<i, g[i]>>]
             I == {i \in 1..Len(pairs) : pairs[i][2].to = Wallet /\ pairs[i][1] # SentLeg(g)}
  <2>1. ReceivedLeg(g) = IF I # {} THEN Min(I) ELSE 0
    BY DEF ReceivedLeg, SelectInSeq
  <2>2. Len(pairs) = Len(g) /\ Len(g) \in Nat
    OBVIOUS
  <2>3. I \in SUBSET Nat
    BY <2>2
  <2>4. ReceivedLeg(g) \in I
    <3> HIDE DEF I
    <3> QED BY <1>0, <1>2, <2>1, <2>3
  <2> QED BY <2>2, <2>4
<1> QED BY <1>1, <1>2

(***************************************************************************)
(* m shows each leg of u in exactly one entry and no other leg.            *)
(***************************************************************************)
ShowsOnce(m, u) ==
  /\ \A x \in 1..Len(m) : \A l \in LegsOf(m[x]) : \E i \in 1..Len(u) : u[i] = l
  /\ \A i \in 1..Len(u) : \E x \in 1..Len(m) : u[i] \in LegsOf(m[x])
  /\ \A x, y \in 1..Len(m) : \A l : l \in LegsOf(m[x]) /\ l \in LegsOf(m[y]) => x = y

(***************************************************************************)
(* A swap entry of m is made of the two legs of its transaction in u, one  *)
(* that leaves the wallet and one that arrives, in two assets.             *)
(***************************************************************************)
SwapsAreWhole(m, u) ==
  \A x \in 1..Len(m) : \A s \in m[x].sent :
    /\ s.from = Wallet /\ m[x].row.to = Wallet /\ s.asset # m[x].row.asset
    /\ \A i \in 1..Len(u) : u[i].hash = m[x].row.hash => u[i] \in {s, m[x].row}

\* The legs of an entry of m have one hash.
OneHash(m) == \A x \in 1..Len(m) : \A l \in LegsOf(m[x]) : l.hash = m[x].row.hash

(***************************************************************************)
(* A group becomes one entry for its two legs, or one for each.            *)
(***************************************************************************)
LEMMA SwapFacts ==
  ASSUME NEW g \in Seq(Legs), Distinct(g)
  PROVE  /\ tryMergeSwap(g) \in Seq(Entry)
         /\ ShowsOnce(tryMergeSwap(g), g) /\ SwapsAreWhole(tryMergeSwap(g), g)
<1> DEFINE s == SentLeg(g)
           r == ReceivedLeg(g)
           swap == Len(g) = 2 /\ s # 0 /\ r # 0 /\ g[s].asset # g[r].asset
           m == tryMergeSwap(g)
<1>0. Len(g) \in Nat /\ \A i \in 1..Len(g) : g[i] \in Legs
  BY ElementOfSeq
<1>1. CASE swap
  <2> DEFINE e == [row |-> g[r], sent |-> {g[s]}]
  <2>1. m = <<e>>
    BY <1>1 DEF tryMergeSwap
  <2>2. /\ s \in 1..Len(g) /\ r \in 1..Len(g) /\ r # s
        /\ g[s].from = Wallet /\ g[r].to = Wallet /\ g[s].asset # g[r].asset
    BY <1>1, SwapLegs
  <2>3. g[s] \in Legs /\ g[r] \in Legs
    BY <1>0, <2>2
  <2>4. e \in Entry
    BY <2>3 DEF Entry
  <2>5. \A i \in 1..Len(g) : i = s \/ i = r
    <3>1. Len(g) = 2
      BY <1>1
    <3> QED BY <2>2, <3>1
  <2>6. LegsOf(e) = {g[r], g[s]} /\ e.row = g[r] /\ e.sent = {g[s]}
    BY DEF LegsOf
  <2> HIDE DEF e, s, r
  <2>7. Len(m) = 1 /\ m[1] = e /\ m \in Seq(Entry) /\ \A x \in 1..Len(m) : x = 1
    BY <2>1, <2>4
  <2> HIDE DEF m
  <2>8. ShowsOnce(m, g)
    <3>1. \A x \in 1..Len(m) : LegsOf(m[x]) = {g[r], g[s]}
      BY <2>6, <2>7
    <3>2. \A i \in 1..Len(g) : g[i] \in {g[r], g[s]}
      BY <2>5
    <3>3. 1 \in 1..Len(m)
      BY <2>7
    <3> QED BY <2>2, <2>7, <3>1, <3>2, <3>3 DEF ShowsOnce
  <2>9. SwapsAreWhole(m, g)
    <3>1. ASSUME NEW x \in 1..Len(m), NEW q \in m[x].sent
          PROVE  m[x].row = g[r] /\ q = g[s]
      BY <2>6, <2>7
    <3>2. \A i \in 1..Len(g) : g[i] \in {g[r], g[s]}
      BY <2>5
    <3> QED BY <2>2, <3>1, <3>2 DEF SwapsAreWhole
  <2> QED BY <2>7, <2>8, <2>9 DEF m
<1>2. CASE ~swap
  <2>1. m = [i \in 1..Len(g) |-> Raw(g[i])]
    BY <1>2 DEF tryMergeSwap
  <2>2. \A i \in 1..Len(g) : Raw(g[i]) \in Entry
    BY <1>0 DEF Raw, Entry
  <2> HIDE DEF m
  <2>3. m \in Seq(Entry) /\ Len(m) = Len(g)
    BY <1>0, <2>1, <2>2
  <2>4. \A i \in 1..Len(g) : LegsOf(m[i]) = {g[i]} /\ m[i].sent = {}
    BY <2>1 DEF Raw, LegsOf
  <2>5. ShowsOnce(m, g)
    <3>1. ASSUME NEW x \in 1..Len(m), NEW l \in LegsOf(m[x]) PROVE x \in 1..Len(g) /\ g[x] = l
      BY <2>3, <2>4
    <3>2. ASSUME NEW i \in 1..Len(g) PROVE i \in 1..Len(m) /\ g[i] \in LegsOf(m[i])
      BY <2>3, <2>4
    <3>3. ASSUME NEW x \in 1..Len(m), NEW y \in 1..Len(m), NEW l,
                 l \in LegsOf(m[x]), l \in LegsOf(m[y])
          PROVE  x = y
      BY <3>1, <3>3 DEF Distinct
    <3> QED BY <3>1, <3>2, <3>3 DEF ShowsOnce
  <2>6. SwapsAreWhole(m, g)
    BY <2>3, <2>4 DEF SwapsAreWhole
  <2> QED BY <2>3, <2>5, <2>6 DEF m
<1> QED BY <1>1, <1>2

(***************************************************************************)
(* mergeSwapLegs shows each row of a page in exactly one entry, and merges *)
(* nothing but the two legs of a swap, wherever on the page they are.      *)
(***************************************************************************)
LEMMA MergeFacts ==
  ASSUME NEW txs \in Seq(Legs), Distinct(txs)
  PROVE  /\ mergeSwapLegs(txs) \in Seq(Entry)
         /\ ShowsOnce(mergeSwapLegs(txs), txs) /\ SwapsAreWhole(mergeSwapLegs(txs), txs)
         /\ OneHash(mergeSwapLegs(txs))
<1> DEFINE n == Len(txs)
           Again(i) == \E j \in 1..(i - 1) : txs[j].hash = txs[i].hash
           group(i) == Group(txs, txs[i].hash)
           parts == [i \in 1..n |-> IF Again(i) THEN <<>> ELSE tryMergeSwap(group(i))]
           m == mergeSwapLegs(txs)
<1>0. n \in Nat /\ \A i \in 1..n : txs[i] \in Legs
  BY ElementOfSeq
<1>1. ASSUME NEW i \in 1..n
      PROVE  /\ tryMergeSwap(group(i)) \in Seq(Entry)
             /\ ShowsOnce(tryMergeSwap(group(i)), group(i))
             /\ SwapsAreWhole(tryMergeSwap(group(i)), group(i))
  <2>1. group(i) \in Seq(Legs) /\ Distinct(group(i))
    BY GroupFacts
  <2> HIDE DEF group
  <2> QED BY <2>1, SwapFacts
<1>2. \A i \in 1..n : (IF Again(i) THEN <<>> ELSE tryMergeSwap(group(i))) \in Seq(Entry)
  <2> SUFFICES ASSUME NEW i \in 1..n
               PROVE  (IF Again(i) THEN <<>> ELSE tryMergeSwap(group(i))) \in Seq(Entry)
    OBVIOUS
  <2> HIDE DEF group, Again
  <2>1. tryMergeSwap(group(i)) \in Seq(Entry) /\ <<>> \in Seq(Entry)
    BY <1>1
  <2> QED BY <2>1
<1>3. parts \in Seq(Seq(Entry)) /\ Len(parts) = n
  <2> HIDE DEF group, Again
  <2> QED BY <1>0, <1>2
<1>4. m = FlattenSeq(parts)
  BY DEF mergeSwapLegs
<1> HIDE DEF m
<1>5. ASSUME NEW i \in 1..n, NEW k \in 1..Len(parts[i])
      PROVE  ~Again(i) /\ parts[i] = tryMergeSwap(group(i))
  <2> HIDE DEF group, Again
  <2>1. CASE Again(i)
    <3>1. parts[i] = <<>>
      BY <2>1
    <3>2. Len(parts[i]) = 0
      BY <3>1
    <3> HIDE DEF parts
    <3> QED BY <3>2
  <2>2. CASE ~Again(i)
    BY <2>2
  <2> QED BY <2>1, <2>2
<1>6. ASSUME NEW i \in 1..n, ~Again(i)
      PROVE  parts[i] = tryMergeSwap(group(i))
  <2> HIDE DEF group, Again
  <2> QED BY <1>6
<1> HIDE DEF parts
<1>7. m \in Seq(Entry)
  BY <1>3, <1>4, FlattenLaysOut
<1>8. PICK from, at : LaidOut(m, parts, n, from, at)
  BY <1>3, <1>4, FlattenLaysOut
<1>9. ASSUME NEW x \in 1..Len(m)
      PROVE  /\ from[x] \in 1..n /\ ~Again(from[x])
             /\ at[x] \in 1..Len(tryMergeSwap(group(from[x])))
             /\ m[x] = tryMergeSwap(group(from[x]))[at[x]]
  <2>1. from[x] \in 1..n /\ at[x] \in Nat \ {0} /\ at[x] <= Len(parts[from[x]])
          /\ m[x] = parts[from[x]][at[x]]
    BY <1>8 DEF LaidOut
  <2>2. at[x] \in 1..Len(parts[from[x]])
    <3>1. parts[from[x]] \in Seq(Entry)
      BY <1>3, <2>1, ElementOfSeq
    <3>2. Len(parts[from[x]]) \in Nat
      BY <3>1
    <3> QED BY <2>1, <3>2
  <2>3. ~Again(from[x]) /\ parts[from[x]] = tryMergeSwap(group(from[x]))
    BY <1>5, <2>1, <2>2
  <2> HIDE DEF group, Again
  <2> QED BY <2>1, <2>2, <2>3
<1>10. ASSUME NEW x \in 1..Len(m), NEW l \in LegsOf(m[x])
       PROVE  l.hash = txs[from[x]].hash /\ \E i \in 1..n : txs[i] = l
  <2>1. from[x] \in 1..n
    BY <1>9
  <2>2. PICK k \in 1..Len(group(from[x])) : group(from[x])[k] = l
    <3> HIDE DEF group, Again
    <3>1. ShowsOnce(tryMergeSwap(group(from[x])), group(from[x]))
      BY <1>1, <2>1
    <3>2. /\ at[x] \in 1..Len(tryMergeSwap(group(from[x])))
          /\ l \in LegsOf(tryMergeSwap(group(from[x]))[at[x]])
      BY <1>9, <1>10
    <3> QED BY <3>1, <3>2 DEF ShowsOnce
  <2>3. /\ group(from[x])[k].hash = txs[from[x]].hash
        /\ \E i \in 1..n : group(from[x])[k] = txs[i]
    BY <2>2, GroupFacts
  <2> HIDE DEF group, Again
  <2> QED BY <2>2, <2>3
<1>11. ASSUME NEW i \in 1..n
       PROVE  \E x \in 1..Len(m) : txs[i] \in LegsOf(m[x])
  <2>1. PICK f \in 1..n : txs[f].hash = txs[i].hash /\ ~Again(f)
    <3> DEFINE S == {j \in 1..n : txs[j].hash = txs[i].hash}
    <3>1. S \in SUBSET Nat /\ i \in S
      OBVIOUS
    <3>2. PICK f \in S : \A j \in S : f <= j
      <4> HIDE DEF S
      <4> QED BY <3>1, LeastNatural
    <3>3. ~Again(f)
      <4> SUFFICES ASSUME NEW j \in 1..(f - 1), txs[j].hash = txs[f].hash PROVE FALSE
        OBVIOUS
      <4>1. j \in S /\ j < f
        BY <1>0, <3>2
      <4> QED BY <3>2, <4>1
    <3> QED BY <3>2, <3>3
  <2>2. PICK k \in 1..Len(group(f)) : group(f)[k] = txs[i]
    BY <2>1, GroupFacts
  <2>3. PICK a \in 1..Len(tryMergeSwap(group(f))) : txs[i] \in LegsOf(tryMergeSwap(group(f))[a])
    <3> HIDE DEF group, Again
    <3> QED BY <1>1, <2>2 DEF ShowsOnce
  <2>4. parts[f] = tryMergeSwap(group(f))
    BY <1>6, <2>1
  <2> HIDE DEF group, Again
  <2>5. PICK x \in 1..Len(m) : from[x] = f /\ at[x] = a
    BY <1>8, <2>3, <2>4 DEF LaidOut
  <2>6. m[x] = tryMergeSwap(group(f))[a]
    BY <1>9, <2>5
  <2> QED BY <2>3, <2>6
<1>12. ASSUME NEW x \in 1..Len(m), NEW y \in 1..Len(m), NEW l,
              l \in LegsOf(m[x]), l \in LegsOf(m[y])
       PROVE  x = y
  <2>1. from[x] = from[y]
    <3>1. txs[from[x]].hash = txs[from[y]].hash /\ from[x] \in 1..n /\ from[y] \in 1..n
      <4>1. l.hash = txs[from[x]].hash
        BY <1>10, <1>12
      <4>2. l.hash = txs[from[y]].hash
        BY <1>10, <1>12
      <4> QED BY <1>9, <4>1, <4>2
    <3>2. ~Again(from[x]) /\ ~Again(from[y])
      BY <1>9
    <3>3. ~(from[x] < from[y])
      <4> SUFFICES ASSUME from[x] < from[y] PROVE FALSE
        OBVIOUS
      <4>1. from[x] \in 1..(from[y] - 1)
        BY <3>1
      <4> QED BY <3>1, <3>2, <4>1
    <3>4. ~(from[y] < from[x])
      <4> SUFFICES ASSUME from[y] < from[x] PROVE FALSE
        OBVIOUS
      <4>1. from[y] \in 1..(from[x] - 1)
        BY <3>1
      <4> QED BY <3>1, <3>2, <4>1
    <3> QED BY <3>1, <3>3, <3>4
  <2>2. at[x] = at[y]
    <3> HIDE DEF group, Again
    <3>1. ShowsOnce(tryMergeSwap(group(from[x])), group(from[x]))
      BY <1>1, <1>9
    <3>2. /\ at[x] \in 1..Len(tryMergeSwap(group(from[x])))
          /\ at[y] \in 1..Len(tryMergeSwap(group(from[x])))
          /\ l \in LegsOf(tryMergeSwap(group(from[x]))[at[x]])
          /\ l \in LegsOf(tryMergeSwap(group(from[x]))[at[y]])
      BY <1>9, <1>12, <2>1
    <3> QED BY <3>1, <3>2 DEF ShowsOnce
  <2> QED BY <1>8, <2>1, <2>2 DEF LaidOut
<1>13. SwapsAreWhole(m, txs)
  <2> SUFFICES ASSUME NEW x \in 1..Len(m), NEW s \in m[x].sent
               PROVE  /\ s.from = Wallet /\ m[x].row.to = Wallet /\ s.asset # m[x].row.asset
                      /\ \A i \in 1..n : txs[i].hash = m[x].row.hash => txs[i] \in {s, m[x].row}
    BY DEF SwapsAreWhole
  <2>1. from[x] \in 1..n
    BY <1>9
  <2>2. /\ s.from = Wallet /\ m[x].row.to = Wallet /\ s.asset # m[x].row.asset
        /\ \A k \in 1..Len(group(from[x])) :
             group(from[x])[k].hash = m[x].row.hash => group(from[x])[k] \in {s, m[x].row}
    <3> HIDE DEF group, Again
    <3>1. SwapsAreWhole(tryMergeSwap(group(from[x])), group(from[x]))
      BY <1>1, <2>1
    <3>2. /\ at[x] \in 1..Len(tryMergeSwap(group(from[x])))
          /\ m[x] = tryMergeSwap(group(from[x]))[at[x]]
      BY <1>9
    <3> HIDE DEF m
    <3>3. s \in tryMergeSwap(group(from[x]))[at[x]].sent
      BY <3>2
    <3>4. \A e : e = m[x] => e.row = m[x].row
      OBVIOUS
    <3> QED BY <3>1, <3>2, <3>3, <3>4, SMTT(30) DEF SwapsAreWhole
  <2>3. m[x].row.hash = txs[from[x]].hash
    <3>1. m[x].row \in LegsOf(m[x])
      BY DEF LegsOf
    <3> QED BY <1>10, <3>1
  <2>4. ASSUME NEW i \in 1..n, txs[i].hash = m[x].row.hash PROVE txs[i] \in {s, m[x].row}
    <3>1. txs[i].hash = txs[from[x]].hash
      BY <2>3, <2>4
    <3>2. PICK k \in 1..Len(group(from[x])) : group(from[x])[k] = txs[i]
      <4> HIDE DEF m
      <4> QED BY <3>1, GroupFacts
    <3> HIDE DEF group
    <3> QED BY <2>2, <2>4, <3>2
  <2> QED BY <2>2, <2>4
<1>14. ShowsOnce(m, txs)
  BY <1>10, <1>11, <1>12 DEF ShowsOnce
<1>15. OneHash(m)
  <2>1. ASSUME NEW x \in 1..Len(m), NEW l \in LegsOf(m[x]) PROVE l.hash = m[x].row.hash
    <3>1. m[x].row \in LegsOf(m[x])
      BY DEF LegsOf
    <3>2. m[x].row.hash = txs[from[x]].hash
      BY <1>10, <3>1
    <3>3. l.hash = txs[from[x]].hash
      BY <1>10
    <3> QED BY <3>2, <3>3
  <2> QED BY <2>1 DEF OneHash
<1> QED BY <1>7, <1>13, <1>14, <1>15 DEF m

-----------------------------------------------------------------------------
(* The order of the rows. *)

(***************************************************************************)
(* ORDER BY timestamp DESC, unique_id ASC is a total order, as the ids are *)
(* unique: a rank belongs to one row.                                      *)
(***************************************************************************)
LEMMA RankFacts ==
  ASSUME table \subseteq Legs
  PROVE  /\ IsFiniteSet(Rows) /\ Cardinality(Rows) \in Nat /\ Rows \subseteq Legs
         /\ \A l \in Rows : Rank(l) \in 0..(Cardinality(Rows) - 1)
         /\ \A l, m \in Rows : Rank(l) = Rank(m) => l = m
<1> DEFINE Ahead(l) == {m \in Rows : Before(m, l)}
<1>1. Rows \subseteq Legs
  BY DEF Rows
<1>2. IsFiniteSet(Rows) /\ Cardinality(Rows) \in Nat
  BY <1>1, PagesAssumption, FS_Subset, FS_CardinalityType
<1>3. \A l \in Legs : l.uid \in Nat /\ l.time \in Nat
  BY PagesAssumption
<1>4. ASSUME NEW l \in Rows
      PROVE  Rank(l) \in 0..(Cardinality(Rows) - 1) /\ IsFiniteSet(Ahead(l))
  <2>1. l \notin Ahead(l)
    BY <1>1, <1>3 DEF Before
  <2>2. Ahead(l) \in SUBSET (Rows \ {l}) /\ Ahead(l) \in SUBSET Rows
    BY <2>1
  <2>3. IsFiniteSet(Rows \ {l}) /\ Cardinality(Rows \ {l}) = Cardinality(Rows) - 1
    BY <1>2, FS_RemoveElement
  <2>4. IsFiniteSet(Ahead(l)) /\ Cardinality(Ahead(l)) <= Cardinality(Rows \ {l})
          /\ Cardinality(Ahead(l)) \in Nat
    <3> HIDE DEF Ahead
    <3> QED BY <2>2, <2>3, FS_Subset, FS_CardinalityType
  <2>5. Rank(l) = Cardinality(Ahead(l))
    BY DEF Rank
  <2> HIDE DEF Ahead
  <2> QED BY <1>2, <2>3, <2>4, <2>5
<1>5. ASSUME NEW l \in Rows, NEW m \in Rows, Before(l, m) PROVE Rank(l) < Rank(m)
  <2>1. Ahead(l) \in SUBSET Ahead(m)
    <3> SUFFICES ASSUME NEW k \in Rows, Before(k, l) PROVE Before(k, m)
      OBVIOUS
    <3> QED BY <1>1, <1>3, <1>5 DEF Before
  <2>2. l \in Ahead(m) /\ l \notin Ahead(l)
    BY <1>1, <1>3, <1>5 DEF Before
  <2>3. Rank(l) = Cardinality(Ahead(l)) /\ Rank(m) = Cardinality(Ahead(m))
    BY DEF Rank
  <2>4. IsFiniteSet(Ahead(m))
    BY <1>4
  <2> HIDE DEF Ahead
  <2>5. Cardinality(Ahead(l)) <= Cardinality(Ahead(m))
          /\ Cardinality(Ahead(l)) # Cardinality(Ahead(m))
    BY <2>1, <2>2, <2>4, FS_Subset
  <2>6. Rank(l) \in Nat /\ Rank(m) \in Nat
    BY <1>2, <1>4
  <2> QED BY <2>3, <2>5, <2>6
<1>6. ASSUME NEW l \in Rows, NEW m \in Rows, Rank(l) = Rank(m) PROVE l = m
  <2>1. ~Before(l, m) /\ ~Before(m, l)
    <3>1. ASSUME Before(l, m) PROVE FALSE
      <4>1. Rank(l) < Rank(m) /\ Rank(m) \in 0..(Cardinality(Rows) - 1)
        BY <1>4, <1>5, <3>1
      <4> QED BY <1>2, <1>6, <4>1
    <3>2. ASSUME Before(m, l) PROVE FALSE
      <4>1. Rank(m) < Rank(l) /\ Rank(m) \in 0..(Cardinality(Rows) - 1)
        BY <1>4, <1>5, <3>2
      <4> QED BY <1>2, <1>6, <4>1
    <3> QED BY <3>1, <3>2
  <2>2. l.uid = m.uid
    <3>1. l.uid \in Nat /\ l.time \in Nat /\ m.uid \in Nat /\ m.time \in Nat
      BY <1>1, <1>3
    <3> QED BY <2>1, <3>1 DEF Before
  <2> QED BY <1>1, <2>2, PagesAssumption
<1> QED BY <1>1, <1>2, <1>4, <1>6

(***************************************************************************)
(* So the rows can be listed: the i-th row is the one of rank i - 1.       *)
(***************************************************************************)
LEMMA SortedFacts ==
  ASSUME table \subseteq Legs
  PROVE  /\ Len(Sorted) = Cardinality(Rows)
         /\ \A i \in 1..Cardinality(Rows) : Sorted[i] \in Rows /\ Rank(Sorted[i]) = i - 1
<1> DEFINE n == Cardinality(Rows)
           f == [l \in Rows |-> Rank(l)]
<1>1. /\ IsFiniteSet(Rows) /\ n \in Nat
      /\ \A l \in Rows : Rank(l) \in 0..(n - 1)
      /\ \A l, m \in Rows : Rank(l) = Rank(m) => l = m
  BY RankFacts
<1> HIDE DEF n
<1>2. f \in Injection(Rows, 0..(n - 1))
  BY <1>1 DEF Injection, IsInjective
<1>3. f \in Surjection(Rows, 0..(n - 1))
  <2>1. IsFiniteSet(0..(n - 1)) /\ Cardinality(0..(n - 1)) = n
    BY <1>1, FS_Interval
  <2> HIDE DEF f
  <2> QED BY <1>2, <2>1, FS_Injection DEF n
<1>4. ASSUME NEW i \in 1..n PROVE \E l \in Rows : Rank(l) = i - 1
  <2>1. i - 1 \in 0..(n - 1)
    BY <1>1
  <2> QED BY <1>3, <2>1 DEF Surjection
<1>5. ASSUME NEW i \in 1..n PROVE Sorted[i] \in Rows /\ Rank(Sorted[i]) = i - 1
  <2>1. Sorted[i] = CHOOSE l \in Rows : Rank(l) = i - 1
    BY DEF Sorted, n
  <2> QED BY <1>4, <2>1
<1>6. Len(Sorted) = n
  BY <1>1 DEF Sorted, n
<1> QED BY <1>5, <1>6 DEF n

(***************************************************************************)
(* LIMIT and OFFSET cut the rows of consecutive ranks out of the list, and *)
(* a page that is not full is the last.                                    *)
(***************************************************************************)
LEMMA PageFacts ==
  ASSUME table \subseteq Legs, NEW n \in Nat \ {0}, NEW off \in Nat
  PROVE  LET p == ListByAddress(n, off)
         IN  /\ p \in Seq(Legs) /\ Distinct(p) /\ Len(p) <= n
             /\ \A i \in 1..Len(p) : p[i] \in Rows /\ Rank(p[i]) \in off..(off + n - 1)
             /\ \A l \in Rows : Rank(l) \in off..(off + n - 1) =>
                  \E i \in 1..Len(p) : p[i] = l
             /\ Len(p) # n => \A l \in Rows : Rank(l) < off + n
<1> DEFINE N0 == Cardinality(Rows)
           last == IF off + n < N0 THEN off + n ELSE N0
           p == ListByAddress(n, off)
<1>1. /\ N0 \in Nat /\ Rows \subseteq Legs
      /\ \A l \in Rows : Rank(l) \in 0..(N0 - 1)
      /\ \A l, m \in Rows : Rank(l) = Rank(m) => l = m
      /\ Len(Sorted) = N0
      /\ \A i \in 1..N0 : Sorted[i] \in Rows /\ Rank(Sorted[i]) = i - 1
  BY RankFacts, SortedFacts
<1> HIDE DEF N0
<1>2. last \in Nat /\ last <= N0 /\ last <= off + n /\ (last = off + n \/ last = N0)
  BY <1>1
<1>3. p = SubSeq(Sorted, off + 1, last)
  BY <1>1 DEF ListByAddress
<1> HIDE DEF p, last
<1>4. \A i \in (off + 1)..last : Sorted[i] \in Legs
  <2>1. \A i \in (off + 1)..last : i \in 1..N0
    BY <1>1, <1>2
  <2> QED BY <1>1, <2>1
<1>5. /\ p \in Seq(Legs)
      /\ Len(p) = IF off + 1 <= last THEN last - (off + 1) + 1 ELSE 0
      /\ \A i \in 1..(last - (off + 1) + 1) : p[i] = Sorted[(off + 1) + i - 1]
  <2>1. off + 1 \in Int /\ last \in Int
    BY <1>2
  <2> QED BY <1>3, <1>4, <2>1, SubSeqProperties
<1>6. ASSUME NEW i \in 1..Len(p)
      PROVE  p[i] = Sorted[off + i] /\ off + i \in 1..N0 /\ i <= n
             /\ p[i] \in Rows /\ Rank(p[i]) = off + i - 1
  <2>1. off + 1 <= last /\ i \in 1..(last - (off + 1) + 1) /\ (off + 1) + i - 1 = off + i
    BY <1>2, <1>5
  <2>2. p[i] = Sorted[off + i]
    BY <1>5, <2>1
  <2>3. off + i \in 1..N0 /\ i <= n
    BY <1>1, <1>2, <2>1
  <2> QED BY <1>1, <2>2, <2>3
<1>7. Len(p) <= n /\ Len(p) \in Nat
  BY <1>2, <1>5
<1>8. Distinct(p)
  <2> SUFFICES ASSUME NEW i \in 1..Len(p), NEW j \in 1..Len(p), p[i] = p[j] PROVE i = j
    BY DEF Distinct
  <2>1. off + i - 1 = off + j - 1
    BY <1>6
  <2> QED BY <1>7, <2>1
<1>9. ASSUME NEW l \in Rows, Rank(l) \in off..(off + n - 1)
      PROVE  \E i \in 1..Len(p) : p[i] = l
  <2> DEFINE i == Rank(l) - off + 1
  <2>1. Rank(l) \in 0..(N0 - 1)
    BY <1>1
  <2>2. i \in 1..Len(p) /\ off + i - 1 = Rank(l)
    <3>1. Rank(l) \in Nat /\ off <= Rank(l) /\ Rank(l) < last
      BY <1>1, <1>2, <1>9, <2>1
    <3>2. off + 1 <= last /\ Len(p) = last - off
      BY <1>2, <1>5, <3>1
    <3> QED BY <1>2, <3>1, <3>2
  <2> HIDE DEF i
  <2>3. p[i] \in Rows /\ Rank(p[i]) = Rank(l)
    BY <1>6, <2>2
  <2> QED BY <1>1, <2>2, <2>3
<1>10. ASSUME Len(p) # n, NEW l \in Rows PROVE Rank(l) < off + n
  <2>1. Rank(l) \in 0..(N0 - 1)
    BY <1>1
  <2>2. CASE last = off + n
    BY <1>2, <1>5, <1>10, <2>2
  <2>3. CASE last = N0
    BY <1>1, <1>2, <2>1, <2>3
  <2> QED BY <1>2, <2>2, <2>3
<1>11. \A i \in 1..Len(p) : p[i] \in Rows /\ Rank(p[i]) \in off..(off + n - 1)
  <2> SUFFICES ASSUME NEW i \in 1..Len(p)
               PROVE  p[i] \in Rows /\ Rank(p[i]) \in off..(off + n - 1)
    OBVIOUS
  <2>1. i \in Nat /\ i >= 1 /\ i <= n /\ p[i] \in Rows /\ Rank(p[i]) = off + i - 1
    BY <1>6, <1>7
  <2> QED BY <2>1
<1> QED BY <1>5, <1>7, <1>8, <1>9, <1>10, <1>11 DEF p

-----------------------------------------------------------------------------
(* A scroll. *)

(***************************************************************************)
(* The rows the scroll began with are still there; those the cursor has    *)
(* passed are on the screen, for rows stored since can only push them      *)
(* down, over the cursor at most; and if nothing of the wallet was stored, *)
(* the screen shows what the cursor has passed, each row once.  A page     *)
(* that was not full left none of them behind.                             *)
(***************************************************************************)
ScrollShows ==
  reader \in {"scrolling", "counting", "done"} =>
    /\ \A l \in started : Rank(l) < offset => Shown(l) > 0
    /\ started = Rows => \A l \in Rows : Shown(l) = IF Rank(l) < offset THEN 1 ELSE 0
    /\ reader = "done" \/ (reader = "counting" /\ ~HasMore) =>
         \A l \in started : Shown(l) > 0

ScrollInv == started \subseteq Rows /\ Distinct(lastPage) /\ ScrollShows

\* The entries of m that show l.
ShownAt(m, l) == {i \in 1..Len(m) : l \in LegsOf(m[i])}

(***************************************************************************)
(* Entries that are appended show what they show.                          *)
(***************************************************************************)
LEMMA ShownAppended ==
  ASSUME NEW m \in Seq(Entry), NEW k \in Seq(Entry), NEW l
  PROVE  /\ Cardinality(ShownAt(m \o k, l))
              = Cardinality(ShownAt(m, l)) + Cardinality(ShownAt(k, l))
         /\ Cardinality(ShownAt(m, l)) \in Nat /\ Cardinality(ShownAt(k, l)) \in Nat
<1> DEFINE a == Len(m)
           b == Len(k)
           r == m \o k
           old == ShownAt(m, l)
           new == ShownAt(k, l)
           moved == {i \in ShownAt(r, l) : i > a}
<1>1. /\ a \in Nat /\ b \in Nat /\ Len(r) = a + b
      /\ \A x \in 1..(a + b) : r[x] = IF x <= a THEN m[x] ELSE k[x - a]
  BY ConcatProperties
<1> HIDE DEF a, b, r
<1>2. IsFiniteSet(old) /\ IsFiniteSet(new) /\ Cardinality(old) \in Nat /\ Cardinality(new) \in Nat
  <2>1. old \in SUBSET (1..a) /\ new \in SUBSET (1..b)
    BY DEF ShownAt, a, b
  <2>2. 1 \in Int /\ a \in Int /\ b \in Int
    BY <1>1
  <2>3. IsFiniteSet(1..a) /\ IsFiniteSet(1..b)
    BY <2>2, FS_Interval
  <2> HIDE DEF old, new
  <2> QED BY <2>1, <2>3, FS_Subset, FS_CardinalityType
<1>3. ASSUME NEW i \in 1..a PROVE i \in ShownAt(r, l) <=> i \in old
  <2>1. i \in 1..(a + b) /\ i <= a
    BY <1>1
  <2> QED BY <1>1, <2>1 DEF ShownAt, a
<1>4. ASSUME NEW i \in 1..b PROVE i \in new <=> i + a \in moved
  <2>1. i + a \in 1..(a + b) /\ ~(i + a <= a) /\ (i + a) - a = i /\ i + a > a
    BY <1>1
  <2>2. r[i + a] = k[i]
    BY <1>1, <2>1
  <2> QED BY <1>1, <2>1, <2>2 DEF ShownAt, b
<1>5. old \subseteq 1..a /\ new \subseteq 1..b /\ ShownAt(r, l) \subseteq 1..(a + b)
  BY <1>1 DEF ShownAt, a, b
<1>6. ShownAt(r, l) = old \cup moved /\ old \cap moved = {}
  <2>1. ASSUME NEW i \in ShownAt(r, l) PROVE i \in old \cup moved
    <3>1. i \in 1..a \/ i > a
      BY <1>1, <1>5
    <3> HIDE DEF old
    <3> QED BY <1>3, <3>1
  <2>2. old \subseteq ShownAt(r, l)
    BY <1>3, <1>5
  <2>3. old \cap moved = {}
    BY <1>1, <1>5
  <2> QED BY <2>1, <2>2, <2>3
<1>7. Cardinality(moved) = Cardinality(new) /\ IsFiniteSet(moved)
  <2> DEFINE f == [i \in new |-> i + a]
  <2> HIDE DEF new
  <2>1. \A i \in new : i + a \in moved /\ i \in Nat
    BY <1>4, <1>5
  <2>2. \A j \in moved : j - a \in new /\ (j - a) + a = j
    <3> SUFFICES ASSUME NEW j \in moved PROVE j - a \in new /\ (j - a) + a = j
      OBVIOUS
    <3>1. j - a \in 1..b /\ (j - a) + a = j
      BY <1>1, <1>5
    <3> QED BY <1>4, <3>1
  <2> HIDE DEF moved
  <2>3. f \in Injection(new, moved)
    BY <1>1, <2>1 DEF Injection, IsInjective
  <2>4. f \in Surjection(new, moved)
    BY <2>1, <2>2 DEF Surjection
  <2>5. ExistsBijection(new, moved)
    BY <2>3, <2>4 DEF ExistsBijection, Bijection
  <2> QED BY <1>2, <2>5, FS_Bijection
<1>8. Cardinality(ShownAt(r, l)) = Cardinality(old) + Cardinality(new)
  <2> HIDE DEF old, new, moved
  <2>1. Cardinality(old \cup moved)
          = Cardinality(old) + Cardinality(moved) - Cardinality(old \cap moved)
    BY <1>2, <1>7, FS_Union
  <2>2. Cardinality(old \cap moved) = 0
    BY <1>6, FS_EmptySet
  <2> QED BY <1>2, <1>6, <1>7, <2>1, <2>2
<1> QED BY <1>2, <1>8 DEF r

(***************************************************************************)
(* Merged legs are each shown once, the rest not at all, and there are no  *)
(* more entries than legs.                                                 *)
(***************************************************************************)
LEMMA ShownMerged ==
  ASSUME NEW u \in Seq(Legs), NEW m \in Seq(Entry), ShowsOnce(m, u)
  PROVE  /\ \A i \in 1..Len(u) : Cardinality(ShownAt(m, u[i])) = 1
         /\ \A l : (\A i \in 1..Len(u) : u[i] # l) => Cardinality(ShownAt(m, l)) = 0
         /\ Len(m) \in 0..Cardinality(Legs)
<1>1. ASSUME NEW i \in 1..Len(u) PROVE Cardinality(ShownAt(m, u[i])) = 1
  <2>1. PICK x \in 1..Len(m) : u[i] \in LegsOf(m[x])
    BY DEF ShowsOnce
  <2>2. x \in ShownAt(m, u[i])
    BY <2>1 DEF ShownAt
  <2>3. ASSUME NEW y \in ShownAt(m, u[i]) PROVE y = x
    <3>1. y \in 1..Len(m) /\ u[i] \in LegsOf(m[y])
      BY <2>3 DEF ShownAt
    <3> QED BY <2>1, <3>1 DEF ShowsOnce
  <2>4. ShownAt(m, u[i]) = {x}
    BY <2>2, <2>3
  <2> QED BY <2>4, FS_Singleton
<1>2. ASSUME NEW l, \A i \in 1..Len(u) : u[i] # l PROVE Cardinality(ShownAt(m, l)) = 0
  <2>1. ShownAt(m, l) = {}
    BY <1>2 DEF ShowsOnce, ShownAt
  <2> QED BY <2>1, FS_EmptySet
<1>3. Len(m) \in 0..Cardinality(Legs)
  <2> DEFINE f == [x \in 1..Len(m) |-> m[x].row]
  <2>1. Len(m) \in Nat /\ \A x \in 1..Len(m) : m[x] \in Entry
    BY ElementOfSeq
  <2>2. \A x \in 1..Len(m) : m[x].row \in Legs /\ m[x].row \in LegsOf(m[x])
    BY <2>1 DEF Entry, LegsOf
  <2>3. \A x, y \in 1..Len(m) : m[x].row = m[y].row => x = y
    BY <2>2 DEF ShowsOnce
  <2>4. f \in Injection(1..Len(m), Legs)
    BY <2>2, <2>3 DEF Injection, IsInjective
  <2> HIDE DEF f
  <2>5. Cardinality(1..Len(m)) <= Cardinality(Legs) /\ Cardinality(Legs) \in Nat
    BY <2>4, PagesAssumption, FS_Injection, FS_CardinalityType
  <2>6. Cardinality(1..Len(m)) = Len(m)
    <3>1. PICK n \in Nat : n = Len(m)
      BY <2>1
    <3>2. 1 \in Int /\ n \in Int
      OBVIOUS
    <3>3. Cardinality(1..n) = IF 1 > n THEN 0 ELSE n - 1 + 1
      BY <3>2, FS_Interval
    <3>4. Cardinality(1..n) = n
      BY <3>3
    <3> QED BY <3>1, <3>4
  <2> QED BY <2>1, <2>5, <2>6
<1> QED BY <1>1, <1>2, <1>3

(***************************************************************************)
(* What a merged page adds to the screen: each of its legs once.           *)
(***************************************************************************)
LEMMA MergedPage ==
  ASSUME NEW u \in Seq(Legs), Distinct(u)
  PROVE  LET m == mergeSwapLegs(u)
         IN  /\ m \in Seq(Entry) /\ Len(m) \in 0..Cardinality(Legs)
             /\ \A i \in 1..Len(u) : Cardinality(ShownAt(m, u[i])) = 1
             /\ \A l : (\A i \in 1..Len(u) : u[i] # l) => Cardinality(ShownAt(m, l)) = 0
<1>1. mergeSwapLegs(u) \in Seq(Entry) /\ ShowsOnce(mergeSwapLegs(u), u)
  BY MergeFacts
<1> QED BY <1>1, ShownMerged

(***************************************************************************)
(* There are no more transactions than legs.                               *)
(***************************************************************************)
LEMMA CountBounded ==
  ASSUME table \subseteq Legs
  PROVE  CountByAddress \in 0..Cardinality(Legs)
<1> DEFINE f == [l \in Rows |-> l.hash]
<1>1. Rows \in SUBSET Legs /\ IsFiniteSet(Rows)
  BY RankFacts
<1>2. f \in Surjection(Rows, Hashes(Rows))
  BY DEF Surjection, Hashes
<1> HIDE DEF f
<1>3. IsFiniteSet(Hashes(Rows)) /\ Cardinality(Hashes(Rows)) <= Cardinality(Rows)
  BY <1>1, <1>2, FS_Surjection
<1>4. Cardinality(Rows) <= Cardinality(Legs)
  BY <1>1, PagesAssumption, FS_Subset
<1>5. /\ Cardinality(Hashes(Rows)) \in Nat /\ Cardinality(Rows) \in Nat
      /\ Cardinality(Legs) \in Nat
  BY <1>1, <1>3, PagesAssumption, FS_CardinalityType
<1> QED BY <1>3, <1>4, <1>5 DEF CountByAddress

(***************************************************************************)
(* A row stored later can only push a row down.                            *)
(***************************************************************************)
LEMMA RankGrows ==
  ASSUME table \subseteq table', table' \subseteq Legs, NEW l
  PROVE  /\ Rows \subseteq Rows' /\ Rank(l) \in Nat /\ Rank(l)' \in Nat
         /\ Rank(l) <= Rank(l)'
<1> DEFINE above == {m \in Rows : Before(m, l)}
           aboveNow == {m \in Rows' : Before(m, l)}
<1>1. Rows \subseteq Rows' /\ Rows' \subseteq Legs
  BY DEF Rows, Mine
<1>2. Rank(l) = Cardinality(above) /\ Rank(l)' = Cardinality(aboveNow)
  BY DEF Rank, Before
<1>3. above \in SUBSET aboveNow /\ aboveNow \in SUBSET Legs
  BY <1>1
<1> HIDE DEF above, aboveNow
<1>4. IsFiniteSet(aboveNow) /\ IsFiniteSet(above) /\ Cardinality(above) <= Cardinality(aboveNow)
  <2>1. IsFiniteSet(aboveNow)
    BY <1>3, PagesAssumption, FS_Subset
  <2> QED BY <1>3, <2>1, FS_Subset
<1>5. Cardinality(above) \in Nat /\ Cardinality(aboveNow) \in Nat
  BY <1>4, FS_CardinalityType
<1> QED BY <1>1, <1>2, <1>4, <1>5

(***************************************************************************)
(* A reader that only turns pages keeps the types.                         *)
(***************************************************************************)
LEMMA PagesTyped ==
  PagesTypeOK /\ ScrollInv /\ [PagesNext]_pagesVars => PagesTypeOK' /\ Distinct(lastPage)'
<1> SUFFICES ASSUME PagesTypeOK, ScrollInv, [PagesNext]_pagesVars
             PROVE  PagesTypeOK' /\ Distinct(lastPage)'
  OBVIOUS
<1>0. Cardinality(Legs) \in Nat /\ DefaultLimit \in Nat \ {0} /\ MaxScrolls \in Nat
  BY PagesAssumption, FS_CardinalityType
<1>1. ASSUME NEW n \in Limits, BeginScroll(n) PROVE PagesTypeOK' /\ Distinct(lastPage)'
  <2>1. PageLimit(n) \in Nat \ {0}
    BY <1>0, PagesAssumption DEF PageLimit
  <2>2. <<>> \in Seq(Legs) /\ <<>> \in Seq(Entry) /\ Len(<<>>) = 0
    OBVIOUS
  <2>3. Rows \subseteq table
    BY DEF Rows
  <2>4. scrolls' \in 0..MaxScrolls /\ total' \in 0..Cardinality(Legs)
    BY <1>0, <1>1 DEF PagesTypeOK, BeginScroll
  <2>5. Distinct(lastPage)' /\ lastPage' \in Seq(Legs) /\ Len(lastPage') <= limit'
    BY <1>1, <2>1, <2>2 DEF BeginScroll, Distinct
  <2> QED BY <1>1, <2>1, <2>2, <2>3, <2>4, <2>5 DEF PagesTypeOK, BeginScroll
<1>2. ASSUME GetHistory PROVE PagesTypeOK' /\ Distinct(lastPage)'
  <2>1. table \subseteq Legs /\ limit \in Nat \ {0} /\ offset \in Nat /\ items \in Seq(Entry)
    BY DEF PagesTypeOK
  <2>2. lastPage' \in Seq(Legs) /\ Distinct(lastPage') /\ Len(lastPage') <= limit
    BY <1>2, <2>1, PageFacts DEF GetHistory
  <2>3. mergeSwapLegs(lastPage') \in Seq(Entry)
    BY <2>2, MergedPage
  <2>4. items' \in Seq(Entry)
    BY <1>2, <2>1, <2>3 DEF GetHistory
  <2>5. offset' \in Nat
    BY <1>2, <2>1 DEF GetHistory
  <2>6. Distinct(lastPage)'
    BY <2>2 DEF Distinct
  <2> QED BY <1>2, <2>2, <2>4, <2>5, <2>6 DEF PagesTypeOK, GetHistory
<1>3. ASSUME GetHistoryFails PROVE PagesTypeOK' /\ Distinct(lastPage)'
  BY <1>3 DEF PagesTypeOK, ScrollInv, GetHistoryFails, Distinct
<1>4. ASSUME Count PROVE PagesTypeOK' /\ Distinct(lastPage)'
  <2>1. CountByAddress \in 0..Cardinality(Legs)
    BY CountBounded DEF PagesTypeOK
  <2>2. Len(mergeSwapLegs(lastPage)) \in 0..Cardinality(Legs)
    BY MergedPage DEF PagesTypeOK, ScrollInv
  <2>3. total' \in 0..Cardinality(Legs)
    BY <1>4, <2>1, <2>2 DEF Count
  <2>4. reader' \in {"idle", "scrolling", "counting", "done", "failed"}
    BY <1>4 DEF Count
  <2> QED BY <1>4, <2>3, <2>4 DEF PagesTypeOK, ScrollInv, Count, Distinct
<1>5. ASSUME SyncUpsert PROVE PagesTypeOK' /\ Distinct(lastPage)'
  BY <1>5 DEF PagesTypeOK, ScrollInv, SyncUpsert, Distinct
<1>6. ASSUME UNCHANGED pagesVars PROVE PagesTypeOK' /\ Distinct(lastPage)'
  BY <1>6 DEF PagesTypeOK, ScrollInv, pagesVars, Distinct
<1> QED BY <1>1, <1>2, <1>3, <1>4, <1>5, <1>6 DEF PagesNext

(***************************************************************************)
(* The entries on the screen that show a leg.                              *)
(***************************************************************************)
LEMMA ShownCounts ==
  ASSUME items \in Seq(Entry), NEW l
  PROVE  Shown(l) = Cardinality(ShownAt(items, l)) /\ Shown(l) \in Nat
<1>1. DOMAIN items = 1..Len(items)
  OBVIOUS
<1>2. Shown(l) = Cardinality(ShownAt(items, l))
  BY <1>1 DEF Shown, ShownAt
<1>3. <<>> \in Seq(Entry)
  OBVIOUS
<1>4. Cardinality(ShownAt(items, l)) \in Nat
  BY <1>3, ShownAppended
<1> QED BY <1>2, <1>4

(***************************************************************************)
(* One page more: its rows, the next in order, are now on the screen.      *)
(***************************************************************************)
LEMMA PageShown ==
  ASSUME PagesTypeOK, GetHistory, NEW l \in Rows
  PROVE  /\ Rank(l) \in Nat /\ Shown(l) \in Nat /\ Shown(l)' \in Nat
         /\ Shown(l)' = Shown(l) + IF Rank(l) \in offset..(offset + limit - 1) THEN 1 ELSE 0
         /\ Len(lastPage') # limit => Rank(l) < offset + limit
<1> DEFINE p == ListByAddress(limit, offset)
           k == mergeSwapLegs(p)
           on == Rank(l) \in offset..(offset + limit - 1)
<1>1. table \subseteq Legs /\ limit \in Nat \ {0} /\ offset \in Nat /\ items \in Seq(Entry)
  BY DEF PagesTypeOK
<1>2. /\ p \in Seq(Legs) /\ Distinct(p)
      /\ \A i \in 1..Len(p) : Rank(p[i]) \in offset..(offset + limit - 1)
      /\ on => \E i \in 1..Len(p) : p[i] = l
      /\ Len(p) # limit => Rank(l) < offset + limit
  BY <1>1, PageFacts
<1>3. lastPage' = p /\ items' = items \o k
  BY DEF GetHistory
<1> HIDE DEF p
<1>4. /\ k \in Seq(Entry)
      /\ \A i \in 1..Len(p) : Cardinality(ShownAt(k, p[i])) = 1
      /\ (\A i \in 1..Len(p) : p[i] # l) => Cardinality(ShownAt(k, l)) = 0
  BY <1>2, MergedPage
<1> HIDE DEF k
<1>5. Cardinality(ShownAt(k, l)) = IF on THEN 1 ELSE 0
  <2>1. CASE on
    BY <1>2, <1>4, <2>1
  <2>2. CASE ~on
    <3>1. \A i \in 1..Len(p) : p[i] # l
      BY <1>2, <2>2
    <3> HIDE DEF on
    <3> QED BY <1>4, <2>2, <3>1
  <2> QED BY <2>1, <2>2
<1>6. /\ Cardinality(ShownAt(items \o k, l))
           = Cardinality(ShownAt(items, l)) + Cardinality(ShownAt(k, l))
      /\ Cardinality(ShownAt(items, l)) \in Nat
  BY <1>1, <1>4, ShownAppended
<1>7. Shown(l) = Cardinality(ShownAt(items, l))
  BY <1>1, ShownCounts
<1>8. Shown(l)' = Cardinality(ShownAt(items \o k, l))
  <2>1. items \o k \in Seq(Entry)
    BY <1>1, <1>4
  <2>2. DOMAIN (items \o k) = 1..Len(items \o k)
    BY <2>1
  <2>3. Shown(l)' = Cardinality({i \in DOMAIN (items \o k) : l \in LegsOf((items \o k)[i])})
    BY <1>3 DEF Shown, LegsOf
  <2> QED BY <2>2, <2>3 DEF ShownAt
<1>9. Rank(l) \in Nat
  <2>1. Rank(l) \in 0..(Cardinality(Rows) - 1) /\ Cardinality(Rows) \in Nat
    BY <1>1, RankFacts
  <2> QED BY <2>1
<1>10. Shown(l)' = Shown(l) + (IF on THEN 1 ELSE 0) /\ Shown(l) \in Nat
  BY <1>5, <1>6, <1>7, <1>8
<1>11. Shown(l)' \in Nat
  <2> HIDE DEF on
  <2> QED BY <1>10
<1> QED BY <1>2, <1>3, <1>9, <1>10, <1>11

(***************************************************************************)
(* Each step keeps what the screen shows: a page adds the rows the cursor  *)
(* passes, a stored row moves others down.                                 *)
(***************************************************************************)
LEMMA ScrollKept ==
  PagesTypeOK /\ PagesTypeOK' /\ ScrollInv /\ [PagesNext]_pagesVars
    => (started \subseteq Rows)' /\ ScrollShows'
<1> SUFFICES ASSUME PagesTypeOK, PagesTypeOK', ScrollInv, [PagesNext]_pagesVars
             PROVE  (started \subseteq Rows)' /\ ScrollShows'
  OBVIOUS
<1>0. /\ table \subseteq Legs /\ limit \in Nat \ {0} /\ offset \in Nat
      /\ items \in Seq(Entry) /\ started \subseteq Rows
  BY DEF PagesTypeOK, ScrollInv
<1>1. ASSUME NEW n \in Limits, BeginScroll(n) PROVE (started \subseteq Rows)' /\ ScrollShows'
  <2>1. started' = Rows /\ Rows' = Rows /\ offset' = 0 /\ items' = <<>> /\ reader' = "scrolling"
    BY <1>1 DEF BeginScroll, Rows, Mine
  <2>2. ASSUME NEW l \in Rows' PROVE ~(Rank(l)' < offset') /\ Shown(l)' = 0
    <3>1. Rank(l)' \in 0..(Cardinality(Rows') - 1) /\ Cardinality(Rows') \in Nat
      <4>1. Rank(l)' = Rank(l)
        BY <2>1 DEF Rank, Before
      <4> QED BY <1>0, <2>1, <2>2, <4>1, RankFacts
    <3>2. Shown(l)' = Cardinality({i \in DOMAIN items' : l \in LegsOf(items'[i])})
      BY DEF Shown, LegsOf
    <3>3. {i \in DOMAIN items' : l \in LegsOf(items'[i])} = {}
      BY <2>1
    <3> QED BY <2>1, <3>1, <3>2, <3>3, FS_EmptySet
  <2>3. started' \subseteq Rows'
    BY <2>1
  <2> QED BY <2>1, <2>2, <2>3 DEF ScrollShows
<1>2. ASSUME GetHistory PROVE (started \subseteq Rows)' /\ ScrollShows'
  <2>1. /\ started' = started /\ Rows' = Rows /\ offset' = offset + limit
        /\ limit' = limit /\ reader = "scrolling" /\ reader' = "counting"
    BY <1>2 DEF GetHistory, Rows, Mine
  <2>2. ASSUME NEW l \in Rows
        PROVE  /\ Rank(l)' = Rank(l) /\ Rank(l) \in Nat
               /\ Shown(l) \in Nat /\ Shown(l)' \in Nat
               /\ Shown(l)' = Shown(l)
                    + IF Rank(l) \in offset..(offset + limit - 1) THEN 1 ELSE 0
               /\ Len(lastPage') # limit => Rank(l) < offset + limit
    <3>1. Rank(l)' = Rank(l)
      BY <2>1 DEF Rank, Before
    <3> QED BY <1>2, <2>2, <3>1, PageShown
  <2>3. ASSUME NEW l \in started, Rank(l) < offset + limit PROVE Shown(l)' > 0
    <3>1. l \in Rows
      BY <1>0
    <3>2. Rank(l) < offset => Shown(l) > 0
      BY <2>1 DEF ScrollInv, ScrollShows
    <3> QED BY <1>0, <2>2, <2>3, <3>1, <3>2
  <2>4. ASSUME started = Rows, NEW l \in Rows
        PROVE  Shown(l)' = IF Rank(l) < offset + limit THEN 1 ELSE 0
    <3>1. Shown(l) = IF Rank(l) < offset THEN 1 ELSE 0
      BY <2>1, <2>4 DEF ScrollInv, ScrollShows
    <3> QED BY <1>0, <2>2, <3>1
  <2>5. started' \subseteq Rows'
    BY <1>0, <2>1
  <2>6. \A l \in started' : Rank(l)' < offset' => Shown(l)' > 0
    BY <1>0, <2>1, <2>2, <2>3
  <2>7. started' = Rows' =>
          \A l \in Rows' : Shown(l)' = IF Rank(l)' < offset' THEN 1 ELSE 0
    BY <2>1, <2>2, <2>4
  <2>8. ~HasMore' => \A l \in started' : Shown(l)' > 0
    <3>1. HasMore' <=> Len(lastPage') = limit
      BY <2>1 DEF HasMore
    <3> QED BY <1>0, <2>1, <2>2, <2>3, <3>1
  <2> QED BY <2>1, <2>5, <2>6, <2>7, <2>8 DEF ScrollShows
<1>3. ASSUME GetHistoryFails PROVE (started \subseteq Rows)' /\ ScrollShows'
  BY <1>0, <1>3 DEF ScrollShows, GetHistoryFails, Rows, Mine
<1>4. ASSUME Count PROVE (started \subseteq Rows)' /\ ScrollShows'
  <2>1. /\ Rows' = Rows /\ started' = started /\ offset' = offset /\ items' = items
        /\ reader = "counting" /\ reader' \in {"scrolling", "done"}
        /\ reader' = "done" => ~HasMore
    BY <1>4 DEF Count, Rows, Mine
  <2>2. \A l : Rank(l)' = Rank(l) /\ Shown(l)' = Shown(l)
    BY <2>1 DEF Rank, Before, Shown, LegsOf
  <2> QED BY <1>0, <2>1, <2>2 DEF ScrollShows, ScrollInv
<1>5. ASSUME SyncUpsert PROVE (started \subseteq Rows)' /\ ScrollShows'
  <2>1. /\ table \subseteq table' /\ table' \subseteq Legs /\ started' = started
        /\ offset' = offset /\ items' = items /\ reader' = reader
        /\ lastPage' = lastPage /\ limit' = limit
    BY <1>0, <1>5 DEF SyncUpsert
  <2>2. ASSUME NEW l
        PROVE  /\ Rank(l) \in Nat /\ Rank(l)' \in Nat /\ Rank(l) <= Rank(l)'
               /\ Rows \subseteq Rows' /\ Shown(l)' = Shown(l)
    BY <2>1, RankGrows DEF Shown, LegsOf
  <2>3. started' \subseteq Rows'
    BY <1>0, <2>1, <2>2
  <2>4. ASSUME reader \in {"scrolling", "counting", "done"}, NEW l \in started, Rank(l)' < offset
        PROVE  Shown(l)' > 0
    <3>1. Rank(l) < offset
      BY <1>0, <2>2, <2>4
    <3>2. Shown(l) > 0
      BY <2>4, <3>1 DEF ScrollInv, ScrollShows
    <3> QED BY <2>2, <3>2
  <2>5. ASSUME reader \in {"scrolling", "counting", "done"}, started = Rows', NEW l \in Rows'
        PROVE  Shown(l)' = IF Rank(l)' < offset THEN 1 ELSE 0
    <3>1. Rows' = Rows
      BY <1>0, <2>2, <2>5
    <3>2. Rank(l)' = Rank(l)
      BY <3>1 DEF Rank, Before
    <3>3. Shown(l) = IF Rank(l) < offset THEN 1 ELSE 0
      BY <2>5, <3>1 DEF ScrollInv, ScrollShows
    <3> QED BY <2>2, <3>2, <3>3
  <2>6. HasMore' = HasMore
    BY <2>1 DEF HasMore
  <2>7. reader \in {"scrolling", "counting", "done"} =>
          (reader = "done" \/ (reader = "counting" /\ ~HasMore) =>
             \A l \in started : Shown(l)' > 0)
    BY <2>2 DEF ScrollInv, ScrollShows
  <2> QED BY <2>1, <2>3, <2>4, <2>5, <2>6, <2>7 DEF ScrollShows
<1>6. ASSUME UNCHANGED pagesVars PROVE (started \subseteq Rows)' /\ ScrollShows'
  BY <1>0, <1>6 DEF pagesVars, ScrollInv, ScrollShows, Rows, Mine, Rank, Before, Shown, LegsOf, HasMore
<1> QED BY <1>1, <1>2, <1>3, <1>4, <1>5, <1>6 DEF PagesNext

(***************************************************************************)
(* The pages keep their types: a page holds no more rows than its limit    *)
(* and total_count never exceeds the rows there are (GetHistory).          *)
(***************************************************************************)
THEOREM PagesTypeCorrect == PagesSpec => [](PagesTypeOK /\ ScrollInv)
<1>1. PagesInit => PagesTypeOK /\ ScrollInv
  <2> SUFFICES ASSUME PagesInit PROVE PagesTypeOK /\ ScrollInv
    OBVIOUS
  <2>0. Cardinality(Legs) \in Nat /\ DefaultLimit \in Nat \ {0} /\ MaxScrolls \in Nat
    BY PagesAssumption, FS_CardinalityType
  <2>1. PagesTypeOK
    BY <2>0 DEF PagesInit, PagesTypeOK
  <2>2. ScrollInv
    BY DEF PagesInit, ScrollInv, ScrollShows, Distinct
  <2> QED BY <2>1, <2>2
<1>2. PagesTypeOK /\ ScrollInv /\ [PagesNext]_pagesVars => PagesTypeOK' /\ ScrollInv'
  BY PagesTyped, ScrollKept DEF ScrollInv
<1> QED BY <1>1, <1>2, PTL DEF PagesSpec

(***************************************************************************)
(* A scroll that reached its end has shown every row the wallet had when   *)
(* it began, and each once when none was stored meanwhile (GetHistory,     *)
(* ListByAddress).                                                         *)
(***************************************************************************)
THEOREM ScrollsAreFaithful == PagesSpec => []ScrollIsFaithful
<1>1. PagesTypeOK /\ ScrollInv => ScrollIsFaithful
  <2> SUFFICES ASSUME PagesTypeOK, ScrollInv, reader = "done", NEW l \in started
               PROVE  Shown(l) > 0 /\ (started = Rows => Shown(l) = 1)
    BY DEF ScrollIsFaithful
  <2>1. Shown(l) > 0 /\ l \in Rows
    BY DEF ScrollInv, ScrollShows
  <2>2. started = Rows => Shown(l) = IF Rank(l) < offset THEN 1 ELSE 0
    BY <2>1 DEF ScrollInv, ScrollShows
  <2>3. 1 > 0 /\ ~(0 > 0)
    OBVIOUS
  <2> QED BY <2>1, <2>2, <2>3
<1> QED BY <1>1, PagesTypeCorrect, PTL

(***************************************************************************)
(* Merging hides nothing (tryMergeSwap): a row of a page is in exactly one *)
(* entry, and a swap entry is its transaction's only two legs on the page. *)
(***************************************************************************)
THEOREM MergingKeepsLegs == PagesSpec => []MergeKeepsLegs
<1>1. PagesTypeOK /\ ScrollInv => MergeKeepsLegs
  <2> SUFFICES ASSUME PagesTypeOK, ScrollInv PROVE MergeKeepsLegs
    OBVIOUS
  <2> DEFINE u == lastPage
             m == mergeSwapLegs(u)
  <2>1. u \in Seq(Legs) /\ Distinct(u)
    BY DEF PagesTypeOK, ScrollInv
  <2>2. m \in Seq(Entry) /\ ShowsOnce(m, u) /\ SwapsAreWhole(m, u) /\ OneHash(m)
    BY <2>1, MergeFacts
  <2>3. \A i \in 1..Len(u) : Cardinality(ShownAt(m, u[i])) = 1
    BY <2>1, MergedPage
  <2> HIDE DEF m
  <2>4. DOMAIN u = 1..Len(u) /\ DOMAIN m = 1..Len(m)
    BY <2>1, <2>2
  <2>5. ASSUME NEW l \in ToSet(u)
        PROVE  Cardinality({i \in DOMAIN m : l \in LegsOf(m[i])}) = 1
    <3>1. PICK i \in 1..Len(u) : u[i] = l
      BY <2>4, <2>5 DEF ToSet
    <3> QED BY <2>3, <2>4, <3>1 DEF ShownAt
  <2>6. ASSUME NEW e \in ToSet(m), NEW s \in Legs, s \in e.sent
        PROVE  /\ s.from = Wallet /\ e.row.to = Wallet /\ s.asset # e.row.asset
               /\ {l \in ToSet(u) : l.hash = e.row.hash} = {s, e.row}
    <3>1. PICK x \in 1..Len(m) : m[x] = e
      BY <2>4, <2>6 DEF ToSet
    <3>2. /\ s.from = Wallet /\ e.row.to = Wallet /\ s.asset # e.row.asset
          /\ \A i \in 1..Len(u) : u[i].hash = e.row.hash => u[i] \in {s, e.row}
      BY <2>2, <2>6, <3>1 DEF SwapsAreWhole
    <3>3. ASSUME NEW l \in {s, e.row} PROVE l \in ToSet(u) /\ l.hash = e.row.hash
      <4>1. l \in LegsOf(m[x])
        BY <2>6, <3>1 DEF LegsOf
      <4>2. l.hash = e.row.hash
        BY <2>2, <3>1, <4>1 DEF OneHash
      <4>3. PICK i \in 1..Len(u) : u[i] = l
        BY <2>2, <4>1 DEF ShowsOnce
      <4> QED BY <2>4, <4>2, <4>3 DEF ToSet
    <3>4. ASSUME NEW l \in ToSet(u), l.hash = e.row.hash PROVE l \in {s, e.row}
      <4>1. PICK i \in 1..Len(u) : u[i] = l
        BY <2>4, <3>4 DEF ToSet
      <4> QED BY <3>2, <3>4, <4>1
    <3> QED BY <3>2, <3>3, <3>4
  <2> QED BY <2>5, <2>6 DEF MergeKeepsLegs, m
<1> QED BY <1>1, PagesTypeCorrect, PTL
=============================================================================
