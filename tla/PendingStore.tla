---------------------------- MODULE PendingStore ----------------------------
(***************************************************************************)
(* The SQLite-backed pending store (internal/adapter/eth/pending_store.go) *)
(* in the process that uses it.  Every mutation changes the in-memory maps *)
(* under the lock and then, without it, the table: statements of           *)
(* different calls reach the table in any order, may fail, and a crash may *)
(* fall between the two.                                                   *)
(*                                                                         *)
(* Time is the age of a stamp in ticks; every age above RecentTTL is       *)
(* RecentTTL + 1.  A hash is added once: it is the hash of one broadcast.  *)
(***************************************************************************)
EXTENDS Naturals

CONSTANTS
  Hash,        \* transactions
  Sent,        \* those SendTx broadcast; replaceTx broadcast the others
  RecentTTL,   \* ethkit.RecentTTL, in ticks
  MaxCrashes,  \* bound on crashes
  DbErrors,    \* whether a statement may fail
  Absent,      \* no entry, no row
  Live         \* a zero removedAt, a NULL removed_at

ASSUME StoreAssumption ==
  /\ Sent \subseteq Hash
  /\ RecentTTL \in Nat /\ MaxCrashes \in Nat /\ DbErrors \in BOOLEAN
  /\ Absent \notin Nat /\ Live \notin Nat /\ Absent # Live

\* Who removes: SendTx's defer, and the janitor (or replaceTx, the same way).
Remover == {"sender", "janitor"}

VARIABLES
  up,        \* the process runs
  pc,        \* new; adding: Add has done its memory part; added; done
  snapshot,  \* what the janitor's List returned and it has not dealt with
  active,    \* PendingStore.active
  recent,    \* PendingStore.recent: Absent, Live or an age
  table,     \* pending_txs: Absent, Live or an age
  updating,  \* Remove calls whose UPDATE has not run yet
  gcing,     \* gc has deleted rows and not yet pruned memory
  crashes,   \* history: number of crashes
  stored,    \* history: hashes whose INSERT succeeded
  stamped,   \* history: hashes whose row an UPDATE has stamped
  removed    \* history: Live, or the age of the first Remove

memory == <<active, recent>>
calls == <<pc, snapshot, updating>>
history == <<stored, stamped, removed>>
vars == <<up, calls, memory, table, gcing, crashes, history>>

Age == 0..(RecentTTL + 1)
Stamp == {Absent, Live} \cup Age
Expired == RecentTTL + 1

Older(s) == IF s \in Age \ {Expired} THEN s + 1 ELSE s

-----------------------------------------------------------------------------
(* Readers. *)

List == active

Recent == {h \in Hash : recent[h] \notin {Absent, Expired}}

-----------------------------------------------------------------------------
(* Add and Remove. *)

\* The part of Add under the lock.
Add(h) ==
  /\ up
  /\ pc[h] = "new"
  /\ pc' = [pc EXCEPT ![h] = "adding"]
  /\ active' = active \cup {h}
  /\ recent' = [recent EXCEPT ![h] = Live]
  /\ UNCHANGED <<up, snapshot, updating, table, gcing, crashes, history>>

\* INSERT OR REPLACE with removed_at NULL, whatever happened meanwhile.
AddRow(h) ==
  /\ pc[h] = "adding"
  /\ pc' = [pc EXCEPT ![h] = "added"]
  /\ table' = [table EXCEPT ![h] = Live]
  /\ stored' = stored \cup {h}
  /\ UNCHANGED <<up, snapshot, updating, memory, gcing, crashes, stamped, removed>>

\* The INSERT fails: it is logged and Add returns.
AddRowFails(h) ==
  /\ DbErrors
  /\ pc[h] = "adding"
  /\ pc' = [pc EXCEPT ![h] = "added"]
  /\ UNCHANGED <<up, snapshot, updating, memory, table, gcing, crashes, history>>

\* Mutant: the entry Remove leaves in recent has no removal time.
RemoveMemoryUnstamped(h) == active' = active \ {h} /\ UNCHANGED recent

\* The part of Remove under the lock; the second of two finds no entry.
RemoveMemory(h) ==
  /\ recent' = IF h \in active THEN [recent EXCEPT ![h] = 0] ELSE recent
  /\ active' = active \ {h}

Remove(h, who) ==
  /\ up
  /\ RemoveMemory(h)
  /\ updating' = updating \cup {<<h, who>>}
  /\ removed' = [removed EXCEPT ![h] = IF @ = Live THEN 0 ELSE @]
  /\ UNCHANGED <<up, table, gcing, crashes, stored, stamped>>

\* SendTx ends and its deferred Remove runs.
SenderRemoves(h) ==
  /\ h \in Sent
  /\ pc[h] = "added"
  /\ pc' = [pc EXCEPT ![h] = "done"]
  /\ Remove(h, "sender")
  /\ UNCHANGED snapshot

\* The janitor lists the pending transactions; the node is asked about each.
JanitorLists ==
  /\ up
  /\ snapshot = {}
  /\ snapshot' = active
  /\ UNCHANGED <<up, pc, updating, memory, table, gcing, crashes, history>>

\* A listed transaction is stale, or the lookup failed.
JanitorRemoves(h) ==
  /\ h \in snapshot
  /\ <<h, "janitor">> \notin updating
  /\ snapshot' = snapshot \ {h}
  /\ Remove(h, "janitor")
  /\ UNCHANGED pc

\* A listed transaction is still in the mempool.
JanitorKeeps(h) ==
  /\ h \in snapshot
  /\ snapshot' = snapshot \ {h}
  /\ UNCHANGED <<up, pc, updating, memory, table, gcing, crashes, history>>

\* UPDATE removed_at: no row, nothing to stamp.
StampRow(h, who) ==
  /\ <<h, who>> \in updating
  /\ updating' = updating \ {<<h, who>>}
  /\ IF table[h] = Absent
     THEN UNCHANGED <<table, stamped>>
     ELSE table' = [table EXCEPT ![h] = 0] /\ stamped' = stamped \cup {h}
  /\ UNCHANGED <<up, pc, snapshot, memory, gcing, crashes, stored, removed>>

StampRowFails(h, who) ==
  /\ DbErrors
  /\ <<h, who>> \in updating
  /\ updating' = updating \ {<<h, who>>}
  /\ UNCHANGED <<up, pc, snapshot, memory, table, gcing, crashes, history>>

-----------------------------------------------------------------------------
(* gc, and restarts. *)

WithoutExpired == [h \in Hash |-> IF table[h] = Expired THEN Absent ELSE table[h]]

\* gc's DELETE.  If it fails gc returns and nothing has changed.
GcTable ==
  /\ up
  /\ ~gcing
  /\ gcing' = TRUE
  /\ table' = WithoutExpired
  /\ UNCHANGED <<up, calls, memory, crashes, history>>

\* The second half of gc, under the lock.
GcMemory ==
  /\ gcing
  /\ gcing' = FALSE
  /\ recent' = [h \in Hash |-> IF recent[h] = Expired THEN Absent ELSE recent[h]]
  /\ UNCHANGED <<up, calls, active, table, crashes, history>>

\* The process dies; only the table is left.
Crash ==
  /\ up
  /\ crashes < MaxCrashes
  /\ up' = FALSE
  /\ pc' = [h \in Hash |-> IF pc[h] = "new" THEN "new" ELSE "done"]
  /\ snapshot' = {}
  /\ updating' = {}
  /\ active' = {}
  /\ recent' = [h \in Hash |-> Absent]
  /\ gcing' = FALSE
  /\ crashes' = crashes + 1
  /\ UNCHANGED <<table, history>>

\* Mutant: hydrate takes every row for a pending one.
hydrateAll ==
  /\ ~up
  /\ up' = TRUE
  /\ table' = WithoutExpired
  /\ active' = {h \in Hash : table'[h] # Absent}
  /\ recent' = [h \in Hash |-> IF table'[h] # Absent THEN Live ELSE Absent]
  /\ UNCHANGED <<calls, gcing, crashes, history>>

\* Mutant: hydrate loads the pending rows only.
hydratePending ==
  /\ ~up
  /\ up' = TRUE
  /\ table' = WithoutExpired
  /\ active' = {h \in Hash : table'[h] = Live}
  /\ recent' = [h \in Hash |-> IF table'[h] = Live THEN Live ELSE Absent]
  /\ UNCHANGED <<calls, gcing, crashes, history>>

\* Mutant: hydrate fills recent and leaves the active map empty.
hydrateNotListed ==
  /\ ~up
  /\ up' = TRUE
  /\ table' = WithoutExpired
  /\ recent' = table'
  /\ UNCHANGED <<calls, active, gcing, crashes, history>>

\* NewPendingStore: the expired rows are deleted, the others loaded.
hydrate ==
  /\ ~up
  /\ up' = TRUE
  /\ table' = WithoutExpired
  /\ active' = {h \in Hash : table'[h] = Live}
  /\ recent' = table'
  /\ UNCHANGED <<calls, gcing, crashes, history>>

Tick ==
  /\ recent' = [h \in Hash |-> Older(recent[h])]
  /\ table' = [h \in Hash |-> Older(table[h])]
  /\ removed' = [h \in Hash |-> Older(removed[h])]
  /\ UNCHANGED <<up, calls, active, gcing, crashes, stored, stamped>>

-----------------------------------------------------------------------------

Init ==
  /\ up = TRUE
  /\ pc = [h \in Hash |-> "new"]
  /\ active = {}
  /\ recent = [h \in Hash |-> Absent]
  /\ table = [h \in Hash |-> Absent]
  /\ snapshot = {}
  /\ updating = {}
  /\ gcing = FALSE
  /\ crashes = 0
  /\ stored = {} /\ stamped = {}
  /\ removed = [h \in Hash |-> Live]

Adding == \E h \in Hash : Add(h) \/ AddRow(h) \/ AddRowFails(h)

Removing ==
  \E h \in Hash :
    \/ SenderRemoves(h) \/ JanitorRemoves(h) \/ JanitorKeeps(h)
    \/ \E who \in Remover : StampRow(h, who) \/ StampRowFails(h, who)

Next ==
  \/ Adding \/ Removing \/ JanitorLists
  \/ GcTable \/ GcMemory \/ Crash \/ hydrate \/ Tick

(***************************************************************************)
(* Time passes, gc runs every minute, the janitor every ten seconds, a     *)
(* call that has begun ends, a dead process is started again; and a        *)
(* transaction does not stay in the mempool for ever, so a janitor that    *)
(* keeps looking at it removes it (SF) and the SendTx waiting for it ends. *)
(***************************************************************************)
Fairness ==
  /\ WF_vars(Tick) /\ WF_vars(JanitorLists) /\ WF_vars(GcTable) /\ WF_vars(GcMemory) /\ WF_vars(hydrate)
  /\ \A h \in Hash :
       /\ WF_vars(AddRow(h) \/ AddRowFails(h))
       /\ WF_vars(SenderRemoves(h))
       /\ WF_vars(JanitorRemoves(h) \/ JanitorKeeps(h)) /\ SF_vars(JanitorRemoves(h))
       /\ \A who \in Remover : WF_vars(StampRow(h, who) \/ StampRowFails(h, who))

Spec == Init /\ [][Next]_vars /\ Fairness

-----------------------------------------------------------------------------
(* Properties. *)

\* Every variable has its type, and the two maps agree on what is pending.
TypeOK ==
  /\ up \in BOOLEAN /\ gcing \in BOOLEAN
  /\ pc \in [Hash -> {"new", "adding", "added", "done"}]
  /\ snapshot \subseteq Hash
  /\ active \subseteq {h \in Hash : recent[h] = Live}
  /\ recent \in [Hash -> Stamp] /\ table \in [Hash -> Stamp]
  /\ updating \subseteq Hash \X Remover
  /\ crashes \in 0..MaxCrashes
  /\ stored \subseteq Hash /\ stamped \subseteq Hash
  /\ removed \in [Hash -> {Live} \cup Age]

(***************************************************************************)
(* The watcher's lookback (pending.go:190-205) can rely on Recent: a       *)
(* transaction whose INSERT succeeded is in Recent until RecentTTL after   *)
(* its first Remove, through crashes at any point, late UPDATEs, repeated  *)
(* Removes and both halves of gc.                                          *)
(***************************************************************************)
RecentCovers ==
  up => \A h \in stored : removed[h] # Expired => h \in Recent

(***************************************************************************)
(* Once an UPDATE has stamped a row, the transaction is never listed as    *)
(* in flight again, not by a restart either (hydrate).                     *)
(***************************************************************************)
StampedStaysOut == List \cap stamped = {}

(***************************************************************************)
(* Every transaction is forgotten for good in the end: the watcher's       *)
(* lookback does not grow, whatever UPDATEs fail.                          *)
(***************************************************************************)
Forgotten == \A h \in Hash : <>[](h \notin Recent)

\* What List and Recent tell of h; nothing while the process is down.
Status(h) ==
  IF h \in List THEN Live
  ELSE IF h \in Recent /\ recent[h] \in Age THEN recent[h] ELSE Absent

Contract == INSTANCE PendingContract WITH
  running <- up,
  seen <- [h \in Hash |-> Status(h)],
  Unknown <- Absent, Listed <- Live,
  known <- {h \in Hash : pc[h] # "new"}

(***************************************************************************)
(* The store keeps the interface's contract (pending.go:36-45): the table, *)
(* gc and the order in which statements reach it are invisible to List and *)
(* Recent while a process runs, and a restart invents nothing.             *)
(***************************************************************************)
KeepsContract == Contract!Spec
=============================================================================
