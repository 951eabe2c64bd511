------------------------- MODULE PendingStoreProofs -------------------------
(***************************************************************************)
(* Theorems about PendingStore, for any set of transactions, any RecentTTL *)
(* and any number of crashes, with and without failing statements.         *)
(***************************************************************************)
EXTENDS PendingStore, TLAPS

USE DEF Remover, memory, calls, history, Age, Stamp, Expired

\* The actions of Next on one transaction.
Step(h) ==
  \/ Add(h) \/ AddRow(h) \/ AddRowFails(h)
  \/ SenderRemoves(h) \/ JanitorRemoves(h) \/ JanitorKeeps(h)
  \/ \E who \in Remover : StampRow(h, who) \/ StampRowFails(h, who)

(***************************************************************************)
(* Next is a step on one transaction or a step of the whole store.         *)
(***************************************************************************)
LEMMA NextSplit ==
  ASSUME [Next]_vars
  PROVE  \/ \E h \in Hash : Step(h)
         \/ JanitorLists \/ GcTable \/ GcMemory \/ Crash \/ hydrate \/ Tick
         \/ UNCHANGED vars
BY DEF Next, Adding, Removing, Step

(***************************************************************************)
(* A stamp gets older and stays a stamp.                                   *)
(***************************************************************************)
LEMMA OlderStamp ==
  ASSUME NEW s \in Stamp
  PROVE  /\ Older(s) \in Stamp
         /\ s \in Age <=> Older(s) \in Age
         /\ s = Absent <=> Older(s) = Absent
         /\ s = Live <=> Older(s) = Live
         /\ s \in Age => Older(s) = IF s = Expired THEN s ELSE s + 1
BY StoreAssumption DEF Older

(***************************************************************************)
(* Type correctness of the pending store; its two maps agree on what is    *)
(* pending.                                                                *)
(***************************************************************************)
THEOREM StoreTypeCorrect == Spec => []TypeOK
<1> USE StoreAssumption
<1>1. Init => TypeOK
  <2> SUFFICES ASSUME Init
               PROVE  TypeOK
    OBVIOUS
  <2>1. /\ recent \in [Hash -> Stamp] /\ table \in [Hash -> Stamp]
        /\ removed \in [Hash -> {Live} \cup Age]
        /\ pc \in [Hash -> {"new", "adding", "added", "done"}]
    BY DEF Init
  <2>2. active \subseteq {h \in Hash : recent[h] = Live}
    BY DEF Init
  <2>3. up \in BOOLEAN /\ gcing \in BOOLEAN
    BY Zenon DEF Init
  <2>4. crashes \in 0..MaxCrashes /\ updating \subseteq Hash \X Remover
    BY DEF Init
  <2>5. snapshot \subseteq Hash /\ stored \subseteq Hash /\ stamped \subseteq Hash
    BY DEF Init
  <2> QED
    BY <2>1, <2>2, <2>3, <2>4, <2>5 DEF TypeOK
<1>2. TypeOK /\ [Next]_vars => TypeOK'
  <2> SUFFICES ASSUME TypeOK, [Next]_vars
               PROVE  TypeOK'
    OBVIOUS
  <2> USE DEF TypeOK
  <2>1. ASSUME NEW h \in Hash, Add(h)
        PROVE  TypeOK'
    BY <2>1 DEF Add
  <2>2. ASSUME NEW h \in Hash, AddRow(h) \/ AddRowFails(h)
        PROVE  TypeOK'
    BY <2>2 DEF AddRow, AddRowFails
  <2>3. ASSUME NEW h \in Hash, SenderRemoves(h) \/ JanitorRemoves(h)
        PROVE  TypeOK'
    <3>1. PICK who \in Remover : Remove(h, who)
      BY <2>3 DEF SenderRemoves, JanitorRemoves
    <3>2. /\ recent' \in [Hash -> Stamp]
          /\ active' \subseteq {g \in Hash : recent'[g] = Live}
      BY <3>1 DEF Remove, RemoveMemory
    <3>3. removed' \in [Hash -> {Live} \cup Age] /\ updating' \subseteq Hash \X Remover
      BY <3>1 DEF Remove
    <3>4. pc' \in [Hash -> {"new", "adding", "added", "done"}] /\ snapshot' \subseteq Hash
      BY <2>3 DEF SenderRemoves, JanitorRemoves
    <3>5. UNCHANGED <<up, table, gcing, crashes, stored, stamped>>
      BY <3>1 DEF Remove
    <3> QED
      BY <3>2, <3>3, <3>4, <3>5
  <2>4. ASSUME NEW h \in Hash, JanitorKeeps(h)
        PROVE  TypeOK'
    BY <2>4 DEF JanitorKeeps
  <2>5. ASSUME NEW h \in Hash, NEW who \in Remover, StampRow(h, who) \/ StampRowFails(h, who)
        PROVE  TypeOK'
    BY <2>5 DEF StampRow, StampRowFails
  <2>6. CASE JanitorLists
    BY <2>6 DEF JanitorLists
  <2>7. CASE GcTable
    BY <2>7 DEF GcTable, WithoutExpired
  <2>8. CASE GcMemory
    <3>1. recent' \in [Hash -> Stamp] /\ \A h \in active : recent'[h] = Live
      BY <2>8 DEF GcMemory
    <3> QED
      BY <2>8, <3>1 DEF GcMemory
  <2>9. CASE Crash
    <3>1. recent' \in [Hash -> Stamp] /\ pc' \in [Hash -> {"new", "adding", "added", "done"}]
      BY <2>9 DEF Crash
    <3>2. crashes' \in 0..MaxCrashes
      BY <2>9 DEF Crash
    <3>3. active' \subseteq {h \in Hash : recent'[h] = Live}
      BY <2>9 DEF Crash
    <3> QED
      BY <2>9, <3>1, <3>2, <3>3 DEF Crash
  <2>10. CASE hydrate
    <3>1. table' \in [Hash -> Stamp]
      BY <2>10 DEF hydrate, WithoutExpired
    <3> QED
      BY <2>10, <3>1 DEF hydrate
  <2>11. CASE Tick
    <3>1. recent' \in [Hash -> Stamp] /\ table' \in [Hash -> Stamp]
      BY <2>11, OlderStamp DEF Tick
    <3>2. removed' \in [Hash -> {Live} \cup Age]
      BY <2>11, OlderStamp DEF Tick
    <3>3. \A h \in active : recent'[h] = Live
      BY <2>11, OlderStamp DEF Tick
    <3> QED
      BY <2>11, <3>1, <3>2, <3>3 DEF Tick
  <2>12. CASE UNCHANGED vars
    BY <2>12 DEF vars
  <2> QED
    BY <2>1, <2>2, <2>3, <2>4, <2>5, <2>6, <2>7, <2>8, <2>9, <2>10, <2>11, <2>12, NextSplit
    DEF Step
<1> QED
  BY <1>1, <1>2, PTL DEF Spec

-----------------------------------------------------------------------------
(* Stamped rows. *)

(***************************************************************************)
(* The inductive invariant behind StampedStaysOut.  A row is inserted      *)
(* once, by an Add that then is over; a transaction being removed is not   *)
(* listed; a process that is down holds no calls; and a stamped row is     *)
(* never live again.                                                       *)
(***************************************************************************)
CallInv ==
  /\ \A h \in Hash : table[h] # Absent => pc[h] \in {"added", "done"}
  /\ \A h \in Hash : pc[h] = "new" => h \notin active \cup snapshot
  /\ \A h \in Hash, who \in Remover :
       <<h, who>> \in updating => h \notin active /\ pc[h] # "new"
  /\ ~up => updating = {} /\ active = {} /\ snapshot = {}
  /\ ~up => \A h \in Hash : pc[h] \in {"new", "done"}

StampInv ==
  \A h \in stamped : pc[h] \in {"added", "done"} /\ table[h] # Live

RowInv == CallInv /\ StampInv /\ StampedStaysOut

(***************************************************************************)
(* Every step keeps RowInv.                                                *)
(***************************************************************************)
LEMMA RowInvStep ==
  ASSUME TypeOK, RowInv, [Next]_vars
  PROVE  RowInv'
<1> USE StoreAssumption
<1> USE DEF TypeOK, RowInv, CallInv, StampInv, StampedStaysOut, List
<1>1. ASSUME NEW h \in Hash, Add(h)
      PROVE  RowInv'
  BY <1>1 DEF Add
<1>2. ASSUME NEW h \in Hash, AddRow(h)
      PROVE  RowInv'
  BY <1>2 DEF AddRow
<1>3. ASSUME NEW h \in Hash, AddRowFails(h)
      PROVE  RowInv'
  BY <1>3 DEF AddRowFails
<1>4. ASSUME NEW h \in Hash, SenderRemoves(h)
      PROVE  RowInv'
  BY <1>4 DEF SenderRemoves, Remove, RemoveMemory
<1>5. ASSUME NEW h \in Hash, JanitorRemoves(h)
      PROVE  RowInv'
  BY <1>5 DEF JanitorRemoves, Remove, RemoveMemory
<1>6. ASSUME NEW h \in Hash, JanitorKeeps(h)
      PROVE  RowInv'
  BY <1>6 DEF JanitorKeeps
<1>7. ASSUME NEW h \in Hash, NEW who \in Remover, StampRow(h, who)
      PROVE  RowInv'
  <2>1. h \notin active /\ pc[h] # "new"
    BY <1>7 DEF StampRow
  <2>2. CASE table[h] = Absent
    BY <1>7, <2>2 DEF StampRow
  <2>3. CASE table[h] # Absent
    <3>1. table' = [table EXCEPT ![h] = 0] /\ stamped' = stamped \cup {h}
      BY <1>7, <2>3 DEF StampRow
    <3>2. pc[h] \in {"added", "done"}
      BY <2>3
    <3>3. \A g \in Hash : table'[g] = (IF g = h THEN 0 ELSE table[g])
      BY <3>1
    <3>4. CallInv'
      BY <1>7, <2>3, <3>3 DEF StampRow
    <3>5. StampInv'
      BY <1>7, <3>1, <3>2, <3>3 DEF StampRow
    <3>6. StampedStaysOut'
      BY <1>7, <2>1, <3>1 DEF StampRow
    <3> QED
      BY <3>4, <3>5, <3>6
  <2> QED
    BY <2>2, <2>3
<1>8. ASSUME NEW h \in Hash, NEW who \in Remover, StampRowFails(h, who)
      PROVE  RowInv'
  BY <1>8 DEF StampRowFails
<1>9. CASE JanitorLists
  BY <1>9 DEF JanitorLists
<1>10. CASE GcTable
  BY <1>10 DEF GcTable, WithoutExpired
<1>11. CASE GcMemory
  BY <1>11 DEF GcMemory
<1>12. CASE Crash
  BY <1>12 DEF Crash
<1>13. CASE hydrate
  <2>1. \A h \in Hash : table'[h] = Live <=> table[h] = Live
    BY <1>13 DEF hydrate, WithoutExpired
  <2>2. \A h \in Hash : table'[h] # Absent => table[h] # Absent
    BY <1>13 DEF hydrate, WithoutExpired
  <2> QED
    BY <1>13, <2>1, <2>2 DEF hydrate
<1>14. CASE Tick
  <2>1. \A h \in Hash : /\ table'[h] = Live <=> table[h] = Live
                        /\ table'[h] = Absent <=> table[h] = Absent
    BY <1>14, OlderStamp DEF Tick
  <2> QED
    BY <1>14, <2>1 DEF Tick
<1>15. CASE UNCHANGED vars
  BY <1>15 DEF vars
<1> QED
  BY <1>1, <1>2, <1>3, <1>4, <1>5, <1>6, <1>7, <1>8, <1>9, <1>10, <1>11, <1>12,
     <1>13, <1>14, <1>15, NextSplit
  DEF Step

(***************************************************************************)
(* A transaction whose row an UPDATE has stamped is never listed as in     *)
(* flight again, whatever crashes, restarts and failing statements follow. *)
(***************************************************************************)
THEOREM StampedNeverListed == Spec => []StampedStaysOut
<1>1. Init => RowInv
  BY StoreAssumption DEF Init, RowInv, CallInv, StampInv, StampedStaysOut, List
<1>2. TypeOK /\ RowInv /\ [Next]_vars => RowInv'
  BY RowInvStep
<1>3. RowInv => StampedStaysOut
  BY DEF RowInv
<1> QED
  BY <1>1, <1>2, <1>3, StoreTypeCorrect, PTL DEF Spec

-----------------------------------------------------------------------------
(* The watcher's lookback. *)

\* A stamp s that is no older than the first removal r.
Fresh(s, r) == s = Live \/ (s \in Age /\ r \in Age /\ s <= r)

(***************************************************************************)
(* The inductive invariant behind RecentCovers: in the table, and in the   *)
(* memory of a running process, a transaction the table has ever held      *)
(* carries a stamp no older than its first Remove, as long as that is      *)
(* within RecentTTL.  One being added is in memory already, and one whose  *)
(* row is about to be stamped has been removed.                            *)
(***************************************************************************)
CoverInv ==
  /\ \A h \in Hash :
       removed[h] # Expired =>
         /\ h \in stored => Fresh(table[h], removed[h])
         /\ up /\ (h \in stored \/ pc[h] = "adding") => Fresh(recent[h], removed[h])
  /\ \A h \in Hash, who \in Remover : <<h, who>> \in updating => removed[h] # Live

(***************************************************************************)
(* A fresh stamp is visible: Recent does not leave it out.                 *)
(***************************************************************************)
LEMMA FreshIsRecent ==
  ASSUME TypeOK, CoverInv
  PROVE  RecentCovers
BY StoreAssumption DEF TypeOK, CoverInv, RecentCovers, Recent, Fresh

(***************************************************************************)
(* The stamps of one transaction age together.                             *)
(***************************************************************************)
LEMMA FreshAges ==
  ASSUME NEW s \in Stamp, NEW r \in {Live} \cup Age, Fresh(s, r), Older(r) # Expired
  PROVE  r # Expired /\ Fresh(Older(s), Older(r))
BY StoreAssumption DEF Fresh, Older

(***************************************************************************)
(* Every step keeps CoverInv.                                              *)
(***************************************************************************)
LEMMA CoverInvStep ==
  ASSUME TypeOK, RowInv, CoverInv, [Next]_vars
  PROVE  CoverInv'
<1> USE StoreAssumption
<1> USE DEF TypeOK, RowInv, CallInv
<1>1. ASSUME NEW h \in Hash, Add(h)
      PROVE  CoverInv'
  BY <1>1 DEF Add, CoverInv, Fresh
<1>2. ASSUME NEW h \in Hash, AddRow(h) \/ AddRowFails(h)
      PROVE  CoverInv'
  BY <1>2 DEF AddRow, AddRowFails, CoverInv, Fresh
<1>3. ASSUME NEW h \in Hash, SenderRemoves(h) \/ JanitorRemoves(h)
      PROVE  CoverInv'
  <2>1. /\ up /\ up' /\ UNCHANGED <<table, stored>>
        /\ removed' = [removed EXCEPT ![h] = IF removed[h] = Live THEN 0 ELSE removed[h]]
        /\ recent' = IF h \in active THEN [recent EXCEPT ![h] = 0] ELSE recent
        /\ \E who \in Remover : updating' = updating \cup {<<h, who>>}
    BY <1>3 DEF SenderRemoves, JanitorRemoves, Remove, RemoveMemory
  <2>2. \A g \in Hash : pc'[g] = "adding" => pc[g] = "adding"
    BY <1>3 DEF SenderRemoves, JanitorRemoves
  <2> QED
    BY <2>1, <2>2 DEF CoverInv, Fresh
<1>4. ASSUME NEW h \in Hash, JanitorKeeps(h)
      PROVE  CoverInv'
  BY <1>4 DEF JanitorKeeps, CoverInv
<1>5. ASSUME NEW h \in Hash, NEW who \in Remover, StampRow(h, who) \/ StampRowFails(h, who)
      PROVE  CoverInv'
  <2>1. removed[h] # Live /\ removed[h] \in Age
    BY <1>5 DEF StampRow, StampRowFails, CoverInv
  <2>2. /\ UNCHANGED <<up, pc, recent, stored, removed>>
        /\ updating' \subseteq updating
    BY <1>5 DEF StampRow, StampRowFails
  <2>3. \A g \in Hash : table'[g] = table[g] \/ (g = h /\ table'[g] = 0)
    BY <1>5 DEF StampRow, StampRowFails
  <2>4. Fresh(0, removed[h])
    BY <2>1 DEF Fresh
  <2> QED
    BY <2>1, <2>2, <2>3, <2>4 DEF CoverInv
<1>6. CASE JanitorLists
  BY <1>6 DEF JanitorLists, CoverInv
<1>7. CASE GcTable
  BY <1>7 DEF GcTable, WithoutExpired, CoverInv, Fresh
<1>8. CASE GcMemory
  BY <1>8 DEF GcMemory, CoverInv, Fresh
<1>9. CASE Crash
  BY <1>9 DEF Crash, CoverInv
<1>10. CASE hydrate
  BY <1>10 DEF hydrate, WithoutExpired, CoverInv, Fresh
<1>11. CASE Tick
  <2>1. /\ UNCHANGED <<up, pc, updating, stored>>
        /\ \A g \in Hash : /\ table'[g] = Older(table[g]) /\ recent'[g] = Older(recent[g])
                           /\ removed'[g] = Older(removed[g])
    BY <1>11 DEF Tick
  <2>2. \A g \in Hash : removed'[g] = Live => removed[g] = Live
    BY <2>1, OlderStamp
  <2>3. \A g \in Hash : removed'[g] # Expired => removed[g] # Expired
    BY <2>1, OlderStamp
  <2>4. ASSUME NEW g \in Hash, removed'[g] # Expired
        PROVE  /\ g \in stored' => Fresh(table[g], removed[g])'
               /\ up' /\ (g \in stored' \/ pc'[g] = "adding") => Fresh(recent[g], removed[g])'
    BY <2>1, <2>3, <2>4, FreshAges DEF CoverInv
  <2> QED
    BY <2>1, <2>2, <2>4 DEF CoverInv
<1>12. CASE UNCHANGED vars
  BY <1>12 DEF vars, CoverInv
<1> QED
  BY <1>1, <1>2, <1>3, <1>4, <1>5, <1>6, <1>7, <1>8, <1>9, <1>10, <1>11, <1>12, NextSplit
  DEF Step

(***************************************************************************)
(* The watcher's lookback finds every transaction whose INSERT succeeded   *)
(* until RecentTTL after its first Remove, through any crashes.            *)
(***************************************************************************)
THEOREM LookbackCovers == Spec => []RecentCovers
<1>1. Init => RowInv /\ CoverInv
  BY StoreAssumption DEF Init, RowInv, CallInv, StampInv, StampedStaysOut, List, CoverInv
<1>2. TypeOK /\ RowInv /\ CoverInv /\ [Next]_vars => RowInv' /\ CoverInv'
  BY RowInvStep, CoverInvStep
<1>3. TypeOK /\ CoverInv => RecentCovers
  BY FreshIsRecent
<1> QED
  BY <1>1, <1>2, <1>3, StoreTypeCorrect, PTL DEF Spec

-----------------------------------------------------------------------------
(* The contract. *)

Seen == [h \in Hash |-> Status(h)]
Known == {h \in Hash : pc[h] # "new"}

(***************************************************************************)
(* A step that changes neither map's visible part nor the set of known     *)
(* transactions is invisible to the readers.                               *)
(***************************************************************************)
LEMMA Invisible ==
  ASSUME UNCHANGED <<up, active>>,
         \A h \in Hash : Status(h)' = Status(h) /\ (pc'[h] = "new" <=> pc[h] = "new")
  PROVE  UNCHANGED Contract!vars
BY DEF Contract!vars

(***************************************************************************)
(* Every step of the store is a step of the contract or invisible.         *)
(***************************************************************************)
LEMMA ContractStep ==
  ASSUME TypeOK, RowInv, [Next]_vars
  PROVE  [Contract!Next]_Contract!vars
<1> USE StoreAssumption
<1> USE DEF TypeOK
<1>1. ASSUME NEW h \in Hash, Add(h)
      PROVE  Contract!Next
  <2>1. /\ up /\ up' = up /\ active' = active \cup {h} /\ pc[h] = "new"
        /\ recent' = [recent EXCEPT ![h] = Live] /\ pc' = [pc EXCEPT ![h] = "adding"]
    BY <1>1 DEF Add
  <2>2. Seen' = [Seen EXCEPT ![h] = Live]
    BY <2>1 DEF Seen, Status, List, Recent
  <2>3. Known' = Known \cup {h}
    BY <2>1 DEF Known
  <2>4. Contract!Add(h)
    BY <2>1, <2>2, <2>3 DEF Contract!Add, Seen, Known
  <2> QED
    BY <2>4 DEF Contract!Next
<1>2. ASSUME NEW h \in Hash, AddRow(h) \/ AddRowFails(h)
      PROVE  UNCHANGED Contract!vars
  <2>1. UNCHANGED <<up, active, recent>>
    BY <1>2 DEF AddRow, AddRowFails
  <2>2. \A g \in Hash : pc'[g] = "new" <=> pc[g] = "new"
    BY <1>2 DEF AddRow, AddRowFails
  <2> QED
    BY <2>1, <2>2, Invisible DEF Status, List, Recent
<1>3. ASSUME NEW h \in Hash, SenderRemoves(h) \/ JanitorRemoves(h)
      PROVE  [Contract!Next]_Contract!vars
  <2>1. /\ up /\ up' = up /\ active' = active \ {h}
        /\ recent' = IF h \in active THEN [recent EXCEPT ![h] = 0] ELSE recent
    BY <1>3 DEF SenderRemoves, JanitorRemoves, Remove, RemoveMemory
  <2>2. \A g \in Hash : pc'[g] = "new" <=> pc[g] = "new"
    BY <1>3 DEF SenderRemoves, JanitorRemoves
  <2>3. CASE h \in active
    <3>1. Seen[h] = Live /\ Seen' = [Seen EXCEPT ![h] = 0]
      <4>1. Seen[h] = Live /\ Status(h)' = 0
        BY <2>1, <2>3 DEF Seen, Status, List, Recent
      <4>2. \A g \in Hash \ {h} : Status(g)' = Status(g)
        BY <2>1, <2>3 DEF Status, List, Recent
      <4> QED
        BY <4>1, <4>2 DEF Seen
    <3>2. Known' = Known
      BY <2>2 DEF Known
    <3>3. Contract!Remove(h)
      BY <2>1, <3>1, <3>2 DEF Contract!Remove, Seen, Known
    <3> QED
      BY <3>3 DEF Contract!Next
  <2>4. CASE h \notin active
    <3>1. UNCHANGED <<up, active, recent>>
      BY <2>1, <2>4
    <3> QED
      BY <2>2, <3>1, Invisible DEF Status, List, Recent
  <2> QED
    BY <2>3, <2>4
<1>4. ASSUME \/ \E h \in Hash : JanitorKeeps(h)
             \/ \E h \in Hash, who \in Remover : StampRow(h, who) \/ StampRowFails(h, who)
             \/ JanitorLists \/ GcTable \/ UNCHANGED vars
      PROVE  UNCHANGED Contract!vars
  <2>1. UNCHANGED <<up, active, recent, pc>>
    BY <1>4 DEF JanitorKeeps, StampRow, StampRowFails, JanitorLists, GcTable, vars
  <2> QED
    BY <2>1, Invisible DEF Status, List, Recent
<1>5. CASE GcMemory
  <2>1. UNCHANGED <<up, active, pc>>
    BY <1>5 DEF GcMemory
  <2>2. \A g \in Hash : Status(g)' = Status(g)
    BY <1>5, <2>1 DEF GcMemory, Status, List, Recent
  <2> QED
    BY <2>1, <2>2, Invisible
<1>6. CASE Crash
  <2>1. /\ up /\ up' = FALSE /\ active' = {} /\ recent' = [g \in Hash |-> Absent]
        /\ \A g \in Hash : pc'[g] = "new" <=> pc[g] = "new"
    BY <1>6 DEF Crash
  <2>2. Seen' = [g \in Hash |-> Absent] /\ Known' = Known
    BY <2>1 DEF Seen, Known, Status, List, Recent
  <2>3. Contract!Crash
    BY <2>1, <2>2 DEF Contract!Crash, Seen, Known
  <2> QED
    BY <2>3 DEF Contract!Next
<1>7. CASE hydrate
  <2>1. /\ ~up /\ up' = TRUE /\ recent' = table' /\ pc' = pc
        /\ active' = {g \in Hash : table'[g] = Live}
        /\ table' \in [Hash -> Stamp]
        /\ \A g \in Hash : table[g] = Absent => table'[g] = Absent
    BY <1>7 DEF hydrate, WithoutExpired
  <2>2. Seen' \in [Hash -> Contract!Status]
    BY <2>1 DEF Seen, Status, List, Recent, Contract!Status, Contract!Age
  <2>3. \A g \in Hash \ Known : Seen'[g] = Absent
    BY <2>1 DEF Seen, Known, Status, List, Recent, RowInv, CallInv
  <2>4. Known' = Known
    BY <2>1 DEF Known
  <2>5. Contract!Restart
    BY <2>1, <2>2, <2>3, <2>4 DEF Contract!Restart, Seen, Known
  <2> QED
    BY <2>5 DEF Contract!Next
<1>8. CASE Tick
  <2>1. /\ UNCHANGED <<up, active, pc>>
        /\ \A g \in Hash : recent'[g] = Older(recent[g])
    BY <1>8 DEF Tick
  <2>2. \A g \in Hash : Status(g)' = Contract!Older(Status(g))
    <3> SUFFICES ASSUME NEW g \in Hash
                 PROVE  Status(g)' = Contract!Older(Status(g))
      OBVIOUS
    <3>1. recent[g] \in Stamp /\ recent'[g] = Older(recent[g])
      BY <2>1
    <3> QED
      BY <2>1, <3>1 DEF Status, List, Recent, Older, Contract!Older, Contract!Age
  <2>3. Seen' = [g \in Hash |-> Contract!Older(Seen[g])] /\ Known' = Known
    BY <2>1, <2>2 DEF Seen, Known
  <2>4. Contract!Tick
    BY <2>1, <2>3 DEF Contract!Tick, Seen, Known
  <2> QED
    BY <2>4 DEF Contract!Next
<1> QED
  BY <1>1, <1>2, <1>3, <1>4, <1>5, <1>6, <1>7, <1>8, NextSplit DEF Step

(***************************************************************************)
(* The store implements the PendingStore contract: Add, Remove, time, a    *)
(* crash and a restart are all its readers can tell apart, whatever the    *)
(* order of its statements and gc.                                         *)
(***************************************************************************)
THEOREM StoreImplementsContract == Spec => KeepsContract
<1>1. Init => Contract!Init
  <2> SUFFICES ASSUME Init
               PROVE  Contract!Init
    OBVIOUS
  <2>1. up = TRUE /\ Seen = [h \in Hash |-> Absent] /\ Known = {}
    BY StoreAssumption DEF Init, Seen, Known, Status, List, Recent
  <2> QED
    BY <2>1 DEF Contract!Init, Seen, Known
<1>2. Init => RowInv
  BY StoreAssumption DEF Init, RowInv, CallInv, StampInv, StampedStaysOut, List
<1>3. TypeOK /\ RowInv /\ [Next]_vars => RowInv'
  BY RowInvStep
<1>4. TypeOK /\ RowInv /\ [Next]_vars => [Contract!Next]_Contract!vars
  BY ContractStep
<1> QED
  BY <1>1, <1>2, <1>3, <1>4, StoreTypeCorrect, PTL DEF Spec, KeepsContract, Contract!Spec
=============================================================================
