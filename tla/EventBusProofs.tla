--------------------------- MODULE EventBusProofs ---------------------------
(***************************************************************************)
(* Theorems about EventBus and the notification table, for any number of   *)
(* monitors, streams, events and rows.                                     *)
(***************************************************************************)
EXTENDS EventBus, FiniteSetTheorems, FunctionTheorems, SequenceTheorems,
        WellFoundedInduction, TLAPS

(***************************************************************************)
(* A non-empty set of naturals has a least element.                        *)
(***************************************************************************)
LEMMA LeastId ==
  ASSUME NEW S \in SUBSET Nat, S # {}
  PROVE  \E n \in S : \A m \in S : n <= m
<1>1. IsWellFoundedOn(OpToRel(<, Nat), Nat)
  BY NatLessThanWellFounded
<1>2. PICK n \in S : \A m \in S : <<m, n>> \notin OpToRel(<, Nat)
  BY <1>1, WFMin
<1>3. \A m \in S : ~(m < n)
  BY <1>2 DEF OpToRel
<1> QED
  BY <1>3

(***************************************************************************)
(* The image of a finite set is finite and no larger.                      *)
(***************************************************************************)
LEMMA FiniteImage ==
  ASSUME NEW S, IsFiniteSet(S), NEW f, f = [x \in S |-> f[x]]
  PROVE  IsFiniteSet({f[x] : x \in S}) /\ Cardinality({f[x] : x \in S}) <= Cardinality(S)
<1> DEFINE T == {f[x] : x \in S}
<1>1. f \in [S -> T] /\ \A y \in T : \E x \in S : f[x] = y
  OBVIOUS
<1> HIDE DEF T
<1>2. f \in Surjection(S, T)
  BY <1>1, Fun_IsSurj
<1>3. IsFiniteSet(T) /\ Cardinality(T) <= Cardinality(S)
  BY <1>2, FS_Surjection
<1> QED BY <1>3 DEF T

-----------------------------------------------------------------------------
(* Rows and their ids. *)

IdsOf(R) == {r.id : r \in R}

OneRowPerId(R) == \A r, q \in R : r.id = q.id => r = q

(***************************************************************************)
(* Rows are counted by their ids.                                          *)
(***************************************************************************)
LEMMA CountById ==
  ASSUME NEW R, IsFiniteSet(R), OneRowPerId(R)
  PROVE  IsFiniteSet(IdsOf(R)) /\ Cardinality(IdsOf(R)) = Cardinality(R)
<1> DEFINE f == [r \in R |-> r.id]
<1>1. f \in [R -> IdsOf(R)]
  BY DEF IdsOf
<1>2. \A i \in IdsOf(R) : \E r \in R : f[r] = i
  BY DEF IdsOf
<1>3. \A r, q \in R : f[r] = f[q] => r = q
  BY DEF OneRowPerId
<1> HIDE DEF f
<1>4. f \in Surjection(R, IdsOf(R)) /\ f \in Injection(R, IdsOf(R))
  BY <1>1, <1>2, <1>3, Fun_IsInj, Fun_IsSurj
<1> QED BY <1>4, FS_Surjection

(***************************************************************************)
(* How many rows are newer than x depends on the ids alone.                *)
(***************************************************************************)
LEMMA RankById ==
  ASSUME NEW R, IsFiniteSet(R), OneRowPerId(R), NEW x
  PROVE  Cardinality({q \in R : q.id > x}) = Cardinality({i \in IdsOf(R) : i > x})
<1> DEFINE Q == {q \in R : q.id > x}
<1>1. IsFiniteSet(Q) /\ OneRowPerId(Q)
  <2>1. Q \in SUBSET R
    OBVIOUS
  <2> QED BY <2>1, FS_Subset DEF OneRowPerId
<1>2. IdsOf(Q) = {i \in IdsOf(R) : i > x}
  BY DEF IdsOf
<1> HIDE DEF Q
<1>3. Cardinality(IdsOf(Q)) = Cardinality(Q)
  BY <1>1, CountById
<1> QED BY <1>2, <1>3 DEF Q

(***************************************************************************)
(* A finite set in which every number has fewer than k greater ones has no *)
(* more than k.                                                            *)
(***************************************************************************)
LEMMA FewGreater ==
  ASSUME NEW S \in SUBSET Nat, IsFiniteSet(S), NEW k \in Nat,
         \A i \in S : Cardinality({j \in S : j > i}) < k
  PROVE  Cardinality(S) <= k
<1>1. CASE S = {}
  BY <1>1, FS_EmptySet
<1>2. CASE S # {}
  <2>1. PICK m \in S : \A n \in S : m <= n
    BY <1>2, LeastId
  <2>2. {j \in S : j > m} = S \ {m}
    <3>1. \A j \in S : j > m <=> j # m
      BY <2>1
    <3> QED BY <3>1
  <2>3. Cardinality(S \ {m}) = Cardinality(S) - 1 /\ Cardinality(S) \in Nat
    BY FS_RemoveElement, FS_CardinalityType
  <2> QED BY <2>2, <2>3
<1> QED BY <1>1, <1>2

(***************************************************************************)
(* SELECT ... LIMIT k never returns more than k rows.                      *)
(***************************************************************************)
LEMMA NewestBounded ==
  ASSUME TableTypeOK, OneRowPerId(rows), NEW k \in Nat
  PROVE  Cardinality(Newest(k)) <= k
<1> DEFINE R == Newest(k)
<1>1. R \in SUBSET rows
  BY DEF Newest
<1>2. IsFiniteSet(R) /\ OneRowPerId(R)
  BY <1>1, FS_Subset DEF TableTypeOK, OneRowPerId
<1>3. IdsOf(R) \in SUBSET Nat
  BY <1>1 DEF IdsOf, TableTypeOK, Row
<1>4. ASSUME NEW r \in R
      PROVE  Cardinality({i \in IdsOf(R) : i > r.id}) < k
  <2>1. {q \in R : q.id > r.id} \in SUBSET {q \in rows : q.id > r.id}
    BY <1>1
  <2>2. IsFiniteSet({q \in rows : q.id > r.id})
    <3>1. {q \in rows : q.id > r.id} \in SUBSET rows
      OBVIOUS
    <3> QED BY <3>1, FS_Subset DEF TableTypeOK
  <2>3. /\ Cardinality({q \in R : q.id > r.id}) <= Cardinality({q \in rows : q.id > r.id})
        /\ Cardinality({q \in R : q.id > r.id}) \in Nat
        /\ Cardinality({q \in rows : q.id > r.id}) \in Nat
    BY <2>1, <2>2, FS_Subset, FS_CardinalityType
  <2>4. Cardinality({q \in rows : q.id > r.id}) < k
    BY DEF Newest
  <2>5. Cardinality({q \in R : q.id > r.id}) = Cardinality({i \in IdsOf(R) : i > r.id})
    BY <1>2, RankById
  <2> HIDE DEF R
  <2> QED BY <2>3, <2>4, <2>5
<1> HIDE DEF R
<1>5. \A i \in IdsOf(R) : Cardinality({j \in IdsOf(R) : j > i}) < k
  BY <1>4 DEF IdsOf
<1>6. Cardinality(IdsOf(R)) = Cardinality(R) /\ IsFiniteSet(IdsOf(R))
  BY <1>2, CountById
<1>7. Cardinality(IdsOf(R)) <= k
  BY <1>3, <1>5, <1>6, FewGreater
<1> QED BY <1>6, <1>7 DEF R

(***************************************************************************)
(* The panel lists the newest rows.  Deleting the oldest ones or touching  *)
(* rows in place brings nothing new into the list, a new row only itself.  *)
(***************************************************************************)
NewestOf(R, k) == {r \in R : Cardinality({q \in R : q.id > r.id}) < k}

\* What is left has kept everything newer than each row of it.
LEMMA OldestDeleted ==
  ASSUME NEW R, NEW Q \in SUBSET R, NEW k,
         \A r \in Q, q \in R : q.id > r.id => q \in Q
  PROVE  NewestOf(Q, k) \subseteq NewestOf(R, k)
<1>1. \A r \in Q : {q \in Q : q.id > r.id} = {q \in R : q.id > r.id}
  OBVIOUS
<1> QED BY <1>1 DEF NewestOf

\* A new row is the only one that can enter the list of the newest.
LEMMA RowAdded ==
  ASSUME NEW R, IsFiniteSet(R), NEW x, NEW k \in Nat
  PROVE  NewestOf(R \cup {x}, k) \subseteq NewestOf(R, k) \cup {x}
<1> SUFFICES ASSUME NEW r \in NewestOf(R \cup {x}, k), r # x
             PROVE  r \in NewestOf(R, k)
  OBVIOUS
<1> DEFINE Q == R \cup {x}
           Above(S) == {q \in S : q.id > r.id}
<1>1. r \in R /\ Cardinality(Above(Q)) < k
  BY DEF NewestOf
<1>2. IsFiniteSet(Q)
  BY FS_AddElement
<1>3. Above(Q) \in SUBSET Q /\ Above(R) \in SUBSET Above(Q)
  OBVIOUS
<1> HIDE DEF Q
<1>4. IsFiniteSet(Above(Q))
  BY <1>2, <1>3, FS_Subset
<1>5. /\ Cardinality(Above(R)) <= Cardinality(Above(Q))
      /\ Cardinality(Above(R)) \in Nat /\ Cardinality(Above(Q)) \in Nat
  BY <1>3, <1>4, FS_Subset, FS_CardinalityType
<1>6. Cardinality(Above(R)) < k
  BY <1>1, <1>5
<1> QED BY <1>1, <1>6 DEF NewestOf

\* A row is rewritten in place: the ids stay.
LEMMA RowsRewritten ==
  ASSUME NEW R, IsFiniteSet(R), OneRowPerId(R),
         NEW Q, IsFiniteSet(Q), OneRowPerId(Q), IdsOf(Q) = IdsOf(R), NEW k
  PROVE  IdsOf(NewestOf(Q, k)) = IdsOf(NewestOf(R, k))
<1>1. \A x : Cardinality({q \in Q : q.id > x}) = Cardinality({q \in R : q.id > x})
  <2> TAKE x
  <2> QED BY RankById
<1> DEFINE Low(i) == Cardinality({q \in R : q.id > i}) < k
<1>2. NewestOf(Q, k) = {r \in Q : Low(r.id)} /\ NewestOf(R, k) = {r \in R : Low(r.id)}
  BY <1>1 DEF NewestOf
<1> HIDE DEF Low
<1>3. /\ IdsOf(NewestOf(Q, k)) = {i \in IdsOf(Q) : Low(i)}
      /\ IdsOf(NewestOf(R, k)) = {i \in IdsOf(R) : Low(i)}
  BY <1>2 DEF IdsOf
<1> QED BY <1>3

-----------------------------------------------------------------------------
(* Type correctness. *)

\* More ids have been handed out: what was typed stays typed.
LEMMA TypedLater ==
  ASSUME TypeOK, lastId' \in Nat, lastId <= lastId'
  PROVE  /\ Ids \subseteq Ids'
         /\ producer \in [Producer -> ProducerState']
         /\ stream \in [Stream -> StreamState']
<1>1. Ids \subseteq Ids'
  BY DEF TypeOK, Ids
<1>2. Seq(Ids) \subseteq Seq(Ids')
  BY <1>1, SeqMonotonic
<1>3. ProducerState \subseteq ProducerState' /\ StreamState \subseteq StreamState'
  BY <1>1, <1>2 DEF ProducerState, StreamState
<1> QED BY <1>1, <1>3 DEF TypeOK

\* A monitor at rest is typed.
LEMMA IdleTyped == TypeOK => Idle \in ProducerState /\ NoId \in Ids
BY TableAssumption DEF TypeOK, Idle, NoId, ProducerState, Ids

\* So are a stream not yet connected and one that is over.
LEMMA NewTyped == New \in StreamState /\ Off \in StreamState /\ New.chan = <<>> /\ Off.chan = <<>>
<1>1. New \in StreamState /\ New.chan = <<>>
  BY EmptySeq DEF New, StreamState
<1>2. Off \in StreamState /\ Off.chan = <<>>
  BY <1>1 DEF Off, StreamState
<1> QED BY <1>1, <1>2

\* What a list of the newest holds.
LEMMA NewestIsRows == TableTypeOK => \A k : Newest(k) \subseteq Row /\ IsFiniteSet(Newest(k))
BY FS_Subset DEF TableTypeOK, Newest

\* A change of the table by an RPC, a sweep, a prune or the clock.
TableStep ==
  \/ PruneOlderThan \/ (\E n \in Retention : DeleteOlderThanDays(n))
  \/ (\E r \in rows : MarkRead(r.id)) \/ MarkAllRead \/ DeleteAll
  \/ (\E s \in Settings : UpdateSettings(s)) \/ NextDay \/ UNCHANGED table

\* Such a change keeps the types of the table.
LEMMA TableStepTyped ==
  ASSUME TableTypeOK, TableStep
  PROVE  TableTypeOK'
<1> USE TableAssumption
<1>1. CASE PruneOlderThan
  BY <1>1, NewestIsRows DEF PruneOlderThan, TableTypeOK
<1>2. ASSUME NEW n \in Retention, DeleteOlderThanDays(n)
      PROVE  TableTypeOK'
  <2>1. rows' \in SUBSET rows
    BY <1>2 DEF DeleteOlderThanDays
  <2> QED BY <1>2, <2>1, FS_Subset DEF DeleteOlderThanDays, TableTypeOK
<1>3. ASSUME NEW i, MarkRead(i)
      PROVE  TableTypeOK'
  <2> DEFINE mark == [r \in rows |-> [r EXCEPT !.read = @ \/ r.id = i]]
  <2>1. rows' = {mark[r] : r \in rows} /\ UNCHANGED <<settings, today, unpruned>>
    BY <1>3 DEF MarkRead
  <2>2. \A r \in rows : mark[r] \in Row
    BY DEF Row, TableTypeOK
  <2>3. mark = [r \in rows |-> mark[r]]
    OBVIOUS
  <2> HIDE DEF mark
  <2>4. IsFiniteSet({mark[r] : r \in rows})
    BY <2>3, FiniteImage DEF TableTypeOK
  <2> QED BY <2>1, <2>2, <2>4 DEF TableTypeOK
<1>4. CASE MarkAllRead
  <2> DEFINE mark == [r \in rows |-> [r EXCEPT !.read = TRUE]]
  <2>1. rows' = {mark[r] : r \in rows} /\ UNCHANGED <<settings, today, unpruned>>
    BY <1>4 DEF MarkAllRead
  <2>2. \A r \in rows : mark[r] \in Row
    BY DEF Row, TableTypeOK
  <2>3. mark = [r \in rows |-> mark[r]]
    OBVIOUS
  <2> HIDE DEF mark
  <2>4. IsFiniteSet({mark[r] : r \in rows})
    BY <2>3, FiniteImage DEF TableTypeOK
  <2> QED BY <2>1, <2>2, <2>4 DEF TableTypeOK
<1>5. CASE DeleteAll
  BY <1>5, FS_EmptySet DEF DeleteAll, TableTypeOK
<1>6. CASE (\E s \in Settings : UpdateSettings(s)) \/ UNCHANGED table
  BY <1>6 DEF UpdateSettings, table, TableTypeOK
<1>7. CASE NextDay
  BY <1>7 DEF NextDay, TableTypeOK
<1> QED BY <1>1, <1>2, <1>3, <1>4, <1>5, <1>6, <1>7 DEF TableStep

\* What the settings row may be read as.
LEMMA SettingsTyped ==
  ASSUME TableTypeOK, NEW got \in GetSettings
  PROVE  got.autoRead \in BOOLEAN /\ got.days \in Retention
<1>1. settings \in Settings /\ NoSettings \in Settings
  BY TableAssumption DEF TableTypeOK, NoSettings, Settings
<1>2. got \in Settings
  BY <1>1 DEF GetSettings
<1> QED BY <1>2 DEF Settings

\* The states a monitor's goroutine steps to, when the ids are those of I.
PCs == {"idle", "settings", "insert", "prune", "retention", "sweep", "rlock", "send"}

Local(I) == [pc : PCs, autoRead : BOOLEAN, days : Retention, event : I, day : 0..MaxDay,
             todo : Seq(Stream)]

\* Each assignment to the locals of emitAndPersist keeps their types.
LEMMA LocalTyped ==
  ASSUME NEW I, NEW x \in Local(I)
  PROVE  /\ \A to \in PCs : [x EXCEPT !.pc = to] \in Local(I)
         /\ \A a \in BOOLEAN, e \in I, d \in 0..MaxDay :
              [x EXCEPT !.autoRead = a, !.event = e, !.day = d, !.pc = "insert"] \in Local(I)
         /\ \A n \in Retention, to \in PCs : [x EXCEPT !.days = n, !.pc = to] \in Local(I)
         /\ \A q \in Seq(Stream), to \in PCs : [x EXCEPT !.todo = q, !.pc = to] \in Local(I)
         /\ \A q \in Seq(Stream) : [x EXCEPT !.todo = q] \in Local(I)
         /\ \A e \in I, to \in PCs : [Idle EXCEPT !.pc = to, !.event = e] \in Local(I)
<1>1. ASSUME NEW e \in I, NEW to \in PCs
      PROVE  [Idle EXCEPT !.pc = to, !.event = e] \in Local(I)
  <2>1. Idle \in Local({NoId})
    BY TableAssumption, EmptySeq DEF Local, Idle, PCs
  <2> QED BY <2>1 DEF Local
<1>2. \A to \in PCs : [x EXCEPT !.pc = to] \in Local(I)
  BY DEF Local
<1>3. \A a \in BOOLEAN, e \in I, d \in 0..MaxDay :
        [x EXCEPT !.autoRead = a, !.event = e, !.day = d, !.pc = "insert"] \in Local(I)
  BY DEF Local, PCs
<1>4. \A n \in Retention, to \in PCs : [x EXCEPT !.days = n, !.pc = to] \in Local(I)
  BY DEF Local
<1>5. \A q \in Seq(Stream), to \in PCs : [x EXCEPT !.todo = q, !.pc = to] \in Local(I)
  BY DEF Local
<1>6. \A q \in Seq(Stream) : [x EXCEPT !.todo = q] \in Local(I)
  BY DEF Local
<1> QED BY <1>1, <1>2, <1>3, <1>4, <1>5, <1>6

\* The same for a stream.
StreamOver(I) ==
  [at : {"new", "subscribing", "on", "leaving", "off"}, chan : Seq(I),
   hydrated : BOOLEAN, known : SUBSET I, missed : SUBSET I]

\* Each assignment to a stream's record keeps its types.
LEMMA StreamTyped ==
  ASSUME NEW I, NEW x \in StreamOver(I)
  PROVE  /\ \A to \in {"new", "subscribing", "on", "leaving", "off"} :
              [x EXCEPT !.at = to] \in StreamOver(I)
         /\ \A e \in I : [x EXCEPT !.chan = Append(@, e)] \in StreamOver(I)
         /\ \A e \in I : [x EXCEPT !.missed = @ \cup {e}] \in StreamOver(I)
         /\ x.chan # <<>> =>
              [x EXCEPT !.known = @ \cup {Head(x.chan)}, !.chan = Tail(@)] \in StreamOver(I)
         /\ \A K \in SUBSET I : [x EXCEPT !.hydrated = TRUE, !.known = @ \cup K] \in StreamOver(I)
<1>1. x.chan \in Seq(I) /\ x.known \in SUBSET I /\ x.missed \in SUBSET I
  BY DEF StreamOver
<1>2. \A to \in {"new", "subscribing", "on", "leaving", "off"} :
        [x EXCEPT !.at = to] \in StreamOver(I)
  BY DEF StreamOver
<1>3. \A e \in I : [x EXCEPT !.chan = Append(@, e)] \in StreamOver(I)
  BY <1>1, AppendProperties DEF StreamOver
<1>4. \A e \in I : [x EXCEPT !.missed = @ \cup {e}] \in StreamOver(I)
  BY DEF StreamOver
<1>5. ASSUME x.chan # <<>>
      PROVE  [x EXCEPT !.known = @ \cup {Head(x.chan)}, !.chan = Tail(@)] \in StreamOver(I)
  <2>1. Head(x.chan) \in I /\ Tail(x.chan) \in Seq(I)
    BY <1>1, <1>5, HeadTailProperties
  <2> QED BY <2>1 DEF StreamOver
<1>6. \A K \in SUBSET I : [x EXCEPT !.hydrated = TRUE, !.known = @ \cup K] \in StreamOver(I)
  BY DEF StreamOver
<1> QED BY <1>2, <1>3, <1>4, <1>5, <1>6

\* An event that waits for its INSERT has an id; every row had one.
InsertsStamped ==
  /\ \A p \in Producer : At(p, "insert") => producer[p].event # NoId
  /\ IdsOf(rows) \subseteq everStored

(***************************************************************************)
(* Every step keeps the types; an INSERT puts a proper id into the table,  *)
(* since the monitor took one.                                             *)
(***************************************************************************)
LEMMA BusType == TypeOK /\ InsertsStamped /\ [Next]_vars => TypeOK'
<1> SUFFICES ASSUME TypeOK, InsertsStamped, [Next]_vars PROVE TypeOK'
  OBVIOUS
<1> USE TableAssumption, BusAssumption
<1> DEFINE Unbounded == \A s \in Stream : Len(stream[s].chan) <= ChanCap
<1>0. TableTypeOK /\ lastId \in Nat /\ everStored \subseteq Ids /\ Unbounded
      /\ producer \in [Producer -> ProducerState] /\ stream \in [Stream -> StreamState]
      /\ subscribers \in Seq(Stream) /\ Idle \in ProducerState /\ NoId \in Ids
      /\ New \in StreamState /\ Off \in StreamState /\ New.chan = <<>> /\ Off.chan = <<>>
      /\ Len(<<>>) = 0
  BY IdleTyped, NewTyped DEF TypeOK
<1>1. ASSUME NEW p \in Producer, EmitAndPersist(p)
      PROVE  TypeOK'
  <2>1. producer' \in [Producer -> ProducerState]
    BY <1>0, <1>1 DEF EmitAndPersist, Goto, ProducerState
  <2> QED BY <1>0, <1>1, <2>1
          DEF EmitAndPersist, table, TypeOK, TableTypeOK, ProducerState, StreamState, Ids
<1>2. ASSUME NEW p \in Producer, ReadSettings(p)
      PROVE  TypeOK'
  <2>1. PICK got \in GetSettings :
          producer' = [producer EXCEPT ![p] =
            [producer[p] EXCEPT !.autoRead = got.autoRead, !.event = lastId + 1,
                                !.day = today, !.pc = "insert"]]
    BY <1>2 DEF ReadSettings
  <2>2. got.autoRead \in BOOLEAN
    BY <1>0, <2>1, SettingsTyped
  <2>3. /\ UNCHANGED <<table, stream, subscribers, everStored>>
        /\ lastId' = lastId + 1 /\ lastId' \in Nat /\ lastId <= lastId'
    BY <1>0, <1>2 DEF ReadSettings
  <2>4. /\ Ids \subseteq Ids' /\ producer \in [Producer -> ProducerState']
        /\ stream \in [Stream -> StreamState']
    BY <2>3, TypedLater
  <2>5. lastId + 1 \in Ids' /\ today \in 0..MaxDay
    BY <1>0, <2>3 DEF Ids, TableTypeOK
  <2>6. producer' \in [Producer -> ProducerState']
    <3>1. ProducerState' = Local(Ids')
      BY DEF ProducerState, Local, PCs
    <3>2. producer[p] \in Local(Ids')
      BY <2>4, <3>1
    <3>3. [producer[p] EXCEPT !.autoRead = got.autoRead, !.event = lastId + 1, !.day = today,
                              !.pc = "insert"] \in Local(Ids')
      BY <2>2, <2>5, <3>2, LocalTyped
    <3> QED BY <2>1, <2>4, <3>1, <3>3
  <2>7. TableTypeOK'
    BY <1>0, <2>3 DEF table, TableTypeOK
  <2>8. everStored' \subseteq Ids' /\ stream' \in [Stream -> StreamState'] /\ subscribers' \in Seq(Stream)
    BY <1>0, <2>3, <2>4
  <2>9. \A s \in Stream : Len(stream'[s].chan) <= ChanCap
    BY <1>0, <2>3
  <2> QED BY <2>3, <2>6, <2>7, <2>8, <2>9 DEF TypeOK
<1>3. ASSUME NEW p \in Producer, InsertRow(p)
      PROVE  TypeOK'
  <2>1. lastId' = lastId /\ Ids' = Ids /\ ProducerState' = ProducerState /\ StreamState' = StreamState
        /\ UNCHANGED <<stream, subscribers>>
    BY <1>3 DEF InsertRow, Ids, ProducerState, StreamState
  <2>2. producer' \in [Producer -> ProducerState]
    <3>1. ProducerState = Local(Ids) /\ producer[p].event \in Ids
      BY <1>0 DEF ProducerState, Local, PCs
    <3>2. \A to \in PCs : /\ [Idle EXCEPT !.pc = to, !.event = producer[p].event] \in Local(Ids)
                         /\ [Idle EXCEPT !.pc = to] \in Local(Ids)
      BY <1>0, <3>1, LocalTyped
    <3> QED BY <1>0, <1>3, <3>1, <3>2 DEF InsertRow, PCs
  <2>3. everStored' \subseteq Ids
    BY <1>0, <1>3 DEF InsertRow, StoreRow, ProducerState
  <2>4. TableTypeOK'
    <3>1. CASE UNCHANGED table
      BY <1>0, <3>1 DEF table, TableTypeOK
    <3>2. CASE StoreRow(p)
      <4> DEFINE r == [id |-> producer[p].event, day |-> producer[p].day,
                       read |-> producer[p].autoRead]
      <4>1. producer[p].event \in Nat \ {0} /\ producer[p].day \in 0..MaxDay
        BY <1>0, <1>3, SMTT(30) DEF InsertRow, InsertsStamped, ProducerState, Ids, NoId
      <4>2. producer[p].autoRead \in BOOLEAN
        BY <1>0 DEF ProducerState
      <4>3. r \in Row
        BY <4>1, <4>2 DEF Row
      <4> HIDE DEF r
      <4>4. rows' = rows \cup {r} /\ unpruned' = unpruned + 1 /\ UNCHANGED <<settings, today>>
        BY <3>2 DEF StoreRow, Insert, r
      <4> QED BY <1>0, <4>3, <4>4, FS_AddElement DEF TableTypeOK
    <3> QED BY <1>3, <3>1, <3>2 DEF InsertRow
  <2> QED BY <1>0, <2>1, <2>2, <2>3, <2>4 DEF TypeOK
<1>4. ASSUME TableStep, UNCHANGED <<lastId, everStored, subscribers>>,
             producer' \in [Producer -> Local(Ids)], stream' \in [Stream -> StreamOver(Ids)],
             \A s \in Stream : Len(stream'[s].chan) <= ChanCap
      PROVE  TypeOK'
  <2>1. TableTypeOK'
    BY <1>0, <1>4, TableStepTyped
  <2>2. /\ Ids' = Ids /\ ProducerState' = Local(Ids) /\ StreamState' = StreamOver(Ids)
    BY <1>4 DEF Ids, ProducerState, Local, PCs, StreamState, StreamOver
  <2> QED BY <1>0, <1>4, <2>1, <2>2 DEF TypeOK
<1>5. ProducerState = Local(Ids) /\ StreamState = StreamOver(Ids)
  BY DEF ProducerState, Local, PCs, StreamState, StreamOver
<1>6. ASSUME NEW p \in Producer,
             \/ EmitAndPersist(p) \/ Prune(p) \/ ReadRetention(p) \/ Sweep(p)
      PROVE  TypeOK'
  <2>1. UNCHANGED <<stream, lastId, everStored, subscribers>>
    BY <1>6 DEF EmitAndPersist, Prune, ReadRetention, Sweep, counts
  <2>2. TableStep
    <3>1. producer[p].days \in Retention
      BY <1>0 DEF ProducerState
    <3> QED BY <1>6, <3>1 DEF EmitAndPersist, Prune, ReadRetention, Sweep, TableStep
  <2>3. producer' \in [Producer -> Local(Ids)]
    <3>1. CASE EmitAndPersist(p) \/ Prune(p)
      <4>1. PICK to \in PCs : producer' = [producer EXCEPT ![p].pc = to]
        BY <3>1 DEF EmitAndPersist, Prune, Goto, PCs
      <4>2. [producer[p] EXCEPT !.pc = to] \in Local(Ids)
        BY <1>0, <1>5, LocalTyped
      <4>3. producer' = [producer EXCEPT ![p] = [producer[p] EXCEPT !.pc = to]]
        BY <4>1
      <4> QED BY <1>0, <1>5, <4>2, <4>3
    <3>2. CASE ReadRetention(p)
      <4>1. PICK got \in GetSettings :
              producer' = [producer EXCEPT ![p] = [producer[p] EXCEPT !.days = got.days,
                             !.pc = IF got.days > 0 THEN "sweep" ELSE "rlock"]]
        BY <3>2 DEF ReadRetention
      <4>2. got.days \in Retention
        BY <1>0, SettingsTyped
      <4>3. [producer[p] EXCEPT !.days = got.days,
                                !.pc = IF got.days > 0 THEN "sweep" ELSE "rlock"] \in Local(Ids)
        BY <1>0, <1>5, <4>2, LocalTyped DEF PCs
      <4> QED BY <1>0, <1>5, <4>1, <4>3
    <3>3. CASE Sweep(p)
      <4>1. [producer[p] EXCEPT !.days = 0, !.pc = "rlock"] \in Local(Ids)
        BY <1>0, <1>5, LocalTyped DEF PCs
      <4> QED BY <1>0, <1>5, <3>3, <4>1 DEF Sweep
    <3> QED BY <1>6, <3>1, <3>2, <3>3
  <2> QED BY <1>0, <1>4, <1>5, <2>1, <2>2, <2>3
<1>7. ASSUME NEW p \in Producer, RLock(p) \/ RUnlock(p)
      PROVE  TypeOK'
  <2>1. UNCHANGED <<table, stream, lastId, everStored, subscribers>>
    BY <1>7 DEF RLock, RUnlock, counts
  <2>2. producer' \in [Producer -> Local(Ids)]
    <3>1. [producer[p] EXCEPT !.todo = subscribers, !.pc = "send"] \in Local(Ids)
      BY <1>0, <1>5, LocalTyped DEF PCs
    <3> QED BY <1>0, <1>5, <1>7, <3>1 DEF RLock, RUnlock
  <2> QED BY <1>0, <1>4, <1>5, <2>1, <2>2 DEF TableStep
<1>8. ASSUME NEW p \in Producer, Send(p)
      PROVE  TypeOK'
  <2> DEFINE s == Head(producer[p].todo)
             e == producer[p].event
  <2>1. producer[p].todo \in Seq(Stream) /\ producer[p].todo # <<>> /\ e \in Ids
    BY <1>0, <1>8 DEF Send, ProducerState
  <2>2. s \in Stream /\ Tail(producer[p].todo) \in Seq(Stream)
    BY <2>1, HeadTailProperties
  <2>3. [producer[p] EXCEPT !.todo = Tail(producer[p].todo)] \in Local(Ids)
    BY <1>0, <1>5, <2>2, LocalTyped
  <2>4. producer' = [producer EXCEPT ![p] = [producer[p] EXCEPT !.todo = Tail(producer[p].todo)]]
    BY <1>8 DEF Send
  <2>5. producer' \in [Producer -> Local(Ids)]
    BY <1>0, <1>5, <2>3, <2>4
  <2>6. stream[s].chan \in Seq(Ids) /\ stream[s] \in StreamOver(Ids)
    BY <1>0, <1>5, <2>2 DEF StreamOver
  <2>7. /\ [stream[s] EXCEPT !.chan = Append(@, e)] \in StreamOver(Ids)
        /\ [stream[s] EXCEPT !.missed = @ \cup {e}] \in StreamOver(Ids)
    BY <2>1, <2>6, StreamTyped
  <2>8. Len(Append(stream[s].chan, e)) = Len(stream[s].chan) + 1 /\ Len(stream[s].chan) \in Nat
    BY <2>1, <2>6, AppendProperties, SMTT(30)
  <2>9. \/ /\ Len(stream[s].chan) < ChanCap
           /\ stream' = [stream EXCEPT ![s] = [stream[s] EXCEPT !.chan = Append(stream[s].chan, e)]]
        \/ stream' = [stream EXCEPT ![s] = [stream[s] EXCEPT !.missed = stream[s].missed \cup {e}]]
    BY <1>8 DEF Send
  <2> HIDE DEF s, e
  <2>10. stream' \in [Stream -> StreamOver(Ids)]
    BY <1>0, <1>5, <2>2, <2>7, <2>9
  <2>11. \A t \in Stream : Len(stream'[t].chan) <= ChanCap
    <3>1. /\ [stream[s] EXCEPT !.chan = Append(@, e)].chan = Append(stream[s].chan, e)
          /\ [stream[s] EXCEPT !.missed = @ \cup {e}].chan = stream[s].chan
      BY <2>6 DEF StreamOver
    <3>2. \/ /\ Len(stream[s].chan) < ChanCap
             /\ stream'[s].chan = Append(stream[s].chan, e)
          \/ stream'[s].chan = stream[s].chan
      BY <1>0, <2>2, <2>9, <3>1
    <3>3. \A t \in Stream : t # s => stream'[t] = stream[t]
      BY <1>0, <2>9
    <3>4. Len(stream'[s].chan) <= ChanCap
      BY <1>0, <2>2, <2>8, <3>2
    <3> QED BY <1>0, <3>3, <3>4
  <2>12. TableStep /\ UNCHANGED <<lastId, everStored, subscribers>>
    BY <1>8 DEF Send, TableStep, counts
  <2> QED BY <1>4, <2>5, <2>10, <2>11, <2>12
<1>9. ASSUME NEW s \in Stream, NEW x \in StreamOver(Ids), Len(x.chan) <= ChanCap,
             stream' = [stream EXCEPT ![s] = x], UNCHANGED <<table, producer, counts>>,
             subscribers' \in Seq(Stream)
      PROVE  TypeOK'
  <2>1. TableTypeOK' /\ UNCHANGED <<lastId, everStored>>
    BY <1>0, <1>9, TableStepTyped DEF TableStep, counts
  <2>2. Ids' = Ids /\ ProducerState' = ProducerState /\ StreamState' = StreamOver(Ids)
    BY <2>1 DEF Ids, ProducerState, StreamState, StreamOver
  <2>3. stream' \in [Stream -> StreamOver(Ids)] /\ \A t \in Stream : Len(stream'[t].chan) <= ChanCap
    BY <1>0, <1>5, <1>9
  <2> QED BY <1>0, <1>9, <2>1, <2>2, <2>3 DEF TypeOK
<1>10. ASSUME NEW s \in Stream, Connect(s) \/ Subscribe(s)
      PROVE  TypeOK'
  <2>1. PICK to \in {"subscribing", "on"} : stream' = [stream EXCEPT ![s].at = to]
    BY <1>10 DEF Connect, Subscribe
  <2>2. stream[s] \in StreamOver(Ids)
    BY <1>0, <1>5
  <2>3. [stream[s] EXCEPT !.at = to] \in StreamOver(Ids)
    BY <2>2, StreamTyped
  <2>4. [stream[s] EXCEPT !.at = to].chan = stream[s].chan
    BY <2>2 DEF StreamOver
  <2>5. stream' = [stream EXCEPT ![s] = [stream[s] EXCEPT !.at = to]]
    BY <2>1
  <2>6. subscribers' \in Seq(Stream)
    <3>1. Append(subscribers, s) \in Seq(Stream)
      BY <1>0, AppendProperties
    <3> QED BY <1>0, <1>10, <3>1 DEF Connect, Subscribe
  <2>7. UNCHANGED <<table, producer, counts>>
    BY <1>10 DEF Connect, Subscribe
  <2>8. Len(stream[s].chan) <= ChanCap
    BY <1>0
  <2> QED BY <1>9, <2>3, <2>4, <2>5, <2>6, <2>7, <2>8
<1>11. ASSUME NEW s \in Stream, Deliver(s)
      PROVE  TypeOK'
  <2> DEFINE x == [stream[s] EXCEPT !.known = @ \cup {Head(stream[s].chan)}, !.chan = Tail(@)]
  <2>1. stream[s] \in StreamOver(Ids) /\ stream[s].chan # <<>> /\ stream[s].chan \in Seq(Ids)
    BY <1>0, <1>5, <1>11 DEF Deliver, StreamOver
  <2>2. x \in StreamOver(Ids)
    BY <2>1, StreamTyped
  <2>3. x.chan = Tail(stream[s].chan)
    BY <2>1 DEF StreamOver
  <2>4. Len(Tail(stream[s].chan)) = Len(stream[s].chan) - 1 /\ Len(stream[s].chan) \in Nat
    BY <2>1, HeadTailProperties
  <2>5. Len(x.chan) <= ChanCap
    BY <1>0, <2>3, <2>4
  <2>6. stream' = [stream EXCEPT ![s] = x] /\ UNCHANGED <<table, producer, counts, subscribers>>
    BY <1>11 DEF Deliver
  <2> HIDE DEF x
  <2> QED BY <1>0, <1>9, <2>2, <2>5, <2>6
<1>12. ASSUME NEW s \in Stream, Disconnect(s)
      PROVE  TypeOK'
  <2> DEFINE x == [New EXCEPT !.at = "leaving", !.chan = stream[s].chan]
  <2>1. stream[s].chan \in Seq(Ids)
    BY <1>0, <1>5 DEF StreamOver
  <2>2. x \in StreamOver(Ids) /\ x.chan = stream[s].chan
    BY <1>0, <1>5, <2>1 DEF StreamOver
  <2>3. stream' = [stream EXCEPT ![s] = x] /\ UNCHANGED <<table, producer, counts, subscribers>>
    BY <1>12 DEF Disconnect
  <2>4. Len(x.chan) <= ChanCap
    BY <1>0, <2>2
  <2> HIDE DEF x
  <2> QED BY <1>0, <1>9, <2>2, <2>3, <2>4
<1>13. ASSUME NEW s \in Stream, Unsubscribe(s)
      PROVE  TypeOK'
  <2>1. PICK i \in DOMAIN subscribers :
          subscribers' = SubSeq(subscribers, 1, i - 1) \o SubSeq(subscribers, i + 1, Len(subscribers))
    BY <1>13 DEF Unsubscribe, Remove
  <2>2. subscribers' \in Seq(Stream)
    BY <1>0, <2>1
  <2>3. stream' = [stream EXCEPT ![s] = Off] /\ UNCHANGED <<table, producer, counts>>
    BY <1>13 DEF Unsubscribe
  <2>4. Len(Off.chan) <= ChanCap
    BY <1>0
  <2> QED BY <1>0, <1>5, <1>9, <2>2, <2>3, <2>4
<1>14. ASSUME NEW s \in Stream, Hydrate(s)
      PROVE  TypeOK'
  <2> DEFINE K == {r.id : r \in List}
             x == [stream[s] EXCEPT !.hydrated = TRUE, !.known = @ \cup K]
  <2>1. stream[s] \in StreamOver(Ids)
    BY <1>0, <1>5
  <2>2. K \in SUBSET Ids
    BY <1>0 DEF InsertsStamped, IdsOf, List, Newest
  <2>3. x \in StreamOver(Ids) /\ x.chan = stream[s].chan
    <3> HIDE DEF K
    <3>1. x \in StreamOver(Ids)
      BY <2>1, <2>2, StreamTyped
    <3> QED BY <2>1, <3>1 DEF StreamOver
  <2>4. stream' = [stream EXCEPT ![s] = x] /\ UNCHANGED <<table, producer, counts, subscribers>>
    BY <1>14 DEF Hydrate
  <2>5. Len(x.chan) <= ChanCap
    BY <1>0, <2>3
  <2> HIDE DEF x
  <2> QED BY <1>0, <1>9, <2>3, <2>4, <2>5
<1>15. ASSUME \/ MarkNotificationRead \/ MarkAllNotificationsRead \/ ClearNotifications
              \/ UpdateNotificationSettings \/ Day \/ UNCHANGED vars
       PROVE  TypeOK'
  <2>1. UNCHANGED <<producer, stream, subscribers, lastId, everStored>>
    BY <1>15 DEF MarkNotificationRead, MarkAllNotificationsRead, ClearNotifications,
                 UpdateNotificationSettings, Call, Day, counts, vars
  <2>2. TableStep
    BY <1>15 DEF MarkNotificationRead, MarkAllNotificationsRead, ClearNotifications,
                 UpdateNotificationSettings, Day, vars, TableStep
  <2> QED BY <1>0, <1>4, <1>5, <2>1, <2>2
<1>16. CASE Restart
  <2>1. /\ UNCHANGED <<lastId, everStored>> /\ subscribers' = <<>>
        /\ producer' = [p \in Producer |-> Idle]
        /\ stream' = [s \in Stream |-> IF stream[s].at = "new" THEN New ELSE Off]
    BY <1>16 DEF Restart
  <2>2. TableStep
    BY <1>0, <1>16, SettingsTyped DEF Restart, SweepOnStartup, TableStep
  <2>3. TableTypeOK'
    BY <1>0, <2>2, TableStepTyped
  <2>4. Ids' = Ids /\ ProducerState' = ProducerState /\ StreamState' = StreamState
    BY <2>1 DEF Ids, ProducerState, StreamState
  <2>5. producer' \in [Producer -> ProducerState] /\ stream' \in [Stream -> StreamState]
    BY <1>0, <2>1
  <2>6. \A s \in Stream : Len(stream'[s].chan) <= ChanCap
    BY <1>0, <2>1
  <2>7. subscribers' \in Seq(Stream)
    BY <2>1, EmptySeq
  <2> QED BY <1>0, <2>1, <2>3, <2>4, <2>5, <2>6, <2>7 DEF TypeOK
<1> QED
  BY <1>1, <1>2, <1>3, <1>6, <1>7, <1>8, <1>10, <1>11, <1>12, <1>13, <1>14, <1>15, <1>16
  DEF Next, Produce

-----------------------------------------------------------------------------
(* What a change of the table may do. *)

(***************************************************************************)
(* An RPC, a sweep or a prune adds no row, changes no id and no day, keeps *)
(* the table within its bound, and brings no row into the panel's list     *)
(* that was not in it: a sweep by age deletes the oldest, as the order of  *)
(* ids is the order of days.                                               *)
(***************************************************************************)
LEMMA TableStepShrinks ==
  ASSUME TableTypeOK, TableTypeOK', OneRowPerId(rows), TableBounded, TableStep,
         \A r, q \in rows : r.id < q.id => r.day <= q.day
  PROVE  /\ OneRowPerId(rows') /\ TableBounded' /\ today <= today'
         /\ \A r \in rows' : \E q \in rows : q.id = r.id /\ q.day = r.day
         /\ IdsOf(List') \subseteq IdsOf(List)
<1> USE TableAssumption
<1> DEFINE Kept(R) == /\ OneRowPerId(R) /\ Cardinality(R) <= Cardinality(rows)
                      /\ \A r \in R : \E q \in rows : q.id = r.id /\ q.day = r.day
                      /\ IdsOf(NewestOf(R, MaxStored)) \subseteq IdsOf(NewestOf(rows, MaxStored))
<1>1. List = NewestOf(rows, MaxStored) /\ List' = NewestOf(rows', MaxStored)
  BY DEF List, Newest, NewestOf
<1>2. today \in Nat /\ MaxStored \in Nat /\ unpruned \in Nat /\ IsFiniteSet(rows)
      /\ Cardinality(rows) \in Nat /\ IsFiniteSet(rows') /\ Cardinality(rows') \in Nat
  BY FS_CardinalityType DEF TableTypeOK
<1>3. ASSUME NEW R \in SUBSET rows, \A r \in R, q \in rows : q.id > r.id => q \in R
      PROVE  Kept(R)
  <2>1. NewestOf(R, MaxStored) \subseteq NewestOf(rows, MaxStored)
    BY <1>3, OldestDeleted
  <2>2. Cardinality(R) <= Cardinality(rows)
    BY <1>2, FS_Subset
  <2> QED BY <2>1, <2>2 DEF OneRowPerId, IdsOf
<1>4. Kept(rows)
  BY <1>3
<1>5. ASSUME Kept(rows'), UNCHANGED unpruned, today <= today'
      PROVE  /\ OneRowPerId(rows') /\ TableBounded' /\ today <= today'
             /\ \A r \in rows' : \E q \in rows : q.id = r.id /\ q.day = r.day
             /\ IdsOf(List') \subseteq IdsOf(List)
  BY <1>1, <1>2, <1>5 DEF TableBounded
<1>6. ASSUME NEW f, f = [r \in rows |-> f[r]], rows' = {f[r] : r \in rows},
             \A r \in rows : f[r].id = r.id /\ f[r].day = r.day
      PROVE  Kept(rows')
  <2>1. Cardinality(rows') <= Cardinality(rows)
    BY <1>2, <1>6, FiniteImage
  <2>2. OneRowPerId(rows') /\ IdsOf(rows') = IdsOf(rows)
    BY <1>6 DEF OneRowPerId, IdsOf
  <2>3. IdsOf(NewestOf(rows', MaxStored)) = IdsOf(NewestOf(rows, MaxStored))
    BY <1>2, <2>2, RowsRewritten
  <2>4. \A r \in rows' : \E q \in rows : q.id = r.id /\ q.day = r.day
    BY <1>6
  <2> QED BY <2>1, <2>2, <2>3, <2>4
<1> HIDE DEF Kept
<1>7. CASE PruneOlderThan
  <2>1. rows' = NewestOf(rows, MaxStored) /\ rows' \in SUBSET rows /\ UNCHANGED today
    BY <1>7 DEF PruneOlderThan, Newest, NewestOf
  <2>2. ASSUME NEW r \in rows', NEW q \in rows, q.id > r.id
        PROVE  q \in rows'
    <3>1. {x \in rows : x.id > q.id} \in SUBSET {x \in rows : x.id > r.id}
      BY <2>1, <2>2 DEF TableTypeOK, Row
    <3>2. {x \in rows : x.id > r.id} \in SUBSET rows
      OBVIOUS
    <3>3. /\ Cardinality({x \in rows : x.id > q.id}) <= Cardinality({x \in rows : x.id > r.id})
          /\ Cardinality({x \in rows : x.id > q.id}) \in Nat
          /\ Cardinality({x \in rows : x.id > r.id}) \in Nat
      BY <1>2, <3>1, <3>2, FS_Subset, FS_CardinalityType
    <3>4. Cardinality({x \in rows : x.id > r.id}) < MaxStored
      BY <2>1 DEF NewestOf
    <3>5. Cardinality({x \in rows : x.id > q.id}) < MaxStored
      BY <1>2, <3>3, <3>4
    <3> QED BY <2>1, <3>5 DEF NewestOf
  <2>3. Kept(rows')
    BY <1>3, <2>1, <2>2
  <2>4. Cardinality(rows') <= MaxStored /\ unpruned' = 0
    BY <1>2, <1>7, NewestBounded DEF PruneOlderThan
  <2>5. TableBounded'
    BY <1>2, <2>4 DEF TableBounded
  <2> QED BY <1>1, <1>2, <2>1, <2>3, <2>5 DEF Kept
<1>8. ASSUME NEW n \in Retention, DeleteOlderThanDays(n)
      PROVE  Kept(rows') /\ UNCHANGED <<unpruned, today>>
  <2>1. n \in Nat /\ UNCHANGED <<unpruned, today>>
    BY <1>8 DEF DeleteOlderThanDays
  <2>2. CASE n <= 0
    BY <1>4, <1>8, <2>1, <2>2 DEF DeleteOlderThanDays
  <2>3. CASE ~(n <= 0)
    <3>1. rows' = {r \in rows : r.day + n > today}
      BY <1>8, <2>3 DEF DeleteOlderThanDays
    <3>2. \A r \in rows : r.day \in Nat
      BY DEF TableTypeOK, Row
    <3>3. \A r \in rows', q \in rows : q.id > r.id => q \in rows'
      <4> SUFFICES ASSUME NEW r \in rows', NEW q \in rows, q.id > r.id
                   PROVE  q.day + n > today
        BY <3>1
      <4>1. r \in rows /\ r.day + n > today
        BY <3>1
      <4>2. r.id < q.id
        BY <4>1 DEF TableTypeOK, Row
      <4>3. r.day <= q.day
        BY <4>1, <4>2
      <4> QED BY <1>2, <2>1, <3>2, <4>1, <4>3
    <3>4. rows' \in SUBSET rows
      BY <3>1
    <3> QED BY <1>3, <2>1, <3>3, <3>4
  <2> QED BY <2>2, <2>3
<1>9. ASSUME NEW i, MarkRead(i)
      PROVE  Kept(rows') /\ UNCHANGED <<unpruned, today>>
  <2> DEFINE mark == [r \in rows |-> [r EXCEPT !.read = @ \/ r.id = i]]
  <2>1. rows' = {mark[r] : r \in rows} /\ UNCHANGED <<unpruned, today>>
    BY <1>9 DEF MarkRead
  <2>2. \A r \in rows : mark[r].id = r.id /\ mark[r].day = r.day
    BY DEF TableTypeOK, Row
  <2>3. mark = [r \in rows |-> mark[r]]
    OBVIOUS
  <2> HIDE DEF mark
  <2> QED BY <1>6, <2>1, <2>2, <2>3
<1>10. CASE MarkAllRead
  <2> DEFINE mark == [r \in rows |-> [r EXCEPT !.read = TRUE]]
  <2>1. rows' = {mark[r] : r \in rows} /\ UNCHANGED <<unpruned, today>>
    BY <1>10 DEF MarkAllRead
  <2>2. \A r \in rows : mark[r].id = r.id /\ mark[r].day = r.day
    BY DEF TableTypeOK, Row
  <2>3. mark = [r \in rows |-> mark[r]]
    OBVIOUS
  <2> HIDE DEF mark
  <2>4. Kept(rows')
    BY <1>6, <2>1, <2>2, <2>3
  <2> QED BY <1>2, <1>5, <2>1, <2>4
<1>11. CASE DeleteAll
  <2>1. rows' = {} /\ UNCHANGED <<unpruned, today>>
    BY <1>11 DEF DeleteAll
  <2>2. Kept(rows')
    BY <1>3, <2>1
  <2> QED BY <1>2, <1>5, <2>1, <2>2
<1>12. CASE (\E s \in Settings : UpdateSettings(s)) \/ NextDay \/ UNCHANGED table
  <2>1. rows' = rows /\ UNCHANGED unpruned /\ today <= today'
    BY <1>2, <1>12 DEF UpdateSettings, NextDay, table
  <2> QED BY <1>4, <1>5, <2>1
<1> QED
  BY <1>2, <1>5, <1>7, <1>8, <1>9, <1>10, <1>11, <1>12 DEF TableStep

-----------------------------------------------------------------------------
(* The inductive invariant. *)

\* The id and day of every row, and of every event on its way into the table.
Stamped ==
  {<<r.id, r.day>> : r \in rows}
    \cup {<<producer[p].event, producer[p].day>> : p \in {q \in Producer : At(q, "insert")}}

(***************************************************************************)
(* Ids and stamps are taken together, so that one order is the other: what *)
(* a sweep by age deletes is older than all it leaves.                     *)
(***************************************************************************)
StampsOrdered ==
  /\ \A x \in Stamped : x[1] \in 1..lastId /\ x[2] <= today
  /\ \A x, y \in Stamped : x[1] < y[1] => x[2] <= y[2]

(***************************************************************************)
(* An id is inserted once; an event past its INSERT has an id that was     *)
(* stored, or none.                                                        *)
(***************************************************************************)
IdsFresh ==
  /\ OneRowPerId(rows) /\ IdsOf(rows) \subseteq everStored /\ NoId \notin everStored
  /\ \A p \in Producer :
       IF At(p, "insert") THEN producer[p].event \notin everStored
       ELSE producer[p].event \in everStored \cup {NoId}
  /\ \A p, q \in Producer :
       At(p, "insert") /\ At(q, "insert") /\ producer[p].event = producer[q].event => p = q

(***************************************************************************)
(* The list holds each open channel once and no closed one; an emit loop   *)
(* has only open ones before it, and keeps them open by its read lock.     *)
(***************************************************************************)
Open(s) == stream[s].at \in {"on", "leaving"}

LoopsOpen ==
  /\ \A p \in Producer : ~At(p, "send") => producer[p].todo = <<>>
  /\ \A p \in Producer : \A s \in Elements(producer[p].todo) : Open(s)
  /\ \A s \in Stream : s \in Elements(subscribers) <=> Open(s)
  /\ \A i, j \in DOMAIN subscribers : subscribers[i] = subscribers[j] => i = j

(***************************************************************************)
(* What a client knows and has coming was stored; what the panel lists is  *)
(* known to it, dropped or coming.                                         *)
(***************************************************************************)
StreamSound(s) ==
  /\ stream[s].known \cup Elements(stream[s].chan) \subseteq everStored \cup {NoId}
  /\ stream[s].at # "on" => ~stream[s].hydrated
  /\ stream[s].at = "on" /\ stream[s].hydrated =>
       IdsOf(List) \subseteq stream[s].known \cup stream[s].missed \cup OnItsWay(s)

BusInv ==
  /\ TableBounded /\ StampsOrdered /\ IdsFresh /\ LoopsOpen
  /\ \A s \in Stream : StreamSound(s)

(***************************************************************************)
(* Removing the entry of s takes s off the list and nobody else.           *)
(***************************************************************************)
LEMMA RemoveTakesOne ==
  ASSUME subscribers \in Seq(Stream), NEW s \in Stream, Remove(s),
         \A i, j \in DOMAIN subscribers : subscribers[i] = subscribers[j] => i = j
  PROVE  /\ Elements(subscribers') = Elements(subscribers) \ {s}
         /\ \A i, j \in DOMAIN subscribers' : subscribers'[i] = subscribers'[j] => i = j
<1> DEFINE n == Len(subscribers)
<1>1. n \in Nat /\ DOMAIN subscribers = 1..n
  BY LenProperties
<1>2. PICK k \in 1..n :
        /\ subscribers[k] = s
        /\ subscribers' = SubSeq(subscribers, 1, k - 1) \o SubSeq(subscribers, k + 1, n)
  BY <1>1 DEF Remove
<1> DEFINE left == SubSeq(subscribers, 1, k - 1)
           right == SubSeq(subscribers, k + 1, n)
<1>3. /\ left \in Seq(Stream) /\ Len(left) = k - 1
      /\ \A i \in 1..(k - 1) : left[i] = subscribers[i]
  BY <1>1
<1>4. /\ right \in Seq(Stream) /\ Len(right) = n - k
      /\ \A i \in 1..(n - k) : right[i] = subscribers[k + i]
  <2>1. k + 1 \in Int /\ n \in Int /\ \A i \in (k + 1)..n : subscribers[i] \in Stream
    BY <1>1, ElementOfSeq
  <2>2. /\ right \in Seq(Stream)
        /\ Len(right) = IF k + 1 <= n THEN n - (k + 1) + 1 ELSE 0
        /\ \A i \in 1..(n - (k + 1) + 1) : right[i] = subscribers[(k + 1) + i - 1]
    BY <2>1, SubSeqProperties
  <2> HIDE DEF right, n
  <2>3. Len(right) = n - k
    <3>1. CASE k = n
      BY <1>1, <2>2, <3>1
    <3>2. CASE k < n
      BY <1>1, <2>2, <3>2
    <3> QED BY <1>1, <3>1, <3>2
  <2>4. (k + 1) \in Int /\ n - (k + 1) + 1 = n - k /\ \A i \in 1..(n - k) : (k + 1) + i - 1 = k + i
    BY <1>1
  <2> QED BY <2>2, <2>3, <2>4
<1>5. subscribers' = left \o right
  BY <1>2
<1> HIDE DEF left, right
<1>6. /\ subscribers' \in Seq(Stream) /\ Len(subscribers') = n - 1
      /\ \A i \in 1..(n - 1) : subscribers'[i] = IF i < k THEN subscribers[i] ELSE subscribers[i + 1]
  <2>1. /\ left \o right \in Seq(Stream) /\ Len(left \o right) = (k - 1) + (n - k)
        /\ \A i \in 1..((k - 1) + (n - k)) :
             (left \o right)[i] = IF i <= k - 1 THEN left[i] ELSE right[i - (k - 1)]
    <3>1. /\ left \o right \in Seq(Stream) /\ Len(left \o right) = Len(left) + Len(right)
          /\ \A i \in 1..(Len(left) + Len(right)) :
               (left \o right)[i] = IF i <= Len(left) THEN left[i] ELSE right[i - Len(left)]
      BY <1>3, <1>4, ConcatProperties, ZenonT(40)
    <3> QED BY <1>3, <1>4, <3>1
  <2> HIDE DEF n
  <2>2. Len(subscribers') = n - 1
    BY <1>1, <1>5, <2>1
  <2>3. ASSUME NEW i \in 1..(n - 1)
        PROVE  subscribers'[i] = IF i < k THEN subscribers[i] ELSE subscribers[i + 1]
    <3>1. CASE i < k
      BY <1>1, <1>3, <1>5, <2>1, <3>1
    <3>2. CASE ~(i < k)
      <4>1. i - (k - 1) \in 1..(n - k) /\ k + (i - (k - 1)) = i + 1
        BY <1>1, <3>2
      <4>2. subscribers'[i] = right[i - (k - 1)]
        BY <1>1, <1>5, <2>1, <3>2
      <4> QED BY <1>4, <3>2, <4>1, <4>2
    <3> QED BY <3>1, <3>2
  <2> QED BY <1>5, <2>1, <2>2, <2>3
<1>7. DOMAIN subscribers' = 1..(n - 1)
  BY <1>6, LenProperties
<1> HIDE DEF n
<1>8. \A i \in 1..n : i # k => subscribers[i] # s
  BY <1>1, <1>2
<1>9. \A i \in DOMAIN subscribers' : subscribers'[i] \in Elements(subscribers) \ {s}
  BY <1>1, <1>6, <1>7, <1>8, SMTT(30) DEF Elements
<1>10. ASSUME NEW i \in 1..n, i # k
       PROVE  subscribers[i] \in Elements(subscribers')
  <2>1. CASE i < k
    <3>1. i \in 1..(n - 1) /\ subscribers'[i] = subscribers[i]
      BY <1>1, <1>6, <2>1
    <3> QED BY <1>7, <3>1 DEF Elements
  <2>2. CASE i > k
    <3>1. i - 1 \in 1..(n - 1) /\ subscribers'[i - 1] = subscribers[i]
      BY <1>1, <1>6, <2>2
    <3> QED BY <1>7, <3>1 DEF Elements
  <2> QED BY <1>10, <2>1, <2>2
<1>11. Elements(subscribers') = Elements(subscribers) \ {s}
  <2>1. Elements(subscribers') \subseteq Elements(subscribers) \ {s}
    BY <1>9 DEF Elements
  <2>2. Elements(subscribers) \ {s} \subseteq Elements(subscribers')
    <3> SUFFICES ASSUME NEW t \in Elements(subscribers) \ {s} PROVE t \in Elements(subscribers')
      OBVIOUS
    <3>1. PICK i \in 1..n : subscribers[i] = t
      BY <1>1 DEF Elements
    <3> QED BY <1>2, <1>10, <3>1
  <2> QED BY <2>1, <2>2
<1>12. \A i, j \in DOMAIN subscribers' : subscribers'[i] = subscribers'[j] => i = j
  <2> SUFFICES ASSUME NEW i \in 1..(n - 1), NEW j \in 1..(n - 1), subscribers'[i] = subscribers'[j]
               PROVE  i = j
    BY <1>7
  <2> DEFINE at(x) == IF x < k THEN x ELSE x + 1
  <2>1. at(i) \in 1..n /\ at(j) \in 1..n
    BY <1>1
  <2>2. subscribers[at(i)] = subscribers[at(j)]
    BY <1>6
  <2>3. at(i) = at(j)
    BY <1>1, <2>1, <2>2
  <2> QED BY <1>1, <2>3
<1> QED BY <1>11, <1>12

\* The elements of the rest of a queue, and of a longer one.
LEMMA QueueElements ==
  ASSUME NEW S, NEW q \in Seq(S)
  PROVE  /\ q # <<>> => Elements(q) = {Head(q)} \cup Elements(Tail(q))
         /\ \A e \in S : Elements(Append(q, e)) = Elements(q) \cup {e}
         /\ Elements(<<>>) = {} /\ Elements(q) \subseteq S
<1>1. Len(q) \in Nat /\ DOMAIN q = 1..Len(q)
  BY LenProperties
<1>2. ASSUME q # <<>> PROVE Elements(q) = {Head(q)} \cup Elements(Tail(q))
  <2>1. /\ Head(q) = q[1] /\ Len(q) >= 1
        /\ Tail(q) \in Seq(S) /\ Len(Tail(q)) = Len(q) - 1
        /\ \A i \in 1..Len(Tail(q)) : Tail(q)[i] = q[i + 1]
    BY <1>1, <1>2, EmptySeq, HeadTailProperties
  <2>2. DOMAIN Tail(q) = 1..(Len(q) - 1)
    BY <2>1, LenProperties
  <2>3. \A i \in 1..Len(q) : i = 1 \/ (i - 1 \in 1..(Len(q) - 1) /\ Tail(q)[i - 1] = q[i])
    BY <1>1, <2>1
  <2>4. \A i \in 1..(Len(q) - 1) : i + 1 \in 1..Len(q) /\ Tail(q)[i] = q[i + 1]
    BY <1>1, <2>1
  <2>5. Elements(q) \subseteq {Head(q)} \cup Elements(Tail(q))
    <3> SUFFICES ASSUME NEW t \in Elements(q), t # Head(q) PROVE t \in Elements(Tail(q))
      OBVIOUS
    <3>1. PICK i \in 1..Len(q) : q[i] = t
      BY <1>1 DEF Elements
    <3>2. i - 1 \in 1..(Len(q) - 1) /\ Tail(q)[i - 1] = t
      BY <2>1, <2>3, <3>1
    <3> QED BY <2>2, <3>2 DEF Elements
  <2>6. {Head(q)} \cup Elements(Tail(q)) \subseteq Elements(q)
    BY <1>1, <2>1, <2>2, <2>4 DEF Elements
  <2> QED BY <2>5, <2>6
<1>3. ASSUME NEW e \in S PROVE Elements(Append(q, e)) = Elements(q) \cup {e}
  <2>1. /\ Append(q, e) \in Seq(S) /\ Len(Append(q, e)) = Len(q) + 1
        /\ \A i \in 1..Len(q) : Append(q, e)[i] = q[i]
        /\ Append(q, e)[Len(q) + 1] = e
    BY AppendProperties
  <2>2. DOMAIN Append(q, e) = 1..(Len(q) + 1)
    BY <2>1, LenProperties
  <2>3. \A i \in 1..(Len(q) + 1) : i \in 1..Len(q) \/ i = Len(q) + 1
    BY <1>1
  <2>4. \A i \in 1..Len(q) : i \in 1..(Len(q) + 1)
    BY <1>1
  <2>5. Len(q) + 1 \in 1..(Len(q) + 1)
    BY <1>1
  <2>6. Elements(Append(q, e)) \subseteq Elements(q) \cup {e}
    BY <1>1, <2>1, <2>2, <2>3 DEF Elements
  <2>7. Elements(q) \cup {e} \subseteq Elements(Append(q, e))
    BY <1>1, <2>1, <2>2, <2>4, <2>5 DEF Elements
  <2> QED BY <2>6, <2>7
<1>4. Elements(<<>>) = {}
  BY DEF Elements
<1>5. Elements(q) \subseteq S
  BY <1>1, ElementOfSeq DEF Elements
<1> QED BY <1>2, <1>3, <1>4, <1>5

\* One goroutine of a monitor goes on: what the others hold is as before.
LEMMA OneProducer ==
  ASSUME TypeOK, NEW p \in Producer, Produce(p) \/ EmitAndPersist(p)
  PROVE  /\ \A q \in Producer : q # p => producer'[q] = producer[q]
         /\ UNCHANGED subscribers
BY DEF TypeOK, Produce, EmitAndPersist, ReadSettings, InsertRow, Prune, ReadRetention, Sweep,
       RLock, Send, RUnlock, Goto

\* How a step changes the loop of the monitor that takes it.
LEMMA OwnLoop ==
  ASSUME TypeOK, LoopsOpen, NEW p \in Producer, Produce(p) \/ EmitAndPersist(p)
  PROVE  /\ At(p, "send")' \/ producer'[p].todo = <<>>
         /\ \/ Elements(producer'[p].todo) \subseteq Elements(producer[p].todo)
            \/ producer'[p].todo = subscribers
<1>1. producer \in [Producer -> ProducerState] /\ producer[p] \in ProducerState
  BY DEF TypeOK
<1>2. ~At(p, "send") => producer[p].todo = <<>>
  BY DEF LoopsOpen
<1>3. CASE \/ EmitAndPersist(p) \/ ReadSettings(p) \/ Prune(p) \/ ReadRetention(p) \/ Sweep(p)
  <2>1. producer'[p].todo = producer[p].todo /\ ~At(p, "send")
    <3>1. CASE EmitAndPersist(p) \/ Prune(p)
      BY <1>1, <3>1 DEF EmitAndPersist, Prune, Goto, At, ProducerState
    <3>2. CASE ReadSettings(p)
      BY <1>1, <3>2 DEF ReadSettings, At, ProducerState
    <3>3. CASE ReadRetention(p)
      <4>1. PICK n, to : producer' = [producer EXCEPT ![p] = [producer[p] EXCEPT !.days = n, !.pc = to]]
        BY <3>3 DEF ReadRetention
      <4> QED BY <1>1, <3>3, <4>1 DEF ReadRetention, At, ProducerState
    <3>4. CASE Sweep(p)
      BY <1>1, <3>4 DEF Sweep, At, ProducerState
    <3> QED BY <1>3, <3>1, <3>2, <3>3, <3>4
  <2> QED BY <1>2, <2>1
<1>4. CASE InsertRow(p) \/ RUnlock(p)
  <2>1. producer'[p].todo = <<>>
    <3>1. Idle.todo = <<>> /\ Idle \in ProducerState
      BY IdleTyped DEF Idle
    <3>2. CASE InsertRow(p)
      <4>1. \A e, to : [Idle EXCEPT !.pc = to, !.event = e].todo = <<>>
                      /\ [Idle EXCEPT !.pc = to].todo = <<>>
        BY <3>1 DEF ProducerState
      <4>2. \/ producer'[p] = [Idle EXCEPT !.pc = "prune", !.event = producer[p].event]
            \/ producer'[p] = [Idle EXCEPT !.pc = "rlock"]
        BY <1>1, <3>2 DEF InsertRow
      <4> QED BY <4>1, <4>2
    <3>3. CASE RUnlock(p)
      BY <1>1, <3>1, <3>3 DEF RUnlock
    <3> QED BY <1>4, <3>2, <3>3
  <2> QED BY <1>1, <2>1, QueueElements DEF ProducerState
<1>5. CASE RLock(p)
  <2>1. producer'[p].pc = "send" /\ producer'[p].todo = subscribers
    BY <1>1, <1>5 DEF RLock, ProducerState
  <2> QED BY <2>1 DEF At
<1>6. CASE Send(p)
  <2>1. /\ producer'[p].pc = "send" /\ producer'[p].todo = Tail(producer[p].todo)
        /\ producer[p].todo # <<>> /\ producer[p].todo \in Seq(Stream)
    BY <1>1, <1>6 DEF Send, At, ProducerState
  <2> QED BY <2>1, QueueElements DEF At
<1> QED BY <1>3, <1>4, <1>5, <1>6 DEF Produce

\* No producer step opens or closes a channel.
LEMMA ProducerLeavesStreams ==
  ASSUME TypeOK, NEW p \in Producer, Produce(p) \/ EmitAndPersist(p)
  PROVE  \A s \in Stream : stream'[s].at = stream[s].at
<1>1. CASE Send(p)
  <2>1. producer[p].todo \in Seq(Stream) /\ producer[p].todo # <<>>
    BY <1>1 DEF Send, TypeOK, ProducerState
  <2>2. Head(producer[p].todo) \in Stream
    BY <2>1, HeadTailProperties
  <2> QED BY <1>1, <2>2 DEF Send, TypeOK, StreamState
<1>2. CASE ~Send(p)
  BY <1>2 DEF Produce, EmitAndPersist, ReadSettings, InsertRow, Prune, ReadRetention, Sweep,
              RLock, RUnlock
<1> QED BY <1>1, <1>2

(***************************************************************************)
(* Every step keeps what LoopsOpen says: the list changes only while no    *)
(* loop runs (Subscribe and unsub take the write lock).                    *)
(***************************************************************************)
LEMMA LoopsStayOpen ==
  ASSUME TypeOK, LoopsOpen, [Next]_vars
  PROVE  LoopsOpen'
<1>0. /\ producer \in [Producer -> ProducerState] /\ stream \in [Stream -> StreamState]
      /\ subscribers \in Seq(Stream) /\ DOMAIN subscribers = 1..Len(subscribers)
  BY LenProperties DEF TypeOK
<1>1. ASSUME NEW p \in Producer, Produce(p) \/ EmitAndPersist(p)
      PROVE  LoopsOpen'
  <2>1. \A s \in Stream : Open(s)' <=> Open(s)
    BY <1>1, ProducerLeavesStreams DEF Open
  <2>2. subscribers' = subscribers /\ \A q \in Producer : q # p => producer'[q] = producer[q]
    BY <1>1, OneProducer
  <2>3. /\ At(p, "send")' \/ producer'[p].todo = <<>>
        /\ \/ Elements(producer'[p].todo) \subseteq Elements(producer[p].todo)
           \/ producer'[p].todo = subscribers
    BY <1>1, OwnLoop
  <2>4. \A q \in Producer : ~At(q, "send")' => producer'[q].todo = <<>>
    BY <2>2, <2>3 DEF LoopsOpen, At
  <2>5. \A q \in Producer : Elements(producer[q].todo) \subseteq Stream
    BY <1>0, QueueElements DEF ProducerState
  <2>6. Elements(subscribers) \subseteq Stream
    BY <1>0, QueueElements
  <2>7. \A q \in Producer : \A s \in Elements(producer'[q].todo) : Open(s)'
    BY <2>1, <2>2, <2>3, <2>5, <2>6 DEF LoopsOpen
  <2> QED BY <2>1, <2>2, <2>4, <2>7 DEF LoopsOpen
<1>2. ASSUME \A q \in Producer : producer'[q].pc = producer[q].pc /\ producer'[q].todo = producer[q].todo,
             \A s \in Stream : Open(s)' <=> Open(s), subscribers' = subscribers
      PROVE  LoopsOpen'
  <2>1. \A q \in Producer : Elements(producer[q].todo) \subseteq Stream
    BY <1>0, QueueElements DEF ProducerState
  <2> QED BY <1>2, <2>1 DEF LoopsOpen, At
<1>3. ASSUME NEW s \in Stream, Connect(s) \/ Deliver(s) \/ Disconnect(s) \/ Hydrate(s)
      PROVE  LoopsOpen'
  <2>1. UNCHANGED <<producer, subscribers>>
    BY <1>3 DEF Connect, Deliver, Disconnect, Hydrate
  <2>2. Open(s)' <=> Open(s)
    <3>1. CASE Connect(s)
      BY <1>0, <3>1 DEF Connect, Open, StreamState
    <3>2. CASE Deliver(s)
      BY <1>0, <3>2 DEF Deliver, Open, StreamState
    <3>3. CASE Disconnect(s)
      BY <1>0, <3>3, NewTyped DEF Disconnect, Open, StreamState
    <3>4. CASE Hydrate(s)
      BY <1>0, <3>4 DEF Hydrate, Open, StreamState
    <3> QED BY <1>3, <3>1, <3>2, <3>3, <3>4
  <2>3. \A t \in Stream : t # s => stream'[t] = stream[t]
    BY <1>0, <1>3 DEF Connect, Deliver, Disconnect, Hydrate
  <2>4. \A t \in Stream : Open(t)' <=> Open(t)
    BY <2>2, <2>3 DEF Open
  <2> QED BY <1>2, <2>1, <2>4
<1>4. ASSUME Readers = {}
      PROVE  \A q \in Producer : producer[q].todo = <<>> /\ Elements(producer[q].todo) = {}
  BY <1>4 DEF Readers, LoopsOpen, Elements
<1>5. ASSUME NEW s \in Stream, Subscribe(s)
      PROVE  LoopsOpen'
  <2>1. /\ producer' = producer /\ Readers = {} /\ subscribers' = Append(subscribers, s)
        /\ ~Open(s) /\ Open(s)' /\ \A t \in Stream : t # s => stream'[t] = stream[t]
    BY <1>0, <1>5 DEF Subscribe, Open, StreamState
  <2>2. Elements(subscribers') = Elements(subscribers) \cup {s} /\ s \notin Elements(subscribers)
    BY <1>0, <2>1, QueueElements DEF LoopsOpen
  <2>3. \A i, j \in DOMAIN subscribers' : subscribers'[i] = subscribers'[j] => i = j
    <3>1. /\ Len(subscribers') = Len(subscribers) + 1 /\ subscribers' \in Seq(Stream)
          /\ \A i \in 1..Len(subscribers) : subscribers'[i] = subscribers[i]
          /\ subscribers'[Len(subscribers) + 1] = s /\ Len(subscribers) \in Nat
      BY <1>0, <2>1, AppendProperties, LenProperties
    <3>2. DOMAIN subscribers' = 1..(Len(subscribers) + 1)
      BY <3>1, LenProperties
    <3>3. \A i \in 1..Len(subscribers) : subscribers[i] # s
      BY <1>0, <2>2 DEF Elements
    <3>4. \A i \in DOMAIN subscribers' : i \in 1..Len(subscribers) \/ i = Len(subscribers) + 1
      BY <3>1, <3>2
    <3> QED BY <1>0, <3>1, <3>3, <3>4 DEF LoopsOpen
  <2>4. \A t \in Stream : t \in Elements(subscribers') <=> Open(t)'
    BY <2>1, <2>2 DEF LoopsOpen, Open
  <2> QED BY <1>4, <2>1, <2>3, <2>4 DEF LoopsOpen, At
<1>6. ASSUME NEW s \in Stream, Unsubscribe(s)
      PROVE  LoopsOpen'
  <2>1. /\ producer' = producer /\ Readers = {} /\ Remove(s)
        /\ stream' = [stream EXCEPT ![s] = Off]
    BY <1>6 DEF Unsubscribe
  <2>2. /\ Elements(subscribers') = Elements(subscribers) \ {s}
        /\ \A i, j \in DOMAIN subscribers' : subscribers'[i] = subscribers'[j] => i = j
    BY <1>0, <2>1, RemoveTakesOne DEF LoopsOpen
  <2>3. Off.at = "off"
    BY DEF Off, New
  <2>4. ~Open(s)' /\ \A t \in Stream : t # s => stream'[t] = stream[t]
    BY <1>0, <2>1, <2>3 DEF Open
  <2>5. \A t \in Stream : t \in Elements(subscribers') <=> Open(t)'
    BY <2>2, <2>4 DEF LoopsOpen, Open
  <2> QED BY <1>4, <2>1, <2>2, <2>5 DEF LoopsOpen, At
<1>7. CASE Restart
  <2>1. /\ subscribers' = <<>> /\ producer' = [p \in Producer |-> Idle]
        /\ stream' = [s \in Stream |-> IF stream[s].at = "new" THEN New ELSE Off]
    BY <1>7 DEF Restart
  <2>2. Idle.todo = <<>> /\ New.at = "new" /\ Off.at = "off"
    BY DEF Idle, New, Off
  <2>3. Elements(<<>>) = {} /\ DOMAIN <<>> = {}
    BY DEF Elements
  <2> QED BY <2>1, <2>2, <2>3 DEF LoopsOpen, Open
<1>8. CASE \/ MarkNotificationRead \/ MarkAllNotificationsRead \/ ClearNotifications
           \/ UpdateNotificationSettings \/ Day \/ UNCHANGED vars
  <2>1. UNCHANGED <<producer, stream, subscribers>>
    BY <1>8 DEF MarkNotificationRead, MarkAllNotificationsRead, ClearNotifications,
                UpdateNotificationSettings, Call, Day, vars
  <2> QED BY <1>2, <2>1 DEF Open
<1> QED
  BY <1>1, <1>3, <1>5, <1>6, <1>7, <1>8 DEF Next

-----------------------------------------------------------------------------
(* Ids and rows. *)

\* A step that takes no id and inserts no row.
Quiet ==
  /\ TableStep /\ UNCHANGED <<lastId, everStored>>
  /\ \A q \in Producer :
       \/ /\ At(q, "insert")' /\ At(q, "insert")
          /\ producer'[q].event = producer[q].event /\ producer'[q].day = producer[q].day
       \/ /\ ~At(q, "insert")' /\ ~At(q, "insert")
          /\ producer'[q].event \in {NoId, producer[q].event}
       \/ /\ ~At(q, "insert")' /\ producer'[q].event = NoId

\* Every other step takes the next id or is an INSERT.
LEMMA QuietSteps ==
  ASSUME TypeOK, [Next]_vars
  PROVE  Quiet \/ \E p \in Producer : ReadSettings(p) \/ InsertRow(p)
<1>0. producer \in [Producer -> ProducerState] /\ TableTypeOK
  BY DEF TypeOK
<1>1. ASSUME TableStep, UNCHANGED <<lastId, everStored, producer>>
      PROVE  Quiet
  BY <1>1 DEF Quiet, At
<1>2. ASSUME NEW p \in Producer,
             \/ EmitAndPersist(p) \/ Prune(p) \/ ReadRetention(p) \/ Sweep(p)
             \/ RLock(p) \/ Send(p) \/ RUnlock(p)
      PROVE  Quiet
  <2>1. UNCHANGED <<lastId, everStored>>
    BY <1>2 DEF EmitAndPersist, Prune, ReadRetention, Sweep, RLock, Send, RUnlock, counts
  <2>2. TableStep
    <3>1. producer[p].days \in Retention
      BY <1>0 DEF ProducerState
    <3> QED BY <1>2, <3>1 DEF EmitAndPersist, Prune, ReadRetention, Sweep, RLock, Send, RUnlock,
                             TableStep
  <2>3. \A q \in Producer : q # p => producer'[q] = producer[q]
    BY <1>2, OneProducer DEF Produce
  <2>4. /\ ~At(p, "insert")' /\ ~At(p, "insert")
        /\ producer'[p].event \in {NoId, producer[p].event}
    <3>1. CASE EmitAndPersist(p) \/ Prune(p)
      BY <1>0, <3>1 DEF EmitAndPersist, Prune, Goto, At, ProducerState
    <3>2. CASE ReadRetention(p)
      <4>1. PICK got \in GetSettings :
              producer' = [producer EXCEPT ![p] = [producer[p] EXCEPT !.days = got.days,
                             !.pc = IF got.days > 0 THEN "sweep" ELSE "rlock"]]
        BY <3>2 DEF ReadRetention
      <4>2. PICK n : n = got.days
        OBVIOUS
      <4>3. PICK to : to = (IF got.days > 0 THEN "sweep" ELSE "rlock")
        OBVIOUS
      <4>4. to # "insert"
        BY <4>3
      <4>5. producer' = [producer EXCEPT ![p] = [producer[p] EXCEPT !.days = n, !.pc = to]]
        BY <4>1, <4>2, <4>3
      <4> QED BY <1>0, <3>2, <4>4, <4>5 DEF ReadRetention, At, ProducerState
    <3>3. CASE Sweep(p)
      BY <1>0, <3>3 DEF Sweep, At, ProducerState
    <3>4. CASE RLock(p)
      BY <1>0, <3>4 DEF RLock, At, ProducerState
    <3>5. CASE Send(p)
      BY <1>0, <3>5 DEF Send, At, ProducerState
    <3>6. CASE RUnlock(p)
      <4>1. Idle.pc = "idle" /\ Idle.event = NoId
        BY DEF Idle
      <4> QED BY <1>0, <3>6, <4>1 DEF RUnlock, At
    <3> QED BY <1>2, <3>1, <3>2, <3>3, <3>4, <3>5, <3>6
  <2> QED BY <2>1, <2>2, <2>3, <2>4 DEF Quiet, At
<1>3. ASSUME NEW s \in Stream,
             \/ Connect(s) \/ Subscribe(s) \/ Deliver(s) \/ Disconnect(s) \/ Unsubscribe(s)
             \/ Hydrate(s)
      PROVE  Quiet
  <2>1. UNCHANGED <<table, producer, counts>>
    BY <1>3 DEF Connect, Subscribe, Deliver, Disconnect, Unsubscribe, Hydrate
  <2> QED BY <1>1, <2>1 DEF TableStep, counts
<1>4. CASE \/ MarkNotificationRead \/ MarkAllNotificationsRead \/ ClearNotifications
           \/ UpdateNotificationSettings \/ Day \/ UNCHANGED vars
  <2>1. UNCHANGED <<producer, lastId, everStored>>
    BY <1>4 DEF MarkNotificationRead, MarkAllNotificationsRead, ClearNotifications,
                UpdateNotificationSettings, Call, Day, counts, vars
  <2>2. TableStep
    BY <1>4 DEF MarkNotificationRead, MarkAllNotificationsRead, ClearNotifications,
                UpdateNotificationSettings, Day, vars, TableStep
  <2> QED BY <1>1, <2>1, <2>2
<1>5. CASE Restart
  <2>1. producer' = [p \in Producer |-> Idle] /\ UNCHANGED <<lastId, everStored>>
    BY <1>5 DEF Restart
  <2>2. Idle.pc = "idle" /\ Idle.event = NoId
    BY DEF Idle
  <2>3. TableStep
    BY <1>0, <1>5, SettingsTyped DEF Restart, SweepOnStartup, TableStep
  <2> QED BY <2>1, <2>2, <2>3 DEF Quiet, At
<1> QED BY <1>2, <1>3, <1>4, <1>5 DEF Next, Produce

\* One row, or one event on its way into the table, for each stamp.
LEMMA RowsOrdered ==
  ASSUME StampsOrdered
  PROVE  /\ \A r \in rows : r.id \in 1..lastId /\ r.day <= today
         /\ \A r, q \in rows : r.id < q.id => r.day <= q.day
<1>1. \A r \in rows : <<r.id, r.day>> \in Stamped
  BY DEF Stamped
<1> QED BY <1>1 DEF StampsOrdered

(***************************************************************************)
(* Ids stay fresh and in the order of the days, and the table in bounds.   *)
(***************************************************************************)
LEMMA RowsKept ==
  ASSUME TypeOK, TypeOK', TableBounded, StampsOrdered, IdsFresh, [Next]_vars
  PROVE  TableBounded' /\ StampsOrdered' /\ IdsFresh'
<1> USE TableAssumption
<1>0. /\ producer \in [Producer -> ProducerState] /\ TableTypeOK /\ TableTypeOK'
      /\ lastId \in Nat /\ everStored \subseteq Ids /\ today \in Nat /\ today' \in Nat
      /\ \A p \in Producer : producer[p] \in ProducerState
  BY DEF TypeOK, TableTypeOK
<1>1. CASE Quiet
  <2>1. /\ OneRowPerId(rows') /\ TableBounded' /\ today <= today'
        /\ \A r \in rows' : \E q \in rows : q.id = r.id /\ q.day = r.day
    BY <1>0, <1>1, RowsOrdered, TableStepShrinks DEF Quiet, IdsFresh
  <2>2. IdsOf(rows') \subseteq IdsOf(rows)
    BY <2>1 DEF IdsOf
  <2>3. Stamped' \subseteq Stamped
    <3>1. \A r \in rows' : <<r.id, r.day>> \in Stamped
      BY <2>1 DEF Stamped
    <3>2. \A q \in Producer : At(q, "insert")' => <<producer'[q].event, producer'[q].day>> \in Stamped
      BY <1>1 DEF Quiet, Stamped
    <3> QED BY <3>1, <3>2 DEF Stamped
  <2>4. \A x \in Stamped : x[1] \in 1..lastId /\ x[2] <= today /\ x[2] \in Nat
    <3>1. \A x \in Stamped : x[2] \in Nat
      BY <1>0 DEF Stamped, TableTypeOK, Row, ProducerState
    <3> QED BY <3>1 DEF StampsOrdered
  <2>5. StampsOrdered'
    BY <1>0, <1>1, <2>1, <2>3, <2>4 DEF StampsOrdered, Quiet
  <2>6. IdsFresh'
    BY <1>1, <2>1, <2>2 DEF IdsFresh, Quiet, NoId
  <2> QED BY <2>1, <2>5, <2>6
<1>2. ASSUME NEW p \in Producer, ReadSettings(p)
      PROVE  TableBounded' /\ StampsOrdered' /\ IdsFresh'
  <2>1. UNCHANGED <<table, everStored>> /\ lastId' = lastId + 1 /\ ~At(p, "insert")
    BY <1>2 DEF ReadSettings, At
  <2>2. /\ producer'[p].event = lastId + 1 /\ producer'[p].day = today /\ At(p, "insert")'
    <3>1. PICK a : producer' = [producer EXCEPT ![p] = [producer[p] EXCEPT !.autoRead = a,
                      !.event = lastId + 1, !.day = today, !.pc = "insert"]]
      BY <1>2 DEF ReadSettings
    <3> QED BY <1>0, <3>1 DEF At, ProducerState
  <2>3. \A q \in Producer : q # p => producer'[q] = producer[q]
    BY <1>2, OneProducer DEF Produce
  <2>4. \A x \in Stamped' : x \in Stamped \/ x = <<lastId + 1, today>>
    BY <2>1, <2>2, <2>3 DEF Stamped, At, table
  <2>5. \A x \in Stamped : x[1] \in 1..lastId /\ x[2] <= today /\ x[2] \in Nat
    <3>1. \A x \in Stamped : x[2] \in Nat
      BY <1>0 DEF Stamped, TableTypeOK, Row, ProducerState
    <3> QED BY <3>1 DEF StampsOrdered
  <2>6. \A x, y \in Stamped : x[1] < y[1] => x[2] <= y[2]
    BY DEF StampsOrdered
  <2>7. StampsOrdered'
    <3>1. \A x \in Stamped' : x[1] \in 1..(lastId + 1) /\ x[2] <= today
      <4> SUFFICES ASSUME NEW x \in Stamped' PROVE x[1] \in 1..(lastId + 1) /\ x[2] <= today
        OBVIOUS
      <4>1. CASE x \in Stamped
        BY <1>0, <2>5, <4>1
      <4>2. CASE x = <<lastId + 1, today>>
        BY <1>0, <4>2
      <4> QED BY <2>4, <4>1, <4>2
    <3>2. ASSUME NEW x \in Stamped', NEW y \in Stamped', x[1] < y[1]
          PROVE  x[2] <= y[2]
      <4>1. CASE x \in Stamped /\ y \in Stamped
        BY <2>6, <3>2, <4>1
      <4>2. CASE x \in Stamped /\ y = <<lastId + 1, today>>
        BY <2>5, <4>2
      <4>3. CASE x = <<lastId + 1, today>>
        <5>1. y[1] \in 1..(lastId + 1)
          BY <3>1
        <5> QED BY <1>0, <3>2, <4>3, <5>1
      <4> QED BY <2>4, <4>1, <4>2, <4>3
    <3> QED BY <2>1, <3>1, <3>2 DEF StampsOrdered, table
  <2>8. \A q \in Producer : At(q, "insert") => producer[q].event # lastId + 1
    <3>1. \A q \in Producer : At(q, "insert") => <<producer[q].event, producer[q].day>> \in Stamped
      BY DEF Stamped
    <3>2. \A q \in Producer : At(q, "insert") => producer[q].event \in 1..lastId
      BY <2>5, <3>1
    <3> QED BY <1>0, <3>2
  <2>9. lastId + 1 \notin everStored
    BY <1>0 DEF Ids
  <2>10. IdsFresh'
    <3>1. \A q \in Producer : IF At(q, "insert")' THEN producer'[q].event \notin everStored
                              ELSE producer'[q].event \in everStored \cup {NoId}
      BY <2>2, <2>3, <2>9 DEF IdsFresh, At
    <3>2. \A q, t \in Producer : At(q, "insert")' /\ At(t, "insert")'
             /\ producer'[q].event = producer'[t].event => q = t
      BY <2>2, <2>3, <2>8 DEF IdsFresh, At
    <3> QED BY <2>1, <3>1, <3>2 DEF IdsFresh, table
  <2> QED BY <2>1, <2>7, <2>10 DEF TableBounded, table
<1>3. ASSUME NEW p \in Producer, InsertRow(p)
      PROVE  TableBounded' /\ StampsOrdered' /\ IdsFresh'
  <2>1. UNCHANGED <<lastId, today>> /\ At(p, "insert")
    BY <1>3 DEF InsertRow, StoreRow, Insert, table
  <2>2. \A q \in Producer : q # p => producer'[q] = producer[q]
    BY <1>3, OneProducer DEF Produce
  <2>3. Idle \in ProducerState /\ Idle.event = NoId
    BY IdleTyped DEF TypeOK, Idle
  <2>4. \A e, to : [Idle EXCEPT !.pc = to, !.event = e].event = e
                  /\ [Idle EXCEPT !.pc = to, !.event = e].pc = to
                  /\ [Idle EXCEPT !.pc = to].event = NoId /\ [Idle EXCEPT !.pc = to].pc = to
    BY <2>3 DEF ProducerState
  <2> DEFINE e == producer[p].event
             r == [id |-> e, day |-> producer[p].day, read |-> producer[p].autoRead]
  <2>5. /\ <<e, producer[p].day>> \in Stamped /\ e \notin everStored /\ e # NoId
        /\ r.id = e /\ r.day = producer[p].day
    <3>1. <<e, producer[p].day>> \in Stamped /\ e \notin everStored
      BY <2>1 DEF Stamped, IdsFresh
    <3>2. e \in 1..lastId
      BY <3>1 DEF StampsOrdered
    <3> QED BY <1>0, <3>1, <3>2 DEF NoId
  <2>6. /\ ~At(p, "insert")'
        /\ \/ /\ rows' = rows \cup {r} /\ unpruned' = unpruned + 1
              /\ everStored' = everStored \cup {e} /\ producer'[p].event = e
           \/ /\ UNCHANGED <<rows, unpruned, everStored>> /\ producer'[p].event = NoId
    <3>1. CASE StoreRow(p) /\ producer' = [producer EXCEPT ![p] = [Idle EXCEPT !.pc = "prune", !.event = e]]
      BY <1>0, <2>4, <3>1 DEF StoreRow, Insert, At
    <3>2. CASE /\ producer' = [producer EXCEPT ![p] = [Idle EXCEPT !.pc = "rlock"]]
               /\ UNCHANGED <<table, everStored>>
      BY <1>0, <2>4, <3>2 DEF At, table
    <3> QED BY <1>3, <3>1, <3>2 DEF InsertRow
  <2> HIDE DEF r, e
  <2>7. Stamped' \subseteq Stamped
    <3>1. \A x \in rows' : <<x.id, x.day>> \in Stamped
      BY <2>5, <2>6 DEF Stamped
    <3>2. \A q \in Producer : At(q, "insert")' => <<producer'[q].event, producer'[q].day>> \in Stamped
      BY <2>2, <2>6 DEF Stamped, At
    <3> QED BY <3>1, <3>2 DEF Stamped
  <2>8. StampsOrdered'
    BY <2>1, <2>7 DEF StampsOrdered
  <2>9. TableBounded'
    <3>1. IsFiniteSet(rows) /\ Cardinality(rows) \in Nat /\ unpruned \in Nat /\ MaxStored \in Nat
      BY <1>0, FS_CardinalityType DEF TableTypeOK
    <3>2. Cardinality(rows \cup {r}) <= Cardinality(rows) + 1
      <4>1. Cardinality(rows \cup {r}) = IF r \in rows THEN Cardinality(rows) ELSE Cardinality(rows) + 1
        BY <3>1, FS_AddElement
      <4> QED BY <3>1, <4>1
    <3>3. Cardinality(rows \cup {r}) \in Nat
      BY <3>1, FS_AddElement, FS_CardinalityType
    <3> QED BY <2>6, <3>1, <3>2, <3>3 DEF TableBounded
  <2>10. OneRowPerId(rows') /\ IdsOf(rows') \subseteq everStored' /\ NoId \notin everStored'
    BY <2>5, <2>6 DEF IdsFresh, OneRowPerId, IdsOf
  <2>11. \A q \in Producer :
           IF At(q, "insert")' THEN producer'[q].event \notin everStored'
           ELSE producer'[q].event \in everStored' \cup {NoId}
    <3> SUFFICES ASSUME NEW q \in Producer
                 PROVE  IF At(q, "insert")' THEN producer'[q].event \notin everStored'
                        ELSE producer'[q].event \in everStored' \cup {NoId}
      OBVIOUS
    <3>1. CASE q = p
      BY <2>6, <3>1
    <3>2. CASE q # p /\ At(q, "insert")
      <4>1. producer[q].event # e
        BY <2>1, <3>2 DEF IdsFresh, e
      <4> QED BY <2>2, <2>6, <3>2, <4>1 DEF IdsFresh, At
    <3>3. CASE q # p /\ ~At(q, "insert")
      BY <2>2, <2>6, <3>3 DEF IdsFresh, At
    <3> QED BY <3>1, <3>2, <3>3
  <2>12. \A q, t \in Producer : At(q, "insert")' /\ At(t, "insert")'
             /\ producer'[q].event = producer'[t].event => q = t
    BY <2>2, <2>6 DEF IdsFresh, At
  <2> QED BY <2>8, <2>9, <2>10, <2>11, <2>12 DEF IdsFresh
<1> QED BY <1>1, <1>2, <1>3, QuietSteps DEF TypeOK

-----------------------------------------------------------------------------
(* What the bus owes a stream. *)

\* p holds an event for s: it is between its INSERT and the round of s.
Carries(p, s) ==
  producer[p].pc \in {"prune", "retention", "sweep", "rlock"} \/ s \in Elements(producer[p].todo)

Owed(s) == stream[s].known \cup stream[s].missed \cup OnItsWay(s)

\* What is owed, one event at a time.
LEMMA OwedIs ==
  ASSUME NEW s, NEW e
  PROVE  e \in Owed(s) <=> \/ e \in stream[s].known \cup stream[s].missed \cup Elements(stream[s].chan)
                          \/ \E p \in Producer : Carries(p, s) /\ producer[p].event = e
BY DEF Owed, OnItsWay, Carries

(***************************************************************************)
(* An event carried to a stream is carried on, until the round of the loop *)
(* that serves it: emit takes the list as it is once it has the read lock. *)
(***************************************************************************)
LEMMA CarriedOn ==
  ASSUME TypeOK, LoopsOpen, NEW p \in Producer, Produce(p) \/ EmitAndPersist(p), ~Send(p),
         NEW s \in Stream, Open(s), Carries(p, s)
  PROVE  Carries(p, s)' /\ producer'[p].event = producer[p].event
<1>1. producer \in [Producer -> ProducerState] /\ producer[p] \in ProducerState
  BY DEF TypeOK
<1>2. ~At(p, "send") => Elements(producer[p].todo) = {}
  BY QueueElements, <1>1 DEF LoopsOpen, ProducerState
<1>3. At(p, "send") \/ producer[p].pc \in {"prune", "retention", "sweep", "rlock"}
  BY <1>2 DEF Carries
<1>4. CASE EmitAndPersist(p) \/ ReadSettings(p) \/ InsertRow(p)
  BY <1>3, <1>4 DEF EmitAndPersist, ReadSettings, InsertRow, At
<1>5. CASE Prune(p)
  BY <1>1, <1>5 DEF Prune, Goto, Carries, ProducerState
<1>6. CASE ReadRetention(p)
  <2>1. PICK got \in GetSettings :
          producer' = [producer EXCEPT ![p] = [producer[p] EXCEPT !.days = got.days,
                         !.pc = IF got.days > 0 THEN "sweep" ELSE "rlock"]]
    BY <1>6 DEF ReadRetention
  <2>2. PICK n : n = got.days
    OBVIOUS
  <2>3. PICK to : to = (IF got.days > 0 THEN "sweep" ELSE "rlock")
    OBVIOUS
  <2>4. to \in {"sweep", "rlock"}
    BY <2>3
  <2>5. producer' = [producer EXCEPT ![p] = [producer[p] EXCEPT !.days = n, !.pc = to]]
    BY <2>1, <2>2, <2>3
  <2> QED BY <1>1, <2>4, <2>5 DEF Carries, ProducerState
<1>7. CASE Sweep(p)
  BY <1>1, <1>7 DEF Sweep, Carries, ProducerState
<1>8. CASE RLock(p)
  <2>1. producer'[p].todo = subscribers /\ producer'[p].event = producer[p].event
    BY <1>1, <1>8 DEF RLock, ProducerState
  <2> QED BY <2>1 DEF LoopsOpen, Carries
<1>9. CASE RUnlock(p)
  <2>1. At(p, "send") /\ producer[p].todo = <<>> /\ Elements(<<>>) = {}
    BY <1>9 DEF RUnlock, Elements
  <2> QED BY <2>1 DEF Carries, At
<1> QED BY <1>4, <1>5, <1>6, <1>7, <1>8, <1>9 DEF Produce

(***************************************************************************)
(* No step of a monitor makes the bus forget what it owes an open stream,  *)
(* nor changes what else there is to say of a stream.                      *)
(***************************************************************************)
LEMMA OwedKept ==
  ASSUME TypeOK, LoopsOpen, IdsFresh, NEW p \in Producer, Produce(p) \/ EmitAndPersist(p),
         NEW s \in Stream
  PROVE  /\ Open(s) => Owed(s) \subseteq Owed(s)'
         /\ stream'[s].at = stream[s].at /\ stream'[s].hydrated = stream[s].hydrated
         /\ stream'[s].known \cup Elements(stream'[s].chan) \subseteq
              stream[s].known \cup Elements(stream[s].chan) \cup everStored \cup {NoId}
<1>1. /\ producer \in [Producer -> ProducerState] /\ producer[p] \in ProducerState
      /\ stream \in [Stream -> StreamState] /\ stream[s] \in StreamState
  BY DEF TypeOK
<1>2. \A q \in Producer : q # p => producer'[q] = producer[q]
  BY OneProducer
<1>3. \A q \in Producer : q # p => (Carries(q, s)' <=> Carries(q, s))
  BY <1>2 DEF Carries
<1>4. CASE ~Send(p)
  <2>1. stream' = stream
    BY <1>4 DEF Produce, EmitAndPersist, ReadSettings, InsertRow, Prune, ReadRetention, Sweep,
                RLock, RUnlock
  <2>2. Open(s) => Owed(s) \subseteq Owed(s)'
    <3> SUFFICES ASSUME Open(s), NEW e \in Owed(s) PROVE e \in Owed(s)'
      OBVIOUS
    <3>1. CASE e \in stream[s].known \cup stream[s].missed \cup Elements(stream[s].chan)
      BY <2>1, <3>1 DEF Owed, OnItsWay
    <3>2. CASE \E q \in Producer : Carries(q, s) /\ producer[q].event = e
      <4>1. PICK q \in Producer : Carries(q, s) /\ producer[q].event = e
        BY <3>2
      <4>2. Carries(q, s)' /\ producer'[q].event = e
        BY <1>2, <1>3, <1>4, <4>1, CarriedOn
      <4> QED BY <4>2 DEF Owed, OnItsWay, Carries
    <3> QED BY <3>1, <3>2, OwedIs
  <2> QED BY <2>1, <2>2
<1>5. CASE Send(p)
  <2> DEFINE q == producer[p].todo
             h == Head(producer[p].todo)
             e == producer[p].event
  <2>1. /\ q \in Seq(Stream) /\ q # <<>> /\ h \in Stream /\ e \in Ids /\ At(p, "send")
        /\ Elements(q) = {h} \cup Elements(Tail(q))
    <3>1. q \in Seq(Stream) /\ q # <<>> /\ e \in Ids /\ At(p, "send")
      BY <1>1, <1>5 DEF Send, ProducerState
    <3>2. h \in Stream
      BY <3>1, HeadTailProperties
    <3> QED BY <3>1, <3>2, QueueElements
  <2>2. producer'[p].todo = Tail(q) /\ producer'[p].event = e /\ producer'[p].pc = "send"
    BY <1>1, <1>5 DEF Send, At, ProducerState
  <2>3. e \in everStored \cup {NoId}
    BY <2>1 DEF IdsFresh, At
  <2>4. ASSUME s # h
        PROVE  stream'[s] = stream[s]
    BY <1>1, <1>5, <2>1, <2>4 DEF Send
  <2>5. ASSUME s = h
        PROVE  /\ stream'[s].at = stream[s].at /\ stream'[s].hydrated = stream[s].hydrated
               /\ stream'[s].known = stream[s].known
               /\ \/ stream'[s].chan = Append(stream[s].chan, e) /\ stream'[s].missed = stream[s].missed
                  \/ stream'[s].chan = stream[s].chan /\ stream'[s].missed = stream[s].missed \cup {e}
    <3>1. CASE stream' = [stream EXCEPT ![s].chan = Append(@, e)]
      BY <1>1, <3>1 DEF StreamState
    <3>2. CASE stream' = [stream EXCEPT ![s].missed = @ \cup {e}]
      BY <1>1, <3>2 DEF StreamState
    <3> QED BY <1>5, <2>5, <3>1, <3>2 DEF Send
  <2>6. stream[s].chan \in Seq(Ids)
    BY <1>1 DEF StreamState
  <2>7. s = h => /\ Elements(stream'[s].chan) \subseteq Elements(stream[s].chan) \cup {e}
                 /\ Elements(stream[s].chan) \subseteq Elements(stream'[s].chan)
                 /\ stream[s].missed \subseteq stream'[s].missed
                 /\ e \in Elements(stream'[s].chan) \cup stream'[s].missed
    <3>1. Elements(Append(stream[s].chan, e)) = Elements(stream[s].chan) \cup {e}
      BY <2>1, <2>6, QueueElements
    <3> HIDE DEF e, h
    <3> QED BY <2>5, <3>1
  <2> HIDE DEF q, h, e
  <2>8. Owed(s) \subseteq Owed(s)'
    <3> SUFFICES ASSUME NEW x \in Owed(s) PROVE x \in Owed(s)'
      OBVIOUS
    <3>1. stream'[s].known \cup stream'[s].missed \cup Elements(stream'[s].chan) \subseteq Owed(s)'
      BY DEF Owed, OnItsWay
    <3>2. CASE x \in stream[s].known \cup stream[s].missed \cup Elements(stream[s].chan)
      BY <2>4, <2>5, <2>7, <3>1, <3>2
    <3>3. CASE \E t \in Producer : Carries(t, s) /\ producer[t].event = x
      <4>1. PICK t \in Producer : Carries(t, s) /\ producer[t].event = x
        BY <3>3
      <4>2. CASE t # p
        <5>1. Carries(t, s)' /\ producer'[t].event = x
          BY <1>2, <1>3, <4>1, <4>2
        <5> QED BY <5>1 DEF Owed, OnItsWay, Carries
      <4>3. CASE t = p /\ s = h
        <5>1. x = e
          BY <4>1, <4>3 DEF e
        <5> QED BY <2>7, <3>1, <4>3, <5>1
      <4>4. CASE t = p /\ s # h
        <5>1. s \in Elements(producer'[p].todo) /\ producer'[p].event = x
          BY <2>1, <2>2, <4>1, <4>4 DEF Carries, At, q, e
        <5> QED BY <5>1 DEF Owed, OnItsWay
      <4> QED BY <4>2, <4>3, <4>4
    <3> QED BY <3>2, <3>3, OwedIs
  <2> QED BY <2>3, <2>4, <2>5, <2>7, <2>8
<1> QED BY <1>4, <1>5

(***************************************************************************)
(* Every step keeps what is said of the streams.  The table gains a row    *)
(* only as a monitor starts to carry its id; a client that lists the table *)
(* knows every row of it, and none when it is not on.                      *)
(***************************************************************************)
LEMMA StreamsKept ==
  ASSUME TypeOK, TypeOK', TableBounded, StampsOrdered, IdsFresh, LoopsOpen, [Next]_vars,
         NEW s \in Stream, StreamSound(s)
  PROVE  StreamSound(s)'
<1>0. /\ producer \in [Producer -> ProducerState]
      /\ stream \in [Stream -> StreamState] /\ stream[s] \in StreamState
      /\ TableTypeOK /\ TableTypeOK' /\ IsFiniteSet(rows) /\ MaxStored \in Nat
  BY TableAssumption DEF TypeOK, TableTypeOK
<1>1. StreamSound(s) <=>
        /\ stream[s].known \cup Elements(stream[s].chan) \subseteq everStored \cup {NoId}
        /\ stream[s].at # "on" => ~stream[s].hydrated
        /\ stream[s].at = "on" /\ stream[s].hydrated => IdsOf(List) \subseteq Owed(s)
  BY DEF StreamSound, Owed
<1>2. StreamSound(s)' <=>
        /\ stream'[s].known \cup Elements(stream'[s].chan) \subseteq everStored' \cup {NoId}
        /\ stream'[s].at # "on" => ~stream'[s].hydrated
        /\ stream'[s].at = "on" /\ stream'[s].hydrated => IdsOf(List') \subseteq Owed(s)'
  BY DEF StreamSound, Owed, NoId
<1>3. TableStep => IdsOf(List') \subseteq IdsOf(List)
  BY <1>0, RowsOrdered, TableStepShrinks DEF IdsFresh
<1>4. ASSUME NEW p \in Producer, Produce(p) \/ EmitAndPersist(p)
      PROVE  StreamSound(s)'
  <2>1. /\ stream[s].at = "on" => Owed(s) \subseteq Owed(s)'
        /\ stream'[s].at = stream[s].at /\ stream'[s].hydrated = stream[s].hydrated
        /\ stream'[s].known \cup Elements(stream'[s].chan) \subseteq
             stream[s].known \cup Elements(stream[s].chan) \cup everStored \cup {NoId}
    BY <1>4, OwedKept DEF Open
  <2>2. CASE ReadSettings(p)
    <3>1. UNCHANGED <<table, everStored>>
      BY <2>2 DEF ReadSettings
    <3>2. List' = List
      BY <3>1 DEF table, List, Newest
    <3> QED BY <1>1, <1>2, <2>1, <3>1, <3>2
  <2>3. CASE InsertRow(p)
    <3>1. CASE StoreRow(p) /\ producer' = [producer EXCEPT ![p] =
                                 [Idle EXCEPT !.pc = "prune", !.event = producer[p].event]]
      <4> DEFINE r == [id |-> producer[p].event, day |-> producer[p].day, read |-> producer[p].autoRead]
      <4>1. rows' = rows \cup {r} /\ everStored' = everStored \cup {producer[p].event}
            /\ r.id = producer[p].event
        BY <3>1 DEF StoreRow, Insert
      <4> HIDE DEF r
      <4>2. List' \subseteq List \cup {r}
        <5>1. List = NewestOf(rows, MaxStored) /\ List' = NewestOf(rows', MaxStored)
          BY DEF List, Newest, NewestOf
        <5> QED BY <1>0, <4>1, <5>1, RowAdded
      <4>3. producer'[p].pc = "prune" /\ producer'[p].event = producer[p].event
        <5>1. Idle \in ProducerState
          BY IdleTyped
        <5> QED BY <1>0, <3>1, <5>1 DEF ProducerState
      <4>4. producer[p].event \in Owed(s)'
        BY <4>3 DEF Owed, OnItsWay
      <4>5. IdsOf(List') \subseteq IdsOf(List) \cup {producer[p].event}
        BY <4>1, <4>2 DEF IdsOf
      <4> QED BY <1>1, <1>2, <2>1, <4>1, <4>4, <4>5
    <3>2. CASE UNCHANGED <<table, everStored>>
      <4>1. List' = List
        BY <3>2 DEF table, List, Newest
      <4> QED BY <1>1, <1>2, <2>1, <3>2, <4>1
    <3> QED BY <2>3, <3>1, <3>2 DEF InsertRow
  <2>4. CASE ~ReadSettings(p) /\ ~InsertRow(p)
    <3>1. everStored' = everStored
      BY <1>4, <2>4 DEF Produce, EmitAndPersist, Prune, ReadRetention, Sweep, RLock, Send, RUnlock, counts
    <3>2. TableStep
      <4>1. producer[p].days \in Retention
        BY <1>0 DEF ProducerState
      <4> QED BY <1>4, <2>4, <4>1 DEF Produce, EmitAndPersist, Prune, ReadRetention, Sweep,
                                   RLock, Send, RUnlock, TableStep
    <3> QED BY <1>1, <1>2, <1>3, <2>1, <3>1, <3>2
  <2> QED BY <2>2, <2>3, <2>4
<1>5. ASSUME UNCHANGED <<stream, producer, everStored>>, TableStep
      PROVE  StreamSound(s)'
  <2>1. Owed(s)' = Owed(s)
    BY <1>5 DEF Owed, OnItsWay
  <2> QED BY <1>1, <1>2, <1>3, <1>5, <2>1
<1>6. ASSUME NEW t \in Stream,
             \/ Connect(t) \/ Subscribe(t) \/ Deliver(t) \/ Disconnect(t) \/ Unsubscribe(t) \/ Hydrate(t)
      PROVE  StreamSound(s)'
  <2>1. UNCHANGED <<rows, producer, everStored>> /\ List' = List
    BY <1>6 DEF Connect, Subscribe, Deliver, Disconnect, Unsubscribe, Hydrate, table, counts, List, Newest
  <2>2. ASSUME stream'[s] = stream[s]
        PROVE  StreamSound(s)'
    <3>1. Owed(s)' = Owed(s)
      BY <2>1, <2>2 DEF Owed, OnItsWay
    <3> QED BY <1>1, <1>2, <2>1, <2>2, <3>1
  <2>3. CASE t # s
    <3>1. stream'[s] = stream[s]
      BY <1>0, <1>6, <2>3 DEF Connect, Subscribe, Deliver, Disconnect, Unsubscribe, Hydrate
    <3> QED BY <2>2, <3>1
  <2>4. CASE Connect(s) \/ Subscribe(s)
    <3>1. PICK to : stream' = [stream EXCEPT ![s].at = to] /\ stream[s].at # "on"
      BY <2>4 DEF Connect, Subscribe
    <3>2. /\ stream'[s].known = stream[s].known /\ stream'[s].chan = stream[s].chan
          /\ stream'[s].hydrated = stream[s].hydrated
      BY <1>0, <3>1 DEF StreamState
    <3> QED BY <1>1, <1>2, <2>1, <3>1, <3>2
  <2>5. CASE Deliver(s)
    <3>1. /\ stream'[s].known = stream[s].known \cup {Head(stream[s].chan)}
          /\ stream'[s].chan = Tail(stream[s].chan) /\ stream'[s].missed = stream[s].missed
          /\ stream'[s].at = stream[s].at /\ stream'[s].hydrated = stream[s].hydrated
      BY <1>0, <2>5 DEF Deliver, StreamState
    <3>2. Elements(stream[s].chan) = {Head(stream[s].chan)} \cup Elements(Tail(stream[s].chan))
      BY <1>0, <2>5, QueueElements DEF Deliver, StreamState
    <3>3. stream'[s].known \cup Elements(stream'[s].chan) = stream[s].known \cup Elements(stream[s].chan)
      BY <3>1, <3>2
    <3>4. Owed(s)' = Owed(s)
      <4>1. OnItsWay(s) \cup stream[s].known = OnItsWay(s)' \cup stream'[s].known
        BY <2>1, <3>3 DEF OnItsWay
      <4> QED BY <3>1, <4>1 DEF Owed
    <3> QED BY <1>1, <1>2, <2>1, <3>1, <3>3, <3>4
  <2>6. CASE Disconnect(s)
    <3>1. New \in StreamState /\ New.known = {} /\ New.hydrated = FALSE
      BY NewTyped DEF New
    <3>2. /\ stream'[s].known = {} /\ stream'[s].chan = stream[s].chan
          /\ stream'[s].at = "leaving" /\ stream'[s].hydrated = FALSE
      BY <1>0, <2>6, <3>1 DEF Disconnect, StreamState
    <3> QED BY <1>1, <1>2, <2>1, <3>2
  <2>7. CASE Unsubscribe(s)
    <3>1. Off.known = {} /\ Off.chan = <<>> /\ Off.hydrated = FALSE /\ Off.at = "off"
      BY DEF Off, New
    <3>2. stream'[s] = Off /\ Elements(<<>>) = {}
      BY <1>0, <2>7 DEF Unsubscribe, Elements
    <3> QED BY <1>2, <3>1, <3>2
  <2>8. CASE Hydrate(s)
    <3>1. /\ stream'[s].known = stream[s].known \cup IdsOf(List)
          /\ stream'[s].chan = stream[s].chan /\ stream'[s].at = stream[s].at /\ stream[s].at = "on"
      BY <1>0, <2>8 DEF Hydrate, StreamState, IdsOf
    <3>2. IdsOf(List) \subseteq everStored
      <4>1. List \subseteq rows
        BY DEF List, Newest
      <4> QED BY <4>1 DEF IdsFresh, IdsOf
    <3>3. IdsOf(List) \subseteq Owed(s)'
      BY <3>1 DEF Owed
    <3> QED BY <1>1, <1>2, <2>1, <3>1, <3>2, <3>3
  <2> QED BY <1>6, <2>3, <2>4, <2>5, <2>6, <2>7, <2>8
<1>7. CASE \/ MarkNotificationRead \/ MarkAllNotificationsRead \/ ClearNotifications
           \/ UpdateNotificationSettings \/ Day \/ UNCHANGED vars
  <2>1. UNCHANGED <<stream, producer, everStored>>
    BY <1>7 DEF MarkNotificationRead, MarkAllNotificationsRead, ClearNotifications,
                UpdateNotificationSettings, Call, Day, counts, vars
  <2>2. TableStep
    BY <1>7 DEF MarkNotificationRead, MarkAllNotificationsRead, ClearNotifications,
                UpdateNotificationSettings, Day, vars, TableStep
  <2> QED BY <1>5, <2>1, <2>2
<1>8. CASE Restart
  <2>1. stream'[s] \in {New, Off}
    BY <1>8 DEF Restart
  <2>2. /\ New.known = {} /\ New.chan = <<>> /\ New.hydrated = FALSE
        /\ Off.known = {} /\ Off.chan = <<>> /\ Off.hydrated = FALSE /\ Elements(<<>>) = {}
    BY DEF Off, New, Elements
  <2> QED BY <1>2, <2>1, <2>2
<1> QED BY <1>4, <1>6, <1>7, <1>8 DEF Next

-----------------------------------------------------------------------------
(* The theorems. *)

\* The process starts with an empty table and bus.
LEMMA BusStarts == Init => TypeOK /\ BusInv
<1> SUFFICES ASSUME Init PROVE TypeOK /\ BusInv
  OBVIOUS
<1> USE TableAssumption, BusAssumption
<1>1. /\ rows = {} /\ settings = NoSettings /\ today = 0 /\ unpruned = 0 /\ lastId = 0
      /\ producer = [p \in Producer |-> Idle] /\ stream = [s \in Stream |-> New]
      /\ subscribers = <<>> /\ everStored = {}
  BY DEF Init, TableInit
<1>2. IsFiniteSet(rows) /\ Cardinality(rows) = 0
  BY <1>1, FS_EmptySet
<1>3. /\ Idle.todo = <<>> /\ Idle.pc = "idle" /\ Idle.event = NoId
      /\ New.chan = <<>> /\ New.at = "new" /\ New.hydrated = FALSE /\ New.known = {}
      /\ Elements(<<>>) = {} /\ DOMAIN <<>> = {}
  BY DEF Idle, New, Elements
<1>4. TypeOK
  <2>1. TableTypeOK
    BY <1>1, <1>2 DEF TableTypeOK, NoSettings, Settings
  <2>2. Idle \in ProducerState
    BY <1>1 DEF Idle, NoId, ProducerState, Ids
  <2>3. Len(New.chan) <= ChanCap
    BY <1>3
  <2>4. subscribers \in Seq(Stream)
    BY <1>1, EmptySeq
  <2> QED BY <1>1, <2>1, <2>2, <2>3, <2>4, NewTyped DEF TypeOK
<1>5. TableBounded
  BY <1>1, <1>2 DEF TableBounded
<1>6. StampsOrdered
  <2>1. Stamped = {}
    BY <1>1, <1>3 DEF Stamped, At
  <2> QED BY <2>1 DEF StampsOrdered
<1>7. IdsFresh
  BY <1>1, <1>3 DEF IdsFresh, OneRowPerId, IdsOf, At
<1>8. LoopsOpen
  BY <1>1, <1>3 DEF LoopsOpen, Open
<1>9. \A s \in Stream : StreamSound(s)
  BY <1>1, <1>3 DEF StreamSound
<1> QED BY <1>4, <1>5, <1>6, <1>7, <1>8, <1>9 DEF BusInv

\* An event about to be inserted has an id, and every row was once inserted.
LEMMA InsertsAreStamped == TypeOK /\ BusInv => InsertsStamped
<1> SUFFICES ASSUME TypeOK, BusInv PROVE InsertsStamped
  OBVIOUS
<1>1. \A p \in Producer : At(p, "insert") => producer[p].event \in 1..lastId
  <2>1. \A p \in Producer : At(p, "insert") => <<producer[p].event, producer[p].day>> \in Stamped
    BY DEF Stamped
  <2> QED BY <2>1 DEF BusInv, StampsOrdered
<1>2. \A p \in Producer : At(p, "insert") => producer[p].event # NoId
  BY <1>1 DEF NoId, TypeOK
<1> QED BY <1>2 DEF InsertsStamped, BusInv, IdsFresh

(***************************************************************************)
(* The inductive invariant: the table within its bound, stamps in the      *)
(* order of ids, ids fresh, the loops' channels open, and what each stream *)
(* was promised accounted for.  The last needs all the others: which rows  *)
(* the panel lists depends on the order of ids, and what is on its way to  *)
(* a stream on the list of open channels.                                  *)
(***************************************************************************)
THEOREM BusInvariant == Spec => [](TypeOK /\ BusInv)
<1>1. TypeOK /\ BusInv /\ [Next]_vars => TypeOK' /\ BusInv'
  <2> SUFFICES ASSUME TypeOK, BusInv, [Next]_vars PROVE TypeOK' /\ BusInv'
    OBVIOUS
  <2>1. TypeOK'
    BY BusType, InsertsAreStamped
  <2>2. TableBounded' /\ StampsOrdered' /\ IdsFresh'
    BY <2>1, RowsKept DEF BusInv
  <2>3. LoopsOpen'
    BY LoopsStayOpen DEF BusInv
  <2>4. \A s \in Stream : StreamSound(s)'
    BY <2>1, StreamsKept DEF BusInv
  <2> QED BY <2>1, <2>2, <2>3, <2>4 DEF BusInv
<1> QED BY <1>1, BusStarts, PTL DEF Spec

(***************************************************************************)
(* Every variable of the bus keeps its type, and no channel holds more     *)
(* than its capacity.                                                      *)
(***************************************************************************)
THEOREM BusTypeCorrect == Spec => []TypeOK
BY BusInvariant, PTL

(***************************************************************************)
(* Save's ceiling holds however inserts, prunes that fail, sweeps, RPCs    *)
(* and restarts interleave: the table exceeds maxStored by no more rows    *)
(* than were inserted since the last prune that succeeded.                 *)
(***************************************************************************)
THEOREM TableStaysBounded == Spec => []TableBounded
<1>1. TypeOK /\ BusInv => TableBounded
  BY DEF BusInv
<1> QED BY <1>1, BusInvariant, PTL

(***************************************************************************)
(* No emit loop sends on a channel that unsub has closed: the list has     *)
(* each open channel once and no other, a loop copies it under the read    *)
(* lock, and unsub closes under the write lock.                            *)
(***************************************************************************)
THEOREM NothingSentOnClosed == Spec => []NoSendOnClosed
<1>1. TypeOK /\ BusInv => NoSendOnClosed
  BY DEF BusInv, LoopsOpen, NoSendOnClosed, Open
<1> QED BY <1>1, BusInvariant, PTL

(***************************************************************************)
(* A client that subscribed before it listed knows every row of the table, *)
(* or has it coming, or lost it to a full channel; and knows no id that    *)
(* was never stored.                                                       *)
(***************************************************************************)
THEOREM PanelsAgree == Spec => []PanelAgrees
<1>1. TypeOK /\ BusInv => PanelAgrees
  BY DEF BusInv, StreamSound, PanelAgrees, IdsOf
<1> QED BY <1>1, BusInvariant, PTL
=============================================================================
