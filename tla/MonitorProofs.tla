---------------------------- MODULE MonitorProofs ----------------------------
(***************************************************************************)
(* Proofs about what the process runs beside its RPCs: the transaction     *)
(* monitor (TxWatcher), for every set of hashes, page size, lookback and   *)
(* dedup capacity of at least 2 * PageSize * (Lookback + 1), and, at the   *)
(* end, the balance alert and the order in which App closes what it runs.  *)
(***************************************************************************)
EXTENDS TxWatcher, App, TLAPS, FiniteSetTheorems, SequenceTheorems

(***************************************************************************)
(* The roles classifyRole answers are roles.                               *)
(***************************************************************************)
LEMMA RoleType ==
  ASSUME NEW ms \in SUBSET Leg
  PROVE  classifyRole(ms) \subseteq Role
<1> DEFINE outgoing == {m \in ms : IsOutgoing(m)}
<1> DEFINE incoming == ms \ outgoing
<1>1. CASE ms = {}
  BY <1>1 DEF classifyRole, Role
<1>2. CASE ms # {} /\ outgoing # {} /\ incoming # {}
  BY <1>2 DEF classifyRole, Role
<1>3. CASE ms # {} /\ outgoing # {} /\ incoming = {}
  BY <1>3 DEF classifyRole, Role
<1>4. CASE ms # {} /\ outgoing = {}
  BY <1>4 DEF classifyRole, Role
<1> QED BY <1>1, <1>2, <1>3, <1>4

(***************************************************************************)
(* emittedSet.add keeps a sequence of hashes.                              *)
(***************************************************************************)
LEMMA AddType ==
  ASSUME emitted \in Seq(Hash), NEW h \in Hash
  PROVE  addEmitted(h) \in Seq(Hash)
<1>1. CASE h \in Elems(emitted)
  BY <1>1 DEF addEmitted
<1>2. CASE h \notin Elems(emitted) /\ Len(emitted) < Cap
  BY <1>2, CapAssumption DEF addEmitted
<1>3. CASE h \notin Elems(emitted) /\ Len(emitted) >= Cap
  <2>1. emitted # <<>>
    BY <1>3, CapAssumption, BoundAssumption
  <2>2. Tail(emitted) \in Seq(Hash)
    BY <2>1
  <2> QED BY <1>3, <2>2 DEF addEmitted
<1> QED BY <1>1, <1>2, <1>3, CapAssumption

(***************************************************************************)
(* Every reachable state of the monitor and its environment is well typed. *)
(***************************************************************************)
THEOREM TypeCorrect == Spec => []TypeOK
<1>1. Init => TypeOK
  <2> SUFFICES ASSUME Init PROVE TypeOK
    OBVIOUS
  <2>1. emitted \in Seq(Hash) /\ sent \in [Hash -> Seq(Event)]
    BY DEF Init
  <2>2. initialized \in BOOLEAN /\ pc \in {"idle", "scan"}
    BY DEF Init
  <2> QED BY <2>1, <2>2 DEF Init, TypeOK
<1>2. TypeOK /\ [Next]_vars => TypeOK'
  <2> SUFFICES ASSUME TypeOK, [Next]_vars PROVE TypeOK'
    OBVIOUS
  <2> USE HashAssumption, BoundAssumption DEF TypeOK
  <2>1. ASSUME NEW S \in SUBSET Hash, NewBlock(S) PROVE TypeOK'
    BY <2>1 DEF NewBlock, cursor, tick
  <2>2. ASSUME NEW h \in Hash, NEW l \in LegsOf[h], Index(h, l) PROVE TypeOK'
    BY <2>2 DEF Index, cursor, tick
  <2>3. ASSUME NEW h \in Hash, Track(h) \/ Forget(h) PROVE TypeOK'
    BY <2>3 DEF Track, Forget, cursor, tick
  <2>4. ASSUME NEW c \in 1..head, FirstTick(c) PROVE TypeOK'
    BY <2>4 DEF FirstTick, Tick, env, tick
  <2>5. CASE SkipTick
    BY <2>5 DEF SkipTick, Tick, env, cursor, tick
  <2>6. ASSUME NEW c \in 1..head, Fetch(c) PROVE TypeOK'
    <3>1. PICK out \in Page(Matching(c, {"out", "self"})),
               in  \in Page(Matching(c, {"in", "self"})) :
            /\ todo' = {t[1] : t \in out \cup in}
            /\ legs' = [h \in Hash |-> {l \in LegsOf[h] : <<h, l>> \in out \cup in}]
            /\ cut' = cut \cup {h \in Hash :
                 \E l \in LegsOf[h] :
                   <<h, l>> \in Matching(c, {"out", "in", "self"}) \ (out \cup in)}
      BY <2>6 DEF Fetch
    <3>2. out \cup in \subseteq Hash \X Leg
      BY DEF Page, Matching
    <3>3. todo' \subseteq Hash /\ cut' \subseteq Hash /\ legs' \in [Hash -> SUBSET Leg]
      BY <3>1, <3>2
    <3> QED BY <2>6, <3>3, SMTT(30) DEF Fetch, Tick, env, cursor
  <2>7. ASSUME NEW h \in Hash, SkipHash(h) PROVE TypeOK'
    BY <2>7 DEF SkipHash, Walk, env, cursor, tick
  <2>8. ASSUME NEW h \in Hash, DropSpam(h) PROVE TypeOK'
    BY <2>8, AddType DEF DropSpam, Walk, env, cursor, tick
  <2>9. ASSUME NEW h \in Hash, Defer(h) PROVE TypeOK'
    BY <2>9 DEF Defer, Walk, env, cursor, tick
  <2>10. ASSUME NEW h \in Hash, Emit(h) PROVE TypeOK'
    <3>1. PICK event \in buildTransactionEvent(h) :
            sent' = [sent EXCEPT ![h] = Append(@, event)]
      BY <2>10 DEF Emit
    <3>2. PICK role \in classifyRole(legs[h]) : event = [role |-> role, ours |-> h \in ours]
      BY <3>1 DEF buildTransactionEvent
    <3>3. event \in Event
      <4>1. role \in Role
        BY <3>2, RoleType
      <4> QED BY <3>2, <4>1 DEF Event
    <3>4. sent' \in [Hash -> Seq(Event)]
      BY <3>1, <3>3
    <3> QED BY <2>10, <3>4, AddType DEF Emit, Walk, env, cursor, tick
  <2>11. CASE EndTick
    BY <2>11 DEF EndTick, env
  <2>12. CASE UNCHANGED vars
    BY <2>12 DEF vars, env, cursor, tick
  <2> QED
    BY <2>1, <2>2, <2>3, <2>4, <2>5, <2>6, <2>7, <2>8, <2>9, <2>10, <2>11, <2>12
    DEF Next, Environment, watchTransactions
<1> QED BY <1>1, <1>2, PTL DEF Spec
-----------------------------------------------------------------------------
(***************************************************************************)
(* AtMostOnce.  A handled hash can come back only while its block is in    *)
(* the window.  Every tick moves the cursor by at least one block and adds *)
(* at most 2 * PageSize hashes, so the number of hashes added after h is   *)
(* bounded by the distance between the cursor and the block of h, and      *)
(* inside the window that bound stays below the capacity.                  *)
(***************************************************************************)
Budget(k) == 2 * PageSize * k

\* How many ticks may have added hashes since h was handled.
Rounds(h) ==
  IF pc = "idle" THEN lastBlock + 1 - block[h]
  ELSE IF block[h] <= lastBlock THEN lastBlock + 2 - block[h] ELSE 1

Remembered(h) ==
  \E p \in 1..Len(emitted) :
    /\ emitted[p] = h
    /\ Len(emitted) - p + Cardinality(todo) < Budget(Rounds(h))

TodoInv ==
  /\ IsFiniteSet(todo)
  /\ Cardinality(todo) <= Budget(1)
  /\ pc = "idle" => todo = {}
  /\ pc = "scan" => cur > lastBlock
  /\ \A h \in todo : block[h] >= From(lastBlock) /\ block[h] <= cur

HandledInv ==
  /\ ~initialized => Handled = {} /\ pc = "idle"
  /\ \A h \in Handled :
       /\ block[h] >= 1
       /\ block[h] <= IF pc = "scan" THEN cur ELSE lastBlock
       /\ block[h] >= From(lastBlock) => Remembered(h)

DedupInv == TodoInv /\ HandledInv /\ AtMostOnce

LEMMA BudgetFacts ==
  /\ Budget(1) \in Nat /\ Budget(1) > 0
  /\ \A k \in Nat : Budget(k) \in Nat /\ Budget(k + 1) = Budget(k) + Budget(1)
  /\ \A k, m \in Nat : k <= m => Budget(k) <= Budget(m)
  /\ Cap \in Nat /\ Budget(Lookback + 1) <= Cap
<1>1. Budget(1) \in Nat /\ Budget(1) > 0
  BY BoundAssumption DEF Budget
<1>2. \A k \in Nat : Budget(k) \in Nat /\ Budget(k + 1) = Budget(k) + Budget(1)
  BY BoundAssumption DEF Budget
<1>3. \A k, m \in Nat : k <= m => Budget(k) <= Budget(m)
  BY BoundAssumption DEF Budget
<1>4. Cap \in Nat /\ Budget(Lookback + 1) <= Cap
  BY CapAssumption DEF Budget
<1> QED BY <1>1, <1>2, <1>3, <1>4

(***************************************************************************)
(* Inside the window the budget of a handled hash is at most the capacity. *)
(***************************************************************************)
LEMMA WindowBudget ==
  ASSUME TypeOK, TodoInv, NEW h \in Hash, block[h] >= From(lastBlock),
         pc = "idle" => block[h] <= lastBlock
  PROVE  Rounds(h) \in Nat \ {0} /\ Budget(Rounds(h)) <= Cap
<1>1. Rounds(h) \in Nat \ {0} /\ Rounds(h) <= Lookback + 1
  BY BoundAssumption DEF TypeOK, From, Rounds
<1>2. Lookback + 1 \in Nat
  BY BoundAssumption
<1>3. Budget(Rounds(h)) <= Budget(Lookback + 1)
  BY <1>1, <1>2, BudgetFacts
<1>4. Budget(Rounds(h)) \in Nat /\ Budget(Lookback + 1) \in Nat
  BY <1>1, <1>2, BudgetFacts
<1> QED BY <1>1, <1>3, <1>4, BudgetFacts

(***************************************************************************)
(* emittedSet.add puts h last and pushes every entry at least one place    *)
(* away from the eviction end one place towards it.                        *)
(***************************************************************************)
LEMMA AddShifts ==
  ASSUME emitted \in Seq(Hash), NEW h \in Hash, h \notin Elems(emitted)
  PROVE  LET e == addEmitted(h) IN
         /\ Len(e) \in Nat \ {0} /\ e[Len(e)] = h
         /\ \A p \in 1..Len(emitted) :
              Len(emitted) - p + 1 < Cap =>
                \E q \in 1..Len(e) :
                  e[q] = emitted[p] /\ Len(e) - q = Len(emitted) - p + 1
<1>1. CASE Len(emitted) < Cap
  <2>1. addEmitted(h) = Append(emitted, h)
    BY <1>1, CapAssumption DEF addEmitted
  <2> QED BY <2>1
<1>2. CASE Len(emitted) >= Cap
  <2>1. emitted # <<>>
    BY <1>2, CapAssumption, BoundAssumption
  <2>2. addEmitted(h) = Append(Tail(emitted), h)
    BY <1>2, CapAssumption DEF addEmitted
  <2>3. /\ Tail(emitted) \in Seq(Hash) /\ Len(Tail(emitted)) = Len(emitted) - 1
        /\ \A i \in 1..(Len(emitted) - 1) : Tail(emitted)[i] = emitted[i + 1]
    BY <2>1
  <2>4. Len(addEmitted(h)) = Len(emitted) /\ addEmitted(h)[Len(emitted)] = h
    BY <2>1, <2>2, <2>3
  <2>5. ASSUME NEW p \in 1..Len(emitted), Len(emitted) - p + 1 < Cap
        PROVE  \E q \in 1..Len(emitted) :
                 addEmitted(h)[q] = emitted[p] /\ Len(emitted) - q = Len(emitted) - p + 1
    <3>1. p - 1 \in 1..(Len(emitted) - 1)
      BY <1>2, <2>5, CapAssumption
    <3>2. addEmitted(h)[p - 1] = emitted[p]
      BY <2>2, <2>3, <3>1
    <3> QED BY <3>1, <3>2
  <2> QED BY <2>1, <2>4, <2>5
<1> QED BY <1>1, <1>2, CapAssumption
(***************************************************************************)
(* The two pages of a tick name at most 2 * PageSize hashes.               *)
(***************************************************************************)
LEMMA PageBound ==
  ASSUME NEW A, NEW B, NEW out \in Page(A), NEW in \in Page(B)
  PROVE  LET T == {t[1] : t \in out \cup in}
         IN  IsFiniteSet(T) /\ Cardinality(T) <= Budget(1)
<1> DEFINE T == {t[1] : t \in out \cup in}
<1> DEFINE f == [t \in out \cup in |-> t[1]]
<1>1. /\ IsFiniteSet(out) /\ Cardinality(out) <= PageSize
      /\ IsFiniteSet(in) /\ Cardinality(in) <= PageSize
  BY DEF Page
<1>2. /\ Cardinality(out) \in Nat /\ Cardinality(in) \in Nat
      /\ IsFiniteSet(out \cap in) /\ Cardinality(out \cap in) \in Nat
  BY <1>1, FS_CardinalityType, FS_Intersection
<1>3. /\ IsFiniteSet(out \cup in)
      /\ Cardinality(out \cup in)
           = Cardinality(out) + Cardinality(in) - Cardinality(out \cap in)
  BY <1>1, FS_Union
<1>4. f \in Surjection(out \cup in, T)
  BY DEF Surjection
<1>5. IsFiniteSet(T) /\ Cardinality(T) <= Cardinality(out \cup in)
  BY <1>3, <1>4, FS_Surjection
<1>6. Cardinality(T) \in Nat
  BY <1>5, FS_CardinalityType
<1>7. Cardinality(T) <= Budget(1)
  BY <1>1, <1>2, <1>3, <1>5, <1>6, BoundAssumption DEF Budget
<1> QED BY <1>5, <1>7

(***************************************************************************)
(* The environment and the ticks that stop early keep the invariant: what  *)
(* they change of the chain concerns only transactions not mined yet.      *)
(***************************************************************************)
LEMMA DedupQuiet ==
  ASSUME TypeOK, DedupInv, block' \in [Hash -> Nat],
         \A h \in Hash : block[h] # 0 => block'[h] = block[h],
         UNCHANGED <<pc, cursor, cur, todo, emitted, sent, dropped>>
  PROVE  DedupInv'
<1> USE DEF DedupInv, cursor
<1>1. From(lastBlock) >= 1 /\ From(lastBlock) \in Nat
  BY BoundAssumption DEF TypeOK, From
<1>2. Handled' = Handled
  BY DEF Handled
<1>3. AtMostOnce'
  BY DEF AtMostOnce
<1>4. \A h \in todo : h \in Hash /\ block[h] # 0
  BY <1>1 DEF TodoInv, TypeOK
<1>5. TodoInv'
  BY <1>4 DEF TodoInv, From
<1>6. \A h \in Handled : h \in Hash /\ block[h] # 0
  BY DEF HandledInv, Handled
<1>7. \A h \in Handled : block'[h] = block[h]
  BY <1>6
<1>8. ASSUME NEW h \in Handled, Remembered(h)
      PROVE  Remembered(h)'
  BY <1>7, <1>8 DEF Remembered, Rounds, Budget
<1>9. HandledInv'
  BY <1>2, <1>7, <1>8 DEF HandledInv, From
<1> QED BY <1>3, <1>5, <1>9
(***************************************************************************)
(* One iteration of processTick: the walked hash leaves todo, so the room  *)
(* it takes in emittedSet was already counted.                             *)
(***************************************************************************)
LEMMA TodoWalk ==
  ASSUME TypeOK, DedupInv, NEW h \in Hash, Walk(h)
  PROVE  /\ TodoInv'
         /\ Cardinality(todo) \in Nat \ {0}
         /\ Cardinality(todo') = Cardinality(todo) - 1
         /\ pc = "scan" /\ pc' = "scan" /\ block' = block
         /\ lastBlock' = lastBlock /\ cur' = cur /\ initialized' = initialized
         /\ block[h] \in Nat /\ block[h] >= From(lastBlock)
         /\ block[h] >= 1 /\ block[h] <= cur
         /\ (h \in Handled => h \in Elems(emitted))
<1> USE DEF DedupInv, Walk, env, cursor, tick
<1>1. IsFiniteSet(todo) /\ Cardinality(todo) \in Nat
  BY FS_CardinalityType DEF TodoInv
<1>2. Cardinality(todo') = Cardinality(todo) - 1 /\ IsFiniteSet(todo')
  BY <1>1, FS_RemoveElement
<1>3. Cardinality(todo') \in Nat
  BY <1>2, FS_CardinalityType
<1>4. Cardinality(todo) # 0
  BY <1>2, <1>3, <1>1
<1>5. /\ pc = "scan" /\ pc' = "scan" /\ block' = block
      /\ lastBlock' = lastBlock /\ cur' = cur /\ initialized' = initialized
  OBVIOUS
<1>6. /\ block[h] \in Nat /\ block[h] >= From(lastBlock)
      /\ block[h] >= 1 /\ block[h] <= cur
  BY BoundAssumption DEF TodoInv, TypeOK, From
<1>7. TodoInv'
  <2>1. Cardinality(todo') <= Budget(1)
    <3>1. Cardinality(todo) <= Budget(1)
      BY DEF TodoInv
    <3> QED BY <1>1, <1>2, <3>1, BudgetFacts
  <2>2. Budget(1)' = Budget(1) /\ From(lastBlock)' = From(lastBlock)
    BY <1>5 DEF Budget, From
  <2>3. todo' \subseteq todo
    OBVIOUS
  <2> QED BY <1>2, <1>5, <2>1, <2>2, <2>3 DEF TodoInv
<1>8. h \in Handled => h \in Elems(emitted)
  BY <1>6 DEF HandledInv, Remembered, Elems
<1> QED BY <1>1, <1>2, <1>4, <1>5, <1>6, <1>7, <1>8

LEMMA DedupPass ==
  ASSUME TypeOK, DedupInv, NEW h \in Hash, Walk(h),
         UNCHANGED <<emitted, sent, dropped>>
  PROVE  DedupInv'
<1>1. TodoInv'
  BY TodoWalk
<1>2. Handled' = Handled /\ AtMostOnce'
  BY DEF Handled, AtMostOnce, DedupInv
<1>3. ASSUME NEW g \in Handled, Remembered(g)
      PROVE  Remembered(g)'
  <2>1. PICK p \in 1..Len(emitted) :
          /\ emitted[p] = g
          /\ Len(emitted) - p + Cardinality(todo) < Budget(Rounds(g))
    BY <1>3 DEF Remembered
  <2>2. Rounds(g)' = Rounds(g)
    BY TodoWalk DEF Rounds
  <2>3. Rounds(g) \in Int
    <3>1. block[g] \in Nat /\ lastBlock \in Nat
      BY DEF Handled, TypeOK
    <3> QED BY <3>1 DEF Rounds
  <2>4. Budget(Rounds(g)) \in Int
    BY <2>3, BoundAssumption DEF Budget
  <2>5. Cardinality(todo) \in Nat /\ Cardinality(todo') = Cardinality(todo) - 1
    BY TodoWalk
  <2>6. Len(emitted) - p \in Nat
    BY DEF TypeOK
  <2>7. Len(emitted) - p + Cardinality(todo') < Budget(Rounds(g))
    BY <2>1, <2>4, <2>5, <2>6
  <2> QED BY <2>1, <2>2, <2>7 DEF Remembered, Budget
<1>4. HandledInv'
  BY <1>2, <1>3, TodoWalk DEF HandledInv, DedupInv, From
<1> QED BY <1>1, <1>2, <1>4 DEF DedupInv

LEMMA DedupAdd ==
  ASSUME TypeOK, DedupInv, NEW h \in Hash, Walk(h), h \notin Elems(emitted),
         initialized,
         emitted' = addEmitted(h), Handled' = Handled \cup {h}, AtMostOnce'
  PROVE  DedupInv'
<1> USE DEF DedupInv
<1>1. TodoInv'
  BY TodoWalk
<1>2. emitted \in Seq(Hash) /\ Len(emitted) \in Nat
  BY DEF TypeOK
<1>3. /\ Len(emitted') \in Nat \ {0} /\ emitted'[Len(emitted')] = h
      /\ \A p \in 1..Len(emitted) :
           Len(emitted) - p + 1 < Cap =>
             \E q \in 1..Len(emitted') :
               emitted'[q] = emitted[p] /\ Len(emitted') - q = Len(emitted) - p + 1
  BY <1>2, AddShifts, ZenonT(40)
<1>4. \A g \in Hash : Rounds(g)' = Rounds(g)
  BY TodoWalk DEF Rounds
<1>8. /\ Cardinality(todo) \in Nat \ {0}
      /\ Cardinality(todo') = Cardinality(todo) - 1
      /\ Cardinality(todo) <= Budget(1)
  BY TodoWalk DEF TodoInv
<1>5. ASSUME NEW g \in Handled, block[g] >= From(lastBlock)
      PROVE  Remembered(g)'
  <2>1. g \in Hash
    BY DEF Handled
  <2>2. PICK p \in 1..Len(emitted) :
          /\ emitted[p] = g
          /\ Len(emitted) - p + Cardinality(todo) < Budget(Rounds(g))
    BY <1>5 DEF HandledInv, Remembered
  <2>3. Rounds(g) \in Nat /\ Budget(Rounds(g)) <= Cap /\ Budget(Rounds(g)) \in Nat
    BY <1>5, <2>1, TodoWalk, WindowBudget, BudgetFacts DEF HandledInv
  <2>4. Len(emitted) - p + 1 < Cap
    BY <1>2, <1>8, <2>2, <2>3, CapAssumption
  <2>5. PICK q \in 1..Len(emitted') :
          emitted'[q] = emitted[p] /\ Len(emitted') - q = Len(emitted) - p + 1
    BY <1>3, <2>4
  <2>6. Len(emitted') - q + Cardinality(todo') < Budget(Rounds(g))
    BY <1>2, <1>3, <1>8, <2>2, <2>3, <2>5
  <2> QED BY <1>4, <2>1, <2>2, <2>5, <2>6 DEF Remembered, Budget
<1>6. Remembered(h)'
  <2>1. Rounds(h) \in Nat \ {0}
    BY TodoWalk, WindowBudget
  <2>2. Budget(1) <= Budget(Rounds(h)) /\ Budget(Rounds(h)) \in Nat
    BY <2>1, BudgetFacts
  <2>3. Cardinality(todo') < Budget(1)
    BY <1>8, BudgetFacts
  <2>4. Len(emitted') - Len(emitted') + Cardinality(todo') < Budget(Rounds(h))
    <3>1. Len(emitted') - Len(emitted') = 0
      BY <1>3
    <3> QED BY <1>8, <2>2, <2>3, <3>1, BudgetFacts
  <2> QED BY <1>3, <1>4, <2>4 DEF Remembered, Budget
<1>7. HandledInv'
  BY <1>5, <1>6, TodoWalk DEF HandledInv, From
<1> QED BY <1>1, <1>7
LEMMA DedupFetch ==
  ASSUME TypeOK, DedupInv, NEW c \in 1..head, Fetch(c)
  PROVE  DedupInv'
<1> USE DEF DedupInv
<1>1. PICK out \in Page(Matching(c, {"out", "self"})),
           in  \in Page(Matching(c, {"in", "self"})) :
        todo' = {t[1] : t \in out \cup in}
  BY DEF Fetch
<1>2. IsFiniteSet(todo') /\ Cardinality(todo') <= Budget(1) /\ Cardinality(todo') \in Nat
  BY <1>1, PageBound, FS_CardinalityType
<1>3. \A t \in out \cup in : block[t[1]] \in From(lastBlock)..c
  BY DEF Page, Matching
<1>4. /\ pc = "idle" /\ pc' = "scan" /\ cur' = c /\ c > lastBlock /\ c \in Nat
      /\ block' = block /\ lastBlock' = lastBlock /\ initialized /\ initialized'
      /\ emitted' = emitted /\ sent' = sent /\ dropped' = dropped
  BY DEF Fetch, Tick, env, cursor, TypeOK
<1>5. From(lastBlock) \in Nat
  BY BoundAssumption DEF TypeOK, From
<1>6. TodoInv'
  BY <1>1, <1>2, <1>3, <1>4, <1>5 DEF TodoInv, From, Budget
<1>7. Handled' = Handled /\ AtMostOnce'
  BY <1>4 DEF Handled, AtMostOnce
<1>8. ASSUME NEW g \in Handled, block[g] >= From(lastBlock)
      PROVE  Remembered(g)'
  <2>1. g \in Hash /\ block[g] \in Nat /\ block[g] <= lastBlock
    BY <1>4 DEF Handled, HandledInv, TypeOK
  <2>2. PICK p \in 1..Len(emitted) :
          /\ emitted[p] = g
          /\ Len(emitted) - p + Cardinality(todo) < Budget(Rounds(g))
    BY <1>8 DEF HandledInv, Remembered
  <2>3. Cardinality(todo) = 0
    BY <1>4, FS_EmptySet DEF TodoInv
  <2>4. Rounds(g) \in Nat /\ Rounds(g)' = Rounds(g) + 1
    BY <1>4, <2>1, SMTT(30) DEF Rounds, TypeOK
  <2>5. Budget(Rounds(g)) \in Nat /\ Budget(Rounds(g) + 1) = Budget(Rounds(g)) + Budget(1)
    BY <2>4, BudgetFacts
  <2>7. Len(emitted) - p \in Nat /\ Budget(1) \in Nat
    BY BudgetFacts DEF TypeOK
  <2>6. Len(emitted) - p + Cardinality(todo') < Budget(Rounds(g) + 1)
    BY <1>2, <2>2, <2>3, <2>5, <2>7
  <2> QED BY <1>4, <2>2, <2>4, <2>6 DEF Remembered, Budget
<1>9. HandledInv'
  BY <1>4, <1>7, <1>8 DEF HandledInv, From, Handled, TypeOK
<1> QED BY <1>6, <1>7, <1>9

LEMMA DedupEndTick ==
  ASSUME TypeOK, DedupInv, EndTick
  PROVE  DedupInv'
<1> USE DEF DedupInv
<1>1. /\ pc = "scan" /\ pc' = "idle" /\ todo = {} /\ todo' = {} /\ lastBlock' = cur
      /\ block' = block /\ initialized' = initialized /\ cur > lastBlock
      /\ emitted' = emitted /\ sent' = sent /\ dropped' = dropped
  BY DEF EndTick, env, TodoInv
<1>2. TodoInv'
  BY <1>1, FS_EmptySet, BudgetFacts DEF TodoInv, Budget
<1>3. Handled' = Handled /\ AtMostOnce'
  BY <1>1 DEF Handled, AtMostOnce
<1>4. From(cur) >= From(lastBlock) /\ From(cur) \in Nat /\ From(lastBlock) \in Nat
  BY <1>1, BoundAssumption DEF From, TypeOK
<1>5. ASSUME NEW g \in Handled, block[g] >= From(cur)
      PROVE  Remembered(g)'
  <2>1. g \in Hash /\ block[g] \in Nat /\ block[g] <= cur /\ block[g] >= From(lastBlock)
    BY <1>1, <1>4, <1>5 DEF Handled, HandledInv, TypeOK
  <2>2. PICK p \in 1..Len(emitted) :
          /\ emitted[p] = g
          /\ Len(emitted) - p + Cardinality(todo) < Budget(Rounds(g))
    BY <2>1 DEF HandledInv, Remembered
  <2>3. Rounds(g) \in Nat /\ Rounds(g)' \in Nat /\ Rounds(g) <= Rounds(g)'
    <3>1. cur \in Nat /\ lastBlock \in Nat /\ cur > lastBlock /\ block'[g] = block[g]
      BY <1>1 DEF TypeOK
    <3>2. Rounds(g)' = cur + 1 - block[g]
      BY <1>1 DEF Rounds
    <3>3. Rounds(g) = IF block[g] <= lastBlock THEN lastBlock + 2 - block[g] ELSE 1
      BY <1>1 DEF Rounds
    <3> QED BY <2>1, <3>1, <3>2, <3>3
  <2>4. Budget(Rounds(g)) <= Budget(Rounds(g)')
    BY <2>3, BudgetFacts
  <2>5. Budget(Rounds(g)) \in Nat /\ Budget(Rounds(g)') \in Nat
    BY <2>3, BudgetFacts
  <2>6. Len(emitted) - p + Cardinality(todo) < Budget(Rounds(g)')
    BY <1>1, <2>2, <2>4, <2>5, FS_EmptySet DEF TypeOK
  <2> QED BY <1>1, <2>2, <2>6 DEF Remembered, Budget
<1>6. HandledInv'
  BY <1>1, <1>3, <1>5 DEF HandledInv, From
<1> QED BY <1>2, <1>3, <1>6

(***************************************************************************)
(* One notification per hash (watch_transactions.go:14-17), for every      *)
(* number of hashes, page size and lookback, and every dedup capacity of   *)
(* at least 2 * PageSize * (Lookback + 1), as the code's 512 is.           *)
(***************************************************************************)
THEOREM OneEventPerHash == Spec => []AtMostOnce
<1>1. Init => DedupInv
  <2> SUFFICES ASSUME Init PROVE DedupInv
    OBVIOUS
  <2>1. Handled = {} /\ AtMostOnce
    BY DEF Init, Handled, AtMostOnce
  <2>2. TodoInv
    BY FS_EmptySet, BudgetFacts DEF Init, TodoInv
  <2> QED BY <2>1, <2>2 DEF Init, DedupInv, HandledInv
<1>2. TypeOK /\ DedupInv /\ [Next]_vars => DedupInv'
  <2> SUFFICES ASSUME TypeOK, DedupInv, [Next]_vars PROVE DedupInv'
    OBVIOUS
  <2>1. ASSUME NEW S \in SUBSET Hash, NewBlock(S) PROVE DedupInv'
    <3>1. block' \in [Hash -> Nat] /\ \A h \in Hash : block[h] # 0 => block'[h] = block[h]
      BY <2>1 DEF NewBlock, TypeOK
    <3> QED BY <2>1, <3>1, DedupQuiet DEF NewBlock, tick
  <2>2. ASSUME NEW h \in Hash, NEW l \in LegsOf[h], Index(h, l) PROVE DedupInv'
    BY <2>2, DedupQuiet DEF Index, tick, TypeOK
  <2>3. ASSUME NEW h \in Hash, Track(h) \/ Forget(h) PROVE DedupInv'
    BY <2>3, DedupQuiet DEF Track, Forget, tick, TypeOK
  <2>4. ASSUME NEW c \in 1..head, FirstTick(c) PROVE DedupInv'
    <3>1. /\ pc = "idle" /\ ~initialized /\ initialized' /\ todo = {} /\ Handled = {}
          /\ UNCHANGED <<block, pc, todo, emitted, sent, dropped>>
      BY <2>4 DEF FirstTick, Tick, env, tick, DedupInv, TodoInv, HandledInv
    <3>2. Handled' = {} /\ AtMostOnce'
      BY <3>1 DEF Handled, AtMostOnce, DedupInv
    <3>3. TodoInv'
      BY <3>1, FS_EmptySet, BudgetFacts DEF TodoInv, Budget
    <3> QED BY <3>1, <3>2, <3>3 DEF DedupInv, HandledInv
  <2>5. CASE SkipTick
    BY <2>5, DedupQuiet DEF SkipTick, env, tick, TypeOK
  <2>6. ASSUME NEW c \in 1..head, Fetch(c) PROVE DedupInv'
    BY <2>6, DedupFetch
  <2>7. ASSUME NEW h \in Hash, SkipHash(h) PROVE DedupInv'
    BY <2>7, DedupPass DEF SkipHash
  <2>8. ASSUME NEW h \in Hash, Defer(h) PROVE DedupInv'
    BY <2>8, DedupPass DEF Defer
  <2>9. ASSUME NEW h \in Hash, DropSpam(h) PROVE DedupInv'
    <3>1. Walk(h) /\ h \notin Elems(emitted) /\ emitted' = addEmitted(h)
          /\ sent' = sent /\ dropped' = dropped \cup {h}
      BY <2>9 DEF DropSpam
    <3>2. h \notin Handled /\ initialized
      BY <3>1, TodoWalk DEF DedupInv, HandledInv
    <3>3. Handled' = Handled \cup {h}
      BY <3>1 DEF Handled
    <3>4. sent[h] = <<>> /\ h \notin dropped
      BY <3>2 DEF Handled
    <3>5. AtMostOnce'
      BY <3>1, <3>4 DEF AtMostOnce, DedupInv
    <3> QED BY <3>1, <3>2, <3>3, <3>5, DedupAdd
  <2>10. ASSUME NEW h \in Hash, Emit(h) PROVE DedupInv'
    <3>1. Walk(h) /\ h \notin Elems(emitted) /\ emitted' = addEmitted(h) /\ dropped' = dropped
      BY <2>10 DEF Emit
    <3>2. PICK event \in buildTransactionEvent(h) :
            sent' = [sent EXCEPT ![h] = Append(@, event)]
      BY <2>10 DEF Emit
    <3>3. h \notin Handled /\ initialized
      BY <3>1, TodoWalk DEF DedupInv, HandledInv
    <3>4. sent[h] = <<>> /\ h \notin dropped
      BY <3>3 DEF Handled
    <3>5. sent'[h] # <<>> /\ Len(sent'[h]) = 1 /\ \A g \in Hash \ {h} : sent'[g] = sent[g]
      BY <3>2, <3>4 DEF TypeOK
    <3>6. Handled' = Handled \cup {h}
      BY <3>1, <3>5 DEF Handled
    <3>7. AtMostOnce'
      <4>1. ASSUME NEW g \in Hash
            PROVE  Len(sent'[g]) <= 1 /\ (g \in dropped' => sent'[g] = <<>>)
        <5>1. CASE g = h
          <6>1. Len(sent'[h]) <= 1
            BY <3>5
          <6>2. h \notin dropped'
            BY <3>1, <3>4
          <6> QED BY <5>1, <6>1, <6>2
        <5>2. CASE g # h
          BY <3>1, <3>5, <5>2 DEF AtMostOnce, DedupInv
        <5> QED BY <5>1, <5>2
      <4> QED BY <4>1 DEF AtMostOnce
    <3> QED BY <3>1, <3>3, <3>6, <3>7, DedupAdd
  <2>11. CASE EndTick
    BY <2>11, DedupEndTick
  <2>12. CASE UNCHANGED vars
    BY <2>12, DedupQuiet DEF vars, env, tick, TypeOK
  <2> QED
    BY <2>1, <2>2, <2>3, <2>4, <2>5, <2>6, <2>7, <2>8, <2>9, <2>10, <2>11, <2>12
    DEF Next, Environment, watchTransactions
<1>3. DedupInv => AtMostOnce
  BY DEF DedupInv
<1> QED BY <1>1, <1>2, <1>3, TypeCorrect, PTL DEF Spec
-----------------------------------------------------------------------------
(***************************************************************************)
(* NoSkip.  A block leaves the windows only in a tick that read a head at  *)
(* least Lookback blocks past it.  By then Alchemy has indexed all its     *)
(* legs, so that tick's own fetch, the last one to reach the block, sees   *)
(* every transaction of it whole, and processTick handles it before the    *)
(* cursor moves.                                                           *)
(***************************************************************************)
HeadInv ==
  /\ lastBlock <= head /\ cur <= head
  /\ \A h \in Hash : block[h] <= head
  /\ pc = "scan" => initialized

\* Alchemy's promise, as the chain keeps it.
IndexedInv ==
  \A h \in Hash :
    block[h] # 0 /\ block[h] < head /\ block[h] + Lag <= head => visible[h] = LegsOf[h]

RememberedOnlyHandled == Elems(emitted) \subseteq Handled

\* h is a transaction NoSkip speaks of, in a block below the window of cursor L.
Leaves(h, L) ==
  /\ h \in Hash \ cut
  /\ LegsOf[h] # {} /\ Complete(h)
  /\ block[h] > start /\ block[h] < From(L)

\* What this tick's end puts out of reach is handled, or known whole and to be walked.
LastChanceInv ==
  pc = "scan" =>
    \A h \in Hash : Leaves(h, cur) => h \in Handled \/ (h \in todo /\ legs[h] = LegsOf[h])

ReachInv == HeadInv /\ IndexedInv /\ RememberedOnlyHandled /\ LastChanceInv /\ NoSkip

(***************************************************************************)
(* The window of a cursor starts at most one block past it, and what lies  *)
(* below it is old enough for the indexer.                                 *)
(***************************************************************************)
LEMMA WindowFacts ==
  ASSUME NEW L \in Nat
  PROVE  /\ From(L) \in Nat /\ From(L) >= 1 /\ From(L) <= L + 1
         /\ \A b \in Nat \ {0} : b < From(L) => b < L /\ b + Lag <= L
<1>1. Lookback \in Nat \ {0} /\ Lag \in Nat /\ Lag <= Lookback
  BY BoundAssumption, LagAssumption
<1> QED BY <1>1 DEF From

(***************************************************************************)
(* emittedSet.add brings in no hash but the one added.                     *)
(***************************************************************************)
LEMMA AddElems ==
  ASSUME emitted \in Seq(Hash), NEW h \in Hash
  PROVE  Elems(addEmitted(h)) \subseteq Elems(emitted) \cup {h}
<1>1. CASE h \in Elems(emitted)
  BY <1>1 DEF addEmitted
<1>2. CASE h \notin Elems(emitted) /\ Len(emitted) < Cap
  <2>1. addEmitted(h) = Append(emitted, h)
    BY <1>2, CapAssumption DEF addEmitted
  <2> QED BY <2>1 DEF Elems
<1>3. CASE h \notin Elems(emitted) /\ Len(emitted) >= Cap
  <2>1. emitted # <<>>
    BY <1>3, CapAssumption, BoundAssumption
  <2>2. addEmitted(h) = Append(Tail(emitted), h)
    BY <1>3, CapAssumption DEF addEmitted
  <2>3. /\ Tail(emitted) \in Seq(Hash) /\ Len(Tail(emitted)) = Len(emitted) - 1
        /\ \A i \in 1..(Len(emitted) - 1) : Tail(emitted)[i] = emitted[i + 1]
    BY <2>1
  <2>4. ASSUME NEW i \in 1..Len(addEmitted(h))
        PROVE  addEmitted(h)[i] = h \/ \E j \in 1..Len(emitted) : addEmitted(h)[i] = emitted[j]
    <3>1. Len(emitted) \in Nat \ {0} /\ Len(addEmitted(h)) = Len(emitted)
      BY <2>1, <2>2, <2>3
    <3>2. CASE i = Len(emitted)
      BY <2>2, <2>3, <3>1, <3>2
    <3>3. CASE i # Len(emitted)
      <4>1. i \in 1..(Len(emitted) - 1)
        BY <3>1, <3>3
      <4>2. addEmitted(h)[i] = Tail(emitted)[i]
        BY <2>2, <2>3, <4>1
      <4>3. i + 1 \in 1..Len(emitted)
        BY <3>1, <4>1
      <4> QED BY <2>3, <4>1, <4>2, <4>3
    <3> QED BY <3>2, <3>3
  <2> QED BY <2>4 DEF Elems
<1> QED BY <1>1, <1>2, <1>3, CapAssumption

(***************************************************************************)
(* The environment and the ticks that stop early: a block mined now is     *)
(* above every window the monitor has read.                                *)
(***************************************************************************)
LEMMA ReachQuiet ==
  ASSUME TypeOK, ReachInv, HeadInv', IndexedInv', block' \in [Hash -> Nat],
         \A h \in Hash : block'[h] = block[h] \/ block'[h] > head,
         UNCHANGED <<pc, cursor, cur, legs, cut, todo, emitted, sent, dropped>>
  PROVE  ReachInv'
<1> USE DEF ReachInv, cursor
<1>1. Handled' = Handled
  BY DEF Handled
<1>2. RememberedOnlyHandled'
  BY <1>1 DEF RememberedOnlyHandled, Elems
<1>3. LastChanceInv'
  <2> SUFFICES ASSUME pc = "scan", NEW h \in Hash, Leaves(h, cur)'
               PROVE  h \in Handled \/ (h \in todo /\ legs[h] = LegsOf[h])
    BY <1>1 DEF LastChanceInv
  <2>1. cur \in Nat /\ cur <= head /\ cur' = cur
    BY DEF HeadInv, TypeOK
  <2>2. /\ h \in Hash \ cut /\ LegsOf[h] # {} /\ Complete(h)
        /\ block'[h] > start /\ block'[h] < From(cur)
    BY <2>1 DEF Leaves, Complete, From
  <2>3. block'[h] = block[h]
    BY <2>1, <2>2, WindowFacts, SMTT(30) DEF TypeOK
  <2> QED BY <2>2, <2>3 DEF LastChanceInv, Leaves
<1>4. NoSkip'
  <2> SUFFICES ASSUME NEW h \in Hash \ cut, LegsOf[h] # {}, Complete(h),
                      initialized, block'[h] > start, block'[h] < From(lastBlock)
               PROVE  h \in Handled
    BY <1>1 DEF NoSkip, Passed, Complete, From
  <2>1. lastBlock \in Nat /\ lastBlock <= head
    BY DEF HeadInv, TypeOK
  <2>2. block'[h] = block[h]
    BY <2>1, WindowFacts, SMTT(30) DEF TypeOK
  <2> QED BY <2>2 DEF NoSkip, Passed
<1> QED BY <1>2, <1>3, <1>4
(***************************************************************************)
(* fetchTransfers: the window of this tick reaches every block it is the   *)
(* last to reach, and those are indexed to the last leg.                   *)
(***************************************************************************)
LEMMA ReachFetch ==
  ASSUME TypeOK, ReachInv, NEW c \in 1..head, Fetch(c)
  PROVE  ReachInv'
<1> USE DEF ReachInv
<1>1. PICK out \in Page(Matching(c, {"out", "self"})),
           in  \in Page(Matching(c, {"in", "self"})) :
        /\ todo' = {t[1] : t \in out \cup in}
        /\ legs' = [h \in Hash |-> {l \in LegsOf[h] : <<h, l>> \in out \cup in}]
        /\ cut' = cut \cup {h \in Hash :
             \E l \in LegsOf[h] :
               <<h, l>> \in Matching(c, {"out", "in", "self"}) \ (out \cup in)}
  BY DEF Fetch
<1>2. /\ pc = "idle" /\ pc' = "scan" /\ cur' = c /\ c > lastBlock /\ c \in Nat /\ c <= head
      /\ head' = head /\ block' = block /\ visible' = visible
      /\ lastBlock' = lastBlock /\ start' = start
      /\ initialized /\ initialized' = initialized
      /\ emitted' = emitted /\ sent' = sent /\ dropped' = dropped
  BY DEF Fetch, Tick, env, cursor, TypeOK
<1>3. Handled' = Handled
  BY <1>2 DEF Handled
<1>4. HeadInv' /\ IndexedInv'
  BY <1>2 DEF HeadInv, IndexedInv
<1>5. RememberedOnlyHandled'
  BY <1>2, <1>3 DEF RememberedOnlyHandled, Elems
<1>6. cut \subseteq cut'
  BY <1>1
<1>7. NoSkip'
  BY <1>2, <1>3, <1>6 DEF NoSkip, Passed, Complete, From
<1>8. LastChanceInv'
  <2> SUFFICES ASSUME NEW h \in Hash, Leaves(h, cur)'
               PROVE  h \in Handled \/ (h \in todo' /\ legs'[h] = LegsOf[h])
    BY <1>3 DEF LastChanceInv
  <2>1. /\ h \notin cut' /\ LegsOf[h] # {} /\ Complete(h)
        /\ block[h] > start /\ block[h] < From(c)
    BY <1>2 DEF Leaves, Complete, From
  <2>2. block[h] \in Nat \ {0} /\ start \in Nat /\ lastBlock \in Nat /\ head \in Nat
    BY <2>1 DEF TypeOK
  <2>3. CASE block[h] < From(lastBlock)
    BY <1>2, <1>6, <2>1, <2>3 DEF NoSkip, Passed
  <2>4. CASE block[h] >= From(lastBlock)
    <3>1. block[h] < c /\ block[h] + Lag <= c
      BY <1>2, <2>1, <2>2, WindowFacts
    <3>2. block[h] < head /\ block[h] + Lag <= head
      BY <1>2, <2>2, <3>1, LagAssumption
    <3>3. visible[h] = LegsOf[h]
      BY <2>2, <3>2 DEF IndexedInv
    <3>4. block[h] \in From(lastBlock)..c
      BY <1>2, <2>2, <2>4, <3>1, WindowFacts
    <3>5. ASSUME NEW l \in LegsOf[h]
          PROVE  <<h, l>> \in out \cup in
      <4>1. l \in Leg /\ l.dir \in {"out", "in", "self"}
        BY HashAssumption DEF Leg
      <4>2. <<h, l>> \in Matching(c, {"out", "in", "self"})
        BY <3>3, <3>4, <4>1 DEF Matching
      <4> QED BY <1>1, <2>1, <4>2
    <3>6. legs'[h] = LegsOf[h]
      BY <1>1, <3>5
    <3>7. h \in todo'
      <4>1. PICK l \in LegsOf[h] : TRUE
        BY <2>1
      <4>2. <<h, l>> \in out \cup in /\ <<h, l>>[1] = h
        BY <3>5
      <4> QED BY <1>1, <4>2
    <3> QED BY <3>6, <3>7
  <2>5. From(lastBlock) \in Nat
    BY <2>2, WindowFacts
  <2> QED BY <2>2, <2>3, <2>4, <2>5
<1> QED BY <1>4, <1>5, <1>7, <1>8

(***************************************************************************)
(* One iteration of processTick: it may take h off the list only when h is *)
(* handled, or held back while some of its legs are missing.               *)
(***************************************************************************)
LEMMA ReachWalk ==
  ASSUME TypeOK, ReachInv, NEW h \in Hash, Walk(h),
         Handled \subseteq Handled', Elems(emitted)' \subseteq Handled',
         legs[h] = LegsOf[h] /\ Complete(h) => h \in Handled'
  PROVE  ReachInv'
<1> USE DEF ReachInv
<1>1. /\ pc = "scan" /\ todo' = todo \ {h} /\ pc' = pc /\ cur' = cur
      /\ head' = head /\ block' = block /\ visible' = visible /\ legs' = legs
      /\ lastBlock' = lastBlock /\ start' = start /\ initialized' = initialized
      /\ cut' = cut
  BY DEF Walk, env, cursor, tick
<1>2. HeadInv' /\ IndexedInv'
  BY <1>1 DEF HeadInv, IndexedInv
<1>3. RememberedOnlyHandled'
  BY DEF RememberedOnlyHandled
<1>4. NoSkip'
  BY <1>1 DEF NoSkip, Passed, Complete, From
<1>5. LastChanceInv'
  <2> SUFFICES ASSUME NEW g \in Hash, Leaves(g, cur)'
               PROVE  g \in Handled' \/ (g \in todo' /\ legs'[g] = LegsOf[g])
    BY DEF LastChanceInv
  <2>1. Leaves(g, cur)
    BY <1>1 DEF Leaves, Complete, From
  <2>2. g \in Handled \/ (g \in todo /\ legs[g] = LegsOf[g])
    BY <1>1, <2>1 DEF LastChanceInv
  <2>3. CASE g = h
    BY <2>1, <2>2, <2>3 DEF Leaves
  <2>4. CASE g # h
    BY <1>1, <2>2, <2>4
  <2> QED BY <2>3, <2>4
<1> QED BY <1>2, <1>3, <1>4, <1>5

(***************************************************************************)
(* The cursor moves to a head whose windows have left only handled hashes. *)
(***************************************************************************)
LEMMA ReachEndTick ==
  ASSUME TypeOK, ReachInv, EndTick
  PROVE  ReachInv'
<1> USE DEF ReachInv
<1>1. /\ pc = "scan" /\ pc' = "idle" /\ todo = {} /\ lastBlock' = cur /\ cur' = 0
      /\ head' = head /\ block' = block /\ visible' = visible /\ head \in Nat
      /\ initialized' = initialized /\ start' = start /\ cut' = cut
      /\ emitted' = emitted /\ sent' = sent /\ dropped' = dropped
  BY DEF EndTick, env, TypeOK
<1>2. Handled' = Handled
  BY <1>1 DEF Handled
<1>3. HeadInv' /\ IndexedInv'
  BY <1>1 DEF HeadInv, IndexedInv
<1>4. RememberedOnlyHandled' /\ LastChanceInv'
  BY <1>1, <1>2 DEF RememberedOnlyHandled, LastChanceInv, Elems
<1>5. NoSkip'
  <2> SUFFICES ASSUME NEW h \in Hash \ cut, LegsOf[h] # {}, Complete(h),
                      block[h] > start, block[h] < From(cur)
               PROVE  h \in Handled
    BY <1>1, <1>2 DEF NoSkip, Passed, Complete, From
  <2>1. Leaves(h, cur)
    BY DEF Leaves
  <2> QED BY <1>1, <2>1 DEF LastChanceInv
<1> QED BY <1>3, <1>4, <1>5

(***************************************************************************)
(* The cursor passes no transfer it has not handled, for every lookback    *)
(* that reaches at least as far back as the indexer lags, every page size, *)
(* and whatever heads the node answers and polls fail.                     *)
(***************************************************************************)
THEOREM NothingIsSkipped == Spec => []NoSkip
<1>1. Init => ReachInv
  <2> SUFFICES ASSUME Init PROVE ReachInv
    OBVIOUS
  <2>1. HeadInv /\ IndexedInv
    BY DEF Init, HeadInv, IndexedInv
  <2>2. RememberedOnlyHandled /\ LastChanceInv /\ NoSkip
    BY DEF Init, RememberedOnlyHandled, Elems, LastChanceInv, NoSkip, Passed
  <2> QED BY <2>1, <2>2 DEF ReachInv
<1>2. TypeOK /\ ReachInv /\ [Next]_vars => ReachInv'
  <2> SUFFICES ASSUME TypeOK, ReachInv, [Next]_vars PROVE ReachInv'
    OBVIOUS
  <2>1. ASSUME NEW S \in SUBSET Hash, NewBlock(S) PROVE ReachInv'
    <3>1. /\ head \in Nat /\ head' = head + 1 /\ visible' = visible
          /\ lastBlock' = lastBlock /\ cur' = cur /\ pc' = pc /\ initialized' = initialized
          /\ block' = [h \in Hash |-> IF h \in S THEN head + 1 ELSE block[h]]
      BY <2>1 DEF NewBlock, cursor, tick, TypeOK
    <3>2. /\ block' \in [Hash -> Nat]
          /\ \A h \in Hash : block'[h] = block[h] \/ block'[h] > head
      BY <3>1 DEF TypeOK
    <3>3. HeadInv'
      BY <3>1 DEF ReachInv, HeadInv, TypeOK
    <3>4. IndexedInv'
      <4> SUFFICES ASSUME NEW h \in Hash, block'[h] # 0, block'[h] < head + 1,
                          block'[h] + Lag <= head + 1
                   PROVE  visible[h] = LegsOf[h]
        BY <3>1 DEF IndexedInv
      <4>1. block'[h] = block[h]
        BY <3>1 DEF TypeOK
      <4> QED BY <2>1, <4>1 DEF NewBlock
    <3> QED BY <2>1, <3>2, <3>3, <3>4, ReachQuiet DEF NewBlock, tick
  <2>2. ASSUME NEW h \in Hash, NEW l \in LegsOf[h], Index(h, l) PROVE ReachInv'
    <3>1. /\ head' = head /\ block' = block /\ lastBlock' = lastBlock /\ cur' = cur
          /\ pc' = pc /\ initialized' = initialized
          /\ visible[h] # LegsOf[h]
          /\ \A g \in Hash \ {h} : visible'[g] = visible[g]
      BY <2>2 DEF Index, cursor, tick, TypeOK
    <3>2. HeadInv'
      BY <3>1 DEF ReachInv, HeadInv
    <3>3. IndexedInv'
      BY <3>1 DEF ReachInv, IndexedInv
    <3>4. block' \in [Hash -> Nat]
      BY <3>1 DEF TypeOK
    <3> QED BY <2>2, <3>1, <3>2, <3>3, <3>4, ReachQuiet DEF Index, tick
  <2>3. ASSUME NEW h \in Hash, Track(h) \/ Forget(h) PROVE ReachInv'
    <3>1. UNCHANGED <<head, block, visible, pc, cursor, cur, legs, cut, todo, emitted,
                      sent, dropped>>
      BY <2>3 DEF Track, Forget, tick
    <3>2. HeadInv' /\ IndexedInv' /\ block' \in [Hash -> Nat]
      BY <3>1 DEF ReachInv, HeadInv, IndexedInv, cursor, TypeOK
    <3> QED BY <3>1, <3>2, ReachQuiet
  <2>4. ASSUME NEW c \in 1..head, FirstTick(c) PROVE ReachInv'
    <3>1. /\ pc = "idle" /\ pc' = pc /\ ~initialized /\ lastBlock' = c /\ start' = c
          /\ c \in Nat /\ c <= head
          /\ UNCHANGED <<head, block, visible, cur, emitted, sent, dropped>>
      BY <2>4 DEF FirstTick, Tick, env, tick, TypeOK
    <3>2. HeadInv' /\ IndexedInv' /\ LastChanceInv'
      BY <3>1 DEF ReachInv, HeadInv, IndexedInv, LastChanceInv
    <3>3. RememberedOnlyHandled'
      BY <3>1 DEF ReachInv, RememberedOnlyHandled, Elems, Handled
    <3>4. \A h \in Hash : ~Passed(h)'
      <4>1. From(c) \in Nat /\ From(c) <= c + 1
        BY <3>1, WindowFacts
      <4>2. \A h \in Hash : block[h] \in Nat /\ ~(block[h] > c /\ block[h] < From(c))
        BY <3>1, <4>1 DEF TypeOK
      <4> QED BY <3>1, <4>2 DEF Passed, From
    <3>5. NoSkip'
      BY <3>4 DEF NoSkip
    <3> QED BY <3>2, <3>3, <3>5 DEF ReachInv
  <2>5. CASE SkipTick
    <3>1. UNCHANGED <<head, block, visible, pc, cursor, cur, legs, cut, todo, emitted,
                      sent, dropped>>
      BY <2>5 DEF SkipTick, env, tick
    <3>2. HeadInv' /\ IndexedInv' /\ block' \in [Hash -> Nat]
      BY <3>1 DEF ReachInv, HeadInv, IndexedInv, cursor, TypeOK
    <3> QED BY <3>1, <3>2, ReachQuiet
  <2>6. ASSUME NEW c \in 1..head, Fetch(c) PROVE ReachInv'
    BY <2>6, ReachFetch
  <2>7. ASSUME NEW h \in Hash, SkipHash(h) PROVE ReachInv'
    <3>1. Walk(h) /\ h \in Elems(emitted) /\ UNCHANGED <<emitted, sent, dropped>>
      BY <2>7 DEF SkipHash
    <3>2. Handled' = Handled /\ Elems(emitted)' = Elems(emitted)
      BY <3>1 DEF Handled, Elems
    <3> QED BY <3>1, <3>2, ReachWalk DEF ReachInv, RememberedOnlyHandled
  <2>8. ASSUME NEW h \in Hash, DropSpam(h) PROVE ReachInv'
    <3>1. Walk(h) /\ emitted' = addEmitted(h) /\ sent' = sent /\ dropped' = dropped \cup {h}
      BY <2>8 DEF DropSpam
    <3>2. Handled' = Handled \cup {h}
      BY <3>1 DEF Handled
    <3>3. Elems(emitted)' \subseteq Elems(emitted) \cup {h}
      <4>1. emitted \in Seq(Hash)
        BY DEF TypeOK
      <4>2. Elems(emitted)' = Elems(addEmitted(h))
        BY <3>1 DEF Elems
      <4> QED BY <4>1, <4>2, AddElems
    <3> QED BY <3>1, <3>2, <3>3, ReachWalk DEF ReachInv, RememberedOnlyHandled
  <2>9. ASSUME NEW h \in Hash, Defer(h) PROVE ReachInv'
    <3>1. Walk(h) /\ UNCHANGED <<emitted, sent, dropped>>
      BY <2>9 DEF Defer
    <3>2. Handled' = Handled /\ Elems(emitted)' = Elems(emitted)
      BY <3>1 DEF Handled, Elems
    <3>3. ~(legs[h] = LegsOf[h] /\ Complete(h))
      <4>1. PICK event \in buildTransactionEvent(h) : looksIncomplete(h, event.role)
        BY <2>9 DEF Defer
      <4>2. PICK role \in classifyRole(legs[h]) : event = [role |-> role, ours |-> h \in ours]
        BY <4>1 DEF buildTransactionEvent
      <4>3. h \in Swaps /\ role \notin {"Swap", "SelfTransfer"}
        BY <4>1, <4>2 DEF looksIncomplete
      <4> QED BY <4>2, <4>3 DEF Complete
    <3> QED BY <3>1, <3>2, <3>3, ReachWalk DEF ReachInv, RememberedOnlyHandled
  <2>10. ASSUME NEW h \in Hash, Emit(h) PROVE ReachInv'
    <3>1. Walk(h) /\ emitted' = addEmitted(h) /\ dropped' = dropped
      BY <2>10 DEF Emit
    <3>2. PICK event \in buildTransactionEvent(h) :
            sent' = [sent EXCEPT ![h] = Append(@, event)]
      BY <2>10 DEF Emit
    <3>3. PICK role \in classifyRole(legs[h]) : event = [role |-> role, ours |-> h \in ours]
      BY <3>2 DEF buildTransactionEvent
    <3>4. event \in Event
      <4>1. role \in Role
        BY <3>3, RoleType DEF TypeOK
      <4> QED BY <3>3, <4>1 DEF Event
    <3>5. sent'[h] # <<>> /\ \A g \in Hash \ {h} : sent'[g] = sent[g]
      BY <3>2, <3>4 DEF TypeOK
    <3>6. Handled \cup {h} \subseteq Handled'
      BY <3>1, <3>5 DEF Handled
    <3>7. Elems(emitted)' \subseteq Elems(emitted) \cup {h}
      <4>1. emitted \in Seq(Hash)
        BY DEF TypeOK
      <4>2. Elems(emitted)' = Elems(addEmitted(h))
        BY <3>1 DEF Elems
      <4> QED BY <4>1, <4>2, AddElems
    <3> QED BY <3>1, <3>6, <3>7, ReachWalk DEF ReachInv, RememberedOnlyHandled
  <2>11. CASE EndTick
    BY <2>11, ReachEndTick
  <2>12. CASE UNCHANGED vars
    <3>1. UNCHANGED <<head, block, visible, pc, cursor, cur, legs, cut, todo, emitted,
                      sent, dropped>>
      BY <2>12 DEF vars, env, tick
    <3>2. HeadInv' /\ IndexedInv' /\ block' \in [Hash -> Nat]
      BY <3>1 DEF ReachInv, HeadInv, IndexedInv, cursor, TypeOK
    <3> QED BY <3>1, <3>2, ReachQuiet
  <2> QED
    BY <2>1, <2>2, <2>3, <2>4, <2>5, <2>6, <2>7, <2>8, <2>9, <2>10, <2>11, <2>12
    DEF Next, Environment, watchTransactions
<1>3. ReachInv => NoSkip
  BY DEF ReachInv
<1> QED BY <1>1, <1>2, <1>3, TypeCorrect, PTL DEF Spec

-----------------------------------------------------------------------------
(* The start of the process. *)

Part == {Boot[i] : i \in DOMAIN Boot}

(***************************************************************************)
(* The part after the k-th is the one that follows it in the list.         *)
(***************************************************************************)
LEMMA AfterPart ==
  ASSUME NEW k \in 1..8
  PROVE  After(Boot[k]) = Boot[k + 1]
<1>1. DOMAIN Boot = 1..9
  BY DEF Boot
<1>2. \A i \in 1..9 : Boot[i] = Boot[k] => i = k
  BY DEF Boot
<1> DEFINE i == CHOOSE j \in DOMAIN Boot : Boot[j] = Boot[k]
<1>3. i \in 1..9 /\ Boot[i] = Boot[k]
  BY <1>1
<1>4. i = k
  BY <1>2, <1>3
<1> HIDE DEF i
<1>5. After(Boot[k]) = Boot[i + 1]
  BY DEF After, i
<1> QED BY <1>4, <1>5

(***************************************************************************)
(* The parts as New builds them, by name.                                  *)
(***************************************************************************)
LEMMA Parts ==
  /\ Part = {"config", "network", "tokens", "sqlite", "migrate", "eth", "services",
             "transport", "run"}
  /\ After("config") = "network" /\ After("network") = "tokens"
  /\ After("tokens") = "sqlite" /\ After("sqlite") = "migrate"
  /\ After("migrate") = "eth" /\ After("eth") = "services"
  /\ After("services") = "transport"
<1>1. DOMAIN Boot = 1..9
  BY DEF Boot
<1>2. /\ Boot[1] = "config" /\ Boot[2] = "network" /\ Boot[3] = "tokens"
      /\ Boot[4] = "sqlite" /\ Boot[5] = "migrate" /\ Boot[6] = "eth"
      /\ Boot[7] = "services" /\ Boot[8] = "transport" /\ Boot[9] = "run"
  BY DEF Boot
<1>3. Part = {"config", "network", "tokens", "sqlite", "migrate", "eth", "services",
              "transport", "run"}
  <2>1. 1..9 = {1, 2, 3, 4, 5, 6, 7, 8, 9}
    OBVIOUS
  <2> QED BY <1>1, <1>2, <2>1 DEF Part
<1>4. /\ After(Boot[1]) = Boot[2] /\ After(Boot[2]) = Boot[3] /\ After(Boot[3]) = Boot[4]
      /\ After(Boot[4]) = Boot[5] /\ After(Boot[5]) = Boot[6] /\ After(Boot[6]) = Boot[7]
      /\ After(Boot[7]) = Boot[8]
  BY AfterPart
<1> QED BY <1>2, <1>3, <1>4

(***************************************************************************)
(* A step of New builds the next part, never Run itself, or ends the       *)
(* process; the database is closed by a step only together with the end.   *)
(***************************************************************************)
LEMMA NewStepFacts ==
  ASSUME StartTypeOK, NewStep
  PROVE  /\ boot \in Part \ {"transport", "run"}
         /\ boot' \in (Part \ {"run"}) \cup {"exited"}
         /\ enabled' \in BOOLEAN /\ network' \in {"none", "good", "garbled"}
         /\ db' \in {"none", "open", "closed"} /\ code' \in 0..3
         /\ db' = db \/ db' = "open" \/ boot' = "exited"
<1> USE Parts
<1>1. CASE LoadConfig
  <2>1. PICK var \in Setting \cup {"empty"}, dotenv \in FirstFile, yaml \in FirstFile :
          \/ /\ Built("config")
             /\ enabled' = (Effective(parseEnvFile(var, dotenv), yaml) = "on")
          \/ Fails("config") /\ enabled' = enabled
    BY <1>1 DEF LoadConfig
  <2>2. enabled' \in BOOLEAN
    BY <2>1 DEF StartTypeOK
  <2>3. UNCHANGED <<network, db>>
    BY <1>1 DEF LoadConfig
  <2>4. boot = "config" /\ boot' \in {"network", "exited"} /\ code' \in 0..3
    BY <2>1 DEF Built, Fails, StartTypeOK
  <2> QED BY <2>2, <2>3, <2>4 DEF StartTypeOK
<1>2. CASE SelectNetwork
  <2>1. network' \in {"none", "good", "garbled"}
    <3>1. CASE \E c \in Catalog : \E n \in c : network' = n
      BY <3>1 DEF Catalog, Network, validate
    <3>2. CASE UNCHANGED network
      BY <3>2 DEF StartTypeOK
    <3> QED BY <1>2, <3>1, <3>2 DEF SelectNetwork
  <2>2. boot = "network" /\ boot' \in {"tokens", "exited"} /\ code' \in 0..3
    BY <1>2 DEF SelectNetwork, Built, Fails, StartTypeOK
  <2> QED BY <1>2, <2>1, <2>2 DEF SelectNetwork, StartTypeOK
<1>3. CASE LoadTokenList
  BY <1>3 DEF LoadTokenList, Built, Fails, StartTypeOK
<1>4. CASE OpenSQLite
  BY <1>4 DEF OpenSQLite, Built, Fails, StartTypeOK
<1>5. CASE Migrate
  BY <1>5 DEF Migrate, Built, Fails, StartTypeOK
<1>6. CASE MustAddress
  BY <1>6 DEF MustAddress, StartTypeOK
<1>7. CASE ConnectEth
  BY <1>7 DEF ConnectEth, Built, Fails, StartTypeOK
<1>8. CASE InitServices
  BY <1>8 DEF InitServices, Built, Fails, StartTypeOK
<1> QED BY <1>1, <1>2, <1>3, <1>4, <1>5, <1>6, <1>7, <1>8 DEF NewStep

-----------------------------------------------------------------------------
(* The types of the process. *)

\* A poller that sends has polled.
SendsBalance == pair.poller = "sending" => pair.prev # -1

WatcherStep ==
  \/ \E b \in Balance : PollBalance(b)
  \/ SendUpdate \/ TakeUpdate \/ StopPoller \/ StopStray \/ StopMonitor \/ StopTxLoop
  \/ WaitForWallet(done) \/ CancelMonitors(done) \/ MonitorsEnd(done) \/ StopGas(done)

(***************************************************************************)
(* A fresh pair and none are pairs.                                        *)
(***************************************************************************)
LEMMA PairTypes ==
  /\ FreshPair \in Pair /\ Len(FreshPair.updates) = 0 /\ FreshPair.poller = "polling"
  /\ NoPair \in Pair /\ Len(NoPair.updates) = 0 /\ NoPair.poller = "off"
<1>1. FreshPair \in Pair
  BY DEF FreshPair, Pair
<1>2. NoPair \in Pair
  BY <1>1 DEF NoPair, FreshPair, Pair
<1> QED BY <1>1, <1>2 DEF NoPair, FreshPair

(***************************************************************************)
(* A step of the watcher's goroutines keeps their types.                   *)
(***************************************************************************)
LEMMA WatcherTypes ==
  ASSUME AlertTypeOK, SendsBalance, WatcherStep
  PROVE  AlertTypeOK' /\ SendsBalance'
<1> USE AlertAssumption
<1> /\ pair \in Pair /\ Len(pair.updates) <= UpdatesCap
    /\ polls \in 0..MaxPolls /\ replaced \in 0..MaxReplaced
  BY DEF AlertTypeOK
<1>0. -1 \notin Balance
  OBVIOUS
<1>1. ASSUME NEW b \in Balance, PollBalance(b) PROVE AlertTypeOK' /\ SendsBalance'
  <2>1. Low(b) \in BOOLEAN
    BY DEF Low
  <2>2. pair' \in Pair /\ pair'.updates = pair.updates /\ pair'.prev = b
    <3>1. PICK poller \in {"polling", "sending"} :
            poller = IF pair.prev \in {-1, b} THEN "polling" ELSE "sending"
      OBVIOUS
    <3>2. PICK dips \in Nat : dips = pair.dips + (IF Low(b) /\ ~Low(pair.prev) THEN 1 ELSE 0)
      BY DEF Pair
    <3>3. PICK base \in BOOLEAN : base = IF pair.prev = -1 THEN Low(b) ELSE pair.lowBase
      BY <2>1 DEF Pair
    <3>4. pair' = [pair EXCEPT !.prev = b, !.poller = poller, !.dips = dips, !.lowBase = base]
      BY <1>1, <3>1, <3>2, <3>3 DEF PollBalance
    <3> QED BY <3>4 DEF Pair
  <2>3. polls' \in 0..MaxPolls
    BY <1>1 DEF PollBalance
  <2> QED BY <1>0, <1>1, <2>2, <2>3 DEF PollBalance, AlertTypeOK, SendsBalance
<1>2. CASE SendUpdate
  <2>1. pair.prev \in Balance
    BY <1>2 DEF SendUpdate, SendsBalance, Pair
  <2>2. /\ Append(pair.updates, pair.prev) \in Seq(Balance)
        /\ Len(Append(pair.updates, pair.prev)) <= UpdatesCap
    <3>1. pair.updates \in Seq(Balance)
      BY DEF Pair
    <3> QED BY <1>2, <2>1, <3>1 DEF SendUpdate, Room
  <2>3. pair' \in Pair /\ Len(pair'.updates) <= UpdatesCap /\ pair'.poller = "polling"
    BY <1>2, <2>2 DEF SendUpdate, Pair
  <2> QED BY <1>2, <2>3 DEF SendUpdate, AlertTypeOK, SendsBalance
<1>3. CASE TakeUpdate
  <2>1. /\ Tail(pair.updates) \in Seq(Balance) /\ Head(pair.updates) \in Balance
        /\ Len(Tail(pair.updates)) <= UpdatesCap
    <3>1. pair.updates \in Seq(Balance) /\ pair.updates # <<>>
      BY <1>3 DEF TakeUpdate, Pair
    <3> QED BY <3>1
  <2> DEFINE low == Low(Head(pair.updates))
  <2>2. low \in BOOLEAN
    BY DEF Low
  <2>3. pair' = [pair EXCEPT !.updates = Tail(@), !.latched = low,
                             !.alerts = IF low /\ ~pair.latched THEN @ + 1 ELSE @]
    BY <1>3 DEF TakeUpdate, Latch
  <2> HIDE DEF low
  <2>4. pair' \in Pair /\ Len(pair'.updates) <= UpdatesCap
    <3>1. PICK alerts \in Nat : alerts = IF low /\ ~pair.latched THEN pair.alerts + 1 ELSE pair.alerts
      BY DEF Pair
    <3>2. pair' = [pair EXCEPT !.updates = Tail(@), !.latched = low, !.alerts = alerts]
      BY <2>3, <3>1
    <3> QED BY <2>1, <2>2, <3>2 DEF Pair
  <2>5. pair'.poller = pair.poller /\ pair'.prev = pair.prev
    BY <2>3 DEF Pair
  <2> QED BY <1>3, <2>4, <2>5 DEF TakeUpdate, AlertTypeOK, SendsBalance
<1>4. CASE StopPoller
  <2>1. pair' \in Pair /\ pair'.updates = pair.updates /\ pair'.poller = "off"
    BY <1>4 DEF StopPoller, Pair
  <2> QED BY <1>4, <2>1 DEF StopPoller, AlertTypeOK, SendsBalance
<1>5. CASE StopStray
  BY <1>5 DEF StopStray, AlertTypeOK, SendsBalance
<1>6. CASE StopMonitor
  <2>1. /\ pair' \in Pair /\ pair'.updates = pair.updates
        /\ pair'.poller = pair.poller /\ pair'.prev = pair.prev
    BY <1>6, PairTypes DEF StopMonitor, Pair
  <2> QED BY <1>6, <2>1 DEF StopMonitor, AlertTypeOK, SendsBalance
<1>7. CASE StopTxLoop
  BY <1>7 DEF StopTxLoop, AlertTypeOK, SendsBalance
<1>8. CASE WaitForWallet(done)
  <2>1. /\ pair' \in Pair /\ Len(pair'.updates) <= UpdatesCap
        /\ loop' \in {"watching", "off"} /\ txLoop' \in BOOLEAN /\ SendsBalance'
    <3>1. CASE loop' = "watching" /\ pair' = FreshPair /\ txLoop' = TRUE
      BY <3>1, PairTypes DEF SendsBalance
    <3>2. CASE loop' = "off" /\ UNCHANGED <<pair, txLoop>>
      BY <3>2 DEF SendsBalance, AlertTypeOK
    <3> QED BY <1>8, <3>1, <3>2 DEF WaitForWallet
  <2> QED BY <1>8, <2>1 DEF WaitForWallet, AlertTypeOK
<1>9. CASE CancelMonitors(done)
  <2>1. /\ pair' \in Pair /\ pair'.updates = pair.updates
        /\ pair'.poller = pair.poller /\ pair'.prev = pair.prev
    BY <1>9 DEF CancelMonitors, Pair
  <2>2. replaced' \in 0..MaxReplaced
    BY <1>9 DEF CancelMonitors
  <2> QED BY <1>9, <2>1, <2>2 DEF CancelMonitors, AlertTypeOK, SendsBalance
<1>10. CASE MonitorsEnd(done)
  <2>1. strays' \subseteq [poller : {"polling", "sending"}, cancelled : {TRUE}]
    <3>1. pair.poller # "off" => Stray(pair) \in [poller : {"polling", "sending"},
                                                  cancelled : {TRUE}]
      BY DEF Stray, Pair
    <3> QED BY <1>10, <3>1 DEF MonitorsEnd, AlertTypeOK
  <2>2. pair' = NoPair /\ loop' \in {"off", "waiting"}
    BY <1>10 DEF MonitorsEnd
  <2>3. pair' \in Pair /\ Len(pair'.updates) <= UpdatesCap /\ SendsBalance'
    BY <2>2, PairTypes DEF SendsBalance
  <2> QED BY <1>10, <2>1, <2>2, <2>3 DEF MonitorsEnd, AlertTypeOK
<1>11. CASE StopGas(done)
  BY <1>11 DEF StopGas, pairVars, AlertTypeOK, SendsBalance
<1> QED BY <1>1, <1>2, <1>3, <1>4, <1>5, <1>6, <1>7, <1>8, <1>9, <1>10, <1>11
        DEF WatcherStep

(***************************************************************************)
(* The steps of the whole process, grouped by what they leave alone.       *)
(***************************************************************************)
ServerStep == Listen \/ Serve \/ ServeFails \/ RunnerStops \/ Requests

LEMMA AppSteps ==
  ASSUME [AppNext]_appVars
  PROVE  \/ New
         \/ StartRunners
         \/ ServerStep /\ UNCHANGED <<alertVars, procVars>>
         \/ (Signal \/ BeginShutdown \/ GracefulStop \/ ForceStop \/ CloseDB \/ StopSweeper
               \/ Exit) /\ UNCHANGED alertVars
         \/ WatcherStep /\ UNCHANGED <<serverVars, procVars, done, failed>>
         \/ UNCHANGED appVars
<1>1. ServerStep => UNCHANGED <<alertVars, procVars>>
  BY DEF ServerStep, Listen, Serve, ServeFails, RunnerStops, Requests, BeginRequest,
         EndRequest, OpenStream, CloseStream
<1>2. Signal \/ BeginShutdown \/ GracefulStop \/ ForceStop \/ CloseDB \/ StopSweeper \/ Exit
        => UNCHANGED alertVars
  BY DEF Signal, BeginShutdown, GracefulStop, ForceStop, CloseDB, StopSweeper, Exit
<1>3. Unwind \/ Watch => WatcherStep /\ UNCHANGED <<serverVars, procVars, done, failed>>
  BY DEF Unwind, Watch, WatcherStep
<1> QED BY <1>1, <1>2, <1>3 DEF AppNext, ServerStep, Stop

(***************************************************************************)
(* What goes out on the updates channel is a balance: a poller sends only  *)
(* once it has a baseline.                                                 *)
(***************************************************************************)
LEMMA AppTyped == AppSpec => [](AppTypeOK /\ SendsBalance)
<1> DEFINE Inv == AppTypeOK /\ SendsBalance
<1> USE DEF startVars, serverVars, procVars
<1>1. AppInit => Inv
  <2> SUFFICES ASSUME AppInit PROVE Inv
    OBVIOUS
  <2>1. AlertTypeOK /\ SendsBalance
    <3>1. pair \in Pair /\ Len(pair.updates) <= UpdatesCap /\ SendsBalance
      BY PairTypes, AlertAssumption DEF AppInit, AlertInit, SendsBalance
    <3>2. polls \in 0..MaxPolls /\ replaced \in 0..MaxReplaced
      BY AlertAssumption DEF AppInit, AlertInit
    <3> QED BY <3>1, <3>2 DEF AppInit, AlertInit, AlertTypeOK
  <2>2. StartTypeOK
    <3>1. boot \in Part
      BY Parts DEF AppInit, StartInit
    <3>2. enabled = FALSE /\ network = "none" /\ db = "none" /\ code = 3
      BY Zenon DEF AppInit, StartInit
    <3>3. code \in 0..3
      BY <3>2
    <3> QED BY <3>1, <3>2, <3>3 DEF StartTypeOK, Part
  <2> QED BY <2>1, <2>2 DEF AppInit, AppTypeOK
<1>2. Inv /\ [AppNext]_appVars => Inv'
  <2> SUFFICES ASSUME AppTypeOK, SendsBalance, [AppNext]_appVars
               PROVE  AppTypeOK' /\ SendsBalance'
    OBVIOUS
  <2>0. UNCHANGED alertVars => AlertTypeOK' /\ SendsBalance'
    BY DEF alertVars, pairVars, AppTypeOK, AlertTypeOK, SendsBalance
  <2>1. CASE New
    <3>1. StartTypeOK'
      BY <2>1, NewStepFacts DEF New, AppTypeOK, StartTypeOK, Part
    <3> QED BY <2>0, <2>1, <3>1 DEF New, AppTypeOK
  <2>2. CASE StartRunners
    <3>1. AlertTypeOK' /\ SendsBalance'
      BY <2>2 DEF StartRunners, AppTypeOK, AlertTypeOK, SendsBalance
    <3>2. StartTypeOK'
      BY <2>2, Parts DEF StartRunners, AppTypeOK, StartTypeOK, Part
    <3> QED BY <2>2, <3>1, <3>2 DEF StartRunners, AppTypeOK
  <2>3. CASE ServerStep /\ UNCHANGED <<alertVars, procVars>>
    <3>1. StartTypeOK' /\ sweeper' \in BOOLEAN
            /\ shutdown' \in {"none", "waiting", "server", "db", "done"}
      BY <2>3 DEF AppTypeOK, StartTypeOK
    <3>2. done' \in BOOLEAN /\ failed' \in BOOLEAN
      BY <2>3 DEF ServerStep, Listen, Serve, ServeFails, RunnerStops, RunnerReturns, Requests,
                  BeginRequest, EndRequest, OpenStream, CloseStream, AppTypeOK
    <3>3. runner' \in {"none", "start", "listening", "serving", "refused", "returned"}
            /\ server' \in {"none", "new", "serving", "draining", "stopped"}
      BY <2>3 DEF ServerStep, Listen, Serve, ServeFails, RunnerStops, RunnerReturns, Requests,
                  BeginRequest, EndRequest, OpenStream, CloseStream, AppTypeOK
    <3>4. stream' \in BOOLEAN /\ inflight' \subseteq Request
      BY <2>3 DEF ServerStep, Listen, Serve, ServeFails, RunnerStops, RunnerReturns, Requests,
                  BeginRequest, EndRequest, OpenStream, CloseStream, AppTypeOK
    <3> QED BY <2>0, <2>3, <3>1, <3>2, <3>3, <3>4 DEF AppTypeOK
  <2>4. CASE (Signal \/ BeginShutdown \/ GracefulStop \/ ForceStop \/ CloseDB \/ StopSweeper
                \/ Exit) /\ UNCHANGED alertVars
    <3>1. StartTypeOK'
      <4>1. boot' \in {boot, "exited"} /\ enabled' = enabled /\ network' = network
              /\ db' \in {db, "closed"} /\ code' \in {code, 0, 1}
        BY <2>4 DEF Signal, BeginShutdown, GracefulStop, ForceStop, CloseDB, StopSweeper, Exit
      <4> QED BY <4>1 DEF AppTypeOK, StartTypeOK
    <3>2. /\ runner' = runner /\ server' \in {server, "draining", "stopped"}
          /\ inflight' = inflight /\ stream' \in {stream, FALSE}
          /\ shutdown' \in {shutdown, "server", "db", "done"}
          /\ sweeper' \in {sweeper, FALSE} /\ done' \in {done, TRUE} /\ failed' = failed
      BY <2>4 DEF Signal, BeginShutdown, GracefulStop, ForceStop, CloseDB, StopSweeper, Exit
    <3>3. done' \in BOOLEAN /\ failed' \in BOOLEAN /\ sweeper' \in BOOLEAN /\ stream' \in BOOLEAN
      BY <3>2 DEF AppTypeOK
    <3>4. runner' \in {"none", "start", "listening", "serving", "refused", "returned"}
            /\ server' \in {"none", "new", "serving", "draining", "stopped"}
            /\ shutdown' \in {"none", "waiting", "server", "db", "done"}
      BY <3>2 DEF AppTypeOK
    <3>5. inflight' \subseteq Request
      BY <3>2 DEF AppTypeOK
    <3> QED BY <2>0, <2>4, <3>1, <3>3, <3>4, <3>5 DEF AppTypeOK
  <2>5. CASE WatcherStep /\ UNCHANGED <<serverVars, procVars, done, failed>>
    BY <2>5, WatcherTypes DEF AppTypeOK, StartTypeOK
  <2>6. CASE UNCHANGED appVars
    BY <2>0, <2>6 DEF appVars, AppTypeOK, StartTypeOK
  <2> QED BY <2>1, <2>2, <2>3, <2>4, <2>5, <2>6, AppSteps
<1> HIDE DEF Inv
<1>3. AppSpec => []Inv
  BY <1>1, <1>2, PTL DEF AppSpec
<1> QED BY <1>3 DEF Inv

(***************************************************************************)
(* Every reachable state of the process is well typed: the updates channel *)
(* keeps its capacity, and the code is one main can return.                *)
(***************************************************************************)
THEOREM AppTypeCorrect == AppSpec => []AppTypeOK
BY AppTyped, PTL
-----------------------------------------------------------------------------
(* The shutdown. *)

(***************************************************************************)
(* How far the process has come and gone tells what is open: nothing that  *)
(* serves before Run, a server that only drains once its closer has begun, *)
(* and none by the time it is the database's turn.                         *)
(***************************************************************************)
ClosingInv ==
  /\ boot \notin {"run", "exited"} => shutdown = "none" /\ db # "closed"
  /\ boot = "run" => shutdown # "none"
  /\ shutdown = "none" => server = "none" /\ ~stream
  /\ ~enabled => server = "none"
  /\ stream => server \in {"serving", "draining"}
  /\ shutdown = "server" => server = "draining"
  /\ shutdown \in {"db", "done"} => server \in {"none", "stopped"} /\ ~stream
  /\ db = "closed" => shutdown \in {"none", "done"}

(***************************************************************************)
(* The database is closed after the server has stopped, whatever fails and *)
(* whenever the signal comes.                                              *)
(***************************************************************************)
THEOREM DatabaseOutlivesServer == AppSpec => []DbOutlivesServer
<1> USE DEF startVars, serverVars, procVars
<1>1. AppInit => ClosingInv
  BY DEF AppInit, StartInit, ClosingInv
<1>2. AppTypeOK /\ ClosingInv /\ [AppNext]_appVars => ClosingInv'
  <2> SUFFICES ASSUME AppTypeOK, ClosingInv, [AppNext]_appVars PROVE ClosingInv'
    OBVIOUS
  <2> USE DEF ClosingInv
  <2>1. CASE New
    <3>1. /\ boot \notin {"transport", "run", "exited"} /\ boot' # "run"
          /\ db' = db \/ db' = "open" \/ boot' = "exited"
      BY <2>1, NewStepFacts, Parts DEF New, AppTypeOK
    <3> QED BY <2>1, <3>1 DEF New
  <2>2. CASE StartRunners
    BY <2>2 DEF StartRunners
  <2>3. CASE ServerStep /\ UNCHANGED <<alertVars, procVars>>
    <3>1. CASE Serve
      BY <2>3, <3>1 DEF Serve
    <3>2. CASE OpenStream
      BY <2>3, <3>2 DEF OpenStream
    <3>3. CASE CloseStream
      BY <2>3, <3>3 DEF CloseStream
    <3>4. CASE Listen \/ ServeFails \/ RunnerStops
      <4>1. UNCHANGED <<server, stream>>
        BY <3>4, Zenon DEF Listen, ServeFails, RunnerStops
      <4> QED BY <2>3, <4>1
    <3>5. CASE \E q \in Request : BeginRequest(q) \/ EndRequest(q)
      BY <2>3, <3>5 DEF BeginRequest, EndRequest
    <3> QED BY <2>3, <3>1, <3>2, <3>3, <3>4, <3>5 DEF ServerStep, Requests
  <2>4. CASE Signal
    BY <2>4 DEF Signal
  <2>5. CASE BeginShutdown
    BY <2>5 DEF BeginShutdown
  <2>6. CASE GracefulStop
    BY <2>6 DEF GracefulStop
  <2>7. CASE ForceStop
    BY <2>7 DEF ForceStop
  <2>8. CASE CloseDB
    BY <2>8 DEF CloseDB
  <2>9. CASE StopSweeper
    BY <2>9 DEF StopSweeper
  <2>10. CASE Exit
    BY <2>10 DEF Exit
  <2>11. CASE WatcherStep /\ UNCHANGED <<serverVars, procVars, done, failed>>
    BY <2>11
  <2>12. CASE UNCHANGED appVars
    BY <2>12 DEF appVars
  <2> QED
    BY <2>1, <2>2, <2>3, <2>4, <2>5, <2>6, <2>7, <2>8, <2>9, <2>10, <2>11, <2>12, AppSteps
<1>3. ClosingInv => DbOutlivesServer
  BY DEF ClosingInv, DbOutlivesServer
<1> QED BY <1>1, <1>2, <1>3, AppTypeCorrect, PTL DEF AppSpec

-----------------------------------------------------------------------------
(* The balance alert. *)

(***************************************************************************)
(* The level the monitor will have seen once it has drained u, the falls   *)
(* below the threshold it will meet on the way, and the one an update      *)
(* still blocked in its send will bring.                                   *)
(***************************************************************************)
LastLow(low, u) == IF u = <<>> THEN low ELSE Low(u[Len(u)])

FallsAt(low, u) ==
  {i \in 1..Len(u) : Low(u[i]) /\ ~(IF i = 1 THEN low ELSE Low(u[i - 1]))}

Falls(low, u) == Cardinality(FallsAt(low, u))

Fall(before, b) == IF Low(b) /\ ~before THEN 1 ELSE 0

Coming(p) ==
  Falls(p.latched, p.updates)
    + (IF p.poller = "sending" THEN Fall(LastLow(p.latched, p.updates), p.prev) ELSE 0)

\* The dips polled for which no alert was raised and none is on its way.
Owed(p) == p.dips - (p.alerts + Coming(p))

(***************************************************************************)
(* A pair owes nothing, or the one alert of a silent baseline that was     *)
(* already low; it owes that one as long as the last balance is low and    *)
(* the monitor will not have seen a low one, so that the next update below *)
(* the threshold makes up for it.                                          *)
(***************************************************************************)
DipOK(p) ==
  /\ ~p.monitor => p.alerts = 0
  /\ p.monitor => Owed(p) >= 0
  /\ p.monitor /\ p.poller # "off" =>
       /\ Owed(p) = 0 \/ (Owed(p) = 1 /\ p.lowBase)
       /\ p.poller = "polling" =>
            \/ LastLow(p.latched, p.updates) <=> Low(p.prev)
            \/ ~LastLow(p.latched, p.updates) /\ Low(p.prev) /\ Owed(p) = 1
       /\ p.prev = -1 => p.updates = <<>> /\ p.dips = 0 /\ ~p.lowBase /\ ~p.latched

DipInv == DipOK(pair)

(***************************************************************************)
(* The falls of a queue are finitely many, and an empty one has none.      *)
(***************************************************************************)
LEMMA FallsType ==
  ASSUME NEW low \in BOOLEAN, NEW u \in Seq(Balance)
  PROVE  /\ IsFiniteSet(FallsAt(low, u)) /\ Falls(low, u) \in Nat
         /\ u = <<>> => Falls(low, u) = 0
<1>1. FallsAt(low, u) \subseteq 1..Len(u) /\ IsFiniteSet(1..Len(u))
  BY FS_Interval DEF FallsAt
<1>2. IsFiniteSet(FallsAt(low, u)) /\ Falls(low, u) \in Nat
  BY <1>1, FS_Subset, FS_CardinalityType DEF Falls
<1>3. u = <<>> => FallsAt(low, u) = {}
  BY <1>1
<1> QED BY <1>2, <1>3, FS_EmptySet DEF Falls

(***************************************************************************)
(* One more update adds the fall it brings, at the end of the queue.       *)
(***************************************************************************)
LEMMA FallsAppend ==
  ASSUME NEW low \in BOOLEAN, NEW u \in Seq(Balance), NEW b \in Balance
  PROVE  /\ Falls(low, Append(u, b)) = Falls(low, u) + Fall(LastLow(low, u), b)
         /\ LastLow(low, Append(u, b)) <=> Low(b)
<1> DEFINE w == Append(u, b)
           n == Len(u)
<1>1. /\ w \in Seq(Balance) /\ Len(w) = n + 1 /\ n \in Nat /\ w[n + 1] = b
      /\ \A i \in 1..n : w[i] = u[i]
  BY AppendProperties
<1>2. u = <<>> <=> n = 0
  BY EmptySeq
<1>3. (LastLow(low, w) <=> Low(b))
  <2>1. w # <<>>
    BY <1>1, EmptySeq
  <2> QED BY <1>1, <2>1 DEF LastLow
<1> HIDE DEF w, n
<1>4. ASSUME NEW i \in 1..n PROVE i \in FallsAt(low, w) <=> i \in FallsAt(low, u)
  <2>1. i \in 1..(n + 1) /\ w[i] = u[i] /\ (i # 1 => w[i - 1] = u[i - 1])
    BY <1>1
  <2> QED BY <1>1, <2>1 DEF FallsAt, n
<1>5. n + 1 \in FallsAt(low, w) <=> Low(b) /\ ~LastLow(low, u)
  <2>1. CASE n = 0
    <3>1. LastLow(low, u) = low
      BY <1>2, <2>1 DEF LastLow
    <3>2. n + 1 = 1 /\ 1 \in 1..Len(w) /\ w[1] = b
      BY <1>1, <2>1
    <3> QED BY <3>1, <3>2 DEF FallsAt
  <2>2. CASE n # 0
    <3>1. LastLow(low, u) = Low(u[n])
      BY <1>2, <2>2 DEF LastLow, n
    <3>2. n + 1 # 1 /\ n + 1 \in 1..Len(w) /\ w[n + 1] = b /\ w[(n + 1) - 1] = u[n]
      BY <1>1, <2>2
    <3> QED BY <3>1, <3>2 DEF FallsAt
  <2> QED BY <2>1, <2>2
<1>6. FallsAt(low, u) \subseteq 1..n /\ FallsAt(low, w) \subseteq 1..(n + 1)
  BY <1>1 DEF FallsAt, n
<1>7. CASE Low(b) /\ ~LastLow(low, u)
  <2>1. FallsAt(low, w) = FallsAt(low, u) \cup {n + 1} /\ n + 1 \notin FallsAt(low, u)
    BY <1>1, <1>4, <1>5, <1>6, <1>7
  <2>2. Falls(low, w) = Falls(low, u) + 1
    BY <2>1, FallsType, FS_AddElement DEF Falls
  <2>3. Fall(LastLow(low, u), b) = 1
    BY <1>7 DEF Fall
  <2> QED BY <1>3, <2>2, <2>3 DEF w
<1>8. CASE ~(Low(b) /\ ~LastLow(low, u))
  <2>1. FallsAt(low, w) = FallsAt(low, u)
    <3>1. FallsAt(low, w) \subseteq 1..n
      <4>1. n + 1 \notin FallsAt(low, w)
        BY <1>5, <1>8
      <4> QED BY <1>1, <1>6, <4>1
    <3> QED BY <1>4, <1>6, <3>1
  <2>2. Falls(low, w) = Falls(low, u) /\ Falls(low, u) \in Nat
    BY <2>1, FallsType DEF Falls
  <2>3. Fall(LastLow(low, u), b) = 0
    BY <1>8 DEF Fall
  <2> QED BY <1>3, <2>2, <2>3 DEF w
<1> QED BY <1>7, <1>8

(***************************************************************************)
(* Taking the first update leaves the falls that come after it.            *)
(***************************************************************************)
LEMMA FallsTail ==
  ASSUME NEW low \in BOOLEAN, NEW u \in Seq(Balance), u # <<>>
  PROVE  /\ Falls(low, u) = Fall(low, Head(u)) + Falls(Low(Head(u)), Tail(u))
         /\ LastLow(low, u) <=> LastLow(Low(Head(u)), Tail(u))
<1> DEFINE w == Tail(u)
           n == Len(u)
           h == Low(Head(u))
<1>1. /\ w \in Seq(Balance) /\ n \in Nat \ {0} /\ Len(w) = n - 1 /\ Head(u) = u[1]
      /\ \A i \in 1..(n - 1) : w[i] = u[i + 1]
  BY HeadTailProperties, EmptySeq, LenProperties
<1>2. w = <<>> <=> n = 1
  <2>1. w \in Seq(Balance) /\ Len(w) = n - 1 /\ n \in Nat
    BY <1>1
  <2> HIDE DEF w, n
  <2>2. w = <<>> <=> Len(w) = 0
    BY <2>1, EmptySeq
  <2> QED BY <2>1, <2>2
<1>3. h \in BOOLEAN
  BY DEF Low
<1>4. LastLow(low, u) <=> LastLow(h, w)
  <2>1. CASE n = 1
    BY <1>1, <1>2, <2>1 DEF LastLow
  <2>2. CASE n # 1
    <3>1. w[n - 1] = u[n]
      BY <1>1, <2>2
    <3> QED BY <1>1, <1>2, <2>2, <3>1 DEF LastLow
  <2> QED BY <2>1, <2>2
<1> HIDE DEF w, n, h
<1> DEFINE Rest == FallsAt(h, w)
           Shifted == {i \in FallsAt(low, u) : i # 1}
<1>5. ASSUME NEW i \in 1..(n - 1) PROVE i + 1 \in FallsAt(low, u) <=> i \in Rest
  <2>1. i + 1 \in 1..Len(u) /\ i + 1 # 1 /\ (i + 1) - 1 = i /\ w[i] = u[i + 1] /\ i \in 1..Len(w)
    BY <1>1 DEF n
  <2>2. i + 1 \in FallsAt(low, u) <=> Low(u[i + 1]) /\ ~Low(u[i])
    BY <2>1 DEF FallsAt
  <2>3. CASE i = 1
    BY <1>1, <2>1, <2>2, <2>3 DEF FallsAt, h
  <2>4. CASE i # 1
    <3>1. w[i - 1] = u[i]
      BY <1>1, <2>4
    <3> QED BY <2>1, <2>2, <2>4, <3>1 DEF FallsAt
  <2> QED BY <2>3, <2>4
<1>6. Rest \subseteq 1..(n - 1) /\ FallsAt(low, u) \subseteq 1..n
  BY <1>1 DEF FallsAt, n
<1>7. Cardinality(Shifted) = Falls(h, w) /\ IsFiniteSet(Shifted)
  <2> DEFINE f == [i \in Rest |-> i + 1]
  <2>1. f \in Bijection(Rest, Shifted)
    <3>1. \A i \in Rest : i + 1 \in Shifted
      BY <1>5, <1>6, <1>1
    <3>2. \A j \in Shifted : j - 1 \in Rest /\ j = (j - 1) + 1
      <4> SUFFICES ASSUME NEW j \in Shifted PROVE j - 1 \in Rest /\ j = (j - 1) + 1
        OBVIOUS
      <4>1. j - 1 \in 1..(n - 1) /\ (j - 1) + 1 = j
        BY <1>1, <1>6
      <4> QED BY <4>1, <1>5
    <3>3. \A i, j \in Rest : i + 1 = j + 1 => i = j
      BY <1>6
    <3> HIDE DEF Rest, Shifted
    <3>4. f \in Injection(Rest, Shifted)
      BY <3>1, <3>3 DEF Injection, IsInjective
    <3>5. f \in Surjection(Rest, Shifted)
      BY <3>1, <3>2 DEF Surjection
    <3> QED BY <3>4, <3>5 DEF Bijection
  <2>2. ExistsBijection(Rest, Shifted)
    BY <2>1 DEF ExistsBijection
  <2>3. IsFiniteSet(Rest)
    BY <1>1, <1>3, FallsType
  <2> QED BY <2>2, <2>3, FS_Bijection DEF Falls
<1>8. 1 \in FallsAt(low, u) <=> h /\ ~low
  BY <1>1 DEF FallsAt, h, n
<1>9. Falls(h, w) \in Nat
  BY <1>1, <1>3, FallsType
<1>10. CASE h /\ ~low
  <2>1. FallsAt(low, u) = Shifted \cup {1} /\ 1 \notin Shifted
    BY <1>8, <1>10
  <2>2. Falls(low, u) = 1 + Falls(h, w)
    <3>1. Cardinality(Shifted \cup {1}) = Cardinality(Shifted) + 1
      BY <1>7, <2>1, FS_AddElement
    <3>2. Falls(low, u) = Cardinality(Shifted \cup {1})
      BY <2>1 DEF Falls
    <3> HIDE DEF Shifted
    <3> QED BY <1>7, <1>9, <3>1, <3>2
  <2> QED BY <1>4, <1>10, <2>2 DEF Fall, h, w
<1>11. CASE ~(h /\ ~low)
  <2>1. FallsAt(low, u) = Shifted
    BY <1>8, <1>11
  <2>2. Falls(low, u) = Falls(h, w)
    BY <1>7, <2>1 DEF Falls
  <2> QED BY <1>4, <1>9, <1>11, <2>2 DEF Fall, h, w
<1> QED BY <1>10, <1>11

(***************************************************************************)
(* What a pair owes is a number, and with a poller that is not blocked it  *)
(* is the dips less the alerts raised and queued.                          *)
(***************************************************************************)
LEMMA OwedType ==
  ASSUME NEW p \in Pair
  PROVE  /\ Owed(p) \in Int /\ Falls(p.latched, p.updates) \in Nat
         /\ p.poller # "sending" =>
              Owed(p) = p.dips - (p.alerts + Falls(p.latched, p.updates))
         /\ p.poller = "sending" =>
              Owed(p) = p.dips - (p.alerts + Falls(p.latched, p.updates)
                                    + Fall(LastLow(p.latched, p.updates), p.prev))
<1>1. p.latched \in BOOLEAN /\ p.updates \in Seq(Balance) /\ p.dips \in Nat /\ p.alerts \in Nat
  BY DEF Pair
<1>2. Falls(p.latched, p.updates) \in Nat
  BY <1>1, FallsType
<1>3. Fall(LastLow(p.latched, p.updates), p.prev) \in {0, 1}
  BY DEF Fall
<1> QED BY <1>1, <1>2, <1>3 DEF Owed, Coming

(***************************************************************************)
(* A pair that has polled nothing, and none, owe nothing.                  *)
(***************************************************************************)
LEMMA DipFresh == DipOK(FreshPair) /\ DipOK(NoPair)
<1>1. ~Low(-1) /\ <<>> \in Seq(Balance)
  BY DEF Low
<1>2. ~LastLow(FALSE, <<>>)
  BY DEF LastLow
<1>3. DipOK(FreshPair)
  <2>1. Owed(FreshPair) = 0
    <3>1. /\ FreshPair.dips = 0 /\ FreshPair.alerts = 0 /\ FreshPair.latched = FALSE
          /\ FreshPair.updates = <<>> /\ FreshPair.poller = "polling"
      BY DEF FreshPair
    <3>2. Falls(FreshPair.latched, FreshPair.updates) = 0
      BY <1>1, <3>1, FallsType
    <3> QED BY <3>1, <3>2, PairTypes, OwedType
  <2>2. ~(LastLow(FreshPair.latched, FreshPair.updates)) /\ ~Low(FreshPair.prev)
    BY <1>1, <1>2 DEF FreshPair
  <2>3. FreshPair.monitor /\ FreshPair.updates = <<>> /\ FreshPair.dips = 0
          /\ ~FreshPair.lowBase /\ ~FreshPair.latched
    BY DEF FreshPair
  <2> QED BY <2>1, <2>2, <2>3 DEF DipOK
<1>4. DipOK(NoPair)
  <2>1. ~NoPair.monitor /\ NoPair.alerts = 0
    BY DEF NoPair, FreshPair
  <2> QED BY <2>1 DEF DipOK
<1> QED BY <1>3, <1>4

(***************************************************************************)
(* The silent baseline of a fresh pair is owed if it is low.               *)
(***************************************************************************)
LEMMA DipBaseline ==
  ASSUME NEW p \in Pair, NEW q \in Pair, NEW b \in Balance, DipOK(p),
         p.poller = "polling", p.prev = -1,
         q.poller = "polling", q.prev = b, q.updates = p.updates, q.monitor = p.monitor,
         q.latched = p.latched, q.alerts = p.alerts,
         q.dips = p.dips + Fall(Low(p.prev), b), q.lowBase <=> Low(b)
  PROVE  DipOK(q)
<1>1. ~Low(p.prev)
  BY DEF Low
<1>2. p.dips \in Nat /\ p.alerts \in Nat
  BY DEF Pair
<1>3. CASE ~p.monitor
  BY <1>3 DEF DipOK
<1>4. CASE p.monitor
  <2>1. p.updates = <<>> /\ p.dips = 0 /\ ~p.latched /\ Owed(p) >= 0
    BY <1>4 DEF DipOK
  <2>2. Falls(p.latched, p.updates) = 0
    <3>1. p.latched \in BOOLEAN /\ p.updates \in Seq(Balance)
      BY DEF Pair
    <3> QED BY <2>1, <3>1, FallsType
  <2>3. p.alerts = 0
    <3>1. Owed(p) = p.dips - (p.alerts + 0)
      BY <2>2, OwedType
    <3> QED BY <1>2, <2>1, <3>1
  <2>4. Owed(q) = Fall(Low(p.prev), b)
    <3>1. Owed(q) = q.dips - (q.alerts + 0)
      BY <2>2, OwedType
    <3>2. Fall(Low(p.prev), b) \in {0, 1}
      BY DEF Fall
    <3> QED BY <2>1, <2>3, <3>1, <3>2
  <2>5. ~LastLow(q.latched, q.updates)
    BY <2>1 DEF LastLow
  <2>6. q.prev # -1 /\ q.monitor
    BY <1>4, AlertAssumption
  <2>7. CASE Low(b)
    <3>1. Owed(q) = 1
      BY <1>1, <2>4, <2>7 DEF Fall
    <3> QED BY <2>5, <2>6, <2>7, <3>1 DEF DipOK
  <2>8. CASE ~Low(b)
    <3>1. Owed(q) = 0
      BY <2>4, <2>8 DEF Fall
    <3> QED BY <2>5, <2>6, <2>8, <3>1 DEF DipOK
  <2> QED BY <2>7, <2>8
<1> QED BY <1>3, <1>4

(***************************************************************************)
(* A later poll: what it finds low is a dip exactly if it is a fall for    *)
(* the monitor too, or makes up for the low baseline.                      *)
(***************************************************************************)
LEMMA DipPoll ==
  ASSUME NEW p \in Pair, NEW q \in Pair, NEW b \in Balance, DipOK(p),
         p.poller = "polling", p.prev # -1,
         q.poller = IF p.prev = b THEN "polling" ELSE "sending",
         q.prev = b, q.updates = p.updates, q.monitor = p.monitor,
         q.latched = p.latched, q.alerts = p.alerts,
         q.dips = p.dips + Fall(Low(p.prev), b), q.lowBase = p.lowBase
  PROVE  DipOK(q)
<1> DEFINE last == LastLow(p.latched, p.updates)
           F == Falls(p.latched, p.updates)
<1>1. p.dips \in Nat /\ p.alerts \in Nat /\ F \in Nat
        /\ Owed(p) = p.dips - (p.alerts + F) /\ Owed(p) \in Int
  <2>1. p.dips \in Nat /\ p.alerts \in Nat
    BY DEF Pair
  <2> QED BY <2>1, OwedType
<1>2. LastLow(q.latched, q.updates) = last /\ Falls(q.latched, q.updates) = F
  OBVIOUS
<1>3. q.prev # -1
  BY AlertAssumption
<1>4. CASE ~p.monitor
  BY <1>4 DEF DipOK
<1>5. CASE p.monitor /\ p.prev = b
  <2>1. Fall(Low(p.prev), b) = 0
    BY <1>5 DEF Fall
  <2>2. Owed(q) = Owed(p)
    <3>1. Owed(q) = q.dips - (q.alerts + F)
      BY <1>2, <1>5, OwedType
    <3> QED BY <1>1, <2>1, <3>1
  <2> QED BY <1>2, <1>3, <1>5, <2>2 DEF DipOK
<1>6. CASE p.monitor /\ p.prev # b
  <2>1. q.poller = "sending"
    BY <1>6
  <2>2. Owed(q) = (p.dips + Fall(Low(p.prev), b)) - (p.alerts + F + Fall(last, b))
    <3>1. Owed(q) = q.dips - (q.alerts + F + Fall(last, b))
      BY <1>2, <2>1, OwedType
    <3> QED BY <3>1
  <2>3. /\ Owed(p) = 0 \/ (Owed(p) = 1 /\ p.lowBase)
        /\ (last <=> Low(p.prev)) \/ (~last /\ Low(p.prev) /\ Owed(p) = 1)
    BY <1>6 DEF DipOK
  <2>4. Owed(q) = 0 \/ (Owed(q) = 1 /\ q.lowBase)
    <3>1. CASE last <=> Low(p.prev)
      <4>1. Fall(last, b) = Fall(Low(p.prev), b) /\ Fall(last, b) \in {0, 1}
        BY <3>1 DEF Fall
      <4> HIDE DEF last, F
      <4>2. Owed(q) = Owed(p)
        BY <1>1, <2>2, <4>1
      <4> QED BY <2>3, <4>2
    <3>2. CASE ~last /\ Low(p.prev) /\ Owed(p) = 1
      <4>1. Fall(Low(p.prev), b) = 0 /\ Fall(last, b) \in {0, 1}
        BY <3>2 DEF Fall
      <4>2. p.lowBase /\ Owed(p) = 1
        BY <2>3, <3>2
      <4> HIDE DEF last, F
      <4>3. Owed(q) = 1 - Fall(last, b)
        BY <1>1, <2>2, <4>1, <4>2
      <4> QED BY <4>1, <4>2, <4>3
    <3> QED BY <2>3, <3>1, <3>2
  <2> QED BY <1>3, <1>6, <2>1, <2>4 DEF DipOK
<1> QED BY <1>4, <1>5, <1>6

(***************************************************************************)
(* An update goes out on the channel: what was coming still is.            *)
(***************************************************************************)
LEMMA DipSend ==
  ASSUME NEW p \in Pair, NEW q \in Pair, DipOK(p),
         p.poller = "sending", p.prev \in Balance, q.poller = "polling",
         q.prev = p.prev, q.updates = Append(p.updates, p.prev), q.monitor = p.monitor,
         q.latched = p.latched, q.alerts = p.alerts, q.dips = p.dips, q.lowBase = p.lowBase
  PROVE  DipOK(q)
<1>1. /\ Falls(q.latched, q.updates)
           = Falls(p.latched, p.updates) + Fall(LastLow(p.latched, p.updates), p.prev)
      /\ LastLow(q.latched, q.updates) <=> Low(q.prev)
  <2>1. p.latched \in BOOLEAN /\ p.updates \in Seq(Balance)
    BY DEF Pair
  <2> QED BY <2>1, FallsAppend
<1>2. Owed(q) = Owed(p)
  <2>1. Owed(q) = q.dips - (q.alerts + Falls(q.latched, q.updates))
    BY OwedType
  <2>2. Owed(p) = p.dips - (p.alerts + Falls(p.latched, p.updates)
                              + Fall(LastLow(p.latched, p.updates), p.prev))
    BY OwedType
  <2>3. Fall(LastLow(p.latched, p.updates), p.prev) \in {0, 1}
    BY DEF Fall
  <2>4. p.dips \in Nat /\ p.alerts \in Nat /\ Falls(p.latched, p.updates) \in Nat
    BY OwedType DEF Pair
  <2> QED BY <1>1, <2>1, <2>2, <2>3, <2>4
<1>3. q.prev # -1
  BY AlertAssumption
<1> QED BY <1>1, <1>2, <1>3 DEF DipOK

(***************************************************************************)
(* The monitor takes an update: an alert it raises was coming.             *)
(***************************************************************************)
LEMMA DipTake ==
  ASSUME NEW p \in Pair, NEW q \in Pair, DipOK(p),
         p.monitor, p.updates # <<>>, q.poller = p.poller,
         q.prev = p.prev, q.updates = Tail(p.updates), q.monitor = p.monitor,
         q.latched <=> Low(Head(p.updates)),
         q.alerts = p.alerts + Fall(p.latched, Head(p.updates)),
         q.dips = p.dips, q.lowBase = p.lowBase
  PROVE  DipOK(q)
<1> DEFINE h == Low(Head(p.updates))
<1>0. q.latched = h
  <2>1. q.latched \in BOOLEAN /\ h \in BOOLEAN
    BY DEF Pair, Low
  <2> QED BY <2>1
<1>1. /\ Falls(p.latched, p.updates)
           = Fall(p.latched, Head(p.updates)) + Falls(q.latched, q.updates)
      /\ LastLow(p.latched, p.updates) <=> LastLow(q.latched, q.updates)
  <2>1. p.latched \in BOOLEAN /\ p.updates \in Seq(Balance)
    BY DEF Pair
  <2> HIDE DEF h
  <2>2. /\ Falls(p.latched, p.updates)
             = Fall(p.latched, Head(p.updates)) + Falls(h, Tail(p.updates))
        /\ LastLow(p.latched, p.updates) <=> LastLow(h, Tail(p.updates))
    BY <2>1, FallsTail DEF h
  <2> QED BY <1>0, <2>2
<1>2. Fall(p.latched, Head(p.updates)) \in {0, 1}
  BY DEF Fall
<1>3. p.dips \in Nat /\ p.alerts \in Nat /\ Falls(q.latched, q.updates) \in Nat
  BY OwedType DEF Pair
<1>4. Owed(q) = Owed(p)
  <2>1. CASE p.poller = "sending"
    <3>1. Owed(p) = p.dips - (p.alerts + Falls(p.latched, p.updates)
                                + Fall(LastLow(p.latched, p.updates), p.prev))
      BY <2>1, OwedType
    <3>2. Owed(q) = q.dips - (q.alerts + Falls(q.latched, q.updates)
                                + Fall(LastLow(q.latched, q.updates), q.prev))
      BY <2>1, OwedType
    <3>3. Fall(LastLow(p.latched, p.updates), p.prev) \in {0, 1}
          /\ Fall(LastLow(p.latched, p.updates), p.prev)
               = Fall(LastLow(q.latched, q.updates), q.prev)
      BY <1>1 DEF Fall
    <3> QED BY <1>1, <1>2, <1>3, <3>1, <3>2, <3>3
  <2>2. CASE p.poller # "sending"
    <3>1. /\ Owed(p) = p.dips - (p.alerts + Falls(p.latched, p.updates))
          /\ Owed(q) = q.dips - (q.alerts + Falls(q.latched, q.updates))
      BY <2>2, OwedType
    <3> QED BY <1>1, <1>2, <1>3, <3>1
  <2> QED BY <2>1, <2>2
<1>5. p.poller # "off" => p.prev # -1
  BY DEF DipOK
<1> QED BY <1>1, <1>4, <1>5 DEF DipOK

(***************************************************************************)
(* A poller that stops, blocked in its send or not, owes what it did not   *)
(* get to send; a pair that is cancelled owes what it did.                 *)
(***************************************************************************)
LEMMA DipStop ==
  ASSUME NEW p \in Pair, NEW q \in Pair, DipOK(p),
         q.poller \in {p.poller, "off"},
         q.prev = p.prev, q.updates = p.updates, q.monitor = p.monitor,
         q.latched = p.latched, q.alerts = p.alerts, q.dips = p.dips, q.lowBase = p.lowBase
  PROVE  DipOK(q)
<1>1. CASE q.poller = p.poller
  <2>1. Owed(q) = Owed(p)
    BY <1>1 DEF Owed, Coming
  <2> QED BY <1>1, <2>1 DEF DipOK
<1>2. CASE q.poller = "off"
  <2>1. Owed(q) >= Owed(p)
    <3>1. Owed(q) = p.dips - (p.alerts + Falls(p.latched, p.updates))
      BY <1>2, OwedType
    <3>2. p.dips \in Nat /\ p.alerts \in Nat /\ Falls(p.latched, p.updates) \in Nat
      BY OwedType DEF Pair
    <3>3. Fall(LastLow(p.latched, p.updates), p.prev) \in {0, 1}
      BY DEF Fall
    <3> QED BY <3>1, <3>2, <3>3, OwedType
  <2>2. Owed(p) \in Int /\ Owed(q) \in Int
    BY OwedType
  <2> QED BY <1>2, <2>1, <2>2 DEF DipOK
<1> QED BY <1>1, <1>2

(***************************************************************************)
(* A pair raises at most one alert for each dip, and with its queue        *)
(* drained exactly one, but for a silent baseline that was already low:    *)
(* for every threshold, set of balances, capacity of the channel and       *)
(* number of replaced wallets.                                             *)
(***************************************************************************)
THEOREM AlertsMatchDips == AppSpec => []AlertPerDip
<1>1. AppInit => DipInv
  BY DipFresh DEF AppInit, AlertInit, DipInv
<1>2. AppTypeOK /\ SendsBalance /\ AppTypeOK' /\ DipInv /\ [AppNext]_appVars => DipInv'
  <2> SUFFICES ASSUME AppTypeOK, SendsBalance, AppTypeOK', DipInv, [AppNext]_appVars
               PROVE  DipInv'
    OBVIOUS
  <2> /\ pair \in Pair /\ pair' \in Pair /\ DipOK(pair)
    BY DEF AppTypeOK, AlertTypeOK, DipInv
  <2>0. UNCHANGED pair => DipInv'
    BY DEF DipInv
  <2>1. ASSUME NEW b \in Balance, PollBalance(b) PROVE DipInv'
    <3>1. pair.poller = "polling"
      BY <2>1 DEF PollBalance
    <3>2. /\ pair'.prev = b /\ pair'.updates = pair.updates /\ pair'.monitor = pair.monitor
          /\ pair'.latched = pair.latched /\ pair'.alerts = pair.alerts
          /\ pair'.poller = IF pair.prev \in {-1, b} THEN "polling" ELSE "sending"
      BY <2>1 DEF PollBalance, Pair
    <3>3. pair'.dips = pair.dips + Fall(Low(pair.prev), b)
      BY <2>1 DEF PollBalance, Pair, Fall
    <3>4. pair'.lowBase = IF pair.prev = -1 THEN Low(b) ELSE pair.lowBase
      BY <2>1 DEF PollBalance, Pair
    <3>5. CASE pair.prev = -1
      <4>1. pair'.lowBase <=> Low(b)
        BY <3>4, <3>5
      <4>2. pair'.poller = "polling"
        BY <3>2, <3>5
      <4> QED BY <3>1, <3>2, <3>3, <3>5, <4>1, <4>2, DipBaseline DEF DipInv
    <3>6. CASE pair.prev # -1
      <4>1. pair'.lowBase = pair.lowBase
        BY <3>4, <3>6
      <4>2. pair'.poller = IF pair.prev = b THEN "polling" ELSE "sending"
        BY <3>2, <3>6
      <4> QED BY <3>1, <3>2, <3>3, <3>6, <4>1, <4>2, DipPoll DEF DipInv
    <3> QED BY <3>5, <3>6
  <2>2. CASE SendUpdate
    <3>1. /\ pair.poller = "sending" /\ pair'.poller = "polling"
          /\ pair'.prev = pair.prev /\ pair'.updates = Append(pair.updates, pair.prev)
          /\ pair'.monitor = pair.monitor /\ pair'.latched = pair.latched
          /\ pair'.alerts = pair.alerts /\ pair'.dips = pair.dips
          /\ pair'.lowBase = pair.lowBase
      BY <2>2 DEF SendUpdate, Pair
    <3>2. pair.prev \in Balance
      BY <3>1 DEF SendsBalance, Pair
    <3> QED BY <3>1, <3>2, DipSend DEF DipInv
  <2>3. CASE TakeUpdate
    <3> DEFINE low == Low(Head(pair.updates))
    <3>1. pair' = [pair EXCEPT !.updates = Tail(@), !.latched = low,
                               !.alerts = IF low /\ ~pair.latched THEN @ + 1 ELSE @]
      BY <2>3 DEF TakeUpdate, Latch
    <3>2. pair'.alerts = pair.alerts + Fall(pair.latched, Head(pair.updates))
      BY <3>1 DEF Pair, Fall
    <3> HIDE DEF low
    <3>3. /\ pair'.updates = Tail(pair.updates) /\ pair'.poller = pair.poller
          /\ pair'.prev = pair.prev /\ pair'.monitor = pair.monitor
          /\ pair'.dips = pair.dips /\ pair'.lowBase = pair.lowBase
      BY <3>1 DEF Pair
    <3>4. pair'.latched = low
      BY <3>1 DEF Pair
    <3>5. pair'.latched <=> Low(Head(pair.updates))
      BY <3>4 DEF low
    <3>6. pair.monitor /\ pair.updates # <<>>
      BY <2>3 DEF TakeUpdate
    <3> QED BY <3>2, <3>3, <3>5, <3>6, DipTake DEF DipInv
  <2>4. CASE StopPoller
    <3>1. /\ pair'.poller = "off" /\ pair'.updates = pair.updates
          /\ pair'.prev = pair.prev /\ pair'.monitor = pair.monitor
          /\ pair'.latched = pair.latched /\ pair'.alerts = pair.alerts
          /\ pair'.dips = pair.dips /\ pair'.lowBase = pair.lowBase
      BY <2>4 DEF StopPoller, Pair
    <3> QED BY <3>1, DipStop DEF DipInv
  <2>5. CASE StopMonitor
    <3>1. ~pair'.monitor /\ pair'.alerts = 0
      BY <2>5 DEF StopMonitor, NoPair, FreshPair
    <3> QED BY <3>1 DEF DipInv, DipOK
  <2>6. CASE WaitForWallet(done)
    BY <2>0, <2>6, DipFresh DEF WaitForWallet, DipInv
  <2>7. CASE CancelMonitors(done)
    <3>1. /\ pair'.poller = pair.poller /\ pair'.updates = pair.updates
          /\ pair'.prev = pair.prev /\ pair'.monitor = pair.monitor
          /\ pair'.latched = pair.latched /\ pair'.alerts = pair.alerts
          /\ pair'.dips = pair.dips /\ pair'.lowBase = pair.lowBase
      BY <2>7 DEF CancelMonitors, Pair
    <3> QED BY <3>1, DipStop DEF DipInv
  <2>8. CASE MonitorsEnd(done)
    BY <2>8, DipFresh DEF MonitorsEnd, DipInv
  <2>9. CASE StopStray \/ StopTxLoop \/ StopGas(done)
    BY <2>0, <2>9 DEF StopStray, StopTxLoop, StopGas, pairVars
  <2>10. CASE WatcherStep
    BY <2>1, <2>2, <2>3, <2>4, <2>5, <2>6, <2>7, <2>8, <2>9, <2>10 DEF WatcherStep
  <2>11. CASE New \/ StartRunners \/ UNCHANGED alertVars
    BY <2>0, <2>11 DEF New, StartRunners, alertVars, pairVars
  <2>12. UNCHANGED appVars => UNCHANGED alertVars
    BY DEF appVars
  <2> QED BY <2>10, <2>11, <2>12, AppSteps
<1>3. AppTypeOK /\ DipInv => AlertPerDip
  <2> SUFFICES ASSUME AppTypeOK, DipInv PROVE AlertPerDip
    OBVIOUS
  <2>1. pair \in Pair /\ DipOK(pair)
    BY DEF AppTypeOK, AlertTypeOK, DipInv
  <2>2. pair.dips \in Nat /\ pair.alerts \in Nat /\ Owed(pair) \in Int
          /\ Falls(pair.latched, pair.updates) \in Nat
    BY <2>1, OwedType DEF Pair
  <2>3. pair.alerts <= pair.dips
    <3>1. CASE pair.monitor
      <4>1. Owed(pair) >= 0
        BY <2>1, <3>1 DEF DipOK
      <4>2. Fall(LastLow(pair.latched, pair.updates), pair.prev) \in {0, 1}
        BY DEF Fall
      <4> QED BY <2>1, <2>2, <4>1, <4>2, OwedType
    <3>2. CASE ~pair.monitor
      <4>1. pair.alerts = 0
        BY <2>1, <3>2 DEF DipOK
      <4> QED BY <2>2, <4>1
    <3> QED BY <3>1, <3>2
  <2>4. ASSUME pair.poller = "polling", pair.updates = <<>>, pair.monitor
        PROVE  pair.alerts >= pair.dips - (IF pair.lowBase THEN 1 ELSE 0)
    <3>1. Owed(pair) = 0 \/ (Owed(pair) = 1 /\ pair.lowBase)
      BY <2>1, <2>4 DEF DipOK
    <3>2. Owed(pair) = pair.dips - (pair.alerts + 0)
      <4>1. Falls(pair.latched, pair.updates) = 0
        <5>1. pair.latched \in BOOLEAN /\ pair.updates \in Seq(Balance)
          BY <2>1 DEF Pair
        <5> QED BY <2>4, <5>1, FallsType
      <4> QED BY <2>1, <2>4, <4>1, OwedType
    <3> QED BY <2>2, <3>1, <3>2
  <2> QED BY <2>3, <2>4 DEF AlertPerDip
<1> QED BY <1>1, <1>2, <1>3, AppTyped, PTL DEF AppSpec
=============================================================================
