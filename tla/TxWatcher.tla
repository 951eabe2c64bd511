----------------------------- MODULE TxWatcher -----------------------------
(***************************************************************************)
(* The transaction monitor of the backend (internal/usecase/watcher): one  *)
(* goroutine per loaded address polls the chain head and Alchemy's         *)
(* getAssetTransfers, groups the legs by transaction hash and emits one    *)
(* notification per hash.                                                  *)
(*                                                                         *)
(* The environment is the chain (NewBlock), Alchemy's indexer, which makes *)
(* the legs of a mined transaction visible one by one and late (Index),    *)
(* and the pending tracker, which knows the transactions this wallet       *)
(* broadcast itself (Track, Forget).  The monitor is the loop of           *)
(* watchTransactions: a tick reads the head, fetches a window of blocks    *)
(* that overlaps the previous one, walks the hashes in any order (a Go map *)
(* range) and then moves its cursor.                                       *)
(*                                                                         *)
(* Time is counted in poll intervals: every tick advances `now' by one.    *)
(***************************************************************************)
EXTENDS Naturals, Sequences, FiniteSets

CONSTANTS
  Hash,          \* transaction hashes
  LegsOf,        \* the asset movements of each transaction that touch the wallet
  Own,           \* the transactions this wallet signs itself
  Swaps,         \* those of them the pending tracker tags with Kind "swap"
  Lookback,      \* lookbackBlocks (3)
  PageSize,      \* fetchPageSize (50)
  Cap,           \* emittedCap (512)
  MaxDeferral,   \* maxDeferral (30 s) in poll intervals (15 s)
  Lag,           \* a leg is visible at the latest when the head is Lag blocks past it
  MaxBlock,      \* bound: the last block mined
  MaxTime        \* bound: the number of ticks

(***************************************************************************)
(* A leg of a transfer as Alchemy reports it: which of the two queries     *)
(* (fromAddress, toAddress) returns it -- both for "self" --, whether the  *)
(* asset is native, and whether the token contract is in the verified      *)
(* list.                                                                   *)
(***************************************************************************)
Leg == [dir : {"out", "in", "self"}, native : BOOLEAN, verified : BOOLEAN]

Role == {"SendETH", "SendToken", "ReceiveETH", "ReceiveToken",
         "Swap", "SelfTransfer", "Approve"}

ASSUME HashAssumption ==
  /\ LegsOf \in [Hash -> SUBSET Leg]
  /\ Own \subseteq Hash
  /\ Swaps \subseteq Own

ASSUME BoundAssumption ==
  /\ Lookback \in Nat \ {0}
  /\ PageSize \in Nat \ {0}
  /\ MaxDeferral \in Nat
  /\ MaxBlock \in Nat \ {0}
  /\ MaxTime \in Nat

(***************************************************************************)
(* The dedup set outlives the window: in the code 512 >= 2 * 50 * (3 + 1). *)
(***************************************************************************)
ASSUME CapAssumption == Cap \in Nat /\ Cap >= 2 * PageSize * (Lookback + 1)

(***************************************************************************)
(* The indexer lags less than the lookback window reaches back.            *)
(***************************************************************************)
ASSUME LagAssumption == Lag \in Nat /\ Lag <= Lookback

VARIABLES
  head,         \* the chain head
  block,        \* block[h]: the block that contains h, 0 while it is not mined
  visible,      \* visible[h]: the legs of h Alchemy has indexed
  tracked,      \* the hashes RecentPendingForAddress returns
  now,          \* the clock, in poll intervals
  pc,           \* "idle" between ticks, "scan" inside processTick
  lastBlock,    \* the cursor
  initialized,  \* the first head has been recorded
  cur,          \* the head this tick read
  todo,         \* the hashes of this tick processTick has still to walk
  legs,         \* legs[h]: the movements of h this tick fetched
  ours,         \* the snapshot of tracked this tick took
  emitted,      \* emittedSet: its FIFO order, which is also its set
  deferred,     \* deferred[h]: when h was first held back, 0 without an entry
  sent,         \* history: the notifications emitted for h
  dropped,      \* history: the hashes dropped as spam
  start,        \* history: the head the first tick recorded
  cut           \* history: the hashes with a leg a full page left out

env == <<head, block, visible, tracked>>
cursor == <<lastBlock, initialized, start>>
tick == <<cur, legs, ours, cut>>
vars == <<env, now, pc, cursor, tick, todo, emitted, deferred, sent, dropped>>

Elems(s) == {s[i] : i \in 1..Len(s)}

\* The hashes the monitor is done with: notified or dropped as spam.
Handled == {h \in Hash : sent[h] # <<>> \/ h \in dropped}

-----------------------------------------------------------------------------
(* The environment. *)

(***************************************************************************)
(* A block with the transactions S is mined.  By then Alchemy has indexed  *)
(* every transaction that is Lag blocks old.                               *)
(***************************************************************************)
NewBlock(S) ==
  /\ head < MaxBlock
  /\ \A h \in S : block[h] = 0
  /\ \A h \in Hash : block[h] # 0 /\ block[h] + Lag <= head + 1
                        => visible[h] = LegsOf[h]
  /\ head' = head + 1
  /\ block' = [h \in Hash |-> IF h \in S THEN head + 1 ELSE block[h]]
  /\ UNCHANGED <<visible, tracked, now, pc, cursor, tick, todo, emitted,
                 deferred, sent, dropped>>

\* Alchemy indexes one more leg of a mined transaction.
Index(h, l) ==
  /\ block[h] # 0
  /\ l \in LegsOf[h] \ visible[h]
  /\ visible' = [visible EXCEPT ![h] = @ \cup {l}]
  /\ UNCHANGED <<head, block, tracked, now, pc, cursor, tick, todo, emitted,
                 deferred, sent, dropped>>

\* SendTx has broadcast h and registers it (PendingTracker.Add).
Track(h) ==
  /\ h \in Own \ tracked
  /\ tracked' = tracked \cup {h}
  /\ UNCHANGED <<head, block, visible, now, pc, cursor, tick, todo, emitted,
                 deferred, sent, dropped>>

(***************************************************************************)
(* The tracker's recent window for h ends.  Remove is called on the        *)
(* receipt but also when the caller's context ends while h is still in the *)
(* mempool, so this may happen before h is mined.                          *)
(***************************************************************************)
Forget(h) ==
  /\ h \in tracked
  /\ tracked' = tracked \ {h}
  /\ UNCHANGED <<head, block, visible, now, pc, cursor, tick, todo, emitted,
                 deferred, sent, dropped>>

-----------------------------------------------------------------------------
(* classifyRole, isSpamTransaction and shouldDefer. *)

\* buildMovement: a leg is outgoing when its sender is the wallet.
IsOutgoing(l) == l.dir \in {"out", "self"}

(***************************************************************************)
(* The roles classifyRole can give a set of movements: with legs on one    *)
(* side only it looks at the first of them, whichever Alchemy lists first. *)
(***************************************************************************)
classifyRole(ms) ==
  LET outgoing == {m \in ms : IsOutgoing(m)}
      incoming == ms \ outgoing
  IN CASE ms = {} -> {"Approve"}
       [] outgoing # {} /\ incoming # {} ->
            {IF \A m \in outgoing : m.dir = "self" THEN "SelfTransfer" ELSE "Swap"}
       [] outgoing # {} /\ incoming = {} ->
            {IF m.native THEN "SendETH" ELSE "SendToken" : m \in outgoing}
       [] OTHER ->
            {IF m.native THEN "ReceiveETH" ELSE "ReceiveToken" : m \in incoming}

\* An unverified ERC-20 leg makes a transaction that is not ours spam.
isSpam(h) ==
  /\ h \notin ours
  /\ \E m \in legs[h] : ~m.native /\ ~m.verified

\* The events the legs known so far may make of h, IsOurs from the hashes read
\* at the start of the tick.
buildTransactionEvent(h) ==
  {[role |-> role, ours |-> h \in ours] : role \in classifyRole(legs[h])}

\* A tagged swap of ours of which only one side is visible.
looksIncomplete(h, role) ==
  /\ h \in ours \cap Swaps
  /\ role \notin {"Swap", "SelfTransfer"}

(***************************************************************************)
(* Two ticks that are MaxDeferral intervals apart measure a wall-clock     *)
(* distance on either side of maxDeferral, so at equality both outcomes    *)
(* are possible.                                                           *)
(***************************************************************************)
stillWaiting(h) == deferred[h] = 0 \/ now - deferred[h] <= MaxDeferral
waitedEnough(h) == deferred[h] # 0 /\ now - deferred[h] >= MaxDeferral

-----------------------------------------------------------------------------
(* The monitor. *)

\* The first block of the window a tick with cursor L queries.
From(L) == IF L > Lookback THEN L - Lookback + 1 ELSE 1

\* The visible transfers one of the two queries matches in blocks From(lastBlock)..c.
Matching(c, dirs) ==
  {t \in Hash \X Leg :
     /\ block[t[1]] \in From(lastBlock)..c
     /\ t[2] \in visible[t[1]]
     /\ t[2].dir \in dirs}

\* A single page: everything, or PageSize of it in the server's order.
Page(all) ==
  {q \in SUBSET all : /\ IsFiniteSet(q)
                      /\ Cardinality(q) <= PageSize
                      /\ Cardinality(q) = PageSize \/ q = all}

\* A tick of the poll timer; the clock is the only thing a failed tick moves.
Tick ==
  /\ pc = "idle"
  /\ now < MaxTime
  /\ now' = now + 1

\* Mutant: the first tick starts a lookback early, without a clamp.
FirstTickUnclamped(c) ==
  /\ Tick
  /\ ~initialized
  /\ initialized' = TRUE
  /\ lastBlock' = c - Lookback
  /\ start' = c
  /\ UNCHANGED <<env, pc, tick, todo, emitted, deferred, sent, dropped>>

\* The first tick that reads the head only records it.
FirstTick(c) ==
  /\ Tick
  /\ ~initialized
  /\ initialized' = TRUE
  /\ lastBlock' = c
  /\ start' = c
  /\ UNCHANGED <<env, pc, tick, todo, emitted, deferred, sent, dropped>>

\* Mutant: a tick whose query failed moves the cursor to the head all the same.
SkipTickAdvances ==
  /\ Tick
  /\ lastBlock' = IF initialized THEN head ELSE lastBlock
  /\ UNCHANGED <<env, pc, initialized, start, tick, todo, emitted, deferred,
                 sent, dropped>>

(***************************************************************************)
(* A tick that stops early: the head or one of the two queries could not   *)
(* be read, or the head did not move.  The cursor stays where it was.      *)
(***************************************************************************)
SkipTick ==
  /\ Tick
  /\ UNCHANGED <<env, pc, cursor, tick, todo, emitted, deferred, sent, dropped>>

(***************************************************************************)
(* fetchTransfers and groupByHash: both queries succeed.  The head c the   *)
(* node answers may be behind the real one.  A self leg is in both pages   *)
(* and survives the UniqueID dedup once.  processTick then takes its       *)
(* snapshot of the tracker.                                                *)
(***************************************************************************)
Fetch(c) ==
  /\ Tick
  /\ initialized
  /\ c > lastBlock
  /\ \E out \in Page(Matching(c, {"out", "self"})),
        in  \in Page(Matching(c, {"in", "self"})) :
       /\ todo' = {t[1] : t \in out \cup in}
       /\ legs' = [h \in Hash |-> {l \in LegsOf[h] : <<h, l>> \in out \cup in}]
       /\ cut' = cut \cup {h \in Hash :
                   \E l \in LegsOf[h] :
                     <<h, l>> \in Matching(c, {"out", "in", "self"}) \ (out \cup in)}
  /\ cur' = c
  /\ ours' = tracked
  /\ pc' = "scan"
  /\ UNCHANGED <<env, cursor, emitted, deferred, sent, dropped>>

\* emittedSet.add: at the cap the oldest entry makes room.
addEmitted(h) ==
  IF h \in Elems(emitted) THEN emitted
  ELSE Append(IF Len(emitted) >= Cap THEN Tail(emitted) ELSE emitted, h)

\* The part of an iteration of processTick every branch shares.
Walk(h) ==
  /\ pc = "scan"
  /\ h \in todo
  /\ todo' = todo \ {h}
  /\ UNCHANGED <<env, now, pc, cursor, tick>>

\* The hash was handled on an earlier tick.
SkipHash(h) ==
  /\ Walk(h)
  /\ h \in Elems(emitted)
  /\ UNCHANGED <<emitted, deferred, sent, dropped>>

\* Address-poisoning spam is dropped and remembered as emitted.
DropSpam(h) ==
  /\ Walk(h)
  /\ h \notin Elems(emitted)
  /\ isSpam(h)
  /\ dropped' = dropped \cup {h}
  /\ emitted' = addEmitted(h)
  /\ deferred' = [deferred EXCEPT ![h] = 0]
  /\ UNCHANGED sent

\* shouldDefer holds the hash back and stamps it the first time.
Defer(h) ==
  /\ Walk(h)
  /\ h \notin Elems(emitted)
  /\ ~isSpam(h)
  /\ \E event \in buildTransactionEvent(h) : looksIncomplete(h, event.role)
  /\ stillWaiting(h)
  /\ deferred' = [deferred EXCEPT ![h] = IF @ = 0 THEN now ELSE @]
  /\ UNCHANGED <<emitted, sent, dropped>>

\* Mutant: the notified hash is not remembered.
EmitForgets(h) ==
  /\ Walk(h)
  /\ h \notin Elems(emitted)
  /\ ~isSpam(h)
  /\ \E event \in buildTransactionEvent(h) :
       /\ looksIncomplete(h, event.role) => waitedEnough(h)
       /\ sent' = [sent EXCEPT ![h] = Append(@, event)]
  /\ deferred' = [deferred EXCEPT ![h] = 0]
  /\ UNCHANGED <<emitted, dropped>>

\* emitAndPersist, then the hash is remembered.
Emit(h) ==
  /\ Walk(h)
  /\ h \notin Elems(emitted)
  /\ ~isSpam(h)
  /\ \E event \in buildTransactionEvent(h) :
       /\ looksIncomplete(h, event.role) => waitedEnough(h)
       /\ sent' = [sent EXCEPT ![h] = Append(@, event)]
  /\ emitted' = addEmitted(h)
  /\ deferred' = [deferred EXCEPT ![h] = 0]
  /\ UNCHANGED dropped

\* After the walk: stale deferrals are collected, the cursor moves and the
\* tick's locals go out of scope.
EndTick ==
  /\ pc = "scan"
  /\ todo = {}
  /\ deferred' = [h \in Hash |->
       IF now - deferred[h] > 2 * MaxDeferral THEN 0 ELSE deferred[h]]
  /\ lastBlock' = cur
  /\ pc' = "idle"
  /\ cur' = 0 /\ ours' = {} /\ legs' = [h \in Hash |-> {}]
  /\ UNCHANGED <<env, now, initialized, start, cut, todo, emitted, sent, dropped>>

-----------------------------------------------------------------------------

Init ==
  /\ head = 1
  /\ block = [h \in Hash |-> 0]
  /\ visible = [h \in Hash |-> {}]
  /\ tracked = {}
  /\ now = 0
  /\ pc = "idle"
  /\ lastBlock = 0 /\ initialized = FALSE /\ start = 0
  /\ cur = 0 /\ todo = {} /\ ours = {} /\ cut = {}
  /\ legs = [h \in Hash |-> {}]
  /\ emitted = <<>>
  /\ deferred = [h \in Hash |-> 0]
  /\ sent = [h \in Hash |-> <<>>]
  /\ dropped = {}

Environment ==
  \/ \E S \in SUBSET Hash : NewBlock(S)
  \/ \E h \in Hash : \E l \in LegsOf[h] : Index(h, l)
  \/ \E h \in Hash : Track(h) \/ Forget(h)

watchTransactions ==
  \/ \E c \in 1..head : FirstTick(c) \/ Fetch(c)
  \/ SkipTick
  \/ \E h \in Hash : SkipHash(h) \/ DropSpam(h) \/ Defer(h) \/ Emit(h)
  \/ EndTick

Next == Environment \/ watchTransactions

Spec == Init /\ [][Next]_vars
-----------------------------------------------------------------------------
(* Properties. *)

Event == [role : Role, ours : BOOLEAN]

\* Every variable has its type.
TypeOK ==
  /\ head \in Nat /\ now \in Nat
  /\ block \in [Hash -> Nat]
  /\ visible \in [Hash -> SUBSET Leg] /\ legs \in [Hash -> SUBSET Leg]
  /\ tracked \subseteq Hash /\ ours \subseteq Hash
  /\ pc \in {"idle", "scan"}
  /\ lastBlock \in Nat /\ cur \in Nat /\ start \in Nat
  /\ initialized \in BOOLEAN
  /\ todo \subseteq Hash /\ cut \subseteq Hash /\ dropped \subseteq Hash
  /\ emitted \in Seq(Hash)
  /\ deferred \in [Hash -> Nat]
  /\ sent \in [Hash -> Seq(Event)]

(***************************************************************************)
(* "one KindTransaction event per hash" (watch_transactions.go:14-17):     *)
(* within one monitor no hash is handled twice, although every window      *)
(* overlaps the previous ones and emittedSet forgets its oldest entries.   *)
(***************************************************************************)
AtMostOnce ==
  \A h \in Hash : Len(sent[h]) <= 1 /\ (h \in dropped => sent[h] = <<>>)

\* h was mined after the monitor started and no later window reaches it.
Passed(h) == initialized /\ block[h] > start /\ block[h] < From(lastBlock)

\* Once all legs of h are known, processTick has no reason to hold it back.
Complete(h) ==
  h \in Swaps => classifyRole(LegsOf[h]) \subseteq {"Swap", "SelfTransfer"}

(***************************************************************************)
(* The cursor never passes a transfer it has not handled: whatever the     *)
(* jumps of the head, stale heads, failed polls, deferrals and the lag of  *)
(* the indexer, a transaction with a leg that a full page did not cut off  *)
(* is handled before its block leaves the window.                          *)
(***************************************************************************)
NoSkip ==
  \A h \in Hash \ cut :
    LegsOf[h] # {} /\ Complete(h) /\ Passed(h) => h \in Handled
=============================================================================
