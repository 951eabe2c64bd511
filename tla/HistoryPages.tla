---------------------------- MODULE HistoryPages ----------------------------
(***************************************************************************)
(* Reading the transaction history (usecase/history, handler/grpc): the    *)
(* UI scrolls through pages of the transactions table by offset while the  *)
(* syncs of HistorySync store more rows, in any order.  Each page shows    *)
(* the two legs of a swap as one entry.                                    *)
(***************************************************************************)
EXTENDS Naturals, Sequences, FiniteSets, SequencesExt

CONSTANTS
  Legs,          \* rows the syncs may store: [uid, hash, time, from, to, asset]
  Wallet,        \* the address whose history is read
  Limits,        \* page limits a request may carry, 0 for none
  DefaultLimit,  \* the handler's limit for a request without one
  MaxScrolls     \* bound on scrolls

ASSUME PagesAssumption ==
  /\ IsFiniteSet(Legs) /\ \A l, m \in Legs : l.uid = m.uid => l = m
  /\ \A l \in Legs : l.uid \in Nat /\ l.time \in Nat
  /\ Limits \subseteq Nat /\ DefaultLimit \in Nat \ {0} /\ MaxScrolls \in Nat

VARIABLES
  table,    \* the transactions table
  reader,   \* the reader: idle, between two pages, counting, done, failed
  limit,    \* the limit of the scroll
  offset,   \* the cursor of the next page
  lastPage, \* the rows of the last page, before merging
  items,    \* the entries the UI has appended so far
  total,    \* the last total_count
  started,  \* history: the wallet's rows in the table when the scroll began
  scrolls   \* history: number of scrolls

pagesVars == <<table, reader, limit, offset, lastPage, items, total, started, scrolls>>

\* An entry of a page: a row, or a swap made of the received and the sent leg.
Entry == [row : Legs, sent : {{}} \cup {{l} : l \in Legs}]
Raw(l) == [row |-> l, sent |-> {}]
LegsOf(e) == {e.row} \cup e.sent

-----------------------------------------------------------------------------
(* Storage. *)

Mine(l) == Wallet \in {l.from, l.to}
Rows == {l \in table : Mine(l)}

\* ORDER BY timestamp DESC, unique_id ASC.
Before(l, m) == l.time > m.time \/ (l.time = m.time /\ l.uid < m.uid)

Rank(l) == Cardinality({m \in Rows : Before(m, l)})
Sorted == [i \in 1..Cardinality(Rows) |-> CHOOSE l \in Rows : Rank(l) = i - 1]

ListByAddress(n, off) ==
  SubSeq(Sorted, off + 1, IF off + n < Len(Sorted) THEN off + n ELSE Len(Sorted))

Hashes(S) == {l.hash : l \in S}

\* SELECT COUNT(DISTINCT hash).
CountByAddress == Cardinality(Hashes(Rows))

-----------------------------------------------------------------------------
(* mergeSwapLegs. *)

\* The first leg that leaves the wallet, and the first other one that arrives.
SentLeg(legs) == SelectInSeq(legs, LAMBDA l : l.from = Wallet)
ReceivedLeg(legs) ==
  SelectInSeq([i \in 1..Len(legs) |-> <<i, legs[i]>>],
              LAMBDA x : x[2].to = Wallet /\ x[1] # SentLeg(legs))

\* Mutant: a group of more than two legs is merged as well.
tryMergeSwapMany(legs) ==
  LET s == SentLeg(legs)
      r == ReceivedLeg(legs)
  IN IF Len(legs) >= 2 /\ s # 0 /\ r # 0 /\ legs[s].asset # legs[r].asset
     THEN <<[row |-> legs[r], sent |-> {legs[s]}]>>
     ELSE [i \in 1..Len(legs) |-> Raw(legs[i])]

\* The entries of a group: one for a swap, else the legs as they are.
tryMergeSwap(legs) ==
  LET s == SentLeg(legs)
      r == ReceivedLeg(legs)
  IN IF Len(legs) = 2 /\ s # 0 /\ r # 0 /\ legs[s].asset # legs[r].asset
     THEN <<[row |-> legs[r], sent |-> {legs[s]}]>>
     ELSE [i \in 1..Len(legs) |-> Raw(legs[i])]

\* The legs of a transaction, in the order of the page.
Group(txs, hash) ==
  FlattenSeq([i \in 1..Len(txs) |-> IF txs[i].hash = hash THEN <<txs[i]>> ELSE <<>>])

\* Rows are grouped by hash, a group where its first row is.
mergeSwapLegs(txs) ==
  FlattenSeq([i \in 1..Len(txs) |->
    IF \E j \in 1..(i - 1) : txs[j].hash = txs[i].hash THEN <<>>
    ELSE tryMergeSwap(Group(txs, txs[i].hash))])

-----------------------------------------------------------------------------
(* One scroll of the UI. *)

\* The handler's limit.
PageLimit(n) == IF n > 0 THEN n ELSE DefaultLimit

BeginScroll(n) ==
  /\ reader \in {"idle", "done", "failed"}
  /\ scrolls < MaxScrolls
  /\ scrolls' = scrolls + 1
  /\ reader' = "scrolling"
  /\ limit' = PageLimit(n)
  /\ offset' = 0 /\ lastPage' = <<>> /\ items' = <<>> /\ total' = 0
  /\ started' = Rows
  /\ UNCHANGED table

\* GetHistory's first statement, the merge and the next cursor.
GetHistory ==
  /\ reader = "scrolling"
  /\ lastPage' = ListByAddress(limit, offset)
  /\ items' = items \o mergeSwapLegs(lastPage')
  /\ offset' = offset + limit
  /\ reader' = "counting"
  /\ UNCHANGED <<table, limit, total, started, scrolls>>

GetHistoryFails ==
  /\ reader = "scrolling"
  /\ reader' = "failed"
  /\ UNCHANGED <<table, limit, offset, lastPage, items, total, started, scrolls>>

\* Mutant: HasMore is asked of the merged page.
HasMoreMerged == Len(mergeSwapLegs(lastPage)) = limit

HasMore == Len(lastPage) = limit

\* GetHistory's second statement: the count, or what the page shows of it.
Count ==
  /\ reader = "counting"
  /\ total' \in {CountByAddress, Len(mergeSwapLegs(lastPage))}
  /\ reader' = IF HasMore THEN "scrolling" ELSE "done"
  /\ UNCHANGED <<table, limit, offset, lastPage, items, started, scrolls>>

\* A sync stores a row (HistorySync!StoreTransfer).
SyncUpsert ==
  /\ \E l \in Legs \ table : table' = table \cup {l}
  /\ UNCHANGED <<reader, limit, offset, lastPage, items, total, started, scrolls>>

PagesInit ==
  /\ table = {} /\ reader = "idle" /\ limit = DefaultLimit /\ offset = 0
  /\ lastPage = <<>> /\ items = <<>> /\ total = 0
  /\ started = {} /\ scrolls = 0

PagesNext ==
  \/ \E n \in Limits : BeginScroll(n)
  \/ GetHistory \/ GetHistoryFails \/ Count
  \/ SyncUpsert

PagesSpec == PagesInit /\ [][PagesNext]_pagesVars

-----------------------------------------------------------------------------
(* Properties. *)

\* Every variable has its type; a page holds no more rows than its limit.
PagesTypeOK ==
  /\ table \subseteq Legs /\ started \subseteq table
  /\ reader \in {"idle", "scrolling", "counting", "done", "failed"}
  /\ limit \in Nat \ {0} /\ offset \in Nat /\ total \in 0..Cardinality(Legs)
  /\ lastPage \in Seq(Legs) /\ Len(lastPage) <= limit
  /\ items \in Seq(Entry)
  /\ scrolls \in 0..MaxScrolls

\* How often a leg is on the screen.
Shown(l) == Cardinality({i \in DOMAIN items : l \in LegsOf(items[i])})

(***************************************************************************)
(* A scroll that reached its end misses nothing (GetHistory): every row    *)
(* the wallet had when it began is on the screen, though rows stored since *)
(* shift the offsets and swaps make pages shorter than their limit.  When  *)
(* no sync stored a row of the wallet meanwhile, each row is shown once    *)
(* (ListByAddress): the UI appends pages without looking for repeats, so   *)
(* the order must be total and the cursor count rows, not entries.         *)
(***************************************************************************)
ScrollIsFaithful ==
  reader = "done" => \A l \in started : Shown(l) > 0 /\ (started = Rows => Shown(l) = 1)

(***************************************************************************)
(* Merging hides nothing (tryMergeSwap): each row of a page is in exactly  *)
(* one entry of it, and a swap entry is the page's only outgoing and only  *)
(* incoming leg of its transaction, in two assets.                         *)
(***************************************************************************)
MergeKeepsLegs ==
  LET merged == mergeSwapLegs(lastPage)
  IN /\ \A l \in ToSet(lastPage) :
          Cardinality({i \in DOMAIN merged : l \in LegsOf(merged[i])}) = 1
     /\ \A e \in ToSet(merged), s \in Legs : s \in e.sent =>
          /\ s.from = Wallet /\ e.row.to = Wallet /\ s.asset # e.row.asset
          /\ {l \in ToSet(lastPage) : l.hash = e.row.hash} = {s, e.row}
=============================================================================
