# nox-wallet: a TLA+ verification of the backend

nox-wallet is a desktop Ethereum wallet: a Go backend (`internal/`, `pkg/`)
that holds the keys, talks to an Ethereum node and to Alchemy and keeps a SQLite
database, and a Flutter UI (`ui/`) that talks to it over gRPC. This directory
models the parts of the backend where goroutines, remote services and a
database meet, checks them with TLC and proves the central safety results with
TLAPS.

## Inventory

Components, their state and operations. *Modelled* names the module.

| Component | State | Operations | Modelled |
|---|---|---|---|
| Transaction watcher (`usecase/watcher/watch_transactions.go` …) | block cursor, FIFO dedup set, deferral stamps | poll tick: read head, fetch two pages, group by hash, drop spam, defer, classify, emit | `TxWatcher` |
| Sending (`pkg/ethkit/tx.go`, `replacement.go`) | per-address nonce counter | SendTx, SpeedUpTx, CancelTx | `SendTx` |
| Fees and previews (`pkg/ethkit/simulate*.go`, `gas.go`, `amount.go`) | – | SimulateSend, pricing, fee bumps | `Transfer`, on top of `SendTx` |
| Pending janitor (`pkg/ethkit/pending.go`) | – | prune mined, dropped and orphaned entries | `SendTx`, `PendingStore` |
| Pending store (`adapter/eth/pending_store.go`) | `active`, `recent`, table `pending_txs` | Add, Remove, List, Recent, gc, hydrate | `PendingStore`, `PendingContract` |
| Wallet lifecycle (`usecase/wallet`) | keychain cell, table `wallets`, loaded wallet | generate, three imports, reveal, export, restore at start | `WalletLifecycle` |
| Address monitors (`usecase/watcher/usecase.go`) | address the monitors run on | start, retarget | `WalletLifecycle`, `Alerts` |
| History sync (`usecase/history`) | `lastSync`, `syncing`, semaphore, table `transactions` | GetHistory (background), Sync, SyncForce | `HistorySync` |
| History pages, swap merging (`usecase/history`) | – | offset paging, mergeSwapLegs | `HistoryPages` |
| Event bus (`watcher/emit.go`, `handler/grpc/watcher.go`) | subscriber channels of 64 | Subscribe, emit, persist, WatchEvents | `EventBus` |
| Notifications (`usecase/notification`) | table of at most 200 rows, settings | Save, MarkRead, ClearAll, sweep | `Notifications`, `EventBus` |
| Alerts (`watch_balance.go`, `watch_gas.go`, `pkg/ethkit/subscribe.go`) | latch, update channel; previous gas price | poll, consume | `Alerts` (balance), goroutine only (gas) |
| Token watchlist (`usecase/token`) | table `watched_tokens` | Add, EnsureWatched, Seed, hide, pin, remove | `TokenWatchlist`, `WatchedSet` |
| Swap, allowance, approvals (`pkg/ethkit/swap.go`, `approvals.go`, `usecase/swap`, `usecase/approval`) | allowance on chain | quote, approve, swap, post-swap hook, scan, revoke | `Swap` |
| Contacts (`usecase/contact`) | table `contacts` | create, get, update, delete, favorite, list | `Contacts` |
| Price feed (`adapter/price`, `pkg/cache`) | three TTL caches | GetPrice, GetPricesForTokens, GetSparkline | `PriceFeed`, `Portfolio` |
| Errors, interceptors, handlers (`pkg/errors`, `pkg/grpckit`, `handler/grpc`) | – | error chain to status, authorisation, panic recovery | `Rpc` |
| Start, shutdown, configuration (`cmd/app`, `internal/app`, `pkg/config`) | what has been built and must be closed | New, Run, runners, shutdown | `Startup`, `App` |
| ENS, token metadata, JSON and message mapping, logging, SQL set-up and migrations, UI | none that outlives a call | – | no (see below) |

How they interact. SendTx registers each broadcast in the pending store and
removes it when its caller is done; the janitor removes what is stale. The
watcher takes `Recent` of the store as its "is it ours" signal, which decides
deferral and spam. What the monitors notice goes through the bus: saved in the
notification table, then broadcast to the open streams. Imports replace the
wallet under running monitors, seeds and syncs, which write to the same tables.
The history sync is started by reads, imports and swaps, and reads the watchlist
that swaps, seeds and the user change. One errgroup and one context hold the
process together.

What is hard here: calls that release a lock before they write to the database;
a nonce counter that mirrors a node which forgets, loses answers and replaces;
an indexer that is late, so a cursor has to overlap itself; bounded memory next
to an "exactly once" intention; a four-write import without a transaction;
background work that outlives the wallet it was started for; one semaphore that
both ends of a wait need; a broadcast next to closing channels; look-ups that
are stale when the insert, the approval or the swap they lead to runs; a price
and a base fee that move between what the user saw and what is signed; a
shutdown that waits for streams which do not end. `PROJECT.json` lists each
hazard at its line.

What makes each component correct: one notification per transaction and none
skipped (watcher); no two transactions under one nonce, the pending list heals
(sending); the preview is the transaction and tells the truth, a replacement is
accepted (fees); readers see exactly the interface's contract, through crashes
(store); a finished import survives restarts, the secret always fits the record
and backups restore the wallet (lifecycle); a sync that reports success is
complete, ends, and never takes data back, and a scroll misses nothing
(history); a subscriber sees or can list everything that was saved, and never
blocks or crashes a monitor (bus); what the user set stays set (tables); a swap
takes and pays what was asked, and a revoke holds (swaps); a fresh price is
fresh (feed); the process ends, in order (application).

## Modules

`X.tla` is the specification, `MCX.tla` its TLC instance (cfg files give the
constants; where constants need no definitions the cfg runs `X` itself),
`XProofs.tla` its theorems. `MonitorProofs` has those of `TxWatcher` and `App`,
`HistoryProofs` those of `HistorySync` and `HistoryPages`, `TablesProofs` those of
`UserTables` and `Portfolio`, `SendTxProofs` those of `SendTx` and `Transfer`.

**TxWatcher.** One monitor of `watchTransactions` with its environment: blocks,
an indexer that shows legs one by one and at most `Lag` blocks late, the
tracker. A tick is `SkipTick` (any early return), `FirstTick`, or `Fetch`
(both queries and the tracker snapshot), then one step per hash in any order (a
Go map range) -- `SkipHash`, `DropSpam`, `Defer`, `Emit` -- and `EndTick`
(deferral gc, cursor). Legs keep what classification and the spam rule tell
apart: direction, native or not, verified or not. `sent`, `dropped`, `start` and
`cut` are history variables. The environment is as friendly as the code's
comments assume (`LagAssumption`); everything else may go wrong.

**SendTx.** One wallet; each call is identified with its transaction. Steps of a
call: take a nonce under the manager's mutex, fail at estimation or signing,
broadcast (accepted, refused, or accepted with the answer lost), register, wait,
return with the receipt or be abandoned. Replacements read the original's nonce
from the node and later broadcast. The node's pool may keep or replace a
transaction of the same nonce, evict, and mine in nonce order.

**Transfer** extends SendTx with what is sent: the send form, the two paths of
SimulateSend (Alchemy's asset changes, or eth_call and a gas estimate) with every
call of them failing on its own, the request SendETH and SendToken build,
pricing between nonce and broadcast, the bump of a replacement, and the block that
charges the gas used -- while base fee, balances and the gas a transfer takes
(`need`) move. `bill` is the history of a previewed call: the base fee SendTx
asked at, and the block's gas, base fee and cost. Each SendTx step takes the pricing it needs along, so a
behaviour of Transfer is one of SendTx.

**PendingStore / PendingContract.** Each mutation is two steps, the memory part
under the lock and the SQL statement after it; statements fail, overtake each
other, and a crash may fall anywhere. gc is its DELETE and its memory sweep.
Ages saturate at `RecentTTL + 1`. `PendingContract` says what `List` and
`Recent` promise and knows no table, gc or order of statements.

**WalletLifecycle.** Generate and the imports are Reset, keychain write, record
write, load, each of which may fail or be the last before a crash, and the
answer the handler gives; `Record` is the row `Storage.Get` picks. Addresses are
what a secret derives at a path. RevealSecret's two reads, the keystore export,
monitors and seeds run beside it; the last two put their address into `owners`
when they write, `late` those of a wallet already replaced. `Serial` says that
the UI waits for one import before it starts another.

**HistorySync.** Calls of the three entry points, one goroutine per direction
(acquire, fetch, store the page, wait for its lookups), one per gas lookup, one
semaphore. A failing direction cancels the others; lookups survive it. Upsert
keeps what is there, as its ON CONFLICT clause does.

**HistoryPages.** A scroll is a sequence of page requests (SELECT, then count)
by offset over a table into which syncs store rows in any order; each page is
merged on its own, as `mergeSwapLegs` does, and appended by the UI. ORDER BY is
`Sorted`, the rows by their `Rank`, the number of rows that come before; a
group of `mergeSwapLegs` is `Group`. `PagesAssumption` says of the rows what the
table says: unique_id is unique, it and the timestamp are ordered.

**Notifications / EventBus.** `Notifications` has the table's statements and the
settings; `EventBus` the goroutines around it: producers that save (settings,
INSERT, prune, retention, sweep, each of which may fail) and then broadcast
channel by channel under the read lock; streams that subscribe and unsubscribe
under the write lock, list the table, read, and go away; the RPCs that change
the table; restarts with the startup sweep.

**Rpc / Contacts / TokenWatchlist / WatchedSet / UserTables.** `Rpc` has the
error chain and what interceptors and HandleError make of it; `Contacts` the
address book's calls on top of it; `TokenWatchlist` the look-then-insert calls of
the watchlist next to the user's edits, shown to implement `WatchedSet`, a set
changed by one contract at a time and emptied at once when the wallet is
replaced (`replaced` counts how often, so that no other step can pass for it).
`UserTables` composes them behind one server; its `WalletReset` is the one
transaction of `Storage.Reset` that empties both tables, whatever calls hold rows
of them.

**PriceFeed / Portfolio.** Get-or-fetch with a TTL, fetches that overlap, fail
or run into the HTTP timeout, and the stale entry they fall back to. `Portfolio`
composes the feed with `WatchedSet`: which key the token list asks for depends
on the list, which changes meanwhile.

**Swap.** ExecuteSwap as its steps -- quote, allowance, approval and its receipt,
swap and its receipt, the post-swap hook with its two look-ups and the sync --
next to RevokeApproval and the parallel allowance scan, on a chain that mines
the wallet's transactions in order, reverts them or drops them, over a pool
whose output moves. Amounts are small numbers; the router is external and does
what SwapRouter02's calls do to balances.

**Alerts / Startup / App.** `Alerts` has WatchBalance's poller, its channel and
the latch behind it, over wallet changes. `Startup` builds the process part by
part from a configuration. `App` extends both: the errgroup, the gRPC runner and
its server, the sweep, signals, and the order of closing.

## Runs

Passing runs (sizes are distinct states):

| Run | Shows | Bounds |
|---|---|---|
| `tx_watcher` | `AtMostOnce`, `NoSkip`: no hash is handled twice, and none leaves the window unhandled, whatever polls fail and however the head jumps | a swap of ours and a spam token, one transfer per page (so pages are full), window of 2 blocks, 5 blocks, 6 ticks: heads can jump a whole window and a deferral can expire; 472k |
| `send` | `DistinctNonces`: calls that took a nonce without a reset between them never share it; `StaleLeavesList`: an entry whose nonce is used leaves the list; `PreviewIsHonest`: the preview is of the transaction sent and says what happens to it, and what gas it takes; `CostShownCovers`: what must happen before the cost shown is exceeded; `ReplacementOutbids` | a previewed send of a token and a send of ether with the user's own fees, 1 replacement, a base fee that more than doubles (20 and 41, so that the cost shown is exceeded), a token balance that suffices and one that does not, gas that is and is not what the preview named (5 and 8), 1 move of any of them; 599k |
| `pending_store` | `RecentCovers`, `StampedStaysOut`, the refinement `KeepsContract`, and `Forgotten`: everything leaves the lookback in the end, also when its UPDATE failed | a sent transaction and a replacement, 2 crashes, failing statements; 57k |
| `wallet_lifecycle` | `RestartRestores`, `SecretFitsRecord`, `BackupsAgree`, `InheritsOnlyLate`, `MonitorsFollow` | 3 calls of the kinds of secret, one of them at a custom path, one at a time, 2 crashes, 1 reveal; 232k |
| `history_sync` | `SyncIsComplete`, `FeeIsKept`, `EverySyncEnds` | 2 calls, each routine or forced, that may overlap, 2 directions, 2 pages in one of them, 1 spam transfer, a single slot; 385k |
| `history_pages` | `ScrollIsFaithful`: a scroll shows every row it started with, and each once when nothing was stored meanwhile; `MergeKeepsLegs` | rows of a swap, of a three-leg transaction, of equal time and of another wallet, pages of two and three rows; 1.1M |
| `event_bus` | `NoSendOnClosed`, `PanelAgrees`: what a client listed and received misses no event but those a full channel dropped, and an id it received is of a stored row; `TableBounded`, `NobodyIsStuck`: emits return and streams that left end | 2 producers, 1 stream (a stream meets only producers, never another stream), a channel and a table of one entry so that both overflow, 2 events, 1 changing RPC, 1 restart; 514k |
| `user_tables` | `CallsCover`, `ImplementsWatchedSet`, `StatusIsTrue`, `UserEditsHold`: pins, hides and stars change only when the user changes them | 2 callers, 3 requests (create, then an update and a favorite that overlap) or imports of a wallet, 3 contracts of which 2 are known symbols, 2 edits; 1.5M |
| `portfolio` | `AnswersServe`: a price taken for fresh is no older than TTL and one fetch, and what was answered once is answered again | 2 readers, 3 calls, 2 contracts, a clock of 3 with a lifetime and a timeout of 1: entries expire during fetches and answers overtake each other, and the list is emptied under them; 4.4M |
| `swap` | `SettlesAsAsked`, `SecuredAllowance`, `ScreenIsHonest`, `RevokeHolds`, `SyncSeesLegs` | 2 RPCs at a time, 2 in all, ether and two tokens, one price move or removal, one retry; 471k |
| `app` | `AlertPerDip`, `PollersEnd`, `ShutdownEnds`: a process told to stop, or whose server died, exits; `DbOutlivesServer` | 4 polls around the threshold, a queue of one update so that it fills, 1 wallet change, 1 hanging request; 301k |

Each module also states its type invariant: the watcher's is checked by its run,
and those of the other modules with a behaviour of their own are proved.

A race here has two actors, so two of each kind suffice. The dedup set is too
large for `tx_watcher` to fill: eviction is what the theorem `OneEventPerHash`
is about. Deadlock checking is off where calls or counters are bounded and the
system may come to rest.

One run expects a violation, which `findings` in `PROJECT.json` quotes.
`swap_floor_ignored`: the UI computes the least amount out from the quote on its
screen and sends it as `amount_out_min`; ExecuteSwap never reads it and takes
half a per cent off a quote of its own. When the price falls between the two
quotes the swap goes through below the tolerance the screen promises.

Smaller disagreements and oddities met while modelling, without a run of their
own. Sending and fees:
- a failed broadcast resets the nonce counter under a call that still holds a
  nonce, and a third call is given the same one (`tx.go:95`); a call that fails
  after taking its nonce leaves the counter ahead of the node (`tx.go:56`);
- a caller that goes away takes its live transaction off the pending list
  (`pending.go:54`); the janitor's UPDATE can overtake a replacement's INSERT and
  the row stays while the process runs (`pending_store.go:89`);
- a speed-up raises the tip by a fifth and the cap by a tenth, so a tip above
  11/12 of its cap ends up above the new cap and is refused by every node; tips
  below 5 wei and caps below 10 wei do not rise at all (`replacement.go:83-90`; the condition is in
  `ReplacementOutbids`);
- the "upper bound on what the user pays" of a preview (`simulate.go:34-35`) is
  none without conditions: SendTx asks for fees and gas again (`gas.go:85`, `:94`),
  so with a tip of 10 and a base fee of 20 at the preview, 41 when SendTx asks and
  in the block, 51 are paid per unit of gas where 50 were shown; a
  transfer that takes more gas by then pays for it; and the preview ignores the
  user's own gas fields. `CostShownCovers` states what is left of the promise: on
  equal gas and without own fees, it takes a base fee more than doubled in the
  block and risen before SendTx asked;
- an Alchemy answer without `gasUsed` is shown as a success with no gas, at no
  cost (`simulate_alchemy.go:163`); `PreviewIsHonest` allows it on that path only.

Wallets and history:
- a mnemonic imported at a custom derivation path is another wallet after a
  restart (`usecase/wallet/usecase.go:108`): the record goes on showing the
  address at the custom path and the backend signs for the one at the default
  path; `RestartRestores` and `SecretFitsRecord` name this case as the only one;
- an import that fails between Reset and the record (`usecase/wallet/usecase.go:514-527`)
  leaves the previous wallet loaded and signing, with its tables and record gone;
- the old wallet's seed and monitors may write into the tables an import has
  emptied (`handler/grpc/wallet.go:108`); `InheritsOnlyLate` says that nothing
  else does;
- RevealSecret during an import may pair the old secret with the new record;
- GenerateWallet starts no token seed, the imports do; a failed balance read is
  shown as zero in the token list and left out of GetBalances;
- a SyncForce is skipped for a sync that is already past its last page
  (`history/usecase.go:235`); GetHistory and Sync never look at `syncing`, so
  they overlap with SyncForce (`history/usecase.go:88`).

Watcher: a one-legged swap whose deferral runs out after its block has left the
window is never notified (`watch_transactions.go:90`, `:172`); a swap of ours
into an unlisted token that the tracker has forgotten is dropped as spam
(`spam.go:25` says ours never are); a transfer to oneself is notified as a send
(`event.proto:52`); an approval moves no asset and is never notified
(`watch_transactions.go:23`).

Swaps: the approvals scan says it skips "dust-level" allowances, "some tokens leave
1 wei" (`approvals.go:91-92`), and skips only those that are not above zero
(`:93`): one of 1 wei is listed, and `ScreenIsHonest` has it on the screen as the
code does; a swap of an unwatched token that fails leaves an unlimited allowance
that the approvals screen does not list until the token is watched; the approval
of a cancelled swap that is still unmined when a revoke is sent may be mined
after it (excepted in `RevokeHolds`); `SwapRequest.Fee` documents 0 as "auto-detect" and gets
the 0.3% pool; `deadline_seconds` is ignored.

Elsewhere: CreateContact with an address that does not parse answers Internal;
an environment variable set to nothing loses to `.env` and still masks YAML
(`pkg/config`); a malformed catalog address panics in `MustAddress` although a
comment says it is caught (`init_infra.go`); `App.ShutdownTimeout` does not
reach the server, which has a timeout of its own; two tokens with one symbol
share a price (`price/adapter.go:220`).

Every property of a passing run has a mutant of the code's model that violates
it: a dropped increment, a cursor moved by a failed poll, a page taken for the
last one, a slot held to the end of its direction, a send without the lock, a
receipt whose status is not looked at, and so on (definitions marked "Mutant").

## Fairness

- `SendTx` and `Transfer`: the janitor ticks every ten seconds and gets some answers from the
  node (WF of `Prune`). Nothing is assumed of the node's mempool.
- `PendingStore`: time passes, gc and janitor timers fire, a call that began
  ends, a dead process is restarted (WF); a transaction does not stay in the
  mempool for ever, so a janitor that keeps listing it removes it (SF), which
  is an assumption about the network and not about the code.
- `WalletLifecycle`: the two polls of two seconds (WF).
- `HistorySync`: the runtime does not stand still while some goroutine can run
  (one WF over all of them); which goroutine gets a free slot is open.
- `EventBus`: a goroutine inside `emitAndPersist` goes on, and so does one that
  waits for the write lock, which Go's RWMutex does not starve (WF). No client is
  obliged to read, to connect or to leave.
- `App`: the runtime runs every runner, poller and closer that can go on, and the
  timer of the graceful stop fires (WF). Nothing is assumed of signals, streams
  or hanging handlers.
- `TxWatcher`, `HistoryPages`, `UserTables`, `Portfolio` and `Swap` are checked
  for safety only.

## Proofs

Every theorem holds for all values of the constants that meet the ASSUMEs of its
module: any number of transactions, calls, blocks, ticks, streams, callers and
crashes. Each comes from an inductive invariant that TLC checked first on the
bounds of the module's run. What the theorems say in one sentence each is under
`theorems` in `PROJECT.json`; here is why they hold.

- `MonitorProofs`: of the watcher, `TypeCorrect`, `OneEventPerHash` (`AtMostOnce`),
  `NothingIsSkipped` (`NoSkip`).
  AtMostOnce is not inductive: the dedup set forgets. `DedupInv` adds that a
  handled hash whose block the window can still reach is in the set with enough
  room behind it: the entries added after it, plus those of this tick still to
  come, stay below 2 * PageSize for each tick that can still return its block,
  of which there are at most Lookback + 1, since every completed tick moves the
  cursor by at least one block. That is where
  `CapAssumption`, Cap >= 2 * PageSize * (Lookback + 1), comes from; the code's
  512 >= 2 * 50 * (3 + 1) meets it.
  NoSkip speaks of blocks the windows have left; `ReachInv` says what a tick owes
  before its end makes it true: a block this tick is the last to reach lies
  Lookback blocks below the head it read, is indexed to its last leg
  (`LagAssumption`), and each of its transactions is handled, or is still to be
  walked and known whole, which is when shouldDefer cannot hold it back. It also
  needs that emittedSet never names a hash that was not handled.
  Of the application, `AppTypeCorrect`, `DatabaseOutlivesServer`
  (`DbOutlivesServer`) and `AlertsMatchDips` (`AlertPerDip`). The first of the
  two follows from `ClosingInv`: how far the shutdown has come tells whether the
  server serves, drains or has stopped, and a stream needs one of the first two.
  AlertPerDip compares what the poller saw with what the monitor raised, and
  between them lies a queue: `DipInv` counts the falls below the threshold that
  the queue, and an update blocked in front of it, will still bring, and says
  that nothing is owed beyond these but the one alert of a silent baseline that
  was already low. That one stays owed only while the monitor has seen no low
  balance, which is why it is made up for at most once.
- `SendTxProofs`: `SendTypeCorrect`, which needs that the node's pending nonce
  exists (a pigeonhole lemma on the finite pool), and `NoncesDistinct`
  (`DistinctNonces`) from `CounterInv`: the counter is above every nonce handed
  out since the last reset. Then, over `Transfer`, `TransferImplementsSend` (its
  steps are steps of SendTx or leave SendTx's state alone; of the fairness,
  which is about ENABLED, it says nothing), so `TransferNoncesDistinct`, `PreviewsAreHonest`, `CostsAreCovered` and
  `ReplacementsOutbid` from `TransferInv`: a transaction near the node was built
  from its form and changes no more, a preview shows what it was told, what it
  was told is still so while the chain stands still, and a replacement carries
  the bumped fees of an original that no longer changes. CostsAreCovered needs
  that the three moments a cost depends on are kept apart: `PricedInv` says that a
  priced call without own fees has the cap of the base fee it asked at, `PaidInv`
  that what a block charged is the gas it used at the price of its own base fee
  within that cap; either the cap is then at most the preview's, or the price in
  the block is, unless both base fees rose as the property says. The proof of the last
  found a case the run's fees do not reach: a cap below ten wei has a tenth of
  nothing, and the bump does not raise it.
- `PendingStoreProofs`: `StoreTypeCorrect`; `StampedNeverListed`
  (`StampedStaysOut`) from `RowInv`
  (a row exists only once its INSERT ran, which is after the memory part; a
  stamped row is never live again); `LookbackCovers` (`RecentCovers`) from
  `CoverInv` (in the table and in memory a stored transaction carries a stamp no
  older than its first Remove); and `StoreImplementsContract` (`KeepsContract`):
  under the mapping of `Status` every step is a step of `PendingContract` or
  leaves what readers see alone.
- `WalletLifecycleProofs`: `WalletTypeCorrect`, `ImportsAreDurable`
  (`RestartRestores`), `SecretsFit` (`SecretFitsRecord`), `BackupsRestore`
  (`BackupsAgree`), `OnlyLateWritesInherited` (`InheritsOnlyLate`), all under the
  hypothesis `Serial`: two imports that interleave do break them, and it is the
  UI that prevents it. `WalletInv` says how far the one import under way is tells what
  the keychain and the table hold; what the last import that returned has left in
  both, and in memory; that whoever has a record has its wallet loaded, from Load
  on or from the start that found it (`LoadedInv`, for imports that died between
  the record and the load); that the stored secret is revealed with the stored type;
  and who may still write from the wipe on. That the three imports and Generate share one order of writes is what
  makes it inductive.
- `HistoryProofs`: of the syncs, `HistoryTypeCorrect` (with the semaphore's bound: holders
  are a finite set of known size), `SyncsAreComplete` (`SyncIsComplete`) and
  `FeesAreKept` (`FeeIsKept`, an action property). SyncIsComplete is about the
  end of a sync; `SyncInv` is what every page keeps: all up to the cursor is
  stored or on the page in hand, and a direction that saw a short page has its
  cursor past all that was indexed when the sync began.
  Of the pages, `PagesTypeCorrect`, `ScrollsAreFaithful` (`ScrollIsFaithful`) and
  `MergingKeepsLegs` (`MergeKeepsLegs`), for pages of any length. What a
  concatenation of groups holds takes an induction, which the prover has no rule
  for; `FlattenExists` does it by least counterexample, and `LaidOut` is what it
  shows: each place of the result comes from one place of one group, and in
  order. With it a merged page shows each leg once (`MergeFacts`), as two groups
  share no hash and a hash has one first row. `RankFacts` is where the order has
  to be total: two rows of one timestamp are told apart by unique_id, so a rank
  has one row, OFFSET and LIMIT cut consecutive ranks (`PageFacts`), and a row
  stored later can only raise a rank (`RankGrows`). `ScrollInv` then says what is
  on the screen in the middle of a scroll: what the cursor has passed of the rows
  it started with, once each if the wallet's rows are still the same, and all of
  them after a page that was not full.
- `EventBusProofs`: `BusTypeCorrect`, `TableStaysBounded` (`TableBounded`),
  `NothingSentOnClosed` (`NoSendOnClosed`), `PanelsAgree` (`PanelAgrees`). The
  lock's discipline becomes `LoopsOpen`: the list of subscribers holds each open
  channel once and no closed one, and what an emit loop has before it is open and
  stays so while the loop reads. PanelAgrees needs `StampsOrdered`
  besides: ids and days come in one order, so a prune by age and a prune by count
  both delete the oldest, and `StreamSound`: what the panel lists is known to its
  client, dropped from its channel, in it, or in a loop that has not passed it.
- `SwapProofs`: `SwapTypeCorrect`, `SwapsSettleAsAsked` (`SettlesAsAsked`),
  `AllowancesAreSecured`, `RevokesHold`, `ScreensAreHonest`, `SyncsSeeLegs`, all
  from `SwapInv`. Its core is `TxInv`: a transaction in the mempool is the only
  one of its call, says what the call asked for, and its call is waiting for it
  or has given up. On top of it, per property: `PaidInv`, `SecureInv`,
  `RevokeInv` (nothing that grants is behind a revoke in nonce order, and no swap
  of the token is under way), `SyncInv`, `ScreenInv` (what was granted
  throughout a scan is found, unreadable, or still to be read). `SwapAssumption`
  takes the units of an amount entered for at most MaxUint256, as balances of
  tokens are; amounts above it are not modelled.
- `TablesProofs`: `WatchlistTypeCorrect`, `CallsAreCovered` (`CallsCover`),
  `StatusesAreTrue` (`StatusIsTrue`), `UserEditsStay` (`UserEditsHold`, an action
  property) and `WatchlistImplementsSet` (`ImplementsWatchedSet`, a refinement:
  the set of contracts of the rows, and the wipes of the table). `TablesInv` keeps rows unique and ids never
  reused, so that an id a call holds over somebody's edits names the row of its
  own contract or none; and that a call remembers having seen each contract it
  will no longer add.
  Over `Portfolio`, `PortfolioTypeCorrect` and `AnswersAreServed`
  (`AnswersServe`, an action property) from `FeedInv`: an entry of the cache,
  whichever of two racing answers it holds, expires at most TTL and a fetch after
  what it holds was sampled; a key has one entry, and one that was ever stored
  keeps it, since nobody calls Purge or Delete; a fetch under way is no older than
  the client's timeout.

Every safety and action property that a passing run checks is proved. Only
model-checked are the liveness properties (`StaleLeavesList`, `Forgotten`,
`MonitorsFollow`, `EverySyncEnds`, `NobodyIsStuck`, `ShutdownEnds`,
`PollersEnd`), since fairness and ENABLED are beyond the prover, and the
violation of `swap_floor_ignored`, which is a counterexample.

## Not modelled

Cryptography and the keychain's internals (derivation is an injective function,
the keychain one cell); ENS names, token metadata and logos; decoding of JSON and
mapping of messages; SQL set-up and migrations; logging; the gas alert's
arithmetic, a floating-point comparison of one goroutine with itself; the UI,
which presents what the backend returns. Several processes on one database are
not considered: the app starts one backend. A page that is full is modelled, but
what it leaves out is exempt from `NoSkip`: the watcher asks for one page only.
Swap does not run on top of SendTx: its transactions are in nonce order, and
what a nonce conflict does is SendTx's subject.

## Plan

Done: the modules above, and the theorems about every safety property. Next:

1. `PendingTracker`, the in-memory store, as a second implementation of
   `PendingContract`.
2. `Swap` over `SendTx`: two RPCs of one wallet that race for nonces.
