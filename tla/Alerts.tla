------------------------------ MODULE Alerts -------------------------------
(***************************************************************************)
(* The balance and gas alerts of the watcher: ethkit's WatchBalance polls  *)
(* and queues changes, watchBalanceForLowAlert consumes them behind a      *)
(* latch.  watchGas is here only as a goroutine that must end.             *)
(*                                                                         *)
(* A failed poll changes nothing in either loop and is not a step.         *)
(* runAddressMonitors cancels the monitors of a replaced wallet and starts *)
(* new ones once they have returned.  App has the context of them all.     *)
(***************************************************************************)
EXTENDS Integers, Sequences

CONSTANTS
  Balance,     \* balances a poll may return, in units of half the threshold
  Threshold,   \* lowBalanceThresholdETH in these units
  UpdatesCap,  \* capacity of the updates channel, 8
  MaxPolls,    \* bound on balance polls
  MaxReplaced  \* bound on wallet replacements

ASSUME AlertAssumption ==
  /\ Balance \subseteq Nat /\ Threshold \in Nat
  /\ UpdatesCap \in Nat \ {0} /\ MaxPolls \in Nat /\ MaxReplaced \in Nat

VARIABLES
  loop,      \* runAddressMonitors: waiting for a wallet, watching, unwinding, off
  pair,      \* the balance monitor of the loaded wallet and its poller
  strays,    \* the pollers of pairs whose monitor has returned
  txLoop,    \* watchTransactions of the loaded wallet is running
  gasLoop,   \* watchGas is running
  polls,     \* history: balance polls so far
  replaced   \* history: wallet replacements so far

pairVars == <<loop, pair, strays, txLoop, replaced>>
alertVars == <<pairVars, gasLoop, polls>>

\* poller is WatchBalance's goroutine: polling, sending (blocked on the
\* channel) or off; prev its last balance, -1 before the silent baseline;
\* monitor and latched are watchBalanceForLowAlert; cancelled is monCtx.
\* History: alerts raised; dips, the times the polled balance became low,
\* the baseline included; lowBase, the baseline was low.
Pair == [poller : {"polling", "sending", "off"}, prev : Balance \cup {-1},
         updates : Seq(Balance), monitor : BOOLEAN, latched : BOOLEAN,
         cancelled : BOOLEAN, alerts : Nat, dips : Nat, lowBase : BOOLEAN]

\* A pair as runAddressMonitors starts it, and none.
FreshPair == [poller |-> "polling", prev |-> -1, updates |-> <<>>, monitor |-> TRUE,
              latched |-> FALSE, cancelled |-> FALSE, alerts |-> 0, dips |-> 0,
              lowBase |-> FALSE]
NoPair == [FreshPair EXCEPT !.poller = "off", !.monitor = FALSE, !.cancelled = TRUE]

Low(b) == b >= 0 /\ b < Threshold

AlertTypeOK ==
  /\ loop \in {"waiting", "watching", "unwinding", "off"}
  /\ pair \in Pair /\ Len(pair.updates) <= UpdatesCap
  /\ strays \subseteq [poller : {"polling", "sending"}, cancelled : {TRUE}]
  /\ txLoop \in BOOLEAN /\ gasLoop \in BOOLEAN
  /\ polls \in 0..MaxPolls /\ replaced \in 0..MaxReplaced

AlertInit ==
  /\ loop = "off" /\ pair = NoPair /\ strays = {} /\ txLoop = FALSE
  /\ gasLoop = FALSE
  /\ polls = 0 /\ replaced = 0

-----------------------------------------------------------------------------
(* WatchBalance. *)

\* One tick that got an answer: the first is a silent baseline, one that
\* finds no change is dropped, any other goes out on the channel.
PollBalance(b) ==
  /\ pair.poller = "polling" /\ polls < MaxPolls
  /\ pair' = [pair EXCEPT
       !.prev = b,
       !.poller = IF pair.prev \in {-1, b} THEN "polling" ELSE "sending",
       !.dips = @ + (IF Low(b) /\ ~Low(pair.prev) THEN 1 ELSE 0),
       !.lowBase = IF pair.prev = -1 THEN Low(b) ELSE @]
  /\ polls' = polls + 1
  /\ UNCHANGED <<loop, strays, txLoop, replaced, gasLoop>>

Room(p) == Len(p.updates) < UpdatesCap

\* updates <- BalanceUpdate{...}
SendUpdate ==
  /\ pair.poller = "sending" /\ Room(pair)
  /\ pair' = [pair EXCEPT !.updates = Append(@, pair.prev), !.poller = "polling"]
  /\ UNCHANGED <<loop, strays, txLoop, replaced, gasLoop, polls>>

\* Mutant: the send does not select on ctx.Done.
CanStopOnTick(p) == p.cancelled /\ p.poller = "polling"

\* <-ctx.Done() in either select; the channel is closed.
CanStop(p) == p.cancelled /\ p.poller # "off"

StopPoller ==
  /\ CanStop(pair)
  /\ pair' = [pair EXCEPT !.poller = "off"]
  /\ UNCHANGED <<loop, strays, txLoop, replaced, gasLoop, polls>>

StopStray ==
  /\ \E p \in strays : CanStop(p) /\ strays' = strays \ {p}
  /\ UNCHANGED <<loop, pair, txLoop, replaced, gasLoop, polls>>

-----------------------------------------------------------------------------
(* watchBalanceForLowAlert and runAddressMonitors. *)

\* Mutant: the latch is never released.
LatchForever(low) == pair.latched \/ low

\* The latch after an update.
Latch(low) == low

TakeUpdate ==
  /\ pair.monitor /\ pair.updates # <<>>
  /\ LET low == Low(Head(pair.updates)) IN
       pair' = [pair EXCEPT !.updates = Tail(@), !.latched = Latch(low),
                            !.alerts = IF low /\ ~pair.latched THEN @ + 1 ELSE @]
  /\ UNCHANGED <<loop, strays, txLoop, replaced, gasLoop, polls>>

\* <-ctx.Done(); the channel is closed by a cancelled poller only.
StopMonitor ==
  /\ pair.monitor /\ pair.cancelled
  /\ pair' = [NoPair EXCEPT !.poller = pair.poller, !.updates = pair.updates, !.prev = pair.prev]
  /\ UNCHANGED <<loop, strays, txLoop, replaced, gasLoop, polls>>

StopTxLoop ==
  /\ txLoop /\ pair.cancelled
  /\ txLoop' = FALSE
  /\ UNCHANGED <<loop, pair, strays, replaced, gasLoop, polls>>

\* waitForWallet: a wallet is there, or the context ends.
WaitForWallet(done) ==
  /\ loop = "waiting"
  /\ \/ loop' = "watching" /\ pair' = FreshPair /\ txLoop' = TRUE
     \/ done /\ loop' = "off" /\ UNCHANGED <<pair, txLoop>>
  /\ UNCHANGED <<strays, replaced, gasLoop, polls>>

\* waitForAddressChange returns, and the pair's context is cancelled.
CancelMonitors(done) ==
  /\ loop = "watching"
  /\ \/ done /\ UNCHANGED replaced
     \/ replaced < MaxReplaced /\ replaced' = replaced + 1
  /\ loop' = "unwinding"
  /\ pair' = [pair EXCEPT !.cancelled = TRUE]
  /\ UNCHANGED <<strays, txLoop, gasLoop, polls>>

\* What is left of a pair whose monitor has returned.
Stray(p) == [poller |-> p.poller, cancelled |-> TRUE]

\* mwg.Wait: both monitors have returned.  The poller is not waited for.
MonitorsEnd(done) ==
  /\ loop = "unwinding" /\ ~pair.monitor /\ ~txLoop
  /\ strays' = IF pair.poller = "off" THEN strays ELSE strays \cup {Stray(pair)}
  /\ pair' = NoPair
  /\ loop' = IF done THEN "off" ELSE "waiting"
  /\ UNCHANGED <<txLoop, replaced, gasLoop, polls>>

-----------------------------------------------------------------------------
(* watchGas.  Its alerts are events of EventBus; here it is a goroutine    *)
(* that must end.                                                          *)

StopGas(done) ==
  /\ gasLoop /\ done
  /\ gasLoop' = FALSE
  /\ UNCHANGED <<pairVars, polls>>

-----------------------------------------------------------------------------
(* A pair raises at most one alert for each time the polled balance fell   *)
(* below the threshold, and once its queue is drained it has raised one    *)
(* for each, but for a silent baseline that was already low.               *)
AlertPerDip ==
  /\ pair.alerts <= pair.dips
  /\ pair.poller = "polling" /\ pair.updates = <<>> /\ pair.monitor =>
       pair.alerts >= pair.dips - (IF pair.lowBase THEN 1 ELSE 0)
=============================================================================
