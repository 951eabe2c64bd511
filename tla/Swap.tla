-------------------------------- MODULE Swap --------------------------------
(***************************************************************************)
(* Swaps and allowances: ExecuteSwap (handler, usecase/swap, pkg/ethkit)   *)
(* next to RevokeApproval and ListApprovals, over a pool whose price moves *)
(* and a chain that mines the wallet's transactions in nonce order (SendTx *)
(* models how they get their nonces).                                      *)
(*                                                                         *)
(* Amounts are small numbers of the token's smallest unit; MaxUint256      *)
(* stands for the unlimited allowance.  The user enters tenths of it, so   *)
(* that an entry may have more decimals than the token.                    *)
(***************************************************************************)
EXTENDS Naturals, Sequences, FiniteSets

CONSTANTS
  ERC20,       \* token contracts, Wrapped among them
  Wrapped,     \* Network.UniswapWrappedETH, whose symbol is WETH
  Native,      \* the token with the zero address
  Router,      \* Network.UniswapSwapRouter02, one of KnownDEXSpenders
  Spender,     \* KnownDEXSpenders
  Caller,      \* RPCs in flight
  Entry,       \* amounts the user enters, in tenths of the smallest unit
  Output,      \* what the pool pays for a swap, as its price moves
  Opening,     \* what it pays at first
  Asked,       \* the pairs of tokens the user asks to swap
  MaxUint256,
  MaxRetries,  \* of the retrier
  MaxCalls, MaxMoves  \* bounds on RPCs, and on price moves and removals

ASSUME SwapAssumption ==
  /\ Wrapped \in ERC20 /\ Native \notin ERC20 /\ Router \in Spender
  /\ Entry \subseteq Nat /\ Output \subseteq Nat /\ Opening \in Output
  /\ Asked \subseteq (ERC20 \cup {Native}) \X (ERC20 \cup {Native})
  /\ \A entered \in Entry : entered \div 10 <= MaxUint256  \* no token has more units
  /\ MaxUint256 \in Nat \ {0} /\ MaxRetries \in Nat /\ MaxCalls \in Nat /\ MaxMoves \in Nat

Token == ERC20 \cup {Native}

VARIABLES
  loaded,     \* the wallet usecase holds a wallet
  watched,    \* contracts on the watchlist
  allowance,  \* on chain: what a spender may pull
  pool,       \* on chain: what a swap would be paid now
  held,       \* on chain: wrapped ether the router was left with
  mempool,    \* the wallet's transactions, in nonce order
  call,       \* RPCs
  calls, moves,  \* history: what the bounds count
  trace       \* history: per RPC, what the properties look back at

vars == <<loaded, watched, allowance, pool, held, mempool, call, calls, moves, trace>>

Pair == ERC20 \X Spender

\* SwapRequest and the request of Revoke; floor is MinAmountOut, got the pairs
\* a scan has answers of.
Call ==
  [op : {"none", "swap", "revoke", "list"},
   pc : {"idle", "start", "quote", "allowance", "approve", "approving", "send", "swapping",
         "ensureIn", "ensureOut", "sync", "revoking", "scan", "ok", "failed"},
   in : Token, out : Token, spender : Spender, amount : Nat, quote : Nat, floor : Nat,
   attempt : 0..MaxRetries, todo : SUBSET Pair, got : SUBSET Pair]
NoCall ==
  [op |-> "none", pc |-> "idle", in |-> Native, out |-> Native, spender |-> Router,
   amount |-> 0, quote |-> 0, floor |-> 0, attempt |-> 0, todo |-> {}, got |-> {}]

(***************************************************************************)
(* entered, shown: the amount and the quote on the user's screen; paid:    *)
(* what the swap moved; beaten: another RPC lowered the allowance since    *)
(* the check; revoked: the revoke was sent while no swap of the token was  *)
(* under way and none has been begun since, and whether it is mined;       *)
(* lapsed: legs that are not on the watchlist through no fault of the RPC; *)
(* synced: what SyncForce was given; was, still: pairs with an allowance   *)
(* at some moment, at every moment of a scan; unread: pairs whose read     *)
(* failed.                                                                 *)
(***************************************************************************)
NoTrace ==
  [entered |-> 0, shown |-> 0, paid |-> {}, beaten |-> FALSE, revoked |-> "no",
   lapsed |-> {}, synced |-> {}, was |-> {}, still |-> {}, unread |-> {}]

Granted == {p \in Pair : allowance[p] > 0}

-----------------------------------------------------------------------------
(* Amounts. *)

\* NewAmountFromTokenUnits: decimals the token does not have are cut off.
NewAmountFromTokenUnits(entered) == entered \div 10

\* Mutant: 50 is taken for per mille.
SlippageAmountPerMille(out, bps) == (out * (1000 - bps)) \div 1000

SlippageAmount(out, bps) == (out * (10000 - bps)) \div 10000
SlippageBps == 50

\* What ensureAllowance approves.
maxUint256 == MaxUint256

-----------------------------------------------------------------------------
(* The chain. *)

Approve(c, token, spender, amount) ==
  [kind |-> "approve", by |-> c, token |-> token, spender |-> spender, amount |-> amount]

\* resolveSwapAddresses.
AddressOf(token) == IF token = Native THEN Wrapped ELSE token

\* The transaction Client.Swap builds.
SwapTx(c) ==
  [kind |-> "swap", by |-> c, in |-> AddressOf(call[c].in), out |-> AddressOf(call[c].out),
   value |-> IF call[c].in = Native THEN call[c].amount ELSE 0,
   amount |-> call[c].amount, floor |-> call[c].floor,
   recipient |-> IF call[c].out = Native THEN "router" ELSE "wallet",
   unwrap |-> call[c].out = Native]

\* The router pulls with transferFrom unless the input came with the call.
Pulls(tx) == tx.value = 0
Allowed(tx) == Pulls(tx) => allowance[<<tx.in, Router>>] >= tx.amount

\* exactInputSingle and, in the same transaction, unwrapWETH9.
Executes(tx) == Allowed(tx) /\ pool >= tx.floor /\ (tx.unwrap => held + pool >= tx.floor)

Settled(tx) ==
  [taken |-> IF Pulls(tx) THEN tx.in ELSE Native, amount |-> tx.amount,
   asset |-> IF tx.unwrap THEN Native ELSE tx.out,
   paid |-> IF tx.unwrap THEN held + pool ELSE IF tx.recipient = "wallet" THEN pool ELSE 0]

\* A token may or may not count an unlimited allowance down.
AfterPull(p, amount) ==
  {allowance[p] - amount} \cup IF allowance[p] = MaxUint256 THEN {MaxUint256} ELSE {}

Beaten(c, p) ==
  [d \in Caller |->
     IF d # c /\ call[d].pc \in {"approve", "approving", "send"} /\ call[d].in = p[1]
     THEN [trace[d] EXCEPT !.beaten = TRUE] ELSE trace[d]]

\* What the scans under way have seen granted.
Scanned(t) ==
  [d \in Caller |->
     IF call[d].pc = "scan"
     THEN [t[d] EXCEPT !.was = @ \cup {p \in Pair : allowance'[p] > 0},
                       !.still = @ \cap {p \in Pair : allowance'[p] > 0}]
     ELSE t[d]]

\* A revoke that was sent alone is mined.
Revoked(t, c) ==
  [t EXCEPT ![c].revoked = IF @ = "sent" THEN "holds" ELSE @]

Waiting(c) == call[c].pc \in {"approving", "swapping", "revoking"}
Mined == Head(mempool)
Drop == mempool' = Tail(mempool)

\* The RPC that waits for the receipt sees its status.
Receipt(c, there) ==
  call' = IF Waiting(c) THEN [call EXCEPT ![c].pc = there] ELSE call

MineApprove ==
  /\ mempool # <<>> /\ Mined.kind = "approve" /\ Drop
  /\ LET p == <<Mined.token, Mined.spender>> IN
       /\ allowance' = [allowance EXCEPT ![p] = Mined.amount]
       /\ trace' = Scanned(Revoked(IF Mined.amount < allowance[p] THEN Beaten(Mined.by, p) ELSE trace,
                                    Mined.by))
  /\ Receipt(Mined.by, IF call[Mined.by].op = "swap" THEN "send" ELSE "ok")
  /\ UNCHANGED <<loaded, watched, pool, held, calls, moves>>

MineSwap ==
  /\ mempool # <<>> /\ Mined.kind = "swap" /\ Executes(Mined) /\ Drop
  /\ LET p == <<Mined.in, Router>>
         t == IF Pulls(Mined) THEN Beaten(Mined.by, p) ELSE trace IN
       /\ \E left \in IF Pulls(Mined) THEN AfterPull(p, Mined.amount) ELSE {allowance[p]} :
            allowance' = [allowance EXCEPT ![p] = left]
       /\ trace' = Scanned([t EXCEPT ![Mined.by].paid = {Settled(Mined)}])
  /\ held' = IF Mined.unwrap THEN 0 ELSE IF Mined.recipient = "router" THEN held + pool ELSE held
  /\ Receipt(Mined.by, "ensureIn")
  /\ UNCHANGED <<loaded, watched, pool, calls, moves>>

\* Mutant: ensureAllowance does not look at the status of the receipt.
ApproveRevertsUnseen(c) == "send"

ApproveReverts(c) == "failed"

\* Status 0: an approval the token refuses, a swap that no longer executes.
\* Execute returns the receipt of a reverted swap without an error.
MineReverts ==
  /\ mempool # <<>> /\ (Mined.kind = "swap" => ~Executes(Mined)) /\ Drop
  /\ LET c == Mined.by IN
       Receipt(c, IF Mined.kind = "swap" THEN "ensureIn"
                  ELSE IF call[c].op = "swap" THEN ApproveReverts(c) ELSE "ok")
  /\ UNCHANGED <<loaded, watched, allowance, pool, held, calls, moves, trace>>

\* The price moves.
Move ==
  /\ moves < MaxMoves /\ moves' = moves + 1
  /\ pool' \in Output \ {pool}
  /\ UNCHANGED <<loaded, watched, allowance, held, mempool, call, calls, trace>>

-----------------------------------------------------------------------------
(* RPCs. *)

chain == <<allowance, pool, held>>
others == <<loaded, watched, chain, calls, moves>>

At(c, here) == call[c].pc = here
Goto(c, there) == call' = [call EXCEPT ![c].pc = there, ![c].attempt = 0]

\* retryx.Do: again, until the attempts are used up or the context ends.
Retry(c) ==
  \/ call[c].attempt < MaxRetries /\ call' = [call EXCEPT ![c].attempt = @ + 1]
  \/ Goto(c, "failed")

\* The context of the RPC ends while it waits for a receipt.
Cancelled(c) == Waiting(c) /\ Goto(c, "failed") /\ UNCHANGED <<others, mempool, trace>>

\* A swap ends the time for which a revoke of its token speaks.
Reopened(request) ==
  [d \in Caller |->
     IF request.op = "swap" /\ request.in = call[d].in
     THEN [trace[d] EXCEPT !.revoked = "no"] ELSE trace[d]]

Begin(c, request, t) ==
  /\ call[c].pc \in {"idle", "ok", "failed"} /\ calls < MaxCalls
  /\ calls' = calls + 1
  /\ \A i \in DOMAIN mempool : mempool[i].by # c
  /\ call' = [call EXCEPT ![c] = request]
  /\ trace' = [Reopened(request) EXCEPT ![c] = t]
  /\ UNCHANGED <<loaded, watched, chain, mempool, moves>>

\* The QuoteSwap RPC, whose answer the screen shows.
ShownQuote == pool

(***************************************************************************)
(* ExecuteSwap, on a screen that shows the output of an earlier quote.     *)
(***************************************************************************)
ExecuteSwap(c) ==
  \E p \in Asked, entered \in Entry :
    Begin(c, [NoCall EXCEPT !.op = "swap", !.pc = "start", !.in = p[1], !.out = p[2],
                            !.amount = NewAmountFromTokenUnits(entered)],
             [NoTrace EXCEPT !.entered = entered, !.shown = ShownQuote])

\* Two native legs pass.
validateSwapPair(in, out) ==
  /\ {in, out} # {Native, Wrapped}
  /\ in # out \/ in = Native

\* ResolveToken, the parser of the amount and Execute up to the quote: the
\* metadata of a token may be out of reach, the entry no number.
Start(c) ==
  /\ At(c, "start") /\ call[c].op = "swap"
  /\ \/ loaded /\ validateSwapPair(call[c].in, call[c].out) /\ Goto(c, "quote")
     \/ Goto(c, "failed")
  /\ UNCHANGED <<others, mempool, trace>>

\* Execute takes a quote of its own.  QuoteSwap refuses equal addresses, the
\* quoter an amount of zero.
QuoteSwap(c) ==
  /\ At(c, "quote")
  /\ \/ /\ AddressOf(call[c].in) # AddressOf(call[c].out) /\ call[c].amount > 0
        /\ call' = [call EXCEPT ![c].quote = pool,
                                ![c].floor = SlippageAmount(pool, SlippageBps),
                                ![c].pc = IF call[c].in = Native THEN "send" ELSE "allowance",
                                ![c].attempt = 0]
     \/ Retry(c)
  /\ UNCHANGED <<others, mempool, trace>>

\* ensureAllowance: one approve of everything, waited for.
ensureAllowance(c) ==
  /\ At(c, "allowance")
  /\ \/ /\ Goto(c, IF allowance[<<call[c].in, Router>>] >= call[c].amount THEN "send" ELSE "approve")
        /\ trace' = [trace EXCEPT ![c].beaten = FALSE]
     \/ Retry(c) /\ UNCHANGED trace
  /\ UNCHANGED <<others, mempool>>

\* SendTx: the transaction is in the mempool, or the RPC has failed.
SendTx(c, tx, there) ==
  /\ \/ mempool' = Append(mempool, tx) /\ Goto(c, there)
     \/ UNCHANGED mempool /\ Goto(c, "failed")
  /\ UNCHANGED others

ApproveToken(c) ==
  /\ At(c, "approve") /\ SendTx(c, Approve(c, call[c].in, Router, maxUint256), "approving")
  /\ UNCHANGED trace

\* GasEstimate runs the transaction on the current state: what would revert
\* is not sent.
SendSwap(c) ==
  /\ At(c, "send")
  /\ IF Executes(SwapTx(c)) THEN SendTx(c, SwapTx(c), "swapping")
     ELSE Goto(c, "failed") /\ UNCHANGED <<others, mempool>>
  /\ UNCHANGED trace

-----------------------------------------------------------------------------
(* ensureSwapTokensWatchedAndSync, detached from the RPC. *)

Legs(c) == {call[c].in, call[c].out} \ {Native}

\* Mutant: only the token received is put on the watchlist.
EnsureInSkipped(c) ==
  /\ At(c, "ensureIn") /\ Goto(c, "ensureOut")
  /\ UNCHANGED <<others, mempool, trace>>

Ensure(c, leg) ==
  \/ watched' = watched \cup ({leg} \ {Native}) /\ UNCHANGED trace
  \/ UNCHANGED watched /\ trace' = [trace EXCEPT ![c].lapsed = @ \cup {leg}]

EnsureIn(c) ==
  /\ At(c, "ensureIn") /\ Goto(c, "ensureOut") /\ Ensure(c, call[c].in)
  /\ UNCHANGED <<loaded, chain, calls, moves, mempool>>

EnsureOut(c) ==
  /\ At(c, "ensureOut") /\ Goto(c, "sync") /\ Ensure(c, call[c].out)
  /\ UNCHANGED <<loaded, chain, calls, moves, mempool>>

\* SyncForce with the watchlist, or with nothing when List fails.
SyncForce(c) ==
  /\ At(c, "sync") /\ Goto(c, "ok")
  /\ \/ trace' = [trace EXCEPT ![c].synced = watched]
     \/ trace' = [trace EXCEPT ![c].lapsed = Token]
  /\ UNCHANGED <<others, mempool>>

-----------------------------------------------------------------------------
(* Approvals. *)

RevokeApproval(c) ==
  \E t \in ERC20, s \in Spender :
    Begin(c, [NoCall EXCEPT !.op = "revoke", !.pc = "start", !.in = t, !.spender = s], NoTrace)

SwapUnderWay(t) ==
  \E d \in Caller : call[d].op = "swap" /\ call[d].in = t /\ call[d].pc \notin {"ok", "failed"}
Alone(c) ==
  trace' = [trace EXCEPT ![c].revoked = IF SwapUnderWay(call[c].in) THEN "no" ELSE "sent"]

\* Mutant: the revoke approves the amount a swap would.
RevokeOfAll(c) ==
  /\ At(c, "start") /\ call[c].op = "revoke"
  /\ loaded /\ call[c].in \in watched
  /\ SendTx(c, Approve(c, call[c].in, call[c].spender, maxUint256), "revoking") /\ Alone(c)

\* A token that is not on the watchlist is NotFound.
Revoke(c) ==
  /\ At(c, "start") /\ call[c].op = "revoke"
  /\ IF loaded /\ call[c].in \in watched
     THEN SendTx(c, Approve(c, call[c].in, call[c].spender, 0), "revoking") /\ Alone(c)
     ELSE Goto(c, "failed") /\ UNCHANGED <<others, mempool, trace>>

\* The approvals screen: every pair is read by a goroutine of its own.
ListApprovals(c) ==
  \E there \in {"failed"} \cup IF loaded THEN {"scan"} ELSE {} :
    Begin(c, [NoCall EXCEPT !.op = "list", !.pc = there, !.todo = watched \X Spender],
             [NoTrace EXCEPT !.was = Granted, !.still = Granted \cap (watched \X Spender)])

\* Mutant: the loop over the answers ends at the first error.
ScanStops(c) ==
  /\ At(c, "scan") /\ call[c].todo # {}
  /\ \E p \in call[c].todo :
       \/ call' = [call EXCEPT ![c].todo = @ \ {p},
                               ![c].got = IF allowance[p] > 0 THEN @ \cup {p} ELSE @]
          /\ UNCHANGED trace
       \/ /\ call' = [call EXCEPT ![c].todo = {}]
          /\ trace' = [trace EXCEPT ![c].unread = @ \cup {p}]
  /\ UNCHANGED <<others, mempool>>

\* A pair whose read fails, all retries included, is left out.
Scan(c) ==
  /\ At(c, "scan") /\ call[c].todo # {}
  /\ \E p \in call[c].todo :
       \/ call' = [call EXCEPT ![c].todo = @ \ {p},
                               ![c].got = IF allowance[p] > 0 THEN @ \cup {p} ELSE @]
          /\ UNCHANGED trace
       \/ /\ call' = [call EXCEPT ![c].todo = @ \ {p}]
          /\ trace' = [trace EXCEPT ![c].unread = @ \cup {p}]
  /\ UNCHANGED <<others, mempool>>

ScanDone(c) ==
  /\ At(c, "scan") /\ call[c].todo = {} /\ Goto(c, "ok")
  /\ UNCHANGED <<others, mempool, trace>>

-----------------------------------------------------------------------------
(* The user removes a token, or imports the wallet. *)

RemoveToken(t) ==
  /\ moves < MaxMoves /\ moves' = moves + 1
  /\ t \in watched /\ watched' = watched \ {t}
  /\ trace' = [c \in Caller |->
       IF At(c, "ensureOut") \/ At(c, "sync") THEN [trace[c] EXCEPT !.lapsed = @ \cup {t}]
       ELSE trace[c]]
  /\ UNCHANGED <<loaded, chain, mempool, call, calls>>

\* persistWallet, which empties the watchlist.  A wallet may be replaced later
\* (WalletLifecycle) but is never unloaded.
ImportWallet ==
  /\ ~loaded /\ loaded' = TRUE /\ watched' = {}
  /\ UNCHANGED <<chain, mempool, call, calls, moves, trace>>

-----------------------------------------------------------------------------
\* Another application may have left a small allowance of a token on the
\* watchlist, which does not have wrapped ether yet.
Init ==
  /\ loaded \in BOOLEAN
  /\ watched = ERC20 \ {Wrapped}
  /\ allowance \in [Pair -> {0, 1}]
  /\ \A p \in Granted : p[1] # Wrapped
  /\ pool = Opening
  /\ held = 0 /\ mempool = <<>>
  /\ call = [c \in Caller |-> NoCall]
  /\ calls = 0 /\ moves = 0
  /\ trace = [c \in Caller |-> NoTrace]

Mine == MineApprove \/ MineSwap \/ MineReverts

\* What a goroutine of the program does by itself.
Step(c) ==
  \/ Start(c) \/ QuoteSwap(c) \/ ensureAllowance(c)
  \/ ApproveToken(c) \/ SendSwap(c)
  \/ EnsureIn(c) \/ EnsureOut(c) \/ SyncForce(c)
  \/ Revoke(c) \/ Scan(c) \/ ScanDone(c)

Next ==
  \/ Mine \/ Move \/ ImportWallet
  \/ \E t \in ERC20 : RemoveToken(t)
  \/ \E c \in Caller :
       ExecuteSwap(c) \/ RevokeApproval(c) \/ ListApprovals(c) \/ Cancelled(c) \/ Step(c)

Spec == Init /\ [][Next]_vars

-----------------------------------------------------------------------------
(* Properties. *)

\* Variables have their types; an approval is in flight for one RPC at most.
TypeOK ==
  /\ loaded \in BOOLEAN /\ watched \subseteq ERC20
  /\ allowance \in [Pair -> 0..MaxUint256]
  /\ pool \in Output /\ held \in Nat
  /\ call \in [Caller -> Call]
  /\ calls \in 0..MaxCalls /\ moves \in 0..MaxMoves
  /\ \A i, j \in DOMAIN mempool : mempool[i].by = mempool[j].by => i >= j

(***************************************************************************)
(* A swap that went through took from the wallet the token asked for and   *)
(* no more than was entered, and paid the token asked for (ether, when     *)
(* ether was) in at least the quoted amount less half a per cent, rounded  *)
(* down; the router is left with nothing.  The price moves between the     *)
(* quote, the approval and the swap.                                       *)
(***************************************************************************)
SettlesAsAsked ==
  /\ held = 0
  /\ \A c \in Caller : \A s \in trace[c].paid :
       /\ s.taken = call[c].in /\ 10 * s.amount <= trace[c].entered
       /\ s.asset = call[c].out
       /\ (s.paid + 1) * 10000 > call[c].quote * (10000 - SlippageBps)

(***************************************************************************)
(* "Your swap reverts if the output falls below this tolerance."           *)
(* (quote_card.dart:125): the tolerance on the screen is taken off the     *)
(* quote on the screen.                                                    *)
(***************************************************************************)
FloorAsShown ==
  \A c \in Caller : \A s \in trace[c].paid :
    (s.paid + 1) * 10000 > trace[c].shown * (10000 - SlippageBps)

(***************************************************************************)
(* A swap finds the router without the allowance ensureAllowance has       *)
(* secured only when another RPC has lowered it since: the approval is     *)
(* mined, and its success known, before the swap is sent.                  *)
(***************************************************************************)
SecuredAllowance ==
  \A c \in Caller :
    At(c, "send") /\ ~trace[c].beaten => Allowed(SwapTx(c))

(***************************************************************************)
(* A revoke that was sent while no swap of the token was under way holds,  *)
(* once mined, until the user swaps the token again: the approval of an    *)
(* earlier swap, its RPC cancelled while it waited, is not mined after it, *)
(* and nothing else grants.                                                *)
(***************************************************************************)
RevokeHolds ==
  \A c \in Caller : trace[c].revoked = "holds" => allowance[<<call[c].in, call[c].spender>>] = 0

(***************************************************************************)
(* The approvals screen: what it lists was granted at some moment of the   *)
(* scan, and every pair of a watched token that was granted all along is   *)
(* on it unless its own read failed.  Granted is any allowance above zero, *)
(* what the code tests: an allowance of 1 wei is listed, although the      *)
(* comment of the test says such dust is skipped.                          *)
(***************************************************************************)
ScreenIsHonest ==
  \A c \in Caller : call[c].op = "list" /\ At(c, "ok") =>
    /\ call[c].got \subseteq trace[c].was
    /\ trace[c].still \subseteq call[c].got \cup trace[c].unread

\* A post-swap sync that was given the watchlist was given both tokens of the
\* swap, unless one was removed, or could not be added, in between.
SyncSeesLegs ==
  \A c \in Caller : call[c].op = "swap" /\ trace[c].synced # {} =>
    Legs(c) \subseteq trace[c].synced \cup trace[c].lapsed
=============================================================================
