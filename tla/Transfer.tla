------------------------------ MODULE Transfer ------------------------------
(***************************************************************************)
(* From the send form to the mempool: SimulateSend previews a transfer,    *)
(* SendETH and SendToken build its request, SendTx prices it between its   *)
(* nonce and its broadcast, SpeedUpTx and CancelTx outbid it -- while the  *)
(* base fee, the wallet's balances and the gas a transfer takes move.      *)
(* Nonces, the mempool and the pending tracker are SendTx's.               *)
(*                                                                         *)
(* Amounts and fees are small numbers of the smallest unit; the user       *)
(* enters tenths of a token's, so that an entry may have more decimals     *)
(* than the token.                                                         *)
(***************************************************************************)
EXTENDS SendTx

CONSTANTS
  Previewed,  \* the calls of a user who sends only what a preview said goes through
  Forms,      \* what the user may fill in for the calls: asset, entry, fees
  Base,       \* base fees
  Balance,    \* Balance[a]: balances of an asset
  Gas,        \* Gas[a]: what a transfer of an asset may take
  TxGas,      \* what a transfer of nothing to the wallet itself takes
  Opening,    \* the base fee, the balances and the gas at first
  Tip,        \* the network's suggested priority fee
  Unset,      \* a fee the user left blank, or wrote so that it does not parse
  MaxMoves    \* bound on the moves of the chain

Asset == {"eth", "token"}

ASSUME TransferAssumption ==
  /\ Previewed \subseteq Sends
  /\ Base \subseteq Nat \ {0} /\ Tip \in Nat /\ MaxMoves \in Nat
  /\ Balance \in [Asset -> SUBSET Nat]
  /\ Gas \in [Asset -> SUBSET (Nat \ {0})] /\ TxGas \in Nat \ {0}
  /\ Opening.base \in Base
  /\ Opening.balance \in [Asset -> Nat] /\ \A a \in Asset : Opening.balance[a] \in Balance[a]
  /\ Opening.need \in [Asset -> Nat] /\ \A a \in Asset : Opening.need[a] \in Gas[a]
  /\ Forms \subseteq [Sends -> [asset : Asset, entry : Nat,
                              tip : Nat \cup {Unset}, cap : Nat \cup {Unset}]]

VARIABLES
  form,      \* what the user filled in for a call
  base,      \* on chain: the base fee
  balance,   \* on chain: what the wallet holds of an asset
  need,      \* on chain: the gas a transfer of an asset takes
  stage,     \* where the building of a call's transaction is
  tx,        \* tx[t]: the transaction of a call
  sim,       \* where the preview of a call is, and the gas it has been told
  preview,   \* what SimulateSend answered last
  moves,     \* history: what the bound counts
  steady,    \* history: nothing moved since the preview began
  original,  \* history: what a replacement replaces
  bill       \* history: the base fee a previewed call was priced at, and what a block took

screen == <<form, sim, preview, steady>>
chain == <<base, balance, need>>
build == <<stage, tx, original, bill>>
tvars == <<screen, chain, build, moves>>

-----------------------------------------------------------------------------
(* Requests. *)

NewAmountFromETH(entry) == entry

\* Decimals the token does not have are cut off.
NewAmountFromTokenUnits(entry) == entry \div 10

Request(to, value, units) == [to |-> to, value |-> value, units |-> units]
NoRequest == Request("none", 0, 0)

\* PackERC20Transfer: a call of the contract, without ether.
PackERC20Transfer(amount) == Request("token", 0, amount)

\* SimulateSendETH and SimulateSendToken.
Simulated(f) ==
  IF f.asset = "eth" THEN Request("payee", NewAmountFromETH(f.entry), 0)
  ELSE PackERC20Transfer(NewAmountFromTokenUnits(f.entry))

\* SendETH, and SendToken with TransferTokenWithGas.
Sent(f) ==
  IF f.asset = "eth" THEN Request("payee", NewAmountFromETH(f.entry), 0)
  ELSE PackERC20Transfer(NewAmountFromTokenUnits(f.entry))

AssetOf(req) == IF req.to = "token" THEN "token" ELSE "eth"

\* On chain: the transfer does not revert.
Executes(req) == balance[AssetOf(req)] >= req.value + req.units

-----------------------------------------------------------------------------
(* Fees. *)

\* GasFees: twice the base fee and the tip.
MaxFeeAt(b) == 2 * b + Tip
MaxFee == MaxFeeAt(base)

\* Mutant: the base fee is taken not to rise.
CostAtGasPrice(gas) == gas * (base + Tip)

\* What SimulateSend shows for an amount of gas.
EstimatedCost(gas) == gas * MaxFee

OrElse(override, suggested) == IF override = Unset THEN suggested ELSE override

\* Mutant: the fee cap is kept.
BumpTipOnly(old) == [old EXCEPT !.tip = (@ * 120) \div 100]

\* replaceTx: 20% on the tip, 10% on the fee cap.
Bump(old) == [old EXCEPT !.tip = (@ * 120) \div 100, !.cap = (@ * 110) \div 100]

\* What a node asks of a transaction, and of one with a nonce that is taken.
Priced(t) == t.tip <= t.cap
Outbids(new, old) ==
  /\ Priced(new)
  /\ new.tip > old.tip /\ new.cap > old.cap
  /\ new.tip >= (old.tip * 110) \div 100 /\ new.cap >= (old.cap * 110) \div 100

NoTx == [req |-> NoRequest, gas |-> 0, tip |-> 0, cap |-> 0]

-----------------------------------------------------------------------------
(* The chain moves. *)

Move ==
  /\ moves < MaxMoves
  /\ \/ base' \in Base \ {base} /\ UNCHANGED <<balance, need>>
     \/ \E a \in Asset : \E b \in Balance[a] \ {balance[a]} :
          balance' = [balance EXCEPT ![a] = b] /\ UNCHANGED <<base, need>>
     \/ \E a \in Asset : \E g \in Gas[a] \ {need[a]} :
          need' = [need EXCEPT ![a] = g] /\ UNCHANGED <<base, balance>>
  /\ moves' = moves + 1
  /\ steady' = [s \in Sends |-> FALSE]
  /\ UNCHANGED <<vars, form, sim, preview, build>>

-----------------------------------------------------------------------------
(* SimulateSend. *)

NoSim == [at |-> "idle", gas |-> 0]

Simulating(s, from, to, gas) ==
  /\ sim[s].at = from
  /\ sim' = [sim EXCEPT ![s] = [at |-> to, gas |-> gas]]
  /\ UNCHANGED <<vars, form, chain, build, moves>>

Quietly(s, from, to, gas) == Simulating(s, from, to, gas) /\ UNCHANGED <<preview, steady>>

Shows(s, kind, path, gas) ==
  /\ preview' = [preview EXCEPT ![s] = [kind |-> kind, req |-> Simulated(form[s]),
                                        path |-> path, gas |-> gas, cost |-> EstimatedCost(gas),
                                        base |-> base, steady |-> steady[s]]]
  /\ UNCHANGED steady

\* The token's metadata is read first; without it, or without a wallet, an error.
SimulateSend(s) ==
  /\ s \in Previewed /\ stage[s] = "form" /\ preview[s].kind = "none"
  /\ steady' = [steady EXCEPT ![s] = TRUE]
  /\ Simulating(s, "idle", "alchemy", 0)
  /\ UNCHANGED preview

\* alchemy_simulateAssetChanges fails, is not supported or answers with gas
\* that does not parse: eth_call is next.
FallBack(s) == Quietly(s, "alchemy", "call", 0)

\* Mutant: the error inside the answer is not looked at; no gas reads as zero.
AssetChangesRevertUnseen(s) ==
  /\ ~Executes(Simulated(form[s]))
  /\ Quietly(s, "alchemy", "alchemyFees", 0)

\* The answer carries an error: the transfer would revert.
AssetChangesRevert(s) ==
  /\ ~Executes(Simulated(form[s]))
  /\ Simulating(s, "alchemy", "shown", 0)
  /\ Shows(s, "revert", "alchemy", 0)

\* The answer names the gas, or has no gasUsed: that reads as zero.
AssetChanges(s) ==
  /\ Executes(Simulated(form[s]))
  /\ \E gas \in {0, need[form[s].asset]} : Quietly(s, "alchemy", "alchemyFees", gas)

\* The fees cannot be had: eth_call is next all the same.
AlchemyFeesFail(s) == Quietly(s, "alchemyFees", "call", 0)

\* Neither answer reports fees: they are asked for.
GasFees(s) ==
  \/ Simulating(s, "alchemyFees", "shown", 0) /\ Shows(s, "ok", "alchemy", sim[s].gas)
  \/ Simulating(s, "fees", "shown", 0) /\ Shows(s, "ok", "call", sim[s].gas)

CallContract(s) ==
  /\ Executes(Simulated(form[s]))
  /\ Quietly(s, "call", "estimate", 0)

\* With a reason, without one, or with an unknown payload.
CallReverts(s) ==
  /\ ~Executes(Simulated(form[s]))
  /\ Simulating(s, "call", "shown", 0)
  /\ Shows(s, "revert", "call", 0)

EstimateGas(s) ==
  /\ Executes(Simulated(form[s]))
  /\ Quietly(s, "estimate", "fees", need[form[s].asset])

\* A network error of the fallback, or an estimate that reverts.
SimulateFails(s) ==
  /\ \E at \in {"idle", "call", "estimate", "fees"} : Simulating(s, at, "shown", 0)
  /\ s \in Previewed /\ stage[s] = "form" /\ preview[s].kind = "none"
  /\ Shows(s, "error", "call", 0)

Preview(s) ==
  \/ SimulateSend(s) \/ FallBack(s) \/ AssetChangesRevert(s) \/ AssetChanges(s)
  \/ AlchemyFeesFail(s) \/ GasFees(s) \/ CallContract(s) \/ CallReverts(s)
  \/ EstimateGas(s) \/ SimulateFails(s)

-----------------------------------------------------------------------------
(* Sending. *)

Stage(s, from, to) ==
  /\ stage[s] = from
  /\ stage' = [stage EXCEPT ![s] = to]
  /\ UNCHANGED <<screen, chain, original, moves>>

\* SendETH or SendToken: the request is made, SendTx is called.
Submit(s) ==
  /\ s \in Previewed => preview[s].kind = "ok"
  /\ Stage(s, "form", "submitted")
  /\ tx' = [tx EXCEPT ![s].req = Sent(form[s])]
  /\ UNCHANGED <<vars, bill>>

\* The entry does not parse or the token's metadata cannot be read.
SubmitFails(s) ==
  /\ s \in Previewed => preview[s].kind = "ok"
  /\ Stage(s, "form", "failed")
  /\ UNCHANGED <<vars, tx, bill>>

\* GasEstimateWithFees asks for the fees first; the user's override them.
PriceFees(s) ==
  /\ pc[s] = "reserved"
  /\ Stage(s, "submitted", "priced")
  /\ tx' = [tx EXCEPT ![s] = [tx[s] EXCEPT !.tip = OrElse(form[s].tip, Tip),
                                           !.cap = OrElse(form[s].cap, MaxFee)]]
  /\ bill' = [b \in Previewed |-> IF b = s THEN [bill[b] EXCEPT !.asked = base] ELSE bill[b]]
  /\ UNCHANGED vars

\* Then for the gas, with a buffer of 20%.
PriceGas(s) ==
  /\ Executes(tx[s].req)
  /\ Stage(s, "priced", "built")
  /\ tx' = [tx EXCEPT ![s].gas = (need[AssetOf(tx[s].req)] * 12) \div 10]
  /\ UNCHANGED <<vars, bill>>

-----------------------------------------------------------------------------
(* SendTx's steps with the transactions. *)

Unpriced == UNCHANGED tvars

SendStep(s) ==
  \/ (NextNonce(s) \/ NextNonceFails(s)) /\ stage[s] = "submitted" /\ Unpriced
  \/ PrepareFails(s) /\ Unpriced
  \/ Broadcast(s) /\ stage[s] = "built" /\ Priced(tx[s]) /\ Unpriced
  \/ BroadcastFails(s) /\ stage[s] = "built" /\ (s \in pool' => Priced(tx[s])) /\ Unpriced
  \/ (Receipt(s) \/ Abandon(s)) /\ Unpriced

\* A transfer of nothing to the wallet itself.
Cancelling(t) == [t EXCEPT !.req = Request("self", 0, 0), !.gas = TxGas]

\* The original's transaction is read and its fees are bumped: SpeedUpTx, CancelTx.
Outbid(r, t) ==
  /\ FindOriginal(r, t)
  /\ \E new \in {Bump(tx[t]), Cancelling(Bump(tx[t]))} : tx' = [tx EXCEPT ![r] = new]
  /\ original' = [original EXCEPT ![r] = t]
  /\ UNCHANGED <<screen, chain, stage, bill, moves>>

ReplaceStep(r) ==
  \/ \E t \in Tx : Outbid(r, t) \/ (OriginalGone(r, t) /\ Unpriced)
  \/ ReplaceBroadcast(r) /\ Outbids(tx[r], tx[original[r]]) /\ Unpriced
  \/ ReplaceFails(r) /\ (r \in pool' => Outbids(tx[r], tx[original[r]])) /\ Unpriced

\* The gas t takes now; one that runs out of gas is charged its limit.
Need(req) == IF req.to = "self" THEN TxGas ELSE need[AssetOf(req)]
GasUsed(t) == IF Need(t.req) <= t.gas THEN Need(t.req) ELSE t.gas

\* The price of gas in a block: the tip counts within the cap.
GasPrice(t) == IF t.cap < base + t.tip THEN t.cap ELSE base + t.tip

\* A block takes t, at the base fee and for the gas of that moment.
Pay(t) ==
  /\ Mine(t)
  /\ tx[t].cap >= base
  /\ bill' = [b \in Previewed |->
       IF b # t THEN bill[b]
       ELSE [bill[b] EXCEPT !.gas = GasUsed(tx[t]), !.base = base,
                            !.cost = GasUsed(tx[t]) * GasPrice(tx[t])]]
  /\ UNCHANGED <<screen, chain, stage, tx, original, moves>>

-----------------------------------------------------------------------------

NoPreview ==
  [kind |-> "none", req |-> NoRequest, path |-> "none", gas |-> 0, cost |-> 0, base |-> 0,
   steady |-> FALSE]

NoBill == [asked |-> 0, gas |-> 0, base |-> 0, cost |-> 0]

TransferInit ==
  /\ Init
  /\ form \in Forms
  /\ base = Opening.base /\ balance = Opening.balance /\ need = Opening.need
  /\ stage = [s \in Sends |-> "form"]
  /\ tx = [t \in Tx |-> NoTx]
  /\ sim = [s \in Sends |-> NoSim]
  /\ preview = [s \in Sends |-> NoPreview]
  /\ moves = 0
  /\ steady = [s \in Sends |-> FALSE]
  /\ original = [r \in Replacements |-> Unset]
  /\ bill = [s \in Previewed |-> NoBill]

TransferNext ==
  \/ Move
  \/ \E s \in Sends : Preview(s) \/ Submit(s) \/ SubmitFails(s) \/ PriceFees(s) \/ PriceGas(s)
  \/ \E s \in Sends : SendStep(s)
  \/ \E r \in Replacements : ReplaceStep(r)
  \/ (Registering \/ pruneStalePending) /\ Unpriced
  \/ \E t \in Tx : Pay(t) \/ (Evict(t) /\ Unpriced)

\* The janitor, as in SendTx.
TransferFairness == \A t \in Tx : WF_<<vars, tvars>>(Prune(t) /\ Unpriced)

TransferSpec == TransferInit /\ [][TransferNext]_<<vars, tvars>> /\ TransferFairness

-----------------------------------------------------------------------------
(* Properties. *)

(***************************************************************************)
(* Whichever of its calls fail and whichever path answers, SimulateSend    *)
(* says that a transfer goes through only if it does, and that it reverts  *)
(* only if it does -- unless the chain moved between its calls.  The gas   *)
(* it names is what the transfer takes; only Alchemy's answer may lack     *)
(* gasUsed, and is then shown with no gas and at no cost.  The transfer it *)
(* is about is the transaction the wallet signs: SendETH and SendToken     *)
(* make of a form what SimulateSend made.                                  *)
(***************************************************************************)
PreviewIsHonest ==
  \A s \in Sends :
    /\ preview[s].kind # "none" /\ stage[s] \in {"submitted", "priced", "built"}
         => tx[s].req = preview[s].req
    /\ steady[s] /\ preview[s].steady =>
         /\ preview[s].kind = "ok" =>
              /\ Executes(preview[s].req)
              /\ \/ preview[s].gas = need[form[s].asset]
                 \/ preview[s].path = "alchemy" /\ preview[s].gas = 0 /\ preview[s].cost = 0
         /\ preview[s].kind = "revert" => ~Executes(preview[s].req)

(***************************************************************************)
(* What of "the upper bound on what the user pays" (simulate.go:33-35) the *)
(* code keeps.  Between the preview and the block SendTx asks for fees and *)
(* gas again, takes 20% more gas as its limit, and the chain goes on       *)
(* moving.  When the user set no fees of their own and the transfer takes  *)
(* no more gas in the block than the preview named, the cost shown is      *)
(* exceeded only by a base fee that had risen by the time SendTx asked and *)
(* is more than twice the preview's in the block: a rise on one side of    *)
(* the signature alone never does it, however high.                        *)
(***************************************************************************)
CostShownCovers ==
  \A s \in Previewed :
    /\ preview[s].kind = "ok" /\ s \in mined
    /\ form[s].tip = Unset /\ form[s].cap = Unset
    /\ bill[s].gas <= preview[s].gas
    /\ bill[s].cost > preview[s].cost
    => bill[s].asked > preview[s].base /\ bill[s].base > 2 * preview[s].base

(***************************************************************************)
(* A replacement is never refused for its price (replaceTx): its fees are  *)
(* well formed and outbid the original's by what nodes ask for, as long as *)
(* the original's tip is at least five, its fee cap at least ten, and the  *)
(* tip at most 11/12 of the cap.                                           *)
(***************************************************************************)
ReplacementOutbids ==
  \A r \in Replacements :
    LET old == tx[original[r]]
    IN original[r] # Unset /\ old.tip >= 5 /\ old.cap >= 10 /\ 12 * old.tip <= 11 * old.cap
         => Outbids(tx[r], old)
=============================================================================
