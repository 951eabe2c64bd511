---------------------------- MODULE SendTxProofs ----------------------------
(***************************************************************************)
(* Theorems about SendTx and Transfer, for any number of calls, fees and   *)
(* amounts.                                                                *)
(***************************************************************************)
EXTENDS Transfer, FiniteSetTheorems, WellFoundedInduction, TLAPS

(***************************************************************************)
(* A non-empty set of naturals has a least element.                        *)
(***************************************************************************)
LEMMA LeastNatural ==
  ASSUME NEW S \in SUBSET Nat, S # {}
  PROVE  \E n \in S : \A m \in S : n <= m
<1>1. IsWellFoundedOn(OpToRel(<, Nat), Nat)
  BY NatLessThanWellFounded
<1>2. PICK n \in S : \A m \in S : <<m, n>> \notin OpToRel(<, Nat)
  BY <1>1, WFMin
<1>3. \A m \in S : ~(m < n)
  BY <1>2 DEF OpToRel
<1> QED
  BY <1>3

(***************************************************************************)
(* The node's answer to eth_getTransactionCount(pending) exists: the pool  *)
(* is too small to use every nonce of the range it is searched in, and the *)
(* least unused one is the answer.                                         *)
(***************************************************************************)
LEMMA PendingNonceExists ==
  ASSUME TypeOK
  PROVE  PendingNonceAt \in Nat
<1> DEFINE I == confirmed..(confirmed + Cardinality(pool))
           Free == {n \in I : ~Used(n)}
<1>1. IsFiniteSet(pool) /\ Cardinality(pool) \in Nat /\ confirmed \in Nat
  BY TxAssumption, FS_Subset, FS_CardinalityType DEF TypeOK
<1>2. IsFiniteSet(I) /\ Cardinality(I) = Cardinality(pool) + 1
  BY <1>1, FS_Interval
<1>3. Free # {}
  <2> SUFFICES ASSUME \A n \in I : Used(n)
               PROVE  FALSE
    OBVIOUS
  <2>1. \A n \in I : \E t \in pool : nonce[t] = n
    BY <1>1 DEF Used
  <2> DEFINE f == [n \in I |-> CHOOSE t \in pool : nonce[t] = n]
  <2>2. \A n \in I : f[n] \in pool /\ nonce[f[n]] = n
    BY <2>1
  <2>3. f \in [I -> pool]
    BY <2>2
  <2> HIDE DEF f
  <2>4. \E m, n \in I : m # n /\ f[m] = f[n]
    BY <1>1, <1>2, <2>3, FS_PigeonHole
  <2> QED
    BY <2>2, <2>4
<1>4. PICK n \in Free : \A m \in Free : n <= m
  <2>1. Free \in SUBSET Nat
    BY <1>1
  <2> QED
    BY <1>3, <2>1, LeastNatural
<1>5. ~Used(n) /\ \A m \in confirmed..(n - 1) : Used(m)
  BY <1>1, <1>4
<1>6. PendingNonceAt \in I
  BY <1>4, <1>5 DEF PendingNonceAt
<1> QED
  BY <1>1, <1>6

-----------------------------------------------------------------------------
(* Type correctness. *)

(***************************************************************************)
(* The node takes a transaction: its state keeps its type.                 *)
(***************************************************************************)
LEMMA AcceptType ==
  ASSUME TypeOK, NEW t \in Tx, Accept(t, nonce[t])
  PROVE  pool' \subseteq Tx /\ mined' \subseteq Tx /\ confirmed' \in Nat
BY DEF TypeOK, Accept

(***************************************************************************)
(* Every step of the calls, the janitor and the node keeps the types; the  *)
(* nonce manager counts in the naturals, also when the node seeds it.      *)
(***************************************************************************)
LEMMA TypeKept ==
  ASSUME TypeOK, [Next]_vars
  PROVE  TypeOK'
<1> USE DEF TypeOK, PC, Goto, node, Tx
<1>1. ASSUME NEW s \in Sends, NextNonce(s)
      PROVE  TypeOK'
  <2>1. PendingNonceAt \in Nat
    BY PendingNonceExists
  <2> DEFINE n == IF cache = NoNonce THEN PendingNonceAt ELSE cache
  <2>2. n \in Nat
    BY <2>1
  <2>3. nonce' = [nonce EXCEPT ![s] = n] /\ cache' = n + 1
    BY <1>1 DEF NextNonce
  <2> HIDE DEF n
  <2> QED
    BY <1>1, <2>2, <2>3 DEF NextNonce
<1>2. ASSUME NEW s \in Sends,
             NextNonceFails(s) \/ PrepareFails(s) \/ Receipt(s) \/ Abandon(s)
      PROVE  TypeOK'
  BY <1>2 DEF NextNonceFails, PrepareFails, Receipt, Abandon
<1>3. ASSUME NEW s \in Sends, Broadcast(s) \/ BroadcastFails(s)
      PROVE  TypeOK'
  BY <1>3, AcceptType DEF Broadcast, BroadcastFails
<1>4. ASSUME NEW r \in Replacements, NEW t \in Tx,
             FindOriginal(r, t) \/ OriginalGone(r, t)
      PROVE  TypeOK'
  BY <1>4 DEF FindOriginal, OriginalGone
<1>5. ASSUME NEW r \in Replacements, ReplaceBroadcast(r) \/ ReplaceFails(r)
      PROVE  TypeOK'
  BY <1>5, AcceptType DEF ReplaceBroadcast, ReplaceFails
<1>6. ASSUME NEW t \in Tx,
             Register(t) \/ Prune(t) \/ PruneOnError(t) \/ Mine(t) \/ Evict(t)
      PROVE  TypeOK'
  BY <1>6 DEF Register, Prune, PruneOnError, Mine, Evict
<1>7. CASE UNCHANGED vars
  BY <1>7 DEF vars
<1> QED
  BY <1>1, <1>2, <1>3, <1>4, <1>5, <1>6, <1>7
  DEF Next, Sending, replaceTx, Registering, pruneStalePending, Chain

(***************************************************************************)
(* Type correctness of SendTx, replaceTx and the janitor: the nonce        *)
(* manager counts in the naturals, also when the node seeds it.            *)
(***************************************************************************)
THEOREM SendTypeCorrect == Spec => []TypeOK
<1>1. Init => TypeOK
  BY DEF Init, TypeOK, PC
<1>2. TypeOK /\ [Next]_vars => TypeOK'
  BY TypeKept
<1> QED
  BY <1>1, <1>2, PTL DEF Spec

-----------------------------------------------------------------------------
(* Distinct nonces. *)

(***************************************************************************)
(* The inductive invariant.  No call is ahead of the resets, and the nonce *)
(* manager's counter is above every nonce handed out since the last one;   *)
(* with no counter, none has been handed out since.                        *)
(***************************************************************************)
CounterInv ==
  \A s \in Sends :
    HasNonce(s) =>
      /\ reserved[s] <= epoch
      /\ reserved[s] = epoch => cache \in Nat /\ nonce[s] < cache

NonceInv == TypeOK /\ CounterInv /\ DistinctNonces

(***************************************************************************)
(* Only nonceManager.next gives a call a nonce: in every other step the    *)
(* calls that have one after it had the same one before.                   *)
(***************************************************************************)
LEMMA NonceKept ==
  ASSUME NonceInv, UNCHANGED reserved, epoch' = epoch, UNCHANGED cache,
         \A s \in Sends : HasNonce(s)' => HasNonce(s) /\ nonce'[s] = nonce[s]
  PROVE  CounterInv' /\ DistinctNonces'
BY DEF NonceInv, CounterInv, DistinctNonces

(***************************************************************************)
(* After a reset no call belongs to the new epoch.                         *)
(***************************************************************************)
LEMMA NonceReset ==
  ASSUME NonceInv, UNCHANGED reserved, epoch' = epoch + 1,
         \A s \in Sends : HasNonce(s)' => HasNonce(s) /\ nonce'[s] = nonce[s]
  PROVE  CounterInv' /\ DistinctNonces'
BY DEF NonceInv, CounterInv, DistinctNonces, TypeOK, Tx

(***************************************************************************)
(* Every step keeps the counter above the nonces of its epoch.             *)
(***************************************************************************)
LEMMA CounterKept ==
  ASSUME NonceInv, [Next]_vars
  PROVE  CounterInv' /\ DistinctNonces'
<1> USE DEF NonceInv, TypeOK, PC, Goto, node, Tx, HasNonce
<1>1. ASSUME NEW s \in Sends, NextNonce(s)
      PROVE  CounterInv' /\ DistinctNonces'
  <2>1. PendingNonceAt \in Nat
    BY PendingNonceExists
  <2> DEFINE n == IF cache = NoNonce THEN PendingNonceAt ELSE cache
  <2>2. n \in Nat /\ (cache # NoNonce => n = cache)
    BY <2>1
  <2>3. /\ nonce' = [nonce EXCEPT ![s] = n] /\ cache' = n + 1
        /\ reserved' = [reserved EXCEPT ![s] = epoch] /\ epoch' = epoch
        /\ UNCHANGED <<pool, mined>>
        /\ pc[s] = "idle" /\ pc' = [pc EXCEPT ![s] = "reserved"]
    BY <1>1 DEF NextNonce
  <2> HIDE DEF n
  <2>4. \A t \in Sends : t # s /\ HasNonce(t)' =>
          /\ HasNonce(t) /\ nonce'[t] = nonce[t] /\ reserved'[t] = reserved[t]
          /\ reserved[t] <= epoch
          /\ reserved[t] = epoch => nonce[t] < n
    <3> SUFFICES ASSUME NEW t \in Sends, t # s, HasNonce(t)'
                 PROVE  /\ HasNonce(t) /\ nonce'[t] = nonce[t] /\ reserved'[t] = reserved[t]
                        /\ reserved[t] <= epoch
                        /\ reserved[t] = epoch => nonce[t] < n
      OBVIOUS
    <3>1. HasNonce(t) /\ nonce'[t] = nonce[t] /\ reserved'[t] = reserved[t]
      BY <2>3
    <3>2. reserved[t] <= epoch /\ (reserved[t] = epoch => cache \in Nat /\ nonce[t] < cache)
      BY <3>1 DEF CounterInv
    <3> QED
      BY <2>2, <3>1, <3>2, NonceAssumption
  <2>5. nonce'[s] = n /\ reserved'[s] = epoch
    BY <2>3
  <2>6. CounterInv'
    BY <2>2, <2>3, <2>4, <2>5 DEF CounterInv
  <2>7. DistinctNonces'
    <3> SUFFICES ASSUME NEW t \in Sends, NEW u \in Sends, t # u,
                        HasNonce(t)', HasNonce(u)', reserved'[t] = reserved'[u]
                 PROVE  nonce'[t] # nonce'[u]
      BY DEF DistinctNonces
    <3>1. CASE t = s
      BY <2>2, <2>4, <2>5, <3>1
    <3>2. CASE u = s
      BY <2>2, <2>4, <2>5, <3>2
    <3>3. CASE t # s /\ u # s
      BY <2>4, <3>3 DEF DistinctNonces
    <3> QED
      BY <3>1, <3>2, <3>3
  <2> QED
    BY <2>6, <2>7
<1>2. ASSUME NEW s \in Sends,
             NextNonceFails(s) \/ PrepareFails(s) \/ Receipt(s) \/ Abandon(s)
      PROVE  CounterInv' /\ DistinctNonces'
  <2>1. \A u \in Sends : HasNonce(u)' => HasNonce(u) /\ nonce'[u] = nonce[u]
    BY <1>2 DEF NextNonceFails, PrepareFails, Receipt, Abandon
  <2> QED
    BY <1>2, <2>1, NonceKept DEF NextNonceFails, PrepareFails, Receipt, Abandon
<1>3. ASSUME NEW s \in Sends, Broadcast(s)
      PROVE  CounterInv' /\ DistinctNonces'
  <2>1. \A u \in Sends : HasNonce(u)' => HasNonce(u) /\ nonce'[u] = nonce[u]
    BY <1>3 DEF Broadcast, Accept
  <2> QED
    BY <1>3, <2>1, NonceKept DEF Broadcast
<1>4. ASSUME NEW s \in Sends, BroadcastFails(s)
      PROVE  CounterInv' /\ DistinctNonces'
  <2>1. \A u \in Sends : HasNonce(u)' => HasNonce(u) /\ nonce'[u] = nonce[u]
    BY <1>4 DEF BroadcastFails, Accept
  <2> QED
    BY <1>4, <2>1, NonceReset DEF BroadcastFails
<1>5. ASSUME NEW r \in Replacements, NEW t \in Tx,
             FindOriginal(r, t) \/ OriginalGone(r, t)
      PROVE  CounterInv' /\ DistinctNonces'
  <2>1. \A u \in Sends : HasNonce(u)' => HasNonce(u) /\ nonce'[u] = nonce[u]
    BY <1>5, TxAssumption DEF FindOriginal, OriginalGone
  <2> QED
    BY <1>5, <2>1, NonceKept DEF FindOriginal, OriginalGone
<1>6. ASSUME NEW r \in Replacements, ReplaceBroadcast(r) \/ ReplaceFails(r)
      PROVE  CounterInv' /\ DistinctNonces'
  <2>1. \A u \in Sends : HasNonce(u)' => HasNonce(u) /\ nonce'[u] = nonce[u]
    BY <1>6, TxAssumption DEF ReplaceBroadcast, ReplaceFails, Accept
  <2> QED
    BY <1>6, <2>1, NonceKept DEF ReplaceBroadcast, ReplaceFails
<1>7. ASSUME NEW t \in Tx,
             Register(t) \/ Prune(t) \/ PruneOnError(t) \/ Mine(t) \/ Evict(t)
      PROVE  CounterInv' /\ DistinctNonces'
  <2>1. \A u \in Sends : HasNonce(u)' => HasNonce(u) /\ nonce'[u] = nonce[u]
    BY <1>7 DEF Register, Prune, PruneOnError, Mine, Evict
  <2> QED
    BY <1>7, <2>1, NonceKept DEF Register, Prune, PruneOnError, Mine, Evict
<1>8. CASE UNCHANGED vars
  <2>1. \A u \in Sends : HasNonce(u)' => HasNonce(u) /\ nonce'[u] = nonce[u]
    BY <1>8 DEF vars
  <2> QED
    BY <1>8, <2>1, NonceKept DEF vars
<1> QED
  BY <1>1, <1>2, <1>3, <1>4, <1>5, <1>6, <1>7, <1>8
  DEF Next, Sending, replaceTx, Registering, pruneStalePending, Chain

\* At first no call has a nonce.
LEMMA CounterStarts ==
  ASSUME Init
  PROVE  NonceInv
<1>1. TypeOK
  BY DEF Init, TypeOK, PC
<1>2. CounterInv /\ DistinctNonces
  BY DEF Init, CounterInv, DistinctNonces, HasNonce, Tx
<1> QED
  BY <1>1, <1>2 DEF NonceInv

(***************************************************************************)
(* SendTx calls that took their nonces without a reset between them never  *)
(* share one, however many calls, replacements, failures and evictions.    *)
(***************************************************************************)
THEOREM NoncesDistinct == Spec => []DistinctNonces
<1>1. Init => NonceInv
  BY CounterStarts
<1>2. NonceInv /\ [Next]_vars => NonceInv'
  BY TypeKept, CounterKept DEF NonceInv
<1>3. NonceInv => DistinctNonces
  BY DEF NonceInv
<1> QED
  BY <1>1, <1>2, <1>3, PTL DEF Spec

-----------------------------------------------------------------------------
(* Transfer: the steps of SendTx with the transactions they carry. *)

Stages == {"form", "submitted", "priced", "built", "failed"}
Requests == [to : {"none", "payee", "token", "self"}, value : Nat, units : Nat]
Txs == [req : Requests, gas : Nat, tip : Nat, cap : Nat]
Sims == [at : {"idle", "alchemy", "alchemyFees", "call", "estimate", "fees", "shown"}, gas : Nat]
Previews ==
  [kind : {"none", "ok", "revert", "error"}, req : Requests, path : {"none", "alchemy", "call"},
   gas : Nat, cost : Nat, base : Nat, steady : BOOLEAN]
Bills == [asked : Nat, gas : Nat, base : Nat, cost : Nat]

\* Every variable of Transfer has its type.
TransferTypeOK ==
  /\ form \in Forms
  /\ base \in Base /\ balance \in [Asset -> Nat] /\ need \in [Asset -> Nat]
  /\ stage \in [Sends -> Stages]
  /\ tx \in [Tx -> Txs]
  /\ sim \in [Sends -> Sims]
  /\ preview \in [Sends -> Previews]
  /\ moves \in Nat
  /\ steady \in [Sends -> BOOLEAN]
  /\ original \in [Replacements -> Tx \cup {Unset}]
  /\ bill \in [Previewed -> Bills]

(***************************************************************************)
(* A transaction that is anywhere near the node was built, and from its    *)
(* form: so it changes no more.                                            *)
(***************************************************************************)
BuiltInv ==
  \A s \in Sends :
    /\ pc[s] \in {"sent", "waiting", "done"} \/ s \in pool \cup mined => stage[s] = "built"
    /\ stage[s] \in {"submitted", "priced", "built"} => tx[s].req = Sent(form[s])

(***************************************************************************)
(* A preview is of the form, at the fees of its moment; what it is about   *)
(* to show it has been told, and what it has been told holds while the     *)
(* chain has not moved: the gas is named, or was missing in Alchemy's      *)
(* answer.                                                                 *)
(***************************************************************************)
Named(s, gas, path) == gas = need[form[s].asset] \/ (path = "alchemy" /\ gas = 0)

ShownInv ==
  \A s \in Sends :
    /\ preview[s].kind # "none" => preview[s].req = Simulated(form[s])
    /\ preview[s].kind = "ok" => preview[s].cost = preview[s].gas * MaxFeeAt(preview[s].base)

SteadyInv ==
  \A s \in Sends : steady[s] = TRUE =>
    /\ sim[s].at \in {"alchemyFees", "estimate", "fees"} => Executes(Simulated(form[s]))
    /\ sim[s].at = "alchemyFees" => Named(s, sim[s].gas, "alchemy")
    /\ sim[s].at = "fees" => Named(s, sim[s].gas, "call")
    /\ preview[s].steady = TRUE /\ preview[s].kind = "ok" =>
         Executes(Simulated(form[s])) /\ Named(s, preview[s].gas, preview[s].path)
    /\ preview[s].steady = TRUE /\ preview[s].kind = "revert" => ~Executes(Simulated(form[s]))

\* Without fees of the user's, a call has the network's of the moment it was priced.
PricedInv ==
  \A s \in Previewed : stage[s] \in {"priced", "built"} =>
    /\ form[s].cap = Unset => tx[s].cap = MaxFeeAt(bill[s].asked)
    /\ form[s].tip = Unset => tx[s].tip = Tip

\* A block takes no more for the gas than the fee cap, or than its base fee and the tip.
PaidInv ==
  \A s \in Previewed : s \in mined =>
    \E price \in Nat :
      /\ price <= tx[s].cap /\ price <= bill[s].base + tx[s].tip
      /\ bill[s].cost = bill[s].gas * price

(***************************************************************************)
(* A replacement carries the bumped fees of its original, which was        *)
(* registered, and so changes no more either.                              *)
(***************************************************************************)
OriginalInv ==
  \A r \in Replacements : original[r] # Unset =>
    /\ pc[r] # "idle" /\ WasListed(original[r])
    /\ tx[r].tip = Bump(tx[original[r]]).tip /\ tx[r].cap = Bump(tx[original[r]]).cap

TransferInv ==
  /\ NonceInv /\ TransferTypeOK /\ BuiltInv /\ ShownInv /\ SteadyInv
  /\ PricedInv /\ PaidInv /\ OriginalInv

\* Every step of Transfer is one of SendTx or leaves its variables alone.
LEMMA TransferSends ==
  ASSUME [TransferNext]_<<vars, tvars>>
  PROVE  [Next]_vars
<1>1. ASSUME NEW s \in Sends,
             Preview(s) \/ Submit(s) \/ SubmitFails(s) \/ PriceFees(s) \/ PriceGas(s)
      PROVE  UNCHANGED vars
  <2>1. CASE Preview(s)
    BY <2>1 DEF Preview, SimulateSend, FallBack, AssetChangesRevert, AssetChanges, AlchemyFeesFail,
                GasFees, CallContract, CallReverts, EstimateGas, SimulateFails, Quietly, Simulating
  <2> QED
    BY <1>1, <2>1 DEF Submit, SubmitFails, PriceFees, PriceGas
<1>2. Move => UNCHANGED vars
  BY DEF Move
<1>3. ASSUME NEW s \in Sends, SendStep(s)
      PROVE  Next
  BY <1>3 DEF SendStep, Next, Sending
<1>4. ASSUME NEW r \in Replacements, ReplaceStep(r)
      PROVE  Next
  BY <1>4 DEF ReplaceStep, Outbid, Next, replaceTx
<1>5. Registering \/ pruneStalePending => Next
  BY DEF Next
<1>6. ASSUME NEW t \in Tx, Pay(t) \/ Evict(t)
      PROVE  Next
  BY <1>6 DEF Pay, Next, Chain
<1>7. UNCHANGED <<vars, tvars>> => UNCHANGED vars
  OBVIOUS
<1> QED
  BY <1>1, <1>2, <1>3, <1>4, <1>5, <1>6, <1>7 DEF TransferNext

\* So nonces and types are kept.
LEMMA NoncesKept ==
  ASSUME NonceInv, [TransferNext]_<<vars, tvars>>
  PROVE  NonceInv'
BY TransferSends, TypeKept, CounterKept DEF NonceInv

-----------------------------------------------------------------------------
(* The operators on requests and fees. *)

\* What a user may fill in.
LEMMA FormType ==
  ASSUME TransferTypeOK, NEW s \in Sends
  PROVE  /\ form[s].asset \in Asset /\ form[s].entry \in Nat
         /\ form[s].tip \in Nat \cup {Unset} /\ form[s].cap \in Nat \cup {Unset}
<1>1. form \in [Sends -> [asset : Asset, entry : Nat, tip : Nat \cup {Unset}, cap : Nat \cup {Unset}]]
  BY TransferAssumption DEF TransferTypeOK
<1> QED
  BY <1>1

\* SendETH and SendToken make of a form what SimulateSend makes of it.
LEMMA SentIsSimulated ==
  ASSUME NEW f
  PROVE  Sent(f) = Simulated(f)
BY DEF Sent, Simulated

\* A request, and the asset it moves.
LEMMA RequestOf ==
  ASSUME TransferTypeOK, NEW s \in Sends
  PROVE  Sent(form[s]) \in Requests /\ AssetOf(Sent(form[s])) = form[s].asset
<1>1. form[s].asset \in {"eth", "token"} /\ form[s].entry \in Nat
  BY FormType DEF Asset
<1>2. form[s].entry \div 10 \in Nat
  BY <1>1
<1>3. CASE form[s].asset = "eth"
  BY <1>1, <1>3 DEF Sent, Request, Requests, NewAmountFromETH, AssetOf
<1>4. CASE form[s].asset = "token"
  BY <1>1, <1>2, <1>4
  DEF Sent, Request, Requests, PackERC20Transfer, NewAmountFromTokenUnits, AssetOf
<1> QED
  BY <1>1, <1>3, <1>4

\* The network's fees are fees, and so are the user's where they are set.
LEMMA FeeTypes ==
  ASSUME TransferTypeOK, NEW s \in Sends
  PROVE  /\ base \in Nat /\ MaxFee \in Nat /\ Tip \in Nat
         /\ OrElse(form[s].tip, Tip) \in Nat /\ OrElse(form[s].cap, MaxFee) \in Nat
<1>1. base \in Nat /\ Tip \in Nat
  BY TransferAssumption DEF TransferTypeOK
<1>2. MaxFee \in Nat
  BY <1>1 DEF MaxFee, MaxFeeAt
<1> QED
  BY <1>1, <1>2, FormType DEF OrElse

\* The gas a transaction takes, and is charged for.
LEMMA GasType ==
  ASSUME TransferTypeOK, NEW t \in Txs
  PROVE  need[AssetOf(t.req)] \in Nat /\ GasUsed(t) \in Nat
<1>1. AssetOf(t.req) \in Asset
  BY DEF AssetOf, Asset
<1>2. need[AssetOf(t.req)] \in Nat
  BY <1>1 DEF TransferTypeOK
<1>3. Need(t.req) \in Nat /\ t.gas \in Nat
  BY <1>2, TransferAssumption DEF Need, Txs
<1> QED
  BY <1>2, <1>3 DEF GasUsed

\* Bumped fees are fees.
LEMMA BumpType ==
  ASSUME NEW old \in Txs
  PROVE  /\ Bump(old) \in Txs
         /\ Bump(old).tip = (old.tip * 120) \div 100 /\ Bump(old).cap = (old.cap * 110) \div 100
         /\ Bump(old).req = old.req
<1>1. old.tip \in Nat /\ old.cap \in Nat
  BY DEF Txs
<1>2. (old.tip * 120) \div 100 \in Nat /\ (old.cap * 110) \div 100 \in Nat
  BY <1>1
<1> QED
  BY <1>1, <1>2 DEF Bump, Txs

\* Fees bumped by 20% and 10% outbid the original's, if these are not tiny.
LEMMA BumpOutbids ==
  ASSUME NEW old \in Txs, NEW new, new.tip = Bump(old).tip, new.cap = Bump(old).cap,
         old.tip >= 5, old.cap >= 10, 12 * old.tip <= 11 * old.cap
  PROVE  Outbids(new, old)
<1>1. old.tip \in Nat /\ old.cap \in Nat
  BY DEF Txs
<1>2. new.tip = (old.tip * 120) \div 100 /\ new.cap = (old.cap * 110) \div 100
  BY BumpType
<1>3. new.tip <= new.cap
  BY <1>1, <1>2
<1>4. new.tip > old.tip /\ new.tip >= (old.tip * 110) \div 100
  BY <1>1, <1>2
<1>5. new.cap > old.cap /\ new.cap >= (old.cap * 110) \div 100
  BY <1>1, <1>2
<1> QED
  BY <1>3, <1>4, <1>5 DEF Outbids, Priced

-----------------------------------------------------------------------------
(* What no step of Transfer undoes. *)

\* A call that was listed stays listed, one that began has begun.
LEMMA PcForward ==
  ASSUME TypeOK, [Next]_vars, NEW t \in Tx
  PROVE  /\ WasListed(t) => WasListed(t)'
         /\ pc[t] # "idle" => pc'[t] # "idle"
<1> USE DEF TypeOK, WasListed, Goto, Tx
<1>1. ASSUME NEW s \in Sends,
             \/ NextNonce(s) \/ NextNonceFails(s) \/ PrepareFails(s) \/ Broadcast(s)
             \/ BroadcastFails(s) \/ Receipt(s) \/ Abandon(s)
      PROVE  /\ WasListed(t) => WasListed(t)'
             /\ pc[t] # "idle" => pc'[t] # "idle"
  BY <1>1 DEF NextNonce, NextNonceFails, PrepareFails, Broadcast, BroadcastFails, Receipt, Abandon
<1>2. ASSUME NEW r \in Replacements, NEW u \in Tx,
             \/ FindOriginal(r, u) \/ OriginalGone(r, u) \/ ReplaceBroadcast(r) \/ ReplaceFails(r)
      PROVE  /\ WasListed(t) => WasListed(t)'
             /\ pc[t] # "idle" => pc'[t] # "idle"
  BY <1>2 DEF FindOriginal, OriginalGone, ReplaceBroadcast, ReplaceFails
<1>3. ASSUME NEW u \in Tx, Register(u)
      PROVE  /\ WasListed(t) => WasListed(t)'
             /\ pc[t] # "idle" => pc'[t] # "idle"
  BY <1>3 DEF Register
<1>4. ASSUME NEW u \in Tx, Prune(u) \/ PruneOnError(u) \/ Mine(u) \/ Evict(u)
      PROVE  UNCHANGED pc
  BY <1>4 DEF Prune, PruneOnError, Mine, Evict
<1>5. UNCHANGED vars => UNCHANGED pc
  BY DEF vars
<1> QED
  BY <1>1, <1>2, <1>3, <1>4, <1>5
  DEF Next, Sending, replaceTx, Registering, pruneStalePending, Chain

\* A call's transaction is near the node.
Near(s) == pc[s] \in {"sent", "waiting", "done"} \/ s \in pool \cup mined

\* Only a built transaction comes near the node.
LEMMA NearIsBuilt ==
  ASSUME TransferInv, [TransferNext]_<<vars, tvars>>, NEW s \in Sends, Near(s)'
  PROVE  stage[s] = "built"
<1> USE DEF Near, Goto, TypeOK, Tx
<1>0. TypeOK /\ (Near(s) => stage[s] = "built")
  BY DEF TransferInv, NonceInv, BuiltInv
<1>1. UNCHANGED vars => Near(s)
  BY DEF vars, node
<1>2. ASSUME NEW u \in Sends,
             Preview(u) \/ Submit(u) \/ SubmitFails(u) \/ PriceFees(u) \/ PriceGas(u)
      PROVE  UNCHANGED vars
  <2>1. CASE Preview(u)
    BY <2>1 DEF Preview, SimulateSend, FallBack, AssetChangesRevert, AssetChanges, AlchemyFeesFail,
                GasFees, CallContract, CallReverts, EstimateGas, SimulateFails, Quietly, Simulating
  <2> QED
    BY <1>2, <2>1 DEF Submit, SubmitFails, PriceFees, PriceGas
<1>3. ASSUME NEW u \in Sends, SendStep(u)
      PROVE  stage[s] = "built"
  <2>1. CASE NextNonce(u) \/ NextNonceFails(u) \/ PrepareFails(u) \/ Receipt(u) \/ Abandon(u)
    BY <1>0, <2>1 DEF NextNonce, NextNonceFails, PrepareFails, Receipt, Abandon, node
  <2>2. CASE (Broadcast(u) \/ BroadcastFails(u)) /\ stage[u] = "built"
    BY <1>0, <2>2 DEF Broadcast, BroadcastFails, Accept, node
  <2> QED
    BY <1>3, <2>1, <2>2 DEF SendStep
<1>4. ASSUME NEW r \in Replacements, ReplaceStep(r)
      PROVE  stage[s] = "built"
  <2>1. s # r
    BY TxAssumption
  <2>2. ASSUME NEW t \in Tx, FindOriginal(r, t) \/ OriginalGone(r, t)
        PROVE  Near(s)
    BY <2>1, <2>2, <1>0 DEF FindOriginal, OriginalGone, node
  <2>3. ReplaceBroadcast(r) \/ ReplaceFails(r) => Near(s)
    BY <2>1, <1>0 DEF ReplaceBroadcast, ReplaceFails, Accept, node
  <2> QED
    BY <1>0, <1>4, <2>2, <2>3 DEF ReplaceStep, Outbid
<1>5. ASSUME NEW t \in Tx, Register(t) \/ Prune(t) \/ PruneOnError(t)
      PROVE  Near(s)
  BY <1>0, <1>5 DEF Register, Prune, PruneOnError, node
<1>6. ASSUME NEW t \in Tx, Mine(t) \/ Evict(t)
      PROVE  Near(s)
  BY <1>0, <1>6 DEF Mine, Evict
<1>7. Move => UNCHANGED vars
  BY DEF Move
<1> QED
  BY <1>0, <1>1, <1>2, <1>3, <1>4, <1>5, <1>6, <1>7
  DEF TransferNext, Registering, pruneStalePending, Pay

\* A transaction that was built, or a replacement that began, is settled; the
\* forms are filled in for good.
LEMMA Settled ==
  ASSUME TransferInv, [TransferNext]_<<vars, tvars>>, NEW t \in Tx,
         (t \in Sends /\ stage[t] = "built") \/ (t \in Replacements /\ pc[t] # "idle")
  PROVE  /\ tx'[t] = tx[t] /\ UNCHANGED form
         /\ t \in Sends => stage'[t] = stage[t]
<1> USE DEF Tx
<1>0. tx \in [Tx -> Txs] /\ stage \in [Sends -> Stages]
  BY DEF TransferInv, TransferTypeOK
<1>1. Unpriced => UNCHANGED <<tx, stage, form>>
  BY DEF Unpriced, tvars, screen, build
<1>2. ASSUME NEW s \in Sends, Preview(s)
      PROVE  UNCHANGED <<tx, stage, form>>
  BY <1>2 DEF Preview, SimulateSend, FallBack, AssetChangesRevert, AssetChanges, AlchemyFeesFail,
              GasFees, CallContract, CallReverts, EstimateGas, SimulateFails, Quietly, Simulating,
              build
<1>3. ASSUME NEW s \in Sends, Submit(s) \/ SubmitFails(s) \/ PriceFees(s) \/ PriceGas(s)
      PROVE  /\ tx'[t] = tx[t] /\ UNCHANGED form
             /\ t \in Sends => stage'[t] = stage[t]
  <2>1. UNCHANGED form /\ stage[s] # "built" /\ \E to : stage' = [stage EXCEPT ![s] = to]
    BY <1>3 DEF Submit, SubmitFails, PriceFees, PriceGas, Stage, screen
  <2>2. tx' = tx \/ \E new : tx' = [tx EXCEPT ![s] = new]
    BY <1>3 DEF Submit, SubmitFails, PriceFees, PriceGas
  <2>3. t # s
    BY <2>1, TxAssumption
  <2> QED
    BY <1>0, <2>1, <2>2, <2>3
<1>4. ASSUME NEW r \in Replacements, NEW u \in Tx, Outbid(r, u)
      PROVE  /\ tx'[t] = tx[t] /\ UNCHANGED form
             /\ t \in Sends => stage'[t] = stage[t]
  <2>1. pc[r] = "idle" /\ UNCHANGED <<form, stage>> /\ \E new : tx' = [tx EXCEPT ![r] = new]
    BY <1>4 DEF Outbid, FindOriginal, Goto, screen
  <2>2. t # r
    BY <2>1, TxAssumption
  <2> QED
    BY <1>0, <2>1, <2>2
<1>5. Move => UNCHANGED <<tx, stage, form>>
  BY DEF Move, build
<1>6. ASSUME NEW u \in Tx, Pay(u)
      PROVE  UNCHANGED <<tx, stage, form>>
  BY <1>6 DEF Pay, screen
<1>7. UNCHANGED <<vars, tvars>> => Unpriced
  BY DEF Unpriced
<1> QED
  BY <1>1, <1>2, <1>3, <1>4, <1>5, <1>6, <1>7 DEF TransferNext, SendStep, ReplaceStep

\* The forms are filled in for good.
LEMMA FormKept ==
  ASSUME [TransferNext]_<<vars, tvars>>
  PROVE  UNCHANGED form
<1>1. Unpriced => UNCHANGED form
  BY DEF Unpriced, tvars, screen
<1>2. ASSUME NEW s \in Sends, Preview(s)
      PROVE  UNCHANGED form
  BY <1>2 DEF Preview, SimulateSend, FallBack, AssetChangesRevert, AssetChanges, AlchemyFeesFail,
              GasFees, CallContract, CallReverts, EstimateGas, SimulateFails, Quietly, Simulating
<1>3. ASSUME NEW s \in Sends, Submit(s) \/ SubmitFails(s) \/ PriceFees(s) \/ PriceGas(s)
      PROVE  UNCHANGED form
  BY <1>3 DEF Submit, SubmitFails, PriceFees, PriceGas, Stage, screen
<1>4. ASSUME NEW r \in Replacements, NEW u \in Tx, Outbid(r, u)
      PROVE  UNCHANGED form
  BY <1>4 DEF Outbid, screen
<1>5. Move => UNCHANGED form
  BY DEF Move
<1>6. ASSUME NEW u \in Tx, Pay(u)
      PROVE  UNCHANGED form
  BY <1>6 DEF Pay, screen
<1>7. UNCHANGED <<vars, tvars>> => Unpriced
  BY DEF Unpriced
<1> QED
  BY <1>1, <1>2, <1>3, <1>4, <1>5, <1>6, <1>7 DEF TransferNext, SendStep, ReplaceStep

-----------------------------------------------------------------------------
(* Each part of the invariant. *)

\* What a call is built from is what its form says.
LEMMA BuiltKept ==
  ASSUME TransferInv, [TransferNext]_<<vars, tvars>>
  PROVE  BuiltInv'
<1> SUFFICES ASSUME NEW s \in Sends
             PROVE  /\ Near(s)' => stage'[s] = "built"
                    /\ stage'[s] \in {"submitted", "priced", "built"} => tx'[s].req = Sent(form'[s])
  BY DEF BuiltInv, Near
<1>1. s \in Tx /\ UNCHANGED form
  BY FormKept DEF Tx
<1>2. Near(s)' => stage'[s] = "built"
  BY <1>1, NearIsBuilt, Settled
<1>3. /\ tx \in [Tx -> Txs] /\ stage \in [Sends -> Stages] /\ tx[s] \in Txs
      /\ stage[s] \in {"submitted", "priced", "built"} => tx[s].req = Sent(form[s])
  BY <1>1 DEF TransferInv, TransferTypeOK, BuiltInv
<1>4. ASSUME UNCHANGED <<tx, stage>>
      PROVE  stage'[s] \in {"submitted", "priced", "built"} => tx'[s].req = Sent(form'[s])
  BY <1>1, <1>3, <1>4
<1>5. Unpriced => UNCHANGED <<tx, stage>>
  BY DEF Unpriced, tvars, build
<1>6. ASSUME NEW u \in Sends, Preview(u)
      PROVE  UNCHANGED <<tx, stage>>
  BY <1>6 DEF Preview, SimulateSend, FallBack, AssetChangesRevert, AssetChanges, AlchemyFeesFail,
              GasFees, CallContract, CallReverts, EstimateGas, SimulateFails, Quietly, Simulating,
              build
<1>7. ASSUME NEW u \in Sends, Submit(u)
      PROVE  stage'[s] \in {"submitted", "priced", "built"} => tx'[s].req = Sent(form'[s])
  <2>1. /\ tx' = [tx EXCEPT ![u].req = Sent(form[u])] /\ stage[u] = "form"
        /\ stage' = [stage EXCEPT ![u] = "submitted"]
    BY <1>7 DEF Submit, Stage
  <2>2. CASE u = s
    <3>1. tx'[s].req = Sent(form[s])
      BY <1>1, <1>3, <2>1, <2>2 DEF Txs
    <3> QED
      BY <1>1, <3>1
  <2>3. CASE u # s
    BY <1>1, <1>3, <2>1, <2>3 DEF Tx
  <2> QED
    BY <2>2, <2>3
<1>8. ASSUME NEW u \in Sends, SubmitFails(u)
      PROVE  stage'[s] \in {"submitted", "priced", "built"} => tx'[s].req = Sent(form'[s])
  BY <1>1, <1>3, <1>8 DEF SubmitFails, Stage
<1>9. ASSUME NEW u \in Sends, PriceFees(u) \/ PriceGas(u)
      PROVE  stage'[s] \in {"submitted", "priced", "built"} => tx'[s].req = Sent(form'[s])
  <2>1. /\ stage[u] \in {"submitted", "priced"} /\ u \in Tx
        /\ \A v \in Sends : v # u => stage'[v] = stage[v] /\ tx'[v] = tx[v]
        /\ tx'[u].req = tx[u].req
    <3>0. \A v \in Sends : v \in Tx
      BY DEF Tx
    <3>1. CASE PriceFees(u)
      <4> DEFINE new == [tx[u] EXCEPT !.tip = OrElse(form[u].tip, Tip),
                                      !.cap = OrElse(form[u].cap, MaxFee)]
      <4>1. tx' = [tx EXCEPT ![u] = new] /\ new.req = tx[u].req
        BY <1>3, <3>0, <3>1 DEF PriceFees, Txs
      <4> HIDE DEF new
      <4> QED
        BY <1>3, <3>0, <3>1, <4>1 DEF PriceFees, Stage
    <3>2. CASE PriceGas(u)
      <4>1. \E g : tx' = [tx EXCEPT ![u].gas = g]
        BY <3>2 DEF PriceGas
      <4>2. tx[u] \in Txs
        BY <1>3, <3>0
      <4> QED
        BY <1>3, <3>0, <3>2, <4>1, <4>2 DEF PriceGas, Stage, Txs
    <3> QED
      BY <1>9, <3>1, <3>2
  <2>2. tx[u].req = Sent(form[u])
    BY <2>1 DEF TransferInv, BuiltInv
  <2> QED
    BY <1>1, <1>3, <2>1, <2>2
<1>10. ASSUME NEW r \in Replacements, NEW u \in Tx, Outbid(r, u)
       PROVE  stage'[s] \in {"submitted", "priced", "built"} => tx'[s].req = Sent(form'[s])
  <2>1. UNCHANGED stage /\ (\E new : tx' = [tx EXCEPT ![r] = new]) /\ s # r
    BY <1>10, TxAssumption DEF Outbid
  <2> QED
    BY <1>1, <1>3, <2>1
<1>11. Move => UNCHANGED <<tx, stage>>
  BY DEF Move, build
<1>12. ASSUME NEW u \in Tx, Pay(u)
       PROVE  UNCHANGED <<tx, stage>>
  BY <1>12 DEF Pay
<1>13. UNCHANGED <<vars, tvars>> => Unpriced
  BY DEF Unpriced
<1>14. stage'[s] \in {"submitted", "priced", "built"} => tx'[s].req = Sent(form'[s])
  BY <1>4, <1>5, <1>6, <1>7, <1>8, <1>9, <1>10, <1>11, <1>12, <1>13
  DEF TransferNext, SendStep, ReplaceStep
<1> QED
  BY <1>2, <1>14

\* A replacement goes on outbidding its original.
LEMMA OriginalKept ==
  ASSUME TransferInv, [TransferNext]_<<vars, tvars>>
  PROVE  OriginalInv'
<1>0. TypeOK /\ [Next]_vars /\ tx \in [Tx -> Txs] /\ original \in [Replacements -> Tx \cup {Unset}]
  BY TransferSends DEF TransferInv, NonceInv, TransferTypeOK
<1>1. ASSUME NEW r \in Replacements, NEW t \in Tx, pc'[r] # "idle", WasListed(t),
             tx'[r].tip = Bump(tx[t]).tip, tx'[r].cap = Bump(tx[t]).cap, original'[r] = t
      PROVE  /\ pc'[r] # "idle" /\ pc'[original'[r]] \in {"waiting", "done"}
             /\ tx'[r].tip = Bump(tx'[original'[r]]).tip /\ tx'[r].cap = Bump(tx'[original'[r]]).cap
  <2>1. (t \in Sends /\ stage[t] = "built") \/ (t \in Replacements /\ pc[t] # "idle")
    BY <1>1 DEF TransferInv, BuiltInv, WasListed, Tx
  <2>2. tx'[t] = tx[t]
    BY <2>1, Settled
  <2>3. WasListed(t)'
    BY <1>0, <1>1, PcForward
  <2> QED
    BY <1>1, <2>2, <2>3 DEF WasListed
<1>2. ASSUME NEW r \in Replacements, original'[r] = original[r], original[r] # Unset
      PROVE  /\ pc'[r] # "idle" /\ pc'[original'[r]] \in {"waiting", "done"}
             /\ tx'[r].tip = Bump(tx'[original'[r]]).tip /\ tx'[r].cap = Bump(tx'[original'[r]]).cap
  <2>1. /\ pc[r] # "idle" /\ WasListed(original[r]) /\ original[r] \in Tx /\ r \in Tx
        /\ tx[r].tip = Bump(tx[original[r]]).tip /\ tx[r].cap = Bump(tx[original[r]]).cap
    BY <1>0, <1>2 DEF TransferInv, OriginalInv, Tx
  <2>2. tx'[r] = tx[r]
    BY <2>1, Settled
  <2>3. pc'[r] # "idle"
    BY <1>0, <2>1, PcForward
  <2> QED
    BY <1>1, <1>2, <2>1, <2>2, <2>3
<1>3. ASSUME NEW q \in Replacements, NEW u \in Tx, Outbid(q, u),
             NEW r \in Replacements, original'[r] # Unset
      PROVE  /\ pc'[r] # "idle" /\ pc'[original'[r]] \in {"waiting", "done"}
             /\ tx'[r].tip = Bump(tx'[original'[r]]).tip /\ tx'[r].cap = Bump(tx'[original'[r]]).cap
  <2>1. original' = [original EXCEPT ![q] = u]
    BY <1>3 DEF Outbid
  <2>2. CASE r # q
    BY <1>0, <1>2, <1>3, <2>1, <2>2
  <2>3. CASE r = q
    <3>1. WasListed(u) /\ pc' = [pc EXCEPT ![q] = "found"] /\ q \in Tx /\ tx[u] \in Txs
      BY <1>0, <1>3 DEF Outbid, FindOriginal, Goto, Tx
    <3>2. PICK new \in {Bump(tx[u]), Cancelling(Bump(tx[u]))} : tx' = [tx EXCEPT ![q] = new]
      BY <1>3 DEF Outbid
    <3>3. Bump(tx[u]) \in Txs
      BY <3>1, BumpType
    <3>4. new.tip = Bump(tx[u]).tip /\ new.cap = Bump(tx[u]).cap
      BY <3>2, <3>3 DEF Cancelling, Txs
    <3>5. tx'[q] = new /\ pc'[q] # "idle" /\ original'[q] = u
      BY <1>0, <2>1, <3>1, <3>2 DEF TypeOK
    <3> QED
      BY <1>1, <2>3, <3>1, <3>4, <3>5
  <2> QED
    BY <2>2, <2>3
<1>4. UNCHANGED original \/ \E q \in Replacements, u \in Tx : Outbid(q, u)
  <2>1. Unpriced => UNCHANGED original
    BY DEF Unpriced, tvars, build
  <2>2. ASSUME NEW s \in Sends, Preview(s)
        PROVE  UNCHANGED original
    BY <2>2 DEF Preview, SimulateSend, FallBack, AssetChangesRevert, AssetChanges,
                AlchemyFeesFail, GasFees, CallContract, CallReverts, EstimateGas, SimulateFails,
                Quietly, Simulating, build
  <2>3. ASSUME NEW s \in Sends, Submit(s) \/ SubmitFails(s) \/ PriceFees(s) \/ PriceGas(s)
        PROVE  UNCHANGED original
    BY <2>3 DEF Submit, SubmitFails, PriceFees, PriceGas, Stage
  <2>4. Move => UNCHANGED original
    BY DEF Move, build
  <2>5. ASSUME NEW u \in Tx, Pay(u)
        PROVE  UNCHANGED original
    BY <2>5 DEF Pay
  <2>6. UNCHANGED <<vars, tvars>> => Unpriced
    BY DEF Unpriced
  <2> QED
    BY <2>1, <2>2, <2>3, <2>4, <2>5, <2>6 DEF TransferNext, SendStep, ReplaceStep
<1>5. \A r \in Replacements : original'[r] # Unset =>
        /\ pc'[r] # "idle" /\ pc'[original'[r]] \in {"waiting", "done"}
        /\ tx'[r].tip = Bump(tx'[original'[r]]).tip /\ tx'[r].cap = Bump(tx'[original'[r]]).cap
  BY <1>2, <1>3, <1>4
<1> QED
  BY <1>5 DEF OriginalInv, Bump, WasListed

\* Nothing but Pay mines.
LEMMA OnlyPayMines ==
  ASSUME [TransferNext]_<<vars, tvars>>, ~\E t \in Tx : Pay(t)
  PROVE  UNCHANGED mined
<1> USE DEF node
<1>1. UNCHANGED vars => UNCHANGED mined
  BY DEF vars
<1>2. ASSUME NEW s \in Sends, Preview(s)
      PROVE  UNCHANGED mined
  BY <1>1, <1>2 DEF Preview, SimulateSend, FallBack, AssetChangesRevert, AssetChanges,
                    AlchemyFeesFail, GasFees, CallContract, CallReverts, EstimateGas,
                    SimulateFails, Quietly, Simulating
<1>3. ASSUME NEW s \in Sends, Submit(s) \/ SubmitFails(s) \/ PriceFees(s) \/ PriceGas(s)
      PROVE  UNCHANGED mined
  BY <1>1, <1>3 DEF Submit, SubmitFails, PriceFees, PriceGas
<1>4. ASSUME NEW s \in Sends, SendStep(s)
      PROVE  UNCHANGED mined
  BY <1>4 DEF SendStep, NextNonce, NextNonceFails, PrepareFails, Broadcast, BroadcastFails,
              Receipt, Abandon, Accept
<1>5. ASSUME NEW r \in Replacements, ReplaceStep(r)
      PROVE  UNCHANGED mined
  BY <1>5 DEF ReplaceStep, Outbid, FindOriginal, OriginalGone, ReplaceBroadcast, ReplaceFails,
              Accept
<1>6. ASSUME NEW t \in Tx, Register(t) \/ Prune(t) \/ PruneOnError(t) \/ Evict(t)
      PROVE  UNCHANGED mined
  BY <1>6 DEF Register, Prune, PruneOnError, Evict
<1>7. Move => UNCHANGED mined
  BY <1>1 DEF Move
<1> QED
  BY <1>1, <1>2, <1>3, <1>4, <1>5, <1>6, <1>7
  DEF TransferNext, Registering, pruneStalePending

\* A bill is written when a call is priced and when a block takes it.
LEMMA BillKept ==
  ASSUME [TransferNext]_<<vars, tvars>>, ~\E t \in Tx : Pay(t), ~\E s \in Sends : PriceFees(s)
  PROVE  UNCHANGED bill
<1>1. Unpriced => UNCHANGED bill
  BY DEF Unpriced, tvars, build
<1>2. ASSUME NEW s \in Sends, Preview(s)
      PROVE  UNCHANGED bill
  BY <1>2 DEF Preview, SimulateSend, FallBack, AssetChangesRevert, AssetChanges, AlchemyFeesFail,
              GasFees, CallContract, CallReverts, EstimateGas, SimulateFails, Quietly, Simulating,
              build
<1>3. ASSUME NEW s \in Sends, Submit(s) \/ SubmitFails(s) \/ PriceGas(s)
      PROVE  UNCHANGED bill
  BY <1>3 DEF Submit, SubmitFails, PriceGas
<1>4. ASSUME NEW s \in Sends, SendStep(s)
      PROVE  UNCHANGED bill
  BY <1>1, <1>4 DEF SendStep
<1>5. ASSUME NEW r \in Replacements, ReplaceStep(r)
      PROVE  UNCHANGED bill
  BY <1>1, <1>5 DEF ReplaceStep, Outbid
<1>6. Move => UNCHANGED bill
  BY DEF Move, build
<1>7. UNCHANGED <<vars, tvars>> => Unpriced
  BY DEF Unpriced
<1> QED
  BY <1>1, <1>2, <1>3, <1>4, <1>5, <1>6, <1>7 DEF TransferNext

\* The transaction of a call changes by the steps of its building.
LEMMA TxKept ==
  ASSUME TransferInv, [TransferNext]_<<vars, tvars>>, NEW s \in Sends,
         ~(Submit(s) \/ SubmitFails(s) \/ PriceFees(s) \/ PriceGas(s))
  PROVE  tx'[s] = tx[s] /\ stage'[s] = stage[s]
<1>0. tx \in [Tx -> Txs] /\ stage \in [Sends -> Stages] /\ s \in Tx
  BY DEF TransferInv, TransferTypeOK, Tx
<1>1. Unpriced => UNCHANGED <<tx, stage>>
  BY DEF Unpriced, tvars, build
<1>2. ASSUME NEW u \in Sends, Preview(u)
      PROVE  UNCHANGED <<tx, stage>>
  BY <1>2 DEF Preview, SimulateSend, FallBack, AssetChangesRevert, AssetChanges, AlchemyFeesFail,
              GasFees, CallContract, CallReverts, EstimateGas, SimulateFails, Quietly, Simulating,
              build
<1>3. ASSUME NEW u \in Sends, u # s, Submit(u) \/ SubmitFails(u) \/ PriceFees(u) \/ PriceGas(u)
      PROVE  tx'[s] = tx[s] /\ stage'[s] = stage[s]
  <2>1. (\E to : stage' = [stage EXCEPT ![u] = to]) /\ (tx' = tx \/ \E new : tx' = [tx EXCEPT ![u] = new])
    BY <1>3 DEF Submit, SubmitFails, PriceFees, PriceGas, Stage
  <2> QED
    BY <1>0, <1>3, <2>1
<1>4. ASSUME NEW r \in Replacements, NEW u \in Tx, Outbid(r, u)
      PROVE  tx'[s] = tx[s] /\ stage'[s] = stage[s]
  <2>1. UNCHANGED stage /\ (\E new : tx' = [tx EXCEPT ![r] = new]) /\ s # r
    BY <1>4, TxAssumption DEF Outbid
  <2> QED
    BY <1>0, <2>1
<1>5. Move => UNCHANGED <<tx, stage>>
  BY DEF Move, build
<1>6. ASSUME NEW u \in Tx, Pay(u)
      PROVE  UNCHANGED <<tx, stage>>
  BY <1>6 DEF Pay
<1>7. UNCHANGED <<vars, tvars>> => Unpriced
  BY DEF Unpriced
<1> QED
  BY <1>1, <1>2, <1>3, <1>4, <1>5, <1>6, <1>7 DEF TransferNext, SendStep, ReplaceStep

\* The base fee a call was priced at stays on its bill.
LEMMA AskedKept ==
  ASSUME TransferInv, [TransferNext]_<<vars, tvars>>, NEW s \in Previewed, ~PriceFees(s)
  PROVE  bill'[s].asked = bill[s].asked
<1>1. bill \in [Previewed -> Bills] /\ bill[s] \in Bills
  BY DEF TransferInv, TransferTypeOK
<1>2. ASSUME NEW t \in Tx, Pay(t)
      PROVE  bill'[s].asked = bill[s].asked
  BY <1>1, <1>2 DEF Pay, Bills
<1>3. ASSUME NEW u \in Sends, PriceFees(u)
      PROVE  bill'[s].asked = bill[s].asked
  BY <1>1, <1>3 DEF PriceFees
<1> QED
  BY <1>2, <1>3, BillKept

\* Fees the user left open are those of the moment of pricing, and stay.
LEMMA PricedKept ==
  ASSUME TransferInv, [TransferNext]_<<vars, tvars>>
  PROVE  PricedInv'
<1> SUFFICES ASSUME NEW s \in Previewed, stage'[s] \in {"priced", "built"}
             PROVE  /\ form'[s].cap = Unset => tx'[s].cap = MaxFeeAt(bill'[s].asked)
                    /\ form'[s].tip = Unset => tx'[s].tip = Tip
  BY DEF PricedInv, MaxFeeAt
<1>0. /\ s \in Sends /\ s \in Tx /\ UNCHANGED form
      /\ tx \in [Tx -> Txs] /\ tx[s] \in Txs /\ stage \in [Sends -> Stages]
      /\ bill \in [Previewed -> Bills] /\ bill[s] \in Bills
  BY FormKept, TransferAssumption DEF TransferInv, TransferTypeOK, Tx
<1>1. stage[s] \in {"priced", "built"} =>
        /\ form[s].cap = Unset => tx[s].cap = MaxFeeAt(bill[s].asked)
        /\ form[s].tip = Unset => tx[s].tip = Tip
  BY DEF TransferInv, PricedInv
<1>2. CASE PriceFees(s)
  <2>1. PICK tip, cap : tip = OrElse(form[s].tip, Tip) /\ cap = OrElse(form[s].cap, MaxFee)
    OBVIOUS
  <2>2. tx' = [tx EXCEPT ![s] = [tx[s] EXCEPT !.tip = tip, !.cap = cap]]
    BY <1>2, <2>1 DEF PriceFees
  <2>3. tx'[s].tip = tip /\ tx'[s].cap = cap
    BY <1>0, <2>2 DEF Txs
  <2>4. bill'[s].asked = base
    BY <1>0, <1>2 DEF PriceFees, Bills
  <2> QED
    BY <1>0, <2>1, <2>3, <2>4 DEF OrElse, MaxFee
<1>3. CASE ~PriceFees(s)
  <2>1. bill'[s].asked = bill[s].asked
    BY <1>3, AskedKept
  <2>2. ~(Submit(s) \/ SubmitFails(s))
    BY <1>0 DEF Submit, SubmitFails, Stage
  <2>3. tx'[s].cap = tx[s].cap /\ tx'[s].tip = tx[s].tip /\ stage[s] \in {"priced", "built"}
    <3>1. CASE PriceGas(s)
      <4>1. stage[s] = "priced" /\ \E g : tx' = [tx EXCEPT ![s].gas = g]
        BY <3>1 DEF PriceGas, Stage
      <4> QED
        BY <1>0, <4>1 DEF Txs
    <3>2. CASE ~PriceGas(s)
      BY <1>0, <1>3, <2>2, <3>2, TxKept
    <3> QED
      BY <3>1, <3>2
  <2> QED
    BY <1>0, <1>1, <2>1, <2>3
<1> QED
  BY <1>2, <1>3

\* More gas, or a higher price of gas, more cost.
LEMMA CostGrows ==
  ASSUME NEW less \in Nat, NEW more \in Nat, less <= more,
         NEW low \in Nat, NEW high \in Nat, low <= high
  PROVE  less * low <= more * high
<1>1. PICK d \in Nat : high = low + d
  <2>1. high - low \in Nat /\ high = low + (high - low)
    OBVIOUS
  <2> QED
    BY <2>1
<1>2. PICK e \in Nat : more = less + e
  <2>1. more - less \in Nat /\ more = less + (more - less)
    OBVIOUS
  <2> QED
    BY <2>1
<1>3. more * high = less * high + e * high /\ less * high = less * low + less * d
  BY <1>1, <1>2
<1>4. e * high \in Nat /\ less * d \in Nat /\ less * low \in Nat
  BY <1>1, <1>2
<1> QED
  BY <1>3, <1>4

\* What a block takes for the gas stays within cap, base fee and tip.
LEMMA PaidKept ==
  ASSUME TransferInv, [TransferNext]_<<vars, tvars>>
  PROVE  PaidInv'
<1> SUFFICES ASSUME NEW s \in Previewed, s \in mined'
             PROVE  \E price \in Nat :
                      /\ price <= tx'[s].cap /\ price <= bill'[s].base + tx'[s].tip
                      /\ bill'[s].cost = bill'[s].gas * price
  BY DEF PaidInv
<1>0. s \in Sends /\ s \in Tx /\ bill \in [Previewed -> Bills] /\ bill[s] \in Bills
  BY TransferAssumption DEF TransferInv, TransferTypeOK, Tx
<1>1. stage[s] = "built"
  BY <1>0, NearIsBuilt DEF Near
<1>2. tx'[s] = tx[s]
  BY <1>0, <1>1, Settled
<1>3. ASSUME NEW t \in Tx, Pay(t)
      PROVE  \E price \in Nat :
               /\ price <= tx'[s].cap /\ price <= bill'[s].base + tx'[s].tip
               /\ bill'[s].cost = bill'[s].gas * price
  <2>1. CASE t # s
    <3>1. bill'[s] = bill[s] /\ s \in mined
      BY <1>0, <1>3, <2>1 DEF Pay, Mine
    <3> QED
      BY <1>2, <3>1 DEF TransferInv, PaidInv
  <2>2. CASE t = s
    <3>1. PICK gas, price : gas = GasUsed(tx[s]) /\ price = GasPrice(tx[s])
      OBVIOUS
    <3>2. /\ bill'[s].gas = gas /\ bill'[s].base = base /\ bill'[s].cost = gas * price
          /\ base <= tx[s].cap
      BY <1>0, <1>3, <2>2, <3>1 DEF Pay, Bills
    <3>3. tx[s].cap \in Nat /\ tx[s].tip \in Nat /\ base \in Nat
      BY <1>0, FeeTypes DEF TransferInv, TransferTypeOK, Txs
    <3>4. price \in Nat /\ price <= tx[s].cap /\ price <= base + tx[s].tip
      BY <3>1, <3>3 DEF GasPrice
    <3> QED
      BY <1>2, <3>2, <3>4
  <2> QED
    BY <2>1, <2>2
<1>4. CASE ~\E t \in Tx : Pay(t)
  <2>1. s \in mined
    BY <1>4, OnlyPayMines
  <2>2. bill'[s] = bill[s]
    <3>1. ASSUME NEW u \in Sends, PriceFees(u)
          PROVE  bill'[s] = bill[s]
      <4>1. u # s
        BY <1>1, <3>1 DEF PriceFees, Stage
      <4> QED
        BY <1>0, <3>1, <4>1 DEF PriceFees
    <3> QED
      BY <1>4, <3>1, BillKept
  <2> QED
    BY <1>2, <2>1, <2>2 DEF TransferInv, PaidInv
<1> QED
  BY <1>3, <1>4

\* The screen changes by a step of a preview or a move of the chain.
LEMMA ScreenKept ==
  ASSUME [TransferNext]_<<vars, tvars>>, ~Move, ~\E s \in Sends : Preview(s)
  PROVE  UNCHANGED <<screen, chain>>
<1>1. Unpriced => UNCHANGED <<screen, chain>>
  BY DEF Unpriced, tvars
<1>2. ASSUME NEW s \in Sends, Submit(s) \/ SubmitFails(s) \/ PriceFees(s) \/ PriceGas(s)
      PROVE  UNCHANGED <<screen, chain>>
  BY <1>2 DEF Submit, SubmitFails, PriceFees, PriceGas, Stage
<1>3. ASSUME NEW r \in Replacements, NEW u \in Tx, Outbid(r, u)
      PROVE  UNCHANGED <<screen, chain>>
  BY <1>3 DEF Outbid
<1>4. ASSUME NEW u \in Tx, Pay(u)
      PROVE  UNCHANGED <<screen, chain>>
  BY <1>4 DEF Pay
<1>5. UNCHANGED <<vars, tvars>> => Unpriced
  BY DEF Unpriced
<1> QED
  BY <1>1, <1>2, <1>3, <1>4, <1>5 DEF TransferNext, SendStep, ReplaceStep

\* What a preview p of a call shows is of its form, and, if the chain has not
\* moved, is what the chain says.
Told(s, p) ==
  /\ p.kind # "none" => p.req = Simulated(form[s])
  /\ p.kind = "ok" => p.cost = p.gas * MaxFeeAt(p.base)
Holds(s, p) ==
  p.steady = TRUE =>
    /\ p.kind = "ok" => Executes(Simulated(form[s])) /\ Named(s, p.gas, p.path)
    /\ p.kind = "revert" => ~Executes(Simulated(form[s]))

\* The same for what the preview has been told on its way, m.
Valid(s, m) ==
  /\ m.at \in {"alchemyFees", "estimate", "fees"} => Executes(Simulated(form[s]))
  /\ m.at = "alchemyFees" => Named(s, m.gas, "alchemy")
  /\ m.at = "fees" => Named(s, m.gas, "call")

\* The two parts of the invariant, said with these.
LEMMA ScreenInv ==
  /\ ShownInv <=> \A s \in Sends : Told(s, preview[s])
  /\ SteadyInv <=> \A s \in Sends : steady[s] = TRUE => Valid(s, sim[s]) /\ Holds(s, preview[s])
BY Zenon DEF ShownInv, SteadyInv, Told, Holds, Valid

\* A step of one preview keeps the invariant if what it is told and shows is.
LEMMA PreviewKeeps ==
  ASSUME TransferInv, NEW s \in Sends, NEW m \in Sims, NEW p,
         sim' = [sim EXCEPT ![s] = m], preview' = [preview EXCEPT ![s] = p],
         \A u \in Sends \ {s} : steady'[u] = steady[u],
         UNCHANGED <<form, chain>>,
         Told(s, p),
         steady'[s] = TRUE => Valid(s, m) /\ Holds(s, p)
  PROVE  ShownInv' /\ SteadyInv'
<1>1. sim \in [Sends -> Sims] /\ preview \in [Sends -> Previews]
  BY DEF TransferInv, TransferTypeOK
<1>2. /\ sim'[s] = m /\ preview'[s] = p
      /\ \A u \in Sends \ {s} : sim'[u] = sim[u] /\ preview'[u] = preview[u]
  BY <1>1
<1>3. ASSUME NEW u \in Sends
      PROVE  /\ Told(u, preview'[u])
             /\ steady'[u] = TRUE => Valid(u, sim'[u]) /\ Holds(u, preview'[u])
  <2>1. CASE u = s
    BY <1>2, <2>1
  <2>2. CASE u # s
    BY <1>2, <2>2, ScreenInv DEF TransferInv
  <2> QED
    BY <2>1, <2>2
<1>4. /\ \A u \in Sends : Told(u, preview[u])'
      /\ \A u \in Sends : (steady[u] = TRUE => Valid(u, sim[u]) /\ Holds(u, preview[u]))'
  <2>1. /\ form' = form /\ balance' = balance /\ need' = need
    BY DEF chain
  <2>2. \A u \in Sends : Told(u, preview[u])'
    BY <1>3, <2>1 DEF Told
  <2>3. ASSUME NEW u \in Sends, steady'[u] = TRUE
        PROVE  Valid(u, sim[u])'
    BY <1>3, <2>1, <2>3 DEF Valid, Named, Executes
  <2>4. ASSUME NEW u \in Sends, steady'[u] = TRUE
        PROVE  Holds(u, preview[u])'
    BY <1>3, <2>1, <2>4 DEF Holds, Named, Executes
  <2> QED
    BY <2>2, <2>3, <2>4
<1>5. ShownInv'
  BY <1>4, Zenon DEF ShownInv, Told
<1>6. SteadyInv'
  BY <1>4, Zenon DEF SteadyInv, Valid, Holds
<1> QED
  BY <1>5, <1>6

\* A step on which nothing is shown yet.
LEMMA QuietKeeps ==
  ASSUME TransferInv, NEW s \in Sends, NEW m \in Sims,
         sim' = [sim EXCEPT ![s] = m], UNCHANGED <<preview, steady, form, chain>>,
         Valid(s, m)
  PROVE  ShownInv' /\ SteadyInv'
<1>1. preview' = [preview EXCEPT ![s] = preview[s]]
  BY DEF TransferInv, TransferTypeOK
<1>2. Told(s, preview[s]) /\ (steady[s] = TRUE => Holds(s, preview[s]))
  BY ScreenInv DEF TransferInv
<1> QED
  BY <1>1, <1>2, PreviewKeeps

\* A step that shows a result.
LEMMA ShowKeeps ==
  ASSUME TransferInv, NEW s \in Sends, NEW kind \in {"ok", "revert", "error"},
         NEW path \in {"alchemy", "call"}, NEW gas \in Nat,
         sim' = [sim EXCEPT ![s] = [at |-> "shown", gas |-> 0]], UNCHANGED <<form, chain>>,
         Shows(s, kind, path, gas),
         steady[s] = TRUE /\ kind = "ok" => Executes(Simulated(form[s])) /\ Named(s, gas, path),
         kind = "revert" => ~Executes(Simulated(form[s]))
  PROVE  ShownInv' /\ SteadyInv'
<1> DEFINE m == [at |-> "shown", gas |-> 0]
           p == [kind |-> kind, req |-> Simulated(form[s]), path |-> path, gas |-> gas,
                 cost |-> EstimatedCost(gas), base |-> base, steady |-> steady[s]]
<1>1. m \in Sims /\ m.at = "shown" /\ sim' = [sim EXCEPT ![s] = m]
  BY DEF Sims
<1>2. preview' = [preview EXCEPT ![s] = p] /\ UNCHANGED steady
  BY DEF Shows
<1>3. /\ p.kind = kind /\ p.req = Simulated(form[s]) /\ p.gas = gas /\ p.path = path
      /\ p.cost = EstimatedCost(gas) /\ p.base = base
  OBVIOUS
<1> HIDE DEF m, p
<1>4. Told(s, p)
  BY <1>3 DEF Told, EstimatedCost, MaxFee
<1>5. steady'[s] = TRUE => Valid(s, m) /\ Holds(s, p)
  BY <1>1, <1>2, <1>3 DEF Valid, Holds
<1> QED
  BY <1>1, <1>2, <1>4, <1>5, PreviewKeeps

\* Each step of SimulateSend.
LEMMA PreviewStepKeeps ==
  ASSUME TransferInv, NEW s \in Sends, Preview(s)
  PROVE  ShownInv' /\ SteadyInv'
<1> USE DEF Quietly, Simulating
<1>0. /\ TransferTypeOK /\ sim \in [Sends -> Sims] /\ steady \in [Sends -> BOOLEAN]
      /\ preview \in [Sends -> Previews] /\ sim[s] \in Sims
      /\ steady[s] = TRUE => Valid(s, sim[s])
  BY ScreenInv DEF TransferInv, TransferTypeOK
<1>1. need[form[s].asset] \in Nat /\ sim[s].gas \in Nat
  BY <1>0, FormType DEF TransferTypeOK, Sims
<1>2. CASE SimulateSend(s)
  <2> DEFINE m == [at |-> "alchemy", gas |-> 0]
  <2>1. m \in Sims /\ m.at = "alchemy"
    BY DEF Sims
  <2>2. /\ sim' = [sim EXCEPT ![s] = m] /\ steady' = [steady EXCEPT ![s] = TRUE]
        /\ UNCHANGED <<preview, form, chain>> /\ preview[s].kind = "none"
    BY <1>2 DEF SimulateSend
  <2> HIDE DEF m
  <2>3. preview' = [preview EXCEPT ![s] = preview[s]] /\ \A u \in Sends \ {s} : steady'[u] = steady[u]
    BY <1>0, <2>2
  <2>4. Told(s, preview[s]) /\ Valid(s, m) /\ Holds(s, preview[s])
    BY <2>1, <2>2 DEF Told, Valid, Holds
  <2> QED
    BY <2>1, <2>2, <2>3, <2>4, PreviewKeeps
<1>3. ASSUME NEW to \in {"call", "estimate", "fees", "alchemyFees"}, NEW gas \in Nat,
             sim' = [sim EXCEPT ![s] = [at |-> to, gas |-> gas]],
             UNCHANGED <<preview, steady, form, chain>>,
             to = "alchemyFees" => Named(s, gas, "alchemy"),
             to = "fees" => Named(s, gas, "call"),
             to # "call" => Executes(Simulated(form[s]))
      PROVE  ShownInv' /\ SteadyInv'
  <2> DEFINE m == [at |-> to, gas |-> gas]
  <2>1. m \in Sims /\ m.at = to /\ m.gas = gas /\ sim' = [sim EXCEPT ![s] = m]
    BY <1>3 DEF Sims
  <2> HIDE DEF m
  <2>2. Valid(s, m)
    BY <1>3, <2>1 DEF Valid
  <2> QED
    BY <1>3, <2>1, <2>2, QuietKeeps
<1>4. CASE FallBack(s) \/ AlchemyFeesFail(s)
  BY <1>3, <1>4 DEF FallBack, AlchemyFeesFail
<1>5. CASE AssetChanges(s)
  <2>1. PICK gas \in {0, need[form[s].asset]} : Quietly(s, "alchemy", "alchemyFees", gas)
    BY <1>5 DEF AssetChanges
  <2>2. gas \in Nat /\ Named(s, gas, "alchemy") /\ Executes(Simulated(form[s]))
    BY <1>1, <1>5, <2>1 DEF AssetChanges, Named
  <2> QED
    BY <1>3, <2>1, <2>2
<1>6. CASE CallContract(s)
  BY <1>3, <1>6 DEF CallContract
<1>7. CASE EstimateGas(s)
  BY <1>1, <1>3, <1>7 DEF EstimateGas, Named
<1>8. CASE AssetChangesRevert(s) \/ CallReverts(s)
  BY <1>8, ShowKeeps DEF AssetChangesRevert, CallReverts
<1>9. CASE GasFees(s)
  <2>1. CASE Simulating(s, "alchemyFees", "shown", 0) /\ Shows(s, "ok", "alchemy", sim[s].gas)
    <3>1. steady[s] = TRUE => Executes(Simulated(form[s])) /\ Named(s, sim[s].gas, "alchemy")
      BY <1>0, <2>1 DEF Valid
    <3> QED
      BY <1>1, <2>1, <3>1, ShowKeeps
  <2>2. CASE Simulating(s, "fees", "shown", 0) /\ Shows(s, "ok", "call", sim[s].gas)
    <3>1. steady[s] = TRUE => Executes(Simulated(form[s])) /\ Named(s, sim[s].gas, "call")
      BY <1>0, <2>2 DEF Valid
    <3> QED
      BY <1>1, <2>2, <3>1, ShowKeeps
  <2> QED
    BY <1>9, <2>1, <2>2 DEF GasFees
<1>10. CASE SimulateFails(s)
  BY <1>10, ShowKeeps DEF SimulateFails
<1> QED
  BY <1>2, <1>4, <1>5, <1>6, <1>7, <1>8, <1>9, <1>10 DEF Preview

\* Whatever moves, a preview shows no more than it was told.
LEMMA ScreensKept ==
  ASSUME TransferInv, [TransferNext]_<<vars, tvars>>
  PROVE  ShownInv' /\ SteadyInv'
<1>1. CASE Move
  <2>1. UNCHANGED <<form, sim, preview>> /\ \A s \in Sends : steady'[s] = FALSE
    BY <1>1 DEF Move
  <2> QED
    BY <2>1 DEF ShownInv, SteadyInv, TransferInv
<1>2. CASE \E s \in Sends : Preview(s)
  BY <1>2, PreviewStepKeeps
<1>3. CASE UNCHANGED <<screen, chain>>
  BY <1>3 DEF ShownInv, SteadyInv, TransferInv, screen, chain, Named, Executes
<1> QED
  BY <1>1, <1>2, <1>3, ScreenKept

\* A request, a gas amount and fees make a transaction.
LEMMA TypesKept ==
  ASSUME TransferInv, [TransferNext]_<<vars, tvars>>
  PROVE  TransferTypeOK'
<1>0. TransferTypeOK /\ UNCHANGED form
  BY FormKept DEF TransferInv
<1>1. Unpriced => TransferTypeOK'
  BY <1>0 DEF Unpriced, tvars, screen, chain, build, TransferTypeOK
<1>2. CASE Move
  <2>1. base' \in Base
    BY <1>0, <1>2 DEF Move, TransferTypeOK
  <2>2. balance' \in [Asset -> Nat]
    BY <1>0, <1>2, TransferAssumption DEF Move, TransferTypeOK
  <2>3. need' \in [Asset -> Nat]
    BY <1>0, <1>2, TransferAssumption DEF Move, TransferTypeOK
  <2> QED
    BY <1>0, <1>2, <2>1, <2>2, <2>3 DEF Move, build, TransferTypeOK
<1>3. ASSUME NEW s \in Sends, Preview(s)
      PROVE  TransferTypeOK'
  <2>1. UNCHANGED <<chain, build, moves>>
    BY <1>3 DEF Preview, SimulateSend, FallBack, AssetChangesRevert, AssetChanges,
                AlchemyFeesFail, GasFees, CallContract, CallReverts, EstimateGas, SimulateFails,
                Quietly, Simulating
  <2>2. /\ need[form[s].asset] \in Nat /\ base \in Nat /\ MaxFee \in Nat /\ sim[s].gas \in Nat
        /\ Simulated(form[s]) \in Requests /\ steady[s] \in BOOLEAN
    <3>1. need[form[s].asset] \in Nat /\ MaxFee \in Nat /\ base \in Nat
      BY <1>0, FormType, FeeTypes DEF TransferTypeOK
    <3>2. sim[s].gas \in Nat /\ steady[s] \in BOOLEAN
      BY <1>0 DEF TransferTypeOK, Sims
    <3>3. Simulated(form[s]) \in Requests
      BY <1>0, RequestOf, SentIsSimulated
    <3> QED
      BY <3>1, <3>2, <3>3
  <2>3. sim' \in [Sends -> Sims]
    <3>1. \E to \in {"alchemy", "alchemyFees", "call", "estimate", "fees", "shown"}, gas \in Nat :
            sim' = [sim EXCEPT ![s] = [at |-> to, gas |-> gas]]
      BY <1>3, <2>2 DEF Preview, SimulateSend, FallBack, AssetChangesRevert, AssetChanges,
                  AlchemyFeesFail, GasFees, CallContract, CallReverts, EstimateGas,
                  SimulateFails, Quietly, Simulating
    <3> QED
      BY <1>0, <3>1 DEF TransferTypeOK, Sims
  <2>4. steady' \in [Sends -> BOOLEAN]
    <3>1. UNCHANGED steady \/ steady' = [steady EXCEPT ![s] = TRUE]
      BY <1>3 DEF Preview, SimulateSend, FallBack, AssetChangesRevert, AssetChanges,
                  AlchemyFeesFail, GasFees, CallContract, CallReverts, EstimateGas,
                  SimulateFails, Quietly, Shows
    <3> QED
      BY <1>0, <3>1 DEF TransferTypeOK
  <2>5. preview' \in [Sends -> Previews]
    <3>1. UNCHANGED preview \/
          \E kind \in {"ok", "revert", "error"}, path \in {"alchemy", "call"}, gas \in Nat :
            Shows(s, kind, path, gas)
      BY <1>3, <2>2 DEF Preview, SimulateSend, FallBack, AssetChangesRevert, AssetChanges,
                        AlchemyFeesFail, GasFees, CallContract, CallReverts, EstimateGas,
                        SimulateFails, Quietly
    <3>2. ASSUME NEW kind \in {"ok", "revert", "error"}, NEW path \in {"alchemy", "call"},
                 NEW gas \in Nat, Shows(s, kind, path, gas)
          PROVE  preview' \in [Sends -> Previews]
      <4> DEFINE p == [kind |-> kind, req |-> Simulated(form[s]), path |-> path, gas |-> gas,
                       cost |-> EstimatedCost(gas), base |-> base, steady |-> steady[s]]
      <4>1. EstimatedCost(gas) \in Nat
        BY <2>2 DEF EstimatedCost
      <4>2. p \in Previews
        BY <2>2, <4>1 DEF Previews
      <4>3. preview' = [preview EXCEPT ![s] = p]
        BY <3>2 DEF Shows
      <4> HIDE DEF p
      <4> QED
        BY <1>0, <4>2, <4>3 DEF TransferTypeOK
    <3> QED
      BY <1>0, <3>1, <3>2 DEF TransferTypeOK
  <2> QED
    BY <1>0, <2>1, <2>3, <2>4, <2>5 DEF TransferTypeOK, chain, build
<1>4. ASSUME NEW s \in Sends, Submit(s) \/ SubmitFails(s) \/ PriceFees(s) \/ PriceGas(s)
      PROVE  TransferTypeOK'
  <2>1. /\ UNCHANGED <<screen, chain, original, moves>>
        /\ \E to \in Stages : stage' = [stage EXCEPT ![s] = to]
    BY <1>4 DEF Submit, SubmitFails, PriceFees, PriceGas, Stage, Stages
  <2>2. tx \in [Tx -> Txs] /\ s \in Tx /\ tx[s] \in Txs /\ stage \in [Sends -> Stages]
    BY <1>0 DEF TransferTypeOK, Tx
  <2>3. tx' \in [Tx -> Txs]
    <3>1. CASE Submit(s)
      BY <1>0, <2>2, <3>1, RequestOf DEF Submit, Txs
    <3>2. CASE SubmitFails(s)
      BY <2>2, <3>2 DEF SubmitFails
    <3>3. CASE PriceFees(s)
      <4>1. PICK tip, cap : /\ tip = OrElse(form[s].tip, Tip) /\ cap = OrElse(form[s].cap, MaxFee)
        OBVIOUS
      <4>2. tip \in Nat /\ cap \in Nat
        BY <1>0, <4>1, FeeTypes
      <4>3. tx' = [tx EXCEPT ![s] = [tx[s] EXCEPT !.tip = tip, !.cap = cap]]
        BY <3>3, <4>1 DEF PriceFees
      <4> QED
        BY <2>2, <4>2, <4>3 DEF Txs
    <3>4. CASE PriceGas(s)
      <4>1. stage[s] = "priced" /\ tx' = [tx EXCEPT ![s].gas = (need[AssetOf(tx[s].req)] * 12) \div 10]
        BY <3>4 DEF PriceGas, Stage
      <4>3. PICK g : g = need[AssetOf(tx[s].req)]
        OBVIOUS
      <4>4. g \in Nat
        BY <1>0, <2>2, <4>3, GasType
      <4>5. (g * 12) \div 10 \in Nat
        BY <4>4
      <4> QED
        BY <2>2, <4>1, <4>3, <4>5 DEF Txs
    <3> QED
      BY <1>4, <3>1, <3>2, <3>3, <3>4
  <2>4. bill' \in [Previewed -> Bills]
    <3>1. CASE UNCHANGED bill
      BY <1>0, <3>1 DEF TransferTypeOK
    <3>2. CASE PriceFees(s)
      <4>1. \A b \in Previewed : bill[b] \in Bills /\ base \in Nat
        BY <1>0, FeeTypes DEF TransferTypeOK
      <4>2. \A b \in Previewed : [bill[b] EXCEPT !.asked = base] \in Bills
        BY <4>1 DEF Bills
      <4> QED
        BY <3>2, <4>1, <4>2 DEF PriceFees
    <3> QED
      BY <1>4, <3>1, <3>2 DEF Submit, SubmitFails, PriceGas
  <2> QED
    BY <1>0, <2>1, <2>2, <2>3, <2>4 DEF TransferTypeOK, screen, chain
<1>5. ASSUME NEW r \in Replacements, NEW t \in Tx, Outbid(r, t)
      PROVE  TransferTypeOK'
  <2>1. tx \in [Tx -> Txs] /\ tx[t] \in Txs /\ r \in Tx
    BY <1>0 DEF TransferTypeOK, Tx
  <2>2. Bump(tx[t]) \in Txs
    BY <2>1, BumpType
  <2>3. Cancelling(Bump(tx[t])) \in Txs
    <3>1. Request("self", 0, 0) \in Requests /\ TxGas \in Nat
      BY TransferAssumption DEF Request, Requests
    <3> QED
      BY <2>2, <3>1 DEF Cancelling, Txs
  <2>4. tx' \in [Tx -> Txs]
    <3>1. PICK new \in {Bump(tx[t]), Cancelling(Bump(tx[t]))} : tx' = [tx EXCEPT ![r] = new]
      BY <1>5 DEF Outbid
    <3> QED
      BY <2>1, <2>2, <2>3, <3>1
  <2>5. original' \in [Replacements -> Tx \cup {Unset}]
    BY <1>0, <1>5 DEF Outbid, TransferTypeOK
  <2> QED
    BY <1>0, <1>5, <2>4, <2>5 DEF Outbid, screen, chain, TransferTypeOK
<1>6. ASSUME NEW t \in Tx, Pay(t)
      PROVE  TransferTypeOK'
  <2>1. tx[t] \in Txs /\ tx[t].cap \in Nat /\ tx[t].tip \in Nat /\ base \in Nat
    BY <1>0, TransferAssumption DEF TransferTypeOK, Txs
  <2>2. PICK gas, price : gas = GasUsed(tx[t]) /\ price = GasPrice(tx[t])
    OBVIOUS
  <2>3. gas \in Nat
    BY <1>0, <2>1, <2>2, GasType
  <2>4. price \in Nat
    BY <2>1, <2>2 DEF GasPrice
  <2>5. gas * price \in Nat
    BY <2>3, <2>4
  <2>6. bill' = [b \in Previewed |->
          IF b # t THEN bill[b]
          ELSE [bill[b] EXCEPT !.gas = gas, !.base = base, !.cost = gas * price]]
    BY <1>6, <2>2 DEF Pay
  <2>7. \A b \in Previewed : bill[b] \in Bills
    BY <1>0 DEF TransferTypeOK
  <2>8. \A b \in Previewed :
          [bill[b] EXCEPT !.gas = gas, !.base = base, !.cost = gas * price] \in Bills
    BY <2>1, <2>3, <2>5, <2>7 DEF Bills
  <2>9. bill' \in [Previewed -> Bills]
    BY <2>6, <2>7, <2>8
  <2> QED
    BY <1>0, <1>6, <2>9 DEF Pay, screen, chain, TransferTypeOK
<1>7. UNCHANGED <<vars, tvars>> => Unpriced
  BY DEF Unpriced
<1> QED
  BY <1>1, <1>2, <1>3, <1>4, <1>5, <1>6, <1>7 DEF TransferNext, SendStep, ReplaceStep

-----------------------------------------------------------------------------
(* The theorems on Transfer. *)

\* The form is open, nothing is priced, and no call has begun.
LEMMA TransferStarts ==
  ASSUME TransferInit
  PROVE  TransferInv
<1>1. NonceInv
  BY CounterStarts DEF TransferInit
<1>2. TransferTypeOK
  <2>1. /\ [req |-> [to |-> "none", value |-> 0, units |-> 0], gas |-> 0, tip |-> 0, cap |-> 0] \in Txs
        /\ [at |-> "idle", gas |-> 0] \in Sims
        /\ [asked |-> 0, gas |-> 0, base |-> 0, cost |-> 0] \in Bills
    BY DEF Txs, Requests, Sims, Bills
  <2>2. NoPreview \in Previews
    BY DEF NoPreview, NoRequest, Request, Requests, Previews
  <2> QED
    BY <2>1, <2>2, TransferAssumption
    DEF TransferInit, TransferTypeOK, NoTx, NoSim, NoBill, NoRequest, Request, Stages
<1>3. BuiltInv /\ ShownInv /\ SteadyInv
  BY DEF TransferInit, Init, BuiltInv, ShownInv, SteadyInv, NoPreview, NoSim, Tx
<1>4. PricedInv /\ PaidInv
  BY TransferAssumption DEF TransferInit, Init, PricedInv, PaidInv
<1>5. OriginalInv
  BY DEF TransferInit, OriginalInv
<1> QED
  BY <1>1, <1>2, <1>3, <1>4, <1>5 DEF TransferInv

(***************************************************************************)
(* The inductive invariant of a send, from its form to the mempool: what   *)
(* is near the node was built from its form and changes no more, a preview *)
(* shows what it has been told, and that holds while the chain stands      *)
(* still; fees the user did not set are those of the moment of pricing,    *)
(* and a block takes no more than they allow.                              *)
(***************************************************************************)
THEOREM TransferInvariant == TransferSpec => []TransferInv
<1>1. TransferInit => TransferInv
  BY TransferStarts
<1>2. TransferInv /\ [TransferNext]_<<vars, tvars>> => TransferInv'
  BY NoncesKept, TypesKept, BuiltKept, ScreensKept, PricedKept, PaidKept, OriginalKept DEF TransferInv
<1> QED
  BY <1>1, <1>2, PTL DEF TransferSpec

(***************************************************************************)
(* Previewing, pricing and outbidding add nothing to what SendTx does to   *)
(* nonces, mempool and pending list: but for its fairness, Transfer        *)
(* implements SendTx.                                                      *)
(***************************************************************************)
THEOREM TransferImplementsSend == TransferSpec => Init /\ [][Next]_vars
<1>1. TransferInit => Init
  BY DEF TransferInit
<1> QED
  BY <1>1, TransferSends, PTL DEF TransferSpec

(***************************************************************************)
(* Nonces are distinct also when the sends are previewed, priced and       *)
(* outbid as Transfer has it.                                              *)
(***************************************************************************)
THEOREM TransferNoncesDistinct == TransferSpec => []DistinctNonces
<1>1. TransferInv => DistinctNonces
  BY DEF TransferInv, NonceInv
<1> QED
  BY <1>1, TransferInvariant, PTL

(***************************************************************************)
(* SimulateSend shows the transaction that SendETH and SendToken sign, and *)
(* says truly that it goes through or reverts, whichever of its calls      *)
(* failed, if the chain did not move meanwhile; the gas it names is what   *)
(* the transfer takes, unless Alchemy's answer named none.                 *)
(***************************************************************************)
THEOREM PreviewsAreHonest == TransferSpec => []PreviewIsHonest
<1>1. TransferInv => PreviewIsHonest
  <2> SUFFICES ASSUME TransferInv, NEW s \in Sends
               PROVE  /\ preview[s].kind # "none" /\ stage[s] \in {"submitted", "priced", "built"}
                           => tx[s].req = preview[s].req
                      /\ steady[s] /\ preview[s].steady =>
                           /\ preview[s].kind = "ok" =>
                                /\ Executes(preview[s].req)
                                /\ \/ preview[s].gas = need[form[s].asset]
                                   \/ /\ preview[s].path = "alchemy"
                                      /\ preview[s].gas = 0 /\ preview[s].cost = 0
                           /\ preview[s].kind = "revert" => ~Executes(preview[s].req)
    BY DEF PreviewIsHonest
  <2>1. /\ preview[s].kind # "none" => preview[s].req = Simulated(form[s])
        /\ stage[s] \in {"submitted", "priced", "built"} => tx[s].req = Sent(form[s])
    BY DEF TransferInv, BuiltInv, ShownInv
  <2>2. preview[s].kind # "none" /\ stage[s] \in {"submitted", "priced", "built"}
          => tx[s].req = preview[s].req
    BY <2>1, SentIsSimulated
  <2>3. steady[s] \in BOOLEAN /\ preview[s].steady \in BOOLEAN
    BY DEF TransferInv, TransferTypeOK, Previews
  <2>4. steady[s] = TRUE /\ preview[s].steady = TRUE =>
          /\ preview[s].kind = "ok" =>
               Executes(Simulated(form[s])) /\ Named(s, preview[s].gas, preview[s].path)
          /\ preview[s].kind = "revert" => ~Executes(Simulated(form[s]))
    BY DEF TransferInv, SteadyInv
  <2>5. (steady[s] => steady[s] = TRUE) /\ (preview[s].steady => preview[s].steady = TRUE)
    BY <2>3, Zenon
  <2>6. preview[s].kind = "ok" /\ Named(s, preview[s].gas, preview[s].path) =>
          \/ preview[s].gas = need[form[s].asset]
          \/ preview[s].path = "alchemy" /\ preview[s].gas = 0 /\ preview[s].cost = 0
    <3>1. preview[s].base \in Nat /\ Tip \in Nat
      BY TransferAssumption DEF TransferInv, TransferTypeOK, Previews
    <3>2. MaxFeeAt(preview[s].base) \in Nat
      BY <3>1 DEF MaxFeeAt
    <3>3. preview[s].kind = "ok" => preview[s].cost = preview[s].gas * MaxFeeAt(preview[s].base)
      BY DEF TransferInv, ShownInv
    <3> QED
      BY <3>2, <3>3 DEF Named
  <2>7. "ok" # "none" /\ "revert" # "none"
    OBVIOUS
  <2> QED
    BY <2>1, <2>2, <2>4, <2>5, <2>6, <2>7, Zenon
<1> QED
  BY <1>1, TransferInvariant, PTL

(***************************************************************************)
(* The cost a preview shows is exceeded, by a transfer without fees of the *)
(* user's that took no more gas than named, only when the base fee had     *)
(* risen by the time SendTx asked and then more than doubled the preview's *)
(* in the block -- for any fees and gas, however the chain moved.          *)
(***************************************************************************)
THEOREM CostsAreCovered == TransferSpec => []CostShownCovers
<1>1. TransferInv => CostShownCovers
  <2> SUFFICES ASSUME TransferInv, NEW s \in Previewed,
                      preview[s].kind = "ok", s \in mined, form[s].tip = Unset, form[s].cap = Unset,
                      bill[s].gas <= preview[s].gas, bill[s].cost > preview[s].cost
               PROVE  bill[s].asked > preview[s].base /\ bill[s].base > 2 * preview[s].base
    BY DEF CostShownCovers
  <2>1. s \in Sends
    BY TransferAssumption
  <2>2. preview[s] \in Previews /\ bill[s] \in Bills
    BY <2>1 DEF TransferInv, TransferTypeOK
  <2>3. stage[s] = "built" /\ preview[s].cost = preview[s].gas * MaxFeeAt(preview[s].base)
    BY <2>1 DEF TransferInv, BuiltInv, ShownInv
  <2>4. tx[s].cap = MaxFeeAt(bill[s].asked) /\ tx[s].tip = Tip
    BY <2>3 DEF TransferInv, PricedInv
  <2>5. PICK price \in Nat :
          /\ price <= MaxFeeAt(bill[s].asked) /\ price <= bill[s].base + Tip
          /\ bill[s].cost = bill[s].gas * price
    BY <2>4 DEF TransferInv, PaidInv
  <2>6. PICK shown, gas, named, asked, then \in Nat :
          /\ shown = preview[s].base /\ named = preview[s].gas /\ gas = bill[s].gas
          /\ asked = bill[s].asked /\ then = bill[s].base
    BY <2>2 DEF Previews, Bills
  <2>7. ~(price <= 2 * shown + Tip)
    <3>1. SUFFICES ASSUME price <= 2 * shown + Tip
                   PROVE  FALSE
      OBVIOUS
    <3>2. 2 * shown + Tip \in Nat
      BY <2>6, TransferAssumption
    <3>3. PICK high \in Nat : high = 2 * shown + Tip
      BY <3>2
    <3>4. gas * price <= named * high
      BY <2>5, <2>6, <3>1, <3>3, CostGrows
    <3>5. bill[s].cost = gas * price /\ preview[s].cost = named * high
      BY <2>3, <2>5, <2>6, <3>3 DEF MaxFeeAt
    <3>6. gas * price \in Nat /\ named * high \in Nat
      BY <2>5, <2>6, <3>3
    <3> QED
      BY <3>4, <3>5, <3>6
  <2>8. price <= 2 * asked + Tip /\ price <= then + Tip
    BY <2>5, <2>6 DEF MaxFeeAt
  <2>9. asked > shown /\ then > 2 * shown
    BY <2>5, <2>6, <2>7, <2>8, TransferAssumption
  <2> QED
    BY <2>6, <2>9
<1> QED
  BY <1>1, TransferInvariant, PTL

(***************************************************************************)
(* Speed up and Cancel outbid the original by what nodes ask for, for any  *)
(* fees that are not tiny.                                                 *)
(***************************************************************************)
THEOREM ReplacementsOutbid == TransferSpec => []ReplacementOutbids
<1>1. TransferInv => ReplacementOutbids
  <2> SUFFICES ASSUME TransferInv, NEW r \in Replacements, original[r] # Unset,
                      tx[original[r]].tip >= 5, tx[original[r]].cap >= 10,
                      12 * tx[original[r]].tip <= 11 * tx[original[r]].cap
               PROVE  Outbids(tx[r], tx[original[r]])
    BY DEF ReplacementOutbids
  <2>1. tx[original[r]] \in Txs
    BY DEF TransferInv, TransferTypeOK
  <2>2. tx[r].tip = Bump(tx[original[r]]).tip /\ tx[r].cap = Bump(tx[original[r]]).cap
    BY DEF TransferInv, OriginalInv
  <2> QED
    BY <2>1, <2>2, BumpOutbids
<1> QED
  BY <1>1, TransferInvariant, PTL
=============================================================================
