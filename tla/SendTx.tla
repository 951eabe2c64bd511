------------------------------- MODULE SendTx -------------------------------
(***************************************************************************)
(* Broadcasting (pkg/ethkit): concurrent SendTx calls of one wallet share  *)
(* the nonce manager and the pending tracker; Speed up / Cancel re-uses    *)
(* the nonce of a pending transaction; a janitor prunes the tracker.       *)
(*                                                                         *)
(* Every call sends one transaction and is identified with it.  The        *)
(* tracker is seen through List and Recent; PendingStore models its        *)
(* storage.                                                                *)
(***************************************************************************)
EXTENDS Naturals, FiniteSets

CONSTANTS
  Sends,         \* SendTx calls
  Replacements,  \* SpeedUpTx and CancelTx calls
  NoNonce        \* no entry in the nonce manager's map

Tx == Sends \cup Replacements

ASSUME TxAssumption == Sends \cap Replacements = {} /\ IsFiniteSet(Tx)
ASSUME NonceAssumption == NoNonce \notin Nat

VARIABLES
  pc,         \* where each call is
  nonce,      \* nonce[t]: the nonce of the transaction, 0 before it has one
  cache,      \* nonceManager.pending of the wallet: the next nonce, or NoNonce
  pool,       \* the transactions in the node's mempool
  confirmed,  \* the account nonce: every lower nonce is mined
  mined,      \* the transactions on chain
  active,     \* the tracker's List
  epoch,      \* history: how often the nonce manager was reset
  reserved    \* history: the epoch in which a call took its nonce

node == <<pool, confirmed, mined>>
vars == <<pc, nonce, cache, node, active, epoch, reserved>>

PC == {"idle", "reserved", "found", "sent", "waiting", "done", "failed"}

Goto(t, from, to) == pc[t] = from /\ pc' = [pc EXCEPT ![t] = to]

-----------------------------------------------------------------------------
(* The node. *)

Used(n) == n < confirmed \/ \E t \in pool : nonce[t] = n

\* eth_getTransactionCount(pending): the first nonce neither mined nor pooled.
PendingNonceAt ==
  CHOOSE n \in confirmed..(confirmed + Cardinality(pool)) :
    ~Used(n) /\ \A m \in confirmed..(n - 1) : Used(m)

(***************************************************************************)
(* The node takes t.  A transaction with the same nonce may be replaced or *)
(* kept as well: the pool stands for all the nodes behind the endpoint.    *)
(***************************************************************************)
Accept(t, n) ==
  /\ n >= confirmed
  /\ \E old \in SUBSET {u \in pool : nonce[u] = n} : pool' = (pool \ old) \cup {t}
  /\ UNCHANGED <<confirmed, mined>>

\* The next transaction of the account is mined.
Mine(t) ==
  /\ t \in pool
  /\ nonce[t] = confirmed
  /\ mined' = mined \cup {t}
  /\ pool' = pool \ {t}
  /\ confirmed' = confirmed + 1
  /\ UNCHANGED <<pc, nonce, cache, active, epoch, reserved>>

\* The mempool evicts a transaction.
Evict(t) ==
  /\ t \in pool
  /\ pool' = pool \ {t}
  /\ UNCHANGED <<pc, nonce, cache, confirmed, mined, active, epoch, reserved>>

-----------------------------------------------------------------------------
(* SendTx. *)

\* Mutant: the first nonce after a fetch is handed out without counting it.
NextNonceNoIncrement(s) ==
  LET n == IF cache = NoNonce THEN PendingNonceAt ELSE cache
  IN /\ Goto(s, "idle", "reserved")
     /\ nonce' = [nonce EXCEPT ![s] = n]
     /\ cache' = IF cache = NoNonce THEN n ELSE n + 1
     /\ reserved' = [reserved EXCEPT ![s] = epoch]
     /\ UNCHANGED <<node, active, epoch>>

\* nonceManager.next, under its mutex: the cached nonce, or the node's.
NextNonce(s) ==
  LET n == IF cache = NoNonce THEN PendingNonceAt ELSE cache
  IN /\ Goto(s, "idle", "reserved")
     /\ nonce' = [nonce EXCEPT ![s] = n]
     /\ cache' = n + 1
     /\ reserved' = [reserved EXCEPT ![s] = epoch]
     /\ UNCHANGED <<node, active, epoch>>

\* Without a cached nonce the node has to be asked, and that fails.
NextNonceFails(s) ==
  /\ Goto(s, "idle", "failed")
  /\ cache = NoNonce
  /\ UNCHANGED <<nonce, cache, node, active, epoch, reserved>>

\* Gas estimation or signing fails: SendTx returns, the nonce stays taken.
PrepareFails(s) ==
  /\ Goto(s, "reserved", "failed")
  /\ UNCHANGED <<nonce, cache, node, active, epoch, reserved>>

\* The retrier's SendTransaction succeeds.
Broadcast(s) ==
  /\ Goto(s, "reserved", "sent")
  /\ Accept(s, nonce[s])
  /\ UNCHANGED <<nonce, cache, active, epoch, reserved>>

(***************************************************************************)
(* The retrier gives up: every attempt was refused or lost, or the node    *)
(* took one whose answer was lost and refused the repeats as already       *)
(* known.  The nonce manager is reset.                                     *)
(***************************************************************************)
BroadcastFails(s) ==
  /\ Goto(s, "reserved", "failed")
  /\ Accept(s, nonce[s]) \/ UNCHANGED node
  /\ cache' = NoNonce
  /\ epoch' = epoch + 1
  /\ UNCHANGED <<nonce, active, reserved>>

\* PendingStore.Add right after the broadcast; a replacement returns then.
Register(t) ==
  /\ Goto(t, "sent", IF t \in Sends THEN "waiting" ELSE "done")
  /\ active' = active \cup {t}
  /\ UNCHANGED <<nonce, cache, node, epoch, reserved>>

\* waitForReceipt finds the receipt; the deferred Remove runs.
Receipt(s) ==
  /\ Goto(s, "waiting", "done")
  /\ s \in mined
  /\ active' = active \ {s}
  /\ UNCHANGED <<nonce, cache, node, epoch, reserved>>

\* The caller's context ends first; the deferred Remove runs all the same.
Abandon(s) ==
  /\ Goto(s, "waiting", "done")
  /\ active' = active \ {s}
  /\ UNCHANGED <<nonce, cache, node, epoch, reserved>>

-----------------------------------------------------------------------------
(* replaceTx and the janitor. *)

\* The pending strip has shown t, perhaps some time ago.
WasListed(t) == pc[t] \in {"waiting", "done"}

\* The original is still pending: its nonce is taken over.
FindOriginal(r, t) ==
  /\ Goto(r, "idle", "found")
  /\ WasListed(t)
  /\ t \in pool
  /\ nonce' = [nonce EXCEPT ![r] = nonce[t]]
  /\ UNCHANGED <<cache, node, active, epoch, reserved>>

\* The lookup fails or says mined: the tracker forgets the original.
OriginalGone(r, t) ==
  /\ Goto(r, "idle", "failed")
  /\ WasListed(t)
  /\ active' = active \ {t}
  /\ UNCHANGED <<nonce, cache, node, epoch, reserved>>

ReplaceBroadcast(r) ==
  /\ Goto(r, "found", "sent")
  /\ Accept(r, nonce[r])
  /\ UNCHANGED <<nonce, cache, active, epoch, reserved>>

\* Signing or the broadcast fails; nothing is reset.
ReplaceFails(r) ==
  /\ Goto(r, "found", "failed")
  /\ Accept(r, nonce[r]) \/ UNCHANGED node
  /\ UNCHANGED <<nonce, cache, active, epoch, reserved>>

\* Mutant: the janitor looks the transaction up but does not compare nonces.
PruneByLookup(t) ==
  /\ t \in active
  /\ t \notin pool
  /\ active' = active \ {t}
  /\ UNCHANGED <<pc, nonce, cache, node, epoch, reserved>>

\* pruneStalePending: the nonce is used, or the lookup says mined or dropped.
Prune(t) ==
  /\ t \in active
  /\ nonce[t] < confirmed \/ t \notin pool
  /\ active' = active \ {t}
  /\ UNCHANGED <<pc, nonce, cache, node, epoch, reserved>>

\* The lookup of a transaction that is in the pool fails: it is pruned too.
PruneOnError(t) ==
  /\ t \in active \cap pool
  /\ active' = active \ {t}
  /\ UNCHANGED <<pc, nonce, cache, node, epoch, reserved>>

-----------------------------------------------------------------------------

Init ==
  /\ pc = [t \in Tx |-> "idle"]
  /\ nonce = [t \in Tx |-> 0]
  /\ cache = NoNonce
  /\ pool = {} /\ confirmed = 0 /\ mined = {}
  /\ active = {}
  /\ epoch = 0
  /\ reserved = [t \in Tx |-> 0]

Sending ==
  \E s \in Sends :
    \/ NextNonce(s) \/ NextNonceFails(s) \/ PrepareFails(s)
    \/ Broadcast(s) \/ BroadcastFails(s)
    \/ Receipt(s) \/ Abandon(s)

replaceTx ==
  \E r \in Replacements :
    \/ \E t \in Tx : FindOriginal(r, t) \/ OriginalGone(r, t)
    \/ ReplaceBroadcast(r) \/ ReplaceFails(r)

Registering == \E t \in Tx : Register(t)

pruneStalePending == \E t \in Tx : Prune(t) \/ PruneOnError(t)

Chain == \E t \in Tx : Mine(t) \/ Evict(t)

Next == Sending \/ replaceTx \/ Registering \/ pruneStalePending \/ Chain

(***************************************************************************)
(* The janitor runs every ten seconds for the life of the client, and the  *)
(* node answers some of its questions.                                     *)
(***************************************************************************)
Fairness == \A t \in Tx : WF_vars(Prune(t))

Spec == Init /\ [][Next]_vars /\ Fairness

-----------------------------------------------------------------------------
(* Properties. *)

\* Every variable has its type.
TypeOK ==
  /\ pc \in [Tx -> PC]
  /\ nonce \in [Tx -> Nat]
  /\ cache \in Nat \cup {NoNonce}
  /\ pool \subseteq Tx /\ mined \subseteq Tx /\ active \subseteq Tx
  /\ confirmed \in Nat
  /\ epoch \in Nat
  /\ reserved \in [Tx -> Nat]

\* A SendTx call that has taken a nonce.
HasNonce(s) == s \in Sends /\ (pc[s] \in {"reserved", "sent", "waiting", "done"} \/ s \in pool \cup mined)

(***************************************************************************)
(* Two SendTx calls whose nonces were handed out without a reset between   *)
(* them never share one (nonceManager.next, tx.go:22-41), whatever fails   *)
(* and whatever the node answered when the counter was seeded.             *)
(***************************************************************************)
DistinctNonces ==
  \A s, t \in Sends :
    s # t /\ HasNonce(s) /\ HasNonce(t) /\ reserved[s] = reserved[t]
      => nonce[s] # nonce[t]

(***************************************************************************)
(* The pending strip heals itself (pending.go:207-222): an entry whose     *)
(* nonce the chain has used -- also a replacement that lost the race and   *)
(* stays in the mempool -- is eventually no longer listed.                 *)
(***************************************************************************)
StaleLeavesList ==
  \A t \in Tx : (t \in active /\ nonce[t] < confirmed) ~> t \notin active
=============================================================================
