----------------------------- MODULE SwapProofs -----------------------------
(***************************************************************************)
(* Theorems about Swap for any tokens, spenders, callers, entries, prices  *)
(* and bounds: what swaps, approvals, revokes and scans keep while their   *)
(* transactions wait, are mined or revert in any order the chain allows.   *)
(***************************************************************************)
EXTENDS Swap, SequenceTheorems, TLAPS

PCs == {"idle", "start", "quote", "allowance", "approve", "approving", "send", "swapping",
        "ensureIn", "ensureOut", "sync", "revoking", "scan", "ok", "failed"}

Payment == [taken : Token, amount : Nat, asset : Token, paid : Nat]

Trace ==
  [entered : Nat, shown : Nat, paid : SUBSET Payment, beaten : BOOLEAN,
   revoked : {"no", "sent", "holds"}, lapsed : SUBSET Token, synced : SUBSET Token,
   was : SUBSET Pair, still : SUBSET Pair, unread : SUBSET Pair]

Tx ==
  [kind : {"approve"}, by : Caller, token : ERC20, spender : Spender, amount : 0..MaxUint256]
    \cup [kind : {"swap"}, by : Caller, in : ERC20, out : ERC20, value : Nat, amount : Nat,
          floor : Nat, recipient : {"router", "wallet"}, unwrap : BOOLEAN]

\* The types, but for the order of the mempool.
Typed ==
  /\ loaded \in BOOLEAN /\ watched \subseteq ERC20
  /\ allowance \in [Pair -> 0..MaxUint256]
  /\ pool \in Output /\ held \in Nat
  /\ call \in [Caller -> Call] /\ trace \in [Caller -> Trace]
  /\ calls \in 0..MaxCalls /\ moves \in 0..MaxMoves
  /\ mempool \in Seq(Tx)

-----------------------------------------------------------------------------
(* What a step does to the calls. *)

\* The request of a call, which only the next call of the RPC changes.
SameRequest(c) ==
  /\ call'[c].op = call[c].op /\ call'[c].in = call[c].in /\ call'[c].out = call[c].out
  /\ call'[c].spender = call[c].spender /\ call'[c].amount = call[c].amount

SameQuote(c) == call'[c].quote = call[c].quote /\ call'[c].floor = call[c].floor

SameScan(c) == call'[c].todo = call[c].todo /\ call'[c].got = call[c].got

SameButPc(c) == SameRequest(c) /\ SameQuote(c) /\ SameScan(c)

\* Going on changes nothing of a call but where it is.
LEMMA GotoEffect ==
  ASSUME call \in [Caller -> Call], NEW c \in Caller, NEW there \in PCs, Goto(c, there)
  PROVE  /\ call' \in [Caller -> Call] /\ \A d \in Caller : d # c => call'[d] = call[d]
         /\ call'[c].pc = there /\ SameButPc(c)
<1>1. call[c] \in Call /\ 0 \in 0..MaxRetries
  BY SwapAssumption
<1>2. call' = [call EXCEPT ![c] = [call[c] EXCEPT !.pc = there, !.attempt = 0]]
  BY DEF Goto
<1>3. [call[c] EXCEPT !.pc = there, !.attempt = 0] \in Call
  BY <1>1 DEF Call, PCs
<1> QED BY <1>1, <1>2, <1>3 DEF Call, SameButPc, SameRequest, SameQuote, SameScan

\* Nor does another attempt.
LEMMA RetryEffect ==
  ASSUME call \in [Caller -> Call], NEW c \in Caller, Retry(c)
  PROVE  /\ call' \in [Caller -> Call] /\ \A d \in Caller : d # c => call'[d] = call[d]
         /\ call'[c].pc \in {call[c].pc, "failed"} /\ SameButPc(c)
<1>1. call[c] \in Call
  OBVIOUS
<1>2. CASE Goto(c, "failed")
  BY <1>2, GotoEffect DEF PCs
<1>3. CASE call[c].attempt < MaxRetries /\ call' = [call EXCEPT ![c].attempt = @ + 1]
  <2>1. call' = [call EXCEPT ![c] = [call[c] EXCEPT !.attempt = call[c].attempt + 1]]
    BY <1>3
  <2>2. call[c].attempt + 1 \in 0..MaxRetries
    BY <1>1, <1>3, SwapAssumption DEF Call
  <2>3. [call[c] EXCEPT !.attempt = call[c].attempt + 1] \in Call
    BY <1>1, <2>2 DEF Call
  <2> QED BY <1>1, <2>1, <2>3 DEF Call, SameButPc, SameRequest, SameQuote, SameScan
<1> QED BY <1>2, <1>3 DEF Retry

\* Nor does a receipt.
LEMMA ReceiptEffect ==
  ASSUME call \in [Caller -> Call], NEW c \in Caller, NEW there \in PCs, Receipt(c, there)
  PROVE  /\ call' \in [Caller -> Call] /\ \A d \in Caller : d # c => call'[d] = call[d]
         /\ call'[c].pc = (IF Waiting(c) THEN there ELSE call[c].pc) /\ SameButPc(c)
<1>1. call[c] \in Call
  OBVIOUS
<1>2. CASE Waiting(c)
  <2>1. call' = [call EXCEPT ![c] = [call[c] EXCEPT !.pc = there]]
    BY <1>2 DEF Receipt
  <2>2. [call[c] EXCEPT !.pc = there] \in Call
    BY <1>1 DEF Call, PCs
  <2> QED BY <1>1, <1>2, <2>1, <2>2 DEF Call, SameButPc, SameRequest, SameQuote, SameScan
<1>3. CASE ~Waiting(c)
  BY <1>3 DEF Receipt, SameButPc, SameRequest, SameQuote, SameScan
<1> QED BY <1>2, <1>3

\* SlippageAmount is never negative.
LEMMA SlippageTyped == \A n \in Nat : SlippageAmount(n, SlippageBps) \in Nat
BY DEF SlippageAmount, SlippageBps

(***************************************************************************)
(* The steps of an RPC as arrows from where it is to where it goes.        *)
(***************************************************************************)
Arrow(c) ==
  LET from == call[c].pc
      to == call'[c].pc
  IN \/ from = "start" /\ call[c].op = "swap" /\ ((to = "quote" /\ loaded) \/ to = "failed")
     \/ /\ from = "start" /\ call[c].op = "revoke"
        /\ \/ to = "revoking" /\ loaded
           \/ to = "failed"
     \/ from = "quote" /\ to \in {"quote", "allowance", "send", "failed"}
     \/ from = "allowance" /\ to \in {"allowance", "approve", "send", "failed"}
     \/ from = "approve" /\ to \in {"approving", "failed"}
     \/ from = "send" /\ to \in {"swapping", "failed"}
     \/ from \in {"approving", "swapping", "revoking"} /\ to = "failed"
     \/ from = "ensureIn" /\ to = "ensureOut"
     \/ from = "ensureOut" /\ to = "sync"
     \/ from = "sync" /\ to = "ok"
     \/ from = "scan" /\ to \in {"scan", "ok"}

\* A step moves its own call along an arrow, and only a quote and a scan
\* change more of it.
LEMMA StepShape ==
  ASSUME Typed, NEW c \in Caller, Step(c) \/ Cancelled(c)
  PROVE  /\ call' \in [Caller -> Call] /\ \A d \in Caller : d # c => call'[d] = call[d]
         /\ SameRequest(c) /\ Arrow(c)
         /\ SameQuote(c) \/ QuoteSwap(c)
         /\ SameScan(c) \/ Scan(c)
         /\ UNCHANGED <<loaded, chain, calls, moves>>
<1>0. call \in [Caller -> Call] /\ call[c] \in Call /\ pool \in Nat
  BY SwapAssumption DEF Typed
<1> DEFINE Others == \A d \in Caller : d # c => call'[d] = call[d]
<1>1. CASE Cancelled(c)
  <2>1. Goto(c, "failed") /\ call[c].pc \in {"approving", "swapping", "revoking"}
        /\ UNCHANGED <<loaded, chain, calls, moves>>
    BY <1>1 DEF Cancelled, Waiting, others
  <2> QED BY <1>0, <2>1, GotoEffect DEF Arrow, SameButPc, PCs
<1>2. CASE Start(c)
  <2>1. /\ call[c].pc = "start" /\ call[c].op = "swap" /\ UNCHANGED <<loaded, chain, calls, moves>>
        /\ (loaded /\ Goto(c, "quote")) \/ Goto(c, "failed")
    BY <1>2 DEF Start, At, others
  <2> QED BY <1>0, <2>1, GotoEffect DEF Arrow, SameButPc, PCs
<1>3. CASE QuoteSwap(c)
  <2>1. call[c].pc = "quote" /\ UNCHANGED <<loaded, chain, calls, moves>>
    BY <1>3 DEF QuoteSwap, At, others
  <2>2. CASE Retry(c)
    BY <1>0, <2>1, <2>2, RetryEffect DEF Arrow, SameButPc
  <2>3. CASE ~Retry(c)
    <3> DEFINE there == IF call[c].in = Native THEN "send" ELSE "allowance"
               after == [call[c] EXCEPT !.quote = pool, !.floor = SlippageAmount(pool, SlippageBps),
                                        !.pc = there, !.attempt = 0]
    <3>1. call' = [call EXCEPT ![c] = after]
      BY <1>3, <2>3 DEF QuoteSwap
    <3>2. there \in {"send", "allowance"}
      OBVIOUS
    <3>3. SlippageAmount(pool, SlippageBps) \in Nat /\ 0 \in 0..MaxRetries
      BY <1>0, SlippageTyped, SwapAssumption
    <3>4. PICK f : f = SlippageAmount(pool, SlippageBps)
      OBVIOUS
    <3> HIDE DEF there
    <3>5. /\ after \in Call /\ after.pc = there /\ after.op = call[c].op /\ after.in = call[c].in
          /\ after.out = call[c].out /\ after.spender = call[c].spender
          /\ after.amount = call[c].amount /\ after.todo = call[c].todo /\ after.got = call[c].got
      BY <1>0, <3>2, <3>3 DEF Call
    <3> HIDE DEF after
    <3>6. call'[c] = after /\ call' \in [Caller -> Call] /\ Others
      BY <1>0, <3>1, <3>5
    <3> QED BY <1>3, <2>1, <3>2, <3>5, <3>6 DEF Arrow, SameRequest, SameScan
  <2> QED BY <2>2, <2>3
<1>4. CASE ensureAllowance(c)
  <2>1. call[c].pc = "allowance" /\ UNCHANGED <<loaded, chain, calls, moves>>
    BY <1>4 DEF ensureAllowance, At, others
  <2>2. Goto(c, "send") \/ Goto(c, "approve") \/ Retry(c)
    BY <1>4 DEF ensureAllowance
  <2> QED BY <1>0, <2>1, <2>2, GotoEffect, RetryEffect DEF Arrow, SameButPc, PCs
<1>5. CASE ApproveToken(c)
  <2>1. /\ call[c].pc = "approve" /\ UNCHANGED <<loaded, chain, calls, moves>>
        /\ Goto(c, "approving") \/ Goto(c, "failed")
    BY <1>5 DEF ApproveToken, SendTx, At, others
  <2> QED BY <1>0, <2>1, GotoEffect DEF Arrow, SameButPc, PCs
<1>6. CASE SendSwap(c)
  <2>1. /\ call[c].pc = "send" /\ UNCHANGED <<loaded, chain, calls, moves>>
        /\ Goto(c, "swapping") \/ Goto(c, "failed")
    BY <1>6 DEF SendSwap, SendTx, At, others
  <2> QED BY <1>0, <2>1, GotoEffect DEF Arrow, SameButPc, PCs
<1>7. CASE EnsureIn(c) \/ EnsureOut(c) \/ SyncForce(c)
  <2>1. /\ UNCHANGED <<loaded, chain, calls, moves>>
        /\ \/ call[c].pc = "ensureIn" /\ Goto(c, "ensureOut")
           \/ call[c].pc = "ensureOut" /\ Goto(c, "sync")
           \/ call[c].pc = "sync" /\ Goto(c, "ok")
    BY <1>7 DEF EnsureIn, EnsureOut, SyncForce, At, others
  <2> QED BY <1>0, <2>1, GotoEffect DEF Arrow, SameButPc, PCs
<1>8. CASE Revoke(c)
  <2>1. /\ call[c].pc = "start" /\ call[c].op = "revoke" /\ UNCHANGED <<loaded, chain, calls, moves>>
        /\ (loaded /\ Goto(c, "revoking")) \/ Goto(c, "failed")
    BY <1>8 DEF Revoke, SendTx, At, others
  <2> QED BY <1>0, <2>1, GotoEffect DEF Arrow, SameButPc, PCs
<1>9. CASE Scan(c)
  <2>1. call[c].pc = "scan" /\ UNCHANGED <<loaded, chain, calls, moves>>
    BY <1>9 DEF Scan, At, others
  <2>2. PICK p \in call[c].todo, g \in SUBSET Pair :
          call' = [call EXCEPT ![c] = [call[c] EXCEPT !.todo = call[c].todo \ {p}, !.got = g]]
    <3>1. PICK p \in call[c].todo :
            \/ call' = [call EXCEPT ![c].todo = @ \ {p},
                                    ![c].got = IF allowance[p] > 0 THEN @ \cup {p} ELSE @]
            \/ call' = [call EXCEPT ![c].todo = @ \ {p}]
      BY <1>9 DEF Scan
    <3>2. call[c].got \in SUBSET Pair /\ call[c].got \cup {p} \in SUBSET Pair
      BY <1>0, <3>1 DEF Call
    <3>3. CASE call' = [call EXCEPT ![c].todo = @ \ {p}]
      <4>1. call' = [call EXCEPT ![c] = [call[c] EXCEPT !.todo = call[c].todo \ {p}, !.got = call[c].got]]
        BY <1>0, <3>3 DEF Call
      <4> QED BY <3>2, <4>1
    <3>4. CASE call' = [call EXCEPT ![c].todo = @ \ {p},
                                    ![c].got = IF allowance[p] > 0 THEN @ \cup {p} ELSE @]
      <4>1. CASE allowance[p] > 0
        <5>1. call' = [call EXCEPT ![c] = [call[c] EXCEPT !.todo = call[c].todo \ {p},
                                                          !.got = call[c].got \cup {p}]]
          BY <1>0, <3>4, <4>1 DEF Call
        <5> QED BY <3>2, <5>1
      <4>2. CASE ~(allowance[p] > 0)
        <5>1. call' = [call EXCEPT ![c] = [call[c] EXCEPT !.todo = call[c].todo \ {p},
                                                          !.got = call[c].got]]
          BY <1>0, <3>4, <4>2 DEF Call
        <5> QED BY <3>2, <5>1
      <4> QED BY <4>1, <4>2
    <3> QED BY <3>1, <3>3, <3>4
  <2>3. [call[c] EXCEPT !.todo = call[c].todo \ {p}, !.got = g] \in Call
    BY <1>0 DEF Call
  <2> QED BY <1>0, <1>9, <2>1, <2>2, <2>3 DEF Arrow, SameRequest, SameQuote, Call
<1>10. CASE ScanDone(c)
  <2>1. call[c].pc = "scan" /\ Goto(c, "ok") /\ UNCHANGED <<loaded, chain, calls, moves>>
    BY <1>10 DEF ScanDone, At, others
  <2> QED BY <1>0, <2>1, GotoEffect DEF Arrow, SameButPc, PCs
<1> QED
  BY <1>1, <1>2, <1>3, <1>4, <1>5, <1>6, <1>7, <1>8, <1>9, <1>10 DEF Step

-----------------------------------------------------------------------------
(* What a step sends and what it is remembered by. *)

\* The transactions of the calls are typed.
LEMMA TxTyped ==
  ASSUME Typed, NEW c \in Caller
  PROVE  /\ SwapTx(c) \in Tx /\ SwapTx(c).by = c /\ SwapTx(c).kind = "swap"
         /\ \A t \in ERC20, s \in Spender, n \in 0..MaxUint256 :
              /\ Approve(c, t, s, n) \in Tx /\ Approve(c, t, s, n).by = c
              /\ Approve(c, t, s, n).kind = "approve"
<1>1. call[c] \in Call
  BY DEF Typed
<1>2. AddressOf(call[c].in) \in ERC20 /\ AddressOf(call[c].out) \in ERC20
  BY <1>1, SwapAssumption DEF AddressOf, Call, Token
<1> QED BY <1>1, <1>2 DEF SwapTx, Approve, Tx, Call

(***************************************************************************)
(* Only three steps send, each at the end of the mempool.                  *)
(***************************************************************************)
LEMMA StepSends ==
  ASSUME Typed, NEW c \in Caller, Step(c) \/ Cancelled(c)
  PROVE  \/ mempool' = mempool
         \/ /\ ApproveToken(c) /\ call[c].pc = "approve" /\ call'[c].pc = "approving"
            /\ mempool' = Append(mempool, Approve(c, call[c].in, Router, MaxUint256))
         \/ /\ SendSwap(c) /\ call[c].pc = "send" /\ call'[c].pc = "swapping"
            /\ mempool' = Append(mempool, SwapTx(c))
         \/ /\ Revoke(c) /\ call[c].pc = "start" /\ call'[c].pc = "revoking"
            /\ mempool' = Append(mempool, Approve(c, call[c].in, call[c].spender, 0))
<1>0. call \in [Caller -> Call]
  BY DEF Typed
<1>1. CASE ApproveToken(c)
  <2>1. \/ mempool' = mempool
        \/ mempool' = Append(mempool, Approve(c, call[c].in, Router, MaxUint256)) /\ Goto(c, "approving")
    BY <1>1 DEF ApproveToken, SendTx, maxUint256
  <2> QED BY <1>0, <1>1, <2>1, GotoEffect DEF ApproveToken, At, PCs
<1>2. CASE SendSwap(c)
  <2>1. \/ mempool' = mempool
        \/ mempool' = Append(mempool, SwapTx(c)) /\ Goto(c, "swapping")
    BY <1>2 DEF SendSwap, SendTx
  <2> QED BY <1>0, <1>2, <2>1, GotoEffect DEF SendSwap, At, PCs
<1>3. CASE Revoke(c)
  <2>1. \/ mempool' = mempool
        \/ mempool' = Append(mempool, Approve(c, call[c].in, call[c].spender, 0)) /\ Goto(c, "revoking")
    BY <1>3 DEF Revoke, SendTx
  <2> QED BY <1>0, <1>3, <2>1, GotoEffect DEF Revoke, At, PCs
<1>4. CASE ~(ApproveToken(c) \/ SendSwap(c) \/ Revoke(c))
  BY <1>4 DEF Step, Cancelled, Start, QuoteSwap, ensureAllowance, EnsureIn, EnsureOut, SyncForce, Scan,
              ScanDone
<1> QED BY <1>1, <1>2, <1>3, <1>4

\* What a step leaves of the memory of a call.
LEMMA StepTrace ==
  ASSUME Typed, NEW c \in Caller, Step(c) \/ Cancelled(c)
  PROVE  /\ trace' \in [Caller -> Trace] /\ \A d \in Caller : d # c => trace'[d] = trace[d]
         /\ trace'[c].entered = trace[c].entered /\ trace'[c].paid = trace[c].paid
         /\ trace'[c].was = trace[c].was /\ trace'[c].still = trace[c].still
         /\ trace[c].lapsed \subseteq trace'[c].lapsed /\ trace[c].unread \subseteq trace'[c].unread
         /\ trace'[c].beaten = trace[c].beaten \/ ensureAllowance(c)
         /\ trace'[c].revoked = trace[c].revoked \/ Revoke(c)
         /\ trace'[c].synced = trace[c].synced \/ SyncForce(c)
         /\ watched \subseteq watched' /\ watched' \subseteq ERC20
<1>0. trace \in [Caller -> Trace] /\ trace[c] \in Trace /\ call[c] \in Call /\ watched \subseteq ERC20
  BY DEF Typed
<1>1. CASE trace' = trace /\ watched' = watched
  BY <1>0, <1>1
<1>2. CASE ensureAllowance(c)
  <2>1. CASE trace' = [trace EXCEPT ![c].beaten = FALSE]
    <3>1. [trace[c] EXCEPT !.beaten = FALSE] \in Trace
      BY <1>0 DEF Trace
    <3> QED BY <1>0, <1>2, <2>1, <3>1 DEF Trace, ensureAllowance, others
  <2> QED BY <1>1, <1>2, <2>1 DEF ensureAllowance, others
<1>3. CASE EnsureIn(c) \/ EnsureOut(c)
  <2>1. PICK leg \in Token : Ensure(c, leg)
    BY <1>0, <1>3 DEF EnsureIn, EnsureOut, Call
  <2>2. CASE watched' = watched /\ trace' = [trace EXCEPT ![c].lapsed = @ \cup {leg}]
    <3>1. [trace[c] EXCEPT !.lapsed = trace[c].lapsed \cup {leg}] \in Trace
      BY <1>0 DEF Trace
    <3> QED BY <1>0, <2>2, <3>1 DEF Trace
  <2>3. CASE watched' = watched \cup ({leg} \ {Native}) /\ trace' = trace
    BY <1>0, <2>3 DEF Token
  <2> QED BY <2>1, <2>2, <2>3 DEF Ensure
<1>4. CASE SyncForce(c)
  <2>1. watched' = watched
    BY <1>4 DEF SyncForce, others
  <2>2. CASE trace' = [trace EXCEPT ![c].synced = watched]
    <3>1. [trace[c] EXCEPT !.synced = watched] \in Trace
      BY <1>0 DEF Trace, Token
    <3> QED BY <1>0, <1>4, <2>1, <2>2, <3>1 DEF Trace
  <2>3. CASE trace' = [trace EXCEPT ![c].lapsed = Token]
    <3>1. [trace[c] EXCEPT !.lapsed = Token] \in Trace
      BY <1>0 DEF Trace
    <3> QED BY <1>0, <2>1, <2>3, <3>1 DEF Trace
  <2> QED BY <1>4, <2>2, <2>3 DEF SyncForce
<1>5. CASE Revoke(c)
  <2>1. watched' = watched
    BY <1>5 DEF Revoke, SendTx, others
  <2>2. CASE Alone(c)
    <3>1. PICK r \in {"no", "sent"} : trace' = [trace EXCEPT ![c].revoked = r]
      BY <2>2 DEF Alone
    <3>2. [trace[c] EXCEPT !.revoked = r] \in Trace
      BY <1>0 DEF Trace
    <3> QED BY <1>0, <1>5, <2>1, <3>1, <3>2 DEF Trace
  <2> QED BY <1>1, <1>5, <2>1, <2>2 DEF Revoke
<1>6. CASE Scan(c)
  <2>1. watched' = watched
    BY <1>6 DEF Scan, others
  <2>2. CASE \E p \in call[c].todo : trace' = [trace EXCEPT ![c].unread = @ \cup {p}]
    <3>1. PICK p \in Pair : trace' = [trace EXCEPT ![c].unread = @ \cup {p}]
      BY <1>0, <2>2 DEF Call
    <3>2. [trace[c] EXCEPT !.unread = trace[c].unread \cup {p}] \in Trace
      BY <1>0 DEF Trace
    <3> QED BY <1>0, <2>1, <3>1, <3>2 DEF Trace
  <2> QED BY <1>1, <1>6, <2>1, <2>2 DEF Scan
<1>7. CASE ApproveToken(c) \/ SendSwap(c) \/ Start(c) \/ QuoteSwap(c) \/ ScanDone(c) \/ Cancelled(c)
  BY <1>1, <1>7 DEF ApproveToken, SendSwap, SendTx, Start, QuoteSwap, ScanDone, Cancelled, others
<1> QED BY <1>2, <1>3, <1>4, <1>5, <1>6, <1>7 DEF Step

-----------------------------------------------------------------------------
(* A new call of an RPC. *)

\* What a call that begins leaves of the others.
LEMMA BeginShape ==
  ASSUME Typed, NEW c \in Caller, NEW request \in Call, NEW t \in Trace, Begin(c, request, t)
  PROVE  /\ call[c].pc \in {"idle", "ok", "failed"} /\ \A i \in DOMAIN mempool : mempool[i].by # c
         /\ call' \in [Caller -> Call] /\ trace' \in [Caller -> Trace]
         /\ call'[c] = request /\ trace'[c] = t
         /\ UNCHANGED <<loaded, watched, chain, mempool, moves>> /\ calls' \in 0..MaxCalls
         /\ \A d \in Caller : d # c => call'[d] = call[d]
<1>0. call \in [Caller -> Call] /\ trace \in [Caller -> Trace] /\ calls \in 0..MaxCalls
  BY DEF Typed
<1>1. calls' \in 0..MaxCalls
  BY <1>0, SwapAssumption DEF Begin
<1>2. \A d \in Caller : [trace[d] EXCEPT !.revoked = "no"] \in Trace
  BY <1>0 DEF Trace
<1>3. Reopened(request) \in [Caller -> Trace]
  BY <1>0, <1>2 DEF Reopened
<1>4. /\ call' = [call EXCEPT ![c] = request] /\ trace' = [Reopened(request) EXCEPT ![c] = t]
      /\ call[c].pc \in {"idle", "ok", "failed"} /\ \A i \in DOMAIN mempool : mempool[i].by # c
      /\ UNCHANGED <<loaded, watched, chain, mempool, moves>>
  BY DEF Begin
<1> QED BY <1>0, <1>1, <1>3, <1>4

\* The three requests.
LEMMA Begins ==
  ASSUME Typed, NEW c \in Caller, ExecuteSwap(c) \/ RevokeApproval(c) \/ ListApprovals(c)
  PROVE  \E request \in Call, t \in Trace :
           /\ Begin(c, request, t) /\ t.revoked = "no" /\ t.paid = {} /\ t.synced = {}
           /\ \/ /\ request.op = "swap" /\ request.pc = "start"
                 /\ 10 * request.amount <= t.entered /\ request.amount <= MaxUint256
              \/ request.op = "revoke" /\ request.in \in ERC20 /\ request.pc = "start"
              \/ /\ request.op = "list" /\ request.pc \in {"scan", "failed"}
                 /\ request.pc = "scan" => loaded
                 /\ request.got = {} /\ t.was = Granted /\ t.still = Granted \cap request.todo
<1> USE SwapAssumption
<1>1. NoCall \in Call
  BY DEF NoCall, Call, Token
<1>2. pool \in Nat /\ watched \subseteq ERC20 /\ Granted \subseteq Pair
  BY DEF Typed, Granted
<1>3. NoTrace \in Trace /\ NoTrace.revoked = "no" /\ NoTrace.paid = {} /\ NoTrace.synced = {}
  BY DEF NoTrace, Trace
<1>4. CASE ExecuteSwap(c)
  <2>1. PICK p \in Asked, entered \in Entry :
          Begin(c, [NoCall EXCEPT !.op = "swap", !.pc = "start", !.in = p[1], !.out = p[2],
                                  !.amount = NewAmountFromTokenUnits(entered)],
                   [NoTrace EXCEPT !.entered = entered, !.shown = ShownQuote])
    BY <1>4 DEF ExecuteSwap
  <2>2. PICK n : n = NewAmountFromTokenUnits(entered)
    OBVIOUS
  <2>3. n \in Nat /\ 10 * n <= entered /\ n <= MaxUint256 /\ entered \in Nat
    BY <2>2 DEF NewAmountFromTokenUnits
  <2>4. p[1] \in Token /\ p[2] \in Token
    BY DEF Token
  <2> DEFINE request == [NoCall EXCEPT !.op = "swap", !.pc = "start", !.in = p[1], !.out = p[2], !.amount = n]
             t == [NoTrace EXCEPT !.entered = entered, !.shown = pool]
  <2>5. request \in Call /\ request.op = "swap" /\ request.pc = "start" /\ request.amount = n
    BY <1>1, <2>3, <2>4 DEF Call
  <2>6. t \in Trace /\ t.entered = entered /\ t.revoked = "no" /\ t.paid = {} /\ t.synced = {}
    BY <1>2, <1>3, <2>3 DEF Trace
  <2>7. Begin(c, request, t)
    BY <2>1, <2>2 DEF ShownQuote
  <2> HIDE DEF request, t
  <2> QED BY <2>3, <2>5, <2>6, <2>7
<1>5. CASE RevokeApproval(c)
  <2>1. PICK t \in ERC20, s \in Spender :
          Begin(c, [NoCall EXCEPT !.op = "revoke", !.pc = "start", !.in = t, !.spender = s], NoTrace)
    BY <1>5 DEF RevokeApproval
  <2> DEFINE request == [NoCall EXCEPT !.op = "revoke", !.pc = "start", !.in = t, !.spender = s]
  <2>2. request \in Call /\ request.op = "revoke" /\ request.pc = "start" /\ request.in = t
    BY <1>1 DEF Call, Token
  <2>3. Begin(c, request, NoTrace)
    BY <2>1
  <2> HIDE DEF request
  <2> QED BY <1>3, <2>2, <2>3
<1>6. CASE ListApprovals(c)
  <2>1. PICK there \in {"failed", "scan"} :
          /\ there = "scan" => loaded
          /\ Begin(c, [NoCall EXCEPT !.op = "list", !.pc = there, !.todo = watched \X Spender],
                      [NoTrace EXCEPT !.was = Granted, !.still = Granted \cap (watched \X Spender)])
    BY <1>6 DEF ListApprovals
  <2> DEFINE request == [NoCall EXCEPT !.op = "list", !.pc = there, !.todo = watched \X Spender]
             t == [NoTrace EXCEPT !.was = Granted, !.still = Granted \cap (watched \X Spender)]
  <2>2. NoCall.got = {} /\ watched \X Spender \in SUBSET Pair
    BY <1>2 DEF NoCall, Pair
  <2>3. /\ request \in Call /\ request.op = "list" /\ request.pc = there
        /\ request.got = {} /\ request.todo = watched \X Spender
    BY <1>1, <2>2 DEF Call
  <2>4. /\ t \in Trace /\ t.was = Granted /\ t.still = Granted \cap (watched \X Spender)
        /\ t.revoked = "no" /\ t.paid = {} /\ t.synced = {}
    BY <1>2, <1>3, <2>2 DEF Trace
  <2>5. Begin(c, request, t)
    BY <2>1
  <2> HIDE DEF request, t
  <2> QED BY <2>1, <2>3, <2>4, <2>5
<1> QED BY <1>4, <1>5, <1>6

-----------------------------------------------------------------------------
(* What a block does. *)

\* What a change of the allowances does to the scans under way.
LEMMA ScannedEffect ==
  ASSUME NEW t \in [Caller -> Trace], trace' = Scanned(t), allowance' \in [Pair -> 0..MaxUint256]
  PROVE  /\ trace' \in [Caller -> Trace]
         /\ \A d \in Caller :
              /\ trace'[d].entered = t[d].entered /\ trace'[d].paid = t[d].paid
              /\ trace'[d].beaten = t[d].beaten /\ trace'[d].revoked = t[d].revoked
              /\ trace'[d].lapsed = t[d].lapsed /\ trace'[d].synced = t[d].synced
              /\ trace'[d].unread = t[d].unread
              /\ trace'[d].was = (IF call[d].pc = "scan" THEN t[d].was \cup Granted' ELSE t[d].was)
              /\ trace'[d].still = (IF call[d].pc = "scan" THEN t[d].still \cap Granted' ELSE t[d].still)
<1>1. Granted' \in SUBSET Pair /\ Granted' = {p \in Pair : allowance'[p] > 0}
  BY DEF Granted
<1> DEFINE G == Granted'
<1>2. \A d \in Caller : trace'[d] =
        (IF call[d].pc = "scan"
         THEN [t[d] EXCEPT !.was = t[d].was \cup G, !.still = t[d].still \cap G] ELSE t[d])
  BY <1>1 DEF Scanned
<1>3. trace' = [d \in Caller |-> trace'[d]]
  BY DEF Scanned
<1> HIDE DEF G
<1>4. ASSUME NEW d \in Caller
      PROVE  /\ trace'[d] \in Trace
             /\ trace'[d].entered = t[d].entered /\ trace'[d].paid = t[d].paid
             /\ trace'[d].beaten = t[d].beaten /\ trace'[d].revoked = t[d].revoked
             /\ trace'[d].lapsed = t[d].lapsed /\ trace'[d].synced = t[d].synced
             /\ trace'[d].unread = t[d].unread
             /\ trace'[d].was = (IF call[d].pc = "scan" THEN t[d].was \cup G ELSE t[d].was)
             /\ trace'[d].still = (IF call[d].pc = "scan" THEN t[d].still \cap G ELSE t[d].still)
  <2>1. t[d] \in Trace /\ G \in SUBSET Pair
    BY <1>1 DEF G
  <2>2. CASE call[d].pc = "scan"
    <3>1. trace'[d] = [t[d] EXCEPT !.was = t[d].was \cup G, !.still = t[d].still \cap G]
      BY <1>2, <2>2
    <3>2. t[d].was \cup G \in SUBSET Pair /\ t[d].still \cap G \in SUBSET Pair
      BY <2>1 DEF Trace
    <3> QED BY <2>1, <2>2, <3>1, <3>2 DEF Trace
  <2>3. CASE call[d].pc # "scan"
    BY <1>2, <2>1, <2>3
  <2> QED BY <2>2, <2>3
<1> QED BY <1>3, <1>4 DEF G

\* A transaction of b lowers an allowance of p[1].
LEMMA BeatenEffect ==
  ASSUME trace \in [Caller -> Trace], NEW b, NEW p
  PROVE  /\ Beaten(b, p) \in [Caller -> Trace]
         /\ \A d \in Caller :
              /\ Beaten(b, p)[d].entered = trace[d].entered /\ Beaten(b, p)[d].paid = trace[d].paid
              /\ Beaten(b, p)[d].revoked = trace[d].revoked
              /\ Beaten(b, p)[d].lapsed = trace[d].lapsed /\ Beaten(b, p)[d].synced = trace[d].synced
              /\ Beaten(b, p)[d].unread = trace[d].unread
              /\ Beaten(b, p)[d].was = trace[d].was /\ Beaten(b, p)[d].still = trace[d].still
              /\ trace[d].beaten => Beaten(b, p)[d].beaten
              /\ d # b /\ call[d].pc = "send" /\ call[d].in = p[1] => Beaten(b, p)[d].beaten
<1>1. \A d \in Caller : [trace[d] EXCEPT !.beaten = TRUE] \in Trace /\ trace[d] \in Trace
  BY DEF Trace
<1> QED BY <1>1 DEF Beaten, Trace

\* The queue after its head has gone, and with one more at its end.
LEMMA QueueShape ==
  ASSUME NEW S, NEW q \in Seq(S)
  PROVE  /\ q # <<>> =>
              /\ 1 \in DOMAIN q /\ Head(q) = q[1] /\ Head(q) \in S /\ Tail(q) \in Seq(S)
              /\ \A i \in DOMAIN Tail(q) : i \in Nat /\ i + 1 \in DOMAIN q /\ Tail(q)[i] = q[i + 1]
         /\ \A e \in S :
              /\ Append(q, e) \in Seq(S)
              /\ \A i \in DOMAIN Append(q, e) :
                   \/ i \in DOMAIN q /\ Append(q, e)[i] = q[i]
                   \/ i = Len(q) + 1 /\ Append(q, e)[i] = e
         /\ DOMAIN q = 1..Len(q) /\ Len(q) \in Nat /\ \A i \in DOMAIN q : q[i] \in S
<1>1. Len(q) \in Nat /\ DOMAIN q = 1..Len(q) /\ \A i \in DOMAIN q : q[i] \in S
  BY LenProperties, ElementOfSeq
<1>2. ASSUME q # <<>>
      PROVE  /\ 1 \in DOMAIN q /\ Head(q) = q[1] /\ Head(q) \in S /\ Tail(q) \in Seq(S)
             /\ \A i \in DOMAIN Tail(q) : i \in Nat /\ i + 1 \in DOMAIN q /\ Tail(q)[i] = q[i + 1]
  <2>1. /\ Head(q) = q[1] /\ Len(q) >= 1 /\ Head(q) \in S
        /\ Tail(q) \in Seq(S) /\ Len(Tail(q)) = Len(q) - 1
        /\ \A i \in 1..Len(Tail(q)) : Tail(q)[i] = q[i + 1]
    BY <1>1, <1>2, EmptySeq, HeadTailProperties
  <2>2. DOMAIN Tail(q) = 1..(Len(q) - 1)
    BY <2>1, LenProperties
  <2> QED BY <1>1, <2>1, <2>2
<1>3. ASSUME NEW e \in S
      PROVE  /\ Append(q, e) \in Seq(S)
             /\ \A i \in DOMAIN Append(q, e) :
                  \/ i \in DOMAIN q /\ Append(q, e)[i] = q[i]
                  \/ i = Len(q) + 1 /\ Append(q, e)[i] = e
  <2>1. /\ Append(q, e) \in Seq(S) /\ Len(Append(q, e)) = Len(q) + 1
        /\ \A i \in 1..Len(q) : Append(q, e)[i] = q[i]
        /\ Append(q, e)[Len(q) + 1] = e
    BY AppendProperties
  <2>2. DOMAIN Append(q, e) = 1..(Len(q) + 1)
    BY <2>1, LenProperties
  <2> QED BY <1>1, <2>1, <2>2
<1> QED BY <1>1, <1>2, <1>3

\* What a scan under way has seen stays in step with the allowances.
ScansFollow ==
  \A d \in Caller :
    /\ trace[d].was \subseteq trace'[d].was /\ trace'[d].still \subseteq trace[d].still
    /\ call[d].pc = "scan" =>
         /\ Granted \subseteq trace[d].was => Granted' \subseteq trace'[d].was
         /\ trace[d].still \subseteq Granted => trace'[d].still \subseteq Granted'
    /\ call[d].pc # "scan" => trace'[d].was = trace[d].was /\ trace'[d].still = trace[d].still

\* What a mined transaction leaves of the memory of the calls.
StoriesKept ==
  \A d \in Caller :
    /\ trace'[d].entered = trace[d].entered /\ trace'[d].lapsed = trace[d].lapsed
    /\ trace'[d].synced = trace[d].synced /\ trace'[d].unread = trace[d].unread
    /\ trace[d].beaten => trace'[d].beaten

\* Whoever has secured an allowance hears of another call that lowers it.
LoweringsSeen(b) ==
  \A d \in Caller : \A t \in ERC20 :
    d # b /\ call[d].pc = "send" /\ call[d].in = t =>
      trace'[d].beaten \/ allowance'[<<t, Router>>] >= allowance[<<t, Router>>]

(***************************************************************************)
(* An approval is mined.                                                   *)
(***************************************************************************)
LEMMA ApproveMined ==
  ASSUME Typed, MineApprove
  PROVE  /\ mempool # <<>> /\ mempool' = Tail(mempool)
         /\ Mined \in Tx /\ Mined.kind = "approve" /\ Mined.by \in Caller
         /\ allowance' \in [Pair -> 0..MaxUint256]
         /\ allowance' = [allowance EXCEPT ![<<Mined.token, Mined.spender>>] = Mined.amount]
         /\ trace' \in [Caller -> Trace] /\ ScansFollow /\ StoriesKept /\ LoweringsSeen(Mined.by)
         /\ \A d \in Caller :
              /\ trace'[d].paid = trace[d].paid
              /\ trace'[d].revoked = (IF d = Mined.by /\ trace[d].revoked = "sent" THEN "holds"
                                      ELSE trace[d].revoked)
         /\ Receipt(Mined.by, IF call[Mined.by].op = "swap" THEN "send" ELSE "ok")
         /\ UNCHANGED <<loaded, watched, pool, held, calls, moves>>
<1> DEFINE b == Mined.by
           p == <<Mined.token, Mined.spender>>
           low == IF Mined.amount < allowance[p] THEN Beaten(b, p) ELSE trace
           t == Revoked(low, b)
<1>0. trace \in [Caller -> Trace] /\ mempool \in Seq(Tx) /\ allowance \in [Pair -> 0..MaxUint256]
  BY DEF Typed
<1>1. /\ mempool # <<>> /\ mempool' = Tail(mempool) /\ Mined.kind = "approve"
      /\ allowance' = [allowance EXCEPT ![p] = Mined.amount] /\ trace' = Scanned(t)
      /\ Receipt(b, IF call[b].op = "swap" THEN "send" ELSE "ok")
      /\ UNCHANGED <<loaded, watched, pool, held, calls, moves>>
  BY DEF MineApprove, Drop
<1>2. Mined \in Tx
  BY <1>0, <1>1, QueueShape DEF Mined
<1>3. b \in Caller /\ p \in Pair /\ Mined.amount \in 0..MaxUint256 /\ p[1] = Mined.token
  BY <1>1, <1>2 DEF Tx, Pair
<1>4. allowance' \in [Pair -> 0..MaxUint256]
  BY <1>0, <1>1, <1>3
<1> HIDE DEF b, p
<1>5. /\ low \in [Caller -> Trace]
      /\ \A d \in Caller :
           /\ low[d].entered = trace[d].entered /\ low[d].paid = trace[d].paid
           /\ low[d].revoked = trace[d].revoked
           /\ low[d].lapsed = trace[d].lapsed /\ low[d].synced = trace[d].synced
           /\ low[d].unread = trace[d].unread
           /\ low[d].was = trace[d].was /\ low[d].still = trace[d].still
           /\ trace[d].beaten => low[d].beaten
           /\ Mined.amount < allowance[p] /\ d # b /\ call[d].pc = "send" /\ call[d].in = p[1] => low[d].beaten
  BY <1>0, BeatenEffect
<1> HIDE DEF low
<1>6. /\ t \in [Caller -> Trace]
      /\ \A d \in Caller :
           /\ t[d].entered = low[d].entered /\ t[d].paid = low[d].paid
           /\ t[d].lapsed = low[d].lapsed /\ t[d].synced = low[d].synced
           /\ t[d].unread = low[d].unread /\ t[d].beaten = low[d].beaten
           /\ t[d].was = low[d].was /\ t[d].still = low[d].still
           /\ t[d].revoked = (IF d = b /\ low[d].revoked = "sent" THEN "holds" ELSE low[d].revoked)
  <2>1. PICK r : r = (IF low[b].revoked = "sent" THEN "holds" ELSE low[b].revoked)
    OBVIOUS
  <2>2. t = [low EXCEPT ![b] = [low[b] EXCEPT !.revoked = r]]
    BY <2>1 DEF Revoked
  <2>3. low[b] \in Trace
    BY <1>3, <1>5
  <2>4. r \in {"no", "sent", "holds"}
    BY <2>1, <2>3 DEF Trace
  <2>5. [low[b] EXCEPT !.revoked = r] \in Trace
    BY <2>3, <2>4 DEF Trace
  <2> HIDE DEF t
  <2>6. t \in [Caller -> Trace] /\ \A d \in Caller : d # b => t[d] = low[d]
    BY <1>5, <2>2, <2>5
  <2>7. t[b] = [low[b] EXCEPT !.revoked = r]
    BY <1>3, <1>5, <2>2
  <2>8. /\ t[b].entered = low[b].entered /\ t[b].paid = low[b].paid
        /\ t[b].lapsed = low[b].lapsed /\ t[b].synced = low[b].synced
        /\ t[b].unread = low[b].unread /\ t[b].beaten = low[b].beaten
        /\ t[b].was = low[b].was /\ t[b].still = low[b].still /\ t[b].revoked = r
    BY <2>3, <2>7 DEF Trace
  <2> QED BY <2>1, <2>6, <2>8
<1> HIDE DEF t
<1>7. /\ trace' \in [Caller -> Trace]
      /\ \A d \in Caller :
           /\ trace'[d].entered = t[d].entered /\ trace'[d].paid = t[d].paid
           /\ trace'[d].beaten = t[d].beaten /\ trace'[d].revoked = t[d].revoked
           /\ trace'[d].lapsed = t[d].lapsed /\ trace'[d].synced = t[d].synced
           /\ trace'[d].unread = t[d].unread
           /\ trace'[d].was = (IF call[d].pc = "scan" THEN t[d].was \cup Granted' ELSE t[d].was)
           /\ trace'[d].still = (IF call[d].pc = "scan" THEN t[d].still \cap Granted' ELSE t[d].still)
  BY <1>1, <1>4, <1>6, ScannedEffect
<1> HIDE DEF b
<1>12. ASSUME NEW d \in Caller
       PROVE  /\ trace'[d].entered = trace[d].entered /\ trace'[d].paid = trace[d].paid
              /\ trace'[d].lapsed = trace[d].lapsed /\ trace'[d].synced = trace[d].synced
              /\ trace'[d].unread = trace[d].unread /\ (trace[d].beaten => trace'[d].beaten)
              /\ trace'[d].was = (IF call[d].pc = "scan" THEN trace[d].was \cup Granted' ELSE trace[d].was)
              /\ trace'[d].still = (IF call[d].pc = "scan" THEN trace[d].still \cap Granted'
                                    ELSE trace[d].still)
              /\ trace'[d].revoked = (IF d = b /\ trace[d].revoked = "sent" THEN "holds"
                                      ELSE trace[d].revoked)
              /\ Mined.amount < allowance[p] /\ d # b /\ call[d].pc = "send" /\ call[d].in = p[1] =>
                   trace'[d].beaten
  <2>1. trace'[d].entered = trace[d].entered /\ trace'[d].paid = trace[d].paid
    BY <1>5, <1>6, <1>7, ZenonT(60)
  <2>2. trace'[d].lapsed = trace[d].lapsed /\ trace'[d].synced = trace[d].synced
    BY <1>5, <1>6, <1>7, ZenonT(60)
  <2>3. trace'[d].unread = trace[d].unread /\ (trace[d].beaten => trace'[d].beaten)
    <3>1. trace'[d].unread = trace[d].unread
      BY <1>5, <1>6, <1>7, ZenonT(60)
    <3>2. trace[d].beaten => low[d].beaten
      BY <1>5, Zenon
    <3>3. t[d].beaten = low[d].beaten
      BY <1>6, Zenon
    <3>4. trace'[d].beaten = t[d].beaten
      BY <1>7, Zenon
    <3> QED BY <3>1, <3>2, <3>3, <3>4, Zenon
  <2>4. t[d].was = trace[d].was /\ t[d].still = trace[d].still
    BY <1>5, <1>6, Zenon
  <2>5. t[d].revoked = (IF d = b /\ trace[d].revoked = "sent" THEN "holds" ELSE trace[d].revoked)
    <3>1. low[d].revoked = trace[d].revoked
      BY <1>5
    <3>2. t[d].revoked = (IF d = b /\ low[d].revoked = "sent" THEN "holds" ELSE low[d].revoked)
      BY <1>6
    <3> QED BY <3>1, <3>2
  <2>6. Mined.amount < allowance[p] /\ d # b /\ call[d].pc = "send" /\ call[d].in = p[1] => trace'[d].beaten
    <3>1. Mined.amount < allowance[p] /\ d # b /\ call[d].pc = "send" /\ call[d].in = p[1] => low[d].beaten
      BY <1>5, Zenon
    <3>2. t[d].beaten = low[d].beaten
      BY <1>6, Zenon
    <3>3. trace'[d].beaten = t[d].beaten
      BY <1>7, Zenon
    <3> QED BY <3>1, <3>2, <3>3, Zenon
  <2>7. /\ trace'[d].revoked = t[d].revoked
        /\ trace'[d].was = (IF call[d].pc = "scan" THEN t[d].was \cup Granted' ELSE t[d].was)
        /\ trace'[d].still = (IF call[d].pc = "scan" THEN t[d].still \cap Granted' ELSE t[d].still)
    BY <1>7
  <2> QED BY <2>1, <2>2, <2>3, <2>4, <2>5, <2>6, <2>7
<1>8. ScansFollow
  <2> SUFFICES ASSUME NEW d \in Caller
               PROVE  /\ trace[d].was \subseteq trace'[d].was /\ trace'[d].still \subseteq trace[d].still
                      /\ call[d].pc = "scan" =>
                           /\ Granted \subseteq trace[d].was => Granted' \subseteq trace'[d].was
                           /\ trace[d].still \subseteq Granted => trace'[d].still \subseteq Granted'
                      /\ call[d].pc # "scan" => trace'[d].was = trace[d].was /\ trace'[d].still = trace[d].still
    BY DEF ScansFollow
  <2>1. /\ trace'[d].was = (IF call[d].pc = "scan" THEN trace[d].was \cup Granted' ELSE trace[d].was)
        /\ trace'[d].still = (IF call[d].pc = "scan" THEN trace[d].still \cap Granted' ELSE trace[d].still)
    BY <1>12
  <2>2. CASE call[d].pc = "scan"
    BY <2>1, <2>2
  <2>3. CASE call[d].pc # "scan"
    BY <2>1, <2>3
  <2> QED BY <2>2, <2>3
<1>9. StoriesKept
  BY <1>12 DEF StoriesKept
<1>10. LoweringsSeen(b)
  <2> SUFFICES ASSUME NEW d \in Caller, NEW u \in ERC20, d # b, call[d].pc = "send", call[d].in = u,
                      ~(allowance'[<<u, Router>>] >= allowance[<<u, Router>>])
               PROVE  trace'[d].beaten
    BY DEF LoweringsSeen
  <2>1. <<u, Router>> \in Pair
    BY SwapAssumption DEF Pair
  <2>2. p = <<u, Router>>
    BY <1>0, <1>1, <2>1
  <2>3. Mined.amount < allowance[p]
    BY <1>0, <1>1, <1>3, <2>1, <2>2
  <2>4. u = p[1]
    BY <2>2
  <2> QED BY <1>12, <2>3, <2>4
<1>11. \A d \in Caller :
         /\ trace'[d].paid = trace[d].paid
         /\ trace'[d].revoked = (IF d = b /\ trace[d].revoked = "sent" THEN "holds" ELSE trace[d].revoked)
  BY <1>12
<1> QED BY <1>1, <1>2, <1>3, <1>4, <1>7, <1>8, <1>9, <1>10, <1>11 DEF b, p

(***************************************************************************)
(* A swap is mined: no allowance goes up, and only its caller is paid.     *)
(***************************************************************************)
LEMMA SwapMined ==
  ASSUME Typed, MineSwap
  PROVE  /\ mempool # <<>> /\ mempool' = Tail(mempool)
         /\ Mined \in Tx /\ Mined.kind = "swap" /\ Mined.by \in Caller /\ Executes(Mined)
         /\ allowance' \in [Pair -> 0..MaxUint256] /\ \A q \in Pair : allowance'[q] <= allowance[q]
         /\ trace' \in [Caller -> Trace] /\ ScansFollow /\ StoriesKept /\ LoweringsSeen(Mined.by)
         /\ \A d \in Caller :
              /\ trace'[d].paid = (IF d = Mined.by THEN {Settled(Mined)} ELSE trace[d].paid)
              /\ trace'[d].revoked = trace[d].revoked
         /\ held' = (IF Mined.unwrap THEN 0
                     ELSE IF Mined.recipient = "router" THEN held + pool ELSE held)
         /\ held' \in Nat
         /\ Receipt(Mined.by, "ensureIn")
         /\ UNCHANGED <<loaded, watched, pool, calls, moves>>
<1> DEFINE b == Mined.by
           p == <<Mined.in, Router>>
           low == IF Pulls(Mined) THEN Beaten(b, p) ELSE trace
           t == [low EXCEPT ![b].paid = {Settled(Mined)}]
<1>0. /\ trace \in [Caller -> Trace] /\ mempool \in Seq(Tx) /\ allowance \in [Pair -> 0..MaxUint256]
      /\ held \in Nat /\ pool \in Nat /\ MaxUint256 \in Nat
  BY SwapAssumption DEF Typed
<1>1. /\ mempool # <<>> /\ mempool' = Tail(mempool) /\ Mined.kind = "swap" /\ Executes(Mined)
      /\ \E left \in IF Pulls(Mined) THEN AfterPull(p, Mined.amount) ELSE {allowance[p]} :
           allowance' = [allowance EXCEPT ![p] = left]
      /\ trace' = Scanned(t)
      /\ held' = (IF Mined.unwrap THEN 0 ELSE IF Mined.recipient = "router" THEN held + pool ELSE held)
      /\ Receipt(b, "ensureIn")
      /\ UNCHANGED <<loaded, watched, pool, calls, moves>>
  BY DEF MineSwap, Drop
<1>2. Mined \in Tx
  BY <1>0, <1>1, QueueShape DEF Mined
<1>3. /\ b \in Caller /\ p \in Pair /\ Mined.amount \in Nat /\ p[1] = Mined.in /\ Mined.in \in ERC20
      /\ Mined.out \in ERC20 /\ Mined.unwrap \in BOOLEAN
  BY <1>1, <1>2, SwapAssumption DEF Tx, Pair
<1>4. PICK left : /\ allowance' = [allowance EXCEPT ![p] = left]
                  /\ left \in IF Pulls(Mined) THEN AfterPull(p, Mined.amount) ELSE {allowance[p]}
  BY <1>1
<1>5. /\ left \in 0..MaxUint256 /\ left <= allowance[p]
      /\ ~Pulls(Mined) => left = allowance[p]
  <2>1. CASE Pulls(Mined)
    <3>1. allowance[p] >= Mined.amount /\ allowance[p] \in 0..MaxUint256
      BY <1>0, <1>1, <1>3, <2>1 DEF Executes, Allowed
    <3> HIDE DEF p
    <3>2. left = allowance[p] - Mined.amount \/ (allowance[p] = MaxUint256 /\ left = MaxUint256)
      BY <1>4, <2>1 DEF AfterPull
    <3> QED BY <1>0, <1>3, <2>1, <3>1, <3>2
  <2>2. CASE ~Pulls(Mined)
    <3>1. left = allowance[p]
      BY <1>4, <2>2
    <3>2. allowance[p] \in 0..MaxUint256
      BY <1>0, <1>3
    <3> QED BY <1>0, <2>2, <3>1, <3>2
  <2> QED BY <2>1, <2>2
<1>6. /\ allowance' \in [Pair -> 0..MaxUint256] /\ \A q \in Pair : q # p => allowance'[q] = allowance[q]
      /\ allowance'[p] = left
  BY <1>0, <1>3, <1>4, <1>5
<1>7. \A q \in Pair : allowance'[q] <= allowance[q]
  <2> SUFFICES ASSUME NEW q \in Pair PROVE allowance'[q] <= allowance[q]
    OBVIOUS
  <2>1. allowance[q] \in 0..MaxUint256
    BY <1>0
  <2>2. q # p => allowance'[q] = allowance[q]
    BY <1>6
  <2>3. q = p => allowance'[q] <= allowance[q]
    BY <1>5, <1>6
  <2> QED BY <1>0, <2>1, <2>2, <2>3
<1>8. held' \in Nat
  BY <1>0, <1>1
<1>9. Settled(Mined) \in Payment
  <2>1. PICK taken : taken = IF Pulls(Mined) THEN Mined.in ELSE Native
    OBVIOUS
  <2>2. PICK asset : asset = IF Mined.unwrap THEN Native ELSE Mined.out
    OBVIOUS
  <2>3. PICK paid : paid = IF Mined.unwrap THEN held + pool ELSE IF Mined.recipient = "wallet" THEN pool ELSE 0
    OBVIOUS
  <2>4. taken \in Token /\ asset \in Token /\ paid \in Nat
    BY <1>0, <1>3, <2>1, <2>2, <2>3 DEF Token
  <2>5. Settled(Mined) = [taken |-> taken, amount |-> Mined.amount, asset |-> asset, paid |-> paid]
    BY <2>1, <2>2, <2>3 DEF Settled
  <2> QED BY <1>3, <2>4, <2>5 DEF Payment
<1> HIDE DEF b, p
<1>10. /\ low \in [Caller -> Trace]
       /\ \A d \in Caller :
            /\ low[d].entered = trace[d].entered /\ low[d].paid = trace[d].paid
            /\ low[d].revoked = trace[d].revoked
            /\ low[d].lapsed = trace[d].lapsed /\ low[d].synced = trace[d].synced
            /\ low[d].unread = trace[d].unread
            /\ low[d].was = trace[d].was /\ low[d].still = trace[d].still
            /\ trace[d].beaten => low[d].beaten
            /\ Pulls(Mined) /\ d # b /\ call[d].pc = "send" /\ call[d].in = p[1] => low[d].beaten
  BY <1>0, BeatenEffect
<1> HIDE DEF low
<1>11. /\ t \in [Caller -> Trace]
       /\ \A d \in Caller :
            /\ t[d].entered = low[d].entered /\ t[d].revoked = low[d].revoked
            /\ t[d].lapsed = low[d].lapsed /\ t[d].synced = low[d].synced
            /\ t[d].unread = low[d].unread /\ t[d].beaten = low[d].beaten
            /\ t[d].was = low[d].was /\ t[d].still = low[d].still
            /\ t[d].paid = (IF d = b THEN {Settled(Mined)} ELSE low[d].paid)
  <2>1. PICK paid : paid = {Settled(Mined)}
    OBVIOUS
  <2>2. t = [low EXCEPT ![b] = [low[b] EXCEPT !.paid = paid]]
    BY <2>1
  <2>3. low[b] \in Trace
    BY <1>3, <1>10
  <2>4. paid \in SUBSET Payment
    BY <1>9, <2>1
  <2>5. [low[b] EXCEPT !.paid = paid] \in Trace
    BY <2>3, <2>4 DEF Trace
  <2> HIDE DEF t
  <2>6. t \in [Caller -> Trace] /\ \A d \in Caller : d # b => t[d] = low[d]
    BY <1>10, <2>2, <2>5
  <2>7. t[b] = [low[b] EXCEPT !.paid = paid]
    BY <1>3, <1>10, <2>2
  <2>8. /\ t[b].entered = low[b].entered /\ t[b].revoked = low[b].revoked
        /\ t[b].lapsed = low[b].lapsed /\ t[b].synced = low[b].synced
        /\ t[b].unread = low[b].unread /\ t[b].beaten = low[b].beaten
        /\ t[b].was = low[b].was /\ t[b].still = low[b].still /\ t[b].paid = paid
    BY <2>3, <2>7 DEF Trace
  <2> QED BY <2>1, <2>6, <2>8
<1> HIDE DEF t
<1>12. /\ trace' \in [Caller -> Trace]
       /\ \A d \in Caller :
            /\ trace'[d].entered = t[d].entered /\ trace'[d].paid = t[d].paid
            /\ trace'[d].beaten = t[d].beaten /\ trace'[d].revoked = t[d].revoked
            /\ trace'[d].lapsed = t[d].lapsed /\ trace'[d].synced = t[d].synced
            /\ trace'[d].unread = t[d].unread
            /\ trace'[d].was = (IF call[d].pc = "scan" THEN t[d].was \cup Granted' ELSE t[d].was)
            /\ trace'[d].still = (IF call[d].pc = "scan" THEN t[d].still \cap Granted' ELSE t[d].still)
  BY <1>1, <1>6, <1>11, ScannedEffect
<1>13. ASSUME NEW d \in Caller
       PROVE  /\ trace'[d].entered = trace[d].entered /\ trace'[d].revoked = trace[d].revoked
              /\ trace'[d].lapsed = trace[d].lapsed /\ trace'[d].synced = trace[d].synced
              /\ trace'[d].unread = trace[d].unread /\ (trace[d].beaten => trace'[d].beaten)
              /\ trace'[d].was = (IF call[d].pc = "scan" THEN trace[d].was \cup Granted' ELSE trace[d].was)
              /\ trace'[d].still = (IF call[d].pc = "scan" THEN trace[d].still \cap Granted'
                                    ELSE trace[d].still)
              /\ trace'[d].paid = (IF d = b THEN {Settled(Mined)} ELSE trace[d].paid)
              /\ Pulls(Mined) /\ d # b /\ call[d].pc = "send" /\ call[d].in = p[1] => trace'[d].beaten
  <2>1. trace'[d].entered = trace[d].entered /\ trace'[d].revoked = trace[d].revoked
    BY <1>10, <1>11, <1>12, ZenonT(60)
  <2>2. trace'[d].lapsed = trace[d].lapsed /\ trace'[d].synced = trace[d].synced
    BY <1>10, <1>11, <1>12, ZenonT(60)
  <2>3. trace'[d].unread = trace[d].unread
    BY <1>10, <1>11, <1>12, ZenonT(60)
  <2>4. trace'[d].beaten = low[d].beaten
    BY <1>11, <1>12, Zenon
  <2>5. /\ trace[d].beaten => low[d].beaten
        /\ Pulls(Mined) /\ d # b /\ call[d].pc = "send" /\ call[d].in = p[1] => low[d].beaten
    BY <1>10, Zenon
  <2>6. t[d].was = trace[d].was /\ t[d].still = trace[d].still
    BY <1>10, <1>11, Zenon
  <2>7. trace'[d].paid = (IF d = b THEN {Settled(Mined)} ELSE trace[d].paid)
    <3>1. low[d].paid = trace[d].paid
      BY <1>10
    <3>2. t[d].paid = (IF d = b THEN {Settled(Mined)} ELSE low[d].paid)
      BY <1>11
    <3>3. trace'[d].paid = t[d].paid
      BY <1>12
    <3> QED BY <3>1, <3>2, <3>3
  <2>8. /\ trace'[d].was = (IF call[d].pc = "scan" THEN t[d].was \cup Granted' ELSE t[d].was)
        /\ trace'[d].still = (IF call[d].pc = "scan" THEN t[d].still \cap Granted' ELSE t[d].still)
    BY <1>12
  <2>9. /\ trace[d].beaten => trace'[d].beaten
        /\ Pulls(Mined) /\ d # b /\ call[d].pc = "send" /\ call[d].in = p[1] => trace'[d].beaten
    BY <2>4, <2>5, Zenon
  <2> QED BY <2>1, <2>2, <2>3, <2>6, <2>7, <2>8, <2>9
<1>14. ScansFollow
  <2> SUFFICES ASSUME NEW d \in Caller
               PROVE  /\ trace[d].was \subseteq trace'[d].was /\ trace'[d].still \subseteq trace[d].still
                      /\ call[d].pc = "scan" =>
                           /\ Granted \subseteq trace[d].was => Granted' \subseteq trace'[d].was
                           /\ trace[d].still \subseteq Granted => trace'[d].still \subseteq Granted'
                      /\ call[d].pc # "scan" => trace'[d].was = trace[d].was /\ trace'[d].still = trace[d].still
    BY DEF ScansFollow
  <2>1. /\ trace'[d].was = (IF call[d].pc = "scan" THEN trace[d].was \cup Granted' ELSE trace[d].was)
        /\ trace'[d].still = (IF call[d].pc = "scan" THEN trace[d].still \cap Granted' ELSE trace[d].still)
    BY <1>13
  <2>2. CASE call[d].pc = "scan"
    BY <2>1, <2>2
  <2>3. CASE call[d].pc # "scan"
    BY <2>1, <2>3
  <2> QED BY <2>2, <2>3
<1>15. StoriesKept
  BY <1>13 DEF StoriesKept
<1>16. LoweringsSeen(b)
  <2> SUFFICES ASSUME NEW d \in Caller, NEW u \in ERC20, d # b, call[d].pc = "send", call[d].in = u,
                      ~(allowance'[<<u, Router>>] >= allowance[<<u, Router>>])
               PROVE  trace'[d].beaten
    BY DEF LoweringsSeen
  <2>1. <<u, Router>> \in Pair
    BY SwapAssumption DEF Pair
  <2>2. p = <<u, Router>>
    <3> SUFFICES ASSUME p # <<u, Router>> PROVE FALSE
      OBVIOUS
    <3>1. allowance'[<<u, Router>>] = allowance[<<u, Router>>]
      BY <1>6, <2>1
    <3>2. allowance[<<u, Router>>] \in Nat
      BY <1>0, <2>1
    <3> QED BY <3>1, <3>2
  <2>3. Pulls(Mined)
    <3> SUFFICES ASSUME ~Pulls(Mined) PROVE FALSE
      OBVIOUS
    <3>1. allowance'[p] = allowance[p]
      BY <1>5, <1>6
    <3>2. allowance[p] \in Nat
      BY <1>0, <1>3
    <3> QED BY <2>2, <3>1, <3>2
  <2>4. u = p[1]
    BY <2>2
  <2> QED BY <1>13, <2>3, <2>4
<1>17. \A d \in Caller :
         /\ trace'[d].paid = (IF d = b THEN {Settled(Mined)} ELSE trace[d].paid)
         /\ trace'[d].revoked = trace[d].revoked
  BY <1>13
<1> QED
  BY <1>1, <1>2, <1>3, <1>6, <1>7, <1>8, <1>12, <1>14, <1>15, <1>16, <1>17 DEF b

(***************************************************************************)
(* A transaction reverts: only its caller takes notice.                    *)
(***************************************************************************)
LEMMA Reverted ==
  ASSUME Typed, MineReverts
  PROVE  /\ mempool # <<>> /\ mempool' = Tail(mempool) /\ Mined \in Tx /\ Mined.by \in Caller
         /\ \/ Mined.kind = "swap" /\ Receipt(Mined.by, "ensureIn")
            \/ Mined.kind = "approve" /\ call[Mined.by].op = "swap" /\ Receipt(Mined.by, "failed")
            \/ Mined.kind = "approve" /\ call[Mined.by].op # "swap" /\ Receipt(Mined.by, "ok")
         /\ UNCHANGED <<loaded, watched, allowance, pool, held, calls, moves, trace>>
<1>1. mempool # <<>> /\ mempool' = Tail(mempool)
      /\ UNCHANGED <<loaded, watched, allowance, pool, held, calls, moves, trace>>
  BY DEF MineReverts, Drop
<1>2. mempool \in Seq(Tx)
  BY DEF Typed
<1>3. Mined \in Tx
  BY <1>1, <1>2, QueueShape DEF Mined
<1>4. Mined.by \in Caller /\ Mined.kind \in {"approve", "swap"}
  BY <1>3 DEF Tx
<1>5. Receipt(Mined.by, IF Mined.kind = "swap" THEN "ensureIn"
                        ELSE IF call[Mined.by].op = "swap" THEN ApproveReverts(Mined.by) ELSE "ok")
  BY DEF MineReverts
<1> QED BY <1>1, <1>3, <1>4, <1>5 DEF ApproveReverts

(***************************************************************************)
(* Whatever becomes of the transaction at the head.                        *)
(***************************************************************************)
LEMMA MineShape ==
  ASSUME Typed, Mine
  PROVE  /\ mempool # <<>> /\ mempool' = Tail(mempool) /\ Mined \in Tx /\ Mined.by \in Caller
         /\ trace' \in [Caller -> Trace] /\ ScansFollow /\ StoriesKept /\ LoweringsSeen(Mined.by)
         /\ allowance' \in [Pair -> 0..MaxUint256] /\ held' \in Nat
         /\ call' \in [Caller -> Call] /\ \A d \in Caller : d # Mined.by => call'[d] = call[d]
         /\ SameButPc(Mined.by)
         /\ \/ ~Waiting(Mined.by) /\ call'[Mined.by].pc = call[Mined.by].pc
            \/ /\ Waiting(Mined.by)
               /\ \/ /\ Mined.kind = "approve" /\ call[Mined.by].op = "swap"
                     /\ call'[Mined.by].pc \in {"send", "failed"}
                  \/ /\ Mined.kind = "approve" /\ call[Mined.by].op # "swap"
                     /\ call'[Mined.by].pc = "ok"
                  \/ Mined.kind = "swap" /\ call'[Mined.by].pc = "ensureIn"
         /\ UNCHANGED <<loaded, watched, pool, calls, moves>>
<1> USE DEF PCs
<1>0. call \in [Caller -> Call] /\ allowance \in [Pair -> 0..MaxUint256] /\ held \in Nat
      /\ trace \in [Caller -> Trace]
  BY DEF Typed
<1>1. CASE MineApprove
  <2>1. /\ Mined.by \in Caller /\ Mined.kind = "approve"
        /\ Receipt(Mined.by, IF call[Mined.by].op = "swap" THEN "send" ELSE "ok")
    BY <1>1, ApproveMined
  <2>2. /\ call' \in [Caller -> Call] /\ \A d \in Caller : d # Mined.by => call'[d] = call[d]
        /\ SameButPc(Mined.by)
        /\ call'[Mined.by].pc = (IF Waiting(Mined.by) THEN IF call[Mined.by].op = "swap" THEN "send" ELSE "ok"
                                 ELSE call[Mined.by].pc)
    <3>1. CASE call[Mined.by].op = "swap"
      <4>1. Receipt(Mined.by, "send")
        BY <2>1, <3>1
      <4> QED BY <1>0, <2>1, <3>1, <4>1, ReceiptEffect
    <3>2. CASE call[Mined.by].op # "swap"
      <4>1. Receipt(Mined.by, "ok")
        BY <2>1, <3>2
      <4> QED BY <1>0, <2>1, <3>2, <4>1, ReceiptEffect
    <3> QED BY <3>1, <3>2
  <2>3. held' \in Nat
    BY <1>0, <1>1, ApproveMined
  <2>4. /\ mempool # <<>> /\ mempool' = Tail(mempool) /\ Mined \in Tx
        /\ trace' \in [Caller -> Trace] /\ ScansFollow /\ StoriesKept /\ LoweringsSeen(Mined.by)
        /\ allowance' \in [Pair -> 0..MaxUint256] /\ UNCHANGED <<loaded, watched, pool, calls, moves>>
    BY <1>1, ApproveMined
  <2> QED BY <2>1, <2>2, <2>3, <2>4
<1>2. CASE MineSwap
  <2>1. Mined.by \in Caller /\ Mined.kind = "swap" /\ Receipt(Mined.by, "ensureIn")
    BY <1>2, SwapMined
  <2>2. /\ call' \in [Caller -> Call] /\ \A d \in Caller : d # Mined.by => call'[d] = call[d]
        /\ SameButPc(Mined.by)
        /\ call'[Mined.by].pc = (IF Waiting(Mined.by) THEN "ensureIn" ELSE call[Mined.by].pc)
    BY <1>0, <2>1, ReceiptEffect
  <2>4. /\ mempool # <<>> /\ mempool' = Tail(mempool) /\ Mined \in Tx /\ held' \in Nat
        /\ trace' \in [Caller -> Trace] /\ ScansFollow /\ StoriesKept /\ LoweringsSeen(Mined.by)
        /\ allowance' \in [Pair -> 0..MaxUint256] /\ UNCHANGED <<loaded, watched, pool, calls, moves>>
    BY <1>2, SwapMined
  <2> QED BY <2>1, <2>2, <2>4
<1>3. CASE MineReverts
  <2>1. /\ mempool # <<>> /\ mempool' = Tail(mempool) /\ Mined \in Tx /\ Mined.by \in Caller
        /\ UNCHANGED <<loaded, watched, allowance, pool, held, calls, moves, trace>>
    BY <1>3, Reverted
  <2>2. /\ trace' \in [Caller -> Trace] /\ allowance' \in [Pair -> 0..MaxUint256] /\ held' \in Nat
    BY <1>0, <2>1
  <2>3. ScansFollow /\ StoriesKept /\ LoweringsSeen(Mined.by)
    <3>1. ScansFollow
      BY <2>1 DEF ScansFollow, Granted
    <3>2. StoriesKept
      BY <2>1 DEF StoriesKept
    <3>3. LoweringsSeen(Mined.by)
      <4>1. \A t \in ERC20 : allowance[<<t, Router>>] \in Nat
        BY <1>0, SwapAssumption DEF Pair
      <4>2. \A t \in ERC20 : allowance'[<<t, Router>>] >= allowance[<<t, Router>>]
        BY <2>1, <4>1
      <4> QED BY <4>2 DEF LoweringsSeen
    <3> QED BY <3>1, <3>2, <3>3
  <2>4. PICK there \in {"ensureIn", "failed", "ok"} :
          /\ Receipt(Mined.by, there)
          /\ \/ Mined.kind = "swap" /\ there = "ensureIn"
             \/ Mined.kind = "approve" /\ call[Mined.by].op = "swap" /\ there = "failed"
             \/ Mined.kind = "approve" /\ call[Mined.by].op # "swap" /\ there = "ok"
    BY <1>3, Reverted
  <2>5. /\ call' \in [Caller -> Call] /\ \A d \in Caller : d # Mined.by => call'[d] = call[d]
        /\ SameButPc(Mined.by)
        /\ call'[Mined.by].pc = (IF Waiting(Mined.by) THEN there ELSE call[Mined.by].pc)
    BY <1>0, <2>1, <2>4, ReceiptEffect
  <2> QED BY <2>1, <2>2, <2>3, <2>4, <2>5
<1> QED BY <1>1, <1>2, <1>3 DEF Mine

-----------------------------------------------------------------------------
(* The invariants. *)

\* Where a call of each operation can be, and what is known there.
CallInv(c) ==
  /\ call[c].op = "none" => call[c].pc = "idle"
  /\ call[c].op = "list" => call[c].pc \in {"scan", "ok", "failed"}
  /\ call[c].op = "revoke" => call[c].in \in ERC20 /\ call[c].pc \in {"start", "revoking", "ok", "failed"}
  /\ call[c].op = "swap" =>
       /\ call[c].pc \notin {"idle", "scan", "revoking"}
       /\ 10 * call[c].amount <= trace[c].entered /\ call[c].amount <= MaxUint256
       /\ call[c].pc \in {"allowance", "approve", "approving"} => call[c].in # Native
       /\ call[c].pc \in {"allowance", "approve", "approving", "send", "swapping"} =>
            call[c].amount > 0 /\ call[c].floor = SlippageAmount(call[c].quote, SlippageBps)
  /\ call[c].pc \notin {"idle", "start", "ok", "failed"} => loaded

\* A transaction in the mempool is that of a call which waits for it, or has
\* given up waiting.
TxInv(tx) ==
  \/ /\ tx.kind = "approve" /\ call[tx.by].op = "swap" /\ call[tx.by].pc \in {"approving", "failed"}
     /\ call[tx.by].in # Native
     /\ tx = Approve(tx.by, call[tx.by].in, Router, MaxUint256)
  \/ /\ tx.kind = "approve" /\ call[tx.by].op = "revoke" /\ call[tx.by].pc \in {"revoking", "failed"}
     /\ tx = Approve(tx.by, call[tx.by].in, call[tx.by].spender, 0)
  \/ /\ tx.kind = "swap" /\ call[tx.by].op = "swap" /\ call[tx.by].pc \in {"swapping", "failed"}
     /\ call[tx.by].amount > 0 /\ call[tx.by].floor = SlippageAmount(call[tx.by].quote, SlippageBps)
     /\ tx = SwapTx(tx.by)

\* One at most per call.
PoolInv ==
  /\ \A i \in DOMAIN mempool : TxInv(mempool[i])
  /\ \A i, j \in DOMAIN mempool : mempool[i].by = mempool[j].by => i = j

\* A swap that has been paid was paid as asked, and is over on the chain.
PaidInv(c) ==
  trace[c].paid # {} =>
    /\ call[c].op = "swap" /\ call[c].pc \in {"ensureIn", "ensureOut", "sync", "ok", "failed"}
    /\ \A i \in DOMAIN mempool : mempool[i].by # c
    /\ \A s \in trace[c].paid :
         /\ s.taken = call[c].in /\ s.amount = call[c].amount /\ s.asset = call[c].out
         /\ s.paid >= SlippageAmount(call[c].quote, SlippageBps)

\* A swap about to be sent has its allowance, unless another call took it.
SecureInv(c) ==
  call[c].op = "swap" /\ call[c].pc = "send" /\ call[c].in # Native /\ ~trace[c].beaten =>
    allowance[<<call[c].in, Router>>] >= call[c].amount

Grants(tx, t, s) == tx.kind = "approve" /\ tx.token = t /\ tx.spender = s /\ tx.amount > 0

\* No swap of the token is under way, and nothing behind the revoke grants.
RevokeInv(c) ==
  /\ trace[c].revoked # "no" =>
       /\ call[c].op = "revoke" /\ call[c].pc # "start"
       /\ \A d \in Caller :
            call[d].op = "swap" /\ call[d].in = call[c].in => call[d].pc \in {"ok", "failed"}
  /\ trace[c].revoked = "sent" =>
       \A i, j \in DOMAIN mempool :
         i < j /\ mempool[i].by = c => ~Grants(mempool[j], call[c].in, call[c].spender)
  /\ trace[c].revoked = "holds" =>
       /\ allowance[<<call[c].in, call[c].spender>>] = 0
       /\ \A i \in DOMAIN mempool : ~Grants(mempool[i], call[c].in, call[c].spender)

\* A leg that has been ensured is on the watchlist, or has lapsed.
SyncInv(c) ==
  call[c].op = "swap" =>
    /\ call[c].pc \in {"ensureOut", "sync"} =>
         {call[c].in} \ {Native} \subseteq watched \cup trace[c].lapsed
    /\ call[c].pc = "sync" => {call[c].out} \ {Native} \subseteq watched \cup trace[c].lapsed
    /\ trace[c].synced # {} =>
         call[c].pc = "ok" /\ Legs(c) \subseteq trace[c].synced \cup trace[c].lapsed

\* What was granted all along is found, unread, or still to be read.
ScreenInv(c) ==
  call[c].op = "list" =>
    /\ call[c].pc \in {"scan", "ok"} =>
         /\ call[c].got \subseteq trace[c].was
         /\ trace[c].still \subseteq call[c].got \cup trace[c].unread \cup call[c].todo
    /\ call[c].pc = "scan" => Granted \subseteq trace[c].was /\ trace[c].still \subseteq Granted
    /\ call[c].pc = "ok" => call[c].todo = {}

CallsInv == \A c \in Caller : CallInv(c)

SwapInv ==
  /\ Typed /\ CallsInv /\ PoolInv
  /\ held = 0 /\ \A c \in Caller : PaidInv(c)
  /\ \A c \in Caller : SecureInv(c)
  /\ \A c \in Caller : RevokeInv(c)
  /\ \A c \in Caller : SyncInv(c)
  /\ \A c \in Caller : ScreenInv(c)

-----------------------------------------------------------------------------
(* Steps, one place at a time. *)

\* From the quote on, the amount is above zero and the floor is the quote's.
LEMMA QuoteShape ==
  ASSUME Typed, NEW c \in Caller, Step(c) \/ Cancelled(c), call[c].pc = "quote"
  PROVE  \/ call'[c].pc \in {"quote", "failed"} /\ SameQuote(c)
         \/ /\ call'[c].pc = (IF call[c].in = Native THEN "send" ELSE "allowance")
            /\ call[c].amount > 0
            /\ call'[c].floor = SlippageAmount(call'[c].quote, SlippageBps)
<1>0. call \in [Caller -> Call]
  BY DEF Typed
<1>1. QuoteSwap(c)
  BY DEF Step, Cancelled, Waiting, Start, QuoteSwap, ensureAllowance, ApproveToken, SendSwap, EnsureIn,
         EnsureOut, SyncForce, Revoke, Scan, ScanDone, At
<1>2. CASE Retry(c)
  BY <1>0, <1>2, RetryEffect DEF SameButPc
<1>3. CASE ~Retry(c)
  <2>1. PICK f, there :
          /\ f = SlippageAmount(pool, SlippageBps)
          /\ there = IF call[c].in = Native THEN "send" ELSE "allowance"
    OBVIOUS
  <2>2. call[c].amount > 0
        /\ call' = [call EXCEPT ![c] = [call[c] EXCEPT !.quote = pool, !.floor = f, !.pc = there,
                                                       !.attempt = 0]]
    BY <1>1, <1>3, <2>1 DEF QuoteSwap
  <2>3. call'[c].pc = there /\ call'[c].floor = f /\ call'[c].quote = pool
    BY <1>0, <2>2 DEF Call
  <2> QED BY <2>1, <2>2, <2>3
<1> QED BY <1>2, <1>3

\* A swap that needs no approval has read an allowance that is enough.
LEMMA AllowanceShape ==
  ASSUME Typed, NEW c \in Caller, Step(c) \/ Cancelled(c),
         call[c].pc = "allowance", call'[c].pc = "send"
  PROVE  allowance[<<call[c].in, Router>>] >= call[c].amount
<1>0. call \in [Caller -> Call]
  BY DEF Typed
<1>1. ensureAllowance(c)
  BY DEF Step, Cancelled, Waiting, Start, QuoteSwap, ensureAllowance, ApproveToken, SendSwap, EnsureIn,
         EnsureOut, SyncForce, Revoke, Scan, ScanDone, At
<1>2. ~Retry(c)
  BY <1>0, RetryEffect
<1> SUFFICES ASSUME ~(allowance[<<call[c].in, Router>>] >= call[c].amount) PROVE FALSE
  OBVIOUS
<1>3. Goto(c, "approve")
  BY <1>1, <1>2 DEF ensureAllowance
<1> QED BY <1>0, <1>3, GotoEffect DEF PCs

\* The two legs, and the sync.
LEMMA EnsureShape ==
  ASSUME Typed, NEW c \in Caller, Step(c) \/ Cancelled(c)
  PROVE  /\ call[c].pc = "ensureIn" => {call[c].in} \ {Native} \subseteq watched' \cup trace'[c].lapsed
         /\ call[c].pc = "ensureOut" => {call[c].out} \ {Native} \subseteq watched' \cup trace'[c].lapsed
         /\ SyncForce(c) => /\ call[c].pc = "sync"
                            /\ trace'[c].synced = watched \/ trace'[c].synced = trace[c].synced
<1>0. trace \in [Caller -> Trace] /\ trace[c] \in Trace
  BY DEF Typed
<1>1. ASSUME NEW leg, Ensure(c, leg)
      PROVE  {leg} \ {Native} \subseteq watched' \cup trace'[c].lapsed
  <2>1. CASE watched' = watched \cup ({leg} \ {Native})
    BY <2>1
  <2>2. CASE trace' = [trace EXCEPT ![c].lapsed = @ \cup {leg}]
    <3>1. trace'[c].lapsed = trace[c].lapsed \cup {leg}
      BY <1>0, <2>2 DEF Trace
    <3> QED BY <3>1
  <2> QED BY <1>1, <2>1, <2>2 DEF Ensure
<1>2. call[c].pc = "ensureIn" => EnsureIn(c)
  BY DEF Step, Cancelled, Waiting, Start, QuoteSwap, ensureAllowance, ApproveToken, SendSwap, EnsureIn,
         EnsureOut, SyncForce, Revoke, Scan, ScanDone, At
<1>3. call[c].pc = "ensureOut" => EnsureOut(c)
  BY DEF Step, Cancelled, Waiting, Start, QuoteSwap, ensureAllowance, ApproveToken, SendSwap, EnsureIn,
         EnsureOut, SyncForce, Revoke, Scan, ScanDone, At
<1>4. ASSUME SyncForce(c)
      PROVE  call[c].pc = "sync" /\ (trace'[c].synced = watched \/ trace'[c].synced = trace[c].synced)
  <2>1. CASE trace' = [trace EXCEPT ![c].synced = watched]
    BY <1>0, <1>4, <2>1 DEF SyncForce, At, Trace
  <2>2. CASE trace' = [trace EXCEPT ![c].lapsed = Token]
    BY <1>0, <1>4, <2>2 DEF SyncForce, At, Trace
  <2> QED BY <1>4, <2>1, <2>2 DEF SyncForce
<1>5. EnsureIn(c) => Ensure(c, call[c].in)
  BY DEF EnsureIn
<1>6. EnsureOut(c) => Ensure(c, call[c].out)
  BY DEF EnsureOut
<1> QED BY <1>1, <1>2, <1>3, <1>4, <1>5, <1>6

\* A read of the scan is answered, and kept if it is above zero, or fails.
LEMMA ScanShape ==
  ASSUME Typed, NEW c \in Caller, Step(c) \/ Cancelled(c), call[c].pc = "scan"
  PROVE  \/ call'[c].pc = "ok" /\ call[c].todo = {} /\ SameScan(c)
         \/ /\ call'[c].pc = "scan"
            /\ \E p \in call[c].todo :
                 /\ call'[c].todo = call[c].todo \ {p}
                 /\ \/ call'[c].got = (IF p \in Granted THEN call[c].got \cup {p} ELSE call[c].got)
                    \/ call'[c].got = call[c].got /\ p \in trace'[c].unread
<1>0. call \in [Caller -> Call] /\ trace \in [Caller -> Trace] /\ trace[c] \in Trace /\ call[c] \in Call
  BY DEF Typed
<1>1. Scan(c) \/ ScanDone(c)
  BY DEF Step, Cancelled, Waiting, Start, QuoteSwap, ensureAllowance, ApproveToken, SendSwap, EnsureIn,
         EnsureOut, SyncForce, Revoke, Scan, ScanDone, At
<1>2. CASE ScanDone(c)
  BY <1>0, <1>2, GotoEffect DEF ScanDone, SameButPc, PCs
<1>3. CASE Scan(c)
  <2>1. PICK p \in call[c].todo :
          \/ call' = [call EXCEPT ![c].todo = @ \ {p},
                                  ![c].got = IF allowance[p] > 0 THEN @ \cup {p} ELSE @]
          \/ /\ call' = [call EXCEPT ![c].todo = @ \ {p}]
             /\ trace' = [trace EXCEPT ![c].unread = @ \cup {p}]
    BY <1>3 DEF Scan
  <2>2. p \in Granted <=> allowance[p] > 0
    BY <1>0 DEF Granted, Call
  <2>3. CASE /\ call' = [call EXCEPT ![c].todo = @ \ {p}]
             /\ trace' = [trace EXCEPT ![c].unread = @ \cup {p}]
    <3>1. call'[c].pc = call[c].pc /\ call'[c].todo = call[c].todo \ {p} /\ call'[c].got = call[c].got
      BY <1>0, <2>3 DEF Call
    <3>2. p \in trace'[c].unread
      BY <1>0, <2>3 DEF Trace
    <3> QED BY <3>1, <3>2
  <2>4. CASE call' = [call EXCEPT ![c].todo = @ \ {p},
                                  ![c].got = IF allowance[p] > 0 THEN @ \cup {p} ELSE @]
    <3>1. PICK g : g = IF allowance[p] > 0 THEN call[c].got \cup {p} ELSE call[c].got
      OBVIOUS
    <3>2. call' = [call EXCEPT ![c] = [call[c] EXCEPT !.todo = call[c].todo \ {p}, !.got = g]]
      BY <2>4, <3>1
    <3>3. call'[c].pc = call[c].pc /\ call'[c].todo = call[c].todo \ {p} /\ call'[c].got = g
      BY <1>0, <3>2 DEF Call
    <3> QED BY <2>2, <3>1, <3>3
  <2> QED BY <2>1, <2>3, <2>4
<1> QED BY <1>1, <1>2, <1>3

\* What the user and the market do leaves the calls where they are.
Quiet == Move \/ ImportWallet \/ (\E t \in ERC20 : RemoveToken(t)) \/ UNCHANGED vars

\* It changes the watchlist, the wallet and the price, and lapses the legs of
\* a swap that is putting them on the watchlist.
LEMMA QuietShape ==
  ASSUME Typed, CallsInv, Quiet
  PROVE  /\ Typed' /\ UNCHANGED <<call, mempool, allowance, held>> /\ (loaded => loaded')
         /\ \A d \in Caller :
              /\ trace'[d].entered = trace[d].entered /\ trace'[d].paid = trace[d].paid
              /\ trace'[d].beaten = trace[d].beaten /\ trace'[d].revoked = trace[d].revoked
              /\ trace'[d].synced = trace[d].synced /\ trace'[d].unread = trace[d].unread
              /\ trace'[d].was = trace[d].was /\ trace'[d].still = trace[d].still
              /\ trace[d].lapsed \subseteq trace'[d].lapsed
              /\ call[d].pc \in {"ensureOut", "sync"} => watched \subseteq watched' \cup trace'[d].lapsed
<1> USE SwapAssumption
<1>1. CASE Move
  <2>1. Typed'
    BY <1>1 DEF Move, Typed
  <2> QED BY <1>1, <2>1 DEF Move
<1>2. CASE ImportWallet
  <2>1. Typed'
    BY <1>2 DEF ImportWallet, Typed, chain
  <2>2. \A d \in Caller : call[d].pc \notin {"ensureOut", "sync"}
    BY <1>2 DEF ImportWallet, CallsInv, CallInv
  <2> QED BY <1>2, <2>1, <2>2 DEF ImportWallet, chain
<1>3. CASE \E t \in ERC20 : RemoveToken(t)
  <2>1. PICK t \in ERC20 : RemoveToken(t)
    BY <1>3
  <2>2. trace \in [Caller -> Trace] /\ \A d \in Caller : [trace[d] EXCEPT !.lapsed = @ \cup {t}] \in Trace
    BY ZenonT(40) DEF Typed, Trace, Token
  <2>3. /\ watched' = watched \ {t} /\ UNCHANGED <<loaded, chain, mempool, call, calls>>
        /\ moves' \in 0..MaxMoves
    BY <2>1 DEF RemoveToken, Typed
  <2>4. trace' \in [Caller -> Trace]
    BY <2>1, <2>2 DEF RemoveToken
  <2>5. \A d \in Caller : trace'[d] = (IF call[d].pc \in {"ensureOut", "sync"}
                                       THEN [trace[d] EXCEPT !.lapsed = @ \cup {t}] ELSE trace[d])
    BY <2>1 DEF RemoveToken, At
  <2>6. Typed'
    BY <2>3, <2>4 DEF Typed, chain
  <2>7. ASSUME NEW d \in Caller
        PROVE  /\ trace'[d].entered = trace[d].entered /\ trace'[d].paid = trace[d].paid
               /\ trace'[d].beaten = trace[d].beaten /\ trace'[d].revoked = trace[d].revoked
               /\ trace'[d].synced = trace[d].synced /\ trace'[d].unread = trace[d].unread
               /\ trace'[d].was = trace[d].was /\ trace'[d].still = trace[d].still
               /\ trace[d].lapsed \subseteq trace'[d].lapsed
               /\ call[d].pc \in {"ensureOut", "sync"} => watched \subseteq watched' \cup trace'[d].lapsed
    <3>1. trace[d] \in Trace
      BY <2>2
    <3>2. CASE call[d].pc \in {"ensureOut", "sync"}
      <4>1. trace'[d] = [trace[d] EXCEPT !.lapsed = trace[d].lapsed \cup {t}]
        BY <2>5, <3>2
      <4>2. trace'[d].lapsed = trace[d].lapsed \cup {t}
        BY <3>1, <4>1 DEF Trace
      <4> QED BY <2>3, <3>1, <4>1, <4>2 DEF Trace
    <3>3. CASE call[d].pc \notin {"ensureOut", "sync"}
      BY <2>5, <3>3
    <3> QED BY <3>2, <3>3
  <2> QED BY <2>3, <2>6, <2>7 DEF chain
<1>4. CASE UNCHANGED vars
  <2>1. Typed'
    BY <1>4 DEF vars, Typed
  <2> QED BY <1>4, <2>1 DEF vars
<1> QED BY <1>1, <1>2, <1>3, <1>4 DEF Quiet

\* What a call that begins leaves of the others, field by field.
LEMMA BeginRest ==
  ASSUME Typed, NEW c \in Caller, NEW request \in Call, NEW t \in Trace, Begin(c, request, t)
  PROVE  \A d \in Caller : d # c =>
           /\ call'[d] = call[d]
           /\ trace'[d].entered = trace[d].entered /\ trace'[d].paid = trace[d].paid
           /\ trace'[d].beaten = trace[d].beaten
           /\ trace'[d].synced = trace[d].synced /\ trace'[d].unread = trace[d].unread
           /\ trace'[d].was = trace[d].was /\ trace'[d].still = trace[d].still
           /\ trace'[d].lapsed = trace[d].lapsed
           /\ trace'[d].revoked = (IF request.op = "swap" /\ request.in = call[d].in THEN "no"
                                   ELSE trace[d].revoked)
<1> SUFFICES ASSUME NEW d \in Caller, d # c
             PROVE  /\ call'[d] = call[d]
                    /\ trace'[d].entered = trace[d].entered /\ trace'[d].paid = trace[d].paid
                    /\ trace'[d].beaten = trace[d].beaten
                    /\ trace'[d].synced = trace[d].synced /\ trace'[d].unread = trace[d].unread
                    /\ trace'[d].was = trace[d].was /\ trace'[d].still = trace[d].still
                    /\ trace'[d].lapsed = trace[d].lapsed
                    /\ trace'[d].revoked = (IF request.op = "swap" /\ request.in = call[d].in THEN "no"
                                            ELSE trace[d].revoked)
  OBVIOUS
<1>0. trace[d] \in Trace
  BY DEF Typed
<1>1. call'[d] = call[d]
  BY DEF Begin, Typed
<1>2. trace'[d] = (IF request.op = "swap" /\ request.in = call[d].in
                   THEN [trace[d] EXCEPT !.revoked = "no"] ELSE trace[d])
  <2>1. trace' = [Reopened(request) EXCEPT ![c] = t]
    BY DEF Begin
  <2>2. trace'[d] = Reopened(request)[d]
    BY <2>1 DEF Reopened
  <2> QED BY <2>2 DEF Reopened
<1>3. CASE request.op = "swap" /\ request.in = call[d].in
  <2>1. trace'[d] = [trace[d] EXCEPT !.revoked = "no"]
    BY <1>2, <1>3
  <2> QED BY <1>0, <1>1, <1>3, <2>1 DEF Trace
<1>4. CASE ~(request.op = "swap" /\ request.in = call[d].in)
  BY <1>1, <1>2, <1>4
<1> QED BY <1>3, <1>4

-----------------------------------------------------------------------------
(* What every step preserves. *)

Begun(c) == ExecuteSwap(c) \/ RevokeApproval(c) \/ ListApprovals(c)
Goes(c) == Step(c) \/ Cancelled(c)

\* The cases of the proofs below.
LEMMA NextCases ==
  ASSUME [Next]_vars
  PROVE  Quiet \/ Mine \/ \E c \in Caller : Begun(c) \/ Goes(c)
BY DEF Next, Quiet, Begun, Goes

(***************************************************************************)
(* The types: an approval is of a token with a contract.                   *)
(***************************************************************************)
LEMMA TypedKept ==
  ASSUME Typed, CallsInv, [Next]_vars
  PROVE  Typed'
<1>0. mempool \in Seq(Tx)
  BY DEF Typed
<1>1. CASE Quiet
  BY <1>1, QuietShape
<1>2. CASE Mine
  <2>1. mempool' \in Seq(Tx)
    <3>1. mempool # <<>> /\ mempool' = Tail(mempool)
      BY <1>2, MineShape
    <3> QED BY <1>0, <3>1, QueueShape
  <2> QED BY <1>2, <2>1, MineShape DEF Typed
<1>3. ASSUME NEW c \in Caller, Begun(c) PROVE Typed'
  <2>1. PICK request \in Call, t \in Trace : Begin(c, request, t)
    BY <1>3, Begins DEF Begun
  <2> QED BY <2>1, BeginShape DEF Typed, chain
<1>4. ASSUME NEW c \in Caller, Goes(c) PROVE Typed'
  <2>1. /\ call' \in [Caller -> Call] /\ UNCHANGED <<loaded, chain, calls, moves>>
        /\ trace' \in [Caller -> Trace] /\ watched' \subseteq ERC20
    BY <1>4, StepShape, StepTrace DEF Goes
  <2>2. mempool' \in Seq(Tx)
    <3>1. CallInv(c) /\ call[c] \in Call
      BY DEF CallsInv, Typed
    <3>2. CASE call[c].pc = "approve" /\ mempool' = Append(mempool, Approve(c, call[c].in, Router, MaxUint256))
      <4>1. call[c].in \in ERC20
        BY <3>1, <3>2 DEF CallInv, Call, Token
      <4> QED BY <1>0, <3>2, <4>1, TxTyped, QueueShape, SwapAssumption
    <3>3. CASE mempool' = Append(mempool, SwapTx(c))
      BY <1>0, <3>3, TxTyped, QueueShape
    <3>4. CASE Revoke(c) /\ mempool' = Append(mempool, Approve(c, call[c].in, call[c].spender, 0))
      <4>1. call[c].in \in ERC20 /\ call[c].spender \in Spender /\ 0 \in 0..MaxUint256
        BY <3>1, <3>4, SwapAssumption DEF Revoke, CallInv, Call
      <4> QED BY <1>0, <3>4, <4>1, TxTyped, QueueShape
    <3> QED BY <1>0, <1>4, <3>2, <3>3, <3>4, StepSends DEF Goes
  <2> QED BY <2>1, <2>2 DEF Typed, chain
<1> QED BY <1>1, <1>2, <1>3, <1>4, NextCases

(***************************************************************************)
(* A transaction of the mempool stays that of its call while this one      *)
(* waits or gives up.                                                      *)
(***************************************************************************)
LEMMA TxStays ==
  ASSUME NEW tx, SameRequest(tx.by), SameQuote(tx.by), TxInv(tx),
         call'[tx.by].pc \in {call[tx.by].pc, "failed"}
  PROVE  TxInv(tx)'
<1>1. SwapTx(tx.by)' = SwapTx(tx.by)
  BY DEF SameRequest, SameQuote, SwapTx
<1>2. CASE tx.kind = "approve"
  BY <1>2 DEF TxInv, SameRequest, SameQuote
<1>3. CASE tx.kind = "swap"
  BY <1>1, <1>3 DEF TxInv, SameRequest, SameQuote
<1> QED BY <1>2, <1>3 DEF TxInv

\* The call of a transaction in the mempool.
LEMMA TxCall ==
  ASSUME Typed, PoolInv, NEW i \in DOMAIN mempool
  PROVE  /\ mempool[i] \in Tx /\ mempool[i].by \in Caller /\ TxInv(mempool[i])
         /\ call[mempool[i].by].pc \in {"approving", "swapping", "revoking", "failed"}
<1>1. mempool \in Seq(Tx)
  BY DEF Typed
<1>2. mempool[i] \in Tx
  BY <1>1, QueueShape
<1> QED BY <1>2 DEF PoolInv, TxInv, Tx

\* A call stays where its operation can be.
LEMMA CallsKept ==
  ASSUME Typed, CallsInv, PoolInv, [Next]_vars
  PROVE  CallsInv'
<1>1. CASE Quiet
  BY <1>1, QuietShape DEF CallsInv, CallInv
<1>2. CASE Mine
  <2> DEFINE b == Mined.by
  <2>1. /\ b \in Caller /\ SameButPc(b) /\ \A d \in Caller : d # b => call'[d] = call[d]
        /\ \/ ~Waiting(b) /\ call'[b].pc = call[b].pc
           \/ /\ Waiting(b)
              /\ \/ Mined.kind = "approve" /\ call[b].op = "swap" /\ call'[b].pc \in {"send", "failed"}
                 \/ Mined.kind = "approve" /\ call[b].op # "swap" /\ call'[b].pc = "ok"
                 \/ Mined.kind = "swap" /\ call'[b].pc = "ensureIn"
        /\ loaded' = loaded
    BY <1>2, MineShape
  <2>2. \A d \in Caller : trace'[d].entered = trace[d].entered
    BY <1>2, MineShape DEF StoriesKept
  <2>3. TxInv(Mined)
    <3>1. mempool # <<>> /\ mempool \in Seq(Tx)
      BY <1>2, MineShape DEF Typed
    <3>2. 1 \in DOMAIN mempool /\ Mined = mempool[1]
      BY <3>1, QueueShape DEF Mined
    <3> QED BY <3>2 DEF PoolInv
  <2> HIDE DEF b
  <2> SUFFICES ASSUME NEW d \in Caller PROVE CallInv(d)'
    BY DEF CallsInv
  <2>4. CallInv(d) /\ CallInv(b)
    BY <2>1 DEF CallsInv
  <2>5. CASE d # b
    BY <2>1, <2>2, <2>4, <2>5 DEF CallInv
  <2>6. CASE d = b
    <3>1. /\ Mined.kind = "swap" => call[b].op = "swap"
          /\ call[b].op \in {"swap", "revoke"}
      BY <2>3 DEF TxInv, b
    <3>2. /\ call'[b].op = call[b].op /\ call'[b].in = call[b].in /\ call'[b].amount = call[b].amount
          /\ call'[b].quote = call[b].quote /\ call'[b].floor = call[b].floor
      BY <2>1 DEF SameButPc, SameRequest, SameQuote
    <3>3. CASE ~Waiting(b) /\ call'[b].pc = call[b].pc
      BY <2>1, <2>2, <2>4, <2>6, <3>2, <3>3 DEF CallInv
    <3>4. CASE Waiting(b) /\ call[b].op = "revoke" /\ call'[b].pc = "ok"
      BY <2>1, <2>4, <2>6, <3>2, <3>4 DEF CallInv
    <3>5. CASE Waiting(b) /\ call[b].op = "swap" /\ call'[b].pc \in {"send", "failed", "ensureIn"}
      <4>1. call[b].pc \in {"approving", "swapping"}
        BY <2>4, <3>5 DEF Waiting, CallInv
      <4>2. /\ loaded /\ call[b].amount > 0 /\ call[b].floor = SlippageAmount(call[b].quote, SlippageBps)
            /\ 10 * call[b].amount <= trace[b].entered /\ call[b].amount <= MaxUint256
        BY <2>4, <3>5, <4>1 DEF CallInv
      <4> QED BY <2>1, <2>2, <2>6, <3>2, <3>5, <4>2 DEF CallInv
    <3> QED BY <2>1, <3>1, <3>3, <3>4, <3>5
  <2> QED BY <2>5, <2>6
<1>3. ASSUME NEW c \in Caller, Begun(c) PROVE CallsInv'
  <2>1. PICK request \in Call, t \in Trace :
          /\ Begin(c, request, t)
          /\ \/ /\ request.op = "swap" /\ request.pc = "start"
                /\ 10 * request.amount <= t.entered /\ request.amount <= MaxUint256
             \/ request.op = "revoke" /\ request.in \in ERC20 /\ request.pc = "start"
             \/ /\ request.op = "list" /\ request.pc \in {"scan", "failed"}
                /\ request.pc = "scan" => loaded
    BY <1>3, Begins DEF Begun
  <2>2. call'[c] = request /\ trace'[c] = t /\ loaded' = loaded
    BY <2>1, BeginShape
  <2>3. \A d \in Caller : d # c => call'[d] = call[d] /\ trace'[d].entered = trace[d].entered
    BY <2>1, BeginRest
  <2> SUFFICES ASSUME NEW d \in Caller PROVE CallInv(d)'
    BY DEF CallsInv
  <2>4. CASE d # c
    BY <2>2, <2>3, <2>4 DEF CallsInv, CallInv
  <2>5. CASE d = c
    BY <2>1, <2>2, <2>5 DEF CallInv
  <2> QED BY <2>4, <2>5
<1>4. ASSUME NEW c \in Caller, Goes(c) PROVE CallsInv'
  <2>1. /\ \A d \in Caller : d # c => call'[d] = call[d]
        /\ SameRequest(c) /\ Arrow(c) /\ (SameQuote(c) \/ QuoteSwap(c)) /\ loaded' = loaded
    BY <1>4, StepShape DEF Goes
  <2>2. \A d \in Caller : trace'[d].entered = trace[d].entered
    BY <1>4, StepTrace DEF Goes
  <2> SUFFICES ASSUME NEW d \in Caller PROVE CallInv(d)'
    BY DEF CallsInv
  <2>3. CASE d # c
    BY <2>1, <2>2, <2>3 DEF CallsInv, CallInv
  <2>4. CASE d = c
    <3>1. CallInv(c)
      BY DEF CallsInv
    <3>2. /\ call'[c].op = call[c].op /\ call'[c].in = call[c].in /\ call'[c].amount = call[c].amount
      BY <2>1 DEF SameRequest
    <3>3. CASE call[c].op # "swap"
      <4>1. call[c].op \in {"none", "list", "revoke"}
        BY <3>3 DEF Typed, Call
      <4>2. \/ call[c].op = "list" /\ call[c].pc = "scan" /\ call'[c].pc \in {"scan", "ok"}
            \/ call[c].op = "revoke" /\ call'[c].pc \in {"revoking", "failed"}
        BY <2>1, <3>1, <4>1 DEF Arrow, CallInv
      <4> QED BY <2>1, <2>4, <3>1, <3>2, <4>2 DEF CallInv, Arrow
    <3>4. CASE call[c].op = "swap" /\ call[c].pc = "quote"
      <4>1. \/ call'[c].pc \in {"quote", "failed"}
            \/ /\ call'[c].pc = (IF call[c].in = Native THEN "send" ELSE "allowance")
               /\ call[c].amount > 0
               /\ call'[c].floor = SlippageAmount(call'[c].quote, SlippageBps)
        BY <1>4, <3>4, QuoteShape DEF Goes
      <4> QED BY <2>1, <2>2, <2>4, <3>1, <3>2, <3>4, <4>1 DEF CallInv
    <3>5. CASE call[c].op = "swap" /\ call[c].pc # "quote"
      <4>1. call'[c].quote = call[c].quote /\ call'[c].floor = call[c].floor
        BY <2>1, <3>5 DEF SameQuote, QuoteSwap, At
      <4>2. /\ call'[c].pc \notin {"idle", "scan", "revoking"}
            /\ call'[c].pc \in {"allowance", "approve", "approving"} =>
                 call[c].pc \in {"allowance", "approve", "approving"}
            /\ call'[c].pc \in {"allowance", "approve", "approving", "send", "swapping"} =>
                 call[c].pc \in {"allowance", "approve", "approving", "send", "swapping"}
            /\ call'[c].pc \notin {"idle", "start", "ok", "failed"} => loaded
        BY <2>1, <3>1, <3>5 DEF Arrow, CallInv
      <4> QED BY <2>1, <2>2, <2>4, <3>1, <3>2, <3>5, <4>1, <4>2 DEF CallInv
    <3> QED BY <3>3, <3>4, <3>5
  <2> QED BY <2>3, <2>4
<1> QED BY <1>1, <1>2, <1>3, <1>4, NextCases

\* Each call has one transaction in the mempool at most, and it is its own.
LEMMA PoolKept ==
  ASSUME Typed, CallsInv, PoolInv, [Next]_vars
  PROVE  PoolInv'
<1>0. mempool \in Seq(Tx) /\ Len(mempool) \in Nat /\ DOMAIN mempool = 1..Len(mempool)
  BY LenProperties DEF Typed
<1>a. \A i \in DOMAIN mempool : mempool[i].by \in Caller /\ TxInv(mempool[i])
  BY TxCall
<1>b. \A i, j \in DOMAIN mempool : mempool[i].by = mempool[j].by => i = j
  BY DEF PoolInv
<1>1. CASE Quiet
  <2>1. call' = call /\ mempool' = mempool
    BY <1>1, QuietShape
  <2> QED BY <2>1 DEF PoolInv, TxInv, SwapTx
<1>2. CASE Mine
  <2>1. /\ mempool # <<>> /\ mempool' = Tail(mempool)
        /\ \A d \in Caller : d # Mined.by => call'[d] = call[d]
    BY <1>2, MineShape
  <2>2. /\ 1 \in DOMAIN mempool /\ Mined = mempool[1]
        /\ \A i \in DOMAIN mempool' : i \in Nat /\ i + 1 \in DOMAIN mempool /\ mempool'[i] = mempool[i + 1]
    BY <1>0, <2>1, QueueShape DEF Mined
  <2>3. ASSUME NEW i \in DOMAIN mempool' PROVE TxInv(mempool[i])'
    <3>0. PICK tx : tx = mempool[i + 1]
      OBVIOUS
    <3>1. i + 1 \in DOMAIN mempool /\ i + 1 # 1 /\ mempool'[i] = tx
      BY <2>2, <3>0, <1>0
    <3>2. tx.by # Mined.by /\ tx.by \in Caller /\ TxInv(tx)
      BY <1>a, <1>b, <2>2, <3>0, <3>1
    <3>3. call'[tx.by] = call[tx.by]
      BY <2>1, <3>2
    <3>4. TxInv(tx)'
      BY <3>2, <3>3, TxStays DEF SameRequest, SameQuote
    <3> QED BY <3>1, <3>4
  <2>4. ASSUME NEW i \in DOMAIN mempool', NEW j \in DOMAIN mempool', mempool'[i].by = mempool'[j].by
        PROVE  i = j
    BY <1>b, <2>2, <2>4
  <2> QED BY <2>3, <2>4 DEF PoolInv
<1>3. ASSUME NEW c \in Caller, Begun(c) PROVE PoolInv'
  <2>1. PICK request \in Call, t \in Trace : Begin(c, request, t)
    BY <1>3, Begins DEF Begun
  <2>2. mempool' = mempool /\ \A i \in DOMAIN mempool : mempool[i].by # c
    BY <2>1, BeginShape
  <2>3. \A d \in Caller : d # c => call'[d] = call[d]
    BY <2>1, BeginRest
  <2>4. ASSUME NEW i \in DOMAIN mempool' PROVE TxInv(mempool[i])'
    <3>0. PICK tx : tx = mempool[i]
      OBVIOUS
    <3>1. TxInv(tx) /\ call'[tx.by] = call[tx.by]
      BY <1>a, <2>2, <2>3, <3>0
    <3>2. TxInv(tx)'
      BY <3>1, TxStays DEF SameRequest, SameQuote
    <3>3. mempool'[i] = tx
      BY <2>2, <3>0
    <3> QED BY <3>2, <3>3
  <2> QED BY <1>b, <2>2, <2>4 DEF PoolInv
<1>4. ASSUME NEW c \in Caller, Goes(c) PROVE PoolInv'
  <2>1. /\ \A d \in Caller : d # c => call'[d] = call[d]
        /\ SameRequest(c) /\ Arrow(c) /\ (SameQuote(c) \/ QuoteSwap(c))
    BY <1>4, StepShape DEF Goes
  <2>2. ASSUME NEW i \in DOMAIN mempool, NEW tx, tx = mempool[i] PROVE TxInv(tx)'
    <3>1. TxInv(tx) /\ tx.by \in Caller
      BY <1>a, <2>2
    <3>2. CASE tx.by # c
      <4>1. call'[tx.by] = call[tx.by]
        BY <2>1, <3>1, <3>2
      <4>2. TxInv(tx)'
        BY <3>1, <4>1, TxStays DEF SameRequest, SameQuote
      <4> QED BY <4>2
    <3>3. CASE tx.by = c
      <4>1. call[c].pc \in {"approving", "swapping", "revoking", "failed"}
        BY <3>1, <3>3 DEF TxInv
      <4>2. SameQuote(c) /\ call'[c].pc \in {call[c].pc, "failed"}
        BY <2>1, <4>1 DEF Arrow, QuoteSwap, At
      <4>3. TxInv(tx)'
        BY <2>1, <3>1, <3>3, <4>2, TxStays
      <4> QED BY <4>3
    <3> QED BY <3>2, <3>3
  <2>3. CASE mempool' = mempool
    <3>1. ASSUME NEW i \in DOMAIN mempool' PROVE TxInv(mempool[i])'
      <4>1. PICK tx : tx = mempool[i]
        OBVIOUS
      <4>2. TxInv(tx)'
        BY <2>2, <2>3, <4>1
      <4>3. mempool'[i] = tx
        BY <2>3, <4>1
      <4> QED BY <4>2, <4>3
    <3> QED BY <1>b, <2>3, <3>1 DEF PoolInv
  <2>4. ASSUME NEW tx, mempool' = Append(mempool, tx), tx \in Tx, tx.by = c, TxInv(tx)',
               call[c].pc \in {"approve", "send", "start"}
        PROVE  PoolInv'
    <3>1. \A i \in DOMAIN mempool' : \/ i \in DOMAIN mempool /\ mempool'[i] = mempool[i]
                                     \/ i = Len(mempool) + 1 /\ mempool'[i] = tx
      BY <1>0, <2>4, QueueShape
    <3>2. \A i \in DOMAIN mempool : mempool[i].by # c
      BY <2>4, TxCall
    <3>3. ASSUME NEW i \in DOMAIN mempool' PROVE TxInv(mempool[i])'
      <4>1. CASE i \in DOMAIN mempool /\ mempool'[i] = mempool[i]
        <5>1. PICK old : old = mempool[i]
          OBVIOUS
        <5>2. TxInv(old)' /\ mempool'[i] = old
          BY <2>2, <4>1, <5>1
        <5> QED BY <5>2
      <4>2. CASE mempool'[i] = tx
        BY <2>4, <4>2
      <4> QED BY <3>1, <4>1, <4>2
    <3>4. ASSUME NEW i \in DOMAIN mempool', NEW j \in DOMAIN mempool', mempool'[i].by = mempool'[j].by
          PROVE  i = j
      BY <1>b, <2>4, <3>1, <3>2, <3>4
    <3> QED BY <3>3, <3>4 DEF PoolInv
  <2>5. CallInv(c) /\ call[c] \in Call
    BY DEF CallsInv, Typed
  <2>6. CASE /\ ApproveToken(c) /\ call[c].pc = "approve" /\ call'[c].pc = "approving"
             /\ mempool' = Append(mempool, Approve(c, call[c].in, Router, MaxUint256))
    <3>0. PICK tx : tx = Approve(c, call[c].in, Router, MaxUint256)
      OBVIOUS
    <3>1. call[c].op = "swap" /\ call[c].in # Native /\ call[c].in \in ERC20
      BY <2>5, <2>6 DEF CallInv, Call, Token
    <3>2. tx \in Tx /\ tx.by = c /\ tx.kind = "approve"
      BY <3>0, <3>1, TxTyped, SwapAssumption
    <3>3. TxInv(tx)'
      BY <2>1, <2>6, <3>0, <3>1, <3>2 DEF TxInv, SameRequest
    <3> QED BY <2>4, <2>6, <3>0, <3>2, <3>3
  <2>7. CASE /\ SendSwap(c) /\ call[c].pc = "send" /\ call'[c].pc = "swapping"
             /\ mempool' = Append(mempool, SwapTx(c))
    <3>0. PICK tx : tx = SwapTx(c)
      OBVIOUS
    <3>1. /\ call[c].op = "swap" /\ call[c].amount > 0
          /\ call[c].floor = SlippageAmount(call[c].quote, SlippageBps)
      BY <2>5, <2>7 DEF CallInv, Call
    <3>2. tx \in Tx /\ tx.by = c /\ tx.kind = "swap"
      BY <3>0, TxTyped
    <3>3. SameQuote(c)
      BY <2>1, <2>7 DEF QuoteSwap, At
    <3>4. SwapTx(c)' = SwapTx(c)
      BY <2>1, <3>3 DEF SameRequest, SameQuote, SwapTx
    <3>5. TxInv(tx)'
      BY <2>1, <2>7, <3>0, <3>1, <3>2, <3>3, <3>4 DEF TxInv, SameRequest, SameQuote
    <3> QED BY <2>4, <2>7, <3>0, <3>2, <3>5
  <2>8. CASE /\ Revoke(c) /\ call[c].pc = "start" /\ call'[c].pc = "revoking"
             /\ mempool' = Append(mempool, Approve(c, call[c].in, call[c].spender, 0))
    <3>0. PICK tx : tx = Approve(c, call[c].in, call[c].spender, 0)
      OBVIOUS
    <3>1. call[c].op = "revoke" /\ call[c].in \in ERC20 /\ call[c].spender \in Spender /\ 0 \in 0..MaxUint256
      BY <2>5, <2>8, SwapAssumption DEF Revoke, CallInv, Call
    <3>2. tx \in Tx /\ tx.by = c /\ tx.kind = "approve"
      BY <3>0, <3>1, TxTyped
    <3>3. TxInv(tx)'
      BY <2>1, <2>8, <3>0, <3>1, <3>2 DEF TxInv, SameRequest
    <3> QED BY <2>4, <2>8, <3>0, <3>2, <3>3
  <2> QED BY <1>4, <2>3, <2>6, <2>7, <2>8, StepSends DEF Goes
<1> QED BY <1>1, <1>2, <1>3, <1>4, NextCases

(***************************************************************************)
(* The transaction at the head is that of a call, and its only one.        *)
(***************************************************************************)
LEMMA HeadTx ==
  ASSUME Typed, PoolInv, Mine
  PROVE  /\ TxInv(Mined) /\ Mined \in Tx /\ Mined.by \in Caller /\ 1 \in DOMAIN mempool /\ Mined = mempool[1]
         /\ \A i \in DOMAIN mempool' :
              /\ i \in Nat /\ i + 1 \in DOMAIN mempool /\ mempool'[i] = mempool[i + 1]
              /\ mempool'[i].by # Mined.by
<1>1. mempool # <<>> /\ mempool \in Seq(Tx) /\ mempool' = Tail(mempool)
  BY MineShape DEF Typed
<1>2. /\ 1 \in DOMAIN mempool /\ Mined = mempool[1] /\ Mined \in Tx
      /\ \A i \in DOMAIN mempool' : i \in Nat /\ i + 1 \in DOMAIN mempool /\ mempool'[i] = mempool[i + 1]
  BY <1>1, QueueShape DEF Mined
<1>3. ASSUME NEW i \in DOMAIN mempool' PROVE mempool'[i].by # Mined.by
  <2>1. i \in Nat /\ i + 1 \in DOMAIN mempool /\ mempool'[i] = mempool[i + 1] /\ DOMAIN mempool \subseteq Nat
    BY <1>1, <1>2, QueueShape
  <2>2. mempool' \in Seq(Tx)
    BY <1>1, QueueShape
  <2>3. i \in 1..Len(mempool') /\ Len(mempool') \in Nat
    BY <2>2, QueueShape
  <2>4. i + 1 # 1
    BY <2>3
  <2> QED BY <1>2, <2>1, <2>4 DEF PoolInv
<1>4. TxInv(Mined) /\ Mined.by \in Caller
  BY <1>2, TxCall
<1> QED BY <1>2, <1>3, <1>4

(***************************************************************************)
(* A swap that executes pays what it was asked to.                         *)
(***************************************************************************)
LEMMA SwapPays ==
  ASSUME Typed, NEW c \in Caller, held = 0, call[c].amount > 0,
         call[c].floor = SlippageAmount(call[c].quote, SlippageBps), Executes(SwapTx(c))
  PROVE  LET s == Settled(SwapTx(c)) IN
           /\ s.taken = call[c].in /\ s.amount = call[c].amount /\ s.asset = call[c].out
           /\ s.paid >= SlippageAmount(call[c].quote, SlippageBps)
<1> DEFINE tx == SwapTx(c)
<1>1. call[c] \in Call /\ pool \in Nat
  BY SwapAssumption DEF Typed
<1>2. /\ tx.amount = call[c].amount /\ tx.floor = call[c].floor
      /\ tx.in = AddressOf(call[c].in) /\ tx.out = AddressOf(call[c].out)
      /\ tx.value = (IF call[c].in = Native THEN call[c].amount ELSE 0)
      /\ tx.recipient = (IF call[c].out = Native THEN "router" ELSE "wallet")
      /\ tx.unwrap = (call[c].out = Native)
  BY DEF SwapTx
<1> HIDE DEF tx
<1>3. Pulls(tx) <=> call[c].in # Native
  BY <1>1, <1>2 DEF Pulls, Call
<1>4. pool >= tx.floor
  BY DEF Executes, tx
<1>5. /\ Settled(tx).taken = (IF Pulls(tx) THEN tx.in ELSE Native) /\ Settled(tx).amount = tx.amount
      /\ Settled(tx).asset = (IF tx.unwrap THEN Native ELSE tx.out)
      /\ Settled(tx).paid = (IF tx.unwrap THEN held + pool ELSE IF tx.recipient = "wallet" THEN pool ELSE 0)
  BY DEF Settled
<1>6. Settled(tx).taken = call[c].in
  BY <1>2, <1>3, <1>5 DEF AddressOf
<1>7. Settled(tx).asset = call[c].out
  BY <1>2, <1>5 DEF AddressOf
<1>8. Settled(tx).paid = pool
  <2>1. CASE call[c].out = Native
    <3>1. tx.unwrap
      BY <1>2, <2>1
    <3>2. Settled(tx).paid = held + pool
      BY <1>5, <3>1
    <3> QED BY <1>1, <3>2
  <2>2. CASE call[c].out # Native
    <3>1. ~tx.unwrap /\ tx.recipient = "wallet"
      BY <1>2, <2>2
    <3> QED BY <1>5, <3>1
  <2> QED BY <2>1, <2>2
<1> QED BY <1>2, <1>4, <1>5, <1>6, <1>7, <1>8 DEF tx

(***************************************************************************)
(* What a paid swap was paid, and that the router keeps nothing.           *)
(***************************************************************************)
LEMMA PaidKept ==
  ASSUME Typed, CallsInv, PoolInv, held = 0, \A c \in Caller : PaidInv(c), [Next]_vars
  PROVE  held' = 0 /\ \A c \in Caller : PaidInv(c)'
<1>1. CASE Quiet
  BY <1>1, QuietShape DEF PaidInv
<1>2. CASE Mine
  <2>0. PICK b : b = Mined.by
    OBVIOUS
  <2>1. /\ b \in Caller /\ SameButPc(b) /\ \A d \in Caller : d # b => call'[d] = call[d]
    BY <1>2, <2>0, MineShape
  <2>2. /\ TxInv(Mined) /\ 1 \in DOMAIN mempool /\ Mined = mempool[1]
        /\ \A i \in DOMAIN mempool' :
             i + 1 \in DOMAIN mempool /\ mempool'[i] = mempool[i + 1] /\ mempool'[i].by # b
    BY <1>2, <2>0, HeadTx
  <2>3. ASSUME NEW d \in Caller, trace'[d].paid = trace[d].paid PROVE PaidInv(d)'
    <3>1. CASE d # b
      <4>1. PaidInv(d) /\ call'[d] = call[d]
        BY <2>1, <3>1
      <4> QED BY <2>2, <2>3, <4>1 DEF PaidInv
    <3>2. CASE d = b
      <4>1. trace[d].paid = {}
        BY <2>0, <2>2, <3>2 DEF PaidInv
      <4> QED BY <2>3, <4>1 DEF PaidInv
    <3> QED BY <3>1, <3>2
  <2>4. CASE MineSwap
    <3>1. /\ Mined.kind = "swap" /\ Executes(Mined)
          /\ \A d \in Caller : trace'[d].paid = (IF d = b THEN {Settled(Mined)} ELSE trace[d].paid)
          /\ held' = (IF Mined.unwrap THEN 0 ELSE IF Mined.recipient = "router" THEN held + pool ELSE held)
      BY <2>0, <2>4, SwapMined
    <3>2. /\ call[b].op = "swap" /\ call[b].pc \in {"swapping", "failed"} /\ call[b].amount > 0
          /\ call[b].floor = SlippageAmount(call[b].quote, SlippageBps) /\ Mined = SwapTx(b)
      BY <2>0, <2>2, <3>1 DEF TxInv
    <3>3. held' = 0
      <4>1. Mined.unwrap = (call[b].out = Native)
            /\ Mined.recipient = (IF call[b].out = Native THEN "router" ELSE "wallet")
        BY <3>2 DEF SwapTx
      <4> QED BY <3>1, <4>1
    <3>4. LET s == Settled(Mined) IN
            /\ s.taken = call[b].in /\ s.amount = call[b].amount /\ s.asset = call[b].out
            /\ s.paid >= SlippageAmount(call[b].quote, SlippageBps)
      BY <2>1, <3>1, <3>2, SwapPays
    <3>5. /\ call'[b].op = call[b].op /\ call'[b].in = call[b].in /\ call'[b].out = call[b].out
          /\ call'[b].amount = call[b].amount /\ call'[b].quote = call[b].quote
      BY <2>1 DEF SameButPc, SameRequest, SameQuote
    <3>6. call'[b].pc \in {"ensureIn", "failed"}
      <4>1. \/ ~Waiting(b) /\ call'[b].pc = call[b].pc
            \/ Waiting(b) /\ Mined.kind = "approve"
            \/ call'[b].pc = "ensureIn"
        BY <1>2, <2>0, MineShape
      <4> QED BY <3>1, <3>2, <4>1 DEF Waiting
    <3>7. PaidInv(b)'
      <4>1. trace'[b].paid = {Settled(Mined)}
        BY <2>1, <3>1
      <4>2. PICK q : q = SlippageAmount(call[b].quote, SlippageBps)
        OBVIOUS
      <4>3. q = SlippageAmount(call'[b].quote, SlippageBps)
        BY <3>5, <4>2
      <4>4. PICK s : s = Settled(Mined)
        OBVIOUS
      <4>5. s.taken = call[b].in /\ s.amount = call[b].amount /\ s.asset = call[b].out /\ s.paid >= q
        BY <3>4, <4>2, <4>4
      <4>6. trace'[b].paid = {s}
        BY <4>1, <4>4
      <4>7. \A i \in DOMAIN mempool' : mempool'[i].by # b
        BY <2>2
      <4>8. call'[b].op = "swap" /\ call'[b].pc \in {"ensureIn", "ensureOut", "sync", "ok", "failed"}
        BY <3>2, <3>5, <3>6
      <4>9. /\ s.taken = call'[b].in /\ s.amount = call'[b].amount /\ s.asset = call'[b].out
            /\ s.paid >= SlippageAmount(call'[b].quote, SlippageBps)
        BY <3>5, <4>3, <4>5
      <4> QED BY <4>6, <4>7, <4>8, <4>9 DEF PaidInv
    <3>8. \A d \in Caller : d # b => PaidInv(d)'
      BY <2>3, <3>1
    <3>9. \A d \in Caller : PaidInv(d)'
      BY <3>7, <3>8
    <3> QED BY <3>3, <3>9
  <2>5. CASE MineApprove
    <3>1. held' = held /\ \A d \in Caller : trace'[d].paid = trace[d].paid
      BY <2>5, ApproveMined
    <3> QED BY <2>3, <3>1
  <2>6. CASE MineReverts
    <3>1. held' = held /\ \A d \in Caller : trace'[d].paid = trace[d].paid
      BY <2>6, Reverted
    <3> QED BY <2>3, <3>1
  <2> QED BY <1>2, <2>4, <2>5, <2>6 DEF Mine
<1>3. ASSUME NEW c \in Caller, Begun(c) PROVE held' = 0 /\ \A d \in Caller : PaidInv(d)'
  <2>1. PICK request \in Call, t \in Trace : Begin(c, request, t) /\ t.paid = {}
    BY <1>3, Begins DEF Begun
  <2>2. mempool' = mempool /\ held' = held /\ trace'[c] = t
    BY <2>1, BeginShape DEF chain
  <2>3. \A d \in Caller : d # c => call'[d] = call[d] /\ trace'[d].paid = trace[d].paid
    BY <2>1, BeginRest
  <2>4. PaidInv(c)'
    BY <2>1, <2>2 DEF PaidInv
  <2>5. ASSUME NEW d \in Caller, d # c PROVE PaidInv(d)'
    BY <2>2, <2>3, <2>5 DEF PaidInv
  <2> QED BY <2>2, <2>4, <2>5
<1>4. ASSUME NEW c \in Caller, Goes(c) PROVE held' = 0 /\ \A d \in Caller : PaidInv(d)'
  <2>1. /\ \A d \in Caller : d # c => call'[d] = call[d]
        /\ SameRequest(c) /\ Arrow(c) /\ (SameQuote(c) \/ QuoteSwap(c)) /\ held' = held
    BY <1>4, StepShape DEF Goes, chain
  <2>2. \A d \in Caller : trace'[d].paid = trace[d].paid
    BY <1>4, StepTrace DEF Goes
  <2>3. \/ mempool' = mempool
        \/ \E tx : /\ mempool' = Append(mempool, tx) /\ tx.by = c
                   /\ call[c].pc \in {"approve", "send", "start"}
    <3>1. ASSUME NEW t, NEW s, NEW n PROVE Approve(c, t, s, n).by = c
      BY DEF Approve
    <3>2. SwapTx(c).by = c
      BY DEF SwapTx
    <3> QED BY <1>4, <3>1, <3>2, StepSends DEF Goes
  <2>4. ASSUME NEW d \in Caller, d # c PROVE PaidInv(d)'
    <3>1. PaidInv(d) /\ call'[d] = call[d] /\ trace'[d].paid = trace[d].paid
      BY <2>1, <2>2, <2>4
    <3>2. CASE mempool' = mempool
      BY <3>1, <3>2 DEF PaidInv
    <3>3. CASE mempool' # mempool
      <4>1. PICK tx : mempool' = Append(mempool, tx) /\ tx.by = c
        BY <2>3, <3>3
      <4>2. mempool \in Seq(Tx \cup {tx})
        <5>1. mempool \in Seq(Tx)
          BY DEF Typed
        <5> QED BY <5>1
      <4>3. \A i \in DOMAIN mempool' : \/ i \in DOMAIN mempool /\ mempool'[i] = mempool[i]
                                       \/ mempool'[i] = tx
        BY <4>1, <4>2, QueueShape
      <4> QED BY <2>4, <3>1, <4>1, <4>3 DEF PaidInv
    <3> QED BY <3>2, <3>3
  <2>5. PaidInv(c)'
    <3>1. SUFFICES ASSUME trace[c].paid # {} PROVE PaidInv(c)'
      BY <2>2 DEF PaidInv
    <3>2. PaidInv(c) /\ call[c].op = "swap" /\ call[c].pc \in {"ensureIn", "ensureOut", "sync", "ok", "failed"}
      BY <3>1 DEF PaidInv
    <3>3. mempool' = mempool
      BY <2>3, <3>2
    <3>4. call'[c].pc \in {"ensureIn", "ensureOut", "sync", "ok", "failed"} /\ SameQuote(c)
      BY <2>1, <3>2 DEF Arrow, QuoteSwap, At
    <3>5. /\ call'[c].op = call[c].op /\ call'[c].in = call[c].in /\ call'[c].out = call[c].out
          /\ call'[c].amount = call[c].amount /\ call'[c].quote = call[c].quote
      BY <2>1, <3>4 DEF SameRequest, SameQuote
    <3> QED BY <2>2, <3>2, <3>3, <3>4, <3>5 DEF PaidInv
  <2> QED BY <2>1, <2>4, <2>5
<1> QED BY <1>1, <1>2, <1>3, <1>4, NextCases

(***************************************************************************)
(* The allowance a swap is about to use.                                   *)
(***************************************************************************)
LEMMA SecureKept ==
  ASSUME Typed, CallsInv, PoolInv, \A c \in Caller : SecureInv(c), [Next]_vars
  PROVE  \A c \in Caller : SecureInv(c)'
<1>0. \A d \in Caller : call[d] \in Call /\ CallInv(d)
  BY DEF Typed, CallsInv
<1>1. CASE Quiet
  BY <1>1, QuietShape DEF SecureInv
<1>2. CASE Mine
  <2>0. PICK b : b = Mined.by
    OBVIOUS
  <2>1. /\ b \in Caller /\ SameButPc(b) /\ \A d \in Caller : d # b => call'[d] = call[d]
    BY <1>2, <2>0, MineShape
  <2>2. TxInv(Mined)
    BY <1>2, HeadTx
  <2>3. ASSUME NEW d \in Caller, d # b PROVE SecureInv(d)'
    <3>1. call'[d] = call[d] /\ SecureInv(d)
      BY <2>1, <2>3
    <3>2. StoriesKept /\ LoweringsSeen(b) /\ allowance' \in [Pair -> 0..MaxUint256]
      BY <1>2, <2>0, MineShape
    <3> SUFFICES ASSUME call[d].op = "swap", call[d].pc = "send", call[d].in # Native, ~trace'[d].beaten
                 PROVE  allowance'[<<call[d].in, Router>>] >= call[d].amount
      BY <3>1 DEF SecureInv
    <3>3. ~trace[d].beaten
      BY <3>2, Zenon DEF StoriesKept
    <3>4. PICK t : t = call[d].in
      OBVIOUS
    <3>5. t \in ERC20 /\ <<t, Router>> \in Pair
      BY <1>0, <3>4, SwapAssumption DEF Call, Token, Pair
    <3>6. allowance[<<t, Router>>] >= call[d].amount
      BY <3>1, <3>3, <3>4 DEF SecureInv
    <3>7. allowance'[<<t, Router>>] >= allowance[<<t, Router>>]
      BY <2>3, <3>2, <3>4, <3>5, Zenon DEF LoweringsSeen
    <3>8. allowance'[<<t, Router>>] \in Nat /\ allowance[<<t, Router>>] \in Nat /\ call[d].amount \in Nat
      BY <1>0, <3>2, <3>5 DEF Typed, Call
    <3> QED BY <3>4, <3>6, <3>7, <3>8
  <2>4. SecureInv(b)'
    <3>1. SUFFICES ASSUME call'[b].op = "swap", call'[b].pc = "send"
                   PROVE  allowance'[<<call'[b].in, Router>>] >= call'[b].amount
      BY DEF SecureInv
    <3>2. /\ call'[b].op = call[b].op /\ call'[b].in = call[b].in /\ call'[b].amount = call[b].amount
      BY <2>1 DEF SameButPc, SameRequest
    <3>3. \/ ~Waiting(b) /\ call'[b].pc = call[b].pc
          \/ /\ Waiting(b)
             /\ \/ Mined.kind = "approve"
                \/ call'[b].pc \in {"ok", "ensureIn"}
      BY <1>2, <2>0, MineShape
    <3>4. call[b].pc # "send"
      BY <2>0, <2>2 DEF TxInv
    <3>5. Mined.kind = "approve" /\ Waiting(b)
      BY <3>1, <3>3, <3>4
    <3>6. Mined = Approve(b, call[b].in, Router, MaxUint256) /\ call[b].in # Native
      BY <2>0, <2>2, <3>1, <3>2, <3>5 DEF TxInv
    <3>7. Mined.token = call[b].in /\ Mined.spender = Router /\ Mined.amount = MaxUint256
      BY <3>6 DEF Approve
    <3>8. CASE MineApprove
      <4>1. allowance' = [allowance EXCEPT ![<<call[b].in, Router>>] = MaxUint256]
        BY <3>7, <3>8, ApproveMined
      <4>2. <<call[b].in, Router>> \in Pair
        BY <1>0, <2>1, <3>6, SwapAssumption DEF Call, Token, Pair
      <4>3. allowance'[<<call[b].in, Router>>] = MaxUint256
        BY <4>1, <4>2 DEF Typed
      <4>4. call[b].amount <= MaxUint256 /\ call[b].amount \in Nat
        BY <1>0, <2>1, <3>1, <3>2 DEF CallInv, Call
      <4> QED BY <3>2, <4>3, <4>4, SwapAssumption
    <3>9. CASE MineSwap
      BY <3>5, <3>9 DEF MineSwap
    <3>10. CASE MineReverts
      <4>1. Receipt(b, "failed")
        BY <2>0, <3>1, <3>2, <3>5, <3>10, Reverted
      <4>2. call'[b].pc = "failed"
        BY <2>1, <3>5, <4>1, ReceiptEffect DEF Typed, PCs
      <4> QED BY <3>1, <4>2
    <3> QED BY <1>2, <3>8, <3>9, <3>10 DEF Mine
  <2>5. SUFFICES ASSUME NEW d \in Caller PROVE SecureInv(d)'
    OBVIOUS
  <2>6. CASE d = b
    BY <2>4, <2>6
  <2> QED BY <2>3, <2>6
<1>3. ASSUME NEW c \in Caller, Begun(c) PROVE \A d \in Caller : SecureInv(d)'
  <2>1. PICK request \in Call, t \in Trace :
          Begin(c, request, t) /\ (request.op = "swap" => request.pc = "start")
    BY <1>3, Begins DEF Begun
  <2>2. allowance' = allowance /\ call'[c] = request
    BY <2>1, BeginShape DEF chain
  <2>3. \A d \in Caller : d # c => call'[d] = call[d] /\ trace'[d].beaten = trace[d].beaten
    BY <2>1, BeginRest
  <2>4. SUFFICES ASSUME NEW d \in Caller PROVE SecureInv(d)'
    OBVIOUS
  <2>5. CASE d = c
    BY <2>1, <2>2, <2>5 DEF SecureInv
  <2>6. CASE d # c
    <3>1. call'[d] = call[d]
      BY <2>3, <2>6, Zenon
    <3>2. trace'[d].beaten = trace[d].beaten
      BY <2>3, <2>6, Zenon
    <3>3. CASE trace[d].beaten
      <4>1. trace'[d].beaten
        BY <3>2, <3>3, Zenon
      <4> QED BY <4>1 DEF SecureInv
    <3>4. CASE ~trace[d].beaten
      <4>1. ~(call[d].op = "swap" /\ call[d].pc = "send" /\ call[d].in # Native)
              \/ allowance[<<call[d].in, Router>>] >= call[d].amount
        BY <3>4 DEF SecureInv
      <4> QED BY <2>2, <3>1, <4>1 DEF SecureInv
    <3> QED BY <3>3, <3>4
  <2> QED BY <2>5, <2>6
<1>4. ASSUME NEW c \in Caller, Goes(c) PROVE \A d \in Caller : SecureInv(d)'
  <2>1. /\ \A d \in Caller : d # c => call'[d] = call[d]
        /\ SameRequest(c) /\ Arrow(c) /\ allowance' = allowance
    BY <1>4, StepShape DEF Goes, chain
  <2>2. \A d \in Caller : d # c => trace'[d] = trace[d]
    BY <1>4, StepTrace DEF Goes
  <2>3. SUFFICES ASSUME NEW d \in Caller PROVE SecureInv(d)'
    OBVIOUS
  <2>4. CASE d # c
    BY <2>1, <2>2, <2>4 DEF SecureInv
  <2>5. CASE d = c
    <3>1. SUFFICES ASSUME call'[c].pc = "send", call'[c].in # Native
                   PROVE  allowance'[<<call'[c].in, Router>>] >= call'[c].amount
      BY <2>5 DEF SecureInv
    <3>2. call'[c].in = call[c].in /\ call'[c].amount = call[c].amount
      BY <2>1 DEF SameRequest
    <3>3. call[c].pc \in {"quote", "allowance"}
      BY <2>1, <3>1 DEF Arrow
    <3>4. CASE call[c].pc = "quote"
      BY <1>4, <3>1, <3>2, <3>4, QuoteShape DEF Goes
    <3>5. CASE call[c].pc = "allowance"
      BY <1>4, <2>1, <3>1, <3>2, <3>5, AllowanceShape DEF Goes
    <3> QED BY <3>3, <3>4, <3>5
  <2> QED BY <2>4, <2>5
<1> QED BY <1>1, <1>2, <1>3, <1>4, NextCases

(***************************************************************************)
(* The revokes.                                                            *)
(***************************************************************************)
LEMMA RevokeKept ==
  ASSUME Typed, CallsInv, PoolInv, \A c \in Caller : RevokeInv(c), [Next]_vars
  PROVE  \A c \in Caller : RevokeInv(c)'
<1>0. /\ \A d \in Caller : call[d] \in Call /\ CallInv(d) /\ trace[d] \in Trace
      /\ mempool \in Seq(Tx) /\ DOMAIN mempool = 1..Len(mempool) /\ Len(mempool) \in Nat
  BY LenProperties DEF Typed, CallsInv
<1>1. CASE Quiet
  BY <1>1, QuietShape DEF RevokeInv
<1>2. CASE Mine
  <2>0. PICK b, tx : b = Mined.by /\ tx = Mined
    OBVIOUS
  <2>1. /\ b \in Caller /\ SameButPc(b) /\ \A d \in Caller : d # b => call'[d] = call[d]
    BY <1>2, <2>0, MineShape
  <2>2. /\ TxInv(tx) /\ 1 \in DOMAIN mempool /\ tx = mempool[1] /\ tx.by = b
        /\ \A i \in DOMAIN mempool' :
             i \in Nat /\ i + 1 \in DOMAIN mempool /\ mempool'[i] = mempool[i + 1] /\ mempool'[i].by # b
    BY <1>2, <2>0, HeadTx
  <2>3. ASSUME NEW d \in Caller
        PROVE  /\ call'[d].op = call[d].op /\ call'[d].in = call[d].in
               /\ call'[d].spender = call[d].spender
               /\ call'[d].pc = "start" => call[d].pc = "start"
               /\ call[d].pc \in {"ok", "failed"} => call'[d].pc = call[d].pc
    <3>1. CASE d # b
      BY <2>1, <3>1
    <3>2. CASE d = b
      <4>1. /\ call'[b].op = call[b].op /\ call'[b].in = call[b].in
            /\ call'[b].spender = call[b].spender
        BY <2>1 DEF SameButPc, SameRequest
      <4>2. \/ ~Waiting(b) /\ call'[b].pc = call[b].pc
            \/ Waiting(b) /\ call'[b].pc \in {"send", "failed", "ok", "ensureIn"}
        BY <1>2, <2>0, MineShape
      <4> QED BY <3>2, <4>1, <4>2 DEF Waiting
    <3> QED BY <3>1, <3>2
  <2>4. ASSUME NEW c \in Caller, trace[c].revoked # "no"
        PROVE  /\ call'[c].op = "revoke" /\ call'[c].pc # "start"
               /\ \A d \in Caller :
                    call'[d].op = "swap" /\ call'[d].in = call'[c].in => call'[d].pc \in {"ok", "failed"}
    <3>1. RevokeInv(c)
      OBVIOUS
    <3> QED BY <2>3, <2>4, <3>1 DEF RevokeInv
  <2>5. ASSUME NEW c \in Caller, trace[c].revoked = "sent", trace'[c].revoked = "sent"
        PROVE  RevokeInv(c)'
    <3>1. ASSUME NEW i \in DOMAIN mempool', NEW j \in DOMAIN mempool', i < j, mempool'[i].by = c
          PROVE  ~Grants(mempool'[j], call[c].in, call[c].spender)
      <4>1. /\ i + 1 \in DOMAIN mempool /\ j + 1 \in DOMAIN mempool /\ i + 1 < j + 1
            /\ mempool[i + 1].by = c /\ mempool'[j] = mempool[j + 1]
        BY <2>2, <3>1
      <4> QED BY <2>5, <4>1 DEF RevokeInv
    <3>2. ASSUME NEW i \in DOMAIN mempool', NEW j \in DOMAIN mempool', i < j, mempool'[i].by = c
          PROVE  ~Grants(mempool'[j], call'[c].in, call'[c].spender)
      BY <2>3, <3>1, <3>2
    <3> QED BY <2>4, <2>5, <3>2 DEF RevokeInv, Grants
  <2>6. ASSUME NEW c \in Caller, trace[c].revoked = "holds", trace'[c].revoked = "holds"
        PROVE  RevokeInv(c)'
    <3>1. /\ allowance[<<call[c].in, call[c].spender>>] = 0
          /\ \A i \in DOMAIN mempool : ~Grants(mempool[i], call[c].in, call[c].spender)
          /\ call[c].op = "revoke"
      BY <2>6 DEF RevokeInv
    <3>2. \A i \in DOMAIN mempool' : ~Grants(mempool'[i], call[c].in, call[c].spender)
      BY <2>2, <3>1
    <3>3. PICK p : p = <<call[c].in, call[c].spender>>
      OBVIOUS
    <3>4. p \in Pair /\ allowance[p] = 0
      BY <1>0, <3>1, <3>3 DEF Pair, CallInv, Call
    <3>5. allowance'[p] = 0
      <4>1. CASE MineApprove
        <5>1. /\ tx.kind = "approve" /\ allowance' = [allowance EXCEPT ![<<tx.token, tx.spender>>] = tx.amount]
              /\ tx \in Tx
          BY <2>0, <4>1, ApproveMined
        <5>2. CASE <<tx.token, tx.spender>> = p
          <6>1. tx.token = call[c].in /\ tx.spender = call[c].spender
            BY <3>3, <5>2
          <6>2. ~(tx.amount > 0) /\ tx.amount \in Nat
            BY <2>2, <3>1, <5>1, <6>1 DEF Grants, Tx
          <6>3. tx.amount = 0
            BY <6>2
          <6> QED BY <3>4, <5>1, <5>2, <6>3 DEF Typed
        <5>3. CASE <<tx.token, tx.spender>> # p
          BY <3>4, <5>1, <5>3 DEF Typed
        <5> QED BY <5>2, <5>3
      <4>2. CASE MineSwap
        <5>1. allowance'[p] <= allowance[p] /\ allowance'[p] \in 0..MaxUint256
          BY <3>4, <4>2, SwapMined
        <5> QED BY <3>4, <5>1
      <4>3. CASE MineReverts
        BY <3>4, <4>3, Reverted
      <4> QED BY <1>2, <4>1, <4>2, <4>3 DEF Mine
    <3>6. /\ allowance'[<<call'[c].in, call'[c].spender>>] = 0
          /\ \A i \in DOMAIN mempool' : ~Grants(mempool'[i], call'[c].in, call'[c].spender)
      BY <2>3, <3>2, <3>3, <3>5
    <3> QED BY <2>4, <2>6, <3>6 DEF RevokeInv, Grants
  <2>7. ASSUME NEW c \in Caller, trace[c].revoked = "sent", trace'[c].revoked = "holds", c = b, MineApprove
        PROVE  RevokeInv(c)'
    <3>1. call[c].op = "revoke" /\ \A i, j \in DOMAIN mempool :
            i < j /\ mempool[i].by = c => ~Grants(mempool[j], call[c].in, call[c].spender)
      BY <2>7 DEF RevokeInv
    <3>2. tx = Approve(c, call[c].in, call[c].spender, 0)
      BY <2>2, <2>7, <3>1 DEF TxInv
    <3>3. tx.token = call[c].in /\ tx.spender = call[c].spender /\ tx.amount = 0
      BY <3>2 DEF Approve
    <3>4. PICK p : p = <<call[c].in, call[c].spender>>
      OBVIOUS
    <3>5. p \in Pair
      BY <1>0, <3>1, <3>4 DEF Pair, CallInv, Call
    <3>6. allowance' = [allowance EXCEPT ![p] = 0]
      BY <2>0, <2>7, <3>3, <3>4, ApproveMined
    <3>7. allowance'[p] = 0
      BY <3>5, <3>6 DEF Typed
    <3>8. ASSUME NEW i \in DOMAIN mempool' PROVE ~Grants(mempool'[i], call[c].in, call[c].spender)
      <4>1. i + 1 \in DOMAIN mempool /\ mempool'[i] = mempool[i + 1] /\ i + 1 \in 1..Len(mempool) /\ i + 1 # 1
        BY <1>0, <2>2
      <4>2. 1 < i + 1
        BY <1>0, <4>1
      <4> QED BY <2>2, <2>7, <3>1, <4>1, <4>2
    <3>9. /\ allowance'[<<call'[c].in, call'[c].spender>>] = 0
          /\ \A i \in DOMAIN mempool' : ~Grants(mempool'[i], call'[c].in, call'[c].spender)
      BY <2>3, <3>4, <3>7, <3>8
    <3> QED BY <2>4, <2>7, <3>9 DEF RevokeInv, Grants
  <2>8. ASSUME NEW c \in Caller PROVE RevokeInv(c)'
    <3>1. \/ trace'[c].revoked = trace[c].revoked
          \/ /\ MineApprove /\ c = b /\ trace[c].revoked = "sent" /\ trace'[c].revoked = "holds"
      <4>1. CASE MineApprove
        <5>1. trace'[c].revoked = (IF c = b /\ trace[c].revoked = "sent" THEN "holds" ELSE trace[c].revoked)
          BY <2>0, <4>1, ApproveMined
        <5> QED BY <4>1, <5>1
      <4>2. CASE MineSwap
        BY <4>2, SwapMined
      <4>3. CASE MineReverts
        BY <4>3, Reverted
      <4> QED BY <1>2, <4>1, <4>2, <4>3 DEF Mine
    <3>2. trace[c].revoked \in {"no", "sent", "holds"}
      BY <1>0 DEF Trace
    <3>3. CASE trace'[c].revoked = "no"
      BY <3>3 DEF RevokeInv
    <3> QED BY <2>5, <2>6, <2>7, <3>1, <3>2, <3>3
  <2> QED BY <2>8
<1>3. ASSUME NEW c \in Caller, Begun(c) PROVE \A d \in Caller : RevokeInv(d)'
  <2>1. PICK request \in Call, t \in Trace : Begin(c, request, t) /\ t.revoked = "no"
    BY <1>3, Begins DEF Begun
  <2>2. allowance' = allowance /\ mempool' = mempool /\ call'[c] = request /\ trace'[c] = t
    BY <2>1, BeginShape DEF chain
  <2>3. \A d \in Caller : d # c => call'[d] = call[d]
    BY <2>1, BeginRest
  <2>4. \A d \in Caller : d # c =>
          trace'[d].revoked = (IF request.op = "swap" /\ request.in = call[d].in THEN "no"
                               ELSE trace[d].revoked)
    BY <2>1, BeginRest
  <2>5. SUFFICES ASSUME NEW d \in Caller, trace'[d].revoked # "no" PROVE RevokeInv(d)'
    BY DEF RevokeInv
  <2>6. d # c
    BY <2>1, <2>2, <2>5
  <2>7. ~(request.op = "swap" /\ request.in = call[d].in) /\ trace'[d].revoked = trace[d].revoked
    BY <2>4, <2>5, <2>6
  <2>8. RevokeInv(d) /\ call'[d] = call[d]
    BY <2>3, <2>6
  <2>9. \A e \in Caller :
          call'[e].op = "swap" /\ call'[e].in = call'[d].in => call'[e].pc \in {"ok", "failed"}
    <3> SUFFICES ASSUME NEW e \in Caller, call'[e].op = "swap", call'[e].in = call'[d].in
                 PROVE  call'[e].pc \in {"ok", "failed"}
      OBVIOUS
    <3>1. e # c
      BY <2>2, <2>7, <2>8
    <3>2. call'[e] = call[e]
      BY <2>3, <3>1
    <3> QED BY <2>5, <2>7, <2>8, <3>2 DEF RevokeInv
  <2> QED BY <2>2, <2>5, <2>7, <2>8, <2>9 DEF RevokeInv, Grants
<1>4. ASSUME NEW c \in Caller, Goes(c) PROVE \A d \in Caller : RevokeInv(d)'
  <2>1. /\ \A d \in Caller : d # c => call'[d] = call[d]
        /\ SameRequest(c) /\ Arrow(c) /\ allowance' = allowance
    BY <1>4, StepShape DEF Goes, chain
  <2>2. \A d \in Caller : d # c => trace'[d] = trace[d]
    BY <1>4, StepTrace DEF Goes
  <2>3. trace'[c].revoked = trace[c].revoked \/ Revoke(c)
    BY <1>4, StepTrace DEF Goes
  <2>4. /\ call'[c].op = call[c].op /\ call'[c].in = call[c].in /\ call'[c].spender = call[c].spender
    BY <2>1 DEF SameRequest
  <2>5. \/ mempool' = mempool
        \/ \E tx \in Tx :
             /\ mempool' = Append(mempool, tx) /\ tx.by = c
             /\ \/ ~(tx.kind = "approve" /\ tx.amount > 0) /\ call[c].pc \in {"send", "start"}
                \/ call[c].pc = "approve" /\ tx.token = call[c].in
    <3>1. CASE /\ call[c].pc = "approve"
               /\ mempool' = Append(mempool, Approve(c, call[c].in, Router, MaxUint256))
      <4>1. PICK tx : tx = Approve(c, call[c].in, Router, MaxUint256)
        OBVIOUS
      <4>2. call[c].in \in ERC20 /\ call[c].op = "swap"
        BY <1>0, <3>1 DEF CallInv, Call, Token
      <4>3. tx \in Tx /\ tx.by = c
        BY <4>1, <4>2, TxTyped, SwapAssumption
      <4>4. tx.token = call[c].in
        BY <4>1 DEF Approve
      <4> QED BY <3>1, <4>1, <4>2, <4>3, <4>4
    <3>2. CASE call[c].pc = "send" /\ mempool' = Append(mempool, SwapTx(c))
      <4>1. SwapTx(c) \in Tx /\ SwapTx(c).by = c /\ SwapTx(c).kind = "swap"
        BY TxTyped
      <4>2. call[c].op = "swap"
        BY <1>0, <3>2 DEF CallInv, Call
      <4> QED BY <3>2, <4>1, <4>2
    <3>3. CASE Revoke(c) /\ mempool' = Append(mempool, Approve(c, call[c].in, call[c].spender, 0))
      <4>1. PICK tx : tx = Approve(c, call[c].in, call[c].spender, 0)
        OBVIOUS
      <4>2. call[c].in \in ERC20 /\ call[c].spender \in Spender /\ 0 \in 0..MaxUint256 /\ call[c].pc = "start"
        <5>1. call[c].op = "revoke" /\ call[c].pc = "start"
          BY <3>3 DEF Revoke, At
        <5>2. call[c].in \in ERC20
          BY <1>0, <5>1 DEF CallInv
        <5> QED BY <1>0, <5>1, <5>2, SwapAssumption DEF Call
      <4>3. tx \in Tx /\ tx.by = c
        BY <4>1, <4>2, TxTyped
      <4>4. tx.amount = 0
        BY <4>1 DEF Approve
      <4> QED BY <3>3, <4>1, <4>2, <4>3, <4>4
    <3> QED BY <1>4, <3>1, <3>2, <3>3, StepSends DEF Goes
  <2>6. SUFFICES ASSUME NEW d \in Caller, trace'[d].revoked # "no" PROVE RevokeInv(d)'
    BY DEF RevokeInv
  <2>7. CASE trace'[d].revoked = trace[d].revoked
    <3>1. RevokeInv(d) /\ trace[d].revoked # "no" /\ call[d].op = "revoke" /\ call[d].pc # "start"
      BY <2>6, <2>7 DEF RevokeInv
    <3>2. /\ call'[d].op = call[d].op /\ call'[d].in = call[d].in /\ call'[d].spender = call[d].spender
      BY <2>1, <2>4
    <3>3. call'[d].pc # "start"
      BY <2>1, <3>1 DEF Arrow
    <3>4. ~(call[c].op = "swap" /\ call[c].in = call[d].in)
      BY <2>1, <3>1 DEF RevokeInv, Arrow
    <3>5. \A e \in Caller :
            call'[e].op = "swap" /\ call'[e].in = call'[d].in => call'[e].pc \in {"ok", "failed"}
      BY <2>1, <2>4, <3>1, <3>2, <3>4 DEF RevokeInv
    <3>6. CASE mempool' = mempool
      BY <2>1, <2>7, <3>1, <3>2, <3>3, <3>5, <3>6 DEF RevokeInv, Grants
    <3>7. CASE mempool' # mempool
      <4>1. PICK tx \in Tx :
             /\ mempool' = Append(mempool, tx) /\ tx.by = c
             /\ \/ ~(tx.kind = "approve" /\ tx.amount > 0) /\ call[c].pc \in {"send", "start"}
                \/ call[c].pc = "approve" /\ tx.token = call[c].in
        BY <2>5, <3>7
      <4>2. ~Grants(tx, call[d].in, call[d].spender)
        <5>1. CASE call[c].pc = "approve" /\ tx.token = call[c].in
          <6>1. call[c].op = "swap"
            BY <1>0, <5>1 DEF CallInv, Call
          <6> QED BY <3>4, <5>1, <6>1 DEF Grants
        <5>2. CASE ~(tx.kind = "approve" /\ tx.amount > 0)
          BY <5>2 DEF Grants
        <5> QED BY <4>1, <5>1, <5>2
      <4>3. \A i \in DOMAIN mempool' : \/ i \in DOMAIN mempool /\ mempool'[i] = mempool[i]
                                       \/ i = Len(mempool) + 1 /\ mempool'[i] = tx
        BY <1>0, <4>1, QueueShape
      <4>4. ASSUME NEW i \in DOMAIN mempool', NEW j \in DOMAIN mempool', i < j, mempool'[i].by = d,
                   trace[d].revoked = "sent"
            PROVE  ~Grants(mempool'[j], call[d].in, call[d].spender)
        <5>1. CASE j \in DOMAIN mempool /\ mempool'[j] = mempool[j]
          <6>1. i \in DOMAIN mempool /\ mempool'[i] = mempool[i]
            BY <1>0, <4>3, <4>4, <5>1
          <6> QED BY <3>1, <4>4, <5>1, <6>1 DEF RevokeInv
        <5>2. CASE mempool'[j] = tx
          BY <4>2, <5>2
        <5> QED BY <4>3, <5>1, <5>2
      <4>5. ASSUME NEW i \in DOMAIN mempool', trace[d].revoked = "holds"
            PROVE  ~Grants(mempool'[i], call[d].in, call[d].spender)
        BY <3>1, <4>2, <4>3, <4>5 DEF RevokeInv
      <4>6. trace[d].revoked = "holds" => allowance'[<<call'[d].in, call'[d].spender>>] = 0
        BY <2>1, <3>1, <3>2 DEF RevokeInv
      <4> QED BY <2>7, <3>1, <3>2, <3>3, <3>5, <4>4, <4>5, <4>6 DEF RevokeInv, Grants
    <3> QED BY <3>6, <3>7
  <2>8. CASE trace'[d].revoked # trace[d].revoked
    <3>1. d = c /\ Revoke(c)
      BY <2>2, <2>3, <2>8
    <3>2. call[c].op = "revoke" /\ call[c].pc = "start"
      BY <3>1 DEF Revoke, At
    <3>3. trace'[c].revoked = "sent" /\ ~SwapUnderWay(call[c].in)
      <4>1. Alone(c)
        BY <2>8, <3>1 DEF Revoke
      <4>2. PICK r : r = (IF SwapUnderWay(call[c].in) THEN "no" ELSE "sent")
        OBVIOUS
      <4>3. trace' = [trace EXCEPT ![c].revoked = r]
        BY <4>1, <4>2 DEF Alone
      <4>4. trace'[c].revoked = r
        BY <1>0, <4>3 DEF Typed, Trace
      <4> QED BY <2>6, <3>1, <4>2, <4>4
    <3>4. call'[c].pc # "start"
      BY <2>1, <3>2 DEF Arrow
    <3>5. \A e \in Caller :
            call'[e].op = "swap" /\ call'[e].in = call'[c].in => call'[e].pc \in {"ok", "failed"}
      BY <2>1, <2>4, <3>2, <3>3 DEF SwapUnderWay
    <3>6. \A i \in DOMAIN mempool : mempool[i].by # c
      BY <3>2, TxCall
    <3>7. ASSUME NEW i \in DOMAIN mempool', NEW j \in DOMAIN mempool', i < j PROVE mempool'[i].by # c
      <4>1. CASE mempool' = mempool
        BY <3>6, <4>1
      <4>2. CASE mempool' # mempool
        <5>1. PICK tx \in Tx : mempool' = Append(mempool, tx)
          BY <2>5, <4>2
        <5>2. \A k \in DOMAIN mempool' : \/ k \in DOMAIN mempool /\ mempool'[k] = mempool[k]
                                         \/ k = Len(mempool) + 1
          BY <1>0, <5>1, QueueShape
        <5>3. i \in DOMAIN mempool /\ mempool'[i] = mempool[i]
          BY <1>0, <3>7, <5>2
        <5> QED BY <3>6, <5>3
      <4> QED BY <4>1, <4>2
    <3> QED BY <2>4, <3>1, <3>2, <3>3, <3>4, <3>5, <3>7 DEF RevokeInv
  <2> QED BY <2>7, <2>8
<1> QED BY <1>1, <1>2, <1>3, <1>4, NextCases

(***************************************************************************)
(* The legs of a swap.                                                     *)
(***************************************************************************)
LEMMA SyncKept ==
  ASSUME Typed, CallsInv, PoolInv, \A c \in Caller : SyncInv(c), [Next]_vars
  PROVE  \A c \in Caller : SyncInv(c)'
<1>1. CASE Quiet
  <2>1. UNCHANGED call
    BY <1>1, QuietShape
  <2>2. \A d \in Caller :
          /\ trace'[d].synced = trace[d].synced /\ trace[d].lapsed \subseteq trace'[d].lapsed
          /\ call[d].pc \in {"ensureOut", "sync"} => watched \subseteq watched' \cup trace'[d].lapsed
    BY <1>1, QuietShape
  <2>3. SUFFICES ASSUME NEW d \in Caller PROVE SyncInv(d)'
    OBVIOUS
  <2> QED BY <2>1, <2>2 DEF SyncInv, Legs
<1>2. CASE Mine
  <2>0. PICK b : b = Mined.by
    OBVIOUS
  <2>1. /\ b \in Caller /\ SameButPc(b) /\ \A d \in Caller : d # b => call'[d] = call[d]
        /\ watched' = watched
    BY <1>2, <2>0, MineShape
  <2>2. \A d \in Caller : trace'[d].synced = trace[d].synced /\ trace'[d].lapsed = trace[d].lapsed
    BY <1>2, MineShape DEF StoriesKept
  <2>3. SUFFICES ASSUME NEW d \in Caller PROVE SyncInv(d)'
    OBVIOUS
  <2>4. /\ call'[d].op = call[d].op /\ call'[d].in = call[d].in /\ call'[d].out = call[d].out
        /\ call'[d].pc \in {"ensureOut", "sync"} => call'[d].pc = call[d].pc
        /\ call[d].pc = "ok" => call'[d].pc = "ok"
    <3>1. CASE d # b
      BY <2>1, <3>1
    <3>2. CASE d = b
      <4>1. /\ call'[b].op = call[b].op /\ call'[b].in = call[b].in /\ call'[b].out = call[b].out
        BY <2>1 DEF SameButPc, SameRequest
      <4>2. \/ ~Waiting(b) /\ call'[b].pc = call[b].pc
            \/ Waiting(b) /\ call'[b].pc \in {"send", "failed", "ok", "ensureIn"}
        BY <1>2, <2>0, MineShape
      <4> QED BY <3>2, <4>1, <4>2 DEF Waiting
    <3> QED BY <3>1, <3>2
  <2> QED BY <2>1, <2>2, <2>4 DEF SyncInv, Legs
<1>3. ASSUME NEW c \in Caller, Begun(c) PROVE \A d \in Caller : SyncInv(d)'
  <2>1. PICK request \in Call, t \in Trace :
          Begin(c, request, t) /\ t.synced = {} /\ (request.op = "swap" => request.pc = "start")
    BY <1>3, Begins DEF Begun
  <2>2. watched' = watched /\ call'[c] = request /\ trace'[c] = t
    BY <2>1, BeginShape
  <2>3. \A d \in Caller : d # c =>
          call'[d] = call[d] /\ trace'[d].synced = trace[d].synced /\ trace'[d].lapsed = trace[d].lapsed
    BY <2>1, BeginRest
  <2>4. SUFFICES ASSUME NEW d \in Caller PROVE SyncInv(d)'
    OBVIOUS
  <2>5. CASE d = c
    BY <2>1, <2>2, <2>5 DEF SyncInv
  <2>6. CASE d # c
    BY <2>2, <2>3, <2>6 DEF SyncInv, Legs
  <2> QED BY <2>5, <2>6
<1>4. ASSUME NEW c \in Caller, Goes(c) PROVE \A d \in Caller : SyncInv(d)'
  <2>1. /\ \A d \in Caller : d # c => call'[d] = call[d]
        /\ SameRequest(c) /\ Arrow(c)
    BY <1>4, StepShape DEF Goes
  <2>2. /\ \A d \in Caller : d # c => trace'[d] = trace[d]
        /\ trace[c].lapsed \subseteq trace'[c].lapsed /\ watched \subseteq watched'
        /\ trace'[c].synced = trace[c].synced \/ SyncForce(c)
    BY <1>4, StepTrace DEF Goes
  <2>3. SUFFICES ASSUME NEW d \in Caller PROVE SyncInv(d)'
    OBVIOUS
  <2>4. SyncInv(d)
    OBVIOUS
  <2>5. CASE d # c
    BY <2>1, <2>2, <2>4, <2>5 DEF SyncInv, Legs
  <2>6. CASE d = c
    <3>1. /\ call'[c].op = call[c].op /\ call'[c].in = call[c].in /\ call'[c].out = call[c].out
      BY <2>1 DEF SameRequest
    <3>2. /\ call[c].pc = "ensureIn" => {call[c].in} \ {Native} \subseteq watched' \cup trace'[c].lapsed
          /\ call[c].pc = "ensureOut" => {call[c].out} \ {Native} \subseteq watched' \cup trace'[c].lapsed
          /\ SyncForce(c) => /\ call[c].pc = "sync"
                             /\ trace'[c].synced = watched \/ trace'[c].synced = trace[c].synced
      BY <1>4, EnsureShape DEF Goes
    <3> SUFFICES ASSUME call[c].op = "swap" PROVE SyncInv(c)'
      BY <2>6, <3>1 DEF SyncInv
    <3>3. call'[c].pc \in {"ensureOut", "sync"} =>
            {call'[c].in} \ {Native} \subseteq watched' \cup trace'[c].lapsed
      BY <2>1, <2>2, <2>4, <2>6, <3>1, <3>2 DEF Arrow, SyncInv
    <3>4. call'[c].pc = "sync" => {call'[c].out} \ {Native} \subseteq watched' \cup trace'[c].lapsed
      BY <2>1, <3>1, <3>2 DEF Arrow
    <3>5. ASSUME trace'[c].synced # {}
          PROVE  call'[c].pc = "ok" /\ Legs(c)' \subseteq trace'[c].synced \cup trace'[c].lapsed
      <4>1. trace[c].synced = {}
        BY <2>1, <2>4, <2>6 DEF SyncInv, Arrow
      <4>2. call[c].pc = "sync" /\ trace'[c].synced = watched
        BY <2>2, <3>2, <3>5, <4>1
      <4>3. call'[c].pc = "ok"
        BY <2>1, <4>2 DEF Arrow
      <4>4. {call[c].in} \ {Native} \subseteq watched \cup trace[c].lapsed
            /\ {call[c].out} \ {Native} \subseteq watched \cup trace[c].lapsed
        BY <2>4, <2>6, <4>2 DEF SyncInv
      <4> QED BY <2>2, <3>1, <4>2, <4>3, <4>4 DEF Legs
    <3> QED BY <2>6, <3>1, <3>3, <3>4, <3>5 DEF SyncInv
  <2> QED BY <2>5, <2>6
<1> QED BY <1>1, <1>2, <1>3, <1>4, NextCases

(***************************************************************************)
(* The scans of the approvals screen.                                      *)
(***************************************************************************)
LEMMA ScreenKept ==
  ASSUME Typed, CallsInv, PoolInv, \A c \in Caller : ScreenInv(c), [Next]_vars
  PROVE  \A c \in Caller : ScreenInv(c)'
<1>0. \A d \in Caller : call[d] \in Call /\ CallInv(d) /\ trace[d] \in Trace
  BY DEF Typed, CallsInv
<1>1. CASE Quiet
  <2>1. UNCHANGED <<call, allowance>>
    BY <1>1, QuietShape
  <2>2. \A d \in Caller :
          /\ trace'[d].unread = trace[d].unread
          /\ trace'[d].was = trace[d].was /\ trace'[d].still = trace[d].still
    BY <1>1, QuietShape
  <2> QED BY <2>1, <2>2 DEF ScreenInv, Granted
<1>2. CASE Mine
  <2>0. PICK b : b = Mined.by
    OBVIOUS
  <2>1. /\ b \in Caller /\ SameButPc(b) /\ \A d \in Caller : d # b => call'[d] = call[d]
    BY <1>2, <2>0, MineShape
  <2>2. call[b].op \in {"swap", "revoke"}
    BY <1>2, <2>0, HeadTx DEF TxInv
  <2>3. \A d \in Caller : trace'[d].unread = trace[d].unread
    BY <1>2, MineShape DEF StoriesKept
  <2>4. SUFFICES ASSUME NEW d \in Caller PROVE ScreenInv(d)'
    OBVIOUS
  <2>5. CASE d = b
    BY <2>1, <2>2, <2>5 DEF ScreenInv, SameButPc, SameRequest
  <2>6. CASE d # b
    <3>1. call'[d] = call[d] /\ ScreenInv(d)
      BY <2>1, <2>6
    <3>2. /\ trace[d].was \subseteq trace'[d].was /\ trace'[d].still \subseteq trace[d].still
          /\ call[d].pc = "scan" =>
               /\ Granted \subseteq trace[d].was => Granted' \subseteq trace'[d].was
               /\ trace[d].still \subseteq Granted => trace'[d].still \subseteq Granted'
      BY <1>2, MineShape DEF ScansFollow
    <3> QED BY <2>3, <3>1, <3>2 DEF ScreenInv
  <2> QED BY <2>5, <2>6
<1>3. ASSUME NEW c \in Caller, Begun(c) PROVE \A d \in Caller : ScreenInv(d)'
  <2>1. PICK request \in Call, t \in Trace :
          /\ Begin(c, request, t)
          /\ request.op = "list" =>
               /\ request.pc \in {"scan", "failed"} /\ request.got = {}
               /\ t.was = Granted /\ t.still = Granted \cap request.todo
    BY <1>3, Begins DEF Begun
  <2>2. allowance' = allowance /\ call'[c] = request /\ trace'[c] = t
    BY <2>1, BeginShape DEF chain
  <2>3. \A d \in Caller : d # c => call'[d] = call[d]
    BY <2>1, BeginRest
  <2>4. \A d \in Caller : d # c =>
          /\ trace'[d].unread = trace[d].unread
          /\ trace'[d].was = trace[d].was /\ trace'[d].still = trace[d].still
    BY <2>1, BeginRest
  <2>5. Granted' = Granted
    BY <2>2 DEF Granted
  <2>6. SUFFICES ASSUME NEW d \in Caller PROVE ScreenInv(d)'
    OBVIOUS
  <2>7. CASE d = c
    BY <2>1, <2>2, <2>5, <2>7 DEF ScreenInv
  <2>8. CASE d # c
    BY <2>3, <2>4, <2>5, <2>8 DEF ScreenInv
  <2> QED BY <2>7, <2>8
<1>4. ASSUME NEW c \in Caller, Goes(c) PROVE \A d \in Caller : ScreenInv(d)'
  <2>1. /\ \A d \in Caller : d # c => call'[d] = call[d]
        /\ SameRequest(c) /\ Arrow(c) /\ allowance' = allowance
    BY <1>4, StepShape DEF Goes, chain
  <2>2. /\ \A d \in Caller : d # c => trace'[d] = trace[d]
        /\ trace'[c].was = trace[c].was /\ trace'[c].still = trace[c].still
        /\ trace[c].unread \subseteq trace'[c].unread
    BY <1>4, StepTrace DEF Goes
  <2>3. Granted' = Granted
    BY <2>1 DEF Granted
  <2>4. SUFFICES ASSUME NEW d \in Caller PROVE ScreenInv(d)'
    OBVIOUS
  <2>5. CASE d # c
    BY <2>1, <2>2, <2>3, <2>5 DEF ScreenInv
  <2>6. CASE d = c
    <3> SUFFICES ASSUME call[c].op = "list" PROVE ScreenInv(c)'
      BY <2>1, <2>6 DEF ScreenInv, SameRequest
    <3>1. call[c].pc = "scan"
      BY <1>0, <2>1 DEF CallInv, Arrow
    <3>2. /\ call[c].got \subseteq trace[c].was
          /\ trace[c].still \subseteq call[c].got \cup trace[c].unread \cup call[c].todo
          /\ Granted \subseteq trace[c].was /\ trace[c].still \subseteq Granted
      BY <3>1 DEF ScreenInv
    <3>3. CASE call'[c].pc = "ok" /\ call[c].todo = {} /\ SameScan(c)
      BY <2>2, <3>2, <3>3 DEF ScreenInv, SameScan
    <3>4. CASE call'[c].pc = "scan"
               /\ \E p \in call[c].todo :
                    /\ call'[c].todo = call[c].todo \ {p}
                    /\ \/ call'[c].got = (IF p \in Granted THEN call[c].got \cup {p} ELSE call[c].got)
                       \/ call'[c].got = call[c].got /\ p \in trace'[c].unread
      <4>1. PICK p \in call[c].todo :
              /\ call'[c].todo = call[c].todo \ {p}
              /\ \/ call'[c].got = (IF p \in Granted THEN call[c].got \cup {p} ELSE call[c].got)
                 \/ call'[c].got = call[c].got /\ p \in trace'[c].unread
        BY <3>4
      <4>2. call[c].got \subseteq call'[c].got /\ call'[c].got \subseteq call[c].got \cup ({p} \cap Granted)
        BY <4>1
      <4>3. call'[c].got \subseteq trace'[c].was
        BY <2>2, <3>2, <4>2
      <4>4. ASSUME NEW q \in trace'[c].still
            PROVE  q \in call'[c].got \cup trace'[c].unread \cup call'[c].todo
        <5>1. q \in Granted /\ q \in call[c].got \cup trace[c].unread \cup call[c].todo
          BY <2>2, <3>2, <4>4
        <5>2. CASE q = p
          BY <4>1, <5>1, <5>2
        <5>3. CASE q # p
          BY <2>2, <4>1, <4>2, <5>1, <5>3
        <5> QED BY <5>2, <5>3
      <4> QED BY <2>2, <2>3, <3>2, <3>4, <4>3, <4>4 DEF ScreenInv
    <3> QED BY <1>4, <3>1, <3>3, <3>4, ScanShape DEF Goes
  <2> QED BY <2>5, <2>6
<1> QED BY <1>1, <1>2, <1>3, <1>4, NextCases

-----------------------------------------------------------------------------
(* The theorems. *)

\* Nothing has been asked for at first.
LEMMA InitSwapInv == Init => SwapInv
<1> SUFFICES ASSUME Init PROVE SwapInv
  OBVIOUS
<1> USE SwapAssumption
<1>1. NoCall \in Call /\ NoCall.op = "none" /\ NoCall.pc = "idle"
  BY DEF NoCall, Call, Token
<1>2. /\ NoTrace \in Trace /\ NoTrace.paid = {} /\ NoTrace.revoked = "no"
  BY DEF NoTrace, Trace
<1>3. \A c \in Caller : call[c] = NoCall /\ trace[c] = NoTrace
  BY DEF Init
<1>4. mempool = <<>> /\ mempool \in Seq(Tx) /\ DOMAIN mempool = {}
  BY DEF Init
<1>5. allowance \in [Pair -> 0..MaxUint256]
  <2>1. {0, 1} \subseteq 0..MaxUint256
    OBVIOUS
  <2>2. allowance \in [Pair -> {0, 1}]
    BY DEF Init
  <2> QED BY <2>1, <2>2
<1>6. Typed
  BY <1>1, <1>2, <1>4, <1>5 DEF Init, Typed
<1>7. CallsInv
  BY <1>1, <1>3 DEF CallsInv, CallInv
<1>8. PoolInv
  BY <1>4 DEF PoolInv
<1>9. held = 0 /\ \A c \in Caller : PaidInv(c) /\ SecureInv(c) /\ RevokeInv(c) /\ SyncInv(c) /\ ScreenInv(c)
  BY <1>1, <1>2, <1>3 DEF Init, PaidInv, SecureInv, RevokeInv, SyncInv, ScreenInv
<1> QED BY <1>6, <1>7, <1>8, <1>9 DEF SwapInv

(***************************************************************************)
(* The inductive invariant of Swap.                                        *)
(***************************************************************************)
THEOREM SwapInvariant == Spec => []SwapInv
<1>1. Init => SwapInv
  BY InitSwapInv
<1>2. SwapInv /\ [Next]_vars => SwapInv'
  <2> SUFFICES ASSUME SwapInv, [Next]_vars PROVE SwapInv'
    OBVIOUS
  <2>1. Typed' /\ CallsInv' /\ PoolInv'
    BY TypedKept, CallsKept, PoolKept DEF SwapInv
  <2>2. held' = 0 /\ \A c \in Caller : PaidInv(c)'
    BY PaidKept DEF SwapInv
  <2>3. \A c \in Caller : SecureInv(c)'
    BY SecureKept DEF SwapInv
  <2>4. \A c \in Caller : RevokeInv(c)'
    BY RevokeKept DEF SwapInv
  <2>5. \A c \in Caller : SyncInv(c)'
    BY SyncKept DEF SwapInv
  <2>6. \A c \in Caller : ScreenInv(c)'
    BY ScreenKept DEF SwapInv
  <2> QED BY <2>1, <2>2, <2>3, <2>4, <2>5, <2>6 DEF SwapInv
<1> QED BY <1>1, <1>2, PTL DEF Spec

(***************************************************************************)
(* The variables have their types, and an RPC has one transaction in the   *)
(* mempool at most.                                                        *)
(***************************************************************************)
THEOREM SwapTypeCorrect == Spec => []TypeOK
<1>1. SwapInv => TypeOK
  <2> SUFFICES ASSUME SwapInv PROVE TypeOK
    OBVIOUS
  <2>1. mempool \in Seq(Tx) /\ DOMAIN mempool = 1..Len(mempool) /\ Len(mempool) \in Nat
    BY LenProperties DEF SwapInv, Typed
  <2>2. \A i, j \in DOMAIN mempool : mempool[i].by = mempool[j].by => i >= j
    BY <2>1 DEF SwapInv, PoolInv
  <2> QED BY <2>2 DEF SwapInv, Typed, TypeOK
<1> QED BY <1>1, SwapInvariant, PTL

(***************************************************************************)
(* A swap that went through took what was asked for, no more than was      *)
(* entered, and paid what was asked for, within half a per cent of its     *)
(* quote; the router keeps nothing.                                        *)
(***************************************************************************)
THEOREM SwapsSettleAsAsked == Spec => []SettlesAsAsked
<1>1. SwapInv => SettlesAsAsked
  <2> SUFFICES ASSUME SwapInv PROVE SettlesAsAsked
    OBVIOUS
  <2>1. held = 0
    BY DEF SwapInv
  <2>2. ASSUME NEW c \in Caller, NEW s \in trace[c].paid
        PROVE  /\ s.taken = call[c].in /\ 10 * s.amount <= trace[c].entered
               /\ s.asset = call[c].out
               /\ (s.paid + 1) * 10000 > call[c].quote * (10000 - SlippageBps)
    <3>1. /\ PaidInv(c) /\ CallInv(c) /\ trace[c] \in Trace /\ call[c] \in Call
      BY DEF SwapInv, CallsInv, Typed
    <3>2. /\ call[c].op = "swap"
          /\ s.taken = call[c].in /\ s.amount = call[c].amount /\ s.asset = call[c].out
          /\ s.paid >= SlippageAmount(call[c].quote, SlippageBps)
      BY <2>2, <3>1 DEF PaidInv
    <3>3. 10 * call[c].amount <= trace[c].entered
      BY <3>1, <3>2 DEF CallInv
    <3>4. s \in Payment
      BY <2>2, <3>1 DEF Trace
    <3>5. s.paid \in Nat /\ call[c].quote \in Nat
      BY <3>1, <3>4 DEF Payment, Call
    <3>6. \A q \in Nat : \A paid \in Nat :
            paid >= SlippageAmount(q, SlippageBps) => (paid + 1) * 10000 > q * (10000 - SlippageBps)
      BY DEF SlippageAmount, SlippageBps
    <3> QED BY <3>2, <3>3, <3>5, <3>6
  <2> QED BY <2>1, <2>2 DEF SettlesAsAsked
<1> QED BY <1>1, SwapInvariant, PTL

(***************************************************************************)
(* A swap finds the router without the allowance it has secured only when  *)
(* another RPC has lowered it since.                                       *)
(***************************************************************************)
THEOREM AllowancesAreSecured == Spec => []SecuredAllowance
<1>1. SwapInv => SecuredAllowance
  <2> SUFFICES ASSUME SwapInv, NEW c \in Caller, At(c, "send"), ~trace[c].beaten
               PROVE  Allowed(SwapTx(c))
    BY DEF SecuredAllowance
  <2>1. CallInv(c) /\ SecureInv(c) /\ call[c] \in Call
    BY DEF SwapInv, CallsInv, Typed
  <2>2. call[c].op = "swap" /\ call[c].amount > 0
    BY <2>1 DEF At, CallInv, Call
  <2>3. /\ SwapTx(c).amount = call[c].amount /\ SwapTx(c).in = AddressOf(call[c].in)
        /\ SwapTx(c).value = (IF call[c].in = Native THEN call[c].amount ELSE 0)
    BY DEF SwapTx
  <2>4. CASE call[c].in = Native
    BY <2>1, <2>2, <2>3, <2>4 DEF Allowed, Pulls, Call
  <2>5. CASE call[c].in # Native
    <3>1. allowance[<<call[c].in, Router>>] >= call[c].amount
      BY <2>1, <2>2, <2>5 DEF SecureInv, At
    <3> QED BY <2>3, <2>5, <3>1 DEF Allowed, AddressOf
  <2> QED BY <2>4, <2>5
<1> QED BY <1>1, SwapInvariant, PTL

(***************************************************************************)
(* A revoke that was sent alone holds until the user swaps the token       *)
(* again.                                                                  *)
(***************************************************************************)
THEOREM RevokesHold == Spec => []RevokeHolds
<1>1. SwapInv => RevokeHolds
  BY DEF SwapInv, RevokeInv, RevokeHolds
<1> QED BY <1>1, SwapInvariant, PTL

(***************************************************************************)
(* The approvals screen shows nothing that was not granted during its      *)
(* scan, and misses nothing that was granted all along and could be read.  *)
(***************************************************************************)
THEOREM ScreensAreHonest == Spec => []ScreenIsHonest
<1>1. SwapInv => ScreenIsHonest
  BY DEF SwapInv, ScreenInv, ScreenIsHonest, At
<1> QED BY <1>1, SwapInvariant, PTL

(***************************************************************************)
(* A sync after a swap that was given the watchlist was given both tokens, *)
(* unless one was removed or could not be added.                           *)
(***************************************************************************)
THEOREM SyncsSeeLegs == Spec => []SyncSeesLegs
<1>1. SwapInv => SyncSeesLegs
  BY DEF SwapInv, SyncInv, SyncSeesLegs
<1> QED BY <1>1, SwapInvariant, PTL
=============================================================================
