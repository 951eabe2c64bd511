----------------------- MODULE WalletLifecycleProofs -----------------------
(***************************************************************************)
(* Theorems about WalletLifecycle for any set of import calls, any phrases *)
(* and keys, and any number of crashes, under the condition that the UI    *)
(* waits for one import before it starts the next (Serial).                *)
(***************************************************************************)
EXTENDS WalletLifecycle, TLAPS

(***************************************************************************)
(* The keychain and the wallets table are those of call c, which is the    *)
(* only one the table knows.                                               *)
(***************************************************************************)
Holds(c) ==
  /\ keychain = SecretOf(c)
  /\ \E at \in 0..clock : rows = {[address |-> WalletOf(c), type |-> TypeOf(c), at |-> at]}

(***************************************************************************)
(* One import at a time, and how far it is tells what the stores hold:     *)
(* nothing in the table until Save, its own secret from StoreSecret on.    *)
(* Whoever put a record there, its secret is in the keychain.              *)
(***************************************************************************)
ImportInv ==
  /\ \A c, d \in Busy : c = d
  /\ \A c \in Busy :
       /\ up /\ settled = None
       /\ pc[c] \in {"reset", "stored"} => rows = {}
       /\ pc[c] = "stored" => keychain = SecretOf(c)
       /\ pc[c] \in {"saved", "loaded"} => Holds(c)
       /\ pc[c] = "loaded" => wallet = WalletOf(c)
  /\ rows # {} => \E c \in Call : Holds(c)

(***************************************************************************)
(* The last import that returned, until another begins, is in both stores  *)
(* and in memory; a restart may have put its phrase at the default path.   *)
(***************************************************************************)
SettledInv ==
  /\ ~up => crashes > 0
  /\ settled # None =>
       /\ settled \in Call /\ Busy = {} /\ Holds(settled)
       /\ up => wallet = WalletOf(settled) \/ (crashes > 0 /\ wallet = AtDefaultPath(settled))
  /\ \A c \in Call : answer[c] \in {None, WalletOf(c)}

(***************************************************************************)
(* Whoever the stores are of, settled or not, its wallet is the loaded one *)
(* from Load on; a restart may have put its phrase at the default path.    *)
(***************************************************************************)
LoadedInv ==
  up /\ rows # {} /\ (\A c \in Call : pc[c] # "saved") =>
    \E c \in Call :
      Holds(c) /\ (wallet = WalletOf(c) \/ (crashes > 0 /\ wallet = AtDefaultPath(c)))

(***************************************************************************)
(* A reveal of the stored secret came with the stored type.                *)
(***************************************************************************)
RevealInv ==
  revealed # None =>
    rows # {} /\ (revealed.secret = keychain => revealed.type = Record.type)

(***************************************************************************)
(* From the wipe of an import on, whoever is at work on the tables was so  *)
(* at the wipe, or is of the new wallet.                                   *)
(***************************************************************************)
Of(c) == {WalletOf(c), AtDefaultPath(c)}

ScopeInv ==
  \A c \in Call : c \in Busy \/ c = settled =>
    /\ owners \subseteq late \cup Of(c)
    /\ seeding \cup {wallet, monitored} \subseteq late \cup {None} \cup Of(c)

\* A step that leaves the imports, the stores and the loaded wallet alone.
Aside == UNCHANGED <<up, pc, store, wallet, answer, crashes, settled>>

-----------------------------------------------------------------------------
(* Secrets and records. *)

\* The record of the call that the stores hold.
LEMMA HeldRecord ==
  ASSUME clock \in Nat, NEW c, Holds(c)
  PROVE  rows # {} /\ Record \in rows /\ Record.type = TypeOf(c) /\ Record.address = WalletOf(c)
<1>1. PICK at \in 0..clock : rows = {[address |-> WalletOf(c), type |-> TypeOf(c), at |-> at]}
  BY DEF Holds
<1>2. \E r \in rows : \A q \in rows : r.at <= q.at
  BY <1>1
<1>3. Record \in rows
  BY <1>2 DEF Record
<1> QED BY <1>1, <1>3

\* What a secret is restored to, unless its phrase was imported at another path.
LEMMA RestoredSecret ==
  ASSUME NEW c \in Call
  PROVE  /\ Restored(SecretOf(c), TypeOf(c)) = AtDefaultPath(c)
         /\ AtDefaultPath(c) = WalletOf(c) \/ Request[c].path = "custom"
<1>1. Request[c].path \in {"default", "custom"}
  BY RequestAssumption DEF Path
<1>2. ValidateMnemonic([phrase |-> Request[c].input]) = TRUE
  BY DEF ValidateMnemonic
<1>3. ValidateMnemonic([hex |-> Request[c].input]) = FALSE
  BY DEF ValidateMnemonic
<1>4. CASE OfPhrase(c) /\ Request[c].path = "default"
  BY <1>2, <1>4 DEF AtDefaultPath, Restored, SecretOf, TypeOf, WalletOf, NewWalletFromMnemonic
<1>5. CASE ~OfPhrase(c)
  BY <1>3, <1>5 DEF AtDefaultPath, Restored, SecretOf, TypeOf, WalletOf, PrivateKeyHex, NewWalletFromHex
<1> QED BY <1>1, <1>4, <1>5 DEF AtDefaultPath

\* Who is busy after a call moves on.
LEMMA Moves ==
  ASSUME TypeOK, NEW c \in Call, NEW from, NEW to, Goto(c, from, to)
  PROVE  /\ pc[c] = from /\ pc'[c] = to /\ \A d \in Call : d # c => pc'[d] = pc[d]
         /\ \A d \in Call : d # c => (d \in Busy' <=> d \in Busy)
         /\ c \in Busy' <=> to \in {"reset", "stored", "saved", "loaded"}
         /\ c \in Busy <=> from \in {"reset", "stored", "saved", "loaded"}
BY DEF TypeOK, Goto, Busy

\* A step that leaves the imports alone leaves them all where they are.
LEMMA AsideKeeps ==
  ASSUME Aside
  PROVE  /\ Busy' = Busy /\ Record' = Record /\ \A c : Holds(c)' <=> Holds(c)
BY DEF Aside, Busy, Record, Holds, store

LEMMA AsideSteps ==
  ASSUME \/ ReadSecret \/ RevealSecret \/ runAddressMonitors \/ GetBalances \/ WriteTables
         \/ (\E a \in Address : SeedEnds(a)) \/ UNCHANGED vars
  PROVE  Aside
BY DEF ReadSecret, RevealSecret, runAddressMonitors, StartMonitors, StopMonitors, GetBalances,
       WriteTables, SeedEnds, vars, Aside

-----------------------------------------------------------------------------
(* Imports. *)

(***************************************************************************)
(* Every step keeps ImportInv.                                             *)
(***************************************************************************)
LEMMA ImportKept ==
  ASSUME TypeOK, ImportInv, SettledInv, Serial, [Next]_vars
  PROVE  ImportInv'
<1> USE NoneAssumption
<1>0. clock \in Nat /\ pc \in [Call -> {"idle", "reset", "stored", "saved", "loaded", "done", "failed"}]
  BY DEF TypeOK
<1>1. CASE Aside
  BY <1>1, AsideKeeps DEF ImportInv, Aside, store
<1>2. ASSUME NEW c \in Call, Reset(c)
      PROVE  ImportInv'
  <2>1. Goto(c, "idle", "reset") /\ Busy = {} /\ up' /\ settled' = None /\ rows' = {}
    BY <1>2 DEF Reset
  <2>2. pc'[c] = "reset" /\ Busy' = {c}
    BY <2>1, Moves DEF Busy
  <2> QED BY <2>1, <2>2 DEF ImportInv
<1>3. ASSUME NEW c \in Call, StoreSecret(c)
      PROVE  ImportInv'
  <2>1. Goto(c, "reset", "stored") /\ keychain' = SecretOf(c) /\ UNCHANGED <<up, rows, settled>>
    BY <1>3 DEF StoreSecret
  <2>2. c \in Busy /\ pc[c] = "reset" /\ pc'[c] = "stored" /\ Busy' = {c}
    BY <2>1, Moves DEF Busy, ImportInv
  <2> QED BY <2>1, <2>2 DEF ImportInv
<1>4. ASSUME NEW c \in Call, Save(c)
      PROVE  ImportInv'
  <2>1. Goto(c, "stored", "saved") /\ UNCHANGED <<up, keychain, stamp, clock, settled>>
    BY <1>4 DEF Save
  <2>2. c \in Busy /\ pc[c] = "stored" /\ pc'[c] = "saved" /\ Busy' = {c}
    BY <2>1, Moves DEF Busy, ImportInv
  <2>3. rows = {} /\ keychain = SecretOf(c) /\ up /\ settled = None
    BY <2>2 DEF ImportInv
  <2>4. rows' = {[address |-> WalletOf(c), type |-> TypeOf(c), at |-> stamp[c]]}
    BY <1>4, <2>3 DEF Save
  <2>5. Holds(c)'
    BY <2>1, <2>3, <2>4 DEF Holds, TypeOK
  <2> QED BY <2>1, <2>2, <2>3, <2>5 DEF ImportInv
<1>5. ASSUME NEW c \in Call, Load(c)
      PROVE  ImportInv'
  <2>1. Goto(c, "saved", "loaded") /\ wallet' = WalletOf(c) /\ UNCHANGED <<up, store, settled>>
    BY <1>5 DEF Load
  <2>2. c \in Busy /\ pc[c] = "saved" /\ pc'[c] = "loaded" /\ Busy' = {c}
    BY <2>1, Moves DEF Busy, ImportInv
  <2>3. Holds(c)' /\ up /\ settled = None
    BY <2>1, <2>2 DEF ImportInv, Holds, store
  <2> QED BY <2>1, <2>2, <2>3 DEF ImportInv
<1>6. ASSUME NEW c \in Call,
             GenerateReplies(c) \/ ImportReplies(c) \/ ImportFails(c) \/ GenerateFails(c)
      PROVE  ImportInv'
  <2>1. /\ UNCHANGED <<up, store, wallet>> /\ (c \in Busy => settled = None)
        /\ pc' = [pc EXCEPT ![c] = pc'[c]] /\ pc'[c] \in {"done", "failed"}
        /\ c \in Busy \/ settled' = settled
    BY <1>0, <1>6 DEF GenerateReplies, ImportReplies, ImportFails, GenerateFails, Settle, Goto, Busy,
                      ImportInv
  <2>2. Busy' \subseteq Busy \ {c} /\ \A d \in Busy' : pc'[d] = pc[d]
    BY <1>0, <2>1 DEF Busy
  <2>3. Busy' # {} => settled' = settled
    BY <2>1, <2>2 DEF ImportInv
  <2>4. \A d : Holds(d)' <=> Holds(d)
    BY <2>1 DEF Holds, store
  <2> QED BY <2>1, <2>2, <2>3, <2>4 DEF ImportInv, store
<1>7. CASE Crash
  <2>1. Busy' = {}
    BY <1>7 DEF Crash, Busy
  <2>2. UNCHANGED store /\ \A d : Holds(d)' <=> Holds(d)
    BY <1>7 DEF Crash, Holds, store
  <2> QED BY <2>1, <2>2 DEF ImportInv, store
<1>8. CASE StartEmpty \/ LoadFromKeychain
  <2>1. ~up /\ UNCHANGED <<pc, store, settled>>
    BY <1>8 DEF StartEmpty, LoadFromKeychain
  <2>2. Busy = {} /\ Busy' = {}
    BY <2>1 DEF ImportInv, Busy
  <2>3. \A d : Holds(d)' <=> Holds(d)
    BY <2>1 DEF Holds, store
  <2> QED BY <2>1, <2>2, <2>3 DEF ImportInv, store
<1> QED
  BY <1>1, <1>2, <1>3, <1>4, <1>5, <1>6, <1>7, <1>8, AsideSteps DEF Next, ImportCall, persistWallet
-----------------------------------------------------------------------------
(* The last import that returned. *)

(***************************************************************************)
(* Every step keeps SettledInv: an import returns with both stores its own *)
(* and its wallet loaded, and a restart derives that wallet from them.     *)
(***************************************************************************)
LEMMA SettledKept ==
  ASSUME TypeOK, ImportInv, SettledInv, Serial, [Next]_vars
  PROVE  SettledInv'
<1> USE NoneAssumption
<1>0. /\ clock \in Nat /\ answer \in [Call -> Address \cup {None}] /\ crashes \in Nat
      /\ pc \in [Call -> {"idle", "reset", "stored", "saved", "loaded", "done", "failed"}]
  BY BoundAssumption DEF TypeOK
<1>1. CASE Aside
  BY <1>1, AsideKeeps DEF SettledInv, Aside
<1>2. ASSUME NEW c \in Call, persistWallet(c)
      PROVE  SettledInv'
  <2>1. UNCHANGED <<up, answer, crashes>> /\ up
    <3>1. CASE Reset(c)
      BY <3>1 DEF Reset
    <3>2. CASE StoreSecret(c) \/ Save(c) \/ Load(c)
      <4>1. c \in Busy
        BY <1>0, <3>2 DEF StoreSecret, Save, Load, Goto, Busy
      <4> QED BY <3>2, <4>1 DEF StoreSecret, Save, Load, ImportInv
    <3> QED BY <1>2, <3>1, <3>2 DEF persistWallet
  <2>2. settled' = None
    <3>1. CASE Reset(c)
      BY <3>1 DEF Reset
    <3>2. CASE StoreSecret(c) \/ Save(c) \/ Load(c)
      <4>1. c \in Busy
        BY <1>0, <3>2 DEF StoreSecret, Save, Load, Goto, Busy
      <4> QED BY <3>2, <4>1 DEF StoreSecret, Save, Load, ImportInv
    <3> QED BY <1>2, <3>1, <3>2 DEF persistWallet
  <2> QED BY <2>1, <2>2 DEF SettledInv
<1>3. ASSUME NEW c \in Call, GenerateReplies(c) \/ ImportReplies(c)
      PROVE  SettledInv'
  <2>1. Goto(c, "loaded", "done") /\ UNCHANGED <<up, store, wallet, crashes>> /\ settled' \in {c, None}
    BY <1>3 DEF GenerateReplies, ImportReplies, Settle
  <2>2. c \in Busy /\ pc[c] = "loaded" /\ Busy' = {}
    BY <2>1, Moves DEF Busy, ImportInv
  <2>3. Holds(c) /\ wallet = WalletOf(c) /\ up
    BY <2>2 DEF ImportInv
  <2>4. Holds(c)'
    BY <2>1, <2>3 DEF Holds, store
  <2>5. answer' = [answer EXCEPT ![c] = WalletOf(c)]
    BY <1>0, <1>3, <2>3, HeldRecord DEF GenerateReplies, ImportReplies
  <2>6. \A d \in Call : answer'[d] \in {None, WalletOf(d)}
    BY <1>0, <2>5 DEF SettledInv
  <2> QED BY <2>1, <2>2, <2>3, <2>4, <2>6 DEF SettledInv
<1>4. ASSUME NEW c \in Call, ImportFails(c) \/ GenerateFails(c)
      PROVE  SettledInv'
  <2>1. UNCHANGED <<up, store, wallet, answer, crashes, settled>>
    BY <1>4 DEF ImportFails, GenerateFails
  <2>2. Busy' \subseteq Busy
    BY <1>0, <1>4 DEF ImportFails, GenerateFails, Goto, Busy
  <2>3. \A d : Holds(d)' <=> Holds(d)
    BY <2>1 DEF Holds, store
  <2> QED BY <2>1, <2>2, <2>3 DEF SettledInv
<1>5. CASE Crash
  <2>1. ~up' /\ crashes' = crashes + 1 /\ UNCHANGED <<store, answer, settled>>
    BY <1>5 DEF Crash
  <2>2. Busy' = {}
    BY <1>5 DEF Crash, Busy
  <2>3. \A d : Holds(d)' <=> Holds(d)
    BY <2>1 DEF Holds, store
  <2> QED BY <1>0, <2>1, <2>2, <2>3 DEF SettledInv
<1>6. CASE StartEmpty \/ LoadFromKeychain
  <2>1. ~up /\ up' /\ UNCHANGED <<pc, store, answer, crashes, settled>>
    BY <1>6 DEF StartEmpty, LoadFromKeychain
  <2>2. Busy' = Busy /\ \A d : Holds(d)' <=> Holds(d)
    BY <2>1 DEF Holds, store, Busy
  <2>3. ASSUME settled # None
        PROVE  wallet' = AtDefaultPath(settled)
    <3>1. settled \in Call /\ Holds(settled)
      BY <2>3 DEF SettledInv
    <3>2. /\ rows # {} /\ keychain = SecretOf(settled) /\ Record.type = TypeOf(settled)
          /\ keychain # None
      BY <1>0, <3>1, HeldRecord DEF Holds, Secret
    <3>3. LoadFromKeychain
      BY <1>6, <3>2 DEF StartEmpty
    <3> QED BY <3>1, <3>2, <3>3, RestoredSecret DEF LoadFromKeychain
  <2> QED BY <2>1, <2>2, <2>3 DEF SettledInv
<1> QED
  BY <1>1, <1>2, <1>3, <1>4, <1>5, <1>6, AsideSteps DEF Next, ImportCall

-----------------------------------------------------------------------------
(* The loaded wallet. *)

(***************************************************************************)
(* Every step keeps LoadedInv: from Save the import goes on to Load, and a *)
(* backend that died in between derives the wallet when it starts.         *)
(***************************************************************************)
LEMMA LoadedKept ==
  ASSUME TypeOK, ImportInv, SettledInv, LoadedInv, Serial, [Next]_vars
  PROVE  LoadedInv'
<1> USE NoneAssumption
<1>0. /\ clock \in Nat
      /\ pc \in [Call -> {"idle", "reset", "stored", "saved", "loaded", "done", "failed"}]
  BY DEF TypeOK
<1>1. ASSUME UNCHANGED <<up, store, wallet, crashes>>,
             \A c \in Call : pc[c] = "saved" => pc'[c] = "saved"
      PROVE  LoadedInv'
  <2>1. \A c : Holds(c)' <=> Holds(c)
    BY <1>1 DEF Holds, store
  <2> QED BY <1>1, <2>1 DEF LoadedInv, store
<1>2. CASE Aside
  BY <1>1, <1>2 DEF Aside
<1>3. ASSUME NEW c \in Call, Reset(c)
      PROVE  LoadedInv'
  BY <1>3 DEF Reset, LoadedInv
<1>4. ASSUME NEW c \in Call, StoreSecret(c)
      PROVE  LoadedInv'
  <2>1. rows' = {}
    BY <1>0, <1>4 DEF StoreSecret, Goto, ImportInv, Busy
  <2> QED BY <2>1 DEF LoadedInv
<1>5. ASSUME NEW c \in Call, Save(c)
      PROVE  LoadedInv'
  <2>1. pc'[c] = "saved"
    BY <1>5, Moves DEF Save
  <2> QED BY <2>1 DEF LoadedInv
<1>6. ASSUME NEW c \in Call, Load(c)
      PROVE  LoadedInv'
  <2>1. pc[c] = "saved" /\ wallet' = WalletOf(c) /\ UNCHANGED store
    BY <1>6 DEF Load, Goto
  <2>2. Holds(c)
    BY <2>1 DEF ImportInv, Busy
  <2>3. Holds(c)'
    BY <2>1, <2>2 DEF Holds, store
  <2> QED BY <2>1, <2>3 DEF LoadedInv
<1>7. ASSUME NEW c \in Call,
             GenerateReplies(c) \/ ImportReplies(c) \/ ImportFails(c) \/ GenerateFails(c)
      PROVE  LoadedInv'
  <2>1. UNCHANGED <<up, store, wallet, crashes>> /\ pc[c] # "saved"
    BY <1>7 DEF GenerateReplies, ImportReplies, ImportFails, GenerateFails, Settle, Goto
  <2>2. pc' = [pc EXCEPT ![c] = pc'[c]]
    BY <1>0, <1>7 DEF GenerateReplies, ImportReplies, ImportFails, GenerateFails, Settle, Goto
  <2> QED BY <1>0, <1>1, <2>1, <2>2
<1>8. CASE Crash
  BY <1>8 DEF Crash, LoadedInv
<1>9. CASE StartEmpty \/ LoadFromKeychain
  <2>1. ~up /\ UNCHANGED <<store, crashes>>
    BY <1>9 DEF StartEmpty, LoadFromKeychain
  <2>2. ASSUME rows # {}
        PROVE  \E c \in Call : Holds(c)' /\ wallet' = AtDefaultPath(c)
    <3>1. PICK c \in Call : Holds(c)
      BY <2>2 DEF ImportInv
    <3>2. /\ keychain = SecretOf(c) /\ Record.type = TypeOf(c) /\ keychain # None
      BY <1>0, <3>1, HeldRecord DEF Holds, Secret
    <3>3. LoadFromKeychain
      BY <1>9, <2>2, <3>2 DEF StartEmpty
    <3>4. wallet' = AtDefaultPath(c)
      BY <3>2, <3>3, RestoredSecret DEF LoadFromKeychain
    <3>5. Holds(c)'
      BY <2>1, <3>1 DEF Holds, store
    <3> QED BY <3>4, <3>5
  <2>3. crashes' > 0
    BY <2>1 DEF SettledInv
  <2>4. rows' = rows
    BY <2>1 DEF store
  <2> QED BY <2>2, <2>3, <2>4 DEF LoadedInv
<1> QED
  BY <1>2, <1>3, <1>4, <1>5, <1>6, <1>7, <1>8, <1>9, AsideSteps DEF Next, ImportCall, persistWallet

-----------------------------------------------------------------------------
(* Reveals. *)

(***************************************************************************)
(* Every step keeps RevealInv: an import takes the answer back before it   *)
(* touches the secret, and no reveal ends in an answer until Save.         *)
(***************************************************************************)
LEMMA RevealKept ==
  ASSUME TypeOK, ImportInv, RevealInv, Serial, [Next]_vars
  PROVE  RevealInv'
<1> USE NoneAssumption
<1>0. pc \in [Call -> {"idle", "reset", "stored", "saved", "loaded", "done", "failed"}]
  BY DEF TypeOK
<1>1. ASSUME UNCHANGED <<store, revealed>>
      PROVE  RevealInv'
  <2>1. Record' = Record
    BY <1>1 DEF Record, store
  <2> QED BY <1>1, <2>1 DEF RevealInv, store
<1>2. CASE ReadSecret
  BY <1>2 DEF ReadSecret, RevealInv
<1>3. CASE RevealSecret
  <2>1. UNCHANGED store /\ revealed' = IF rows = {} THEN None ELSE [secret |-> held, type |-> Record.type]
    BY <1>3 DEF RevealSecret
  <2>2. Record' = Record
    BY <2>1 DEF Record, store
  <2> QED BY <2>1, <2>2 DEF RevealInv, store
<1>4. ASSUME NEW c \in Call, Reset(c)
      PROVE  RevealInv'
  BY <1>4 DEF Reset, RevealInv
<1>5. ASSUME NEW c \in Call, StoreSecret(c) \/ Save(c)
      PROVE  RevealInv'
  <2>1. rows = {}
    BY <1>0, <1>5 DEF StoreSecret, Save, Goto, ImportInv, Busy
  <2>2. revealed' = revealed
    BY <1>5 DEF StoreSecret, Save, reveal
  <2> QED BY <2>1, <2>2 DEF RevealInv
<1>6. ASSUME NEW c \in Call, Load(c) \/ GenerateReplies(c) \/ ImportReplies(c) \/ ImportFails(c) \/ GenerateFails(c)
      PROVE  RevealInv'
  BY <1>1, <1>6 DEF Load, GenerateReplies, ImportReplies, ImportFails, GenerateFails, Settle, reveal
<1>7. CASE \/ Crash \/ StartEmpty \/ LoadFromKeychain \/ runAddressMonitors \/ GetBalances
           \/ WriteTables \/ (\E a \in Address : SeedEnds(a)) \/ UNCHANGED vars
  BY <1>1, <1>7 DEF Crash, StartEmpty, LoadFromKeychain, runAddressMonitors, StartMonitors, StopMonitors,
                    GetBalances, WriteTables, SeedEnds, vars, reveal
<1> QED
  BY <1>2, <1>3, <1>4, <1>5, <1>6, <1>7 DEF Next, ImportCall, persistWallet

-----------------------------------------------------------------------------
(* The wallet-scoped tables. *)

(***************************************************************************)
(* Every step keeps ScopeInv: seeds and monitors start on the loaded       *)
(* wallet, and an import loads its own.                                    *)
(***************************************************************************)
LEMMA ScopeKept ==
  ASSUME TypeOK, ImportInv, SettledInv, ScopeInv, Serial, [Next]_vars
  PROVE  ScopeInv'
<1> USE NoneAssumption
<1>0. pc \in [Call -> {"idle", "reset", "stored", "saved", "loaded", "done", "failed"}]
  BY DEF TypeOK
<1>1. ASSUME \A d \in Call : d \in Busy' \/ d = settled' => d \in Busy \/ d = settled,
             UNCHANGED late, owners' \subseteq owners \cup ((seeding \cup {monitored}) \ {None}),
             seeding' \cup {wallet', monitored'} \subseteq seeding \cup {wallet, monitored, None}
      PROVE  ScopeInv'
  BY <1>1 DEF ScopeInv, Of
<1>2. ASSUME NEW c \in Call, Reset(c)
      PROVE  ScopeInv'
  <2>1. Goto(c, "idle", "reset") /\ Busy = {} /\ settled' = None /\ owners' = {}
        /\ late' = (seeding \cup {monitored, wallet}) \ {None}
        /\ UNCHANGED <<wallet, monitored, seeding>>
    BY <1>2 DEF Reset
  <2> QED BY <2>1 DEF ScopeInv
<1>3. ASSUME NEW c \in Call, StoreSecret(c) \/ Save(c)
      PROVE  ScopeInv'
  <2>1. Busy' = Busy /\ UNCHANGED <<wallet, background, settled>>
    BY <1>0, <1>3 DEF StoreSecret, Save, Goto, Busy
  <2> QED BY <1>1, <2>1 DEF background
<1>4. ASSUME NEW c \in Call, Load(c)
      PROVE  ScopeInv'
  <2>1. /\ Goto(c, "saved", "loaded") /\ wallet' = WalletOf(c)
        /\ UNCHANGED <<seeding, monitored, owners, late, settled>>
    BY <1>4 DEF Load, background
  <2>2. c \in Busy /\ Busy' = {c} /\ settled = None
    BY <2>1, Moves DEF Busy, ImportInv
  <2> QED BY <2>1, <2>2 DEF ScopeInv, Of
<1>5. ASSUME NEW c \in Call, GenerateReplies(c) \/ ImportReplies(c)
      PROVE  ScopeInv'
  <2>1. /\ Goto(c, "loaded", "done") /\ settled' \in {c, None}
        /\ UNCHANGED <<wallet, monitored, owners, late>>
        /\ seeding \subseteq seeding' /\ seeding' \subseteq seeding \cup {wallet}
    BY <1>5 DEF GenerateReplies, ImportReplies, Settle
  <2>2. c \in Busy /\ Busy' = {}
    BY <2>1, Moves DEF Busy, ImportInv
  <2> QED BY <1>1, <2>1, <2>2
<1>6. ASSUME NEW c \in Call, ImportFails(c) \/ GenerateFails(c)
      PROVE  ScopeInv'
  <2>1. Busy' \subseteq Busy /\ UNCHANGED <<wallet, background, settled>>
    BY <1>0, <1>6 DEF ImportFails, GenerateFails, Goto, Busy
  <2> QED BY <1>1, <2>1 DEF background
<1>7. CASE Crash
  <2>1. Busy' = {}
    BY <1>7 DEF Crash, Busy
  <2> QED BY <1>1, <1>7, <2>1 DEF Crash
<1>8. CASE StartEmpty \/ LoadFromKeychain
  <2>1. ~up /\ UNCHANGED <<pc, background, settled>>
    BY <1>8 DEF StartEmpty, LoadFromKeychain
  <2>2. Busy = {} /\ Busy' = {}
    BY <2>1 DEF ImportInv, Busy
  <2>3. CASE wallet' = wallet
    BY <1>1, <2>1, <2>2, <2>3 DEF background
  <2>4. CASE LoadFromKeychain
    <3>1. ASSUME settled # None
          PROVE  wallet' = AtDefaultPath(settled)
      <4>1. settled \in Call /\ Holds(settled) /\ clock \in Nat
        BY <3>1 DEF SettledInv, TypeOK
      <4>2. keychain = SecretOf(settled) /\ Record.type = TypeOf(settled)
        BY <4>1, HeldRecord DEF Holds
      <4> QED BY <2>4, <4>1, <4>2, RestoredSecret DEF LoadFromKeychain
    <3> QED BY <2>1, <2>2, <3>1 DEF ScopeInv, Of, background
  <2> QED BY <1>8, <2>3, <2>4 DEF StartEmpty
<1>9. CASE \/ ReadSecret \/ RevealSecret \/ runAddressMonitors \/ GetBalances \/ WriteTables
            \/ (\E a \in Address : SeedEnds(a)) \/ UNCHANGED vars
  <2>1. Busy' = Busy /\ UNCHANGED <<settled, wallet>>
    BY <1>9, AsideSteps, AsideKeeps DEF Aside
  <2>2. UNCHANGED late /\ owners' \subseteq owners \cup ((seeding \cup {monitored}) \ {None})
    BY <1>9 DEF ReadSecret, RevealSecret, runAddressMonitors, StartMonitors, StopMonitors,
                 GetBalances, WriteTables, SeedEnds, vars, background
  <2>3. seeding' \subseteq seeding \cup {wallet} /\ monitored' \in {monitored, wallet, None}
    BY <1>9 DEF ReadSecret, RevealSecret, runAddressMonitors, StartMonitors, StopMonitors,
                 GetBalances, WriteTables, SeedEnds, vars, background
  <2> QED BY <1>1, <2>1, <2>2, <2>3
<1> QED
  BY <1>2, <1>3, <1>4, <1>5, <1>6, <1>7, <1>8, <1>9 DEF Next, ImportCall, persistWallet
-----------------------------------------------------------------------------
(* Types. *)

\* What the calls store and load is typed.
LEMMA CallsTyped ==
  ASSUME NEW c \in Call
  PROVE  /\ SecretOf(c) \in Secret /\ WalletOf(c) \in Address /\ AtDefaultPath(c) \in Address
         /\ TypeOf(c) \in SecretType
BY DEF Secret, Address, TypeOf, SecretType

\* The record of a call that the stores hold, and what it restores, are typed.
LEMMA RecordTyped ==
  ASSUME TypeOK, ImportInv, rows # {}
  PROVE  /\ Record.type \in SecretType /\ Record.address \in Address
         /\ Restored(keychain, Record.type) \in Address
<1>1. PICK c \in Call : Holds(c)
  BY DEF ImportInv
<1>2. keychain = SecretOf(c) /\ Record.type = TypeOf(c) /\ Record.address = WalletOf(c)
  BY <1>1, HeldRecord DEF Holds, TypeOK
<1> QED BY <1>2, CallsTyped, RestoredSecret

(***************************************************************************)
(* Every step keeps the types; what a restart loads is an address because  *)
(* the secret is of the record's type.                                     *)
(***************************************************************************)
LEMMA TypesKept ==
  ASSUME TypeOK, ImportInv, Serial, [Next]_vars
  PROVE  TypeOK'
<1> USE NoneAssumption, BoundAssumption
<1> DEFINE Steps == {"idle", "reset", "stored", "saved", "loaded", "done", "failed"}
<1>0. /\ clock \in Nat /\ pc \in [Call -> Steps] /\ stamp \in [Call -> 0..clock]
      /\ rows \subseteq [address : Address, type : SecretType, at : 0..clock]
      /\ crashes \in 0..MaxCrashes /\ reveals \in 0..MaxReveals
  BY DEF TypeOK
<1>1. ASSUME NEW c \in Call, NEW to \in Steps
      PROVE  [pc EXCEPT ![c] = to] \in [Call -> Steps]
  BY <1>0
<1>2. ASSUME NEW c \in Call, Reset(c)
      PROVE  TypeOK'
  <2>1. pc' \in [Call -> Steps]
    BY <1>1, <1>2 DEF Reset, Goto
  <2>2. late' \subseteq Address
    BY <1>2 DEF Reset, TypeOK
  <2> QED BY <1>2, <2>1, <2>2 DEF Reset, TypeOK
<1>3. ASSUME NEW c \in Call, StoreSecret(c)
      PROVE  TypeOK'
  <2>1. pc' \in [Call -> Steps]
    BY <1>1, <1>3 DEF StoreSecret, Goto
  <2>2. clock' = clock + 1 /\ stamp' = [stamp EXCEPT ![c] = clock] /\ rows' = rows
    BY <1>3 DEF StoreSecret
  <2>3. clock' \in Nat /\ stamp' \in [Call -> 0..clock']
    <3>1. \A n \in 0..clock : n \in 0..(clock + 1)
      BY <1>0
    <3>2. clock \in 0..(clock + 1)
      BY <1>0
    <3> QED BY <1>0, <2>2, <3>1, <3>2
  <2>4. rows' \subseteq [address : Address, type : SecretType, at : 0..clock']
    <3>1. 0..clock \subseteq 0..clock'
      BY <1>0, <2>2
    <3> QED BY <1>0, <2>2, <3>1
  <2>5. keychain' \in Secret \cup {None}
    BY <1>3, CallsTyped DEF StoreSecret
  <2> QED BY <1>3, <2>1, <2>3, <2>4, <2>5 DEF StoreSecret, TypeOK, background, reveal
<1>4. ASSUME NEW c \in Call, Save(c)
      PROVE  TypeOK'
  <2>1. pc' \in [Call -> Steps]
    BY <1>1, <1>4 DEF Save, Goto
  <2>2. rows = {}
    BY <1>0, <1>4 DEF Save, Goto, Busy, ImportInv
  <2>3. rows' = {[address |-> WalletOf(c), type |-> TypeOf(c), at |-> stamp[c]]} /\ clock' = clock
    BY <1>4, <2>2 DEF Save
  <2>4. rows' \subseteq [address : Address, type : SecretType, at : 0..clock']
    BY <1>0, <2>3, CallsTyped
  <2> QED BY <1>4, <2>1, <2>4 DEF Save, TypeOK, background, reveal
<1>5. ASSUME NEW c \in Call, Load(c)
      PROVE  TypeOK'
  <2>1. pc' \in [Call -> Steps]
    BY <1>1, <1>5 DEF Load, Goto
  <2>2. wallet' \in Address
    BY <1>5, CallsTyped DEF Load
  <2> QED BY <1>5, <2>1, <2>2 DEF Load, TypeOK, background, reveal, store
<1>6. ASSUME NEW c \in Call, GenerateReplies(c) \/ ImportReplies(c)
      PROVE  TypeOK'
  <2>1. pc' \in [Call -> Steps] /\ settled' \in Call \cup {None}
    BY <1>1, <1>6 DEF GenerateReplies, ImportReplies, Settle, Goto
  <2>2. answer' \in [Call -> Address \cup {None}]
    BY <1>6, CallsTyped, RecordTyped DEF GenerateReplies, ImportReplies, TypeOK
  <2>3. seeding' \subseteq Address
    BY <1>6 DEF GenerateReplies, ImportReplies, TypeOK
  <2> QED BY <1>6, <2>1, <2>2, <2>3
          DEF GenerateReplies, ImportReplies, Settle, TypeOK, background, reveal, store
<1>7. ASSUME NEW c \in Call, ImportFails(c) \/ GenerateFails(c)
      PROVE  TypeOK'
  <2>1. pc' \in [Call -> Steps]
    BY <1>1, <1>7 DEF ImportFails, GenerateFails, Goto
  <2> QED BY <1>7, <2>1 DEF ImportFails, GenerateFails, TypeOK, background, reveal, store
<1>8. CASE ReadSecret
  <2>1. reveals' \in 0..MaxReveals
    BY <1>0, <1>8 DEF ReadSecret
  <2> QED BY <1>8, <2>1 DEF ReadSecret, TypeOK, background, store
<1>9. CASE RevealSecret
  <2>1. revealed' \in [secret : Secret, type : SecretType] \cup {None}
    BY <1>9, RecordTyped DEF RevealSecret, TypeOK
  <2> QED BY <1>9, <2>1 DEF RevealSecret, TypeOK, background, store
<1>10. CASE Crash
  <2>1. pc' \in [Call -> Steps]
    BY <1>0, <1>10 DEF Crash
  <2>2. crashes' \in 0..MaxCrashes
    BY <1>0, <1>10 DEF Crash
  <2> QED BY <1>10, <2>1, <2>2 DEF Crash, TypeOK, store
<1>11. CASE StartEmpty \/ LoadFromKeychain
  <2>1. wallet' \in Address \cup {None}
    BY <1>11, RecordTyped DEF StartEmpty, LoadFromKeychain, TypeOK
  <2> QED BY <1>11, <2>1 DEF StartEmpty, LoadFromKeychain, TypeOK, background, reveal, store
<1>12. CASE runAddressMonitors \/ GetBalances \/ WriteTables \/ (\E a \in Address : SeedEnds(a))
  <2>1. UNCHANGED <<up, pc, store, wallet, answer, reveal, late, crashes, settled>>
    BY <1>12 DEF runAddressMonitors, StartMonitors, StopMonitors, GetBalances, WriteTables, SeedEnds
  <2>2. monitored' \in Address \cup {None} /\ seeding' \subseteq Address /\ owners' \subseteq Address
    BY <1>12 DEF runAddressMonitors, StartMonitors, StopMonitors, GetBalances, WriteTables, SeedEnds,
                 TypeOK
  <2> QED BY <2>1, <2>2 DEF TypeOK, reveal, store
<1>13. CASE UNCHANGED vars
  BY <1>13 DEF vars, TypeOK, background, reveal, store
<1> QED
  BY <1>2, <1>3, <1>4, <1>5, <1>6, <1>7, <1>8, <1>9, <1>10, <1>11, <1>12, <1>13
  DEF Next, ImportCall, persistWallet

-----------------------------------------------------------------------------
(* The theorems. *)

\* The inductive invariant.
WalletInv == TypeOK /\ ImportInv /\ SettledInv /\ LoadedInv /\ RevealInv /\ ScopeInv

(***************************************************************************)
(* With one import at a time the invariant holds through every import,     *)
(* failure, crash, restart, reveal and background write.                   *)
(***************************************************************************)
THEOREM WalletInvariant == ASSUME Serial PROVE Spec => []WalletInv
<1>1. Init => WalletInv
  <2> SUFFICES ASSUME Init PROVE WalletInv
    OBVIOUS
  <2> USE NoneAssumption, BoundAssumption
  <2>1. Busy = {}
    BY DEF Init, Busy
  <2>2. TypeOK
    BY DEF Init, TypeOK
  <2> QED BY <2>1, <2>2 DEF Init, WalletInv, ImportInv, SettledInv, LoadedInv, RevealInv, ScopeInv
<1>2. WalletInv /\ [Next]_vars => WalletInv'
  BY TypesKept, ImportKept, SettledKept, LoadedKept, RevealKept, ScopeKept DEF WalletInv
<1> QED BY <1>1, <1>2, PTL DEF Spec

(***************************************************************************)
(* Every variable keeps its type; in particular what a restart loads is an *)
(* address of one of the calls.                                            *)
(***************************************************************************)
THEOREM WalletTypeCorrect == ASSUME Serial PROVE Spec => []TypeOK
<1>1. WalletInv => TypeOK
  BY DEF WalletInv
<1> QED BY <1>1, WalletInvariant, PTL

(***************************************************************************)
(* The import that returned last is the wallet the backend signs with,     *)
(* however imports before it failed and however often it restarts; each    *)
(* response showed the address of its own secret.                          *)
(***************************************************************************)
THEOREM ImportsAreDurable == ASSUME Serial PROVE Spec => []RestartRestores
<1>1. WalletInv => RestartRestores
  BY DEF WalletInv, SettledInv, RestartRestores
<1> QED BY <1>1, WalletInvariant, PTL

(***************************************************************************)
(* Between imports, whether the last one returned, failed or died, the     *)
(* keychain's secret is that of the one record, and the loaded wallet is   *)
(* the record's, unless a restart has derived the default path of a phrase *)
(* imported at another.                                                    *)
(***************************************************************************)
THEOREM SecretsFit == ASSUME Serial PROVE Spec => []SecretFitsRecord
<1>1. WalletInv => SecretFitsRecord
  <2> SUFFICES ASSUME WalletInv, Busy = {}, rows # {}
               PROVE  \E c \in Call :
                        /\ keychain = SecretOf(c)
                        /\ Record.type = TypeOf(c) /\ Record.address = WalletOf(c)
                        /\ up => \/ wallet = Record.address
                                 \/ /\ Request[c].path = "custom" /\ crashes > 0
                                    /\ wallet = AtDefaultPath(c)
    BY DEF SecretFitsRecord
  <2>1. PICK c \in Call :
          /\ Holds(c)
          /\ up => wallet = WalletOf(c) \/ (crashes > 0 /\ wallet = AtDefaultPath(c))
    BY DEF WalletInv, ImportInv, LoadedInv, Busy
  <2>2. /\ keychain = SecretOf(c)
        /\ Record.type = TypeOf(c) /\ Record.address = WalletOf(c)
    BY <2>1, HeldRecord DEF WalletInv, TypeOK, Holds
  <2>3. AtDefaultPath(c) = WalletOf(c) \/ Request[c].path = "custom"
    BY RestoredSecret
  <2> QED BY <2>1, <2>2, <2>3
<1> QED BY <1>1, WalletInvariant, PTL

(***************************************************************************)
(* The phrase or key revealed and the keystore exported restore the same   *)
(* wallet, but for a custom path.                                          *)
(***************************************************************************)
THEOREM BackupsRestore == ASSUME Serial PROVE Spec => []BackupsAgree
<1>1. WalletInv => BackupsAgree
  <2> SUFFICES ASSUME WalletInv, settled # None, up, revealed # None, revealed.secret = keychain
               PROVE  \/ Restored(revealed.secret, revealed.type) = wallet
                      \/ /\ Request[settled].path = "custom"
                         /\ Restored(revealed.secret, revealed.type) = AtDefaultPath(settled)
    BY DEF BackupsAgree, NewWalletFromHex, ExportKeystore, PrivateKeyHex
  <2>1. /\ settled \in Call /\ Holds(settled) /\ clock \in Nat
        /\ wallet = WalletOf(settled) \/ wallet = AtDefaultPath(settled)
        /\ revealed.type = Record.type
    BY DEF WalletInv, SettledInv, RevealInv, TypeOK
  <2>2. revealed.secret = SecretOf(settled) /\ revealed.type = TypeOf(settled)
    BY <2>1, HeldRecord DEF Holds
  <2> QED BY <2>1, <2>2, RestoredSecret
<1> QED BY <1>1, WalletInvariant, PTL

(***************************************************************************)
(* What the tables hold of another wallet was written by one still at work *)
(* when they were wiped.                                                   *)
(***************************************************************************)
THEOREM OnlyLateWritesInherited == ASSUME Serial PROVE Spec => []InheritsOnlyLate
<1>1. WalletInv => InheritsOnlyLate
  BY DEF WalletInv, SettledInv, ScopeInv, Of, InheritsOnlyLate
<1> QED BY <1>1, WalletInvariant, PTL
=============================================================================
