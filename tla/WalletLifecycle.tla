-------------------------- MODULE WalletLifecycle --------------------------
(***************************************************************************)
(* The wallet's life in the backend: generate or import (persistWallet)    *)
(* wipes the previous wallet's tables, stores the secret in the keychain,  *)
(* saves the record and only then switches the loaded wallet; a restart    *)
(* loads it again (LoadFromKeychain); the secret can be revealed and the   *)
(* key exported; the address monitors and the token and history seeding    *)
(* follow the loaded wallet and write its tables.                          *)
(*                                                                         *)
(* A key stands for the address it has.  The keychain holds a secret, a    *)
(* phrase or a key in hex; only the record in the wallets table says which.*)
(***************************************************************************)
EXTENDS Naturals, FiniteSets

CONSTANTS
  Call,        \* GenerateWallet, ImportMnemonic, ImportPrivateKey, ImportKeystore calls
  Request,     \* Request[c]: its kind, phrase or key, and derivation path
  Serial,      \* whether the UI waits for one import before the next
  MaxCrashes,  \* bound on crashes
  MaxReveals,  \* bound on RevealSecret calls
  None         \* no secret, no wallet, no answer

SecretType == {"mnemonic", "privatekey"}
Path == {"default", "custom"}
Kind == {"GenerateWallet", "ImportMnemonic", "ImportPrivateKey", "ImportKeystore"}

OfPhrase(c) == Request[c].kind \in {"GenerateWallet", "ImportMnemonic"}

ASSUME RequestAssumption ==
  /\ IsFiniteSet(Call)
  /\ \A c \in Call :
       /\ Request[c].kind \in Kind
       /\ Request[c].path \in Path
       /\ Request[c].kind # "ImportMnemonic" => Request[c].path = "default"
ASSUME BoundAssumption == MaxCrashes \in Nat /\ MaxReveals \in Nat /\ Serial \in BOOLEAN

\* The key a phrase derives at a path.
NewWalletFromMnemonic(phrase, path) == [seed |-> phrase, path |-> path]

\* The key in hex, as a keystore import stores it, and the way back.
PrivateKeyHex(key) == [hex |-> key]
NewWalletFromHex(secret) == secret.hex

ValidateMnemonic(secret) == "phrase" \in DOMAIN secret

\* Mutant: a restart derives at another path than a generated wallet has.
RestoredElsewhere(secret, type) ==
  IF (type = "mnemonic") # ValidateMnemonic(secret) THEN None
  ELSE IF type = "mnemonic" THEN NewWalletFromMnemonic(secret.phrase, "custom")
  ELSE NewWalletFromHex(secret)

\* What a stored secret is when read as one of a type: None if it does not parse.
Restored(secret, type) ==
  IF (type = "mnemonic") # ValidateMnemonic(secret) THEN None
  ELSE IF type = "mnemonic" THEN NewWalletFromMnemonic(secret.phrase, "default")
  ELSE NewWalletFromHex(secret)

\* The secret a call stores, its type and the wallet it loads.
SecretOf(c) == IF OfPhrase(c) THEN [phrase |-> Request[c].input]
               ELSE PrivateKeyHex(Request[c].input)
TypeOf(c) == IF OfPhrase(c) THEN "mnemonic" ELSE "privatekey"
WalletOf(c) == IF OfPhrase(c) THEN NewWalletFromMnemonic(Request[c].input, Request[c].path)
               ELSE Request[c].input

\* Where the wallet of a call is after a restart: the path is not stored.
AtDefaultPath(c) == Restored(SecretOf(c), TypeOf(c))

Secret == {SecretOf(c) : c \in Call}
Address == {WalletOf(c) : c \in Call} \cup {AtDefaultPath(c) : c \in Call}

ASSUME NoneAssumption == None \notin Call \cup Secret \cup Address

VARIABLES
  up,         \* the backend runs
  pc,         \* where each import is
  keychain,   \* the secret under keychainKey
  rows,       \* the wallets table
  stamp,      \* stamp[c]: created_at of the record of call c
  clock,      \* the next created_at
  wallet,     \* Usecase.wallet: the loaded signing wallet
  answer,     \* answer[c]: the address the call's response shows
  held,       \* the secret a RevealSecret call has read and not yet answered
  revealed,   \* history: the last answer of RevealSecret since an import began
  monitored,  \* the address the watcher's monitors run on
  seeding,    \* the addresses background seeds are running for
  owners,     \* whose data the wallet-scoped tables hold
  crashes,    \* history: number of crashes
  reveals,    \* history: number of RevealSecret calls
  settled,    \* history: the last import, None once another began
  late        \* history: who worked on the tables when they were last wiped

store == <<keychain, rows, stamp, clock>>
reveal == <<held, revealed, reveals>>
background == <<monitored, seeding, owners, late>>
vars == <<up, pc, store, wallet, answer, reveal, background, crashes, settled>>

Busy == {c \in Call : pc[c] \in {"reset", "stored", "saved", "loaded"}}

Goto(c, from, to) == pc[c] = from /\ pc' = [pc EXCEPT ![c] = to]

\* Get: the oldest record.
Record == CHOOSE r \in rows : \A q \in rows : r.at <= q.at

-----------------------------------------------------------------------------
(* Generating and importing. *)

\* Mutant: Reset empties the wallets table only.
ResetRecordOnly(c) ==
  /\ up
  /\ Serial => Busy = {}
  /\ Goto(c, "idle", "reset")
  /\ rows' = {}
  /\ late' = (seeding \cup {monitored, wallet}) \ {None}
  /\ settled' = None /\ revealed' = None
  /\ UNCHANGED <<up, keychain, stamp, clock, wallet, answer, held, reveals, monitored,
                 seeding, owners, crashes>>

\* One transaction empties every wallet-scoped table.
Reset(c) ==
  /\ up
  /\ Serial => Busy = {}
  /\ Goto(c, "idle", "reset")
  /\ rows' = {} /\ owners' = {}
  /\ late' = (seeding \cup {monitored, wallet}) \ {None}
  /\ settled' = None /\ revealed' = None
  /\ UNCHANGED <<up, keychain, stamp, clock, wallet, answer, held, reveals, monitored,
                 seeding, crashes>>

\* The keychain entry is replaced; then the record is built and dated.
StoreSecret(c) ==
  /\ Goto(c, "reset", "stored")
  /\ keychain' = SecretOf(c)
  /\ stamp' = [stamp EXCEPT ![c] = clock]
  /\ clock' = clock + 1
  /\ UNCHANGED <<up, rows, wallet, answer, reveal, background, crashes, settled>>

\* INSERT, or on a conflict of the address UPDATE of label and type.
Save(c) ==
  /\ Goto(c, "stored", "saved")
  /\ LET old == {r \in rows : r.address = WalletOf(c)}
         new(at) == [address |-> WalletOf(c), type |-> TypeOf(c), at |-> at]
     IN rows' = (rows \ old)
                \cup IF old = {} THEN {new(stamp[c])} ELSE {new(r.at) : r \in old}
  /\ UNCHANGED <<up, keychain, stamp, clock, wallet, answer, reveal, background, crashes,
                 settled>>

\* Mutant: a wallet that is loaded stays loaded.
LoadFirst(c) ==
  /\ Goto(c, "saved", "loaded")
  /\ wallet' = IF wallet = None THEN WalletOf(c) ELSE wallet
  /\ UNCHANGED <<up, store, answer, reveal, background, crashes, settled>>

\* The loaded wallet is switched.
Load(c) ==
  /\ Goto(c, "saved", "loaded")
  /\ wallet' = WalletOf(c)
  /\ UNCHANGED <<up, store, answer, reveal, background, crashes, settled>>

Settle(c) ==
  /\ Goto(c, "loaded", "done")
  /\ settled' = IF Busy = {c} THEN c ELSE None
  /\ UNCHANGED <<up, store, wallet, reveal, monitored, owners, late, crashes>>

\* A generated wallet's response shows the record read back; no seed is started.
GenerateReplies(c) ==
  /\ Request[c].kind = "GenerateWallet"
  /\ rows # {}
  /\ Settle(c)
  /\ answer' = [answer EXCEPT ![c] = Record.address]
  /\ UNCHANGED seeding

\* An import's response shows its own record; kickoffWalletSeed starts the seed
\* of the wallet that is loaded by then.
ImportReplies(c) ==
  /\ Request[c].kind # "GenerateWallet"
  /\ Settle(c)
  /\ answer' = [answer EXCEPT ![c] = WalletOf(c)]
  /\ seeding' = seeding \cup ({wallet} \ {None})

\* The input is refused, Reset rolls back, the keychain refuses or Save fails.
ImportFails(c) ==
  /\ pc[c] \in {"idle", "reset", "stored"}
  /\ up
  /\ pc' = [pc EXCEPT ![c] = "failed"]
  /\ UNCHANGED <<up, store, wallet, answer, reveal, background, crashes, settled>>

\* The wallet is replaced, the record cannot be read back: an error is returned.
GenerateFails(c) ==
  /\ Request[c].kind = "GenerateWallet"
  /\ Goto(c, "loaded", "failed")
  /\ UNCHANGED <<up, store, wallet, answer, reveal, background, crashes, settled>>

-----------------------------------------------------------------------------
(* Revealing and exporting. *)

\* RevealSecret reads the keychain first.
ReadSecret ==
  /\ up
  /\ held = None /\ keychain # None
  /\ reveals < MaxReveals
  /\ held' = keychain
  /\ reveals' = reveals + 1
  /\ revealed' = None
  /\ UNCHANGED <<up, pc, store, wallet, answer, background, crashes, settled>>

\* Mutant: the type is taken to be the one of a phrase.
RevealAsMnemonic ==
  /\ held # None
  /\ held' = None
  /\ revealed' = IF rows = {} THEN None ELSE [secret |-> held, type |-> "mnemonic"]
  /\ UNCHANGED <<up, pc, store, wallet, answer, reveals, background, crashes, settled>>

\* Then the record, for the type; without one the call fails.
RevealSecret ==
  /\ held # None
  /\ held' = None
  /\ revealed' = IF rows = {} THEN None ELSE [secret |-> held, type |-> Record.type]
  /\ UNCHANGED <<up, pc, store, wallet, answer, reveals, background, crashes, settled>>

\* ExportKeystore encrypts the loaded wallet's key: an import of the file
\* stores it as a key in hex, whatever the wallet was made of.
ExportKeystore == PrivateKeyHex(wallet)

-----------------------------------------------------------------------------
(* Restarts. *)

Crash ==
  /\ up
  /\ crashes < MaxCrashes
  /\ up' = FALSE
  /\ pc' = [c \in Call |-> IF c \in Busy THEN "failed" ELSE pc[c]]
  /\ wallet' = None /\ monitored' = None /\ seeding' = {}
  /\ held' = None
  /\ crashes' = crashes + 1
  /\ UNCHANGED <<store, answer, revealed, reveals, owners, late, settled>>

\* Without a record or a secret the backend starts with no wallet.
StartEmpty ==
  /\ ~up
  /\ rows = {} \/ keychain = None
  /\ up' = TRUE
  /\ UNCHANGED <<pc, store, wallet, answer, reveal, background, crashes, settled>>

(***************************************************************************)
(* LoadFromKeychain reads the record's type and derives from the stored    *)
(* secret, always at the default path.  A secret of another type does not  *)
(* parse: the backend does not start.                                      *)
(***************************************************************************)
LoadFromKeychain ==
  /\ ~up
  /\ rows # {} /\ keychain # None
  /\ Restored(keychain, Record.type) # None
  /\ up' = TRUE
  /\ wallet' = Restored(keychain, Record.type)
  /\ UNCHANGED <<pc, store, answer, reveal, background, crashes, settled>>

-----------------------------------------------------------------------------
(* What runs on the loaded wallet. *)

\* waitForWallet sees an address: the two monitors start on it.
StartMonitors ==
  /\ up
  /\ monitored = None /\ wallet # None
  /\ monitored' = wallet
  /\ UNCHANGED <<up, pc, store, wallet, answer, reveal, seeding, owners, late, crashes,
                 settled>>

\* Mutant: the monitors stop only when the wallet is gone.
StopMonitorsUnloaded ==
  /\ monitored # None /\ wallet = None
  /\ monitored' = None
  /\ UNCHANGED <<up, pc, store, wallet, answer, reveal, seeding, owners, late, crashes,
                 settled>>

\* waitForAddressChange sees another address: they are cancelled.
StopMonitors ==
  /\ monitored # None /\ wallet # monitored
  /\ monitored' = None
  /\ UNCHANGED <<up, pc, store, wallet, answer, reveal, seeding, owners, late, crashes,
                 settled>>

\* GetBalances with tokens starts a token seed of the loaded wallet.
GetBalances ==
  /\ wallet # None
  /\ seeding' = seeding \cup {wallet}
  /\ UNCHANGED <<up, pc, store, wallet, answer, reveal, monitored, owners, late, crashes,
                 settled>>

\* A monitor persists a notification, a seed a token or a transaction.
WriteTables ==
  /\ \E a \in (seeding \cup {monitored}) \ {None} : owners' = owners \cup {a}
  /\ UNCHANGED <<up, pc, store, wallet, answer, reveal, monitored, seeding, late, crashes,
                 settled>>

SeedEnds(a) ==
  /\ a \in seeding
  /\ seeding' = seeding \ {a}
  /\ UNCHANGED <<up, pc, store, wallet, answer, reveal, monitored, owners, late, crashes,
                 settled>>

-----------------------------------------------------------------------------

Init ==
  /\ up = TRUE
  /\ pc = [c \in Call |-> "idle"]
  /\ keychain = None /\ rows = {}
  /\ stamp = [c \in Call |-> 0] /\ clock = 0
  /\ wallet = None /\ monitored = None
  /\ answer = [c \in Call |-> None]
  /\ held = None /\ revealed = None
  /\ seeding = {} /\ owners = {} /\ late = {}
  /\ crashes = 0 /\ reveals = 0
  /\ settled = None

persistWallet(c) == Reset(c) \/ StoreSecret(c) \/ Save(c) \/ Load(c)

ImportCall(c) ==
  persistWallet(c) \/ GenerateReplies(c) \/ ImportReplies(c) \/ ImportFails(c)
  \/ GenerateFails(c)

runAddressMonitors == StartMonitors \/ StopMonitors

Next ==
  \/ \E c \in Call : ImportCall(c)
  \/ ReadSecret \/ RevealSecret
  \/ Crash \/ StartEmpty \/ LoadFromKeychain
  \/ runAddressMonitors \/ GetBalances \/ WriteTables \/ \E a \in Address : SeedEnds(a)

(***************************************************************************)
(* waitForWallet and waitForAddressChange poll every two seconds.          *)
(***************************************************************************)
Fairness == WF_vars(StartMonitors) /\ WF_vars(StopMonitors)

Spec == Init /\ [][Next]_vars /\ Fairness

-----------------------------------------------------------------------------
(* Properties. *)

\* Every variable has its type.
TypeOK ==
  /\ up \in BOOLEAN
  /\ pc \in [Call -> {"idle", "reset", "stored", "saved", "loaded", "done", "failed"}]
  /\ keychain \in Secret \cup {None} /\ held \in Secret \cup {None}
  /\ rows \subseteq [address : Address, type : SecretType, at : 0..clock]
  /\ stamp \in [Call -> 0..clock] /\ clock \in Nat
  /\ wallet \in Address \cup {None} /\ monitored \in Address \cup {None}
  /\ answer \in [Call -> Address \cup {None}]
  /\ revealed \in [secret : Secret, type : SecretType] \cup {None}
  /\ seeding \subseteq Address /\ owners \subseteq Address /\ late \subseteq Address
  /\ crashes \in 0..MaxCrashes /\ reveals \in 0..MaxReveals
  /\ settled \in Call \cup {None}

(***************************************************************************)
(* An import that returned is durable (persistWallet, LoadFromKeychain):   *)
(* until another one begins the backend signs with its wallet, whatever    *)
(* imports failed or died half way before and however often it restarts.   *)
(* A phrase imported at a custom path is back at the default path.  The    *)
(* address a response showed is that of the call's own secret, also when   *)
(* it is read back from the table, as GenerateWallet does.                 *)
(***************************************************************************)
RestartRestores ==
  /\ up /\ settled # None =>
       wallet = WalletOf(settled) \/ (crashes > 0 /\ wallet = AtDefaultPath(settled))
  /\ \A c \in Call : answer[c] \in {None, WalletOf(c)}

(***************************************************************************)
(* Whenever no import is running -- it returned, failed or died between    *)
(* any two of its writes -- and there is a record, whose address GetWallet *)
(* shows, the secret in the keychain is the one the record describes, so   *)
(* the backend can always start again, and the loaded wallet signs for     *)
(* that address.  It signs for another one in one case: the record is of a *)
(* phrase imported at a custom path, and a restart has derived the default *)
(* path.  (A wallet whose replacement failed after the wipe goes on        *)
(* signing with no record at all.)                                         *)
(***************************************************************************)
SecretFitsRecord ==
  Busy = {} /\ rows # {} =>
    \E c \in Call :
      /\ keychain = SecretOf(c)
      /\ Record.type = TypeOf(c) /\ Record.address = WalletOf(c)
      /\ up => \/ wallet = Record.address
               \/ /\ Request[c].path = "custom" /\ crashes > 0
                  /\ wallet = AtDefaultPath(c)

(***************************************************************************)
(* What RevealSecret shows (two reads, of the keychain and the table) and  *)
(* what ExportKeystore writes (the wallet in memory) are one wallet's, as  *)
(* long as no import ran since the reveal began: a backup taken either way *)
(* brings the wallet back.                                                 *)
(***************************************************************************)
BackupsAgree ==
  settled # None /\ up /\ revealed # None /\ revealed.secret = keychain =>
    \/ Restored(revealed.secret, revealed.type) = NewWalletFromHex(ExportKeystore)
    \/ /\ Request[settled].path = "custom"
       /\ Restored(revealed.secret, revealed.type) = AtDefaultPath(settled)

(***************************************************************************)
(* The monitors end up on the loaded wallet (runAddressMonitors): never on *)
(* the previous one for good, also when imports follow each other fast.    *)
(***************************************************************************)
MonitorsFollow == \A a \in Address : <>[](wallet = a) => <>[](monitored = a)

(***************************************************************************)
(* The wipe leaves nothing of the wallets before (Reset): what the tables  *)
(* hold of another wallet was written after it, by a seed or a monitor of  *)
(* the wallet it replaced that was still running.                          *)
(***************************************************************************)
InheritsOnlyLate ==
  settled # None => owners \subseteq late \cup {WalletOf(settled), AtDefaultPath(settled)}
=============================================================================
