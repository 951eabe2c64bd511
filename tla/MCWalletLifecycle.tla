------------------------- MODULE MCWalletLifecycle -------------------------
(***************************************************************************)
(* Model checking WalletLifecycle: a generated phrase, another imported at *)
(* a custom path, and the keystore of the first wallet.                    *)
(***************************************************************************)
EXTENDS WalletLifecycle, TLC

CONSTANTS c1, c2, c3, p1, p2

MCRequest ==
  c1 :> [kind |-> "GenerateWallet", input |-> p1, path |-> "default"]
  @@ c2 :> [kind |-> "ImportMnemonic", input |-> p2, path |-> "custom"]
  @@ c3 :> [kind |-> "ImportKeystore", input |-> NewWalletFromMnemonic(p1, "default"),
            path |-> "default"]
=============================================================================
