----------------------------- MODULE MCTransfer -----------------------------
(***************************************************************************)
(* Model checking Transfer: a previewed transfer of a token, one of ether  *)
(* with fees of the user's own and no preview, and a replacement.          *)
(***************************************************************************)
EXTENDS Transfer

CONSTANTS s1, s2

Filled(asset, entry, tip, cap) == [asset |-> asset, entry |-> entry, tip |-> tip, cap |-> cap]

MCForms ==
  {[s \in Sends |-> IF s = s1 THEN Filled("token", 25, Unset, Unset) ELSE Filled("eth", 1, 7, 45)]}
MCBalance == [a \in Asset |-> IF a = "eth" THEN {30} ELSE {1, 30}]
MCGas == [a \in Asset |-> IF a = "eth" THEN {5} ELSE {5, 8}]
MCOpening ==
  [base |-> 20, balance |-> [a \in Asset |-> 30], need |-> [a \in Asset |-> 5]]
=============================================================================
