---------------------------- MODULE MCTxWatcher ----------------------------
(***************************************************************************)
(* Model checking TxWatcher: a swap of ours and a spam token, whose        *)
(* incoming legs compete for a page of one transfer.                       *)
(***************************************************************************)
EXTENDS TxWatcher

ETH(d) == [dir |-> d, native |-> TRUE, verified |-> TRUE]
Token(d, verified) == [dir |-> d, native |-> FALSE, verified |-> verified]

MCLegs ==
  [h \in Hash |->
     CASE h = "swap" -> {ETH("out"), Token("in", TRUE)}
       [] h = "spam" -> {Token("in", FALSE)}]
=============================================================================
