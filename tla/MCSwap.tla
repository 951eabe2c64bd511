------------------------------- MODULE MCSwap -------------------------------
(***************************************************************************)
(* Ether and two tokens, one of them wrapped ether: a swap from ether, one *)
(* to it, one between tokens, and a pair that is refused.                  *)
(***************************************************************************)
EXTENDS Swap

CONSTANTS eth, weth, usdc

MCAsked == {<<eth, usdc>>, <<usdc, eth>>, <<usdc, weth>>, <<weth, eth>>}
=============================================================================
