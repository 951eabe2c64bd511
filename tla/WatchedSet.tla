----------------------------- MODULE WatchedSet -----------------------------
(***************************************************************************)
(* What the watchlist is to the rest of the program: a set of contracts to *)
(* which one contract is added or from which one is removed at a time --   *)
(* until another wallet is imported, which empties it at once.             *)
(***************************************************************************)
EXTENDS Naturals

CONSTANT Contract

VARIABLES
  watched,   \* the contracts on the list
  replaced   \* how often the wallet has been replaced

Init == watched = {} /\ replaced = 0

Watch(k) == k \notin watched /\ watched' = watched \cup {k} /\ UNCHANGED replaced
Unwatch(k) == k \in watched /\ watched' = watched \ {k} /\ UNCHANGED replaced
Replace == watched' = {} /\ replaced' = replaced + 1

Next == (\E k \in Contract : Watch(k) \/ Unwatch(k)) \/ Replace

Spec == Init /\ [][Next]_<<watched, replaced>>
=============================================================================
