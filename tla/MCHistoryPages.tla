--------------------------- MODULE MCHistoryPages ---------------------------
(***************************************************************************)
(* Model checking HistoryPages: a swap, a wrap (both legs one asset), a    *)
(* swap with a third leg in a later block and a row of another wallet.     *)
(***************************************************************************)
EXTENDS HistoryPages

Leg(u, h, t, f, to, a) == [uid |-> u, hash |-> h, time |-> t, from |-> f, to |-> to, asset |-> a]

MCLegs == {
  Leg(1, "h1", 1, "w", "p", "usd"), Leg(2, "h1", 1, "p", "w", "eth"),
  Leg(3, "h2", 1, "w", "p", "eth"), Leg(4, "h2", 1, "p", "w", "eth"),
  Leg(5, "h3", 2, "p", "w", "usd"), Leg(6, "h3", 2, "w", "p", "eth"),
  Leg(7, "h3", 2, "w", "w", "dai"),
  Leg(8, "h4", 2, "v", "p", "eth")}
=============================================================================
