----------------------------- MODULE Portfolio ------------------------------
(***************************************************************************)
(* The token list as the UI polls it: ListWithBalances reads the watchlist *)
(* and asks the price feed for exactly the addresses it found, while the   *)
(* list changes and other handlers ask for the native price and for        *)
(* charts.  Of the watchlist only its abstract specification is needed,    *)
(* which TokenWatchlist implements.                                        *)
(***************************************************************************)
EXTENDS PriceFeed

CONSTANTS
  Listed,      \* token contracts that may be on the list
  MaxChanges   \* bound on changes of the list

ASSUME PortfolioAssumption == MaxChanges \in Nat

VARIABLES
  watched,   \* the contracts on the watchlist
  replaced,  \* how often the wallet has been replaced
  changes    \* history: changes of the list so far

List == INSTANCE WatchedSet WITH Contract <- Listed

portfolioVars == <<feedVars, watched, replaced, changes>>

PortfolioTypeOK ==
  /\ FeedTypeOK
  /\ watched \subseteq Listed /\ replaced \in Nat /\ changes \in 0..MaxChanges

PortfolioInit == FeedInit /\ List!Init /\ changes = 0

ListChanges ==
  /\ changes < MaxChanges /\ changes' = changes + 1
  /\ List!Next
  /\ UNCHANGED feedVars

\* ListWithBalances, up to its batch price call; an empty list asks nothing.
\* A balance that cannot be read is shown as zero and changes nothing here.
ListWithBalances(v) == watched # {} /\ Lookup(v, Key("token", watched))

\* GetPrice("ETH") of the balance, swap and simulation handlers.
GetPrice(v) == Lookup(v, Key("native", {}))

\* GetPricesForTokens of the history and simulation handlers: the tokens they
\* show, whether watched or not, in one batch.
GetPricesForTokens(v) == Lookup(v, Key("token", Listed))

GetSparkline(v) == \E k \in watched : Lookup(v, Key("spark", {k}))

FeedStep ==
  /\ \/ \E v \in Reader : \/ ListWithBalances(v) \/ GetPrice(v) \/ GetSparkline(v)
                          \/ GetPricesForTokens(v)
                          \/ Respond(v) \/ FetchOK(v) \/ FetchFails(v) \/ Done(v)
     \/ Tick
  /\ UNCHANGED <<watched, replaced, changes>>

PortfolioNext == ListChanges \/ FeedStep

PortfolioSpec == PortfolioInit /\ [][PortfolioNext]_portfolioVars
=============================================================================
