----------------------------- MODULE UserTables -----------------------------
(***************************************************************************)
(* The two tables the user edits, contacts and watched_tokens, behind one  *)
(* gRPC server: the calls on both interleave, and the import of another    *)
(* wallet empties both in one transaction under them.                      *)
(***************************************************************************)
EXTENDS TokenWatchlist

CONSTANTS Address, Name, Expected, Presented, MaxRpcs, MaxRequests

ASSUME RequestsAssumption == MaxRpcs \in Nat /\ MaxRequests \in Nat

VARIABLES contacts, rpc, made, rpcs, why

Book == INSTANCE Contacts

allVars == <<vars, contacts, rpc, made, rpcs, why>>

TablesInit == Init /\ Book!ContactInit

\* A request under way on either table.
TokenStep == Next /\ UNCHANGED <<contacts, rpc, made, rpcs, why>>
ContactStep == Book!ContactNext /\ UNCHANGED vars

\* Storage.Reset; one that fails is rolled back.
WalletReset == Reset /\ Book!Reset

TablesNext == (TokenStep \/ ContactStep \/ WalletReset) /\ calls' + rpcs' + resets' <= MaxRequests

TablesSpec == TablesInit /\ [][TablesNext]_allVars

-----------------------------------------------------------------------------
StatusIsTrue == Book!StatusIsTrue

(***************************************************************************)
(* What the user set stays set, whatever calls hold stale rows of either   *)
(* table, also across the import of another wallet: pins and hides of      *)
(* tokens, and the stars of contacts.                                      *)
(***************************************************************************)
UserEditsHold == FlagsAreTheUsers /\ Book!StarsAreKept
=============================================================================
