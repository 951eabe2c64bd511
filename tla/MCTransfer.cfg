CONSTANTS
  s1 = s1
  s2 = s2
  Sends = {s1, s2}
  Replacements = {r1}
  Previewed = {s1}
  Forms <- MCForms
  Opening <- MCOpening
  Base = {20, 41}
  Balance <- MCBalance
  Tip = 10
  Gas <- MCGas
  TxGas = 5
  Unset = Unset
  MaxMoves = 1
  NoNonce = NoNonce
SPECIFICATION TransferSpec
INVARIANTS DistinctNonces PreviewIsHonest  ReplacementOutbids
PROPERTIES StaleLeavesList
CHECK_DEADLOCK FALSE
