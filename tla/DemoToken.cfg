\* Either contract, two tokens, an issuer and a holder, the migration in any order among the rest.
SPECIFICATION DSpec
CONSTANTS
  Accounts = {issuer, holder}
  Symbols = {LEOS, TONO}
  OldSymbol = LEOS
  NewSymbol = TONO
  NoName = NoName
  MaxAmount = 3
  Quantities = {1, 2}
INVARIANTS HTypeOK SupplyIsCirculating WithinMaximum
PROPERTIES SystemTokenIsLedger InlineTransfers
CHECK_DEADLOCK FALSE
