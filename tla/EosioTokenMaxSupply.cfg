\* Issuing again after migratestats.
SPECIFICATION Spec
CONSTANTS
  Accounts = {issuer, holder}
  Symbols = {LEOS, TONO}
  OldSymbol = LEOS
  NewSymbol = TONO
  NoName = NoName
  MaxAmount = 3
  Quantities = {1, 2}
INVARIANT SystemMaximumHonoured
CHECK_DEADLOCK FALSE
