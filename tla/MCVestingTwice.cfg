\* A withdrawal after the terms got worse.
SPECIFICATION Spec
CONSTANTS
  VestingTmy = VestingTmy
  Sponsor = Sponsor
  Holder = Holder
  Other = Other
  Accounts <- MCAccounts
  Holders = {Holder}
  Senders = {Sponsor}
  Payers = {}
  Categories <- MCCategories
  Depreciated = {1}
  MAX_ALLOCATIONS = 2
  InitialBalance <- MCInitialBalance
  InitialSettings <- MCInitialSettings
  InitialAllocs <- MCInitialAllocs
  Quantities = {2, 4}
  SalesDates = {0}
  LaunchDates = {0}
  MaxTime = 5
  SponsorFunds = 4
  LegacyAmount = 0
PROPERTY PaymentsRemembered
CHECK_DEADLOCK FALSE
