\* A careful administrator, two holders, allocations old and new, a sponsor who also pays others.
SPECIFICATION CarefulSpec
CONSTANTS
  VestingTmy = VestingTmy
  Sponsor = Sponsor
  Holder = Holder
  Other = Other
  Accounts <- MCAccounts
  Holders = {Holder, Other}
  Senders = {Sponsor}
  Payers = {Sponsor}
  Categories <- MCCategories
  Depreciated = {1}
  MAX_ALLOCATIONS = 2
  InitialBalance <- MCInitialBalance
  InitialSettings <- MCInitialSettings
  InitialAllocs <- MCInitialAllocs
  Quantities = {2, 4}
  SalesDates = {0}
  LaunchDates = {0, 1}
  MaxTime = 4
  SponsorFunds = 4
  LegacyAmount = 2
INVARIANTS TypeOK Custody WithdrawPayable
PROPERTIES ScheduleHonoured KeepsAllocations PaymentsRemembered
CHECK_DEADLOCK FALSE
