\* A release that is due and cannot be paid.
SPECIFICATION Spec
CONSTANTS
  LowestPerson = 1
  HighestPerson = 3
  StakingTmy = StakingTmy
  InfraTmy = InfraTmy
  OtherAccounts <- MCOtherAccounts
  MaxAllocations = 2
  LockupPeriod = 2
  ReleasePeriod = 1
  CronPeriod = 2
  StakingCycle = 4
  Year = 4
  MinimumTransfer = 4
  MaxAmount = 100
  BuildTest = FALSE
  InitialBalance <- MCInitialBalance
  Quantities = {4}
  Payers = {}
  MaxTime = 7
  MaxMissed = 1
  FundedPersons = {1, 2}
  PersonFunds = 4
  SponsorFunds = 4
INVARIANT ReleaseFinal
CHECK_DEADLOCK FALSE
