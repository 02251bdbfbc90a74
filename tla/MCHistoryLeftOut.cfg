\* A new staker ends cron for those after it.
SPECIFICATION HSpec
CONSTANTS
  LowestPerson = 1
  HighestPerson = 3
  StakingTmy = StakingTmy
  InfraTmy = InfraTmy
  OtherAccounts <- MCOtherAccounts
  MaxAllocations = 2
  LockupPeriod = 2
  ReleasePeriod = 1
  CronPeriod = 2
  StakingCycle = 4
  Year = 4
  MinimumTransfer = 4
  MaxAmount = 100
  BuildTest = FALSE
  InitialBalance <- MCInitialBalance
  Quantities = {4}
  Payers = {}
  MaxTime = 10
  MaxMissed = 0
  FundedPersons = {2, 3}
  PersonFunds = 4
  SponsorFunds = 0
INVARIANT LeftOutOnlyIfProcessed
CHECK_DEADLOCK FALSE
