\* One staker with tokens for two allocations and a sponsor who funds the pool or
\* other stakers, in a test build: keys are used again, yield accrues, ranges differ.
SPECIFICATION Spec
CONSTANTS
  LowestPerson = 1
  HighestPerson = 3
  StakingTmy = StakingTmy
  InfraTmy = InfraTmy
  OtherAccounts <- MCOtherAccounts
  MaxAllocations = 2
  LockupPeriod = 2
  ReleasePeriod = 1
  CronPeriod = 2
  StakingCycle = 4
  Year = 4
  MinimumTransfer = 4
  MaxAmount = 100
  BuildTest = TRUE
  InitialBalance <- MCInitialBalance
  Quantities = {4}
  Payers = {InfraTmy}
  MaxTime = 5
  MaxMissed = 1
  FundedPersons = {1}
  PersonFunds = 8
  SponsorFunds = 4
INVARIANTS TypeOK TotalsMatchRows Custody StakersListed GrowthOnRecord DueReleasePayable
PROPERTIES LockupHonoured ReleaseFrozen KeepsStakes
CHECK_DEADLOCK FALSE
