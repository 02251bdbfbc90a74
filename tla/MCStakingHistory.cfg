\* Two stakers in the same name range, cron every second slot.
SPECIFICATION FairHSpec
CONSTANTS
  LowestPerson = 2
  HighestPerson = 3
  StakingTmy = StakingTmy
  InfraTmy = InfraTmy
  OtherAccounts <- MCOtherAccounts
  MaxAllocations = 1
  LockupPeriod = 2
  ReleasePeriod = 1
  CronPeriod = 2
  StakingCycle = 4
  Year = 4
  MinimumTransfer = 4
  MaxAmount = 100
  BuildTest = FALSE
  InitialBalance <- MCInitialBalance
  Quantities = {4}
  Payers = {}
  MaxTime = 8
  MaxMissed = 1
  FundedPersons = {2, 3}
  PersonFunds = 4
  SponsorFunds = 0
INVARIANTS PaidWithinCycle CronWithoutMisses
PROPERTIES UnstakingCompletes
CHECK_DEADLOCK FALSE
