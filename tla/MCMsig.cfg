\* Old and new proposals under one name, two approvers, changing authorities.
SPECIFICATION HSpec
CONSTANTS
  Proposer = Proposer
  Name = Name
  Alice = Alice
  Bob = Bob
  Soon = Soon
  Later = Later
  NoHash = NoHash
  Proposers = {Proposer}
  ProposalNames = {Name}
  Accounts = {Alice, Bob}
  Levels = {Alice, Bob}
  Actor <- MCActor
  Transactions = {Soon, Later}
  Expiration <- MCExpiration
  DelaySec <- MCDelaySec
  Policies <- MCPolicies
  SlotsPerSecond = 2
  OldProposals <- MCOldProposals
  OldApprovals <- MCOldApprovals
  MaxTime = 6
INVARIANTS TypeOK CountedStand StandingCount
PROPERTIES ExecutedWithConsent DelayServed
CHECK_DEADLOCK FALSE
