SPECIFICATION GSpec
CONSTANTS
  p1 = p1
  a1 = a1
  host = host
  u1 = u1
  o1 = o1
  tonomy = tonomy
  dao = dao
  x = x
  y = y
  Persons = {p1}
  Apps = {a1}
  Hosts = {host}
  Usernames = {u1}
  Origins = {o1}
  OldApps = {}
  TonomyName = tonomy
  DaoOwners = {dao}
  Levels = {"Pin"}
  initial_ram_bytes = 2
  initial_cpu_weight_allocation = 1
  initial_net_weight_allocation = 1
  RamInUse = 1
  Precision = 2
  FeeUnit = 2
  TwoTo64 = 16
  Prices = {1, 2}
  Fees = {1}
  RamTotals = {5}
  Quantities = {3}
  InitialBalance <- MCInitialBalance
  Adopted = {p1, host}
  KeyHolders = {p1}
  MaxPermissions = 4
  SystemAccounts = {host}
  Governed = {p1, host}
  NativePermissions = {"pin"}
  HandLimits <- MCHandLimits
  Coded = {host}
  Abis = {x, y}
INVARIANTS
  GTypeOK
  RamReconciled
  AbiHashed
PROPERTY LimitsKept
CHECK_DEADLOCK FALSE
