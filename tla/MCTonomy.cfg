SPECIFICATION Spec
CONSTANTS
  p1 = p1
  p2 = p2
  a1 = a1
  host = host
  u1 = u1
  u2 = u2
  o1 = o1
  o2 = o2
  old = old
  tonomy = tonomy
  dao = dao
  Persons = {p1, p2}
  Apps = {a1}
  Hosts = {host}
  Usernames = {u1, u2}
  Origins = {o1, o2}
  OldApps = {old}
  TonomyName = tonomy
  DaoOwners = {dao}
  Levels = {"Password", "Pin"}
  initial_ram_bytes = 2
  initial_cpu_weight_allocation = 1
  initial_net_weight_allocation = 1
  RamInUse = 1
  Precision = 2
  FeeUnit = 2
  TwoTo64 = 16
  Prices = {1, 2}
  Fees = {1}
  RamTotals = {5}
  Quantities = {1, 3}
  InitialBalance <- MCInitialBalance
  Adopted = {host, a1, p2}
  KeyHolders = {p1, p2}
  MaxPermissions = 4
SYMMETRY Symmetry
INVARIANTS
  TypeOK
  NamesUnique
  RegistryAgrees
  StatusMatchesKeys
  LoginsNameApps
  RamAccounted
CHECK_DEADLOCK FALSE
