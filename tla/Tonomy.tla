------------------------------- MODULE Tonomy -------------------------------
(***************************************************************************)
(* The contract tonomy: the registry of persons and apps, the permissions  *)
(* it asks the chain to set up for them, and the resources it grants and   *)
(* trades.  One action is one transaction with the inline actions it       *)
(* sends; a failed check, there or in the chain, disables it.              *)
(*                                                                         *)
(* A hash stands for what it is a hash of.  The keys and weights of an     *)
(* authority are left out: of a permission its name and its parent are     *)
(* kept, which updateactive leaves as they are.  Who may sign is the       *)
(* chain's business.                                                       *)
(***************************************************************************)
EXTENDS TokenTransfer, Tables

CONSTANTS
  Persons, Apps,   \* the names random_account_name finds for each type
  Hosts,           \* other accounts of the chain that may be made apps
  Usernames, Origins,
  OldApps,         \* the rows of the first apps table
  TonomyName,      \* governance_name, to whom RAM is paid
  DaoOwners,       \* those who pay for the RAM of apps
  Levels,          \* the values of permission_level_name
  initial_ram_bytes, initial_cpu_weight_allocation,
  initial_net_weight_allocation,
  RamInUse,        \* the bytes that an account occupies
  Precision,       \* the units in a token
  FeeUnit,         \* ram_fee is counted in parts of 1 / FeeUnit
  TwoTo64,         \* the number of values of a uint64_t
  Prices, Fees, RamTotals,  \* bound: what setresparams is called with
  Quantities,      \* bound: the amounts that callers name
  InitialBalance,  \* the TONO balances at the start
  Adopted,         \* bound: the accounts that adminsetapp names
  KeyHolders,      \* bound: the accounts whose permissions are changed
  MaxPermissions   \* bound: the permissions of an account

Names == Persons \cup Apps \cup Hosts

KeyPermissions == {"pin", "biometric", "local"}
Permissions == KeyPermissions \cup {"owner", "active"} \cup Names

(* The limits of an account that nobody has limited.                       *)
Unlimited == [ram |-> -1, net |-> -1, cpu |-> -1]

ASSUME TonomyAssumption ==
  /\ IsFiniteSet(Names)
  /\ Persons \cap Apps = {} /\ Hosts \cap (Persons \cup Apps) = {}
  /\ Names \cap (KeyPermissions \cup {"owner", "active", "none"}) = {}
  /\ {initial_ram_bytes, initial_cpu_weight_allocation,
      initial_net_weight_allocation, RamInUse} \subseteq Nat
  /\ TwoTo64 \in Nat \ {0}
  /\ initial_ram_bytes >= RamInUse
  /\ Precision \in Nat \ {0} /\ FeeUnit \in Nat \ {0}
  /\ Prices \cup Fees \cup RamTotals \subseteq Nat
  /\ Quantities \subseteq Nat
  /\ Adopted \subseteq Names /\ KeyHolders \subseteq Names
  /\ TonomyName \notin DaoOwners
  /\ InitialBalance \in [DaoOwners \cup {TonomyName} -> Nat]

VARIABLES
  people,    \* _people
  apps,      \* _apps: the names of its rows, which are only erased
  appsv2,    \* _appsv2
  acctypes,  \* account_type_table: the types
  config,    \* the singleton resource_config_table
  limits,    \* the resource limits of the accounts that exist
  perms,     \* for each of them the parents of its permissions
  links,     \* the permission that each of them links to loginwithapp
  balance    \* the TONO balances kept by eosio.token

vars == <<people, apps, appsv2, acctypes, config, limits, perms, links, balance>>
registry == <<people, apps, appsv2, acctypes>>
chain == <<limits, perms, links>>

BasicPermissions == [p \in {"owner", "active"} |->
                       IF p = "owner" THEN "none" ELSE "owner"]

NoConfig == [exists |-> FALSE, ram_price |-> 0, ram_fee |-> 0,
             total_ram_available |-> 0, total_ram_used |-> 0,
             total_cpu_weight_allocated |-> 0, total_net_weight_allocated |-> 0]

Init ==
  /\ people = EmptyTable /\ apps = OldApps
  /\ appsv2 = EmptyTable /\ acctypes = EmptyTable
  /\ config = NoConfig
  /\ limits = [h \in Hosts |-> Unlimited]
  /\ perms = [h \in Hosts |-> BasicPermissions]
  /\ links = [h \in Hosts |-> "none"]
  /\ balance = InitialBalance
----------------------------------------------------------------------------
(* What the chain does of its own: newaccount, updateauth and linkauth,    *)
(* and set_resource_limits, which takes -1 for unlimited, nothing below,   *)
(* and no limit below what the account occupies.                           *)
Exists(account) == account \in DOMAIN limits

NewAccount(account) ==
  /\ ~Exists(account)
  /\ limits' = WithRow(limits, account, Unlimited)
  /\ perms' = WithRow(perms, account, BasicPermissions)
  /\ links' = WithRow(links, account, "none")

UpdateAuth(account, permission, parent) ==
  /\ Exists(account)
  /\ parent \in DOMAIN perms[account] \ {permission}
  /\ permission \in DOMAIN perms[account] =>
       perms[account][permission] = parent
  /\ perms' = [perms EXCEPT ![account] = WithRow(@, permission, parent)]

LinkAuth(account, permission) ==
  /\ links[account] # permission
  /\ links' = [links EXCEPT ![account] = permission]

SetResourceLimits(account, limit) ==
  /\ limit.ram >= -1
  /\ limit.ram >= 0 => limit.ram >= RamInUse
  /\ limits' = [limits EXCEPT ![account] = limit]
----------------------------------------------------------------------------
UsernameFree(table, username_hash) ==
  \A a \in DOMAIN table : table[a].username_hash # username_hash

OriginFree(origin) == \A a \in DOMAIN appsv2 : appsv2[a].origin # origin

NewPerson(random_name, username_hash) ==
  /\ NewAccount(random_name)
  /\ UsernameFree(people, username_hash)
  /\ CanEmplace(people, random_name) /\ CanEmplace(acctypes, random_name)
  /\ people' = WithRow(people, random_name,
                       [status |-> "Creating", username_hash |-> username_hash])
  /\ acctypes' = WithRow(acctypes, random_name, "Person")
  /\ UNCHANGED <<apps, appsv2, config, balance>>

(* The totals of CPU and NET are set to the share of one account.          *)
NewApp(random_name, username_hash, origin) ==
  /\ NewAccount(random_name)
  /\ UsernameFree(appsv2, username_hash)
  /\ OriginFree(origin)
  /\ config.exists
  /\ CanEmplace(appsv2, random_name) /\ CanEmplace(acctypes, random_name)
  /\ config' = [config EXCEPT
       !.total_cpu_weight_allocated = initial_cpu_weight_allocation,
       !.total_net_weight_allocated = initial_net_weight_allocation]
  /\ appsv2' = WithRow(appsv2, random_name,
                       [username_hash |-> username_hash, origin |-> origin])
  /\ acctypes' = WithRow(acctypes, random_name, "App")
  /\ UNCHANGED <<people, apps, balance>>

(* Mutant: the second table is taken for the first.                        *)
EraseAllApps ==
  /\ appsv2' = EmptyTable
  /\ UNCHANGED <<people, apps, acctypes, config, chain, balance>>

EraseOldApps ==
  /\ apps' = {}
  /\ UNCHANGED <<people, appsv2, acctypes, config, chain, balance>>

(* Mutant: a row that exists is modified without the checks.               *)
MayTakeOwnRow(account, username_hash, origin) ==
  account \in DOMAIN appsv2
    \/ (OriginFree(origin) /\ UsernameFree(appsv2, username_hash))

MayTake(account, username_hash, origin) ==
  LET mine == account \in DOMAIN appsv2
  IN  /\ (mine /\ appsv2[account].origin = origin) \/ OriginFree(origin)
      /\ (mine /\ appsv2[account].username_hash = username_hash)
           \/ UsernameFree(appsv2, username_hash)

(* Mutant: the type is written whatever it was.                            *)
TypeAlwaysSet(account) == WithRow(acctypes, account, "App")

TypeIfNone(account) ==
  IF account \in DOMAIN acctypes THEN acctypes ELSE WithRow(acctypes, account, "App")

AdminSetApp(account, username_hash, origin) ==
  /\ MayTake(account, username_hash, origin)
  /\ acctypes' = TypeIfNone(account)
  /\ appsv2' = WithRow(appsv2, account,
                       [username_hash |-> username_hash, origin |-> origin])
  /\ UNCHANGED <<people, apps, config, chain, balance>>
----------------------------------------------------------------------------
(* The weight of CPU is given as that of NET, and the other way round.     *)
InitialLimits == [ram |-> initial_ram_bytes, net |-> initial_cpu_weight_allocation,
                  cpu |-> initial_net_weight_allocation]

(* Mutant: the resources are granted with every key.                       *)
IsPerson(account) == account \in DOMAIN people

IsCreating(account) == account \in DOMAIN people /\ people[account].status = "Creating"

(* Mutant: a level without permission of its own is the owner's child too. *)
AnyPermission(level) == level

PermissionOf(level) ==
  IF level = "Pin" THEN "pin"
  ELSE IF level = "Biometric" THEN "biometric"
  ELSE IF level = "Local" THEN "local" ELSE "none"

(* Mutant: the status waits for the link.                                  *)
ActivateIfLinked(account, link_auth) ==
  people' = IF link_auth THEN [people EXCEPT ![account].status = "Active"] ELSE people

Activate(account, link_auth) ==
  people' = [people EXCEPT ![account].status = "Active"]

GrantResources(account) ==
  /\ config.exists
  /\ SetResourceLimits(account, InitialLimits)
  /\ config' = [config EXCEPT
       !.total_ram_used = (@ + initial_ram_bytes) % TwoTo64,
       !.total_cpu_weight_allocated = (@ + initial_cpu_weight_allocation) % TwoTo64,
       !.total_net_weight_allocated = (@ + initial_net_weight_allocation) % TwoTo64]

UpdateKeyPerson(account, level, link_auth) ==
  /\ IF IsCreating(account)
       THEN Activate(account, link_auth) /\ GrantResources(account)
       ELSE UNCHANGED <<people, config, limits>>
  /\ PermissionOf(level) # "none"
  /\ UpdateAuth(account, PermissionOf(level), "owner")
  /\ IF link_auth THEN LinkAuth(account, PermissionOf(level)) ELSE UNCHANGED links
  /\ UNCHANGED <<apps, appsv2, acctypes, balance>>

UpdateActive(account) ==
  /\ UpdateAuth(account, "active", "owner")
  /\ UNCHANGED <<registry, config, limits, links, balance>>

LoginWithApp(account, app, parent) ==
  /\ app \in DOMAIN appsv2
  /\ UpdateAuth(account, app, parent)
  /\ UNCHANGED <<registry, config, limits, links, balance>>
----------------------------------------------------------------------------
SetResParams(ram_price, total_ram_available, ram_fee) ==
  /\ config' = [config EXCEPT
       !.exists = TRUE, !.ram_price = ram_price, !.ram_fee = ram_fee,
       !.total_ram_available = total_ram_available]
  /\ UNCHANGED <<registry, chain, balance>>

RamPurchase(quant) ==
  (quant * config.ram_price * FeeUnit) \div (Precision * (FeeUnit + config.ram_fee))

RamSold(quant) ==
  (quant * config.ram_price * (FeeUnit + config.ram_fee)) \div (Precision * FeeUnit)

(* The bits of a uint64_t as an int64_t.                                   *)
AsInt64(n) == LET bits == n % TwoTo64
              IN  IF 2 * bits < TwoTo64 THEN bits ELSE bits - TwoTo64

(* Both trades write the NET limit into the CPU limit.                     *)
WithRam(limit, ram) == [ram |-> AsInt64(ram), net |-> limit.net, cpu |-> limit.net]

IsApp(app) == Exists(app) /\ app \in DOMAIN acctypes /\ acctypes[app] = "App"

BuyRam(dao_owner, app, quant) ==
  LET bytes == RamPurchase(quant)
      used == (config.total_ram_used + bytes) % TwoTo64
  IN  /\ IsApp(app)
      /\ quant > 0
      /\ config.exists /\ config.ram_price # 0 /\ config.ram_fee # 0
      /\ config.total_ram_available >= used
      /\ config' = [config EXCEPT !.total_ram_used = used]
      /\ SetResourceLimits(app, WithRam(limits[app], limits[app].ram + bytes))
      /\ CanTransfer(balance, dao_owner, TonomyName, quant)
      /\ balance' = AfterTransfer(balance, dao_owner, TonomyName, quant)
      /\ UNCHANGED <<registry, perms, links>>

(* The checks against a negative total and a negative limit compare        *)
(* uint64_t values with 0 and always hold; the chain refuses the limit.    *)
(* The seller is paid as many units of TONO as bytes are sold.             *)
SellRam(dao_owner, app, quant) ==
  LET bytes == RamSold(quant)
  IN  /\ IsApp(app)
      /\ quant > 0
      /\ config.exists
      /\ config' = [config EXCEPT !.total_ram_used = (@ - bytes) % TwoTo64]
      /\ SetResourceLimits(app, WithRam(limits[app], limits[app].ram - bytes))
      /\ CanTransfer(balance, TonomyName, dao_owner, bytes)
      /\ balance' = AfterTransfer(balance, TonomyName, dao_owner, bytes)
      /\ UNCHANGED <<registry, perms, links>>
----------------------------------------------------------------------------
Register ==
  \/ \E n \in Persons, u \in Usernames : NewPerson(n, u)
  \/ \E n \in Apps, u \in Usernames, o \in Origins : NewApp(n, u, o)
  \/ EraseOldApps
  \/ \E n \in Adopted, u \in Usernames, o \in Origins : AdminSetApp(n, u, o)

ChangeKeys ==
  \E n \in KeyHolders :
    /\ \/ \E level \in Levels, link_auth \in BOOLEAN :
            UpdateKeyPerson(n, level, link_auth)
       \/ \E app \in Names, parent \in Permissions : LoginWithApp(n, app, parent)
    /\ Cardinality(DOMAIN perms'[n]) <= MaxPermissions

Trade ==
  \E owner \in DaoOwners, app \in Names, q \in Quantities :
    BuyRam(owner, app, q) \/ SellRam(owner, app, q)

Next ==
  \/ Register
  \/ ChangeKeys
  \/ \E n \in KeyHolders : UpdateActive(n)
  \/ \E price \in Prices, total \in RamTotals, fee \in Fees :
       SetResParams(price, total, fee)
  \/ Trade

Spec == Init /\ [][Next]_vars
----------------------------------------------------------------------------
(* Every table, limit and permission has its type, and the chain knows the *)
(* same accounts in its three tables.                                      *)
TypeOK ==
  /\ people \in [DOMAIN people -> [status : {"Creating", "Active"},
                                   username_hash : Usernames]]
  /\ DOMAIN people \subseteq Persons
  /\ apps \subseteq OldApps
  /\ appsv2 \in [DOMAIN appsv2 -> [username_hash : Usernames, origin : Origins]]
  /\ DOMAIN appsv2 \subseteq Names
  /\ acctypes \in [DOMAIN acctypes -> {"Person", "App"}]
  /\ DOMAIN acctypes \subseteq Names
  /\ config \in [exists : BOOLEAN, ram_price : Nat, ram_fee : Nat,
                 total_ram_available : Nat, total_ram_used : Nat,
                 total_cpu_weight_allocated : Nat, total_net_weight_allocated : Nat]
  /\ limits \in [DOMAIN limits -> [ram : Int, net : Int, cpu : Int]]
  /\ DOMAIN limits \subseteq Names
  /\ \A n \in DOMAIN limits : limits[n].ram >= -1
  /\ perms = [n \in DOMAIN limits |-> perms[n]]
  /\ \A n \in DOMAIN limits :
       /\ perms[n] \in [DOMAIN perms[n] -> Permissions \cup {"none"}]
       /\ {"owner", "active"} \subseteq DOMAIN perms[n]
       /\ DOMAIN perms[n] \subseteq Permissions
  /\ links \in [DOMAIN limits -> KeyPermissions \cup {"none"}]
  /\ balance \in [DaoOwners \cup {TonomyName} -> Nat]

(* No two persons have a username in common, and no two apps a username or *)
(* an origin, also after the administrator moved them from app to app      *)
(* (tonomy.cpp:271-301).                                                   *)
NamesUnique ==
  /\ \A p, q \in DOMAIN people :
       people[p].username_hash = people[q].username_hash => p = q
  /\ \A a, b \in DOMAIN appsv2 :
       \/ appsv2[a].username_hash = appsv2[b].username_hash
       \/ appsv2[a].origin = appsv2[b].origin
       => a = b

(* The tables agree: who is in people is a Person with an account, who is  *)
(* of type Person or App is in that table, and every app has a type, which *)
(* is Person only for persons who were made apps (tonomy.cpp:148-154, 206-219, 261-269).     *)
RegistryAgrees ==
  /\ \A n \in Names :
       n \in DOMAIN people <=> n \in DOMAIN acctypes /\ acctypes[n] = "Person"
  /\ DOMAIN people \subseteq DOMAIN limits
  /\ DOMAIN acctypes \subseteq DOMAIN people \cup DOMAIN appsv2
  /\ DOMAIN appsv2 \subseteq DOMAIN acctypes

(* A person is Active exactly when she has a key of her own, however the   *)
(* keys, links and failed attempts came (tonomy.cpp:313-360).              *)
StatusMatchesKeys ==
  \A p \in DOMAIN people :
    people[p].status = "Active" <=> DOMAIN perms[p] \cap KeyPermissions # {}

(* Every login permission is named after an app that is registered and     *)
(* stays so (tonomy.cpp:222-229, 379-393).                                 *)
LoginsNameApps ==
  \A n \in DOMAIN perms :
    DOMAIN perms[n] \ (KeyPermissions \cup {"owner", "active"}) \subseteq DOMAIN appsv2

(* What an account holds of the RAM that tonomy granted or sold: an        *)
(* account starts without limit, which counts as -1 bytes.                 *)
RamHeld(n) ==
  IF n \in DOMAIN people /\ people[n].status = "Active"
    THEN limits[n].ram ELSE limits[n].ram + 1

(* total_ram_used is the sum of what the accounts hold, both as uint64_t   *)
(* values, through grants, purchases and sales in any order and at prices  *)
(* that change between them (tonomy.cpp:320-327, 465-480, 510-526).  That  *)
(* nobody sells more than it holds is the chain's doing (TypeOK: no limit  *)
(* below -1); the contract's own check lets everything pass.               *)
RamAccounted ==
  config.total_ram_used
    = SumFunction([n \in DOMAIN limits |-> RamHeld(n)]) % TwoTo64
=============================================================================
