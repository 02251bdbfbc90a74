---------------------------- MODULE TonomyProofs ----------------------------
(***************************************************************************)
(* Proofs about the registry of tonomy: the types, the uniqueness of       *)
(* names, the agreement of the tables, status and keys, and login          *)
(* permissions.                                                            *)
(***************************************************************************)
EXTENDS Tonomy, TLAPS

(* What every other part needs, and no part but itself.                    *)
CoreInv == TypeOK /\ RegistryAgrees

IInv == /\ CoreInv /\ NamesUnique
        /\ StatusMatchesKeys /\ LoginsNameApps

(* Each of the other parts is kept by a step of its own account.           *)
PartsKept ==
  /\ NamesUnique => NamesUnique'
  /\ StatusMatchesKeys => StatusMatchesKeys'
  /\ LoginsNameApps => LoginsNameApps'

USE DEF registry, chain

LEMMA Rows ==
  ASSUME NEW table, NEW id, NEW row
  PROVE  /\ DOMAIN WithRow(table, id, row) = DOMAIN table \cup {id}
         /\ WithRow(table, id, row)
              = [k \in DOMAIN table \cup {id} |-> WithRow(table, id, row)[k]]
         /\ WithRow(table, id, row)[id] = row
         /\ \A k \in DOMAIN table : k # id => WithRow(table, id, row)[k] = table[k]
BY DEF WithRow

LEMMA Disjoint ==
  /\ Persons \subseteq Names /\ Apps \subseteq Names /\ Hosts \subseteq Names
  /\ Persons \cap (Apps \cup Hosts) = {}
  /\ Names \cap (KeyPermissions \cup {"owner", "active", "none"}) = {}
BY TonomyAssumption DEF TonomyAssumption, Names

LEMMA InitIInv == Init => IInv
<1> SUFFICES ASSUME Init PROVE IInv
  OBVIOUS
<1> USE DEF Init, EmptyTable
<1>1. TypeOK
  <2>1. config \in [exists : BOOLEAN, ram_price : Nat, ram_fee : Nat,
                 total_ram_available : Nat, total_ram_used : Nat,
                 total_cpu_weight_allocated : Nat, total_net_weight_allocated : Nat]
    BY DEF NoConfig
  <2>2. /\ limits \in [DOMAIN limits -> [ram : Int, net : Int, cpu : Int]]
        /\ DOMAIN limits = Hosts
        /\ \A n \in DOMAIN limits : limits[n].ram >= -1
    BY DEF Unlimited
  <2>3. /\ perms = [n \in DOMAIN limits |-> perms[n]]
        /\ \A n \in DOMAIN limits :
             /\ perms[n] \in [DOMAIN perms[n] -> Permissions \cup {"none"}]
             /\ DOMAIN perms[n] = {"owner", "active"}
    BY <2>2 DEF BasicPermissions, Permissions
  <2>4. links \in [DOMAIN limits -> KeyPermissions \cup {"none"}]
    BY <2>2
  <2>5. balance \in [DaoOwners \cup {TonomyName} -> Nat]
    BY TonomyAssumption DEF TonomyAssumption
  <2> QED BY <2>1, <2>2, <2>3, <2>4, <2>5, Disjoint DEF TypeOK, Permissions
<1>2. NamesUnique /\ RegistryAgrees /\ StatusMatchesKeys
  BY DEF NamesUnique, RegistryAgrees, StatusMatchesKeys
<1>3. LoginsNameApps
  BY DEF LoginsNameApps, BasicPermissions
<1> QED BY <1>1, <1>2, <1>3 DEF IInv, CoreInv

(* The tables of the chain with their types, which is what every action of *)
(* it keeps, and what NewAccount adds to them.                             *)
ChainTypes ==
  /\ limits \in [DOMAIN limits -> [ram : Int, net : Int, cpu : Int]]
  /\ DOMAIN limits \subseteq Names
  /\ \A n \in DOMAIN limits : limits[n].ram >= -1
  /\ perms = [n \in DOMAIN limits |-> perms[n]]
  /\ \A n \in DOMAIN limits :
       /\ perms[n] \in [DOMAIN perms[n] -> Permissions \cup {"none"}]
       /\ {"owner", "active"} \subseteq DOMAIN perms[n]
       /\ DOMAIN perms[n] \subseteq Permissions
  /\ links \in [DOMAIN limits -> KeyPermissions \cup {"none"}]

LEMMA NewAccountSteps ==
  ASSUME ChainTypes, NEW n \in Names, NewAccount(n)
  PROVE  /\ ChainTypes'
         /\ n \notin DOMAIN limits /\ DOMAIN limits' = DOMAIN limits \cup {n}
         /\ limits'[n] = Unlimited
         /\ \A m \in DOMAIN limits : limits'[m] = limits[m] /\ perms'[m] = perms[m]
         /\ DOMAIN perms = DOMAIN limits /\ DOMAIN perms' = DOMAIN limits'
         /\ DOMAIN perms'[n] = {"owner", "active"}
<1>1. n \notin DOMAIN limits
  BY DEF NewAccount, Exists
<1>2. DOMAIN perms = DOMAIN limits /\ DOMAIN links = DOMAIN limits
  BY DEF ChainTypes
<1>3. /\ limits' = [m \in DOMAIN limits \cup {n} |-> limits'[m]]
      /\ limits'[n] = Unlimited
      /\ \A m \in DOMAIN limits : limits'[m] = limits[m]
  BY <1>1 DEF NewAccount, WithRow
<1>4. /\ perms' = [m \in DOMAIN limits \cup {n} |-> perms'[m]]
      /\ perms'[n] = BasicPermissions
      /\ \A m \in DOMAIN limits : perms'[m] = perms[m]
  BY <1>1, <1>2 DEF NewAccount, WithRow
<1>5. /\ links' = [m \in DOMAIN limits \cup {n} |-> links'[m]]
      /\ links'[n] = "none"
      /\ \A m \in DOMAIN limits : links'[m] = links[m]
  BY <1>1, <1>2 DEF NewAccount, WithRow
<1>6. DOMAIN BasicPermissions = {"owner", "active"}
  BY DEF BasicPermissions
<1>7. BasicPermissions \in [DOMAIN BasicPermissions -> Permissions \cup {"none"}]
  BY DEF BasicPermissions, Permissions
<1>8. /\ limits' \in [DOMAIN limits' -> [ram : Int, net : Int, cpu : Int]]
      /\ DOMAIN limits' \subseteq Names
      /\ \A m \in DOMAIN limits' : limits'[m].ram >= -1
  BY <1>3 DEF ChainTypes, Unlimited
<1>9. \A m \in DOMAIN limits' :
       /\ perms'[m] \in [DOMAIN perms'[m] -> Permissions \cup {"none"}]
       /\ {"owner", "active"} \subseteq DOMAIN perms'[m]
       /\ DOMAIN perms'[m] \subseteq Permissions
  <2> TAKE m \in DOMAIN limits'
  <2>1. CASE m = n
    BY <2>1, <1>4, <1>6, <1>7 DEF Permissions
  <2>2. CASE m # n
    BY <2>2, <1>3, <1>4 DEF ChainTypes
  <2> QED BY <2>1, <2>2
<1>10. links' \in [DOMAIN limits' -> KeyPermissions \cup {"none"}]
  BY <1>3, <1>5 DEF ChainTypes
<1>11. ChainTypes'
  BY <1>3, <1>4, <1>8, <1>9, <1>10 DEF ChainTypes
<1> QED BY <1>1, <1>2, <1>3, <1>4, <1>6, <1>11

PermsGrow(n, p) ==
  /\ perms' = [m \in DOMAIN limits |-> perms'[m]]
  /\ \A m \in DOMAIN limits :
       /\ perms'[m] \in [DOMAIN perms'[m] -> Permissions \cup {"none"}]
       /\ DOMAIN perms'[m] = IF m = n THEN DOMAIN perms[m] \cup {p}
                                      ELSE DOMAIN perms[m]

LEMMA UpdateAuthSteps ==
  ASSUME ChainTypes, NEW n, NEW p \in Permissions, NEW parent,
         UpdateAuth(n, p, parent)
  PROVE  /\ n \in DOMAIN limits
         /\ PermsGrow(n, p)
<1>1. n \in DOMAIN limits /\ parent \in Permissions
  BY DEF UpdateAuth, Exists, ChainTypes
<1>2. perms' = [perms EXCEPT ![n] = WithRow(perms[n], p, parent)]
  BY DEF UpdateAuth
<1>3. /\ perms' = [m \in DOMAIN limits |-> perms'[m]]
      /\ \A m \in DOMAIN limits :
           perms'[m] = IF m = n THEN WithRow(perms[n], p, parent) ELSE perms[m]
  BY <1>1, <1>2 DEF ChainTypes
<1>4. /\ WithRow(perms[n], p, parent) \in [DOMAIN perms[n] \cup {p}
                                             -> Permissions \cup {"none"}]
      /\ DOMAIN WithRow(perms[n], p, parent) = DOMAIN perms[n] \cup {p}
  BY <1>1 DEF ChainTypes, WithRow
<1> QED BY <1>1, <1>3, <1>4 DEF ChainTypes, PermsGrow

(* The rest of TypeOK.                                                     *)
RegistryTypes ==
  /\ people \in [DOMAIN people -> [status : {"Creating", "Active"},
                                   username_hash : Usernames]]
  /\ DOMAIN people \subseteq Persons
  /\ apps \subseteq OldApps
  /\ appsv2 \in [DOMAIN appsv2 -> [username_hash : Usernames, origin : Origins]]
  /\ DOMAIN appsv2 \subseteq Names
  /\ acctypes \in [DOMAIN acctypes -> {"Person", "App"}]
  /\ DOMAIN acctypes \subseteq Names

ConfigType ==
  config \in [exists : BOOLEAN, ram_price : Nat, ram_fee : Nat,
              total_ram_available : Nat, total_ram_used : Nat,
              total_cpu_weight_allocated : Nat, total_net_weight_allocated : Nat]

BalanceType == balance \in [DaoOwners \cup {TonomyName} -> Nat]

LEMMA TypeParts ==
  TypeOK <=> RegistryTypes /\ ConfigType /\ ChainTypes /\ BalanceType
BY DEF TypeOK, RegistryTypes, ConfigType, ChainTypes, BalanceType

LEMMA TypePartsNext ==
  RegistryTypes' /\ ConfigType' /\ ChainTypes' /\ BalanceType' => TypeOK'
BY DEF TypeOK, RegistryTypes, ConfigType, ChainTypes, BalanceType

(* What the invariant says of a table is kept when nothing it reads        *)
(* changes.                                                                *)
LEMMA RegistryKept ==
  ASSUME UNCHANGED registry
  PROVE  /\ NamesUnique => NamesUnique'
         /\ RegistryTypes => RegistryTypes'
         /\ RegistryAgrees /\ DOMAIN limits \subseteq DOMAIN limits' => RegistryAgrees'
BY DEF NamesUnique, RegistryTypes, RegistryAgrees, UsernameFree

LEMMA NewPersonSteps ==
  ASSUME CoreInv, NEW n \in Persons, NEW u \in Usernames, NewPerson(n, u)
  PROVE  CoreInv' /\ PartsKept
<1>1. /\ RegistryTypes /\ ConfigType /\ ChainTypes /\ BalanceType
      /\ RegistryAgrees
  BY TypeParts DEF CoreInv
<1>2. /\ n \in Names /\ n \notin DOMAIN acctypes
      /\ NewAccount(n)
      /\ people' = WithRow(people, n, [status |-> "Creating", username_hash |-> u])
      /\ acctypes' = WithRow(acctypes, n, "Person")
      /\ \A p \in DOMAIN people : people[p].username_hash # u
      /\ apps' = apps /\ appsv2' = appsv2 /\ config' = config /\ balance' = balance
  BY Disjoint DEF NewPerson, UsernameFree, CanEmplace
<1>3. n \notin DOMAIN people
  BY <1>1, <1>2 DEF RegistryAgrees
<1>4. /\ ChainTypes'
      /\ n \notin DOMAIN limits /\ DOMAIN limits' = DOMAIN limits \cup {n}
      /\ limits'[n] = Unlimited
      /\ \A m \in DOMAIN limits : limits'[m] = limits[m] /\ perms'[m] = perms[m]
      /\ DOMAIN perms = DOMAIN limits /\ DOMAIN perms' = DOMAIN limits'
      /\ DOMAIN perms'[n] = {"owner", "active"}
  BY <1>1, <1>2, NewAccountSteps
<1>5. /\ people' = [p \in DOMAIN people \cup {n} |-> people'[p]]
      /\ people'[n] = [status |-> "Creating", username_hash |-> u]
      /\ \A p \in DOMAIN people : people'[p] = people[p]
  BY <1>2, <1>3 DEF WithRow
<1>6. /\ acctypes' = [p \in DOMAIN acctypes \cup {n} |-> acctypes'[p]]
      /\ acctypes'[n] = "Person"
      /\ \A p \in DOMAIN acctypes : acctypes'[p] = acctypes[p]
  BY <1>2 DEF WithRow
<1>7. TypeOK'
  <2>1. people' \in [DOMAIN people' -> [status : {"Creating", "Active"},
                                        username_hash : Usernames]]
    BY <1>1, <1>5 DEF RegistryTypes
  <2>2. acctypes' \in [DOMAIN acctypes' -> {"Person", "App"}]
    BY <1>1, <1>6 DEF RegistryTypes
  <2>3. RegistryTypes'
    BY <1>1, <1>2, <1>5, <1>6, <2>1, <2>2 DEF RegistryTypes
  <2> QED BY <1>1, <1>2, <1>4, <2>3, TypePartsNext DEF ConfigType, BalanceType
<1>8. ASSUME NamesUnique PROVE NamesUnique'
  BY <1>8, <1>1, <1>2, <1>5 DEF NamesUnique
<1>9. RegistryAgrees'
  BY <1>1, <1>2, <1>4, <1>5, <1>6 DEF RegistryAgrees
<1>10. ASSUME StatusMatchesKeys PROVE StatusMatchesKeys'
  <2> SUFFICES ASSUME NEW p \in DOMAIN people'
               PROVE people'[p].status = "Active"
                       <=> DOMAIN perms'[p] \cap KeyPermissions # {}
    BY DEF StatusMatchesKeys
  <2>1. CASE p = n
    BY <2>1, <1>4, <1>5 DEF KeyPermissions
  <2>2. CASE p # n
    <3>1. p \in DOMAIN people /\ p \in DOMAIN limits
      BY <2>2, <1>1, <1>5 DEF RegistryAgrees
    <3> QED BY <3>1, <1>10, <1>1, <1>4, <1>5 DEF StatusMatchesKeys
  <2> QED BY <2>1, <2>2
<1>11. ASSUME LoginsNameApps PROVE LoginsNameApps'
  BY <1>11, <1>1, <1>2, <1>4 DEF LoginsNameApps
<1> QED BY <1>7, <1>8, <1>9, <1>10, <1>11 DEF CoreInv, PartsKept

LEMMA NewAppSteps ==
  ASSUME CoreInv, NEW n \in Apps, NEW u \in Usernames, NEW o \in Origins,
         NewApp(n, u, o)
  PROVE  CoreInv' /\ PartsKept
<1>1. /\ RegistryTypes /\ ConfigType /\ ChainTypes /\ BalanceType
      /\ RegistryAgrees
  BY TypeParts DEF CoreInv
<1>2. /\ n \in Names /\ n \notin DOMAIN acctypes /\ n \notin DOMAIN appsv2
      /\ NewAccount(n)
      /\ appsv2' = WithRow(appsv2, n, [username_hash |-> u, origin |-> o])
      /\ acctypes' = WithRow(acctypes, n, "App")
      /\ \A a \in DOMAIN appsv2 : appsv2[a].username_hash # u /\ appsv2[a].origin # o
      /\ apps' = apps /\ people' = people /\ balance' = balance
  BY Disjoint DEF NewApp, UsernameFree, OriginFree, CanEmplace
<1>3. n \notin DOMAIN people
  BY <1>1, <1>2 DEF RegistryAgrees
<1>4. /\ ChainTypes'
      /\ n \notin DOMAIN limits /\ DOMAIN limits' = DOMAIN limits \cup {n}
      /\ limits'[n] = Unlimited
      /\ \A m \in DOMAIN limits : limits'[m] = limits[m] /\ perms'[m] = perms[m]
      /\ DOMAIN perms = DOMAIN limits /\ DOMAIN perms' = DOMAIN limits'
      /\ DOMAIN perms'[n] = {"owner", "active"}
  BY <1>1, <1>2, NewAccountSteps
<1>5. /\ appsv2' = [p \in DOMAIN appsv2 \cup {n} |-> appsv2'[p]]
      /\ appsv2'[n] = [username_hash |-> u, origin |-> o]
      /\ \A p \in DOMAIN appsv2 : appsv2'[p] = appsv2[p]
  BY <1>2 DEF WithRow
<1>6. /\ acctypes' = [p \in DOMAIN acctypes \cup {n} |-> acctypes'[p]]
      /\ acctypes'[n] = "App"
      /\ \A p \in DOMAIN acctypes : acctypes'[p] = acctypes[p]
  BY <1>2 DEF WithRow
<1>7. TypeOK'
  <2>1. appsv2' \in [DOMAIN appsv2' -> [username_hash : Usernames, origin : Origins]]
    BY <1>1, <1>5 DEF RegistryTypes
  <2>2. acctypes' \in [DOMAIN acctypes' -> {"Person", "App"}]
    BY <1>1, <1>6 DEF RegistryTypes
  <2>3. RegistryTypes'
    BY <1>1, <1>2, <1>5, <1>6, <2>1, <2>2 DEF RegistryTypes
  <2>4. ConfigType'
    BY <1>1, TonomyAssumption DEF ConfigType, NewApp, TonomyAssumption
  <2> QED BY <1>1, <1>2, <1>4, <2>3, <2>4, TypePartsNext DEF BalanceType
<1>8. ASSUME NamesUnique PROVE NamesUnique'
  BY <1>8, <1>1, <1>2, <1>5 DEF NamesUnique
<1>9. RegistryAgrees'
  BY <1>1, <1>2, <1>3, <1>4, <1>5, <1>6 DEF RegistryAgrees
<1>10. ASSUME StatusMatchesKeys PROVE StatusMatchesKeys'
  BY <1>10, <1>1, <1>2, <1>4 DEF StatusMatchesKeys, RegistryAgrees
<1>11. ASSUME LoginsNameApps PROVE LoginsNameApps'
  BY <1>11, <1>1, <1>4, <1>5 DEF LoginsNameApps
<1> QED BY <1>7, <1>8, <1>9, <1>10, <1>11 DEF CoreInv, PartsKept

LEMMA AdminSetAppSteps ==
  ASSUME CoreInv, NEW n \in Names, NEW u \in Usernames, NEW o \in Origins,
         AdminSetApp(n, u, o)
  PROVE  CoreInv' /\ PartsKept
<1>1. /\ RegistryTypes /\ ConfigType /\ ChainTypes /\ BalanceType
      /\ RegistryAgrees
  BY TypeParts DEF CoreInv
<1>2. /\ MayTake(n, u, o)
      /\ appsv2' = WithRow(appsv2, n, [username_hash |-> u, origin |-> o])
      /\ acctypes' = TypeIfNone(n)
      /\ UNCHANGED <<apps, people, balance, config, limits, perms, links>>
  BY DEF AdminSetApp
<1>3. /\ appsv2' = [p \in DOMAIN appsv2 \cup {n} |-> appsv2'[p]]
      /\ appsv2'[n] = [username_hash |-> u, origin |-> o]
      /\ \A p \in DOMAIN appsv2 : p # n => appsv2'[p] = appsv2[p]
  BY <1>2 DEF WithRow
<1>4. /\ acctypes' = [p \in DOMAIN acctypes \cup {n} |-> acctypes'[p]]
      /\ n \notin DOMAIN acctypes => acctypes'[n] = "App"
      /\ \A p \in DOMAIN acctypes : acctypes'[p] = acctypes[p]
  <2>1. CASE n \in DOMAIN acctypes
    <3>1. acctypes' = acctypes
      BY <2>1, <1>2 DEF TypeIfNone
    <3>2. acctypes = [p \in DOMAIN acctypes |-> acctypes[p]]
      BY <1>1 DEF RegistryTypes
    <3>3. DOMAIN acctypes \cup {n} = DOMAIN acctypes
      BY <2>1
    <3> QED BY <2>1, <3>1, <3>2, <3>3
  <2>2. CASE n \notin DOMAIN acctypes
    <3>1. acctypes' = WithRow(acctypes, n, "App")
      BY <2>2, <1>2 DEF TypeIfNone
    <3> QED BY <2>2, <3>1 DEF WithRow
  <2> QED BY <2>1, <2>2
<1>6. TypeOK'
  <2>1. appsv2' \in [DOMAIN appsv2' -> [username_hash : Usernames, origin : Origins]]
    BY <1>1, <1>3 DEF RegistryTypes
  <2>2. acctypes' \in [DOMAIN acctypes' -> {"Person", "App"}]
    BY <1>1, <1>4 DEF RegistryTypes
  <2>3. RegistryTypes'
    BY <1>1, <1>2, <1>3, <1>4, <2>1, <2>2 DEF RegistryTypes
  <2>4. ChainTypes' /\ ConfigType' /\ BalanceType'
    BY <1>1, <1>2 DEF ChainTypes, ConfigType, BalanceType
  <2> QED BY <2>3, <2>4, TypePartsNext
<1>7. ASSUME NamesUnique PROVE NamesUnique'
  <2>1. \A a \in DOMAIN appsv2 : a # n => /\ appsv2[a].username_hash # u
                                          /\ appsv2[a].origin # o
    BY <1>7, <1>2 DEF MayTake, UsernameFree, OriginFree, NamesUnique
  <2> QED BY <1>7, <1>1, <1>2, <1>3, <2>1 DEF NamesUnique
<1>8. RegistryAgrees'
  BY <1>1, <1>2, <1>3, <1>4 DEF RegistryAgrees
<1>9. StatusMatchesKeys => StatusMatchesKeys'
  BY <1>2 DEF StatusMatchesKeys
<1>10. ASSUME LoginsNameApps PROVE LoginsNameApps'
  BY <1>10, <1>1, <1>2, <1>3 DEF LoginsNameApps
<1> QED BY <1>6, <1>7, <1>8, <1>9, <1>10 DEF CoreInv, PartsKept

LEMMA EraseOldAppsSteps ==
  ASSUME CoreInv, EraseOldApps PROVE CoreInv' /\ PartsKept
<1>1. /\ apps' = {}
      /\ UNCHANGED <<people, appsv2, acctypes, config, limits, perms, links, balance>>
  BY DEF EraseOldApps
<1>2. TypeOK' /\ RegistryAgrees'
  BY <1>1 DEF CoreInv, TypeOK, RegistryAgrees
<1>3. PartsKept
  BY <1>1 DEF PartsKept, NamesUnique, StatusMatchesKeys, LoginsNameApps
<1> QED BY <1>2, <1>3 DEF CoreInv

LEMMA SetLimitsSteps ==
  ASSUME ChainTypes, NEW n \in DOMAIN limits,
         NEW limit \in [ram : Int, net : Int, cpu : Int],
         SetResourceLimits(n, limit)
  PROVE  /\ limits' \in [DOMAIN limits -> [ram : Int, net : Int, cpu : Int]]
         /\ DOMAIN limits' = DOMAIN limits
         /\ \A m \in DOMAIN limits' : limits'[m].ram >= -1
         /\ \A m \in DOMAIN limits : limits'[m] = IF m = n THEN limit ELSE limits[m]
<1>1. limits' = [limits EXCEPT ![n] = limit] /\ limit.ram >= -1
  BY DEF SetResourceLimits
<1>2. \A m \in DOMAIN limits : limits'[m] = IF m = n THEN limit ELSE limits[m]
  BY <1>1 DEF ChainTypes
<1> QED BY <1>1, <1>2 DEF ChainTypes

(* Permissions that only grow keep the types of the chain, and what        *)
(* LoginsNameApps asks of them.                                            *)
LEMMA ChainKept ==
  ASSUME ChainTypes, NEW n, NEW p \in Permissions,
         limits' \in [DOMAIN limits -> [ram : Int, net : Int, cpu : Int]],
         \A m \in DOMAIN limits : limits'[m].ram >= -1,
         PermsGrow(n, p),
         links' \in [DOMAIN limits -> KeyPermissions \cup {"none"}]
  PROVE  ChainTypes'
<1>1. DOMAIN limits' = DOMAIN limits
  OBVIOUS
<1>2. \A m \in DOMAIN limits : /\ {"owner", "active"} \subseteq DOMAIN perms'[m]
                               /\ DOMAIN perms'[m] \subseteq Permissions
  <2> TAKE m \in DOMAIN limits
  <2>1. /\ {"owner", "active"} \subseteq DOMAIN perms[m]
        /\ DOMAIN perms[m] \subseteq Permissions
    BY DEF ChainTypes
  <2>2. DOMAIN perms'[m] = DOMAIN perms[m] \cup {p} \/ DOMAIN perms'[m] = DOMAIN perms[m]
    BY DEF PermsGrow
  <2> QED BY <2>1, <2>2
<1>3. DOMAIN limits \subseteq Names
  BY DEF ChainTypes
<1> QED BY <1>1, <1>2, <1>3 DEF ChainTypes, PermsGrow

LEMMA LoginsKept ==
  ASSUME ChainTypes, LoginsNameApps, appsv2' = appsv2,
         NEW n, NEW p \in KeyPermissions \cup DOMAIN appsv2,
         PermsGrow(n, p)
  PROVE  LoginsNameApps'
<1>1. DOMAIN perms = DOMAIN limits /\ DOMAIN perms' = DOMAIN limits
  BY DEF ChainTypes, PermsGrow
<1>2. \A m \in DOMAIN limits :
        DOMAIN perms'[m] \ (KeyPermissions \cup {"owner", "active"})
          \subseteq DOMAIN appsv2
  <2> TAKE m \in DOMAIN limits
  <2>1. DOMAIN perms[m] \ (KeyPermissions \cup {"owner", "active"})
          \subseteq DOMAIN appsv2
    BY <1>1 DEF LoginsNameApps
  <2>2. DOMAIN perms'[m] = DOMAIN perms[m] \cup {p} \/ DOMAIN perms'[m] = DOMAIN perms[m]
    BY DEF PermsGrow
  <2> QED BY <2>1, <2>2
<1> QED BY <1>1, <1>2 DEF LoginsNameApps

LEMMA UpdateKeyPersonSteps ==
  ASSUME CoreInv, NEW n \in Names, NEW level, NEW link \in BOOLEAN,
         UpdateKeyPerson(n, level, link)
  PROVE  CoreInv' /\ PartsKept
<1>1. /\ RegistryTypes /\ ConfigType /\ ChainTypes /\ BalanceType
      /\ RegistryAgrees
  BY TypeParts DEF CoreInv
<1> DEFINE p == PermissionOf(level)
<1>2. p \in KeyPermissions
  BY DEF UpdateKeyPerson, PermissionOf, KeyPermissions
<1>3. /\ UpdateAuth(n, p, "owner")
      /\ IF link THEN LinkAuth(n, p) ELSE links' = links
      /\ UNCHANGED <<apps, appsv2, acctypes, balance>>
      /\ IF IsCreating(n) THEN Activate(n, link) /\ GrantResources(n)
                          ELSE UNCHANGED <<people, config, limits>>
  BY DEF UpdateKeyPerson
<1> HIDE DEF p
<1>4. p \in Permissions
  BY <1>2 DEF Permissions
<1>5. n \in DOMAIN limits /\ PermsGrow(n, p)
  BY <1>1, <1>3, <1>4, UpdateAuthSteps
<1>6. links' \in [DOMAIN limits -> KeyPermissions \cup {"none"}]
  BY <1>1, <1>2, <1>3 DEF LinkAuth, ChainTypes
<1>7. /\ DOMAIN people' = DOMAIN people
      /\ people' \in [DOMAIN people -> [status : {"Creating", "Active"},
                                        username_hash : Usernames]]
      /\ \A q \in DOMAIN people :
           /\ people'[q].username_hash = people[q].username_hash
           /\ people'[q].status = IF q = n THEN "Active" ELSE people[q].status
  <2>1. CASE IsCreating(n)
    <3>1. people' = [people EXCEPT ![n].status = "Active"] /\ n \in DOMAIN people
      BY <2>1, <1>3 DEF Activate, IsCreating
    <3> QED BY <3>1, <1>1 DEF RegistryTypes
  <2>2. CASE ~IsCreating(n)
    <3>1. people' = people
      BY <2>2, <1>3
    <3>2. n \in DOMAIN people => people[n].status = "Active"
      BY <2>2, <1>1 DEF IsCreating, RegistryTypes
    <3> QED BY <3>1, <3>2, <1>1 DEF RegistryTypes
  <2> QED BY <2>1, <2>2
<1>8. /\ limits' \in [DOMAIN limits -> [ram : Int, net : Int, cpu : Int]]
      /\ DOMAIN limits' = DOMAIN limits
      /\ \A m \in DOMAIN limits' : limits'[m].ram >= -1
      /\ \A m \in DOMAIN limits : m # n \/ n \notin DOMAIN people
                                    => limits'[m] = limits[m]
      /\ ConfigType'
  <2>1. CASE IsCreating(n)
    <3>1. SetResourceLimits(n, InitialLimits)
      BY <2>1, <1>3 DEF GrantResources
    <3>2. InitialLimits \in [ram : Int, net : Int, cpu : Int]
      BY TonomyAssumption DEF TonomyAssumption, InitialLimits
    <3>3. /\ limits' \in [DOMAIN limits -> [ram : Int, net : Int, cpu : Int]]
          /\ DOMAIN limits' = DOMAIN limits
          /\ \A m \in DOMAIN limits' : limits'[m].ram >= -1
          /\ \A m \in DOMAIN limits :
               limits'[m] = IF m = n THEN InitialLimits ELSE limits[m]
      BY <1>1, <1>5, <3>1, <3>2, SetLimitsSteps
    <3>4. ConfigType'
      <4>1. config' = [config EXCEPT
               !.total_ram_used = (@ + initial_ram_bytes) % TwoTo64,
               !.total_cpu_weight_allocated
                 = (@ + initial_cpu_weight_allocation) % TwoTo64,
               !.total_net_weight_allocated
                 = (@ + initial_net_weight_allocation) % TwoTo64]
        BY <2>1, <1>3 DEF GrantResources
      <4>2. \A x, y \in Nat : (x + y) % TwoTo64 \in Nat
        BY TonomyAssumption DEF TonomyAssumption
      <4>3. /\ initial_ram_bytes \in Nat /\ initial_cpu_weight_allocation \in Nat
            /\ initial_net_weight_allocation \in Nat
        BY TonomyAssumption DEF TonomyAssumption
      <4> QED BY <1>1, <4>1, <4>2, <4>3 DEF ConfigType
    <3> QED BY <2>1, <3>3, <3>4 DEF IsCreating
  <2>2. CASE ~IsCreating(n)
    <3>1. limits' = limits /\ config' = config
      BY <2>2, <1>3
    <3> QED BY <3>1, <1>1 DEF ChainTypes, ConfigType
  <2> QED BY <2>1, <2>2
<1>9. TypeOK'
  <2>1. ChainTypes'
    BY <1>1, <1>4, <1>5, <1>6, <1>8, ChainKept
  <2>2. RegistryTypes'
    BY <1>1, <1>3, <1>7 DEF RegistryTypes
  <2> QED BY <2>1, <2>2, <1>1, <1>3, <1>8, TypePartsNext DEF BalanceType
<1>10. RegistryAgrees' /\ (NamesUnique => NamesUnique')
  BY <1>1, <1>3, <1>7, <1>8 DEF NamesUnique, RegistryAgrees
<1>11. ASSUME StatusMatchesKeys PROVE StatusMatchesKeys'
  <2> SUFFICES ASSUME NEW q \in DOMAIN people
               PROVE people'[q].status = "Active"
                       <=> DOMAIN perms'[q] \cap KeyPermissions # {}
    BY <1>7 DEF StatusMatchesKeys
  <2>1. q \in DOMAIN limits
    BY <1>1 DEF RegistryAgrees
  <2>2. CASE q = n
    BY <2>1, <2>2, <1>2, <1>5, <1>7 DEF PermsGrow
  <2>3. CASE q # n
    BY <2>1, <2>3, <1>11, <1>5, <1>7 DEF StatusMatchesKeys, PermsGrow
  <2> QED BY <2>2, <2>3
<1>12. ASSUME LoginsNameApps PROVE LoginsNameApps'
  BY <1>12, <1>1, <1>3, <1>5, <1>2, LoginsKept
<1> QED BY <1>9, <1>10, <1>11, <1>12 DEF CoreInv, PartsKept

LEMMA LoginWithAppSteps ==
  ASSUME CoreInv, NEW n \in Names, NEW app \in Names, NEW parent,
         LoginWithApp(n, app, parent)
  PROVE  CoreInv' /\ PartsKept
<1>1. /\ RegistryTypes /\ ConfigType /\ ChainTypes /\ BalanceType
      /\ RegistryAgrees
  BY TypeParts DEF CoreInv
<1>2. /\ app \in DOMAIN appsv2
      /\ UpdateAuth(n, app, parent)
      /\ UNCHANGED <<people, apps, appsv2, acctypes, config, limits, links, balance>>
  BY DEF LoginWithApp
<1>3. app \in Permissions /\ app \notin KeyPermissions
  BY Disjoint DEF Permissions
<1>4. n \in DOMAIN limits /\ PermsGrow(n, app)
  BY <1>1, <1>2, <1>3, UpdateAuthSteps
<1>5. TypeOK'
  <2>1. /\ limits' \in [DOMAIN limits -> [ram : Int, net : Int, cpu : Int]]
        /\ \A m \in DOMAIN limits : limits'[m].ram >= -1
        /\ links' \in [DOMAIN limits -> KeyPermissions \cup {"none"}]
    BY <1>1, <1>2 DEF ChainTypes
  <2>2. ChainTypes'
    BY <1>1, <1>3, <1>4, <2>1, ChainKept
  <2>3. RegistryTypes' /\ ConfigType' /\ BalanceType'
    BY <1>1, <1>2 DEF RegistryTypes, ConfigType, BalanceType
  <2> QED BY <2>2, <2>3, TypePartsNext
<1>6. RegistryAgrees' /\ (NamesUnique => NamesUnique')
  BY <1>1, <1>2 DEF NamesUnique, RegistryAgrees
<1>7. ASSUME StatusMatchesKeys PROVE StatusMatchesKeys'
  <2> SUFFICES ASSUME NEW q \in DOMAIN people
               PROVE people[q].status = "Active"
                       <=> DOMAIN perms'[q] \cap KeyPermissions # {}
    BY <1>2 DEF StatusMatchesKeys
  <2>1. q \in DOMAIN limits
    BY <1>1 DEF RegistryAgrees
  <2>2. DOMAIN perms'[q] = DOMAIN perms[q] \cup {app} \/ DOMAIN perms'[q] = DOMAIN perms[q]
    BY <1>4, <2>1 DEF PermsGrow
  <2>3. DOMAIN perms'[q] \cap KeyPermissions = DOMAIN perms[q] \cap KeyPermissions
    BY <2>2, <1>3
  <2> QED BY <2>3, <1>7 DEF StatusMatchesKeys
<1>8. ASSUME LoginsNameApps PROVE LoginsNameApps'
  BY <1>8, <1>1, <1>2, <1>4, LoginsKept
<1> QED BY <1>5, <1>6, <1>7, <1>8 DEF CoreInv, PartsKept

LEMMA SetResParamsSteps ==
  ASSUME CoreInv, NEW price \in Prices, NEW total \in RamTotals, NEW fee \in Fees,
         SetResParams(price, total, fee)
  PROVE  CoreInv' /\ PartsKept
<1>1. /\ config' = [config EXCEPT
           !.exists = TRUE, !.ram_price = price, !.ram_fee = fee,
           !.total_ram_available = total]
      /\ UNCHANGED <<people, apps, appsv2, acctypes, limits, perms, links, balance>>
  BY DEF SetResParams
<1>2. price \in Nat /\ total \in Nat /\ fee \in Nat
  BY TonomyAssumption DEF TonomyAssumption
<1>3. ConfigType'
  BY <1>1, <1>2, TypeParts DEF CoreInv, ConfigType
<1>4. RegistryTypes' /\ ChainTypes' /\ BalanceType'
  BY <1>1, TypeParts DEF CoreInv, RegistryTypes, ChainTypes, BalanceType
<1>5. RegistryAgrees'
  BY <1>1 DEF CoreInv, RegistryAgrees
<1>6. PartsKept
  BY <1>1 DEF PartsKept, NamesUnique, StatusMatchesKeys, LoginsNameApps
<1> QED BY <1>3, <1>4, <1>5, <1>6, TypePartsNext DEF CoreInv

(* What both trades do to an app: a new RAM limit, and the CPU limit set   *)
(* to that of NET.                                                         *)
TradeOf(app, ram, used) ==
  /\ IsApp(app)
  /\ config' = [config EXCEPT !.total_ram_used = used]
  /\ SetResourceLimits(app, WithRam(limits[app], ram))
  /\ UNCHANGED <<people, apps, appsv2, acctypes, perms, links>>

LEMMA TradeSteps ==
  ASSUME CoreInv, NEW app \in Names, NEW ram \in Int, NEW used \in Nat,
         TradeOf(app, ram, used), BalanceType'
  PROVE  CoreInv' /\ PartsKept
<1>1. /\ RegistryTypes /\ ConfigType /\ ChainTypes /\ BalanceType
      /\ RegistryAgrees
  BY TypeParts DEF CoreInv
<1>2. /\ app \in DOMAIN limits /\ app \in DOMAIN acctypes /\ acctypes[app] = "App"
      /\ config' = [config EXCEPT !.total_ram_used = used]
      /\ SetResourceLimits(app, WithRam(limits[app], ram))
      /\ UNCHANGED <<people, apps, appsv2, acctypes, perms, links>>
  BY DEF TradeOf, IsApp, Exists
<1> DEFINE limit == WithRam(limits[app], ram)
<1>3. AsInt64(ram) \in Int
  <2>1. ram % TwoTo64 \in Int
    BY TonomyAssumption DEF TonomyAssumption
  <2> QED BY <2>1, TonomyAssumption DEF TonomyAssumption, AsInt64
<1>4. app \notin DOMAIN people
  BY <1>1, <1>2 DEF RegistryAgrees
<1>5. limits[app].net \in Int
  BY <1>1, <1>2 DEF ChainTypes
<1>6. /\ limit \in [ram : Int, net : Int, cpu : Int]
      /\ limit.net = limits[app].net /\ limit.cpu = limits[app].net
  BY <1>3, <1>5 DEF WithRam
<1> HIDE DEF limit
<1>7. SetResourceLimits(app, limit)
  BY <1>2 DEF limit
<1>8. /\ limits' \in [DOMAIN limits -> [ram : Int, net : Int, cpu : Int]]
      /\ DOMAIN limits' = DOMAIN limits
      /\ \A m \in DOMAIN limits' : limits'[m].ram >= -1
      /\ \A m \in DOMAIN limits : limits'[m] = IF m = app THEN limit ELSE limits[m]
  BY <1>1, <1>2, <1>6, <1>7, SetLimitsSteps
<1>9. TypeOK'
  <2>1. ChainTypes'
    BY <1>1, <1>2, <1>8 DEF ChainTypes
  <2>2. RegistryTypes'
    BY <1>1, <1>2 DEF RegistryTypes
  <2>3. ConfigType'
    BY <1>1, <1>2 DEF ConfigType
  <2> QED BY <2>1, <2>2, <2>3, TypePartsNext
<1>10. RegistryAgrees'
  BY <1>1, <1>2, <1>8 DEF RegistryAgrees
<1>11. PartsKept
  BY <1>2, <1>8 DEF PartsKept, NamesUnique, StatusMatchesKeys, LoginsNameApps
<1> QED BY <1>9, <1>10, <1>11 DEF CoreInv

LEMMA AfterTransferType ==
  ASSUME BalanceType, NEW from, NEW to, NEW q \in Int,
         CanTransfer(balance, from, to, q),
         balance' = AfterTransfer(balance, from, to, q)
  PROVE  BalanceType'
<1>1. /\ from \in DOMAIN balance /\ to \in DOMAIN balance /\ from # to
      /\ q > 0 /\ q <= balance[from]
  BY DEF CanTransfer
<1>2. balance[from] \in Nat /\ balance[to] \in Nat
  BY <1>1 DEF BalanceType
<1>3. balance[from] - q \in Nat /\ balance[to] + q \in Nat
  BY <1>1, <1>2
<1>4. balance' = [a \in DOMAIN balance |->
                    IF a = from THEN balance[from] - q
                    ELSE IF a = to THEN balance[to] + q ELSE balance[a]]
  BY <1>1 DEF AfterTransfer, BalanceType
<1> HIDE DEF BalanceType
<1> QED BY <1>3, <1>4 DEF BalanceType

(* A quotient by what is positive is an integer.                           *)
LEMMA Quotient ==
  ASSUME NEW n \in Int, NEW d \in Int, d > 0 PROVE n \div d \in Int
OBVIOUS

LEMMA Product ==
  ASSUME NEW m \in Nat, NEW n \in Nat
  PROVE  m * n \in Nat /\ (m > 0 /\ n > 0 => m * n > 0)
OBVIOUS

LEMMA BytesInt ==
  ASSUME ConfigType, NEW q \in Nat
  PROVE  RamPurchase(q) \in Int /\ RamSold(q) \in Int
<1>1. /\ Precision \in Nat /\ Precision > 0 /\ FeeUnit \in Nat /\ FeeUnit > 0
  BY TonomyAssumption DEF TonomyAssumption
<1>2. config.ram_price \in Nat /\ config.ram_fee \in Nat
  BY DEF ConfigType
<1>3. FeeUnit + config.ram_fee \in Nat /\ FeeUnit + config.ram_fee > 0
  BY <1>1, <1>2
<1>4. q * config.ram_price \in Nat
  BY <1>2, Product
<1>5. /\ (q * config.ram_price) * FeeUnit \in Nat
      /\ (q * config.ram_price) * (FeeUnit + config.ram_fee) \in Nat
  BY <1>1, <1>3, <1>4, Product
<1>6. /\ Precision * FeeUnit \in Nat /\ Precision * FeeUnit > 0
      /\ Precision * (FeeUnit + config.ram_fee) \in Nat
      /\ Precision * (FeeUnit + config.ram_fee) > 0
  BY <1>1, <1>3, Product
<1>7. RamPurchase(q) \in Int
  BY <1>5, <1>6, Quotient DEF RamPurchase
<1>8. RamSold(q) \in Int
  BY <1>5, <1>6, Quotient DEF RamSold
<1> QED BY <1>7, <1>8

LEMMA BuyRamSteps ==
  ASSUME CoreInv, NEW owner \in DaoOwners, NEW app \in Names, NEW q \in Quantities,
         BuyRam(owner, app, q)
  PROVE  CoreInv' /\ PartsKept
<1> DEFINE bytes == RamPurchase(q)
           used == (config.total_ram_used + bytes) % TwoTo64
           ram == limits[app].ram + bytes
<1>1. ConfigType /\ BalanceType /\ ChainTypes
  BY TypeParts DEF CoreInv
<1>2. q \in Nat
  BY TonomyAssumption DEF TonomyAssumption
<1>3. bytes \in Int
  BY <1>1, <1>2, BytesInt
<1>4. /\ IsApp(app)
      /\ config' = [config EXCEPT !.total_ram_used = used]
      /\ SetResourceLimits(app, WithRam(limits[app], ram))
      /\ CanTransfer(balance, owner, TonomyName, q)
      /\ balance' = AfterTransfer(balance, owner, TonomyName, q)
      /\ UNCHANGED <<people, apps, appsv2, acctypes, perms, links>>
  BY DEF BuyRam
<1> HIDE DEF bytes
<1>5. used \in Nat
  <2>1. config.total_ram_used + bytes \in Int
    BY <1>1, <1>3 DEF ConfigType
  <2> QED BY <2>1, TonomyAssumption DEF TonomyAssumption
<1>6. ram \in Int
  BY <1>1, <1>3, <1>4 DEF ChainTypes, IsApp, Exists
<1> HIDE DEF used, ram
<1>7. TradeOf(app, ram, used)
  BY <1>4 DEF TradeOf
<1>8. BalanceType'
  BY <1>1, <1>2, <1>4, AfterTransferType
<1> QED BY <1>5, <1>6, <1>7, <1>8, TradeSteps

LEMMA SellRamSteps ==
  ASSUME CoreInv, NEW owner \in DaoOwners, NEW app \in Names, NEW q \in Quantities,
         SellRam(owner, app, q)
  PROVE  CoreInv' /\ PartsKept
<1> DEFINE bytes == RamSold(q)
           used == (config.total_ram_used - bytes) % TwoTo64
           ram == limits[app].ram - bytes
<1>1. ConfigType /\ BalanceType /\ ChainTypes
  BY TypeParts DEF CoreInv
<1>2. q \in Nat
  BY TonomyAssumption DEF TonomyAssumption
<1>3. bytes \in Int
  BY <1>1, <1>2, BytesInt
<1>4. /\ IsApp(app)
      /\ config' = [config EXCEPT !.total_ram_used = used]
      /\ SetResourceLimits(app, WithRam(limits[app], ram))
      /\ CanTransfer(balance, TonomyName, owner, bytes)
      /\ balance' = AfterTransfer(balance, TonomyName, owner, bytes)
      /\ UNCHANGED <<people, apps, appsv2, acctypes, perms, links>>
  BY DEF SellRam
<1> HIDE DEF bytes
<1>5. used \in Nat
  <2>1. config.total_ram_used - bytes \in Int
    BY <1>1, <1>3 DEF ConfigType
  <2> QED BY <2>1, TonomyAssumption DEF TonomyAssumption
<1>6. ram \in Int
  BY <1>1, <1>3, <1>4 DEF ChainTypes, IsApp, Exists
<1> HIDE DEF used, ram
<1>7. TradeOf(app, ram, used)
  BY <1>4 DEF TradeOf
<1>8. BalanceType'
  BY <1>1, <1>3, <1>4, AfterTransferType
<1> QED BY <1>5, <1>6, <1>7, <1>8, TradeSteps

(* The active permission stays where it is.                                *)
LEMMA UpdateActiveStutters ==
  ASSUME ChainTypes, NEW n \in KeyHolders, UpdateActive(n)
  PROVE  UNCHANGED vars
<1>1. /\ n \in DOMAIN limits /\ perms' = [perms EXCEPT ![n] = WithRow(@, "active", "owner")]
      /\ "active" \in DOMAIN perms[n] => perms[n]["active"] = "owner"
  BY DEF UpdateActive, UpdateAuth, Exists
<1>2. /\ perms = [m \in DOMAIN limits |-> perms[m]] /\ "active" \in DOMAIN perms[n]
      /\ perms[n] = [p \in DOMAIN perms[n] |-> perms[n][p]]
  BY <1>1 DEF ChainTypes
<1>3. WithRow(perms[n], "active", "owner") = perms[n]
  BY <1>1, <1>2 DEF WithRow
<1>4. perms' = perms
  BY <1>1, <1>2, <1>3
<1> QED BY <1>4 DEF UpdateActive, registry, vars

LEMMA NextIInv == IInv /\ [Next]_vars => IInv'
<1> SUFFICES ASSUME IInv, [Next]_vars PROVE CoreInv' /\ PartsKept
  BY DEF IInv, PartsKept
<1>0. CoreInv
  BY DEF IInv
<1>1. CASE Register
  <2>1. CASE \E n \in Persons, u \in Usernames : NewPerson(n, u)
    BY <1>0, <2>1, NewPersonSteps
  <2>2. CASE \E n \in Apps, u \in Usernames, o \in Origins : NewApp(n, u, o)
    BY <1>0, <2>2, NewAppSteps
  <2>3. CASE EraseOldApps
    BY <1>0, <2>3, EraseOldAppsSteps
  <2>4. CASE \E n \in Adopted, u \in Usernames, o \in Origins : AdminSetApp(n, u, o)
    <3>1. Adopted \subseteq Names
      BY TonomyAssumption DEF TonomyAssumption
    <3> QED BY <1>0, <2>4, <3>1, AdminSetAppSteps
  <2> QED BY <1>1, <2>1, <2>2, <2>3, <2>4 DEF Register
<1>2. CASE ChangeKeys
  <2>1. PICK n \in KeyHolders :
          \/ \E level \in Levels, link \in BOOLEAN : UpdateKeyPerson(n, level, link)
          \/ \E app \in Names, parent \in Permissions : LoginWithApp(n, app, parent)
    BY <1>2 DEF ChangeKeys
  <2>2. n \in Names
    BY TonomyAssumption DEF TonomyAssumption
  <2> QED BY <1>0, <2>1, <2>2, UpdateKeyPersonSteps, LoginWithAppSteps
<1>3. CASE \E price \in Prices, total \in RamTotals, fee \in Fees :
             SetResParams(price, total, fee)
  BY <1>0, <1>3, SetResParamsSteps
<1>4. CASE Trade
  BY <1>0, <1>4, BuyRamSteps, SellRamSteps DEF Trade
<1>5. CASE (\E n \in KeyHolders : UpdateActive(n)) \/ UNCHANGED vars
  <2>0. UNCHANGED vars
    BY <1>0, <1>5, TypeParts, UpdateActiveStutters DEF CoreInv
  <2>1. /\ UNCHANGED <<people, apps, appsv2, acctypes, config>>
        /\ UNCHANGED <<limits, perms, links, balance>>
    BY <2>0 DEF vars
  <2>2. CoreInv'
    BY <1>0, <2>1 DEF CoreInv, TypeOK, RegistryAgrees
  <2> QED BY <2>1, <2>2 DEF PartsKept, NamesUnique, StatusMatchesKeys,
                            LoginsNameApps
<1> QED BY <1>1, <1>2, <1>3, <1>4, <1>5 DEF Next

LEMMA Invariant == Spec => []IInv
<1>1. Init => IInv
  BY InitIInv
<1>2. IInv /\ [Next]_vars => IInv'
  BY NextIInv
<1> QED BY <1>1, <1>2, PTL DEF Spec

(* The tables, limits and permissions keep their types, and no limit falls *)
(* below -1, whatever is bought and sold.                                  *)
THEOREM TonomyTypeCorrect == Spec => []TypeOK
<1>1. IInv => TypeOK
  BY DEF IInv, CoreInv
<1> QED BY <1>1, Invariant, PTL

(* Usernames and origins are unique, however newapp and adminsetapp        *)
(* alternate.                                                              *)
THEOREM NamesAlwaysUnique == Spec => []NamesUnique
<1>1. IInv => NamesUnique
  BY DEF IInv
<1> QED BY <1>1, Invariant, PTL

(* The people, apps and account types tables agree.                        *)
THEOREM RegistryAlwaysAgrees == Spec => []RegistryAgrees
<1>1. IInv => RegistryAgrees
  BY DEF IInv, CoreInv
<1> QED BY <1>1, Invariant, PTL

(* A person is active exactly when she has a key permission.               *)
THEOREM StatusAlwaysMatches == Spec => []StatusMatchesKeys
<1>1. IInv => StatusMatchesKeys
  BY DEF IInv
<1> QED BY <1>1, Invariant, PTL

(* Login permissions belong to registered apps.                            *)
THEOREM LoginsAlwaysNameApps == Spec => []LoginsNameApps
<1>1. IInv => LoginsNameApps
  BY DEF IInv
<1> QED BY <1>1, Invariant, PTL
=============================================================================
