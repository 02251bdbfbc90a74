------------------------------ MODULE RamProofs ------------------------------
(***************************************************************************)
(* Proofs about the RAM on record and about governance: total_ram_used is  *)
(* what the accounts hold, in Tonomy and next to the native actions, which *)
(* keep permissions whole and alone change the limits of active persons.   *)
(***************************************************************************)
EXTENDS Governance, TonomyProofs, SumTheorems

(* The remainders of a uint64_t.                                           *)
LEMMA Modulus == TwoTo64 \in Nat /\ TwoTo64 > 0
BY TonomyAssumption DEF TonomyAssumption

LEMMA Multiples ==
  ASSUME NEW k \in Int, NEW r \in Int, NEW s \in Int,
         0 <= r, r < TwoTo64, 0 <= s, s < TwoTo64, r = s + TwoTo64 * k
  PROVE  r = s
<1>1. ASSUME k >= 1 PROVE TwoTo64 * k >= TwoTo64
  BY <1>1, Modulus
<1>2. ASSUME k <= -1 PROVE TwoTo64 * k <= -TwoTo64
  BY <1>2, Modulus
<1>3. k = 0
  BY <1>1, <1>2, Modulus
<1> QED BY <1>3, Modulus

LEMMA Remainder ==
  ASSUME NEW x \in Int
  PROVE  /\ x % TwoTo64 \in Int /\ 0 <= x % TwoTo64 /\ x % TwoTo64 < TwoTo64
         /\ \E k \in Int : x % TwoTo64 = x + TwoTo64 * k
<1>1. /\ x \div TwoTo64 \in Int
      /\ x % TwoTo64 \in Int /\ 0 <= x % TwoTo64 /\ x % TwoTo64 < TwoTo64
  BY Modulus
<1>2. x = TwoTo64 * (x \div TwoTo64) + (x % TwoTo64)
  BY Modulus
<1>3. x % TwoTo64 = x + TwoTo64 * (-(x \div TwoTo64))
  BY <1>1, <1>2, Modulus
<1> QED BY <1>1, <1>3

LEMMA RemainderUnique ==
  ASSUME NEW x \in Int, NEW r \in Int, NEW k \in Int,
         0 <= r, r < TwoTo64, x = r + TwoTo64 * k
  PROVE  r = x % TwoTo64
<1>1. PICK l \in Int : x % TwoTo64 = x + TwoTo64 * l
  BY Remainder
<1>2. x % TwoTo64 = r + TwoTo64 * (k + l)
  BY <1>1, Modulus
<1> HIDE DEF TonomyAssumption
<1>3. x % TwoTo64 \in Int /\ 0 <= x % TwoTo64 /\ x % TwoTo64 < TwoTo64 /\ k + l \in Int
  BY Remainder
<1> QED BY <1>2, <1>3, Multiples

LEMMA AsInt64Congruent ==
  ASSUME NEW x \in Int
  PROVE  /\ AsInt64(x) \in Int
         /\ \E k \in Int : AsInt64(x) = x + TwoTo64 * k
<1>1. PICK k \in Int : x % TwoTo64 = x + TwoTo64 * k
  BY Remainder
<1>2. x % TwoTo64 \in Int
  BY Remainder
<1>3. AsInt64(x) = x % TwoTo64 \/ AsInt64(x) = (x % TwoTo64) - TwoTo64
  BY DEF AsInt64
<1>4. (x % TwoTo64) - TwoTo64 = x + TwoTo64 * (k - 1) /\ k - 1 \in Int
  BY <1>1, <1>2, Modulus
<1>5. CASE AsInt64(x) = x % TwoTo64
  BY <1>1, <1>2, <1>5
<1>6. CASE AsInt64(x) = (x % TwoTo64) - TwoTo64
  <2>1. AsInt64(x) \in Int
    BY <1>2, <1>6, Modulus
  <2> QED BY <2>1, <1>4, <1>6
<1> QED BY <1>3, <1>5, <1>6
----------------------------------------------------------------------------
Held == [n \in DOMAIN limits |-> RamHeld(n)]

(* total_ram_used, reconciled with what the accounts hold but for off.     *)
RamRecord(off) == config.total_ram_used = (SumFunction(Held) - off) % TwoTo64

(* A step after which that is so for off + d, when it was so for off.      *)
RamMoves(d) ==
  /\ 0 <= config'.total_ram_used /\ config'.total_ram_used < TwoTo64
  /\ \E k \in Int :
       SumFunction(Held)' - d - config'.total_ram_used
         = SumFunction(Held) - config.total_ram_used + TwoTo64 * k

HeldSound ==
  /\ IsFiniteSet(DOMAIN limits) /\ DOMAIN Held = DOMAIN limits
  /\ \A n \in DOMAIN limits : Held[n] = RamHeld(n) /\ Held[n] \in Int
  /\ SumFunction(Held) \in Int

LEMMA HeldSum == ChainTypes => HeldSound
<1> SUFFICES ASSUME ChainTypes PROVE HeldSound
  OBVIOUS
<1>1. IsFiniteSet(DOMAIN limits)
  BY TonomyAssumption, FS_Subset DEF TonomyAssumption, ChainTypes
<1>2. DOMAIN Held = DOMAIN limits /\ \A n \in DOMAIN limits : Held[n] = RamHeld(n)
  BY DEF Held
<1>3. \A n \in DOMAIN limits : RamHeld(n) \in Int
  BY DEF RamHeld, ChainTypes
<1>4. SumFunction(Held) \in Int
  BY <1>1, <1>2, <1>3, SumFunctionInt
<1> QED BY <1>1, <1>2, <1>3, <1>4 DEF HeldSound

LEMMA HeldSumNext == ChainTypes' => HeldSound'
BY HeldSum, PTL

LEMMA RecordRange ==
  ASSUME ChainTypes, NEW off \in Int, RamRecord(off)
  PROVE  /\ config.total_ram_used \in Int
         /\ 0 <= config.total_ram_used /\ config.total_ram_used < TwoTo64
         /\ \E k \in Int :
              config.total_ram_used = SumFunction(Held) - off + TwoTo64 * k
<1>1. SumFunction(Held) - off \in Int
  BY HeldSum DEF HeldSound
<1> QED BY <1>1, Remainder DEF RamRecord

LEMMA RecordMoves ==
  ASSUME ChainTypes, ChainTypes', ConfigType', NEW off \in Int, NEW d \in Int,
         RamRecord(off), RamMoves(d)
  PROVE  config'.total_ram_used = (SumFunction(Held)' - (off + d)) % TwoTo64
<1> DEFINE sum == SumFunction(Held)
           new == SumFunction(Held)'
           was == config.total_ram_used
           is  == config'.total_ram_used
<1>1. sum \in Int
  BY HeldSum DEF HeldSound
<1>2. new \in Int
  BY HeldSumNext DEF HeldSound
<1>3. is \in Int
  BY DEF ConfigType
<1>4. PICK k \in Int : was = sum - off + TwoTo64 * k
  BY RecordRange
<1>5. PICK l \in Int : new - d - is = sum - was + TwoTo64 * l
  BY DEF RamMoves
<1>6. 0 <= is /\ is < TwoTo64
  BY DEF RamMoves
<1>7. was \in Int
  BY RecordRange
<1> HIDE DEF sum, new, was, is
<1>8. new - (off + d) = is + TwoTo64 * (l - k)
  BY <1>1, <1>2, <1>3, <1>4, <1>5, <1>7, Modulus
<1>9. l - k \in Int /\ new - (off + d) \in Int
  BY <1>2
<1>10. is = (new - (off + d)) % TwoTo64
  BY <1>3, <1>6, <1>8, <1>9, RemainderUnique
<1> QED BY <1>10 DEF new, is

(* The three ways in which what the accounts hold changes.                  *)
LEMMA HeldStays ==
  ASSUME ChainTypes, ChainTypes', DOMAIN limits' = DOMAIN limits,
         \A n \in DOMAIN limits : RamHeld(n)' = RamHeld(n)
  PROVE  SumFunction(Held)' = SumFunction(Held)
<1>1. HeldSound /\ HeldSound'
  BY HeldSum, HeldSumNext
<1> DEFINE old == Held
           new == Held'
<1>2. /\ IsFiniteSet(DOMAIN old) /\ DOMAIN new = DOMAIN old
      /\ \A n \in DOMAIN old : old[n] = new[n]
  BY <1>1 DEF HeldSound
<1> HIDE DEF old, new
<1>3. SumFunction(old) = SumFunction(new)
  BY <1>2, SumFunctionSame
<1> QED BY <1>3 DEF old, new

LEMMA HeldAdds ==
  ASSUME ChainTypes, ChainTypes', NEW e, e \notin DOMAIN limits,
         DOMAIN limits' = DOMAIN limits \cup {e}, RamHeld(e)' = 0,
         \A n \in DOMAIN limits : RamHeld(n)' = RamHeld(n)
  PROVE  SumFunction(Held)' = SumFunction(Held)
<1>1. HeldSound /\ HeldSound'
  BY HeldSum, HeldSumNext
<1> DEFINE old == Held
           new == Held'
<1>2. /\ IsFiniteSet(DOMAIN old) /\ DOMAIN new = DOMAIN old \cup {e}
      /\ e \notin DOMAIN old /\ new[e] = 0 /\ SumFunction(old) \in Int
      /\ \A n \in DOMAIN old : old[n] \in Int /\ new[n] = old[n]
  BY <1>1 DEF HeldSound
<1> HIDE DEF old, new
<1>3. SumFunction(new) = SumFunction(old) + new[e]
  BY <1>2, SumFunctionAdd
<1> QED BY <1>2, <1>3 DEF old, new

LEMMA HeldChanges ==
  ASSUME ChainTypes, ChainTypes', NEW e \in DOMAIN limits,
         DOMAIN limits' = DOMAIN limits,
         \A n \in DOMAIN limits : n # e => RamHeld(n)' = RamHeld(n)
  PROVE  /\ SumFunction(Held)' = SumFunction(Held) + RamHeld(e)' - RamHeld(e)
         /\ RamHeld(e) \in Int /\ RamHeld(e)' \in Int
<1>1. HeldSound /\ HeldSound'
  BY HeldSum, HeldSumNext
<1> DEFINE old == Held
           new == Held'
<1>2. /\ IsFiniteSet(DOMAIN old) /\ DOMAIN new = DOMAIN old /\ e \in DOMAIN old
      /\ \A n \in DOMAIN old : old[n] \in Int /\ new[n] \in Int
      /\ \A n \in DOMAIN old : n # e => old[n] = new[n]
  BY <1>1 DEF HeldSound
<1>3. old[e] = RamHeld(e) /\ new[e] = RamHeld(e)'
  BY <1>1 DEF HeldSound
<1> HIDE DEF old, new
<1>4. SumFunction(new) = SumFunction(old) + new[e] - old[e]
  BY <1>2, SumFunctionUpdate
<1> QED BY <1>2, <1>3, <1>4 DEF old, new
----------------------------------------------------------------------------
CorePartsHold ==
  RegistryTypes /\ ConfigType /\ ChainTypes /\ BalanceType /\ RegistryAgrees

LEMMA CoreParts == CoreInv => CorePartsHold
BY TypeParts DEF CoreInv, CorePartsHold

LEMMA CorePartsNext == CoreInv' => CorePartsHold'
BY CoreParts, PTL

LEMMA CoreKept == CoreInv /\ UNCHANGED vars => CoreInv'
BY DEF CoreInv, TypeOK, RegistryAgrees, vars

InRange == 0 <= config.total_ram_used /\ config.total_ram_used < TwoTo64

(* A step that leaves the total alone.                                     *)
LEMMA TotalKept ==
  ASSUME ChainTypes, ChainTypes', ConfigType, InRange, NEW d \in Int,
         config'.total_ram_used = config.total_ram_used,
         SumFunction(Held)' = SumFunction(Held) + d
  PROVE  RamMoves(d)
<1>1. SumFunction(Held) \in Int /\ config.total_ram_used \in Int
  BY HeldSum DEF HeldSound, ConfigType
<1>2. SumFunction(Held)' - d - config'.total_ram_used
        = SumFunction(Held) - config.total_ram_used + TwoTo64 * 0
  BY <1>1, Modulus
<1> QED BY <1>2 DEF RamMoves, InRange

(* A step that adds b to the total.                                        *)
LEMMA TotalMoves ==
  ASSUME ChainTypes, ChainTypes', ConfigType, NEW b \in Int, NEW d \in Int,
         config'.total_ram_used = (config.total_ram_used + b) % TwoTo64,
         \E k \in Int : SumFunction(Held)' = SumFunction(Held) + b + d + TwoTo64 * k
  PROVE  RamMoves(d)
<1> DEFINE sum == SumFunction(Held)
           new == SumFunction(Held)'
           was == config.total_ram_used
           is  == config'.total_ram_used
<1>1. sum \in Int /\ was \in Int
  BY HeldSum DEF HeldSound, ConfigType
<1>2. was + b \in Int
  BY <1>1
<1>3. /\ is \in Int /\ 0 <= is /\ is < TwoTo64
      /\ \E l \in Int : is = was + b + TwoTo64 * l
  BY <1>2, Remainder
<1>4. PICK l \in Int : is = was + b + TwoTo64 * l
  BY <1>3
<1>5. PICK k \in Int : new = sum + b + d + TwoTo64 * k
  OBVIOUS
<1> HIDE DEF sum, new, was, is
<1>6. new - d - is = sum - was + TwoTo64 * (k - l)
  BY <1>1, <1>3, <1>4, <1>5, Modulus
<1>7. k - l \in Int
  OBVIOUS
<1> QED BY <1>3, <1>6, <1>7 DEF RamMoves, sum, new, was, is

LEMMA NewAccountHeld ==
  ASSUME ChainTypes, NEW n \in Names, NewAccount(n),
         n \in DOMAIN people' => people'[n].status = "Creating",
         \A m \in DOMAIN limits : /\ m \in DOMAIN people' <=> m \in DOMAIN people
                                  /\ m \in DOMAIN people => people'[m] = people[m]
  PROVE  SumFunction(Held)' = SumFunction(Held)
<1>1. /\ ChainTypes'
      /\ n \notin DOMAIN limits /\ DOMAIN limits' = DOMAIN limits \cup {n}
      /\ limits'[n] = Unlimited
      /\ \A m \in DOMAIN limits : limits'[m] = limits[m]
  BY NewAccountSteps
<1>2. RamHeld(n)' = 0
  BY <1>1 DEF RamHeld, Unlimited
<1>3. \A m \in DOMAIN limits : RamHeld(m)' = RamHeld(m)
  BY <1>1 DEF RamHeld
<1> QED BY <1>1, <1>2, <1>3, HeldAdds

(* A trade adds the same bytes to the app and to the total, in as many     *)
(* bits.                                                                   *)
LEMMA TradeMoves ==
  ASSUME CoreInv, CoreInv', NEW app \in Names, NEW b \in Int, NEW ram \in Int,
         ram = limits[app].ram + b,
         TradeOf(app, ram, (config.total_ram_used + b) % TwoTo64)
  PROVE  RamMoves(0)
<1>1. /\ RegistryTypes /\ ConfigType /\ ChainTypes /\ ChainTypes' /\ RegistryAgrees
  BY CoreParts, CorePartsNext DEF CorePartsHold
<1> DEFINE used == (config.total_ram_used + b) % TwoTo64
<1>2. /\ app \in DOMAIN limits /\ app \in DOMAIN acctypes /\ acctypes[app] = "App"
      /\ config' = [config EXCEPT !.total_ram_used = used]
      /\ SetResourceLimits(app, WithRam(limits[app], ram))
      /\ people' = people
  BY DEF TradeOf, IsApp, Exists
<1>3. app \notin DOMAIN people
  BY <1>1, <1>2 DEF RegistryAgrees
<1>4. /\ DOMAIN limits' = DOMAIN limits
      /\ limits'[app].ram = AsInt64(ram)
      /\ \A m \in DOMAIN limits : m # app => limits'[m] = limits[m]
  BY <1>1, <1>2 DEF SetResourceLimits, WithRam, ChainTypes
<1>5. /\ RamHeld(app) = limits[app].ram + 1
      /\ RamHeld(app)' = AsInt64(ram) + 1
      /\ \A m \in DOMAIN limits : m # app => RamHeld(m)' = RamHeld(m)
  BY <1>2, <1>3, <1>4 DEF RamHeld
<1>6. /\ SumFunction(Held)' = SumFunction(Held) + RamHeld(app)' - RamHeld(app)
      /\ RamHeld(app) \in Int /\ RamHeld(app)' \in Int
  BY <1>1, <1>2, <1>4, <1>5, HeldChanges
<1>7. PICK k \in Int : AsInt64(ram) = ram + TwoTo64 * k
  BY AsInt64Congruent
<1>8. SumFunction(Held) \in Int /\ limits[app].ram \in Int /\ AsInt64(ram) \in Int
  BY <1>1, <1>2, HeldSum, AsInt64Congruent DEF HeldSound, ChainTypes
<1>9. SumFunction(Held)' = SumFunction(Held) + b + 0 + TwoTo64 * k
  BY <1>5, <1>6, <1>7, <1>8, Modulus
<1>10. config'.total_ram_used = used
  BY <1>1, <1>2 DEF ConfigType
<1> QED BY <1>1, <1>9, <1>10, TotalMoves

LEMMA BuyRamMoves ==
  ASSUME CoreInv, CoreInv', NEW owner \in DaoOwners, NEW app \in Names,
         NEW q \in Quantities, BuyRam(owner, app, q)
  PROVE  RamMoves(0)
<1> DEFINE bytes == RamPurchase(q)
<1>1. ConfigType /\ ChainTypes
  BY CoreParts DEF CorePartsHold
<1>2. bytes \in Int
  BY <1>1, BytesInt, TonomyAssumption DEF TonomyAssumption
<1> DEFINE ram == limits[app].ram + bytes
<1>3. TradeOf(app, ram, (config.total_ram_used + bytes) % TwoTo64)
  BY DEF BuyRam, TradeOf, registry
<1> HIDE DEF bytes
<1>4. ram \in Int
  BY <1>1, <1>2, <1>3 DEF ChainTypes, TradeOf, IsApp, Exists
<1> QED BY <1>2, <1>3, <1>4, TradeMoves

LEMMA SellRamMoves ==
  ASSUME CoreInv, CoreInv', NEW owner \in DaoOwners, NEW app \in Names,
         NEW q \in Quantities, SellRam(owner, app, q)
  PROVE  RamMoves(0)
<1> DEFINE bytes == RamSold(q)
<1>1. ConfigType /\ ChainTypes
  BY CoreParts DEF CorePartsHold
<1>2. bytes \in Int
  BY <1>1, BytesInt, TonomyAssumption DEF TonomyAssumption
<1>3. TradeOf(app, limits[app].ram - bytes, (config.total_ram_used - bytes) % TwoTo64)
  BY DEF SellRam, TradeOf, registry
<1> HIDE DEF bytes
<1>4. limits[app].ram \in Int /\ config.total_ram_used \in Int
  BY <1>1, <1>3 DEF ChainTypes, ConfigType, TradeOf, IsApp, Exists
<1> DEFINE b == -bytes
           ram == limits[app].ram - bytes
<1>5. /\ b \in Int /\ ram \in Int /\ ram = limits[app].ram + b
      /\ config.total_ram_used - bytes = config.total_ram_used + b
  BY <1>2, <1>4
<1>6. TradeOf(app, ram, (config.total_ram_used + b) % TwoTo64)
  BY <1>3, <1>5
<1> HIDE DEF b, ram
<1> QED BY <1>5, <1>6, TradeMoves

(* The first key of a person replaces what she had, -1 in Tonomy.          *)
LEMMA KeyMoves ==
  ASSUME CoreInv, CoreInv', InRange, NEW n \in Names, NEW level,
         NEW link \in BOOLEAN, UpdateKeyPerson(n, level, link)
  PROVE  Replaced(n) \in Int /\ RamMoves(-Replaced(n))
<1>1. RegistryTypes /\ ConfigType /\ ChainTypes /\ ChainTypes' /\ RegistryAgrees
  BY CoreParts, CorePartsNext DEF CorePartsHold
<1>2. CASE ~IsCreating(n)
  <2>1. UNCHANGED <<people, config, limits>>
    BY <1>2 DEF UpdateKeyPerson
  <2>2. \A m \in DOMAIN limits : RamHeld(m)' = RamHeld(m)
    BY <2>1 DEF RamHeld
  <2>3. SumFunction(Held)' = SumFunction(Held) + 0
    BY <1>1, <2>1, <2>2, HeldStays, HeldSum DEF HeldSound
  <2>4. RamMoves(0)
    BY <1>1, <2>1, <2>3, TotalKept
  <2> QED BY <1>2, <2>4 DEF Replaced
<1>3. CASE IsCreating(n)
  <2>1. /\ n \in DOMAIN people /\ people[n].status = "Creating"
        /\ n \in DOMAIN limits
    BY <1>1, <1>3 DEF IsCreating, RegistryAgrees
  <2>2. /\ people' = [people EXCEPT ![n].status = "Active"]
        /\ limits' = [limits EXCEPT ![n] = InitialLimits]
        /\ config'.total_ram_used
             = (config.total_ram_used + initial_ram_bytes) % TwoTo64
    BY <1>1, <1>3
       DEF UpdateKeyPerson, Activate, GrantResources, SetResourceLimits, ConfigType
  <2>3. /\ DOMAIN limits' = DOMAIN limits
        /\ limits'[n].ram = initial_ram_bytes
        /\ \A m \in DOMAIN limits : m # n => limits'[m] = limits[m]
    BY <1>1, <2>1, <2>2 DEF ChainTypes, InitialLimits
  <2>4. /\ DOMAIN people' = DOMAIN people
        /\ people'[n].status = "Active"
        /\ \A m \in DOMAIN people : m # n => people'[m] = people[m]
    BY <1>1, <2>1, <2>2 DEF RegistryTypes
  <2>5. /\ RamHeld(n) = limits[n].ram + 1
        /\ RamHeld(n)' = initial_ram_bytes
        /\ \A m \in DOMAIN limits : m # n => RamHeld(m)' = RamHeld(m)
    BY <2>1, <2>3, <2>4 DEF RamHeld
  <2>6. SumFunction(Held)' = SumFunction(Held) + RamHeld(n)' - RamHeld(n)
    BY <1>1, <2>1, <2>3, <2>5, HeldChanges
  <2>7. /\ Replaced(n) = limits[n].ram + 1 /\ limits[n].ram \in Int
        /\ initial_ram_bytes \in Int /\ SumFunction(Held) \in Int
    BY <1>1, <1>3, <2>1, TonomyAssumption, HeldSum
       DEF Replaced, ChainTypes, TonomyAssumption, HeldSound
  <2>8. SumFunction(Held)'
          = SumFunction(Held) + initial_ram_bytes + (-Replaced(n)) + TwoTo64 * 0
    BY <2>5, <2>6, <2>7, Modulus
  <2>9. Replaced(n) \in Int /\ -Replaced(n) \in Int
    BY <2>7
  <2>10. RamMoves(-Replaced(n))
    BY <1>1, <2>2, <2>7, <2>8, <2>9, TotalMoves
  <2> QED BY <2>9, <2>10
<1> QED BY <1>2, <1>3

(* The actions that change what is held as much as what is on record.      *)
BalancedStep ==
  \/ Register
  \/ \E n \in KeyHolders, app \in Names, parent \in Permissions :
       LoginWithApp(n, app, parent)
  \/ Trade
  \/ \E price \in Prices, total \in RamTotals, fee \in Fees :
       SetResParams(price, total, fee)

LEMMA BoundsInNames == Adopted \subseteq Names /\ KeyHolders \subseteq Names
BY TonomyAssumption DEF TonomyAssumption

LEMMA RegisterCore == CoreInv /\ Register => CoreInv'
BY NewPersonSteps, NewAppSteps, EraseOldAppsSteps, AdminSetAppSteps, BoundsInNames
   DEF Register

LEMMA BalancedCore == CoreInv /\ BalancedStep => CoreInv'
BY RegisterCore, LoginWithAppSteps, BuyRamSteps, SellRamSteps, SetResParamsSteps,
   BoundsInNames
   DEF BalancedStep, Trade

LEMMA BalancedMoves ==
  ASSUME CoreInv, InRange, BalancedStep
  PROVE  RamMoves(0)
<1>1. CoreInv'
  BY BalancedCore
<1>2. /\ RegistryTypes /\ ConfigType /\ ChainTypes /\ ChainTypes' /\ RegistryAgrees
  BY <1>1, CoreParts, CorePartsNext DEF CorePartsHold
<1>3. SumFunction(Held) \in Int
  BY <1>2, HeldSum DEF HeldSound
<1>4. ASSUME SumFunction(Held)' = SumFunction(Held),
             config'.total_ram_used = config.total_ram_used
      PROVE  RamMoves(0)
  <2>1. SumFunction(Held)' = SumFunction(Held) + 0
    BY <1>3, <1>4
  <2> QED BY <1>2, <1>4, <2>1, TotalKept
<1>5. ASSUME UNCHANGED <<people, limits>>,
             config'.total_ram_used = config.total_ram_used
      PROVE  RamMoves(0)
  <2>1. \A n \in DOMAIN limits : RamHeld(n)' = RamHeld(n)
    BY <1>5 DEF RamHeld
  <2> QED BY <1>2, <1>4, <1>5, <2>1, HeldStays
<1>6. ASSUME NEW n \in Persons, NEW u \in Usernames, NewPerson(n, u)
      PROVE  RamMoves(0)
  <2>1. /\ NewAccount(n) /\ n \notin DOMAIN people /\ config' = config
        /\ people' = WithRow(people, n, [status |-> "Creating", username_hash |-> u])
    BY <1>2, <1>6 DEF NewPerson, RegistryAgrees, NewAccount, Exists
  <2>2. /\ people'[n].status = "Creating"
        /\ DOMAIN people' = DOMAIN people \cup {n}
        /\ \A m \in DOMAIN people : people'[m] = people[m]
    BY <2>1 DEF WithRow
  <2>3. \A m \in DOMAIN limits : /\ m \in DOMAIN people' <=> m \in DOMAIN people
                                 /\ m \in DOMAIN people => people'[m] = people[m]
    BY <2>1, <2>2 DEF NewAccount, Exists
  <2>4. SumFunction(Held)' = SumFunction(Held)
    BY <1>2, <2>1, <2>2, <2>3, NewAccountHeld, Disjoint
  <2> QED BY <1>4, <2>1, <2>4
<1>7. ASSUME NEW n \in Apps, NEW u \in Usernames, NEW o \in Origins, NewApp(n, u, o)
      PROVE  RamMoves(0)
  <2>1. /\ NewAccount(n) /\ n \notin DOMAIN people' /\ people' = people
        /\ config'.total_ram_used = config.total_ram_used
    BY <1>2, <1>7 DEF NewApp, RegistryAgrees, NewAccount, Exists, ConfigType
  <2>2. SumFunction(Held)' = SumFunction(Held)
    BY <1>2, <2>1, NewAccountHeld, Disjoint
  <2> QED BY <1>4, <2>1, <2>2
<1>8. CASE Register
  <2>1. ASSUME EraseOldApps \/ \E n \in Adopted, u \in Usernames, o \in Origins :
                                 AdminSetApp(n, u, o)
        PROVE  RamMoves(0)
    BY <1>5, <2>1 DEF EraseOldApps, AdminSetApp, chain
  <2> QED BY <1>6, <1>7, <1>8, <2>1 DEF Register
<1>9. CASE \E n \in KeyHolders, app \in Names, parent \in Permissions :
             LoginWithApp(n, app, parent)
  BY <1>5, <1>9 DEF LoginWithApp, registry
<1>10. CASE Trade
  BY <1>1, <1>10, BuyRamMoves, SellRamMoves DEF Trade
<1>11. CASE \E price \in Prices, total \in RamTotals, fee \in Fees :
              SetResParams(price, total, fee)
  <2>1. UNCHANGED <<people, limits>> /\ config'.total_ram_used = config.total_ram_used
    BY <1>2, <1>11 DEF SetResParams, registry, chain, ConfigType
  <2> QED BY <1>5, <2>1
<1> QED BY <1>8, <1>9, <1>10, <1>11 DEF BalancedStep
----------------------------------------------------------------------------
(* Whose resources have not been granted has no limit.                     *)
Ungranted ==
  \A p \in DOMAIN people : people[p].status = "Creating" => limits[p].ram = -1

RInv == CoreInv /\ Ungranted /\ RamRecord(0)

LEMMA InitCore == Init => CoreInv
BY InitIInv DEF IInv

LEMMA InitRecord == Init => RamRecord(0) /\ SumFunction(Held) = 0
<1> SUFFICES ASSUME Init PROVE RamRecord(0) /\ SumFunction(Held) = 0
  OBVIOUS
<1>1. ChainTypes
  BY InitCore, CoreParts DEF CorePartsHold
<1>2. \A n \in DOMAIN limits : RamHeld(n) = 0
  BY DEF Init, EmptyTable, RamHeld, Unlimited
<1>3. /\ IsFiniteSet(DOMAIN Held) /\ \A n \in DOMAIN Held : Held[n] = 0
  BY <1>1, <1>2, HeldSum DEF HeldSound
<1>4. SumFunction(Held) = 0
  BY <1>3, SumZero DEF SumFunction
<1>5. config.total_ram_used = 0
  BY DEF Init, NoConfig
<1>6. 0 = (SumFunction(Held) - 0) % TwoTo64
  BY <1>4, Modulus
<1> QED BY <1>4, <1>5, <1>6 DEF RamRecord

LEMMA UngrantedKept ==
  ASSUME CoreInv, Ungranted,
         \A p \in DOMAIN people' :
           \/ p \in DOMAIN people /\ people'[p] = people[p] /\ limits'[p] = limits[p]
           \/ people'[p].status = "Active"
           \/ limits'[p].ram = -1
  PROVE  Ungranted'
BY DEF Ungranted

LEMMA TradeKeepsPeople ==
  ASSUME CoreInv, NEW owner, NEW app, NEW q,
         BuyRam(owner, app, q) \/ SellRam(owner, app, q)
  PROVE  people' = people /\ \A p \in DOMAIN people : limits'[p] = limits[p]
<1>1. /\ app \in DOMAIN acctypes /\ acctypes[app] = "App" /\ people' = people
      /\ \E limit : limits' = [limits EXCEPT ![app] = limit]
  BY DEF BuyRam, SellRam, IsApp, SetResourceLimits, registry
<1>2. RegistryAgrees /\ RegistryTypes
  BY CoreParts DEF CorePartsHold
<1>3. app \notin DOMAIN people /\ DOMAIN people \subseteq DOMAIN limits
  BY <1>1, <1>2 DEF RegistryAgrees, RegistryTypes
<1> QED BY <1>1, <1>3

LEMMA UngrantedNext ==
  ASSUME CoreInv, Ungranted, Next PROVE Ungranted'
<1>1. RegistryTypes /\ ChainTypes /\ RegistryAgrees
  BY CoreParts DEF CorePartsHold
<1>2. ASSUME UNCHANGED <<people, limits>> PROVE Ungranted'
  BY <1>2 DEF Ungranted
<1>3. CASE Register
  <2>1. ASSUME NEW n \in Persons, NEW u \in Usernames, NewPerson(n, u)
        PROVE  Ungranted'
    <3>1. /\ people' = WithRow(people, n, [status |-> "Creating", username_hash |-> u])
          /\ NewAccount(n)
      BY <2>1 DEF NewPerson
    <3>2. /\ limits'[n] = Unlimited
          /\ \A m \in DOMAIN limits : limits'[m] = limits[m]
      BY <1>1, <3>1, NewAccountSteps, Disjoint
    <3>3. \A p \in DOMAIN people' : p # n => p \in DOMAIN people /\ people'[p] = people[p]
      BY <3>1 DEF WithRow
    <3>4. limits'[n].ram = -1
      BY <3>2 DEF Unlimited
    <3> QED BY <1>1, <3>2, <3>3, <3>4, UngrantedKept DEF RegistryAgrees
  <2>2. ASSUME NEW n \in Apps, NEW u \in Usernames, NEW o \in Origins, NewApp(n, u, o)
        PROVE  Ungranted'
    <3>1. people' = people /\ NewAccount(n)
      BY <2>2 DEF NewApp
    <3>2. \A m \in DOMAIN limits : limits'[m] = limits[m]
      BY <1>1, <3>1, NewAccountSteps, Disjoint
    <3> QED BY <1>1, <3>1, <3>2, UngrantedKept DEF RegistryAgrees
  <2>3. ASSUME EraseOldApps \/ \E n \in Adopted, u \in Usernames, o \in Origins :
                                 AdminSetApp(n, u, o)
        PROVE  Ungranted'
    BY <1>2, <2>3 DEF EraseOldApps, AdminSetApp, chain
  <2> QED BY <1>3, <2>1, <2>2, <2>3 DEF Register
<1>4. CASE ChangeKeys
  <2>1. ASSUME NEW n \in KeyHolders, NEW level \in Levels, NEW link \in BOOLEAN,
               UpdateKeyPerson(n, level, link)
        PROVE  Ungranted'
    <3>1. CASE ~IsCreating(n)
      BY <1>2, <2>1, <3>1 DEF UpdateKeyPerson
    <3>2. CASE IsCreating(n)
      <4>1. /\ people' = [people EXCEPT ![n].status = "Active"]
            /\ limits' = [limits EXCEPT ![n] = InitialLimits]
            /\ n \in DOMAIN people
        BY <2>1, <3>2
           DEF UpdateKeyPerson, Activate, GrantResources, SetResourceLimits, IsCreating
      <4>2. people'[n].status = "Active" /\ DOMAIN people' = DOMAIN people
        BY <1>1, <4>1 DEF RegistryTypes
      <4>3. \A p \in DOMAIN people : p # n => people'[p] = people[p]
        BY <4>1
      <4>4. \A p \in DOMAIN people : p # n => limits'[p] = limits[p]
        BY <1>1, <4>1 DEF RegistryAgrees
      <4> QED BY <4>2, <4>3, <4>4, UngrantedKept
    <3> QED BY <3>1, <3>2
  <2>2. ASSUME NEW n \in KeyHolders, NEW app \in Names, NEW parent \in Permissions,
               LoginWithApp(n, app, parent)
        PROVE  Ungranted'
    BY <1>2, <2>2 DEF LoginWithApp, registry
  <2> QED BY <1>4, <2>1, <2>2 DEF ChangeKeys
<1>5. CASE \E price \in Prices, total \in RamTotals, fee \in Fees :
             SetResParams(price, total, fee)
  BY <1>2, <1>5 DEF SetResParams, registry, chain
<1>6. CASE Trade
  <2>1. people' = people /\ \A p \in DOMAIN people : limits'[p] = limits[p]
    BY <1>6, TradeKeepsPeople DEF Trade
  <2> QED BY <2>1, UngrantedKept
<1>7. CASE \E n \in KeyHolders : UpdateActive(n)
  BY <1>1, <1>2, <1>7, UpdateActiveStutters DEF vars
<1> QED BY <1>3, <1>4, <1>5, <1>6, <1>7 DEF Next

LEMMA NextRInv == RInv /\ [Next]_vars => RInv'
<1> SUFFICES ASSUME RInv, [Next]_vars PROVE RInv'
  OBVIOUS
<1>1. CoreInv /\ Ungranted /\ RamRecord(0) /\ ConfigType /\ ChainTypes /\ RegistryAgrees
  BY CoreParts DEF RInv, CorePartsHold
<1>2. CASE (\E n \in KeyHolders : UpdateActive(n)) \/ UNCHANGED vars
  <2>0. UNCHANGED vars
    BY <1>1, <1>2, UpdateActiveStutters
  <2>1. CoreInv'
    BY <1>1, <2>0 DEF CoreInv, TypeOK, RegistryAgrees, vars
  <2>2. Ungranted'
    BY <1>1, <2>0 DEF Ungranted, vars
  <2>3. RamRecord(0)'
    BY <1>1, <2>0 DEF RamRecord, Held, RamHeld, vars
  <2> QED BY <2>1, <2>2, <2>3 DEF RInv
<1>3. CASE Next /\ ~\E n \in KeyHolders : UpdateActive(n)
  <2>1. InRange
    BY <1>1, RecordRange DEF InRange
  <2>2. Ungranted'
    BY <1>1, <1>3, UngrantedNext
  <2>3. CoreInv' /\ RamMoves(0)
    <3>1. CASE BalancedStep
      BY <1>1, <2>1, <3>1, BalancedCore, BalancedMoves
    <3>2. ASSUME NEW n \in KeyHolders, NEW level \in Levels, NEW link \in BOOLEAN,
                 UpdateKeyPerson(n, level, link)
          PROVE  CoreInv' /\ RamMoves(0)
      <4>1. n \in Names
        BY BoundsInNames
      <4>2. CoreInv'
        BY <1>1, <3>2, <4>1, UpdateKeyPersonSteps
      <4>3. RamMoves(-Replaced(n))
        BY <1>1, <2>1, <3>2, <4>1, <4>2, KeyMoves
      <4>4. Replaced(n) = 0
        BY <1>1, <4>1 DEF Replaced, Ungranted, IsCreating
      <4> QED BY <4>2, <4>3, <4>4
    <3> QED BY <1>3, <3>1, <3>2 DEF Next, ChangeKeys, BalancedStep
  <2>4. ConfigType' /\ ChainTypes'
    BY <2>3, CorePartsNext DEF CorePartsHold
  <2>5. config'.total_ram_used = (SumFunction(Held)' - (0 + 0)) % TwoTo64
    BY <1>1, <2>3, <2>4, RecordMoves
  <2>6. RamRecord(0)'
    BY <2>5 DEF RamRecord
  <2> QED BY <2>2, <2>3, <2>6 DEF RInv
<1> QED BY <1>2, <1>3

(* total_ram_used is what the accounts hold, for any names, prices,        *)
(* amounts and width of its integer, wherever it wraps.                    *)
THEOREM RamAlwaysAccounted == Spec => []RamAccounted
<1>1. Init => RInv
  BY InitCore, InitRecord DEF Init, EmptyTable, Ungranted, RInv
<1>2. RInv /\ [Next]_vars => RInv'
  BY NextRInv
<1>3. RInv => RamAccounted
  <2> SUFFICES ASSUME RInv PROVE RamAccounted
    OBVIOUS
  <2>1. SumFunction(Held) \in Int
    BY CoreParts, HeldSum DEF RInv, CorePartsHold, HeldSound
  <2>2. SumFunction(Held) - 0 = SumFunction(Held)
    BY <2>1
  <2> QED BY <2>2 DEF RInv, RamRecord, RamAccounted, Held
<1> QED BY <1>1, <1>2, <1>3, PTL DEF Spec
----------------------------------------------------------------------------
(* Governance.  The chain keeps its own tables whole.                      *)
ChainWhole ==
  \A n \in DOMAIN perms :
    /\ links[n] \in DOMAIN perms[n] \cup {"none"}
    /\ \A p \in DOMAIN perms[n] : perms[n][p] \in DOMAIN perms[n] \cup {"none"}

GTables ==
  /\ system \in {"boot", "bios", "tonomy"}
  /\ DOMAIN abi \subseteq Names /\ abi \in [DOMAIN abi -> Abis]
  /\ DOMAIN abihash \subseteq Names /\ abihash \in [DOMAIN abihash -> Abis]
  /\ system = "boot" => DOMAIN abihash = {}
  /\ AbiHashed

GInv == CoreInv /\ ChainWhole /\ GTables /\ byHand \in Int /\ RamRecord(byHand)

LEMMA WholeNewAccount ==
  ASSUME ChainTypes, ChainWhole, NEW n, NewAccount(n) PROVE ChainWhole'
<1>1. DOMAIN perms = DOMAIN limits /\ DOMAIN links = DOMAIN limits
  BY DEF ChainTypes
<1>2. /\ n \notin DOMAIN perms
      /\ DOMAIN perms' = DOMAIN perms \cup {n}
      /\ perms'[n] = BasicPermissions /\ links'[n] = "none"
      /\ \A m \in DOMAIN perms : perms'[m] = perms[m] /\ links'[m] = links[m]
  BY <1>1 DEF NewAccount, Exists, WithRow
<1>3. \A p \in DOMAIN BasicPermissions :
        BasicPermissions[p] \in DOMAIN BasicPermissions \cup {"none"}
  BY DEF BasicPermissions
<1>4. /\ "none" \in DOMAIN perms'[n] \cup {"none"}
      /\ \A p \in DOMAIN perms'[n] : perms'[n][p] \in DOMAIN perms'[n] \cup {"none"}
  BY <1>2, <1>3
<1> QED BY <1>2, <1>4 DEF ChainWhole

LEMMA WholeUpdateAuth ==
  ASSUME ChainTypes, ChainWhole, NEW n, NEW p, NEW parent, UpdateAuth(n, p, parent),
         links' = links \/ LinkAuth(n, p)
  PROVE  ChainWhole'
<1>1. DOMAIN perms = DOMAIN limits /\ DOMAIN links = DOMAIN limits
  BY DEF ChainTypes
<1>2. n \in DOMAIN perms /\ parent \in DOMAIN perms[n]
  BY <1>1 DEF UpdateAuth, Exists
<1>3. /\ DOMAIN perms' = DOMAIN perms
      /\ perms'[n] = WithRow(perms[n], p, parent)
      /\ \A m \in DOMAIN perms : m # n => perms'[m] = perms[m]
  BY <1>2 DEF UpdateAuth
<1>4. /\ DOMAIN perms'[n] = DOMAIN perms[n] \cup {p}
      /\ \A q \in DOMAIN perms'[n] :
           perms'[n][q] = IF q = p THEN parent ELSE perms[n][q]
  BY <1>3 DEF WithRow
<1>5. \A m \in DOMAIN perms : links'[m] = links[m] \/ (m = n /\ links'[m] = p)
  BY <1>1, <1>2 DEF LinkAuth
<1>6. links'[n] \in DOMAIN perms'[n] \cup {"none"}
  BY <1>2, <1>4, <1>5 DEF ChainWhole
<1>7. \A q \in DOMAIN perms'[n] : perms'[n][q] \in DOMAIN perms'[n] \cup {"none"}
  BY <1>2, <1>4 DEF ChainWhole
<1>8. \A m \in DOMAIN perms : m # n =>
        /\ links'[m] \in DOMAIN perms'[m] \cup {"none"}
        /\ \A q \in DOMAIN perms'[m] : perms'[m][q] \in DOMAIN perms'[m] \cup {"none"}
  BY <1>3, <1>5 DEF ChainWhole
<1> QED BY <1>3, <1>6, <1>7, <1>8 DEF ChainWhole

LEMMA WholeKept == ChainWhole /\ UNCHANGED <<perms, links>> => ChainWhole'
BY DEF ChainWhole

LEMMA WholeBalanced ==
  ASSUME CoreInv, ChainWhole, BalancedStep PROVE ChainWhole'
<1>1. ChainTypes
  BY CoreParts DEF CorePartsHold
<1>2. CASE Register
  BY <1>1, <1>2, WholeNewAccount, WholeKept
     DEF Register, NewPerson, NewApp, EraseOldApps, AdminSetApp, chain
<1>3. CASE \E n \in KeyHolders, app \in Names, parent \in Permissions :
             LoginWithApp(n, app, parent)
  BY <1>1, <1>3, WholeUpdateAuth DEF LoginWithApp
<1>4. CASE Trade
  BY <1>4, WholeKept DEF Trade, BuyRam, SellRam
<1>5. CASE \E price \in Prices, total \in RamTotals, fee \in Fees :
             SetResParams(price, total, fee)
  BY <1>5, WholeKept DEF SetResParams, chain
<1> QED BY <1>2, <1>3, <1>4, <1>5 DEF BalancedStep

LEMMA WholeKey ==
  ASSUME CoreInv, ChainWhole, NEW n, NEW level, NEW link \in BOOLEAN,
         UpdateKeyPerson(n, level, link)
  PROVE  ChainWhole'
<1>1. ChainTypes
  BY CoreParts DEF CorePartsHold
<1>2. /\ UpdateAuth(n, PermissionOf(level), "owner")
      /\ links' = links \/ LinkAuth(n, PermissionOf(level))
  BY DEF UpdateKeyPerson
<1> QED BY <1>1, <1>2, WholeUpdateAuth

(* What governance does leaves the registry and the prices alone; the      *)
(* chain keeps the types of its tables.                                    *)
LEMMA NativeCore ==
  ASSUME CoreInv, ChainTypes', DOMAIN limits \subseteq DOMAIN limits',
         UNCHANGED <<registry, config, balance>>
  PROVE  CoreInv'
<1>1. RegistryTypes /\ ConfigType /\ BalanceType /\ RegistryAgrees
  BY CoreParts DEF CorePartsHold
<1>2. RegistryTypes' /\ RegistryAgrees'
  BY <1>1, RegistryKept
<1>3. ConfigType' /\ BalanceType'
  BY <1>1 DEF ConfigType, BalanceType
<1> QED BY <1>2, <1>3, TypePartsNext DEF CoreInv

LEMMA NativeBounds ==
  /\ Governed \subseteq Names /\ Coded \subseteq Names
  /\ NativePermissions \subseteq KeyPermissions
  /\ HandLimits \subseteq [ram : Int, net : Int, cpu : Int]
BY GovernanceAssumption DEF GovernanceAssumption

LEMMA UpdateAuthNative ==
  ASSUME CoreInv, ChainWhole, NEW n, NEW p \in NativePermissions, NEW signed,
         NativeUpdateAuth(n, p, "owner", signed)
  PROVE  CoreInv' /\ ChainWhole'
<1>1. ChainTypes
  BY CoreParts DEF CorePartsHold
<1>2. /\ UpdateAuth(n, p, "owner")
      /\ UNCHANGED <<registry, config, limits, links, balance>>
  BY DEF NativeUpdateAuth
<1>3. ChainWhole'
  BY <1>1, <1>2, WholeUpdateAuth
<1>4. p \in Permissions
  BY NativeBounds DEF Permissions
<1>5. PermsGrow(n, p)
  BY <1>1, <1>2, <1>4, UpdateAuthSteps
<1>6. ChainTypes'
  <2>1. /\ limits' \in [DOMAIN limits -> [ram : Int, net : Int, cpu : Int]]
        /\ \A m \in DOMAIN limits : limits'[m].ram >= -1
        /\ links' \in [DOMAIN limits -> KeyPermissions \cup {"none"}]
    BY <1>1, <1>2 DEF ChainTypes
  <2> QED BY <1>1, <1>4, <1>5, <2>1, ChainKept
<1> QED BY <1>2, <1>3, <1>6, NativeCore

LEMMA DeleteAuthNative ==
  ASSUME CoreInv, ChainWhole, NEW n, NEW p, NEW signed,
         NativeDeleteAuth(n, p, signed)
  PROVE  CoreInv' /\ ChainWhole'
<1>1. ChainTypes
  BY CoreParts DEF CorePartsHold
<1>2. DOMAIN perms = DOMAIN limits
  BY <1>1 DEF ChainTypes
<1>3. /\ n \in DOMAIN perms /\ p \in DOMAIN perms[n] \ {"owner", "active"}
      /\ \A q \in DOMAIN perms[n] : perms[n][q] # p
      /\ links[n] # p
      /\ perms' = [perms EXCEPT ![n] = WithoutRows(perms[n], {p})]
      /\ UNCHANGED <<registry, config, limits, links, balance>>
  BY <1>2 DEF NativeDeleteAuth, DeleteAuth, Exists
<1> DEFINE rest == WithoutRows(perms[n], {p})
<1>4. /\ DOMAIN rest = DOMAIN perms[n] \ {p}
      /\ rest = [q \in DOMAIN rest |-> rest[q]]
      /\ \A q \in DOMAIN rest : rest[q] = perms[n][q]
  BY DEF WithoutRows, Restrict
<1>5. /\ perms' = [m \in DOMAIN limits |-> perms'[m]] /\ DOMAIN perms' = DOMAIN perms
      /\ perms'[n] = rest /\ \A m \in DOMAIN perms : m # n => perms'[m] = perms[m]
  BY <1>1, <1>2, <1>3 DEF ChainTypes
<1> HIDE DEF rest
<1>6. /\ perms[n] \in [DOMAIN perms[n] -> Permissions \cup {"none"}]
      /\ {"owner", "active"} \subseteq DOMAIN perms[n]
      /\ DOMAIN perms[n] \subseteq Permissions
  BY <1>1, <1>2, <1>3 DEF ChainTypes
<1>7. /\ rest \in [DOMAIN rest -> Permissions \cup {"none"}]
      /\ {"owner", "active"} \subseteq DOMAIN rest
      /\ DOMAIN rest \subseteq Permissions
  BY <1>3, <1>4, <1>6
<1>8. ChainTypes'
  BY <1>1, <1>2, <1>3, <1>5, <1>7 DEF ChainTypes
<1>9. /\ links[n] \in DOMAIN rest \cup {"none"}
      /\ \A q \in DOMAIN rest : rest[q] \in DOMAIN rest \cup {"none"}
  BY <1>3, <1>4 DEF ChainWhole
<1>10. ChainWhole'
  BY <1>3, <1>5, <1>9 DEF ChainWhole
<1> QED BY <1>3, <1>8, <1>10, NativeCore

LEMMA LinksNative ==
  ASSUME CoreInv, ChainWhole, NEW n, NEW signed,
         \/ \E p \in NativePermissions : NativeLinkAuth(n, p)
         \/ NativeUnlinkAuth(n, signed)
  PROVE  CoreInv' /\ ChainWhole'
<1>1. ChainTypes
  BY CoreParts DEF CorePartsHold
<1>2. PICK p \in KeyPermissions \cup {"none"} :
        /\ n \in DOMAIN limits /\ p \in DOMAIN perms[n] \cup {"none"}
        /\ links' = [links EXCEPT ![n] = p]
        /\ UNCHANGED <<registry, config, limits, perms, balance>>
  BY NativeBounds DEF NativeLinkAuth, LinkAuth, NativeUnlinkAuth, Exists
<1>3. /\ links' \in [DOMAIN limits -> KeyPermissions \cup {"none"}]
      /\ \A m \in DOMAIN limits : links'[m] = IF m = n THEN p ELSE links[m]
  BY <1>1, <1>2 DEF ChainTypes
<1>4. ChainTypes'
  BY <1>1, <1>2, <1>3 DEF ChainTypes
<1>5. ChainWhole'
  BY <1>1, <1>2, <1>3 DEF ChainTypes, ChainWhole
<1> QED BY <1>2, <1>4, <1>5, NativeCore

LEMMA NewAccountNative ==
  ASSUME CoreInv, ChainWhole, NEW n \in Names, NEW signed,
         NativeNewAccount(n, signed)
  PROVE  CoreInv' /\ ChainWhole' /\ SumFunction(Held)' = SumFunction(Held)
<1>1. ChainTypes /\ RegistryAgrees
  BY CoreParts DEF CorePartsHold
<1>2. NewAccount(n) /\ UNCHANGED <<registry, config, balance>>
  BY DEF NativeNewAccount
<1>3. ChainTypes' /\ DOMAIN limits \subseteq DOMAIN limits'
  BY <1>1, <1>2, NewAccountSteps
<1>4. people' = people /\ n \notin DOMAIN people
  BY <1>1, <1>2 DEF registry, RegistryAgrees, NewAccount, Exists
<1>5. SumFunction(Held)' = SumFunction(Held)
  BY <1>1, <1>2, <1>4, NewAccountHeld
<1> QED BY <1>1, <1>2, <1>3, <1>5, NativeCore, WholeNewAccount

LEMMA SetALimitsNative ==
  ASSUME CoreInv, ChainWhole, NEW n, NEW limit \in HandLimits, NEW signed,
         SetALimits(n, limit, signed)
  PROVE  /\ CoreInv' /\ ChainWhole'
         /\ limit.ram - limits[n].ram \in Int
         /\ byHand' = byHand + limit.ram - limits[n].ram
         /\ SumFunction(Held)' = SumFunction(Held) + (limit.ram - limits[n].ram)
<1>1. ChainTypes
  BY CoreParts DEF CorePartsHold
<1>2. /\ n \in DOMAIN limits /\ SetResourceLimits(n, limit)
      /\ byHand' = byHand + limit.ram - limits[n].ram
      /\ UNCHANGED <<registry, config, perms, links, balance>>
  BY DEF SetALimits, Exists
<1>3. limit \in [ram : Int, net : Int, cpu : Int]
  BY NativeBounds
<1>4. /\ limits' \in [DOMAIN limits -> [ram : Int, net : Int, cpu : Int]]
      /\ DOMAIN limits' = DOMAIN limits
      /\ \A m \in DOMAIN limits' : limits'[m].ram >= -1
      /\ \A m \in DOMAIN limits : limits'[m] = IF m = n THEN limit ELSE limits[m]
  BY <1>1, <1>2, <1>3, SetLimitsSteps
<1>5. ChainTypes'
  BY <1>1, <1>2, <1>4 DEF ChainTypes
<1>6. CoreInv' /\ ChainWhole'
  BY <1>2, <1>4, <1>5, NativeCore, WholeKept
<1>7. limits[n].ram \in Int /\ limit.ram \in Int /\ SumFunction(Held) \in Int
  BY <1>1, <1>2, <1>3, HeldSum DEF ChainTypes, HeldSound
<1>8. /\ \A m \in DOMAIN limits : m # n => RamHeld(m)' = RamHeld(m)
      /\ RamHeld(n)' - RamHeld(n) = limit.ram - limits[n].ram
  BY <1>2, <1>4, <1>7 DEF RamHeld, registry
<1>9. /\ SumFunction(Held)' = SumFunction(Held) + RamHeld(n)' - RamHeld(n)
      /\ RamHeld(n) \in Int /\ RamHeld(n)' \in Int
  BY <1>1, <1>2, <1>4, <1>5, <1>8, HeldChanges
<1>10. SumFunction(Held)' = SumFunction(Held) + (limit.ram - limits[n].ram)
  BY <1>7, <1>8, <1>9
<1> QED BY <1>2, <1>6, <1>7, <1>10

(* The table of hashes follows the ABIs once eosio has a contract that     *)
(* keeps it.                                                               *)
LEMMA SetAbiTables ==
  ASSUME GTables, NEW n \in Coded, NEW a \in Abis, NEW signed, NEW direct,
         SetAbi(n, a, signed, direct)
  PROVE  GTables'
<1>1. /\ n \in Names /\ system' = system
      /\ abi' = WithRow(abi, n, a)
      /\ abihash' = IF system = "boot" THEN abihash ELSE WithRow(abihash, n, a)
  BY NativeBounds DEF SetAbi, HashSet
<1>2. /\ DOMAIN abi' = DOMAIN abi \cup {n} /\ abi' \in [DOMAIN abi' -> Abis]
      /\ abi'[n] = a /\ \A m \in DOMAIN abi : m # n => abi'[m] = abi[m]
  BY <1>1 DEF GTables, WithRow
<1>3. CASE system = "boot"
  <2>1. abihash' = abihash /\ DOMAIN abihash = {}
    BY <1>1, <1>3 DEF GTables
  <2> QED BY <1>1, <1>2, <2>1 DEF GTables, AbiHashed
<1>4. CASE system # "boot"
  <2>1. abihash' = WithRow(abihash, n, a)
    BY <1>1, <1>4
  <2>2. /\ DOMAIN abihash' = DOMAIN abihash \cup {n}
        /\ abihash' \in [DOMAIN abihash' -> Abis]
        /\ abihash'[n] = a
        /\ \A m \in DOMAIN abihash : m # n => abihash'[m] = abihash[m]
    BY <2>1 DEF GTables, WithRow
  <2> QED BY <1>1, <1>2, <1>4, <2>2 DEF GTables, AbiHashed
<1> QED BY <1>3, <1>4

LEMMA SetSystemTables ==
  ASSUME GTables, NEW next, NEW signed, NEW direct, SetSystem(next, signed, direct)
  PROVE  GTables'
BY DEF GTables, SetSystem, AbiHashed

LEMMA TablesKept == GTables /\ UNCHANGED native => GTables'
BY DEF GTables, native, AbiHashed

(* A step of GInv by its parts.                                            *)
LEMMA GInvStep ==
  ASSUME GInv, NEW d \in Int, byHand' = byHand + d, RamMoves(d),
         CoreInv', ChainWhole', GTables'
  PROVE  GInv'
<1>1. ChainTypes /\ ChainTypes' /\ ConfigType'
  BY CoreParts, CorePartsNext DEF GInv, CorePartsHold
<1>2. byHand \in Int /\ RamRecord(byHand) /\ byHand' \in Int
  BY DEF GInv
<1>3. config'.total_ram_used = (SumFunction(Held)' - (byHand + d)) % TwoTo64
  BY <1>1, <1>2, RecordMoves
<1>4. RamRecord(byHand)'
  BY <1>3 DEF RamRecord
<1> QED BY <1>2, <1>4 DEF GInv

LEMMA GInvStill ==
  ASSUME GInv, CoreInv', ChainWhole', GTables', UNCHANGED <<config, byHand>>,
         SumFunction(Held)' = SumFunction(Held)
  PROVE  GInv'
<1>1. byHand' = byHand /\ config' = config
  OBVIOUS
<1>2. RamRecord(byHand)'
  BY <1>1 DEF GInv, RamRecord
<1> QED BY <1>1, <1>2 DEF GInv

LEMMA NextNative == ASSUME GInv, Native PROVE GInv'
<1>0. CoreInv /\ ChainWhole /\ GTables /\ ChainTypes /\ ConfigType /\ InRange
  BY CoreParts, RecordRange DEF GInv, CorePartsHold, InRange
<1>1. PICK n \in Governed, signed \in {"owner", "active"} :
        \/ NativeNewAccount(n, signed)
        \/ \E p \in NativePermissions :
             \/ NativeUpdateAuth(n, p, "owner", signed)
             \/ NativeDeleteAuth(n, p, signed)
             \/ NativeLinkAuth(n, p)
        \/ NativeUnlinkAuth(n, signed)
        \/ \E limit \in HandLimits : SetALimits(n, limit, signed)
        \/ n \in Coded /\ \E a \in Abis, direct \in BOOLEAN :
                            SetAbi(n, a, signed, direct)
  BY DEF Native
<1>2. n \in Names
  BY NativeBounds
<1>3. CASE NativeNewAccount(n, signed)
  <2>1. UNCHANGED <<config, native, byHand>>
    BY <1>3 DEF NativeNewAccount
  <2> QED BY <1>0, <1>2, <1>3, <2>1, NewAccountNative, TablesKept, GInvStill
<1>4. CASE \/ \E p \in NativePermissions :
                \/ NativeUpdateAuth(n, p, "owner", signed)
                \/ NativeDeleteAuth(n, p, signed)
                \/ NativeLinkAuth(n, p)
           \/ NativeUnlinkAuth(n, signed)
  <2>1. UNCHANGED <<registry, config, limits, native, byHand>>
    BY <1>4 DEF NativeUpdateAuth, NativeDeleteAuth, NativeLinkAuth, NativeUnlinkAuth
  <2>2. CoreInv' /\ ChainWhole'
    BY <1>0, <1>4, UpdateAuthNative, DeleteAuthNative, LinksNative
  <2>3. \A m \in DOMAIN limits : RamHeld(m)' = RamHeld(m)
    BY <2>1 DEF RamHeld, registry
  <2>4. ChainTypes'
    BY <2>2, CorePartsNext DEF CorePartsHold
  <2>5. SumFunction(Held)' = SumFunction(Held)
    BY <1>0, <2>1, <2>3, <2>4, HeldStays
  <2> QED BY <1>0, <2>1, <2>2, <2>5, TablesKept, GInvStill
<1>5. CASE \E limit \in HandLimits : SetALimits(n, limit, signed)
  <2>1. PICK limit \in HandLimits : SetALimits(n, limit, signed)
    BY <1>5
  <2> DEFINE d == limit.ram - limits[n].ram
  <2>2. /\ CoreInv' /\ ChainWhole' /\ d \in Int
        /\ byHand' = byHand + limit.ram - limits[n].ram
        /\ SumFunction(Held)' = SumFunction(Held) + d
    BY <1>0, <2>1, SetALimitsNative
  <2>3. UNCHANGED <<config, native>> /\ n \in DOMAIN limits
    BY <2>1 DEF SetALimits, Exists
  <2>4. byHand' = byHand + d
    <3>1. limit.ram \in Int /\ limits[n].ram \in Int /\ byHand \in Int
      BY <1>0, <2>3, NativeBounds DEF ChainTypes, GInv
    <3> QED BY <2>2, <3>1
  <2> HIDE DEF d
  <2>5. ChainTypes'
    BY <2>2, CorePartsNext DEF CorePartsHold
  <2>6. RamMoves(d)
    BY <1>0, <2>2, <2>3, <2>5, TotalKept
  <2> QED BY <1>0, <2>2, <2>3, <2>4, <2>6, TablesKept, GInvStep
<1>6. CASE n \in Coded /\ \E a \in Abis, direct \in BOOLEAN :
                            SetAbi(n, a, signed, direct)
  <2>1. UNCHANGED <<vars, byHand>>
    BY <1>6 DEF SetAbi
  <2>2. GTables'
    BY <1>0, <1>6, SetAbiTables
  <2>3. CoreInv' /\ ChainWhole' /\ config' = config
    BY <1>0, <2>1, CoreKept, WholeKept DEF vars
  <2>4. SumFunction(Held)' = SumFunction(Held)
    BY <2>1 DEF Held, RamHeld, vars
  <2> QED BY <2>1, <2>2, <2>3, <2>4, GInvStill
<1> QED BY <1>1, <1>3, <1>4, <1>5, <1>6

LEMMA NextGInv == GInv /\ [GNext]_gvars => GInv'
<1> SUFFICES ASSUME GInv, [GNext]_gvars PROVE GInv'
  OBVIOUS
<1>0. CoreInv /\ ChainWhole /\ GTables /\ byHand \in Int /\ InRange
  BY CoreParts, RecordRange DEF GInv, CorePartsHold, InRange
<1>1. ASSUME UNCHANGED <<vars, byHand>>, GTables' PROVE GInv'
  <2>1. CoreInv' /\ ChainWhole' /\ config' = config
    BY <1>0, <1>1, CoreKept, WholeKept DEF vars
  <2>2. SumFunction(Held)' = SumFunction(Held)
    BY <1>1 DEF Held, RamHeld, vars
  <2> QED BY <1>1, <2>1, <2>2, GInvStill
<1>2. CASE \E next \in {"bios", "tonomy"}, signed \in {"owner", "active"},
              direct \in BOOLEAN : SetSystem(next, signed, direct)
  BY <1>0, <1>1, <1>2, SetSystemTables DEF SetSystem
<1>3. CASE Native
  BY <1>3, NextNative
<1>4. ASSUME BalancedStep, UNCHANGED <<native, byHand>> PROVE GInv'
  <2>1. byHand' = byHand + 0
    BY <1>0, <1>4
  <2>2. CoreInv' /\ RamMoves(0) /\ ChainWhole' /\ GTables'
    BY <1>0, <1>4, BalancedCore, BalancedMoves, WholeBalanced, TablesKept
  <2> QED BY <2>1, <2>2, GInvStep
<1>5. CASE GChangeKeys
  <2>1. ASSUME NEW n \in KeyHolders, NEW level \in Levels, NEW link \in BOOLEAN,
               GUpdateKeyPerson(n, level, link)
        PROVE  GInv'
    <3>1. /\ UpdateKeyPerson(n, level, link) /\ UNCHANGED native
          /\ byHand' = byHand - Replaced(n) /\ n \in Names
      BY <2>1, BoundsInNames DEF GUpdateKeyPerson
    <3>2. CoreInv' /\ ChainWhole' /\ GTables'
      BY <1>0, <3>1, UpdateKeyPersonSteps, WholeKey, TablesKept
    <3>3. Replaced(n) \in Int /\ RamMoves(-Replaced(n))
      BY <1>0, <3>1, <3>2, KeyMoves
    <3> DEFINE d == -Replaced(n)
    <3>4. d \in Int /\ byHand' = byHand + d /\ RamMoves(d)
      BY <1>0, <3>1, <3>3
    <3> HIDE DEF d
    <3> QED BY <3>2, <3>4, GInvStep
  <2> QED BY <1>4, <1>5, <2>1 DEF GChangeKeys, BalancedStep
<1>6. ASSUME UNCHANGED vars, UNCHANGED <<native, byHand>> PROVE GInv'
  BY <1>0, <1>1, <1>6, TablesKept
<1>7. CASE Otherwise
  <2>1. ASSUME NEW n \in KeyHolders, UpdateActive(n) PROVE UNCHANGED vars
    BY <1>0, <2>1, UpdateActiveStutters, CoreParts DEF CorePartsHold
  <2> QED BY <1>4, <1>6, <1>7, <2>1 DEF Otherwise, BalancedStep
<1>8. CASE UNCHANGED gvars
  BY <1>6, <1>8 DEF gvars
<1> QED BY <1>2, <1>3, <1>5, <1>7, <1>8 DEF GNext

LEMMA InitGInv == GInit => GInv
<1> SUFFICES ASSUME GInit PROVE GInv
  OBVIOUS
<1>1. Init /\ byHand = 0 /\ system = "boot" /\ abi = EmptyTable /\ abihash = EmptyTable
  BY DEF GInit
<1>2. CoreInv /\ RamRecord(byHand)
  BY <1>1, InitCore, InitRecord
<1>3. GTables
  BY <1>1 DEF GTables, EmptyTable, AbiHashed
<1>4. ChainWhole
  BY <1>1 DEF Init, ChainWhole, BasicPermissions
<1> QED BY <1>1, <1>2, <1>3, <1>4 DEF GInv

LEMMA GInvariant == GSpec => []GInv
<1> QED BY InitGInv, NextGInv, PTL DEF GSpec

(* The types, and that no permission lacks its parent and no link its      *)
(* permission, whatever governance deletes and unlinks.                    *)
THEOREM GovernanceTypeCorrect == GSpec => []GTypeOK
<1>1. GInv => GTypeOK
  BY DEF GInv, CoreInv, GTables, ChainWhole, GTypeOK
<1> QED BY <1>1, GInvariant, PTL

(* total_ram_used is what the accounts hold but for what governance set by *)
(* hand, in every order of native actions and those of tonomy.             *)
THEOREM RamAlwaysReconciled == GSpec => []RamReconciled
<1>1. GInv => RamReconciled
  BY DEF GInv, RamRecord, RamReconciled, Held
<1> QED BY <1>1, GInvariant, PTL

(* Every hash on record is that of the current ABI.                        *)
THEOREM AbiAlwaysHashed == GSpec => []AbiHashed
<1>1. GInv => AbiHashed
  BY DEF GInv, GTables
<1> QED BY <1>1, GInvariant, PTL

(* What a step does to the limits of an active person.                     *)
LEMMA ActiveLimits ==
  ASSUME CoreInv, GNext, NEW p \in DOMAIN people, people[p].status = "Active"
  PROVE  \/ limits'[p] = limits[p]
         \/ \E limit \in HandLimits, signed \in {"owner", "active"} :
              SetALimits(p, limit, signed)
<1> DEFINE Same == limits'[p] = limits[p]
<1>1. ChainTypes /\ RegistryAgrees /\ p \in DOMAIN limits
  BY CoreParts DEF CorePartsHold, RegistryAgrees
<1>2. ASSUME NEW n \in Names, NewAccount(n) PROVE Same
  BY <1>1, <1>2, NewAccountSteps
<1>3. CASE \E next \in {"bios", "tonomy"}, signed \in {"owner", "active"},
              direct \in BOOLEAN : SetSystem(next, signed, direct)
  BY <1>3 DEF SetSystem, vars
<1>4. ASSUME NEW n \in Governed, NEW limit \in HandLimits,
             NEW signed \in {"owner", "active"}, SetALimits(n, limit, signed), n # p
      PROVE  Same
  BY <1>1, <1>4 DEF SetALimits, SetResourceLimits
<1>5. CASE Native
  <2>1. PICK n \in Governed, signed \in {"owner", "active"} :
          \/ NativeNewAccount(n, signed)
          \/ \E q \in NativePermissions :
               \/ NativeUpdateAuth(n, q, "owner", signed)
               \/ NativeDeleteAuth(n, q, signed)
               \/ NativeLinkAuth(n, q)
          \/ NativeUnlinkAuth(n, signed)
          \/ \E limit \in HandLimits : SetALimits(n, limit, signed)
          \/ \E a \in Abis, direct \in BOOLEAN : SetAbi(n, a, signed, direct)
    BY <1>5 DEF Native
  <2>2. CASE NativeNewAccount(n, signed)
    BY <1>2, <2>2, NativeBounds DEF NativeNewAccount
  <2>3. CASE \E limit \in HandLimits : SetALimits(n, limit, signed)
    BY <1>4, <2>3
  <2>4. CASE \/ \E q \in NativePermissions :
                  \/ NativeUpdateAuth(n, q, "owner", signed)
                  \/ NativeDeleteAuth(n, q, signed)
                  \/ NativeLinkAuth(n, q)
             \/ NativeUnlinkAuth(n, signed)
             \/ \E a \in Abis, direct \in BOOLEAN : SetAbi(n, a, signed, direct)
    BY <2>4 DEF NativeUpdateAuth, NativeDeleteAuth, NativeLinkAuth, NativeUnlinkAuth,
                SetAbi, vars
  <2> QED BY <2>1, <2>2, <2>3, <2>4
<1>6. CASE GChangeKeys
  <2>1. ASSUME NEW n \in KeyHolders, NEW level \in Levels, NEW link \in BOOLEAN,
               GUpdateKeyPerson(n, level, link)
        PROVE  Same
    <3>1. CASE IsCreating(n)
      <4>1. n # p
        BY <3>1 DEF IsCreating
      <4> QED BY <1>1, <2>1, <3>1, <4>1
              DEF GUpdateKeyPerson, UpdateKeyPerson, GrantResources, SetResourceLimits
    <3>2. CASE ~IsCreating(n)
      BY <2>1, <3>2 DEF GUpdateKeyPerson, UpdateKeyPerson
    <3> QED BY <3>1, <3>2
  <2> QED BY <1>6, <2>1 DEF GChangeKeys, LoginWithApp
<1>7. CASE Otherwise
  <2>1. CASE Register
    BY <1>2, <2>1, Disjoint
       DEF Register, NewPerson, NewApp, EraseOldApps, AdminSetApp, chain
  <2>2. CASE Trade
    BY <2>2, TradeKeepsPeople DEF Trade
  <2> QED BY <1>7, <2>1, <2>2 DEF Otherwise, UpdateActive, SetResParams, chain
<1> QED BY <1>3, <1>5, <1>6, <1>7 DEF GNext

(* Nobody but governance, by setalimits, changes the limits of an active   *)
(* person: neither further keys nor trades, whomever adminsetapp names.    *)
THEOREM LimitsAlwaysKept == GSpec => LimitsKept
<1>1. ASSUME GInv, [GNext]_gvars
      PROVE  [\A p \in DOMAIN people :
                people[p].status = "Active" /\ limits'[p] # limits[p] =>
                  \E limit \in HandLimits, signed \in {"owner", "active"} :
                    SetALimits(p, limit, signed)]_gvars
  BY <1>1, ActiveLimits DEF GInv
<1> QED BY <1>1, GInvariant, PTL DEF GSpec, LimitsKept
=============================================================================
