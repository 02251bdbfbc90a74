------------------------------ MODULE Staking ------------------------------
(***************************************************************************)
(* The contract staking.tmy, together with what drives it: the token       *)
(* balances its inline transfers move, the block clock, and the onblock    *)
(* action of the system contract (eosio.tonomy) that calls its cron.       *)
(*                                                                         *)
(* One action below is one transaction: an Antelope transaction runs its   *)
(* action and the inline actions it sends one after the other, and either  *)
(* all of them take effect or none does.  A failed check is a disabled     *)
(* action.  Time is counted in block slots of BLOCK_INTERVAL (half a       *)
(* second); every time_point the contract stores is the time of a block.   *)
(***************************************************************************)
EXTENDS TokenTransfer, Tables

CONSTANTS
  LowestPerson, HighestPerson,  \* LOWEST_PERSON_NAME and HIGHEST_PERSON_NAME
  StakingTmy, InfraTmy,         \* the accounts staking.tmy and infra.tmy
  OtherAccounts,                \* these two and the others that are no person
  MaxAllocations,               \* MAX_ALLOCATIONS
  LockupPeriod, ReleasePeriod,  \* LOCKUP_PERIOD and RELEASE_PERIOD, in slots
  CronPeriod, StakingCycle,     \* CRON_PERIOD and STAKING_CYCLE, in slots
  Year,                         \* MICROSECONDS_PER_YEAR, in slots
  MinimumTransfer,              \* MINIMUM_TRANSFER
  MaxAmount,                    \* asset::max_amount
  BuildTest,                    \* TRUE in a BUILD_TEST build
  InitialBalance,               \* the TONO balances when the contract is set
  Quantities,                   \* bound: the amounts that callers name
  Payers,                       \* bound: who makes transfers of its own
  MaxTime,                      \* bound: the last slot
  MaxMissed                     \* bound: slots in a row without a block

Persons == LowestPerson .. HighestPerson
Accounts == Persons \cup OtherAccounts

ASSUME NamesAssumption ==
  /\ LowestPerson \in Int /\ HighestPerson \in Int
  /\ LowestPerson <= HighestPerson
  /\ StakingTmy \in OtherAccounts /\ InfraTmy \in OtherAccounts
  /\ StakingTmy # InfraTmy
  /\ Persons \cap OtherAccounts = {}
  /\ IsFiniteSet(OtherAccounts)

ASSUME PeriodsAssumption ==
  /\ LockupPeriod \in Nat /\ ReleasePeriod \in Nat
  /\ CronPeriod \in Nat \ {0} /\ StakingCycle \in Nat \ {0}
  /\ CronPeriod <= StakingCycle
  /\ Year \in Nat \ {0}
  /\ MaxTime \in Nat /\ MaxMissed \in Nat

ASSUME AmountsAssumption ==
  /\ MaxAllocations \in Nat
  /\ MinimumTransfer \in Nat \ {0}
  /\ MaxAmount \in Nat
  /\ Quantities \subseteq Nat
  /\ Payers \subseteq Accounts \ {StakingTmy}
  /\ BuildTest \in BOOLEAN
  /\ InitialBalance \in [Accounts -> Nat]
  /\ SumFunction(InitialBalance) <= MaxAmount

VARIABLES
  now,       \* current_time_point(), in slots
  balance,   \* the TONO balances kept by eosio.token
  settings,  \* the singleton settings_table_instance
  accounts,  \* staking_accounts_table: the row of each staker in it
  allocs     \* staking_allocations_table: for each scope, its rows by id

vars == <<now, balance, settings, accounts, allocs>>
----------------------------------------------------------------------------
(* The rows.                                                               *)

Settings == [exists : BOOLEAN, current_yield_pool : Int,
             yearly_stake_pool : Nat, total_staked : Int,
             total_releasing : Int]

NoSettings == [exists |-> FALSE, current_yield_pool |-> 0,
               yearly_stake_pool |-> 0, total_staked |-> 0,
               total_releasing |-> 0]

Allocation == [initial_stake : Nat, tokens_staked : Nat, stake_time : Nat,
               unstake_time : Nat, unstake_requested : BOOLEAN]

StakingAccount == [total_yield : Nat, last_payout : Nat]

Init ==
  /\ now = 0
  /\ balance = InitialBalance
  /\ settings = NoSettings
  /\ accounts = EmptyTable
  /\ allocs = [a \in Persons |-> EmptyTable]
----------------------------------------------------------------------------
(* The administrator's and the sponsors' actions.                          *)

SetSettings(yearly) ==
  /\ yearly > 0
  /\ settings' = [settings EXCEPT !.exists = TRUE,
                                  !.yearly_stake_pool = yearly]
  /\ UNCHANGED <<now, balance, accounts, allocs>>

(* Mutant: the pool is credited twice, before and after the transfer.      *)
AddYieldTwice(sender, quantity) ==
  /\ quantity >= MinimumTransfer
  /\ settings.exists
  /\ CanTransfer(balance, sender, StakingTmy, quantity)
  /\ settings' = [settings EXCEPT !.current_yield_pool = @ + 2 * quantity]
  /\ balance' = AfterTransfer(balance, sender, StakingTmy, quantity)
  /\ UNCHANGED <<now, accounts, allocs>>

AddYield(sender, quantity) ==
  /\ quantity >= MinimumTransfer
  /\ settings.exists
  /\ settings.current_yield_pool + quantity <= MaxAmount
  /\ CanTransfer(balance, sender, StakingTmy, quantity)
  /\ settings' = [settings EXCEPT !.current_yield_pool = @ + quantity]
  /\ balance' = AfterTransfer(balance, sender, StakingTmy, quantity)
  /\ UNCHANGED <<now, accounts, allocs>>

(* resetall, compiled only in a test build: every staking account and its  *)
(* allocations go, and what the settings say the contract holds is sent to *)
(* infra.tmy.                                                              *)
ResetAll ==
  LET total == settings.total_staked + settings.total_releasing
                 + settings.current_yield_pool
  IN  /\ BuildTest
      /\ accounts' = EmptyTable
      /\ allocs' = [a \in Persons |-> IF a \in DOMAIN accounts
                                      THEN EmptyTable ELSE allocs[a]]
      /\ settings' = NoSettings
      /\ \/ /\ settings.exists
            /\ CanTransfer(balance, StakingTmy, InfraTmy, total)
            /\ balance' = AfterTransfer(balance, StakingTmy, InfraTmy, total)
         \/ /\ ~settings.exists
            /\ UNCHANGED balance
      /\ UNCHANGED now
----------------------------------------------------------------------------
(* The stakers' actions.                                                   *)

NewAllocation(quantity) ==
  [initial_stake |-> quantity, tokens_staked |-> quantity,
   stake_time |-> now, unstake_time |-> 0, unstake_requested |-> FALSE]

(* Mutants: a stake writes the account row anew, or never writes one.      *)
AccountRowRenewed(staker) ==
  WithRow(accounts, staker, [total_yield |-> 0, last_payout |-> now])

AccountRowForgotten(staker) == accounts

AccountsAfterStake(staker) ==
  IF staker \in DOMAIN accounts THEN accounts
  ELSE WithRow(accounts, staker, [total_yield |-> 0, last_payout |-> now])

StakeTokens(staker, quantity) ==
  /\ staker \in Persons
  /\ quantity >= MinimumTransfer
  /\ Cardinality(DOMAIN allocs[staker]) < MaxAllocations
  /\ settings.exists
  /\ settings.total_staked + quantity <= MaxAmount
  /\ CanTransfer(balance, staker, StakingTmy, quantity)
  /\ CanEmplace(allocs[staker], AvailablePrimaryKey(allocs[staker]))
  /\ allocs' = [allocs EXCEPT
                  ![staker] = WithRow(@, AvailablePrimaryKey(@),
                                      NewAllocation(quantity))]
  /\ accounts' = AccountsAfterStake(staker)
  /\ settings' = [settings EXCEPT !.total_staked = @ + quantity]
  /\ balance' = AfterTransfer(balance, staker, StakingTmy, quantity)
  /\ UNCHANGED now

Requested(row) ==
  [row EXCEPT !.unstake_requested = TRUE, !.unstake_time = now]

RequestUnstake(staker, id) ==
  LET row == allocs[staker][id]
  IN  /\ id \in DOMAIN allocs[staker]
      /\ ~row.unstake_requested
      /\ row.stake_time + LockupPeriod <= now
      /\ settings.total_releasing + row.tokens_staked <= MaxAmount
      /\ allocs' = [allocs EXCEPT
                      ![staker] = [@ EXCEPT ![id] = Requested(row)]]
      /\ settings' = [settings EXCEPT
                        !.total_staked = @ - row.tokens_staked,
                        !.total_releasing = @ + row.tokens_staked]
      /\ UNCHANGED <<now, balance, accounts>>

(* Mutant: the release period is not waited for.                           *)
ReleasableAtOnce(row, t) == row.unstake_requested

Releasable(row, t) ==
  row.unstake_requested /\ row.unstake_time + ReleasePeriod <= t

(* releasetoken and the _releasetoken it calls.  _releasetoken reads       *)
(* allocation->tokens_staked after it erased the row; the object it reads  *)
(* is the erased row's, and the CDT's free() leaves its bytes alone.       *)
ReleaseToken(staker, id) ==
  LET row == allocs[staker][id]
  IN  /\ id \in DOMAIN allocs[staker]
      /\ Releasable(row, now)
      /\ CanTransfer(balance, StakingTmy, staker, row.tokens_staked)
      /\ settings' = [settings EXCEPT
                        !.total_releasing = @ - row.tokens_staked]
      /\ allocs' = [allocs EXCEPT ![staker] = WithoutRows(@, {id})]
      /\ balance' = AfterTransfer(balance, StakingTmy, staker,
                                  row.tokens_staked)
      /\ UNCHANGED <<now, accounts>>
----------------------------------------------------------------------------
(* cron.  A cycle is divided into CronIntervals periods, and the names of  *)
(* persons into as many ranges; the cron of a period pays the stakers in   *)
(* that period's range.                                                    *)

CronIntervals == StakingCycle \div CronPeriod

CronInterval(t) == (t % StakingCycle) \div CronPeriod

RangeSize == (HighestPerson - LowestPerson) \div CronIntervals

LowerBound(k) == LowestPerson + k * RangeSize

(* Mutant: the last range ends like the others.                            *)
UpperBoundRegular(k) == LowerBound(k) + RangeSize

UpperBound(k) ==
  IF k = CronIntervals - 1 THEN HighestPerson + 1 ELSE LowerBound(k) + RangeSize

NameRange(k) == {a \in Persons : LowerBound(k) <= a /\ a < UpperBound(k)}

Batch(t) == DOMAIN accounts \cap NameRange(CronInterval(t))

(* The payout is less than 1.01 cron periods old.                          *)
PaidRecently(a, t) ==
  100 * (t - accounts[a].last_payout) < 101 * CronPeriod

(* The loop visits the batch in the order of names and leaves cron for     *)
(* good at the first account that was paid recently.                       *)
Processed(t) ==
  {a \in Batch(t) : \A b \in Batch(t) : b <= a => ~PaidRecently(b, t)}

(* min(yearly_stake_pool / total_staked, MAX_APY) as a fraction.  When     *)
(* nothing is staked the quotient is infinite and the minimum MAX_APY.     *)
Apy ==
  IF settings.total_staked <= settings.yearly_stake_pool
  THEN [num |-> 1, den |-> 1]
  ELSE [num |-> settings.yearly_stake_pool, den |-> settings.total_staked]

(* trunc(tokens * ((1+apy)^(elapsed/Year) - 1)), with the curve            *)
(* (1+apy)^x - 1 replaced by the line apy * x, which meets it at x = 0 and *)
(* x = 1 and is above it between.                                          *)
IntervalYield(tokens, apy, elapsed) ==
  (tokens * apy.num * elapsed) \div (apy.den * Year)

(* Mutant: rows that are being released go on earning.                     *)
YieldToEveryRow(a, row, t) ==
  IntervalYield(row.tokens_staked, Apy, t - accounts[a].last_payout)

RowYield(a, row, t) ==
  IF row.unstake_requested THEN 0
  ELSE IntervalYield(row.tokens_staked, Apy, t - accounts[a].last_payout)

AccountYield(a, t) ==
  SumFunction([id \in DOMAIN allocs[a] |-> RowYield(a, allocs[a][id], t)])

Released(a, t) == {id \in DOMAIN allocs[a] : Releasable(allocs[a][id], t)}

AccountRelease(a, t) ==
  SumFunctionOnSet([id \in DOMAIN allocs[a] |-> allocs[a][id].tokens_staked],
                   Released(a, t))

BatchYield(t) ==
  SumFunction([a \in Processed(t) |-> AccountYield(a, t)])

BatchRelease(t) ==
  SumFunction([a \in Processed(t) |-> AccountRelease(a, t)])

Grown(row, yield) == [row EXCEPT !.tokens_staked = @ + yield]

(* Mutant: a row that is paid is not erased.                               *)
RowsPaidStay(a, t) ==
  [id \in DOMAIN allocs[a] |->
     Grown(allocs[a][id], RowYield(a, allocs[a][id], t))]

RowsAfterCron(a, t) ==
  [id \in DOMAIN allocs[a] \ Released(a, t) |->
     Grown(allocs[a][id], RowYield(a, allocs[a][id], t))]

(* Mutant: nobody asks whether the contract can pay the releases.          *)
CronNeverFails(t) == settings.exists

(* No check fails: the settings exist, the contract can pay every release, *)
(* and no amount leaves the range of an asset.                             *)
CronSucceeds(t) ==
  /\ settings.exists
  /\ BatchRelease(t) <= balance[StakingTmy]
  /\ settings.total_staked + BatchYield(t) <= MaxAmount
  /\ settings.current_yield_pool - BatchYield(t) >= -MaxAmount
  /\ \A a \in Processed(t) :
       accounts[a].total_yield + AccountYield(a, t) <= MaxAmount

(* cron with, for each account it reaches, create_account_yield: yield is  *)
(* added to the rows that are not unstaking, the rows whose release period *)
(* is over are paid out and erased, and only an account that did get yield *)
(* has its last_payout moved.                                              *)
Cron(t) ==
  /\ CronSucceeds(t)
  /\ allocs' = [a \in Persons |-> IF a \in Processed(t)
                                  THEN RowsAfterCron(a, t) ELSE allocs[a]]
  /\ accounts' = [a \in DOMAIN accounts |->
                    IF a \in Processed(t) /\ AccountYield(a, t) # 0
                    THEN [total_yield |-> accounts[a].total_yield
                                            + AccountYield(a, t),
                          last_payout |-> t]
                    ELSE accounts[a]]
  /\ settings' = [settings EXCEPT
                    !.total_staked = @ + BatchYield(t),
                    !.current_yield_pool = @ - BatchYield(t),
                    !.total_releasing = @ - BatchRelease(t)]
  /\ balance' = [a \in Accounts |->
                   IF a \in Processed(t) THEN balance[a] + AccountRelease(a, t)
                   ELSE IF a = StakingTmy THEN balance[a] - BatchRelease(t)
                   ELSE balance[a]]

(* cron called by hand, with the authority of staking.tmy.                 *)
CronByHand == Cron(now) /\ UNCHANGED now
----------------------------------------------------------------------------
(* The chain.                                                              *)

(* Mutant: the first slot of a period taken for the last one.              *)
LastOfPeriod(t) == t \div CronPeriod # (t + 1) \div CronPeriod

(* onblock sends cron when the slot before this block's belongs to an      *)
(* earlier cron period, whether or not that slot had a block.              *)
FirstOfPeriod(t) == t \div CronPeriod # (t - 1) \div CronPeriod

(* A block in the next slot, or after missed slots, begins with onblock.   *)
(* When onblock fails, the block is produced without its effect.           *)
Block ==
  \E t \in now + 1 .. now + 1 + MaxMissed :
    /\ t <= MaxTime
    /\ now' = t
    /\ \/ FirstOfPeriod(t) /\ Cron(t)
       \/ /\ ~(FirstOfPeriod(t) /\ CronSucceeds(t))
          /\ UNCHANGED <<balance, settings, accounts, allocs>>

(* The other accounts may transfer their tokens, to staking.tmy as well;   *)
(* staking.tmy signs nothing but its own inline transfers.                 *)
Transfer(from, to, quantity) ==
  /\ CanTransfer(balance, from, to, quantity)
  /\ balance' = AfterTransfer(balance, from, to, quantity)
  /\ UNCHANGED <<now, settings, accounts, allocs>>

(* A transaction that someone other than the block scheduler sends.        *)
Call ==
  \/ \E q \in Quantities : SetSettings(q)
  \/ \E a \in Accounts, q \in Quantities : AddYield(a, q)
  \/ \E a \in Accounts, q \in Quantities : StakeTokens(a, q)
  \/ \E a \in Persons : \E id \in DOMAIN allocs[a] : RequestUnstake(a, id)
  \/ \E a \in Persons : \E id \in DOMAIN allocs[a] : ReleaseToken(a, id)
  \/ \E a \in Payers, b \in Accounts, q \in Quantities : Transfer(a, b, q)
  \/ ResetAll

Next == Call \/ CronByHand \/ Block

Spec == Init /\ [][Next]_vars
----------------------------------------------------------------------------
(* Properties.                                                             *)

IsAllocationTable(table) ==
  /\ DOMAIN table \subseteq Nat
  /\ IsFiniteSet(DOMAIN table)
  /\ table \in [DOMAIN table -> Allocation]

(* Type invariant of the five state variables (staking.tmy.hpp:119-159 and *)
(* the balance table).                                                     *)
TypeOK ==
  /\ now \in 0 .. MaxTime
  /\ balance \in [Accounts -> Nat]
  /\ settings \in Settings
  /\ DOMAIN accounts \subseteq Persons
  /\ accounts \in [DOMAIN accounts -> StakingAccount]
  /\ allocs = [a \in Persons |-> allocs[a]]
  /\ \A a \in Persons : IsAllocationTable(allocs[a])

(* What the rows of one staker's table hold: what is staked, what is being *)
(* released, and what yield has added to them.                             *)
StakedIn(table) ==
  SumFunction([id \in DOMAIN table |-> IF table[id].unstake_requested THEN 0
                                       ELSE table[id].tokens_staked])

ReleasingIn(table) ==
  SumFunction([id \in DOMAIN table |-> IF table[id].unstake_requested
                                       THEN table[id].tokens_staked ELSE 0])

GrowthOf(table) ==
  SumFunction([id \in DOMAIN table |->
                 table[id].tokens_staked - table[id].initial_stake])

(* The running totals in the settings, which five handlers adjust one by   *)
(* one, always equal the sums over the allocation rows of every staker.    *)
TotalsMatchRows ==
  /\ settings.total_staked = SumFunction([a \in Persons |-> StakedIn(allocs[a])])
  /\ settings.total_releasing
       = SumFunction([a \in Persons |-> ReleasingIn(allocs[a])])

(* The contract's token balance covers its books: what is staked, what is  *)
(* being released and the yield pool (a negative pool being yield that was *)
(* promised without funds).                                                *)
Custody ==
  balance[StakingTmy] >= settings.current_yield_pool + settings.total_staked
                           + settings.total_releasing

(* Every owner of an allocation has a row in the accounts table, so that   *)
(* cron, which walks that table, reaches every allocation.                 *)
StakersListed ==
  \A a \in Persons : DOMAIN allocs[a] # {} => a \in DOMAIN accounts

(* While the yield pool is not overdrawn, no release that is due can fail  *)
(* for want of funds.                                                      *)
DueReleasePayable ==
  settings.current_yield_pool >= 0 =>
    \A a \in Persons : \A id \in Released(a, now) :
      CanTransfer(balance, StakingTmy, a, allocs[a][id].tokens_staked)

(* What a staker's rows have grown by is yield the account row has on      *)
(* record (total_yield, "the total amount of yield ever received").        *)
GrowthOnRecord ==
  \A a \in DOMAIN accounts : GrowthOf(allocs[a]) <= accounts[a].total_yield

(* What the proofs need besides: a row never falls below what was put in,  *)
(* its unstaking is requested after the lockup, and no payout lies ahead.  *)
IsSoundTable(table) ==
  \A id \in DOMAIN table :
    /\ table[id].initial_stake >= MinimumTransfer
    /\ table[id].tokens_staked >= table[id].initial_stake
    /\ table[id].unstake_requested =>
         table[id].stake_time + LockupPeriod <= table[id].unstake_time

RowsSound ==
  /\ \A a \in Persons : IsSoundTable(allocs[a])
  /\ \A a \in DOMAIN accounts : accounts[a].last_payout <= now

(* The inductive invariant.                                                *)
IInv ==
  /\ TypeOK
  /\ TotalsMatchRows
  /\ Custody
  /\ StakersListed
  /\ GrowthOnRecord
  /\ RowsSound

(* An allocation disappears only after it was locked for LOCKUP_PERIOD and *)
(* then released for RELEASE_PERIOD, and in that step its owner's balance  *)
(* grows by exactly the tokens of the rows that go (resetall, which wipes  *)
(* the settings, excepted).                                                *)
Gone(a) == DOMAIN allocs[a] \ DOMAIN allocs'[a]

PaidWhenGone ==
  \A a \in Persons :
    Gone(a) # {} /\ settings'.exists =>
      /\ \A id \in Gone(a) :
           /\ allocs[a][id].unstake_requested
           /\ allocs[a][id].stake_time + LockupPeriod + ReleasePeriod <= now'
      /\ balance'[a] = balance[a] +
           SumFunctionOnSet([id \in DOMAIN allocs[a] |->
                               allocs[a][id].tokens_staked], Gone(a))

LockupHonoured == [][PaidWhenGone]_vars

(* A row that is being released is frozen until it goes, whatever cron,    *)
(* other stakes of its owner (that may be given its neighbours' ids) or    *)
(* other requests do.                                                      *)
ReleasingRowFrozen ==
  \A a \in Persons : \A id \in DOMAIN allocs[a] \cap DOMAIN allocs'[a] :
    allocs[a][id].unstake_requested => allocs'[a][id] = allocs[a][id]

ReleaseFrozen == [][ReleasingRowFrozen]_vars

(* hpp:99 promises that unstaking is finalized after the release period:   *)
(* a release that is due, of a row that earned nothing, so of what its     *)
(* owner put in and no more, can be paid.  It cannot once cron granted     *)
(* another staker yield that the pool did not have (hpp:121, "the amount   *)
(* of tokens available for staking yield"; cron does not ask whether it is *)
(* there) and that staker was paid it out of this one's deposit.           *)
ReleaseFinal ==
  \A a \in Persons : \A id \in Released(a, now) :
    allocs[a][id].tokens_staked = allocs[a][id].initial_stake =>
      CanTransfer(balance, StakingTmy, a, allocs[a][id].tokens_staked)

(* hpp:61-62 caps the yield at 100% a year: in one step a row earns no     *)
(* more than that rate gives for the time it has been staked.  cron counts *)
(* from the account's last payout instead, which may be long before the    *)
(* row was made.                                                           *)
YieldWithinApy ==
  \A a \in Persons : \A id \in DOMAIN allocs[a] \cap DOMAIN allocs'[a] :
    allocs'[a][id].tokens_staked - allocs[a][id].tokens_staked
      <= IntervalYield(allocs[a][id].tokens_staked, [num |-> 1, den |-> 1],
                       now' - allocs[a][id].stake_time)

ApyCapped == [][YieldWithinApy]_vars

(* What is kept for each staker is a claim on the contract as Custodian    *)
(* has it: a stake, a release, a cron over many stakers, or anybody's      *)
(* resetall, in whatever order, moves nothing from one staker's claim to   *)
(* another's, pays nobody but the owner, and grants yield out of the pool  *)
(* only (cpp:66-182, 190-320).                                             *)
Claim(table) ==
  SumFunction([id \in DOMAIN table |-> table[id].tokens_staked])

Claims == [a \in Persons |-> Claim(allocs[a])]

Books == INSTANCE Custodian
  WITH Wallets <- Accounts, Clients <- Persons, Keeper <- StakingTmy,
       Refundees <- {}, Sweepers <- IF BuildTest THEN {InfraTmy} ELSE {},
       wallet <- balance, claim <- Claims, pool <- settings.current_yield_pool

KeepsStakes == Books!CustodianSpec
=============================================================================
