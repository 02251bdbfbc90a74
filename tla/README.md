# Tonomy contracts: a TLA+ development

This directory holds TLA+ models of the smart contracts under `contracts/`,
TLC configurations that check them on small instances, and proofs that TLAPS
checks for every value of the parameters. `PROJECT.json` lists the runs, the
properties, the mutants that show that each property can fail, the source lines
every definition stands for, the hazards and the theorems.

File names below are short for
`S` = `contracts/staking.tmy/src/staking.tmy.cpp` (`SH` its header),
`T` = `contracts/eosio.token/src/eosio.token.cpp`,
`V` = `contracts/vesting.tmy/src/vesting.tmy.cpp` (`VH` its header),
`G` = `contracts/eosio.msig/src/eosio.msig.cpp`,
`B` = `contracts/eosio.tonomy/src/eosio.tonomy.cpp`,
`X` = `contracts/tonomy/src/tonomy.cpp`,
`N` = `contracts/tonomy/src/native.cpp`,
`D` = `contracts/demo.tmy/src/demo.tmy.cpp`.

## 1. The system

The repository is a set of Antelope (EOSIO) contracts. A *transaction* runs one
action and the inline actions it sends, one after the other, and takes effect
as a whole or not at all. Transactions are serial; what makes them hard is the
order in which independent callers send them, the time between them, that one
failing inline action undoes everything around it, and that every contract
trusts state it wrote many transactions ago.

| component | state it keeps | operations | talks to | what makes it correct |
|---|---|---|---|---|
| `staking.tmy` | settings (pool, yearly pool, totals), a row per staker, a table of allocations per staker | `setsettings addyield staketokens requnstake releasetoken cron` (`resetall` in test builds) | sends `eosio.token::transfer`; `cron` is sent by `eosio.tonomy::onblock` | totals equal the rows, the balance covers what is owed, releases are paid after lockup and release period, exactly once, exactly their amount, and eventually |
| `eosio.token` | a stats row per symbol, a table of balances per account | `create issue retire transfer open close migratestats migrateacc` | called by everybody | supply equals the sum of balances; nothing is lost or made by a transfer, a closed row or the migration of symbols |
| `vesting.tmy` | dates, a table of allocations per holder; the categories are constants | `setsettings assigntokens withdraw migratealloc migrateacc` | sends `eosio.token::transfer` | the balance covers what is allocated and unpaid; nothing is paid before its cliff; every withdraw can be paid; what was paid is not forgotten |
| `eosio.msig` | proposals, approvals (two formats), invalidations | `propose approve unapprove cancel exec invalidate` | asks the chain whether permissions suffice; sends the proposed actions | only approvals that stand, for this very transaction, are counted; they suffice when it runs; delays are served |
| `eosio.tonomy` | the hash of the ABI of each account | native actions guarded by `check_sender` (`B:5-139`), `onblock` | sends `staking.tmy::cron`; the chain's own handlers do the native work | cron is sent once in every period; a hash on record is that of the ABI in force |
| `tonomy` (people, apps, RAM) | people, apps, account types, resource totals | `newperson newapp adminsetapp updatekeyper updateactive loginwithapp setresparams buyram sellram` ... | creates accounts and permissions, transfers tokens | names and origins are unique, the RAM total matches what was granted, what a person was granted stays hers |
| `tonomy` native proxy | none | `newaccount updateauth deleteauth linkauth unlinkauth setalimits setabi setcode` ... for the governance account | forwards to `eosio` | what governance changes by hand leaves permissions whole and can be told from what was granted |
| `eosio.boot`, `eosio.bios` | none; ABI hashes | the native actions before `eosio.tonomy`, unguarded | replaced by the next contract of `eosio` | the table of hashes is left to the next contract in order |
| `demo.tmy` | as `eosio.token` | those of `eosio.token` without migration, `selfissue` | called through the login permission of an app | no more than the maximum circulates |
| set-up scripts | none | start a node, deploy contracts | - | - |

The hard behaviours, with their lines, are the `hazards` of `PROJECT.json`.
The recurring kinds are: running totals adjusted by several handlers (`S:98`,
`T:44`); a cron that must reach everybody though it works on a range of names at
a time, may be missed, may fail and returns early (`S:197`, `S:214`, `B:150`);
keys handed out again (`S:75`, `G:218`); values computed from what was stored
under other circumstances (`S:226`, `V:126`, `G:261`); migrations that meet
ordinary actions in any order (`T:186`, `T:205`); two contracts that
write the same limits and permissions of the chain (`X:319`, `N:62`, `N:119`).

## 2. The modules

| module | models | state |
|---|---|---|
| `Tables` | a `multi_index` table in one scope: a function from keys to rows; `available_primary_key`, and what `emplace` refuses | - |
| `TokenTransfer` | `eosio.token::transfer` as an inline action of others: when it succeeds and what it leaves | - |
| `TokenLedger` | what a token promises: holdings that move, are minted and burnt | `held supply` |
| `Custodian` | what a contract promises that keeps tokens for others: claims grow by deposits and yield, shrink by what the client is paid | `wallet claim pool` |
| `Staking` | all of `staking.tmy`, with `onblock` (`B:141-165`), the block clock and the TONO balances | `now balance settings accounts allocs` |
| `StakingHistory` | `Staking` with history variables about cron, and fairness | `+ visited cronCall skipped disturbed` |
| `EosioToken` | all of `eosio.token`, its two migrations included | `stats accounts` |
| `TokenHistory` | `EosioToken` with the tokens that the migration drops from the record or brings back to it, and the ledger it implements | `+ unrecorded` |
| `DemoToken` | the two token contracts side by side: `demo.tmy` shares the actions of `eosio.token` and adds `selfissue` | `+ contract` |
| `Vesting` | all of `vesting.tmy` over the TONO balances | `now balance settings allocs` |
| `Msig` | all of `eosio.msig`, with the chain's authorities and clock | `now policy proposals approvals invalidations` |
| `MsigHistory` | `Msig` with what each level stands by, and since when approvals suffice | `+ standing enoughAt` |
| `Tonomy` | the people, apps and RAM of `tonomy` (`X`), with what the chain does with accounts, permissions and limits | `people apps appsv2 acctypes config limits perms links balance` |
| `Governance` | `Tonomy` composed with the native proxy (`N`), the guards and handlers of `eosio.tonomy` (`B`) and the contracts that `eosio` has before it | `+ system abi abihash byHand` |
| `MC...` | the instances that TLC checks | |
| `SumTheorems` | facts about sums over functions | |
| `StakingProofs`, `EosioTokenProofs`, `VestingProofs`, `MsigProofs`, `AbstractProofs`, `TonomyProofs`, `RamProofs` | the proofs; `EosioTokenProofs` is about `DemoToken`, `AbstractProofs` about `TokenLedger` and `Custodian`, `RamProofs` about the RAM of `Tonomy` and about `Governance` | |

How they build on each other: `Staking`, `Vesting` and `Tonomy` send
`eosio.token::transfer` as the inline action of `TokenTransfer`;
`StakingHistory`, `MsigHistory` and `TokenHistory` add history variables, which
no guard reads; `DemoToken` refines `TokenLedger`, and its `Transfer` is shown to
be what `TokenTransfer` says; `Staking` and `Vesting` refine `Custodian` (instance
`Books` in each); `Governance` extends `Tonomy`, so that what governance does and what `tonomy` does meet in the same limits,
permissions and links.

One TLA+ action is one transaction. Its conjuncts are the checks in the code's
order (a failed `check`, a failed `get` or a failed inline transfer disables the
action), its primed variables the rows written. `require_auth` is expressed by
who appears as the parameter: an action's `sender`, `staker` or `key` has signed.

What is abstracted, and how:

* **Amounts** are integers; the bound of an `asset` is kept as `MaxAmount`, and
  every addition that the asset operations check has its conjunct. The memo and
  the symbol checks of callers that always pass the system symbol are left out.
* **Time** is counted in block slots (half a second). The periods of the
  code are parameters; `CronPeriod <= StakingCycle` is all that is assumed of
  them, but for `ReleasesPaidWithinCycle`, which assumes `PeriodsRegular`.
* **Names** of persons are integers, because cron divides the interval of names
  by arithmetic; all others are model values.
* **The yield curve** `(1+apy)^x - 1` is replaced by the line `apy * x` that
  meets it at 0 and at one year (`S:235`), `trunc` by integer division. The
  properties do not depend on the curve, except `ApyCapped`, where the line is
  the more generous one for elapsed times below a year and the run's
  counterexample exceeds even that.
* **The vested share** is computed exactly instead of in doubles (`V:113-118`).
* `_releasetoken` reads a row through an iterator that was erased (`S:147-150`).
  The object is destroyed by then; with the CDT's allocator the amount read is
  still the row's, and the model takes that.
* **In `eosio.msig`** packed transactions are model values with a delay and an
  expiration; who must sign is a set of sufficient sets of levels, closed under
  adding levels, which the chain may replace at any time (`UpdateAuth`). A list
  of requested levels is a set. Rows written by the earlier version of the
  contract (no times, no `earliest_exec_time`) exist only at the start. The
  times of old approvals are written 0, which no invalidation precedes, so that
  one rule covers both tables.
* **In `tonomy`** a hash stands for what it is a hash of, and how a name is drawn
  (`X:48-88`) is a choice among the names of the right type; a name that is
  taken fails in the chain, as there. Of a permission its name and parent are
  kept; keys, weights and signatures are left out, so that `updateactive` checks
  what the chain checks and changes nothing that is kept. Prices and fees are
  fractions instead of doubles. A `uint64_t` has `TwoTo64` values, and the
  signed limits are read from its bits (`AsInt64`). What the chain
  refuses (a limit below -1 or below what an account occupies, a permission
  under another parent, the same link twice) is modelled in `SetResourceLimits`, `UpdateAuth` and `LinkAuth`.
* **In `Governance`** a hash stands for its ABI, and an ABI for its name. Who
  signed for governance is a parameter (`signed`), checked by `CheckSender` once
  `eosio.tonomy` is in place; the contracts before it take what the chain lets
  pass. `SetSystem` sets `eosio.bios` after `eosio.boot`, and from then on either
  of `eosio.bios` and `eosio.tonomy` in place of the other, any number of times
  (`B:52-64`). `eosio.boot` is not set again: it keeps no hashes, so those on
  record would go stale. That no permission loses its parent and no link its
  permission (`GTypeOK`) is the work of the chain's handlers as they are modelled
  here; the contracts do not check it. What only reaches an intrinsic that nothing reads (`setpriv`,
  `setprods`, `setparams`, `activate`, `setcode` of other accounts) is left out.
* **In `DemoToken`** the signers (an account, or its permission named after the
  contract) and the payers of rows are left out; without them the actions that
  the two contracts share are the same, and are used twice.
* What the executed transaction of a proposal does is outside of the contract;
  if it fails, nothing has happened.

## 3. The runs

All runs leave deadlock unchecked: each model stops at its time bound or when
all tokens are spent.

| run | instance | checks |
|---|---|---|
| `staking` | names 1..3 in two ranges, one staker with two stakes' worth, a sponsor who may feed the pool or give another person tokens, two rows each, five slots, a slot may be missed, test build | `TypeOK`, `TotalsMatchRows`, `Custody`, `StakersListed`, `GrowthOnRecord`, `DueReleasePayable`, `LockupHonoured`, `ReleaseFrozen`, and `KeepsStakes`: it implements `Custodian` |
| `staking_history` | two stakers, both in the last of two ranges (the first is empty, so that only the remainder rule of the last one serves them), eight slots of which single ones may be missed, fair blocks | `PaidWithinCycle`, `CronWithoutMisses`, `UnstakingCompletes` |
| `token` | either token contract, issuer and holder, two symbols, amounts up to 3, the migration in any order among the rest | `HTypeOK`, `SupplyIsCirculating`, `WithinMaximum`, and `SystemTokenIsLedger`: both contracts implement `TokenLedger`; `InlineTransfers`: `transfer` succeeds when, and does what, the contracts that send it inline assume |
| `vesting` | a sponsor, who also pays others directly, and two holders, a row from before the upgrade, categories with a delay, a cliff, an unlock at the start and none of them, four moments | `TypeOK`, `Custody`, `WithdrawPayable`, `ScheduleHonoured`, `PaymentsRemembered`, and `KeepsAllocations`: it implements `Custodian`; all under `CarefulSpec` |
| `msig` | one name, two approvers, one old proposal, a transaction with a delay of one second (two slots) and one without, authorities that ask for either or both | `TypeOK`, `CountedStand`, `StandingCount`, `ExecutedWithConsent`, `DelayServed` |
| `tonomy` | two persons and an app to be made, another account, two usernames and origins, a DAO with three units, prices that change, up to four permissions each | `TypeOK`, `NamesUnique`, `RegistryAgrees`, `StatusMatchesKeys`, `LoginsNameApps`, `RamAccounted` (modulo 2^64; that no sale wraps the total is the bound -1 of `TypeOK`, which the chain enforces) |
| `governance` | one person, whom the administrator may also name as an app, one app, one system account, the three contracts of `eosio` (the last two in turn), keys, links, two settings of limits and two ABIs that governance may give, a `uint64_t` of 16 values | `GTypeOK`, `RamReconciled`, `LimitsKept`, `AbiHashed` |
| five violation runs | see section 5 | one property each |

Why the bounds are enough. Cron periods are two slots and a cycle two periods,
so that in five to eight slots every range is visited more than once, a lockup
(2 slots) and a release (1 slot) pass, the key of a released row is handed out
again while its neighbour is being released, and yield is paid twice. A stake of
4 at a rate of 100% a year of four slots earns whole tokens in one period. In
`msig` a delay ends and the transactions expire one slot before the end. The
amounts of `vesting` are such that half shares and cliffs fall between moments.
In `tonomy` bytes are bought at one price and sold at another, an app
sells all it has, the last purchase is refused because the bytes offered are
used up, and the administrator names an account of the chain, a person and the
app before and after they are registered. In `governance` the person may get
limits by hand before and after her first key, a limit given by hand may be the
one that unlimits an account, bytes are bought and sold on top of it, and the
total wraps at 16. In `token` two issues reach the maximum, a row is closed and
opened again, and an account is migrated before or after it got new tokens.
`MCStakingHistory` assumes `PeriodsRegular`, which the header's
periods satisfy in both builds (lockup 10 s, release 5 s, period 10 s, cycle
60 s; 14 days, 5 days, one hour, 24 hours).

**Fairness.** The only fair action is `HBlock` (weakly): block production goes
on. Nothing is assumed of the callers; `UnstakingCompletes` therefore says that
blocks alone complete an unstaking. It is stated for rows whose last cron comes
before the end of the model's time, and for behaviours that are not `disturbed`:
no period's first slot was missed (any other slot may be), and no cron failed or
left somebody out. What happens otherwise is the subject of the violation runs.

**`CarefulSpec`** of vesting restricts the administrator, not the code: she
changes dates and terms only in ways that grant everybody at least what was
claimed. The code does not ask for this. `PaymentsRemembered` holds under it and,
as run `vesting_twice` shows, not without it.

**`Custodian`** reads the amounts off the step (`Inflow`, `Received`, `Granted`),
so that checking it takes no bounds but the contracts' own. In `Staking` the
claim of a staker is the tokens of all her rows, staked and releasing; the pool
is the yield pool, which may be below zero (`S:275`); only `resetall` sweeps, and
only in a test build. In `Vesting` a claim is what is allocated and not claimed;
there is no pool; what `migratealloc` takes away is refunded to its sender.

**Mutants.** For every property `PROJECT.json` names a definition of the model
and a mutated form of it next to it in the module (comment `Mutant:`), a
plausible slip in the code, under which TLC finds the property violated.

## 4. What is proved

All theorems hold for every value of the constants that satisfies the named
`ASSUME`s: any number of accounts, any amounts, any periods.

* **`StakingProofs`.** `IInv` (defined in `Staking`) is inductive: the types,
  `TotalsMatchRows`, `Custody`, `StakersListed`, `GrowthOnRecord`, and
  `RowsSound` (no row falls below what was put in, no unstaking is requested
  before its lockup, no payout lies ahead). `TotalsMatchRows` alone is not
  inductive for `Custody` (the transfer a cron makes must be shown to be no
  more than `total_releasing`), and `GrowthOnRecord` needs `StakersListed` (a
  stake must not find rows without an account row). The sums are treated with
  `SumTheorems`: each handler changes one row or, cron and resetall, all rows
  of a set of stakers, and the totals follow by one lemma each. From `IInv`:
  `TypeCorrect`, `TotalsCorrect`, `CustodyHeld`, `EveryStakerListed`,
  `GrowthRecorded`, `DueReleasesPayable`, and for steps `LockupIsHonoured` and
  `ReleaseIsFrozen`.
* **`StakingProofs`, the refinement.** `StakesAreKept`: every step is a deposit, a
  settlement, a payment into the pool, somebody's own spending, a sweep (test
  builds) or a stutter of `Custodian`. Each handler changes the table of one
  staker by one row, or, cron, of many by all their rows, and the lemmas say by
  how much the claims and balances change. A settlement pays no more than the
  contract has because `total_releasing` covers what is due, by
  `TotalsMatchRows` and `Custody`. `IInv` is not enough: the first
  `setsettings`, and `resetall`, are such steps because of `BooksClosed` (without
  settings there are neither rows nor a pool), which is inductive with it.
  `ClaimsPaidToStakers`: outside of test builds no staker's claim shrinks but by
  what that staker receives in the same step, whoever calls whatever.
* **`StakingProofs`, on `StakingHistory`.** `CronEveryPeriod`: between two slots
  of different periods lies the first slot of a period, so that a cron was sent
  unless it was missed. `ReleasesPaidWithinCycle`, for periods that satisfy
  `PeriodsRegular` (a cycle is a whole number of periods, two turns of a range
  are 1.01 periods apart, lockup and release take longer than that). Its
  invariant `HistoryInv` adds to `IInv`: without settings there is nothing to
  pay (`BooksOpen`), accounts are visited and paid in their own interval of a
  cycle only, whoever calls cron (`VisitedInTurn`, `PaidInTurn`), and,
  undisturbed, a row that is being released has not seen a turn of its owner
  since it is due (`NoTurnSince`). The step that matters is a block at the
  owner's turn: cron comes to her, because whoever is passed over for a payout
  less than 1.01 periods ago was paid in this very interval or has a row younger
  than its lockup, and then the row goes. The rest is arithmetic:
  `Interval`, `IntervalUnique`, `TurnsApart` and `TurnComes` (every name has a
  turn in every cycle), `RangeOf` and `RangesApart` (the ranges of names,
  the remainder included, are a partition).
* **`EosioTokenProofs`**, on `DemoToken`: both contracts, the migration and
  `selfissue`. `TokenTypeCorrect`, `SupplyCorrect`, `DemoWithinMaximum`, and
  `ImplementsLedger`: under the mapping `held <- Holdings` (what an account has
  under both symbols), `supply <- Minted` (both supplies and what the migration
  dropped of them) every step is a `Move`, a `Mint`, a `Burn` or a stutter of
  `TokenLedger`; the migration is a stutter. The invariant is `DInv`: `HTypeOK`,
  `SupplyIsCirculating`, and nothing is unrecorded in `demo.tmy`, which makes
  the maximum hold there and not in `eosio.token`. `TransfersAreInline` justifies
  `TokenTransfer`, which `Staking`, `Vesting` and `Tonomy` build on: a transfer
  succeeds exactly when the payer has the quantity, because while no more than
  `MaxAmount` is held, two balances together are no more than that either, and
  `add_balance` does not overflow. More than `MaxAmount` would have to be issued
  first, which `token_max_supply` (section 5) does not exclude for `eosio.token`;
  hence the hypothesis in the property.
* **`VestingProofs`.** For any administrator the types (`TInv`) are inductive,
  and `ScheduleHonoured` follows for steps. For a careful one, `Covered`
  (nothing is claimed beyond what the terms grant now) is inductive because
  what is granted grows with time and changes only in the holder's favour;
  with `Custody` it gives `WithdrawPayable`. `VestingTypeCorrect`,
  `VestingCustody`, `WithdrawAlwaysPayable`, `ScheduleAlwaysHonoured`,
  `PaymentsAlwaysRemembered`. `Covered` is also what makes `withdraw` a settlement
  of `Custodian`: it pays what terms grant beyond what is claimed, never a
  negative amount, and `ImplementsCustodian` follows with the same bookkeeping of
  rows and claims as in `StakingProofs`. Without care a withdrawal may raise a
  holder's claim by tokens that nobody deposited, so that neither holds.
* **`AbstractProofs`.** `LedgerBacked`: in the abstract ledger the supply is
  what the owners hold, so every implementation of it inherits this.
  `BooksAlwaysCovered`: a custodian has what its books say; `ClaimsOnlyPaid`: where
  nobody refunds or sweeps, claims shrink by payment only. Both for any finite
  set of accounts in which the keeper is no client (`KeeperApart`).
* **`MsigProofs`.** `MsigTypeCorrect`; with the invariant `ConsentInv` (approval
  times are not in the future; an approval that counts stands; one that stands
  is not older than its account's last invalidation) `CountedAlwaysStand`,
  `StandingAlwaysCount` and `ConsentAtExecution`; with `DelayInv`
  (`earliest_exec_time` lies a delay after a moment at which approvals
  sufficed) `DelayAlwaysServed`. `ConsentAtExecution` uses that authorities are
  closed under adding levels.

* **`TonomyProofs`.** `CoreInv` is the types and `RegistryAgrees`, which need
  each other; every action keeps it, and under it each of `NamesUnique`,
  `StatusMatchesKeys` and `LoginsNameApps` by itself (`PartsKept`).
  `RegistryAgrees` is also what makes the uniqueness of names hold for `newapp`
  after `adminsetapp`.
* **`RamProofs`.** A step moves the total on record and the sum of what accounts
  hold by the same number modulo 2^64 (`RamMoves(0)`), but for `setalimits`
  and the first key of a person whom governance had limited, which move the sum
  by what `byHand` moves. In `Tonomy` alone nobody limits a person before her
  first key (`Ungranted`), so that `RamAlwaysAccounted` holds; with governance
  it is `RamAlwaysReconciled`. `LimitsAlwaysKept`: only accounts of type App trade,
  by `RegistryAgrees` no person is one, and a key grants limits only to a person
  who is still `Creating`; so once she is active, `setalimits` of governance alone
  changes her limits. `GovernanceTypeCorrect`
  (no permission without its parent, no link without its permission) and
  `AbiAlwaysHashed` are inductive with the rest of `GInv`; under `eosio.boot`
  there are no hashes yet.

Only model-checked: `UnstakingCompletes` (liveness under fairness is out of the
prover's reach; `ReleasesPaidWithinCycle` is its safety part for all parameters)
and the properties of the violation runs, which do not hold.

## 5. Where the code departs from its text

| run | what TLC shows |
|---|---|
| `staking_final` | two stakers stake alike and ask for release; cron grants one of them yield out of an empty pool (`S:275`); his release pays him that yield out of the other's deposit, and the other's release, due and of no more than the deposit, fails, and with it the cron of that range |
| `staking_apy` | `S:226` pays a new row for time before it was staked |
| `history_left_out` | `S:214`: one account that has just staked ends cron for all accounts after it in the range |
| `token_max_supply` | the maximum is issued under the old symbol; `migratestats` writes the new row without that supply (`T:188`), and `issue` of the new symbol takes what circulates of the system token past its maximum |
| `vesting_twice` | `V:126` lowers `tokens_claimed` after terms got worse, and pays the difference again |

Seen while modelling, without a run: `migrateacc` aborts for accounts that
already hold the new symbol (`T:205`), so that their old balance stays; `newapp`
sets the totals of CPU and NET to one account's share (`X:198`, against
`contracts/tonomy/include/tonomy/tonomy.hpp:294`), and grants none; the checks
of `sellram` against negative values compare unsigned numbers (`X:518`, `X:525`),
so that only the chain's own check, which allows -1, limits a sale; `updatekeyper`
passes the weight of CPU for that of NET and the other way round (`X:319`), which
are equal; `sellram` pays a unit of
TONO per byte whatever the price (`X:514`, `X:533`, against
`contracts/tonomy/include/tonomy/tonomy.hpp:193-196`, "calculates the amount of
tokens to return based on the current RAM price"), so that no fair exchange
between purchases and sales can be stated, and none is; `cron` takes the pool below zero as such
(`S:275`, against `SH:121`); a period whose first slot has no block gets no cron
(`B:150`, against `SH:107`); a row that `migratealloc` changed before
`migrateacc` keeps its claimed amount in the old symbol (`V:221`, against
`VH:144`), which blocks nothing, because only the amount is read; category 3 is
accepted though marked depreciated (`VH:35`, `VH:58`);
the header of `eosio.msig` makes it a precondition of `exec` that all requested
approvals are received and that approval accounts are not found in the
invalidations
(`contracts/eosio.msig/include/eosio.msig/eosio.msig.hpp:84-88`), while the code
executes as soon as the approvals that count suffice, requested ones missing or
not (`G:257-258`), and counts an approval given after its account's invalidation
(`G:24-45`): `StandingCount` and `ExecutedWithConsent` state what the code does;
in `eosio.msig` a stored `earliest_exec_time` survives `invalidate` and changes
of authority, so a delay is not served anew (`G:142`); a trade of RAM by an app after
`setalimits` replaces the CPU limit set by hand with that of NET (`X:480`,
`X:526`; `LimitsKept` says that this does not reach persons); `updatekeyper` with `link_auth` fails in the chain when the permission
is linked already (`X:350-360`); `get_app_permission_by_origin` and
`get_app_permission_by_username` check that the app is not found, and look in
the older table (`contracts/tonomy/include/tonomy/tonomy.hpp:313-338`); nobody
calls them; `selfissue` of `demo.tmy` does not ask that `to` be the issuer (`D:63`,
against `contracts/demo.tmy/include/demo.tmy/demo.tmy.hpp:55`).

What `Tonomy` promises and `Governance` does not keep, because governance may do
by hand what the contract would not: `RamAccounted` (limits set past the total)
and `StatusMatchesKeys` (keys deleted or given natively). `RamReconciled` and
`LimitsKept` say what remains.

## 6. Not modelled, and the plan

Left out, and why: the actions of `eosio.tonomy`, `eosio.bios`, `eosio.boot` and
the proxy that only reach privileged intrinsics (`setpriv`, `setprods`,
`setparams`, `activate`, `setcode` of accounts other than `eosio`) or only check
(`reqauth`, `reqactivated`, `canceldelay`, `onerror`): they keep nothing that
another action reads. The scripts under `blockchain/`: they start nodes and
deploy contracts. Doubles (the share of `V:118`, the yield of `S:235`, the price
of RAM), where the models compute exact fractions. Ricardian texts.

What is left to do, in this order:

1. A composition of `Staking` and `Vesting` over one set of balances, now that both
   implement `Custodian`: two instances of it over one `wallet`, in which each
   keeper's settlements are the other's `Spend`s. Both contracts hold TONO under
   their own account and never name the other's; the composition would make
   explicit that their custody survives each other.
2. Keys and weights of authorities in `Tonomy`, with `updateactive` as an action
   that changes something, and who may sign by them.
3. Error bounds for the doubles.
