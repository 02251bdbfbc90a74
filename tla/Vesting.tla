------------------------------ MODULE Vesting ------------------------------
(***************************************************************************)
(* The contract vesting.tmy over the token balances its inline transfers   *)
(* move.  One action is one transaction, a failed check a disabled action. *)
(*                                                                         *)
(* The contract has no authority over its administrator: she may change    *)
(* the launch date and the terms of an allocation at any time.  Spec       *)
(* allows her all the code allows; CarefulSpec only those changes that     *)
(* leave nobody with more claimed than the new terms grant.                *)
(***************************************************************************)
EXTENDS TokenTransfer, Tables

CONSTANTS
  Accounts,       \* the accounts that exist
  VestingTmy,     \* the account vesting.tmy
  Holders,        \* the accounts that allocations are made to
  Categories,     \* vesting_categories: the terms by category id
  Depreciated,    \* depreciated_categories
  MAX_ALLOCATIONS,
  InitialBalance, InitialSettings, InitialAllocs,  \* when the chain was upgraded
  Quantities,     \* bound: the amounts that callers name
  Senders,        \* bound: who pays for allocations
  Payers,         \* bound: who makes transfers of its own
  SalesDates, LaunchDates,  \* bound: the dates that setsettings is called with
  MaxTime         \* bound: the last moment

(* tge_unlock is the fraction tge_num / tge_den.                           *)
Category == [cliff_period : Nat, start_delay : Nat, vesting_period : Nat,
             tge_num : Nat, tge_den : Nat \ {0}]

Settings == [exists : BOOLEAN, sales_start_date : Nat, launch_date : Nat]

(* An asset is its amount; of the symbols only those that migrateacc tells *)
(* apart are kept, TONO and the old LEOS.                                  *)
TokenSymbols == {"LEOS", "TONO"}

Allocation == [tokens_allocated : Nat, allocated_in : TokenSymbols,
               tokens_claimed : Nat, claimed_in : TokenSymbols,
               time_since_sale_start : Nat,
               vesting_category_type : DOMAIN Categories]

IsTable(rows) == rows \in [DOMAIN rows -> Allocation] /\ DOMAIN rows \subseteq Nat

Owing(rows) == SumFunction([id \in DOMAIN rows |->
                              rows[id].tokens_allocated - rows[id].tokens_claimed])

ASSUME VestingAssumption ==
  /\ IsFiniteSet(Accounts)
  /\ VestingTmy \in Accounts
  /\ Holders \subseteq Accounts \ {VestingTmy}
  /\ Senders \subseteq Accounts
  /\ Payers \subseteq Accounts \ {VestingTmy}
  /\ Categories \in [DOMAIN Categories -> Category]
  /\ \A c \in DOMAIN Categories : Categories[c].tge_num < Categories[c].tge_den
  /\ Depreciated \subseteq DOMAIN Categories
  /\ MAX_ALLOCATIONS \in Nat /\ MaxTime \in Nat
  /\ Quantities \subseteq Nat \ {0}
  /\ SalesDates \subseteq Nat /\ LaunchDates \subseteq Nat
  /\ InitialBalance \in [Accounts -> Nat]
  /\ InitialSettings \in Settings
  /\ InitialAllocs = [h \in Holders |-> InitialAllocs[h]]
  /\ \A h \in Holders :
       /\ IsTable(InitialAllocs[h]) /\ IsFiniteSet(DOMAIN InitialAllocs[h])
       /\ \A id \in DOMAIN InitialAllocs[h] :
            InitialAllocs[h][id].tokens_claimed = 0 /\ InitialAllocs[h][id].tokens_allocated > 0
  /\ SumFunction([h \in Holders |-> Owing(InitialAllocs[h])])
       <= InitialBalance[VestingTmy]

VARIABLES
  now,       \* current_time_point()
  balance,   \* the TONO balances kept by eosio.token
  settings,  \* the singleton settings_table
  allocs     \* vesting_allocations: for each scope (a holder) its rows by id

vars == <<now, balance, settings, allocs>>

Init ==
  /\ now = 0
  /\ balance = InitialBalance
  /\ settings = InitialSettings
  /\ allocs = InitialAllocs
----------------------------------------------------------------------------
CheckCategory(category) ==
  category \in DOMAIN Categories /\ category \notin Depreciated

SetSettings(sales_start_date, launch_date) ==
  /\ settings' = [exists |-> TRUE, sales_start_date |-> sales_start_date,
                  launch_date |-> launch_date]
  /\ UNCHANGED <<now, balance, allocs>>

NewAllocation(amount, category) ==
  [tokens_allocated |-> amount, allocated_in |-> "TONO",
   tokens_claimed |-> 0, claimed_in |-> "TONO",
   time_since_sale_start |-> now - settings.sales_start_date,
   vesting_category_type |-> category]

AssignTokens(sender, holder, amount, category) ==
  /\ CheckCategory(category)
  /\ amount > 0
  /\ Cardinality(DOMAIN allocs[holder]) < MAX_ALLOCATIONS
  /\ settings.exists
  /\ now >= settings.sales_start_date
  /\ CanTransfer(balance, sender, VestingTmy, amount)
  /\ CanEmplace(allocs[holder], AvailablePrimaryKey(allocs[holder]))
  /\ allocs' = [allocs EXCEPT
                  ![holder] = WithRow(@, AvailablePrimaryKey(@),
                                      NewAllocation(amount, category))]
  /\ balance' = AfterTransfer(balance, sender, VestingTmy, amount)
  /\ UNCHANGED <<now, settings>>
----------------------------------------------------------------------------
(* The terms of a row, counted from a launch date.                         *)

TermsOf(row) == Categories[row.vesting_category_type]

VestingStart(row, launch_date) == launch_date + TermsOf(row).start_delay

VestingEnd(row, launch_date) ==
  VestingStart(row, launch_date) + TermsOf(row).vesting_period

(* Mutant: the start delay does not postpone the cliff.                    *)
CliffFromLaunch(row, launch_date, t) ==
  t >= launch_date + TermsOf(row).cliff_period

CliffFinished(row, launch_date, t) ==
  t >= VestingStart(row, launch_date) + TermsOf(row).cliff_period

(* The amount of a row that is vested at t >= VestingStart: before the end *)
(* allocated * ((1 - tge) * (t - start) / period + tge), which the code    *)
(* computes in doubles and truncates.                                      *)
Share(row, launch_date, t) ==
  LET c == TermsOf(row)
  IN  (row.tokens_allocated
         * ((c.tge_den - c.tge_num) * (t - VestingStart(row, launch_date))
              + c.tge_num * c.vesting_period))
        \div (c.tge_den * c.vesting_period)

Claimable(row, launch_date, t) ==
  IF t >= VestingEnd(row, launch_date)
     \/ Share(row, launch_date, t) > row.tokens_allocated
  THEN row.tokens_allocated
  ELSE Share(row, launch_date, t)

(* The rows of a holder that a withdraw works on, and what it pays.        *)
Unlocked(holder) ==
  {id \in DOMAIN allocs[holder] :
     CliffFinished(allocs[holder][id], settings.launch_date, now)}

ClaimableNow(row) == Claimable(row, settings.launch_date, now)

(* Mutant: what was claimed before is not subtracted.                      *)
TotalVested(holder) ==
  SumFunctionOnSet([id \in DOMAIN allocs[holder] |->
                      ClaimableNow(allocs[holder][id])],
                   Unlocked(holder))

TotalClaimable(holder) ==
  SumFunctionOnSet([id \in DOMAIN allocs[holder] |->
                      ClaimableNow(allocs[holder][id])
                        - allocs[holder][id].tokens_claimed],
                   Unlocked(holder))

Exhausted(holder) ==
  {id \in Unlocked(holder) : ClaimableNow(allocs[holder][id])
                               = allocs[holder][id].tokens_allocated}

Claimed(row, amount) == [row EXCEPT !.tokens_claimed = amount]

(* Mutant: the exhausted rows are not erased.                              *)
RowsKept(holder) ==
  [id \in DOMAIN allocs[holder] |->
     IF id \in Unlocked(holder)
     THEN Claimed(allocs[holder][id], ClaimableNow(allocs[holder][id]))
     ELSE allocs[holder][id]]

RowsAfterWithdraw(holder) ==
  [id \in DOMAIN allocs[holder] \ Exhausted(holder) |->
     IF id \in Unlocked(holder)
     THEN Claimed(allocs[holder][id], ClaimableNow(allocs[holder][id]))
     ELSE allocs[holder][id]]

(* The rows are updated also when nothing, or a negative amount, is due.   *)
Withdraw(holder) ==
  /\ settings.exists
  /\ now >= settings.launch_date
  /\ allocs' = [allocs EXCEPT ![holder] = RowsAfterWithdraw(holder)]
  /\ \/ /\ TotalClaimable(holder) > 0
        /\ CanTransfer(balance, VestingTmy, holder, TotalClaimable(holder))
        /\ balance' = AfterTransfer(balance, VestingTmy, holder,
                                    TotalClaimable(holder))
     \/ /\ TotalClaimable(holder) <= 0
        /\ UNCHANGED balance
  /\ UNCHANGED <<now, settings>>
----------------------------------------------------------------------------
(* The migrations.  The caller of migratealloc names the symbol of the     *)
(* tokens that move, in old_amount; eosio.token accepts only the one the   *)
(* balances are kept in.                                                   *)

Reallocated(row, amount, category) ==
  [row EXCEPT !.tokens_allocated = amount, !.allocated_in = "TONO",
              !.vesting_category_type = category]

(* Mutant: only a lower amount is settled.                                 *)
SettleRefund(sender, change) ==
  \/ /\ change < 0
     /\ CanTransfer(balance, VestingTmy, sender, -change)
     /\ balance' = AfterTransfer(balance, VestingTmy, sender, -change)
  \/ /\ change >= 0
     /\ UNCHANGED balance

SettleChange(sender, change) ==
  \/ /\ change > 0
     /\ CanTransfer(balance, sender, VestingTmy, change)
     /\ balance' = AfterTransfer(balance, sender, VestingTmy, change)
  \/ /\ change < 0
     /\ CanTransfer(balance, VestingTmy, sender, -change)
     /\ balance' = AfterTransfer(balance, VestingTmy, sender, -change)
  \/ /\ change = 0
     /\ UNCHANGED balance

MigrateAlloc(sender, holder, id, amount, category) ==
  LET row == allocs[holder][id]
  IN  /\ CheckCategory(category)
      /\ amount > 0
      /\ id \in DOMAIN allocs[holder]
      /\ row.tokens_claimed < amount
      /\ allocs' = [allocs EXCEPT ![holder] =
                      [@ EXCEPT ![id] = Reallocated(row, amount, category)]]
      /\ SettleChange(sender, amount - row.tokens_allocated)
      /\ UNCHANGED <<now, settings>>

(* Mutant: the row is written anew, as if nothing had been claimed.        *)
RenamedAnew(row) ==
  [row EXCEPT !.allocated_in = "TONO", !.claimed_in = "TONO",
              !.tokens_claimed = 0]

Renamed(row) ==
  IF row.allocated_in = "LEOS"
  THEN [row EXCEPT !.allocated_in = "TONO", !.claimed_in = "TONO"]
  ELSE row

MigrateAcc(account) ==
  /\ allocs' = [allocs EXCEPT ![account] =
                  [id \in DOMAIN allocs[account] |-> Renamed(allocs[account][id])]]
  /\ UNCHANGED <<now, balance, settings>>
----------------------------------------------------------------------------
(* The other accounts may transfer their tokens, to vesting.tmy as well;   *)
(* vesting.tmy signs nothing but its own inline transfers.                 *)
Transfer(from, to, quantity) ==
  /\ CanTransfer(balance, from, to, quantity)
  /\ balance' = AfterTransfer(balance, from, to, quantity)
  /\ UNCHANGED <<now, settings, allocs>>

Tick == now < MaxTime /\ now' = now + 1 /\ UNCHANGED <<balance, settings, allocs>>

Users ==
  \/ \E s \in Senders, h \in Holders, q \in Quantities, c \in DOMAIN Categories :
       AssignTokens(s, h, q, c)
  \/ \E h \in Holders : Withdraw(h) \/ MigrateAcc(h)
  \/ \E a \in Payers, b \in Accounts, q \in Quantities : Transfer(a, b, q)
  \/ Tick

Next ==
  \/ Users
  \/ \E s \in SalesDates, l \in LaunchDates : SetSettings(s, l)
  \/ \E s \in Senders, h \in Holders, q \in Quantities, c \in DOMAIN Categories :
       \E id \in DOMAIN allocs[h] : MigrateAlloc(s, h, id, q, c)

Spec == Init /\ [][Next]_vars

(* What a row grants at t: nothing before the launch or the cliff.         *)
Vested(row, launch_date, t) ==
  IF t >= launch_date /\ CliffFinished(row, launch_date, t)
  THEN Claimable(row, launch_date, t) ELSE 0

CarefulNext ==
  \/ Users
  \/ \E s \in SalesDates, l \in LaunchDates :
       /\ \A h \in Holders : \A id \in DOMAIN allocs[h] :
            allocs[h][id].tokens_claimed <= Vested(allocs[h][id], l, now)
       /\ SetSettings(s, l)
  \/ \E s \in Senders, h \in Holders, q \in Quantities, c \in DOMAIN Categories :
       \E id \in DOMAIN allocs[h] :
         /\ allocs[h][id].tokens_claimed
              <= Vested(Reallocated(allocs[h][id], q, c),
                        settings.launch_date, now)
         /\ MigrateAlloc(s, h, id, q, c)

CarefulSpec == Init /\ [][CarefulNext]_vars
----------------------------------------------------------------------------
(* Properties.                                                             *)

(* Type invariant of the settings, the rows and the balances; a claimed    *)
(* amount is below the allocated one, or the row would be gone.            *)
TypeOK ==
  /\ now \in 0 .. MaxTime
  /\ balance \in [Accounts -> Nat]
  /\ settings \in Settings
  /\ \A h \in Holders :
       /\ IsTable(allocs[h])
       /\ \A id \in DOMAIN allocs[h] :
            allocs[h][id].tokens_claimed < allocs[h][id].tokens_allocated

(* The tokens that are allocated and not claimed are in the contract,      *)
(* through every order of assignments, withdrawals, careful migrations and *)
(* changes of the dates (withdraw adds up rows of which some have nothing  *)
(* to give, cpp:88-145; migratealloc moves the difference, cpp:190-209).   *)
Owed == SumFunction([h \in Holders |-> Owing(allocs[h])])

Custody == balance[VestingTmy] >= Owed

(* So no holder's withdraw fails for want of tokens, whoever withdrew      *)
(* before, and what it pays is never negative (cpp:148).                   *)
WithdrawPayable ==
  \A h \in Holders :
    settings.exists /\ now >= settings.launch_date =>
      /\ TotalClaimable(h) >= 0
      /\ TotalClaimable(h) <= balance[VestingTmy]

(* Whatever the administrator does, nothing is claimed of a row before its *)
(* cliff, counted from the delayed start, and no row goes before its whole *)
(* vesting period is over (cpp:97-135).                                    *)
Elapsed(row) == now - settings.launch_date - TermsOf(row).start_delay

OnSchedule ==
  \A h \in Holders : \A id \in DOMAIN allocs[h] :
    LET row == allocs[h][id]
    IN  IF id \in DOMAIN allocs'[h]
        THEN allocs'[h][id].tokens_claimed > row.tokens_claimed
               => Elapsed(row) >= TermsOf(row).cliff_period
        ELSE /\ Elapsed(row) >= TermsOf(row).cliff_period
             /\ Elapsed(row) >= TermsOf(row).vesting_period

ScheduleHonoured == [][OnSchedule]_vars

(* cpp:178 demands that a new amount exceed what is already claimed:       *)
(* nothing that was paid out is forgotten.  withdraw lowers the claimed    *)
(* amount when the new terms grant less than the old ones did, and pays    *)
(* the difference a second time later.  A careful administrator's changes  *)
(* never make it do so.                                                    *)
NoneForgotten ==
  \A h \in Holders : \A id \in DOMAIN allocs[h] \cap DOMAIN allocs'[h] :
    allocs'[h][id].tokens_claimed >= allocs[h][id].tokens_claimed

PaymentsRemembered == [][NoneForgotten]_vars

(* Under a careful administrator what is allocated and not paid is kept as *)
(* Custodian has it: no withdraw, assignment or migration moves anything   *)
(* from one holder's claim to another's, and whatever leaves the contract  *)
(* goes to the holder whose claim shrinks by it, or back to the sender     *)
(* that migratealloc names (cpp:33-209).                                   *)
Claims == [h \in Holders |-> Owing(allocs[h])]

Books == INSTANCE Custodian
  WITH Wallets <- Accounts, Clients <- Holders, Keeper <- VestingTmy,
       Refundees <- Senders, Sweepers <- {},
       wallet <- balance, claim <- Claims, pool <- 0

KeepsAllocations == Books!CustodianSpec
=============================================================================
