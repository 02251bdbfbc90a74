----------------------------- MODULE MCVesting -----------------------------
(***************************************************************************)
(* Instances of Vesting for TLC.  Categories 8 and 11 have the shape of    *)
(* the code's 998 and 999: the one unlocks half of the tokens when its     *)
(* vesting starts, the other has a cliff.  3 is the code's 3, 1 stands for *)
(* the categories that the code rejects.                                   *)
(***************************************************************************)
EXTENDS Vesting

CONSTANTS
  Sponsor, Holder, Other,  \* the one who pays, and two holders
  SponsorFunds,            \* what the sponsor owns
  LegacyAmount             \* what Holder was allocated before the upgrade, if any

MCAccounts == {VestingTmy, Sponsor, Holder, Other}

Terms(cliff, delay, period, num, den) ==
  [cliff_period |-> cliff, start_delay |-> delay, vesting_period |-> period,
   tge_num |-> num, tge_den |-> den]

MCCategories ==
  [c \in {1, 3, 8, 11} |-> CASE c = 1 -> Terms(1, 0, 3, 0, 1)
                             [] c = 3 -> Terms(0, 0, 0, 0, 1)
                             [] c = 8 -> Terms(0, 1, 2, 1, 2)
                             [] c = 11 -> Terms(1, 1, 3, 0, 1)]

MCInitialBalance ==
  [a \in MCAccounts |-> CASE a = Sponsor -> SponsorFunds
                          [] a = VestingTmy -> LegacyAmount
                          [] OTHER -> 0]

MCInitialSettings ==
  [exists |-> LegacyAmount > 0, sales_start_date |-> 0, launch_date |-> 0]

MCInitialAllocs ==
  [h \in Holders |->
     IF h = Holder /\ LegacyAmount > 0
     THEN WithRow(EmptyTable, 0,
            [tokens_allocated |-> LegacyAmount, allocated_in |-> "LEOS",
             tokens_claimed |-> 0, claimed_in |-> "LEOS",
             time_since_sale_start |-> 0, vesting_category_type |-> 11])
     ELSE EmptyTable]
=============================================================================
