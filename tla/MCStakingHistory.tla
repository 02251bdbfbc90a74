-------------------------- MODULE MCStakingHistory --------------------------
(***************************************************************************)
(* Instances of StakingHistory for TLC; the scale is that of MCStaking.    *)
(***************************************************************************)
EXTENDS StakingHistory

CONSTANTS FundedPersons, PersonFunds, SponsorFunds

MCOtherAccounts == {StakingTmy, InfraTmy}

MCInitialBalance ==
  [a \in Accounts |-> IF a \in FundedPersons THEN PersonFunds
                      ELSE IF a = InfraTmy THEN SponsorFunds ELSE 0]

(* The instances' periods are as regular as the header's.                  *)
ASSUME MCPeriodsAssumption == PeriodsRegular
=============================================================================
