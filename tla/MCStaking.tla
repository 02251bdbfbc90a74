----------------------------- MODULE MCStaking -----------------------------
(***************************************************************************)
(* Instances of Staking for TLC.  Time is scaled so that a cron period is  *)
(* two slots and a year four, and amounts so that a stake of 4 earns a     *)
(* whole token in a period.                                                *)
(***************************************************************************)
EXTENDS Staking

CONSTANTS
  FundedPersons,  \* the persons who own tokens to stake
  PersonFunds,    \* how much each of them owns
  SponsorFunds    \* what infra.tmy owns, to fund the yield pool with

MCOtherAccounts == {StakingTmy, InfraTmy}

MCInitialBalance ==
  [a \in Accounts |-> IF a \in FundedPersons THEN PersonFunds
                      ELSE IF a = InfraTmy THEN SponsorFunds ELSE 0]
=============================================================================
