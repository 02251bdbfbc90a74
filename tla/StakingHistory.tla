--------------------------- MODULE StakingHistory ---------------------------
(***************************************************************************)
(* Staking with history variables about its cron: when each account was    *)
(* last reached, when onblock last sent cron, and what went wrong.  They   *)
(* are written and never read by an action, and exist in no table.         *)
(***************************************************************************)
EXTENDS Staking

VARIABLES
  visited,    \* the slot in which create_account_yield last ran for a person
  cronCall,   \* the cron period in which onblock last sent cron
  skipped,    \* accounts the last cron left out though not visited lately
  disturbed   \* a cron was missed, failed, or left somebody out

history == <<visited, cronCall, skipped, disturbed>>
hvars == <<vars, history>>

Never == -(2 * CronPeriod)

HInit ==
  /\ Init
  /\ visited = [a \in Persons |-> Never]
  /\ cronCall = 0
  /\ skipped = {}
  /\ disturbed = FALSE

VisitedRecently(a, t) == 100 * (t - visited[a]) < 101 * CronPeriod

(* Those the cron of slot t does not reach though their last payout is old *)
(* enough and it has not just looked at them.                              *)
LeftOut(t) ==
  {a \in Batch(t) \ Processed(t) :
     ~PaidRecently(a, t) /\ ~VisitedRecently(a, t)}

RecordCron(t) ==
  /\ visited' = [a \in Persons |-> IF a \in Processed(t) THEN t ELSE visited[a]]
  /\ skipped' = LeftOut(t)

HCall == Call /\ UNCHANGED history

HCronByHand ==
  /\ CronByHand
  /\ RecordCron(now)
  /\ disturbed' = (disturbed \/ LeftOut(now) # {})
  /\ UNCHANGED cronCall

(* A period began since the last block, and its first slot had no block.   *)
PeriodMissed(t) == \E s \in now + 1 .. t - 1 : FirstOfPeriod(s)

HBlock ==
  LET t == now'
      sent == FirstOfPeriod(t)
      works == sent /\ CronSucceeds(t)
  IN  /\ Block
      /\ IF works THEN RecordCron(t) ELSE UNCHANGED <<visited, skipped>>
      /\ cronCall' = IF sent THEN t \div CronPeriod ELSE cronCall
      /\ disturbed' = \/ disturbed
                      \/ PeriodMissed(t)
                      \/ sent /\ ~works /\ settings.exists
                      \/ works /\ LeftOut(t) # {}

HNext == HCall \/ HCronByHand \/ HBlock

HSpec == HInit /\ [][HNext]_hvars

(* Block production does not stop: the one thing the chain guarantees.     *)
FairHSpec == HSpec /\ WF_hvars(HBlock)
----------------------------------------------------------------------------
(* What PaidWithinCycle asks of the header's periods, test build or not    *)
(* (staking.tmy.hpp:36-60, which fears a cycle that is not a whole number  *)
(* of periods): nobody comes up twice within 1.01 periods, and a release   *)
(* takes longer than that.                                                 *)
PeriodsRegular ==
  /\ StakingCycle % CronPeriod = 0
  /\ ReleasePeriod > 0
  /\ 101 * CronPeriod <= 100 * (LockupPeriod + ReleasePeriod)
  /\ 101 * CronPeriod <= 100 * (StakingCycle - CronPeriod + 1)

(* A requested release is paid, at the latest, by the first cron for its   *)
(* owner's name range after the release period: within one cycle.  (As     *)
(* long as no cron was missed, failed, or returned early.)                 *)
PaidWithinCycle ==
  ~disturbed =>
    \A a \in Persons : \A id \in DOMAIN allocs[a] :
      allocs[a][id].unstake_requested =>
        now < allocs[a][id].unstake_time + ReleasePeriod + StakingCycle

(* The same as a liveness property: without any further act of its owner   *)
(* a row whose unstaking was requested goes, because blocks keep coming.   *)
(* (Rows whose last cron would come after the bound MaxTime are excluded,  *)
(* and the ids are those of a staker who makes one stake after the other.) *)
Awaiting(a, id) ==
  /\ id \in DOMAIN allocs[a]
  /\ allocs[a][id].unstake_requested
  /\ allocs[a][id].unstake_time + ReleasePeriod + StakingCycle <= MaxTime

UnstakingCompletes ==
  \A a \in Persons : \A id \in 0 .. MaxAllocations - 1 :
    Awaiting(a, id) ~> (~Awaiting(a, id) \/ disturbed)

(* staking.tmy.hpp:107 "Cron job to be called every hour": onblock has     *)
(* sent cron in the current period, whatever slots have no block, as long  *)
(* as no period's first one is among them.  (A period whose first slot has *)
(* no block gets no cron.)                                                 *)
CronWithoutMisses == ~disturbed => cronCall = now \div CronPeriod

(* cpp:212-213 says that cron exits early because "this batch of accounts  *)
(* has already been processed in this interval": whoever is left out was   *)
(* visited less than 1.01 periods ago.                                     *)
LeftOutOnlyIfProcessed == skipped = {}
=============================================================================
