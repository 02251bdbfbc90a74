---------------------------- MODULE MsigHistory ----------------------------
(***************************************************************************)
(* Msig with history variables: what each level has approved and not taken *)
(* back, and since when a proposal has had enough approvals.  No action    *)
(* reads them and no table has them.                                       *)
(***************************************************************************)
EXTENDS Msig

VARIABLES
  standing,   \* <<key, level, trx>>: the level approved trx under this key and
              \* has neither unapproved nor invalidated since
  enoughAt    \* when the approvals of a proposal first sufficed, if they did

history == <<standing, enoughAt>>
hvars == <<vars, history>>

HInit ==
  /\ Init
  /\ standing = UNION {{<<k, l, OldProposals[k].trx>> :
                          l \in DOMAIN OldApprovals[k].provided} :
                       k \in DOMAIN OldProposals}
  /\ enoughAt = [k \in Keys |-> IF k \in DOMAIN OldApprovals
                                   /\ TrxIsAuthorized(OldApprovals[k])
                                THEN {0} ELSE {}]

Others(k, l) == {s \in standing : <<s[1], s[2]>> # <<k, l>>}

HApprove(k, l, hash) ==
  /\ Approve(k, l, hash)
  /\ standing' = Others(k, l) \cup {<<k, l, proposals[k].trx>>}

HUnapprove(k, l) == Unapprove(k, l) /\ standing' = Others(k, l)

HInvalidate(account) ==
  /\ Invalidate(account)
  /\ standing' = {s \in standing : Actor[s[2]] # account}

Elsewise ==
  \/ \E k \in Keys, r \in SUBSET Levels, x \in Transactions : Propose(k, r, x)
  \/ \E k \in Keys, a \in Accounts \cup Proposers : Cancel(k, a)
  \/ \E k \in Keys : Exec(k)
  \/ UpdateAuth
  \/ Tick

RecordEnough ==
  enoughAt' = [k \in Keys |->
    IF k \notin DOMAIN proposals' THEN {}
    ELSE IF enoughAt[k] # {} THEN enoughAt[k]
    ELSE IF TrxIsAuthorized(approvals[k])' THEN {now'} ELSE {}]

HNext ==
  /\ \/ \E k \in Keys, l \in Levels, h \in Transactions \cup {NoHash} :
          HApprove(k, l, h)
     \/ \E k \in Keys, l \in Levels : HUnapprove(k, l)
     \/ \E a \in Accounts : HInvalidate(a)
     \/ Elsewise /\ UNCHANGED standing
  /\ RecordEnough

HSpec == HInit /\ [][HNext]_hvars
----------------------------------------------------------------------------
(* What the contract counts is what stands: every approval that counts for *)
(* a proposal was given by its level for the very transaction that is      *)
(* proposed now, and was not revoked or invalidated since, in whatever     *)
(* order proposals of one name are cancelled, executed and made again.     *)
CountedStand ==
  \A k \in DOMAIN proposals : \A l \in CountedApprovals(approvals[k]) :
    <<k, l, proposals[k].trx>> \in standing

(* And what stands is counted, but for rows of the old table and for an    *)
(* approval of the same slot as the invalidation before it: an account     *)
(* that invalidates is not shut out, and what it approves later counts     *)
(* (cpp:24-45).  The header asks for more before exec, that all requested  *)
(* approvals are received and that approval accounts are not found in the  *)
(* invalidations (hpp:84-88); the code asks neither.                       *)
StandingCount ==
  \A k \in DOMAIN proposals : \A l \in DOMAIN approvals[k].provided :
    <<k, l, proposals[k].trx>> \in standing =>
      \/ Counts(approvals[k], l)
      \/ approvals[k].old
      \/ invalidations[Actor[l]] = approvals[k].provided[l]

(* The step that executes k: the proposal goes though nobody cancels it.   *)
Executed(k) == k \in DOMAIN proposals /\ Exec(k)

(* A transaction is executed only when, at that moment, levels that        *)
(* suffice under the authorities of that moment stand by it.               *)
EnoughStand(k) == {l \in Levels : <<k, l, proposals[k].trx>> \in standing}

ExecutedWithConsent ==
  [][\A k \in Keys : Executed(k) => EnoughStand(k) \in policy]_hvars

(* A delayed transaction is executed no earlier than its delay after its   *)
(* approvals first sufficed.                                               *)
DelayServed ==
  [][\A k \in Keys :
       Executed(k) =>
         \E t \in enoughAt[k] :
           t + DelaySec[proposals[k].trx] * SlotsPerSecond <= now]_hvars
=============================================================================
