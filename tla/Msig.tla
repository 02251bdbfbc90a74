-------------------------------- MODULE Msig --------------------------------
(***************************************************************************)
(* The contract eosio.msig: accounts propose transactions, those whose     *)
(* permissions are needed approve them, and anybody executes them then.    *)
(*                                                                         *)
(* One action is one transaction of the chain, a failed check a disabled   *)
(* action.  Who has to sign what is kept by the chain; the contract asks   *)
(* it (check_transaction_authorization) whether a set of permission levels *)
(* is enough, and the answer may change while a proposal waits.            *)
(***************************************************************************)
EXTENDS Tables

CONSTANTS
  Proposers, ProposalNames,
  Accounts,           \* those who cancel or invalidate
  Levels,             \* permission levels, and the account each is of
  Actor,
  Transactions,       \* the packed transactions, with their headers' fields
  Expiration,         \* in seconds
  DelaySec,
  NoHash,             \* an approve without the optional proposal_hash
  Policies,           \* what the chain may ask for: the sets of levels that do
  SlotsPerSecond,     \* block slots (of BLOCK_INTERVAL) in a second
  OldProposals, OldApprovals,  \* rows left by an earlier version of the contract
  MaxTime             \* bound: the last slot

Keys == Proposers \X ProposalNames

(* old: the row ends before the binary extension earliest_exec_time;       *)
(* earliest: its optional time, as a set of at most one slot.              *)
Proposal == [trx : Transactions, old : BOOLEAN, earliest : SUBSET Nat]

(* old: a row of the table approvals, whose approvals carry no time (0     *)
(* here), rather than of approvals2; provided: the time by level.          *)
IsApprovals(row) ==
  /\ row = [old |-> row.old, requested |-> row.requested,
            provided |-> row.provided]
  /\ row.old \in BOOLEAN
  /\ row.requested \in SUBSET Levels
  /\ DOMAIN row.provided \subseteq Levels
  /\ row.provided \in [DOMAIN row.provided -> Nat]

IsApprovalTable(table, keys) ==
  /\ table = [k \in keys |-> table[k]]
  /\ \A k \in keys : IsApprovals(table[k])

IsUpwardClosed(policy) ==
  \A enough \in policy : \A more \in SUBSET Levels :
    enough \subseteq more => more \in policy

ASSUME MsigAssumption ==
  /\ Actor \in [Levels -> Accounts]
  /\ Expiration \in [Transactions -> Nat] /\ DelaySec \in [Transactions -> Nat]
  /\ NoHash \notin Transactions
  /\ \A policy \in Policies :
       policy \subseteq SUBSET Levels /\ IsUpwardClosed(policy)
  /\ SlotsPerSecond \in Nat \ {0} /\ MaxTime \in Nat
  /\ DOMAIN OldProposals \subseteq Keys
  /\ DOMAIN OldApprovals = DOMAIN OldProposals
  /\ OldProposals \in [DOMAIN OldProposals -> Proposal]
  /\ IsApprovalTable(OldApprovals, DOMAIN OldProposals)
  /\ \A k \in DOMAIN OldProposals :
       /\ OldProposals[k].old /\ OldProposals[k].earliest = {}
       /\ OldApprovals[k].old
       /\ \A l \in DOMAIN OldApprovals[k].provided :
            OldApprovals[k].provided[l] = 0

VARIABLES
  now,           \* current_time_point(), in slots
  policy,        \* the authorities kept by the chain: the level sets that do
  proposals,     \* the table proposal: rows by proposer (the scope) and name
  approvals,     \* the tables approvals2 and approvals, likewise
  invalidations  \* the table invals: last_invalidation_time by account

vars == <<now, policy, proposals, approvals, invalidations>>

Init ==
  /\ now = 0
  /\ policy \in Policies
  /\ proposals = OldProposals
  /\ approvals = OldApprovals
  /\ invalidations = EmptyTable
----------------------------------------------------------------------------
(* time_point_sec(current_time_point())                                    *)
Seconds == now \div SlotsPerSecond

Expired(trx) == Expiration[trx] < Seconds

(* Mutants: an approval of the invalidation's slot counts, and none counts *)
(* of an account that ever called invalidate (the rule of the old table).  *)
CountsSameSlot(row, l) ==
  Actor[l] \in DOMAIN invalidations =>
    invalidations[Actor[l]] <= row.provided[l]

CountsOldRule(row, l) == Actor[l] \notin DOMAIN invalidations

(* The invalidation rule.  An approval of an old row has time 0, so that   *)
(* any invalidation by its account rules it out.                           *)
Counts(row, l) ==
  Actor[l] \in DOMAIN invalidations =>
    invalidations[Actor[l]] < row.provided[l]

CountedApprovals(row) == {l \in DOMAIN row.provided : Counts(row, l)}

TrxIsAuthorized(row) == CountedApprovals(row) \in policy
----------------------------------------------------------------------------
(* Mutant: the optional time is made with a value, the epoch.              *)
NewProposalSinceEpoch(trx) == [trx |-> trx, old |-> FALSE, earliest |-> {0}]

NewProposal(trx) == [trx |-> trx, old |-> FALSE, earliest |-> {}]

Propose(k, requested, trx) ==
  /\ ~Expired(trx)
  /\ k \notin DOMAIN proposals
  /\ requested \in policy
  /\ CanEmplace(approvals, k)
  /\ proposals' = WithRow(proposals, k, NewProposal(trx))
  /\ approvals' = WithRow(approvals, k, [old |-> FALSE, requested |-> requested,
                                         provided |-> EmptyTable])
  /\ UNCHANGED <<now, policy, invalidations>>

Approved(row, l) ==
  [old |-> row.old, requested |-> row.requested \ {l},
   provided |-> WithRow(row.provided, l, IF row.old THEN 0 ELSE now)]

Unapproved(row, l) ==
  [old |-> row.old, requested |-> row.requested \cup {l},
   provided |-> WithoutRows(row.provided, {l})]

(* The delay runs from the approve that makes the approvals sufficient     *)
(* while no earliest_exec_time is set ...                                  *)
Approve(k, l, hash) ==
  LET prop == proposals[k]
      row == Approved(approvals[k], l)
  IN  /\ k \in DOMAIN proposals /\ k \in DOMAIN approvals
      /\ hash \in {NoHash, prop.trx}
      /\ l \in approvals[k].requested
      /\ prop.old => DelaySec[prop.trx] = 0
      /\ approvals' = [approvals EXCEPT ![k] = row]
      /\ proposals' =
           IF ~prop.old /\ prop.earliest = {} /\ TrxIsAuthorized(row)
           THEN [proposals EXCEPT ![k].earliest =
                   {now + DelaySec[prop.trx] * SlotsPerSecond}]
           ELSE proposals
      /\ UNCHANGED <<now, policy, invalidations>>

(* ... and an unapprove that leaves them insufficient unsets it.           *)
Unapprove(k, l) ==
  LET prop == proposals[k]
      row == Unapproved(approvals[k], l)
  IN  /\ k \in DOMAIN proposals /\ k \in DOMAIN approvals
      /\ l \in DOMAIN approvals[k].provided
      /\ prop.old => DelaySec[prop.trx] = 0
      /\ approvals' = [approvals EXCEPT ![k] = row]
      /\ proposals' = IF ~prop.old /\ ~TrxIsAuthorized(row)
                      THEN [proposals EXCEPT ![k].earliest = {}]
                      ELSE proposals
      /\ UNCHANGED <<now, policy, invalidations>>

(* Mutant: the approvals outlive the proposal.                             *)
EraseProposal(k) ==
  /\ proposals' = WithoutRows(proposals, {k})
  /\ UNCHANGED <<now, policy, approvals, invalidations>>

Erase(k) ==
  /\ proposals' = WithoutRows(proposals, {k})
  /\ approvals' = WithoutRows(approvals, {k})
  /\ UNCHANGED <<now, policy, invalidations>>

(* Only the proposer cancels before the expiration.                        *)
Cancel(k, canceler) ==
  /\ k \in DOMAIN proposals /\ k \in DOMAIN approvals
  /\ canceler = k[1] \/ Expired(proposals[k].trx)
  /\ Erase(k)

DelayOver(prop) ==
  IF ~prop.old /\ prop.earliest # {}
  THEN \A t \in prop.earliest : t <= now
  ELSE DelaySec[prop.trx] = 0

(* Mutant: a proposal that was found authorized is not asked about again.  *)
ExecOnceAuthorized(k) ==
  /\ k \in DOMAIN proposals /\ k \in DOMAIN approvals
  /\ ~Expired(proposals[k].trx)
  /\ proposals[k].earliest # {} \/ TrxIsAuthorized(approvals[k])
  /\ DelayOver(proposals[k])
  /\ Erase(k)

(* exec by whoever calls it; the actions of the transaction run after it,  *)
(* and if one of them fails nothing has happened.                          *)
Exec(k) ==
  /\ k \in DOMAIN proposals /\ k \in DOMAIN approvals
  /\ ~Expired(proposals[k].trx)
  /\ TrxIsAuthorized(approvals[k])
  /\ DelayOver(proposals[k])
  /\ Erase(k)

Invalidate(account) ==
  /\ invalidations' = WithRow(invalidations, account, now)
  /\ UNCHANGED <<now, policy, proposals, approvals>>
----------------------------------------------------------------------------
(* Around the contract: authorities change, blocks are produced.           *)

UpdateAuth ==
  /\ policy' \in Policies
  /\ UNCHANGED <<now, proposals, approvals, invalidations>>

Tick ==
  /\ now < MaxTime
  /\ now' = now + 1
  /\ UNCHANGED <<policy, proposals, approvals, invalidations>>

Next ==
  \/ \E k \in Keys, r \in SUBSET Levels, x \in Transactions : Propose(k, r, x)
  \/ \E k \in Keys, l \in Levels, h \in Transactions \cup {NoHash} :
       Approve(k, l, h)
  \/ \E k \in Keys, l \in Levels : Unapprove(k, l)
  \/ \E k \in Keys, a \in Accounts \cup Proposers : Cancel(k, a)
  \/ \E k \in Keys : Exec(k)
  \/ \E a \in Accounts : Invalidate(a)
  \/ UpdateAuth
  \/ Tick

Spec == Init /\ [][Next]_vars
----------------------------------------------------------------------------
(* Type invariant; the two tables have rows for the same proposals, which  *)
(* six handlers write and erase in pairs (cpp:80-97, 218-236, 254-274).    *)
TypeOK ==
  /\ now \in 0 .. MaxTime
  /\ policy \in Policies
  /\ DOMAIN proposals \subseteq Keys
  /\ proposals \in [DOMAIN proposals -> Proposal]
  /\ IsApprovalTable(approvals, DOMAIN proposals)
  /\ DOMAIN invalidations \subseteq Accounts
  /\ invalidations \in [DOMAIN invalidations -> 0 .. now]
=============================================================================
