----------------------------- MODULE MsigProofs -----------------------------
(***************************************************************************)
(* Proofs about Msig and MsigHistory, for any levels, transactions, times  *)
(* and authorities: types, the agreement of what counts with what stands,  *)
(* and what a step that executes a transaction may rely on.                *)
(***************************************************************************)
EXTENDS MsigHistory, TLAPS

Secs(trx) == DelaySec[trx] * SlotsPerSecond

(* A duration in slots.                                                    *)
LEMMA SecsNat ==
  ASSUME NEW trx \in Transactions
  PROVE  Secs(trx) \in Nat
<1>1. DelaySec[trx] \in Nat /\ SlotsPerSecond \in Nat
  BY MsigAssumption DEF MsigAssumption
<1> QED BY <1>1 DEF Secs
----------------------------------------------------------------------------
(* Types.                                                                  *)

LEMMA InitType == ASSUME Init PROVE TypeOK
<1>1. 0 \in 0 .. MaxTime
  BY MsigAssumption DEF MsigAssumption
<1>2. /\ DOMAIN OldProposals \subseteq Keys
      /\ OldProposals \in [DOMAIN OldProposals -> Proposal]
      /\ IsApprovalTable(OldApprovals, DOMAIN OldProposals)
  BY MsigAssumption DEF MsigAssumption
<1>3. /\ DOMAIN EmptyTable \subseteq Accounts
      /\ EmptyTable \in [DOMAIN EmptyTable -> 0 .. 0]
  BY DEF EmptyTable
<1> QED BY <1>1, <1>2, <1>3 DEF Init, TypeOK

(* A row stays typed by an approve and by an unapprove.                    *)
LEMMA RowTypes ==
  ASSUME NEW row, IsApprovals(row), NEW l \in Levels, now \in Nat
  PROVE  /\ IsApprovals(Approved(row, l)) /\ Approved(row, l).old = row.old
         /\ Approved(row, l).provided
              = WithRow(row.provided, l, IF row.old THEN 0 ELSE now)
         /\ IsApprovals(Unapproved(row, l)) /\ Unapproved(row, l).old = row.old
         /\ Unapproved(row, l).provided = WithoutRows(row.provided, {l})
<1> DEFINE time == IF row.old THEN 0 ELSE now
           more == WithRow(row.provided, l, time)
           less == WithoutRows(row.provided, {l})
<1>1. time \in Nat
  OBVIOUS
<1>2. /\ DOMAIN more \subseteq Levels
      /\ more \in [DOMAIN more -> Nat]
  BY <1>1 DEF IsApprovals, WithRow
<1>3. /\ DOMAIN less \subseteq Levels
      /\ less \in [DOMAIN less -> Nat]
  BY DEF IsApprovals, WithoutRows, Restrict
<1>4. Approved(row, l) = [old |-> row.old, requested |-> row.requested \ {l},
                          provided |-> more]
  BY DEF Approved
<1>5. Unapproved(row, l) = [old |-> row.old,
                            requested |-> row.requested \cup {l},
                            provided |-> less]
  BY DEF Unapproved
<1> HIDE DEF more, less
<1>6. IsApprovals(Approved(row, l))
  BY <1>2, <1>4 DEF IsApprovals
<1>7. IsApprovals(Unapproved(row, l))
  BY <1>3, <1>5 DEF IsApprovals
<1> QED BY <1>4, <1>5, <1>6, <1>7 DEF more, less

LEMMA NextType == ASSUME TypeOK, [Next]_vars PROVE TypeOK'
<1> USE DEF TypeOK
<1>0. MaxTime \in Nat /\ now \in Nat
  BY MsigAssumption DEF MsigAssumption
<1>1. ASSUME NEW k \in Keys, NEW r \in SUBSET Levels, NEW x \in Transactions,
             Propose(k, r, x)
      PROVE  TypeOK'
  <2> DEFINE row == [old |-> FALSE, requested |-> r, provided |-> EmptyTable]
  <2>1. NewProposal(x) \in Proposal
    BY DEF NewProposal, Proposal
  <2>2. IsApprovals(row)
    BY DEF IsApprovals, EmptyTable
  <2>3. /\ proposals' = WithRow(proposals, k, NewProposal(x))
        /\ approvals' = WithRow(approvals, k, row)
        /\ UNCHANGED <<now, policy, invalidations>>
    BY <1>1 DEF Propose
  <2> HIDE DEF row
  <2>4. /\ DOMAIN proposals' = DOMAIN proposals \cup {k}
        /\ proposals' \in [DOMAIN proposals' -> Proposal]
    BY <2>1, <2>3 DEF WithRow
  <2>5. DOMAIN approvals = DOMAIN proposals
    BY DEF IsApprovalTable
  <2>6. approvals' = [j \in DOMAIN proposals' |-> approvals'[j]]
    BY <2>3, <2>4, <2>5 DEF WithRow
  <2>7. \A j \in DOMAIN proposals' : IsApprovals(approvals'[j])
    BY <2>2, <2>3, <2>4, <2>5 DEF WithRow, IsApprovalTable
  <2> QED BY <2>3, <2>4, <2>6, <2>7 DEF IsApprovalTable
<1>2. ASSUME NEW k \in Keys, NEW row, k \in DOMAIN proposals, IsApprovals(row),
             approvals' = [approvals EXCEPT ![k] = row],
             NEW e \in SUBSET Nat,
             proposals' \in {proposals, [proposals EXCEPT ![k].earliest = e]},
             UNCHANGED <<now, policy, invalidations>>
      PROVE  TypeOK'
  <2>1. [proposals EXCEPT ![k].earliest = e] \in [DOMAIN proposals -> Proposal]
    BY <1>2 DEF Proposal
  <2>2. /\ DOMAIN proposals' = DOMAIN proposals
        /\ proposals' \in [DOMAIN proposals' -> Proposal]
    BY <1>2, <2>1
  <2>3. DOMAIN approvals = DOMAIN proposals
    BY DEF IsApprovalTable
  <2>4. approvals' = [j \in DOMAIN proposals' |-> approvals'[j]]
    BY <1>2, <2>2, <2>3
  <2>5. \A j \in DOMAIN proposals' : IsApprovals(approvals'[j])
    BY <1>2, <2>2, <2>3 DEF IsApprovalTable
  <2> QED BY <1>2, <2>2, <2>4, <2>5 DEF IsApprovalTable
<1>3. ASSUME NEW k \in Keys, NEW l \in Levels,
             NEW h \in Transactions \cup {NoHash}, Approve(k, l, h)
      PROVE  TypeOK'
  <2> DEFINE row == Approved(approvals[k], l)
             e == {now + DelaySec[proposals[k].trx] * SlotsPerSecond}
  <2>1. /\ k \in DOMAIN proposals
        /\ approvals' = [approvals EXCEPT ![k] = row]
        /\ proposals' \in {proposals, [proposals EXCEPT ![k].earliest = e]}
        /\ UNCHANGED <<now, policy, invalidations>>
    BY <1>3 DEF Approve
  <2>2. IsApprovals(row)
    BY <2>1, <1>0, RowTypes DEF IsApprovalTable
  <2>3. e \in SUBSET Nat
    <3>1. proposals[k].trx \in Transactions
      BY <2>1 DEF Proposal
    <3> QED BY <1>0, <3>1, SecsNat DEF Secs
  <2> HIDE DEF row, e
  <2> QED BY <1>2, <2>1, <2>2, <2>3
<1>4. ASSUME NEW k \in Keys, NEW l \in Levels, Unapprove(k, l)
      PROVE  TypeOK'
  <2> DEFINE row == Unapproved(approvals[k], l)
  <2>1. /\ k \in DOMAIN proposals
        /\ approvals' = [approvals EXCEPT ![k] = row]
        /\ proposals' \in {proposals, [proposals EXCEPT ![k].earliest = {}]}
        /\ UNCHANGED <<now, policy, invalidations>>
    BY <1>4 DEF Unapprove
  <2>2. IsApprovals(row)
    BY <2>1, <1>0, RowTypes DEF IsApprovalTable
  <2>3. {} \in SUBSET Nat
    OBVIOUS
  <2> HIDE DEF row
  <2> QED BY <1>2, <2>1, <2>2, <2>3
<1>5. ASSUME NEW k \in Keys, Erase(k)
      PROVE  TypeOK'
  <2>1. DOMAIN approvals = DOMAIN proposals
    BY DEF IsApprovalTable
  <2>2. /\ DOMAIN proposals' = DOMAIN proposals \ {k}
        /\ proposals' \in [DOMAIN proposals' -> Proposal]
        /\ UNCHANGED <<now, policy, invalidations>>
    BY <1>5 DEF Erase, WithoutRows, Restrict
  <2>3. /\ approvals' = [j \in DOMAIN proposals' |-> approvals'[j]]
        /\ \A j \in DOMAIN proposals' : approvals'[j] = approvals[j]
    BY <1>5, <2>1, <2>2 DEF Erase, WithoutRows, Restrict
  <2> QED BY <2>2, <2>3 DEF IsApprovalTable
<1>6. ASSUME NEW a \in Accounts, Invalidate(a)
      PROVE  TypeOK'
  <2>1. /\ DOMAIN invalidations' \subseteq Accounts
        /\ invalidations' \in [DOMAIN invalidations' -> 0 .. now]
    BY <1>0, <1>6 DEF Invalidate, WithRow
  <2> QED BY <1>6, <2>1 DEF Invalidate
<1>7. CASE UpdateAuth
  BY <1>7 DEF UpdateAuth
<1>8. CASE Tick
  <2>1. /\ now' \in 0 .. MaxTime
        /\ 0 .. now \subseteq 0 .. now'
        /\ UNCHANGED <<policy, proposals, approvals, invalidations>>
    BY <1>0, <1>8 DEF Tick
  <2> QED BY <2>1
<1>9. CASE UNCHANGED vars
  BY <1>9 DEF vars
<1> QED
  BY <1>1, <1>3, <1>4, <1>5, <1>6, <1>7, <1>8, <1>9 DEF Next, Cancel, Exec

(* Type correctness of eosio.msig's tables.                                *)
THEOREM MsigTypeCorrect == Spec => []TypeOK
BY InitType, NextType, PTL DEF Spec

LEMMA HNextIsNext == ASSUME [HNext]_hvars PROVE [Next]_vars
BY DEF HNext, hvars, HApprove, HUnapprove, HInvalidate, Elsewise, Next
----------------------------------------------------------------------------
(* What counts and what stands.  The invariant adds to CountedStand and    *)
(* StandingCount that no approval has a time to come: an invalidate of     *)
(* now then ends the counting of every approval of its account.            *)

Stands(k, l) == <<k, l, proposals[k].trx>> \in standing

Agree(k, l) ==
  LET row == approvals[k]
  IN  /\ row.provided[l] <= now
      /\ Counts(row, l) => Stands(k, l)
      /\ Stands(k, l) /\ ~row.old /\ Actor[l] \in DOMAIN invalidations
           => invalidations[Actor[l]] <= row.provided[l]

ConsentInv ==
  /\ TypeOK
  /\ standing \subseteq Keys \X Levels \X Transactions
  /\ \A k \in DOMAIN proposals : \A l \in DOMAIN approvals[k].provided :
       Agree(k, l)

LEMMA InitConsent == ASSUME HInit PROVE ConsentInv
<1> USE DEF HInit, Init
<1>1. TypeOK
  BY InitType
<1>2. \A k \in DOMAIN OldProposals :
        /\ k \in Keys /\ OldProposals[k].trx \in Transactions
        /\ DOMAIN OldApprovals[k].provided \subseteq Levels
  BY MsigAssumption
     DEF MsigAssumption, IsApprovalTable, IsApprovals, Proposal
<1>3. standing \subseteq Keys \X Levels \X Transactions
  BY <1>2
<1>4. ASSUME NEW k \in DOMAIN proposals,
             NEW l \in DOMAIN approvals[k].provided
      PROVE  Agree(k, l)
  <2>1. approvals[k].old /\ approvals[k].provided[l] = 0
    BY <1>4, MsigAssumption DEF MsigAssumption
  <2>2. Stands(k, l)
    BY <1>4 DEF Stands
  <2> QED BY <2>1, <2>2 DEF Agree
<1> QED BY <1>1, <1>3, <1>4 DEF ConsentInv

(* Where a step leaves a row, what stands for it and the invalidations.    *)
LEMMA AgreeKept ==
  ASSUME ConsentInv, NEW k \in DOMAIN proposals,
         NEW l \in DOMAIN approvals[k].provided,
         proposals'[k].trx = proposals[k].trx,
         approvals'[k].old = approvals[k].old,
         approvals'[k].provided[l] = approvals[k].provided[l],
         Stands(k, l)' <=> Stands(k, l),
         UNCHANGED invalidations, now' \in Nat, now' >= now
  PROVE  Agree(k, l)'
<1>1. Agree(k, l)
  BY DEF ConsentInv
<1>2. approvals[k].provided[l] \in Nat /\ now \in Nat
  BY DEF ConsentInv, TypeOK, IsApprovalTable, IsApprovals
<1> QED BY <1>1, <1>2 DEF Agree, Counts

LEMMA NextConsent == ASSUME ConsentInv, [HNext]_hvars PROVE ConsentInv'
<1> USE DEF ConsentInv
<1>0. /\ TypeOK'
      /\ now \in Nat /\ now' \in Nat
      /\ DOMAIN approvals = DOMAIN proposals
      /\ DOMAIN proposals \subseteq Keys
      /\ \A k \in DOMAIN proposals :
           /\ proposals[k].trx \in Transactions
           /\ IsApprovals(approvals[k])
           /\ DOMAIN approvals[k].provided \subseteq Levels
  <2>1. TypeOK'
    BY HNextIsNext, NextType
  <2>2. /\ DOMAIN approvals = DOMAIN proposals
        /\ DOMAIN proposals \subseteq Keys
    BY DEF TypeOK, IsApprovalTable
  <2>3. \A k \in DOMAIN proposals :
           /\ proposals[k].trx \in Transactions
           /\ IsApprovals(approvals[k])
           /\ DOMAIN approvals[k].provided \subseteq Levels
    BY DEF TypeOK, IsApprovalTable, IsApprovals, Proposal
  <2>4. now \in Nat /\ now' \in Nat
    BY <2>1 DEF TypeOK
  <2> QED BY <2>1, <2>2, <2>3, <2>4
<1>1. ASSUME NEW k \in Keys, NEW l \in Levels, NEW trx, NEW row,
             k \in DOMAIN proposals, row.old = approvals[k].old,
             approvals' = [approvals EXCEPT ![k] = row],
             DOMAIN proposals' = DOMAIN proposals,
             \A j \in DOMAIN proposals : proposals'[j].trx = proposals[j].trx,
             UNCHANGED <<now, invalidations>>,
             \A m \in DOMAIN row.provided \ {l} :
               /\ m \in DOMAIN approvals[k].provided
               /\ row.provided[m] = approvals[k].provided[m],
             \A s : <<s[1], s[2]>> # <<k, l>> =>
                      (s \in standing' <=> s \in standing),
             l \in DOMAIN row.provided => Agree(k, l)'
      PROVE  \A j \in DOMAIN proposals' : \A m \in DOMAIN approvals'[j].provided :
               Agree(j, m)'
  <2> SUFFICES ASSUME NEW j \in DOMAIN proposals',
                      NEW m \in DOMAIN approvals'[j].provided
               PROVE  Agree(j, m)'
    OBVIOUS
  <2>1. j \in DOMAIN proposals /\ j \in DOMAIN approvals
    BY <1>0, <1>1
  <2>2. CASE j = k /\ m = l
    BY <1>1, <2>1, <2>2
  <2>3. CASE ~(j = k /\ m = l)
    <3>1. Stands(j, m)' <=> Stands(j, m)
      <4>1. <<j, m>> # <<k, l>>
        BY <2>3
      <4> DEFINE s == <<j, m, proposals[j].trx>>
      <4>2. <<s[1], s[2]>> # <<k, l>>
        BY <4>1
      <4> QED BY <1>1, <2>1, <4>2 DEF Stands
    <3>2. /\ approvals'[j].old = approvals[j].old
          /\ m \in DOMAIN approvals[j].provided
          /\ approvals'[j].provided[m] = approvals[j].provided[m]
      BY <1>1, <2>1, <2>3
    <3> QED BY <1>0, <1>1, <2>1, <3>1, <3>2, AgreeKept
  <2> QED BY <2>2, <2>3
<1>2. ASSUME NEW k \in Keys, NEW l \in Levels,
             NEW h \in Transactions \cup {NoHash}, HApprove(k, l, h)
      PROVE  ConsentInv'
  <2> DEFINE row == Approved(approvals[k], l)
             time == IF approvals[k].old THEN 0 ELSE now
             new == <<k, l, proposals[k].trx>>
  <2>1. /\ k \in DOMAIN proposals
        /\ approvals' = [approvals EXCEPT ![k] = row]
        /\ UNCHANGED <<now, invalidations>>
        /\ standing' = Others(k, l) \cup {new}
    BY <1>2 DEF HApprove, Approve
  <2>2. /\ DOMAIN proposals' = DOMAIN proposals
        /\ \A j \in DOMAIN proposals : proposals'[j].trx = proposals[j].trx
    BY <1>2 DEF HApprove, Approve, TypeOK, Proposal
  <2>3. /\ row.old = approvals[k].old
        /\ row.provided = WithRow(approvals[k].provided, l, time)
    BY <1>0, <2>1, RowTypes
  <2>4. /\ DOMAIN row.provided = DOMAIN approvals[k].provided \cup {l}
        /\ row.provided[l] = time
        /\ \A m \in DOMAIN row.provided \ {l} :
             /\ m \in DOMAIN approvals[k].provided
             /\ row.provided[m] = approvals[k].provided[m]
    BY <2>3 DEF WithRow
  <2>5. \A s : <<s[1], s[2]>> # <<k, l>> => (s \in standing' <=> s \in standing)
    BY <2>1 DEF Others
  <2>6. Agree(k, l)'
    <3>1. approvals'[k] = row
      BY <1>0, <2>1
    <3>2. Stands(k, l)'
      BY <2>1, <2>2 DEF Stands
    <3>3. Actor[l] \in DOMAIN invalidations => invalidations[Actor[l]] \in 0 .. now
      BY DEF TypeOK
    <3> HIDE DEF row
    <3> QED BY <1>0, <2>1, <2>3, <2>4, <3>1, <3>2, <3>3 DEF Agree
  <2>7. standing' \subseteq Keys \X Levels \X Transactions
    BY <1>0, <2>1 DEF Others
  <2> HIDE DEF row, new
  <2>8. \A j \in DOMAIN proposals' : \A m \in DOMAIN approvals'[j].provided :
          Agree(j, m)'
    BY <1>1, <2>1, <2>2, <2>3, <2>4, <2>5, <2>6
  <2> QED BY <1>0, <2>7, <2>8
<1>3. ASSUME NEW k \in Keys, NEW l \in Levels, HUnapprove(k, l)
      PROVE  ConsentInv'
  <2> DEFINE row == Unapproved(approvals[k], l)
  <2>1. /\ k \in DOMAIN proposals
        /\ approvals' = [approvals EXCEPT ![k] = row]
        /\ UNCHANGED <<now, invalidations>>
        /\ standing' = Others(k, l)
    BY <1>3 DEF HUnapprove, Unapprove
  <2>2. /\ DOMAIN proposals' = DOMAIN proposals
        /\ \A j \in DOMAIN proposals : proposals'[j].trx = proposals[j].trx
    BY <1>3 DEF HUnapprove, Unapprove, TypeOK, Proposal
  <2>3. /\ row.old = approvals[k].old
        /\ row.provided = WithoutRows(approvals[k].provided, {l})
    BY <1>0, <2>1, RowTypes
  <2>4. /\ l \notin DOMAIN row.provided
        /\ \A m \in DOMAIN row.provided \ {l} :
             /\ m \in DOMAIN approvals[k].provided
             /\ row.provided[m] = approvals[k].provided[m]
    BY <2>3 DEF WithoutRows, Restrict
  <2>5. \A s : <<s[1], s[2]>> # <<k, l>> => (s \in standing' <=> s \in standing)
    BY <2>1 DEF Others
  <2>6. standing' \subseteq Keys \X Levels \X Transactions
    BY <2>1 DEF Others
  <2> HIDE DEF row
  <2>7. \A j \in DOMAIN proposals' : \A m \in DOMAIN approvals'[j].provided :
          Agree(j, m)'
    BY <1>1, <2>1, <2>2, <2>3, <2>4, <2>5
  <2> QED BY <1>0, <2>6, <2>7
<1>4. ASSUME NEW a \in Accounts, HInvalidate(a)
      PROVE  ConsentInv'
  <2>1. /\ UNCHANGED <<now, proposals, approvals>>
        /\ invalidations' = WithRow(invalidations, a, now)
        /\ standing' = {s \in standing : Actor[s[2]] # a}
    BY <1>4 DEF HInvalidate, Invalidate
  <2>2. ASSUME NEW k \in DOMAIN proposals, NEW l \in DOMAIN approvals[k].provided
        PROVE  Agree(k, l)'
    <3>1. Agree(k, l) /\ approvals[k].provided[l] \in Nat
      BY <1>0, <2>2 DEF IsApprovals
    <3>2. CASE Actor[l] = a
      <4>1. invalidations'[a] = now /\ a \in DOMAIN invalidations'
        BY <2>1 DEF WithRow
      <4>2. ~Counts(approvals[k], l)'
        BY <1>0, <2>1, <3>1, <3>2, <4>1 DEF Counts, Agree
      <4>3. ~Stands(k, l)'
        BY <2>1, <3>2 DEF Stands
      <4> QED BY <2>1, <3>1, <4>2, <4>3 DEF Agree
    <3>3. CASE Actor[l] # a
      <4>1. /\ Actor[l] \in DOMAIN invalidations'
                 <=> Actor[l] \in DOMAIN invalidations
            /\ Actor[l] \in DOMAIN invalidations =>
                 invalidations'[Actor[l]] = invalidations[Actor[l]]
        BY <2>1, <3>3 DEF WithRow
      <4>2. Stands(k, l)' <=> Stands(k, l)
        BY <2>1, <3>3 DEF Stands
      <4> QED BY <2>1, <3>1, <4>1, <4>2 DEF Agree, Counts
    <3> QED BY <3>2, <3>3
  <2> QED BY <1>0, <2>1, <2>2
<1>5. ASSUME UNCHANGED <<standing, invalidations>>, now' >= now,
             DOMAIN proposals' \subseteq DOMAIN proposals,
             \A k \in DOMAIN proposals' :
               /\ proposals'[k] = proposals[k]
               /\ approvals'[k] = approvals[k]
      PROVE  ConsentInv'
  <2>1. ASSUME NEW k \in DOMAIN proposals', NEW l \in DOMAIN approvals'[k].provided
        PROVE  Agree(k, l)'
    <3>1. k \in DOMAIN proposals /\ l \in DOMAIN approvals[k].provided
      BY <1>5
    <3>2. Stands(k, l)' <=> Stands(k, l)
      BY <1>5 DEF Stands
    <3> QED BY <1>0, <1>5, <3>1, <3>2, AgreeKept
  <2> QED BY <1>0, <1>5, <2>1
<1>6. ASSUME NEW k \in Keys, NEW r \in SUBSET Levels, NEW x \in Transactions,
             Propose(k, r, x), UNCHANGED standing
      PROVE  ConsentInv'
  <2>1. /\ k \notin DOMAIN proposals
        /\ DOMAIN proposals' = DOMAIN proposals \cup {k}
        /\ approvals'[k].provided = EmptyTable
        /\ \A j \in DOMAIN proposals :
             proposals'[j] = proposals[j] /\ approvals'[j] = approvals[j]
        /\ UNCHANGED <<now, invalidations>>
    BY <1>0, <1>6 DEF Propose, WithRow
  <2>2. ASSUME NEW j \in DOMAIN proposals', NEW m \in DOMAIN approvals'[j].provided
        PROVE  Agree(j, m)'
    <3>1. j # k
      BY <2>1, <2>2 DEF EmptyTable
    <3>2. j \in DOMAIN proposals /\ m \in DOMAIN approvals[j].provided
      BY <2>1, <3>1
    <3>3. Stands(j, m)' <=> Stands(j, m)
      BY <1>6, <2>1, <3>2 DEF Stands
    <3> QED BY <1>0, <2>1, <3>2, <3>3, AgreeKept
  <2> QED BY <1>0, <1>6, <2>2
<1>7. ASSUME NEW k \in Keys, Erase(k), UNCHANGED standing
      PROVE  ConsentInv'
  <2>1. /\ DOMAIN proposals' = DOMAIN proposals \ {k}
        /\ \A j \in DOMAIN proposals' :
             proposals'[j] = proposals[j] /\ approvals'[j] = approvals[j]
        /\ UNCHANGED <<now, invalidations>>
    BY <1>0, <1>7 DEF Erase, WithoutRows, Restrict
  <2> QED BY <1>0, <1>5, <1>7, <2>1
<1>8. CASE UpdateAuth /\ UNCHANGED standing
  BY <1>0, <1>5, <1>8 DEF UpdateAuth
<1>9. CASE Tick /\ UNCHANGED standing
  BY <1>0, <1>5, <1>9 DEF Tick
<1>10. CASE UNCHANGED hvars
  BY <1>0, <1>5, <1>10 DEF hvars, vars, history
<1> QED
  BY <1>2, <1>3, <1>4, <1>6, <1>7, <1>8, <1>9, <1>10
     DEF HNext, Elsewise, Cancel, Exec

LEMMA ConsentAlways == HSpec => []ConsentInv
BY InitConsent, NextConsent, PTL DEF HSpec

(* What counts is what stands: the approvals that exec passes on are given *)
(* for the transaction proposed, unrevoked and not invalidated.            *)
THEOREM CountedAlwaysStand == HSpec => []CountedStand
<1>1. ConsentInv => CountedStand
  BY DEF ConsentInv, Agree, Stands, CountedStand, CountedApprovals
<1> QED BY <1>1, ConsentAlways, PTL

(* And what stands is counted.                                             *)
THEOREM StandingAlwaysCount == HSpec => []StandingCount
<1>1. ASSUME ConsentInv PROVE StandingCount
  <2> SUFFICES ASSUME NEW k \in DOMAIN proposals,
                      NEW l \in DOMAIN approvals[k].provided,
                      Stands(k, l), ~approvals[k].old, ~Counts(approvals[k], l)
               PROVE  invalidations[Actor[l]] = approvals[k].provided[l]
    BY DEF StandingCount, Stands
  <2>1. Agree(k, l) /\ approvals[k].provided[l] \in Nat
    BY <1>1 DEF ConsentInv, TypeOK, IsApprovalTable, IsApprovals
  <2>2. Actor[l] \in DOMAIN invalidations
    BY DEF Counts
  <2>3. invalidations[Actor[l]] \in Nat
    BY <1>1, <2>2 DEF ConsentInv, TypeOK
  <2> QED BY <2>1, <2>2, <2>3 DEF Agree, Counts
<1> QED BY <1>1, ConsentAlways, PTL

(* A transaction runs only when levels that suffice stand by it.           *)
THEOREM ConsentAtExecution == HSpec => ExecutedWithConsent
<1>1. ASSUME ConsentInv, NEW k \in Keys, Executed(k)
      PROVE  EnoughStand(k) \in policy
  <2>1. /\ k \in DOMAIN proposals
        /\ CountedApprovals(approvals[k]) \in policy
    BY <1>1 DEF Executed, Exec, TrxIsAuthorized
  <2>2. CountedApprovals(approvals[k]) \subseteq EnoughStand(k)
    BY <1>1, <2>1
       DEF ConsentInv, TypeOK, IsApprovalTable, IsApprovals, Agree, Stands,
           CountedApprovals, EnoughStand
  <2>3. IsUpwardClosed(policy) /\ EnoughStand(k) \in SUBSET Levels
    BY <1>1, MsigAssumption
       DEF ConsentInv, TypeOK, MsigAssumption, EnoughStand
  <2> QED BY <2>1, <2>2, <2>3 DEF IsUpwardClosed
<1>2. ConsentInv =>
        [\A k \in Keys : Executed(k) => EnoughStand(k) \in policy]_hvars
  BY <1>1
<1> QED BY <1>2, ConsentAlways, PTL DEF HSpec, ExecutedWithConsent
----------------------------------------------------------------------------
(* The delay.  earliest_exec_time lies the delay after a moment at which   *)
(* the approvals sufficed.                                                 *)

DelayInv ==
  /\ TypeOK
  /\ enoughAt \in [Keys -> SUBSET Nat]
  /\ \A k \in Keys \ DOMAIN proposals : enoughAt[k] = {}
  /\ \A k \in DOMAIN proposals :
       /\ \A e \in proposals[k].earliest :
            \E t \in enoughAt[k] : t + Secs(proposals[k].trx) <= e
       /\ TrxIsAuthorized(approvals[k]) => enoughAt[k] # {}
       /\ \A t \in enoughAt[k] : t <= now

LEMMA InitDelay == ASSUME HInit PROVE DelayInv
<1>1. TypeOK
  BY InitType DEF HInit
<1>2. /\ DOMAIN proposals = DOMAIN approvals /\ DOMAIN proposals \subseteq Keys
      /\ now = 0 /\ approvals = OldApprovals
      /\ \A k \in DOMAIN proposals : proposals[k].earliest = {}
  BY MsigAssumption DEF MsigAssumption, HInit, Init
<1>3. enoughAt = [k \in Keys |-> IF k \in DOMAIN approvals
                                    /\ TrxIsAuthorized(approvals[k])
                                 THEN {0} ELSE {}]
  BY <1>2 DEF HInit
<1> QED BY <1>1, <1>2, <1>3 DEF DelayInv

(* A step sets earliest_exec_time, if at all, to the end of a delay that   *)
(* begins with approvals that suffice.                                     *)
LEMMA EarliestAfter ==
  ASSUME TypeOK, [HNext]_hvars, NEW k \in DOMAIN proposals',
         NEW e \in proposals'[k].earliest
  PROVE  \/ /\ k \in DOMAIN proposals
            /\ e \in proposals[k].earliest
            /\ proposals'[k].trx = proposals[k].trx
         \/ /\ e = now + Secs(proposals'[k].trx)
            /\ TrxIsAuthorized(approvals[k])'
            /\ now' = now
<1> DEFINE Kept == /\ k \in DOMAIN proposals
                   /\ e \in proposals[k].earliest
                   /\ proposals'[k].trx = proposals[k].trx
<1>0. DOMAIN approvals = DOMAIN proposals
  BY DEF TypeOK, IsApprovalTable
<1>1. ASSUME NEW j \in Keys, NEW r \in SUBSET Levels, NEW x \in Transactions,
             Propose(j, r, x)
      PROVE  Kept
  <2>1. proposals'[j].earliest = {} /\ k \in DOMAIN proposals \cup {j}
        /\ (k # j => proposals'[k] = proposals[k])
    BY <1>1 DEF Propose, WithRow, NewProposal
  <2> QED BY <2>1
<1>2. ASSUME NEW j \in Keys, NEW l \in Levels,
             NEW h \in Transactions \cup {NoHash}, Approve(j, l, h)
      PROVE  \/ Kept
             \/ /\ e = now + Secs(proposals'[k].trx)
                /\ TrxIsAuthorized(approvals[k])'
                /\ now' = now
  <2> DEFINE row == Approved(approvals[j], l)
             t == now + DelaySec[proposals[j].trx] * SlotsPerSecond
  <2>1. CASE proposals' = proposals
    BY <2>1
  <2>2. CASE proposals' # proposals
    <3>1. /\ proposals' = [proposals EXCEPT ![j].earliest = {t}]
          /\ TrxIsAuthorized(row)
          /\ approvals' = [approvals EXCEPT ![j] = row]
          /\ UNCHANGED <<now, policy, invalidations>>
          /\ j \in DOMAIN proposals
      BY <1>2, <2>2 DEF Approve
    <3>2. /\ proposals'[j].earliest = {t}
          /\ \A i \in DOMAIN proposals : proposals'[i].trx = proposals[i].trx
          /\ DOMAIN proposals' = DOMAIN proposals
      BY <3>1 DEF TypeOK, Proposal
    <3>3. CASE k = j
      <4>1. approvals'[k] = row
        BY <1>0, <3>1, <3>3
      <4> HIDE DEF row
      <4>a. CountedApprovals(approvals[k])' = CountedApprovals(row)
        BY <3>1, <4>1 DEF CountedApprovals, Counts
      <4>2. TrxIsAuthorized(approvals[k])'
        BY <3>1, <4>a DEF TrxIsAuthorized
      <4> QED BY <3>1, <3>2, <3>3, <4>2 DEF Secs
    <3>4. CASE k # j
      BY <3>1, <3>2, <3>4
    <3> QED BY <3>3, <3>4
  <2> QED BY <2>1, <2>2
<1>3. ASSUME NEW j \in Keys, NEW l \in Levels, Unapprove(j, l)
      PROVE  Kept
  <2>1. \/ proposals' = proposals
        \/ proposals' = [proposals EXCEPT ![j].earliest = {}]
    BY <1>3 DEF Unapprove
  <2>2. j \in DOMAIN proposals
    BY <1>3 DEF Unapprove
  <2> QED BY <2>1, <2>2 DEF TypeOK, Proposal
<1>4. ASSUME NEW j \in Keys, Erase(j)
      PROVE  Kept
  BY <1>4 DEF Erase, WithoutRows, Restrict
<1>5. ASSUME UNCHANGED proposals
      PROVE  Kept
  BY <1>5
<1>6. [Next]_vars
  BY HNextIsNext
<1> QED
  BY <1>1, <1>2, <1>3, <1>4, <1>5, <1>6
     DEF Next, Cancel, Exec, Invalidate, UpdateAuth, Tick, vars

LEMMA NextDelay == ASSUME DelayInv, [HNext]_hvars PROVE DelayInv'
<1> USE DEF DelayInv
<1>0. TypeOK'
  BY HNextIsNext, NextType
<1>1. now \in Nat /\ now' \in Nat /\ now' >= now /\ DOMAIN proposals' \subseteq Keys
  <2>1. now' = now \/ now' = now + 1
    BY HNextIsNext
       DEF Next, Propose, Approve, Unapprove, Cancel, Exec, Erase, Invalidate,
           UpdateAuth, Tick, vars
  <2> QED BY <1>0, <2>1 DEF TypeOK
<1>2. CASE UNCHANGED hvars
  BY <1>0, <1>2 DEF hvars, vars, history, TrxIsAuthorized, CountedApprovals, Counts
<1>3. CASE HNext
  <2>1. /\ enoughAt' \in [Keys -> SUBSET Nat]
        /\ \A k \in Keys \ DOMAIN proposals' : enoughAt'[k] = {}
        /\ \A k \in DOMAIN proposals' :
             enoughAt'[k] = IF enoughAt[k] # {} THEN enoughAt[k]
                            ELSE IF TrxIsAuthorized(approvals[k])' THEN {now'}
                            ELSE {}
    <3>1. RecordEnough
      BY <1>3 DEF HNext
    <3> QED BY <1>1, <3>1 DEF RecordEnough
  <2>2. ASSUME NEW k \in DOMAIN proposals'
        PROVE  /\ TrxIsAuthorized(approvals[k])' => enoughAt'[k] # {}
               /\ \A t \in enoughAt'[k] : t <= now'
    <3>1. TrxIsAuthorized(approvals[k])' => enoughAt'[k] # {}
      BY <2>1, <2>2
    <3>2. k \in DOMAIN proposals => \A t \in enoughAt[k] : t \in Nat /\ t <= now
      BY <1>1, <2>2
    <3>3. k \notin DOMAIN proposals => enoughAt[k] = {}
      BY <1>1, <2>2
    <3> QED BY <1>1, <2>1, <3>1, <3>2, <3>3
  <2>3. ASSUME NEW k \in DOMAIN proposals', NEW e \in proposals'[k].earliest
        PROVE  \E t \in enoughAt'[k] : t + Secs(proposals'[k].trx) <= e
    <3>1. CASE /\ k \in DOMAIN proposals
               /\ e \in proposals[k].earliest
               /\ proposals'[k].trx = proposals[k].trx
      <4>1. PICK t \in enoughAt[k] : t + Secs(proposals[k].trx) <= e
        BY <3>1
      <4>2. enoughAt'[k] = enoughAt[k]
        BY <2>1, <2>3, <4>1
      <4> QED BY <3>1, <4>1, <4>2
    <3>2. CASE /\ e = now + Secs(proposals'[k].trx)
               /\ TrxIsAuthorized(approvals[k])'
               /\ now' = now
      <4>1. PICK t \in enoughAt'[k] : t <= now'
        BY <2>2, <2>3, <3>2
      <4>2. Secs(proposals'[k].trx) \in Nat /\ t \in Nat
        <5>1. proposals'[k].trx \in Transactions
          BY <1>0, <2>3 DEF TypeOK, Proposal
        <5> QED BY <1>1, <2>1, <2>3, <5>1, SecsNat
      <4> QED BY <1>1, <3>2, <4>1, <4>2
    <3> QED BY <2>3, <3>1, <3>2, EarliestAfter
  <2> QED BY <1>0, <2>1, <2>2, <2>3
<1> QED BY <1>2, <1>3 DEF hvars

LEMMA DelayAlways == HSpec => []DelayInv
BY InitDelay, NextDelay, PTL DEF HSpec

(* A delayed transaction runs no earlier than its delay after its          *)
(* approvals first sufficed.                                               *)
THEOREM DelayAlwaysServed == HSpec => DelayServed
<1>1. ASSUME DelayInv, NEW k \in Keys, Executed(k)
      PROVE  \E t \in enoughAt[k] :
               t + DelaySec[proposals[k].trx] * SlotsPerSecond <= now
  <2>1. /\ k \in DOMAIN proposals
        /\ TrxIsAuthorized(approvals[k])
        /\ DelayOver(proposals[k])
    BY <1>1 DEF Executed, Exec
  <2>2. PICK t \in enoughAt[k] : t \in Nat /\ t <= now
    BY <1>1, <2>1 DEF DelayInv
  <2>3. CASE ~proposals[k].old /\ proposals[k].earliest # {}
    <3>1. PICK e \in proposals[k].earliest : e <= now
      BY <2>1, <2>3 DEF DelayOver
    <3>2. PICK u \in enoughAt[k] : u + Secs(proposals[k].trx) <= e
      BY <1>1, <2>1, <3>1 DEF DelayInv
    <3>3. u \in Nat /\ e \in Nat /\ now \in Nat /\ Secs(proposals[k].trx) \in Nat
      <4>1. proposals[k].trx \in Transactions /\ proposals[k].earliest \subseteq Nat
        BY <1>1, <2>1 DEF DelayInv, TypeOK, Proposal
      <4> QED BY <1>1, <3>1, <3>2, <4>1, SecsNat DEF DelayInv, TypeOK
    <3>4. u + Secs(proposals[k].trx) <= now
      BY <3>1, <3>2, <3>3
    <3> QED BY <3>4 DEF Secs
  <2>4. CASE proposals[k].old \/ proposals[k].earliest = {}
    <3>1. DelaySec[proposals[k].trx] = 0
      BY <2>1, <2>4 DEF DelayOver
    <3>2. SlotsPerSecond \in Nat
      BY MsigAssumption DEF MsigAssumption
    <3> QED BY <2>2, <3>1, <3>2
  <2> QED BY <2>3, <2>4
<1>2. DelayInv =>
        [\A k \in Keys :
           Executed(k) =>
             \E t \in enoughAt[k] :
               t + DelaySec[proposals[k].trx] * SlotsPerSecond <= now]_hvars
  BY <1>1
<1> QED BY <1>2, DelayAlways, PTL DEF HSpec, DelayServed
=============================================================================
