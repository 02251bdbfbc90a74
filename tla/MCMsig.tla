------------------------------- MODULE MCMsig -------------------------------
(***************************************************************************)
(* An instance of MsigHistory for TLC: a proposer with one name, two       *)
(* approvers of whom the chain asks either one or both, a transaction with *)
(* a delay and one without, and a proposal from the earlier version.       *)
(***************************************************************************)
EXTENDS MsigHistory

CONSTANTS
  Proposer, Name, Alice, Bob,
  Soon, Later  \* the transactions without and with a delay

MCActor == [l \in {Alice, Bob} |-> l]

MCExpiration == [x \in {Soon, Later} |-> 2]

MCDelaySec == [x \in {Soon, Later} |-> IF x = Later THEN 1 ELSE 0]

MCPolicies == {{{Alice}, {Bob}, {Alice, Bob}}, {{Alice, Bob}}}

MCKey == <<Proposer, Name>>

MCOldProposals ==
  WithRow(EmptyTable, MCKey, [trx |-> Soon, old |-> TRUE, earliest |-> {}])

MCOldApprovals ==
  WithRow(EmptyTable, MCKey,
          [old |-> TRUE, requested |-> {Bob},
           provided |-> WithRow(EmptyTable, Alice, 0)])
=============================================================================
