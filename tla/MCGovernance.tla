---------------------------- MODULE MCGovernance ----------------------------
(***************************************************************************)
(* A person, an app, and a system account; governance gives and takes      *)
(* accounts, keys, links and limits.  A uint64_t has 16 values.            *)
(***************************************************************************)
EXTENDS Governance

MCInitialBalance == [a \in DaoOwners \cup {TonomyName} |->
                       IF a = TonomyName THEN 0 ELSE 3]
MCHandLimits == {[ram |-> 5, net |-> 1, cpu |-> 2], Unlimited}
=============================================================================
