------------------------------ MODULE MCTonomy ------------------------------
(***************************************************************************)
(* Two persons and an app to be made, one account that is there, and one   *)
(* DAO that pays for RAM.  A uint64_t has 16 values.                       *)
(***************************************************************************)
EXTENDS Tonomy, TLC

MCInitialBalance == [a \in DaoOwners \cup {TonomyName} |->
                       IF a = TonomyName THEN 0 ELSE 3]

Symmetry == Permutations(Usernames) \cup Permutations(Origins)
=============================================================================
