----------------------------- MODULE DemoToken ------------------------------
(***************************************************************************)
(* The two token contracts of the repository side by side: eosio.token     *)
(* with its migration, and demo.tmy, a fork of it whose holders act        *)
(* through the login permission of an app, and issue to themselves.        *)
(*                                                                         *)
(* The contract is deployed once and for all.  Who signs (an account, or   *)
(* its permission named after the contract) and who pays for a row are     *)
(* left out; without them the two contracts' shared actions are the same.  *)
(***************************************************************************)
EXTENDS TokenHistory

VARIABLE contract  \* the contract that keeps the tables

dvars == <<hvars, contract>>

DInit == HInit /\ contract \in {"eosio.token", "demo.tmy"}

DemoCreate(issuer, sym, max_supply) == Create(issuer, sym, max_supply)
DemoIssue(to, sym, quantity) == Issue(to, sym, quantity)
DemoRetire(from, sym, quantity) == Retire(from, sym, quantity)
DemoTransfer(from, to, sym, quantity) == Transfer(from, to, sym, quantity)
DemoOpen(owner, sym) == Open(owner, sym)
DemoClose(owner, sym) == Close(owner, sym)

(* Mutant: whoever signs in may have any amount.                           *)
SelfIssueUnlimited(to, sym, quantity) ==
  LET st == stats[sym][sym]
  IN  /\ Exists(sym)
      /\ CanAdd(to, sym, quantity)
      /\ stats' = [stats EXCEPT ![sym] = [@ EXCEPT
                     ![sym] = WithSupply(st, st.supply + quantity)]]
      /\ accounts' = [accounts EXCEPT ![to] = Added(@, sym, quantity)]

SelfIssue(to, sym, quantity) == IssueTo(to, sym, quantity)

DemoNext ==
  \/ \E a \in Accounts, s \in Symbols, q \in Quantities :
       \/ DemoCreate(a, s, q)
       \/ DemoIssue(a, s, q)
       \/ SelfIssue(a, s, q)
       \/ DemoRetire(a, s, q)
       \/ \E b \in Accounts : DemoTransfer(a, b, s, q)
  \/ \E a \in Accounts, s \in Symbols : DemoOpen(a, s) \/ DemoClose(a, s)

DEosio == contract = "eosio.token" /\ HNext /\ UNCHANGED contract
DDemo == contract = "demo.tmy" /\ DemoNext /\ UNCHANGED <<unrecorded, contract>>

DNext == DEosio \/ DDemo

DSpec == DInit /\ [][DNext]_dvars
----------------------------------------------------------------------------
(* The demo's tokens in circulation never exceed their maximum, though     *)
(* every account that signs in issues to itself and the bound is kept only *)
(* through the supply on record: no sequence of issues, retirements and    *)
(* closed rows makes tokens the record does not know (demo.tmy.cpp:27-97,  *)
(* 173-181).  With eosio.token the migration does just that.               *)
WithinMaximum == contract = "demo.tmy" => MaxSupplyHonoured
=============================================================================
