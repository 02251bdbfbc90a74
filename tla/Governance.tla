----------------------------- MODULE Governance -----------------------------
(***************************************************************************)
(* The native actions of the chain, which governance sends to the contract *)
(* tonomy (native.cpp), which forwards them to eosio (eosio.tonomy.cpp),   *)
(* next to what Tonomy does with the same accounts, permissions, links and *)
(* limits.  eosio refuses them from anybody else (check_sender); from      *)
(* tonomy it lets the chain's own handler do the work, sets the limits     *)
(* itself, and keeps the hash of the last ABI of each account.  Before it, *)
(* eosio has the contract eosio.boot and then eosio.bios, which ask nobody *)
(* and leave the table of hashes behind; eosio.bios may be set once more.  *)
(*                                                                         *)
(* What only reaches an intrinsic that no other action reads is left out:  *)
(* setcode of other accounts than eosio, setpriv, setprods, setparams,     *)
(* activate, canceldelay, and the checks reqauth and reqactivated; onerror *)
(* always fails.  Links are those to the action loginwithapp.              *)
(***************************************************************************)
EXTENDS Tonomy

CONSTANTS
  SystemAccounts,     \* the five accounts named in special_governance_check
  Governed,           \* bound: the accounts that governance names
  NativePermissions,  \* bound: the permissions that governance names
  HandLimits,         \* bound: the limits that governance sets
  Coded, Abis         \* bound: the accounts that get ABIs, and which

ASSUME GovernanceAssumption ==
  /\ SystemAccounts \subseteq Hosts /\ Governed \cup Coded \subseteq Names
  /\ NativePermissions \subseteq KeyPermissions
  /\ HandLimits \subseteq [ram : Int, net : Int, cpu : Int]

VARIABLES
  system,     \* the contract of eosio
  abi,        \* the ABI the chain keeps for each account that has one
  abihash,    \* abi_hash_table: the hash stands for the ABI
  byHand      \* history: the RAM that governance has set by hand, in bytes,
              \* and that is still in force

native == <<system, abi, abihash>>
gvars == <<vars, native, byHand>>

GInit ==
  /\ Init
  /\ system = "boot" /\ abi = EmptyTable /\ abihash = EmptyTable
  /\ byHand = 0

----------------------------------------------------------------------------
(* The permission of the governance account that must have signed.         *)
SpecialGovernanceCheck(account, signed) ==
  "owner" = signed <=> account \in SystemAccounts

OwnerSigned(signed) == signed = "owner"

(* eosio.tonomy takes what governance checked; those before it take what   *)
(* the chain lets pass.                                                    *)
CheckSender(checked) == system = "tonomy" => checked

(* setcode of eosio: eosio.bios takes the place of eosio.boot, and from    *)
(* then on either of the other two may be set in place of the other, again *)
(* and again.  eosio.tonomy lets governance do it, through the proxy or    *)
(* directly (eosio is one of the five accounts that need the owner); the   *)
(* others ask nobody but the chain.  That eosio.boot is set again is left  *)
(* out: it keeps no hashes, and those on record would be of older ABIs.    *)
SetSystem(next, signed, direct) ==
  /\ <<system, next>> \in {<<"boot", "bios">>, <<"bios", "tonomy">>, <<"tonomy", "bios">>}
  /\ direct \/ CheckSender(OwnerSigned(signed))
  /\ system' = next
  /\ UNCHANGED <<vars, abi, abihash, byHand>>

NativeNewAccount(name, signed) ==
  /\ CheckSender(OwnerSigned(signed))
  /\ NewAccount(name)
  /\ UNCHANGED <<registry, config, balance, native, byHand>>

NativeUpdateAuth(account, permission, parent, signed) ==
  /\ CheckSender(SpecialGovernanceCheck(account, signed))
  /\ UpdateAuth(account, permission, parent)
  /\ UNCHANGED <<registry, config, limits, links, balance, native, byHand>>

(* The chain keeps owner and active, and what another permission or a link *)
(* depends on.                                                             *)
DeleteAuth(account, permission) ==
  /\ Exists(account)
  /\ permission \in DOMAIN perms[account] \ {"owner", "active"}
  /\ \A p \in DOMAIN perms[account] : perms[account][p] # permission
  /\ links[account] # permission
  /\ perms' = [perms EXCEPT ![account] = WithoutRows(@, {permission})]

NativeDeleteAuth(account, permission, signed) ==
  /\ CheckSender(SpecialGovernanceCheck(account, signed))
  /\ DeleteAuth(account, permission)
  /\ UNCHANGED <<registry, config, limits, links, balance, native, byHand>>

(* linkauth asks nothing of governance; the chain wants the permission.    *)
NativeLinkAuth(account, requirement) ==
  /\ Exists(account)
  /\ requirement \in DOMAIN perms[account]
  /\ LinkAuth(account, requirement)
  /\ UNCHANGED <<registry, config, limits, perms, balance, native, byHand>>

NativeUnlinkAuth(account, signed) ==
  /\ CheckSender(SpecialGovernanceCheck(account, signed))
  /\ Exists(account)
  /\ links[account] # "none"
  /\ links' = [links EXCEPT ![account] = "none"]
  /\ UNCHANGED <<registry, config, limits, perms, balance, native, byHand>>

SetALimits(account, limit, signed) ==
  /\ system # "boot"
  /\ CheckSender(OwnerSigned(signed))
  /\ Exists(account)
  /\ SetResourceLimits(account, limit)
  /\ byHand' = byHand + limit.ram - limits[account].ram
  /\ UNCHANGED <<registry, config, perms, links, balance, native>>

(* Mutant: the row is made once and not modified.                          *)
HashOnce(account, newabi) ==
  IF account \in DOMAIN abihash THEN abihash ELSE WithRow(abihash, account, newabi)

HashSet(account, newabi) == WithRow(abihash, account, newabi)

(* Through the proxy, or sent to eosio directly and signed by tonomy: the  *)
(* way in differs, the effect does not.                                    *)
SetAbi(account, newabi, signed, direct) ==
  /\ direct \/ CheckSender(SpecialGovernanceCheck(account, signed))
  /\ Exists(account)
  /\ abi' = WithRow(abi, account, newabi)
  /\ abihash' = IF system = "boot" THEN abihash ELSE HashSet(account, newabi)
  /\ UNCHANGED <<vars, system, byHand>>
----------------------------------------------------------------------------
(* The first key of a person replaces what governance had set for her.     *)
Replaced(account) == IF IsCreating(account) THEN limits[account].ram + 1 ELSE 0

GUpdateKeyPerson(account, level, link_auth) ==
  /\ UpdateKeyPerson(account, level, link_auth)
  /\ byHand' = byHand - Replaced(account)
  /\ UNCHANGED native

GChangeKeys ==
  \E n \in KeyHolders :
    /\ \/ \E level \in Levels, link_auth \in BOOLEAN :
            GUpdateKeyPerson(n, level, link_auth)
       \/ \E app \in Names, parent \in Permissions :
            LoginWithApp(n, app, parent) /\ UNCHANGED <<native, byHand>>
    /\ Cardinality(DOMAIN perms'[n]) <= MaxPermissions

Otherwise ==
  /\ \/ Register
     \/ Trade
     \/ \E n \in KeyHolders : UpdateActive(n)
     \/ \E price \in Prices, total \in RamTotals, fee \in Fees :
          SetResParams(price, total, fee)
  /\ UNCHANGED <<native, byHand>>

Native ==
  \E n \in Governed, signed \in {"owner", "active"} :
    \/ NativeNewAccount(n, signed)
    \/ \E p \in NativePermissions :
         \/ NativeUpdateAuth(n, p, "owner", signed)
         \/ NativeDeleteAuth(n, p, signed)
         \/ NativeLinkAuth(n, p)
    \/ NativeUnlinkAuth(n, signed)
    \/ \E limit \in HandLimits : SetALimits(n, limit, signed)
    \/ n \in Coded /\ \E a \in Abis, direct \in BOOLEAN : SetAbi(n, a, signed, direct)

(* eosio.bios comes first: it alone can give tonomy its privileges.        *)
GNext ==
  \/ \E next \in {"bios", "tonomy"}, signed \in {"owner", "active"},
        direct \in BOOLEAN : SetSystem(next, signed, direct)
  \/ Native
  \/ system # "boot" /\ (GChangeKeys \/ Otherwise)

GSpec == GInit /\ [][GNext]_gvars
----------------------------------------------------------------------------
(* Type invariant; in the chain no permission lacks its parent and no link *)
(* its permission, which the guards of the chain's own handlers keep       *)
(* (UpdateAuth, DeleteAuth, NativeLinkAuth), not the contracts.            *)
GTypeOK ==
  /\ TypeOK
  /\ system \in {"boot", "bios", "tonomy"}
  /\ DOMAIN abi \subseteq Names /\ abi \in [DOMAIN abi -> Abis]
  /\ DOMAIN abihash \subseteq Names /\ abihash \in [DOMAIN abihash -> Abis]
  /\ byHand \in Int
  /\ \A n \in DOMAIN perms :
       /\ links[n] \in DOMAIN perms[n] \cup {"none"}
       /\ \A p \in DOMAIN perms[n] : perms[n][p] \in DOMAIN perms[n] \cup {"none"}

(* total_ram_used stays what the accounts hold but for what governance set *)
(* by hand: setalimits goes past the total, and what it gave a person is   *)
(* replaced, not added to, when she gets her first key                     *)
(* (tonomy.cpp:313-327, 470-480, 517-526, native.cpp:114-120).             *)
RamReconciled ==
  config.total_ram_used
    = (SumFunction([n \in DOMAIN limits |-> RamHeld(n)]) - byHand) % TwoTo64

(* Once a person is Active nobody changes her limits but governance with   *)
(* setalimits: no further key grants them again, no trade is made for her, *)
(* also when the administrator names her as an app (tonomy.cpp:261-269,    *)
(* 313-328, 434-442, 491-498).                                             *)
LimitsKept ==
  [][\A p \in DOMAIN people :
       people[p].status = "Active" /\ limits'[p] # limits[p] =>
         \E limit \in HandLimits, signed \in {"owner", "active"} :
           SetALimits(p, limit, signed)]_gvars

(* A hash on record is that of the ABI the chain keeps, by whichever way   *)
(* and under whichever contract of eosio it was set last                   *)
(* (eosio.bios.cpp:4-17, eosio.tonomy.cpp:66-92).                          *)
AbiHashed ==
  \A n \in DOMAIN abihash : n \in DOMAIN abi /\ abihash[n] = abi[n]
=============================================================================
