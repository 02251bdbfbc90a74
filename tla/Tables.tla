------------------------------- MODULE Tables -------------------------------
(***************************************************************************)
(* A multi_index table (of the CDT), in one scope: a function from the     *)
(* primary keys of its rows to the rows.  emplace aborts when the key is   *)
(* taken (CanEmplace, which guards every action that emplaces a row        *)
(* without a look at the table), else it adds the row (WithRow); modify    *)
(* replaces a row that was found (EXCEPT, or WithRow where the code        *)
(* emplaces or modifies by what find gave); erase removes rows.            *)
(***************************************************************************)
EXTENDS Integers, FiniteSetsExt, Functions

EmptyTable == [id \in {} |-> 0]

CanEmplace(table, id) == id \notin DOMAIN table

(* The table with this row, added or in place of the one with its key.     *)
WithRow(table, id, row) ==
  [k \in DOMAIN table \cup {id} |-> IF k = id THEN row ELSE table[k]]

WithoutRows(table, ids) == Restrict(table, DOMAIN table \ ids)

(* available_primary_key, of a table object made for this action: one more *)
(* than the last row's key, so the key of an erased last row is handed out *)
(* again.                                                                  *)
AvailablePrimaryKey(table) ==
  IF DOMAIN table = {} THEN 0 ELSE Max(DOMAIN table) + 1
=============================================================================
