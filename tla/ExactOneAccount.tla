--------------------------- MODULE ExactOneAccount ---------------------------
(***************************************************************************)
(* What the M026 data service promises about each account: it is opened    *)
(* once with an available withdrawal grant at revision 0, and at most one  *)
(* withdrawal ever takes effect.  That withdrawal uses the grant up, moves *)
(* the account to revision 1 and settles its balance for good.             *)
(***************************************************************************)
EXTENDS Integers

CONSTANTS Accounts,   \* the account identities
          NoRow       \* an account that has not been opened

VARIABLE summary      \* the public AccountSummary of every account

Fresh == [balance : Nat, revision : {0}, withdrawalAvailable : {TRUE}]
Spent == [balance : Nat, revision : {1}, withdrawalAvailable : {FALSE}]

Init == summary = [a \in Accounts |-> NoRow]

(* Only the summary of account a changes. *)
Only(a) == summary' = [summary EXCEPT ![a] = summary'[a]]

Open(a) == /\ summary[a] = NoRow
           /\ summary'[a] \in Fresh
           /\ Only(a)

Withdraw(a) == /\ summary[a] \in Fresh
               /\ summary'[a] \in Spent
               /\ Only(a)

Next == \E a \in Accounts : Open(a) \/ Withdraw(a)

Spec == Init /\ [][Next]_summary
=============================================================================
