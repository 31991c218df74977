---------------------------- MODULE MCFamilyLedger ----------------------------
(* Two invocations at a time on a ledger of two accounts.  MaxUnits is     *)
(* small enough for two posts to exceed it together.                       *)
EXTENDS FamilyLedger, TLC

CONSTANTS i1, i2, cash, salary, t1, t2

P(a, side, n) == [account |-> a, side |-> side, amount |-> n]
Post(id, kind, ps) == [op |-> "post", id |-> id, description |-> "text",
                       postings |-> ps, kind |-> kind]

Income(id, n) == Post(id, "income", <<P(cash, "debit", n), P(salary, "credit", n)>>)
Wrong   == Post(t1, "transfer", <<P(cash, "debit", 2), P(salary, "credit", 2)>>)
Split   == Post(t2, "entry", <<P(cash, "debit", 1), P(salary, "credit", 2),
                               P(cash, "debit", 1)>>)

Accounting == {[op |-> "init", id |-> "family"],
               [op |-> "account", id |-> cash, type |-> "asset"],
               [op |-> "account", id |-> salary, type |-> "income"]}

(* Two users may open the ledger under different names. *)
MCCommands == Accounting \cup
  {[op |-> "init", id |-> "other"], Income(t1, 2), Wrong, Split, Income(t2, 2), [op |-> "verify"]}

ClaimCommands == Accounting \cup {Income(t1, 2)}

MCSymmetry == Permutations({i1, i2})
=============================================================================
