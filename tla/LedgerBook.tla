------------------------------ MODULE LedgerBook ------------------------------
(***************************************************************************)
(* What the family ledger promises: one ledger, a growing catalog, and a   *)
(* journal that only grows, by balanced entries on known accounts, each    *)
(* transaction identity at most once, all debits together in MaxUnits.     *)
(***************************************************************************)
EXTENDS LedgerDomain

CONSTANTS LedgerIds

VARIABLES ledger, catalog, journal

book == <<ledger, catalog, journal>>

Debits(entries) ==
  SumFunction([n \in DOMAIN entries |-> Total(entries[n].postings, "debit")])

Init == /\ ledger = {}
        /\ catalog = [a \in Accounts |-> None]
        /\ journal = <<>>

Open == /\ ledger = {}
        /\ \E id \in LedgerIds : ledger' = {id}
        /\ UNCHANGED <<catalog, journal>>

AddAccount(a) == /\ ledger # {} /\ catalog[a] = None
                 /\ \E type \in Types : catalog' = [catalog EXCEPT ![a] = type]
                 /\ UNCHANGED <<ledger, journal>>

(* The last entry of the new journal is the only new one. *)
Enter == LET e == journal'[Len(journal')] IN
  /\ DOMAIN journal' # DOMAIN journal /\ journal = SubSeq(journal', 1, Len(journal') - 1)
  /\ \A n \in DOMAIN journal : journal[n].id # e.id
  /\ \A i \in DOMAIN e.postings : /\ e.postings[i].amount > 0
                                  /\ catalog[e.postings[i].account] # None
  /\ Total(e.postings, "debit") = Total(e.postings, "credit")
  /\ Debits(journal') <= MaxUnits
  /\ UNCHANGED <<ledger, catalog>>

Next == Open \/ (\E a \in Accounts : AddAccount(a)) \/ Enter

Spec == Init /\ [][Next]_book
=============================================================================
