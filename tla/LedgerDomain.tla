----------------------------- MODULE LedgerDomain -----------------------------
(***************************************************************************)
(* The accounting judgments of ledger-domain.ts: what a valid journal      *)
(* entry is and what balances a journal folds to.  A catalog maps every    *)
(* account identity to its type, or to None while it does not exist.       *)
(* Identifiers are model values, so the decoding of their spelling is left *)
(* out; amounts are the integers the CLI decodes.                          *)
(***************************************************************************)
EXTENDS Integers, Sequences, FiniteSets, Functions, FiniteSetsExt

CONSTANTS Accounts, MaxUnits, None

Types   == {"asset", "income", "expense"}

ASSUME DomainAssumption == MaxUnits \in Nat /\ None \notin Types

Sides   == <<"debit", "credit">>
Posting == [account : Accounts, side : {"debit", "credit"}, amount : Int]

Total(ps, side) ==
  SumFunction([i \in DOMAIN ps |-> IF ps[i].side = side THEN ps[i].amount ELSE 0])

(* The account types a standard command debits and credits, in this order. *)
Expected == [income   |-> <<"asset", "income">>,
             expense  |-> <<"expense", "asset">>,
             transfer |-> <<"asset", "asset">>]

PostingFault(q, catalog) ==
  IF q.amount <= 0 THEN "invalid-amount"
  ELSE IF q.amount > MaxUnits THEN "amount-out-of-range"
  ELSE IF catalog[q.account] = None THEN "unknown-account"
  ELSE "ok"

(* The fault of the first faulty posting. *)
FirstFault(ps, catalog) ==
  LET faulty == {i \in DOMAIN ps : PostingFault(ps[i], catalog) # "ok"}
  IN  IF faulty = {} THEN "ok" ELSE PostingFault(ps[Min(faulty)], catalog)

KindFault(ps, catalog, kind) ==
  IF Len(ps) # 2 THEN "invalid-request"
  ELSE IF \E i \in 1..2 : \/ ps[i].side # Sides[i]
                          \/ catalog[ps[i].account] # Expected[kind][i]
       THEN "wrong-account-type"
  ELSE IF kind = "transfer" /\ ps[1].account = ps[2].account THEN "self-transfer"
  ELSE "ok"

(* validateEntry: the reason a request is refused, or "ok".  The kind is   *)
(* "entry" for a general entry.                                            *)
Validate(ps, catalog, kind) ==
  IF Len(ps) < 2 THEN "invalid-request"
  ELSE IF FirstFault(ps, catalog) # "ok" THEN FirstFault(ps, catalog)
  ELSE IF Total(ps, "debit") > MaxUnits \/ Total(ps, "credit") > MaxUnits
       THEN "amount-out-of-range"
  ELSE IF Total(ps, "debit") # Total(ps, "credit") THEN "unbalanced-entry"
  ELSE IF kind = "entry" THEN "ok"
  ELSE KindFault(ps, catalog, kind)

(* The material a request is identified by: everything but its kind. *)
Fingerprint(r) == [id |-> r.id, description |-> r.description, postings |-> r.postings]

(* An entry as it is read back: its row and its postings in line order,    *)
(* each with the line it was stored under.                                 *)
Payload(e) == [i \in DOMAIN e.postings |->
  [account |-> e.postings[i].account, side |-> e.postings[i].side,
   amount |-> e.postings[i].amount]]

(* foldJournal fails on a journal no sequence of accepted posts leaves. *)
Corrupt(entries, catalog) ==
  \/ \E m, n \in DOMAIN entries : m # n /\ entries[m].id = entries[n].id
  \/ \E n \in DOMAIN entries : LET e == entries[n] IN
       \/ Validate(Payload(e), catalog, "entry") # "ok"
       \/ e.fingerprint # Fingerprint([e EXCEPT !.postings = Payload(e)])
       \/ \E i \in DOMAIN e.postings : e.postings[i].line # i - 1

DebitNormal(type) == type \in {"asset", "expense"}

Signed(q, type) ==
  IF (q.side = "debit") = DebitNormal(type) THEN q.amount ELSE -q.amount

(* The balance of every account of the catalog, from the entries alone. *)
FoldJournal(entries, catalog) ==
  [a \in {x \in Accounts : catalog[x] # None} |->
     SumFunction([n \in DOMAIN entries |->
       LET ps == entries[n].postings
           at == {i \in DOMAIN ps : ps[i].account = a}
       IN  SumFunction([i \in at |-> Signed(ps[i], catalog[a])])])]
=============================================================================
