----------------------------- MODULE FamilyLedger -----------------------------
(***************************************************************************)
(* The M020 family ledger: CLI invocations, each a process with its own    *)
(* connection, on one SQLite file.  An invocation migrates the schema in a *)
(* transaction, looks the ledger up in a statement of its own and runs its *)
(* command in a second transaction.                                        *)
(*                                                                         *)
(* SQLite is external.  A transaction is deferred: its first read takes a  *)
(* snapshot, its first write needs the write lock and a snapshot that is   *)
(* still the committed database, and nothing waits for a lock.  Committed  *)
(* databases only grow, so a snapshot is current exactly when it equals    *)
(* the committed database.                                                 *)
(***************************************************************************)
EXTENDS LedgerDomain

CONSTANTS
  LedgerIds,
  Invocations,  \* CLI invocations that may run at the same time
  Commands,     \* the commands users give
  Faults        \* whether statements may fail and processes may die

(* The shapes the CLI decodes arguments and documents to. *)
ASSUME CommandsAssumption ==
  /\ \A r \in Commands :
       /\ r.op \in {"init", "account", "post", "journal", "balances", "verify"}
       /\ r.op = "init" => r.id \in LedgerIds
       /\ r.op = "account" => r.id \in Accounts /\ r.type \in Types
       /\ r.op = "post" => r.postings \in Seq(Posting)
  /\ None \notin Invocations \cup Commands

VARIABLES
  db,      \* the committed database
  wlock,   \* the invocation whose transaction holds the write lock
  pc,      \* the next step of each invocation
  cmd,     \* its command
  work,    \* the database its transaction sees: its snapshot and own writes
  read,    \* the entries it has read
  reply,   \* the answer the last step printed, if it printed one
  accepts  \* history: how often each post was printed as accepted

ownVars == <<cmd, work, read>>
vars == <<db, wlock, pc, ownVars, reply, accepts>>

Reads == {"journal", "balances", "verify"}
Posts == {r \in Commands : r.op = "post"}

EmptyDb == [migrated |-> FALSE, ledger |-> {},
            account |-> [a \in Accounts |-> None], txns |-> <<>>, lines |-> {}]
-----------------------------------------------------------------------------
Init ==
  /\ db    = EmptyDb
  /\ wlock = None
  /\ pc    = [c \in Invocations |-> "idle"]
  /\ cmd   = [c \in Invocations |-> None]
  /\ work  = [c \in Invocations |-> EmptyDb]
  /\ read  = [c \in Invocations |-> <<>>]
  /\ reply = None
  /\ accepts = [r \in Posts |-> 0]

Goto(c, step) == pc' = [pc EXCEPT ![c] = step] /\ reply' = None

(* What the transaction of c sees. *)
View(c) == work[c]

(* The invocation ends: its transaction is rolled back, if it has one. *)
End(c) ==
  /\ pc'    = [pc EXCEPT ![c] = "idle"]
  /\ cmd'   = [cmd EXCEPT ![c] = None]
  /\ work'  = [work EXCEPT ![c] = EmptyDb]
  /\ read'  = [read EXCEPT ![c] = <<>>]
  /\ wlock' = IF wlock = c THEN None ELSE wlock

(* It prints its result, or one diagnostic. *)
Output(c, outcome) ==
  /\ reply' = [by |-> c, cmd |-> cmd[c], outcome |-> outcome]
  /\ accepts' = IF outcome = "accepted"
                THEN [accepts EXCEPT ![cmd[c]] = @ + 1] ELSE accepts
  /\ End(c)

Answer(c, outcome) == Output(c, outcome) /\ UNCHANGED db

Busy(c) == Answer(c, "storage-failure")
-----------------------------------------------------------------------------
(* runLedger builds the storage layer, which migrates the schema. *)
Invoke(c, r) ==
  /\ pc[c] = "idle"
  /\ cmd' = [cmd EXCEPT ![c] = r]
  /\ Goto(c, "migrate")
  /\ UNCHANGED <<db, wlock, work, read, accepts>>

(* On an empty file CREATE TABLE writes at once; later it only reads.      *)
MigrateTables(c) ==
  /\ pc[c] = "migrate"
  /\ \/ /\ db.migrated
        /\ work' = [work EXCEPT ![c] = db]
        /\ Goto(c, "migrateRow")
        /\ UNCHANGED <<db, wlock, cmd, read, accepts>>
     \/ /\ ~db.migrated /\ wlock = None
        /\ work' = [work EXCEPT ![c] = [db EXCEPT !.migrated = TRUE]]
        /\ wlock' = c
        /\ Goto(c, "migrateCommit")
        /\ UNCHANGED <<db, cmd, read, accepts>>
     \/ ~db.migrated /\ wlock # None /\ Busy(c)

(* A write is refused when the snapshot is stale or the lock is taken. *)
MayWrite(c) == work[c] = db /\ wlock = None

(* INSERT OR IGNORE INTO schema_migration: a write, even when ignored. *)
MigrateRow(c) ==
  /\ pc[c] = "migrateRow"
  /\ IF MayWrite(c)
     THEN /\ wlock' = c
          /\ Goto(c, "migrateCommit")
          /\ UNCHANGED <<db, ownVars, accepts>>
     ELSE Busy(c)

Publish(c, step) ==
  /\ db' = work[c]
  /\ wlock' = None
  /\ Goto(c, step)
  /\ UNCHANGED <<ownVars, accepts>>

MigrateCommit(c) ==
  /\ pc[c] = "migrateCommit"
  /\ Publish(c, IF cmd[c].op = "init" THEN "lookup" ELSE "getLedger")

(* Faulty variant: initialize does not look for a ledger. *)
LedgerFaultReopens(op, d) ==
  IF Cardinality(d.ledger) > 1 THEN "corrupt-journal"
  ELSE IF op # "init" /\ d.ledger = {} THEN "not-initialized"
  ELSE "ok"

(* readSingletonLedger, or the opposite check of initialize. *)
LedgerFault(op, d) ==
  IF Cardinality(d.ledger) > 1 THEN "corrupt-journal"
  ELSE IF op = "init" /\ d.ledger # {} THEN "already-initialized"
  ELSE IF op # "init" /\ d.ledger = {} THEN "not-initialized"
  ELSE "ok"

(* getLedger: one statement, before the transaction of the command. *)
GetLedger(c) ==
  /\ pc[c] = "getLedger"
  /\ IF LedgerFault(cmd[c].op, db) = "ok"
     THEN Goto(c, "lookup") /\ UNCHANGED <<db, wlock, ownVars, accepts>>
     ELSE Answer(c, LedgerFault(cmd[c].op, db))

Find(d, id) == {n \in DOMAIN d.txns : d.txns[n].id = id}

(* Faulty variant: a known identity is a replay, whatever its payload. *)
LookupFaultById(r, d) ==
  IF LedgerFault(r.op, d) # "ok" THEN LedgerFault(r.op, d)
  ELSE IF r.op = "account" /\ d.account[r.id] # None THEN "duplicate-account"
  ELSE "ok"

(* The first reads of the command's transaction take its snapshot. *)
LookupFault(r, d) ==
  IF LedgerFault(r.op, d) # "ok" THEN LedgerFault(r.op, d)
  ELSE IF r.op = "account" /\ d.account[r.id] # None THEN "duplicate-account"
  ELSE IF r.op = "post" /\ \E n \in Find(d, r.id) :
                              d.txns[n].fingerprint # Fingerprint(r)
       THEN "transaction-identity-conflict"
  ELSE "ok"

AfterLookup(r, d) ==
  CASE r.op \in {"init", "account"} -> "insert"
    [] r.op = "post" -> IF Find(d, r.id) = {} THEN "check" ELSE "replay"
    [] r.op \in Reads -> "entries"

Lookup(c) ==
  /\ pc[c] = "lookup"
  /\ IF LookupFault(cmd[c], db) = "ok"
     THEN /\ work' = [work EXCEPT ![c] = db]
          /\ Goto(c, AfterLookup(cmd[c], db))
          /\ UNCHANGED <<db, wlock, cmd, read, accepts>>
     ELSE Answer(c, LookupFault(cmd[c], db))
-----------------------------------------------------------------------------
(* The posting rows of a transaction, and the i-th of them in line order. *)
Rows(d, id) == {l \in d.lines : l.id = id}
RowAt(rows, i) == CHOOSE l \in rows : Cardinality({m \in rows : m.line < l.line}) = i - 1

(* readEntry: the row of a transaction with its postings in line order. *)
EntryOf(d, n) ==
  LET t    == d.txns[n]
      rows == Rows(d, t.id)
  IN  [id |-> t.id, description |-> t.description, fingerprint |-> t.fingerprint,
       postings |-> [i \in 1..Cardinality(rows) |-> RowAt(rows, i)]]

EntriesOf(d) == [n \in DOMAIN d.txns |-> EntryOf(d, n)]

(* readDebitTotal *)
DebitTotal(d) ==
  SumFunction([l \in d.lines |-> IF l.side = "debit" THEN l.amount ELSE 0])

(* readSqlBalances *)
SqlBalances(d) ==
  [a \in {x \in Accounts : d.account[x] # None} |->
     SumFunction([l \in {m \in d.lines : m.account = a} |->
       IF (d.account[a] = "income") = (l.side = "credit")
       THEN l.amount ELSE -l.amount])]

(* A replay: the stored entry must still be valid, and the request valid   *)
(* as the command it came with.                                            *)
Replay(c) ==
  LET r == cmd[c]
      d == View(c)
      stored == {EntryOf(d, n) : n \in Find(d, r.id)}
      fault  == Validate(r.postings, d.account, r.kind)
  IN
  /\ pc[c] = "replay"
  /\ Answer(c, IF \E e \in stored : Corrupt(<<e>>, d.account) THEN "corrupt-journal"
               ELSE IF fault # "ok" THEN fault
               ELSE "replayed")

Check(c) ==
  LET fault == Validate(cmd[c].postings, View(c).account, cmd[c].kind) IN
  /\ pc[c] = "check"
  /\ IF fault = "ok"
     THEN Goto(c, "total") /\ UNCHANGED <<db, wlock, ownVars, accepts>>
     ELSE Answer(c, fault)

(* Faulty variant: each post is bounded on its own. *)
CheckOwnTotal(c) ==
  /\ pc[c] = "total"
  /\ IF Total(cmd[c].postings, "debit") <= MaxUnits
     THEN Goto(c, "insert") /\ UNCHANGED <<db, wlock, ownVars, accepts>>
     ELSE Answer(c, "amount-out-of-range")

CheckTotal(c) ==
  /\ pc[c] = "total"
  /\ IF DebitTotal(View(c)) + Total(cmd[c].postings, "debit") <= MaxUnits
     THEN Goto(c, "insert") /\ UNCHANGED <<db, wlock, ownVars, accepts>>
     ELSE Answer(c, "amount-out-of-range")

Inserted(r, d) ==
  CASE r.op = "init"    -> [d EXCEPT !.ledger = @ \cup {r.id}]
    [] r.op = "account" -> [d EXCEPT !.account[r.id] = r.type]
    [] r.op = "post"    -> [d EXCEPT !.txns = Append(@,
         [id |-> r.id, description |-> r.description, fingerprint |-> Fingerprint(r)])]

(* The first INSERT takes the write lock.  The UNIQUE constraints repeat   *)
(* what was just checked on the same snapshot.                             *)
Insert(c) ==
  /\ pc[c] = "insert"
  /\ IF MayWrite(c)
     THEN /\ wlock' = c
          /\ work' = [work EXCEPT ![c] = Inserted(cmd[c], View(c))]
          /\ Goto(c, IF cmd[c].op = "post" THEN "lines" ELSE "commit")
          /\ UNCHANGED <<db, cmd, read, accepts>>
     ELSE Busy(c)

(* One INSERT INTO posting for each line, in order. *)
Line(r, k) == [id |-> r.id, line |-> k, account |-> r.postings[k + 1].account,
               side |-> r.postings[k + 1].side, amount |-> r.postings[k + 1].amount]

Written(c) == Cardinality(Rows(work[c], cmd[c].id))

(* Faulty variant: the transaction commits one line early. *)
InsertLineShort(c) ==
  /\ pc[c] = "lines"
  /\ work' = [work EXCEPT ![c].lines = @ \cup {Line(cmd[c], Written(c))}]
  /\ Goto(c, IF Written(c) + 2 >= Len(cmd[c].postings) THEN "commit" ELSE "lines")
  /\ UNCHANGED <<db, wlock, cmd, read, accepts>>

InsertLine(c) ==
  /\ pc[c] = "lines"
  /\ work' = [work EXCEPT ![c].lines = @ \cup {Line(cmd[c], Written(c))}]
  /\ Goto(c, IF Written(c) + 1 = Len(cmd[c].postings) THEN "commit" ELSE "lines")
  /\ UNCHANGED <<db, wlock, cmd, read, accepts>>

Commit(c) == pc[c] = "commit" /\ Publish(c, "print")

PrintResult(c) ==
  /\ pc[c] = "print"
  /\ Answer(c, IF cmd[c].op = "post" THEN "accepted" ELSE "done")
-----------------------------------------------------------------------------
(* listJournal, listBalances and verifyRebuild read the entries and fold   *)
(* them; the last two then aggregate in SQL, in a later statement of the   *)
(* same transaction.                                                       *)
ReadEntries(c) ==
  LET entries == EntriesOf(View(c)) IN
  /\ pc[c] = "entries"
  /\ IF Corrupt(entries, View(c).account) THEN Answer(c, "corrupt-journal")
     ELSE IF cmd[c].op = "journal" THEN Answer(c, "done")
     ELSE /\ read' = [read EXCEPT ![c] = entries]
          /\ Goto(c, "sums")
          /\ UNCHANGED <<db, wlock, cmd, work, accepts>>

ReadSums(c) ==
  LET d == View(c) IN
  /\ pc[c] = "sums"
  /\ Answer(c, IF /\ cmd[c].op = "verify"
                  /\ SqlBalances(d) # FoldJournal(read[c], d.account)
               THEN "corrupt-journal" ELSE "done")

(* Any statement may fail with a SqlError, and any process may die between *)
(* two steps; a result committed but not printed is lost.                  *)
SqlFails(c) == Faults /\ pc[c] \notin {"idle", "print"} /\ Busy(c)

Die(c) == /\ Faults /\ pc[c] # "idle"
          /\ End(c)
          /\ reply' = None
          /\ UNCHANGED <<db, accepts>>

Work(c) == \/ MigrateTables(c) \/ MigrateRow(c) \/ MigrateCommit(c)
           \/ GetLedger(c) \/ Lookup(c) \/ Replay(c) \/ Check(c) \/ CheckTotal(c)
           \/ Insert(c) \/ InsertLine(c) \/ Commit(c) \/ PrintResult(c)
           \/ ReadEntries(c) \/ ReadSums(c)

Next == \E c \in Invocations : \/ \E r \in Commands : Invoke(c, r)
                               \/ Work(c) \/ SqlFails(c) \/ Die(c)

Spec == Init /\ [][Next]_vars
-----------------------------------------------------------------------------
(* However invocations interleave, fail, die and are repeated, the         *)
(* committed file rebuilds: every stored transaction has all its lines,    *)
(* is balanced on known accounts and matches its fingerprint, and the SQL  *)
(* aggregate of every account equals the independent fold (what `ledger    *)
(* rebuild verify` checks); and no command reports a corrupt journal, for  *)
(* what it reads in several statements is one database while others commit.*)
JournalRebuilds ==
  /\ Cardinality(db.ledger) <= 1
  /\ ~Corrupt(EntriesOf(db), db.account)
  /\ SqlBalances(db) = FoldJournal(EntriesOf(db), db.account)
  /\ reply # None => reply.outcome # "corrupt-journal"

(* A post is printed as accepted at most once for its transaction          *)
(* identity, over all repetitions, processes and crashes, and whenever one *)
(* was printed as accepted, or is printed as replayed, the journal holds   *)
(* exactly its payload.                                                    *)
Holds(r) == \E n \in Find(db, r.id) : db.txns[n].fingerprint = Fingerprint(r)
AcceptedOnce ==
  /\ \A r \in Posts : accepts[r] > 0 =>
       /\ accepts[r] = 1 /\ Holds(r)
       /\ \A s \in Posts : s.id = r.id /\ accepts[s] > 0 => s = r
  /\ reply # None /\ reply.outcome = "replayed" => Holds(reply.cmd)

(* The debits of the whole journal stay within MaxUnits though every post *)
(* checks its own sum only: no aggregate of readDebitTotal or              *)
(* readSqlBalances can overflow 64 bits, in whatever order it adds.        *)
AggregatesFit ==
  /\ DebitTotal(db) <= MaxUnits
  /\ \A a \in Accounts, side \in {"debit", "credit"} :
       SumFunction([l \in {m \in db.lines : m.account = a /\ m.side = side}
                      |-> l.amount]) <= MaxUnits

(* The ledger implements the append-only book: a committed transaction or  *)
(* posting is never changed, and a refused or failed command changes       *)
(* nothing.                                                                *)
Book == INSTANCE LedgerBook WITH
  ledger <- db.ledger, catalog <- db.account,
  journal <- [n \in DOMAIN db.txns |->
    LET e == EntryOf(db, n)
    IN  [id |-> e.id, description |-> e.description, postings |-> Payload(e)]]
KeepsTheBook == Book!Spec

(* tests/ledger-cli.test.ts: of two identical posts at the same time, one  *)
(* is accepted and one replayed; neither fails.  Only a post that found    *)
(* everything in order and whose INSERT finds the lock free is asked.      *)
ConcurrentReplaySucceeds == [][\A c \in Invocations :
  /\ pc[c] = "insert" /\ cmd[c].op = "post" /\ wlock = None
  /\ pc'[c] = "idle"
  /\ \A d \in Invocations : cmd[d] \in {None, cmd[c]}
  => reply'.outcome \in {"accepted", "replayed"}]_vars
=============================================================================
