-------------------------- MODULE FamilyLedgerProofs --------------------------
(***************************************************************************)
(* Proofs about FamilyLedger for any commands and any number of            *)
(* invocations at a time.                                                  *)
(***************************************************************************)
EXTENDS FamilyLedger, FiniteSums

Stored(r) == [id |-> r.id, description |-> r.description, fingerprint |-> Fingerprint(r)]
Txns      == {Stored(r) : r \in Posts}

(* What the proof needs of a database: its transactions are a list.  Every *)
(* other table is only ever replaced.                                      *)
Tables  == {"migrated", "ledger", "account", "txns", "lines"}
IsDb(d) == DOMAIN d = Tables /\ d = [x \in Tables |-> d[x]] /\ d.txns \in Seq(Txns)

Absent(txns, id) == \A n \in DOMAIN txns : txns[n].id # id
Present(txns, r) == \E n \in DOMAIN txns :
  txns[n].id = r.id /\ txns[n].fingerprint = Fingerprint(r)
Prefix(s, t) == \A n \in DOMAIN s : n \in DOMAIN t /\ t[n] = s[n]

IsPost(c) == cmd[c].op = "post"

Typed ==
  /\ IsDb(db)
  /\ DOMAIN work = Invocations /\ \A c \in Invocations : IsDb(work[c])
  /\ DOMAIN pc = Invocations /\ DOMAIN cmd = Invocations
  /\ work = [c \in Invocations |-> work[c]] /\ pc = [c \in Invocations |-> pc[c]]
  /\ cmd = [c \in Invocations |-> cmd[c]]
  /\ \A c \in Invocations : pc[c] # "idle" => cmd[c] \in Commands
  /\ accepts \in [Posts -> Nat]

(* Whoever is about to commit holds the write lock, and what it commits is *)
(* the committed list, with one transaction of a new identity if it posts. *)
LockInv == \A c \in Invocations :
  /\ pc[c] \in {"migrateCommit", "lines", "commit"} => wlock = c
  /\ pc[c] = "migrateCommit" => work[c].txns = db.txns
  /\ pc[c] = "lines" => IsPost(c)
  /\ pc[c] \in {"lines", "commit"} =>
       IF IsPost(c) THEN /\ Absent(db.txns, cmd[c].id)
                         /\ work[c].txns = Append(db.txns, Stored(cmd[c]))
       ELSE work[c].txns = db.txns

(* What a transaction found in its snapshot. *)
SnapshotInv == \A c \in Invocations :
  /\ pc[c] \in {"check", "total"} => IsPost(c)
  /\ pc[c] = "insert" => cmd[c].op \in {"init", "account", "post"}
  /\ pc[c] \in {"check", "total", "insert"} /\ IsPost(c) => Absent(work[c].txns, cmd[c].id)
  /\ pc[c] = "replay" => /\ Present(work[c].txns, cmd[c])
                         /\ Prefix(work[c].txns, db.txns)

(* A post about to be printed as accepted is in the journal, and nobody    *)
(* else was or is about to be told so of its identity.                     *)
PrintInv == \A c \in Invocations : (pc[c] = "print" /\ IsPost(c)) =>
  /\ Present(db.txns, cmd[c])
  /\ \A s \in Posts : s.id = cmd[c].id => accepts[s] = 0
  /\ \A d \in Invocations \ {c} : (pc[d] = "print" /\ IsPost(d)) => cmd[d].id # cmd[c].id

AcceptInv ==
  /\ \A r \in Posts : accepts[r] > 0 =>
       /\ accepts[r] = 1 /\ Present(db.txns, r)
       /\ \A s \in Posts : s.id = r.id /\ accepts[s] > 0 => s = r
  /\ reply # None /\ reply.outcome = "replayed" => Present(db.txns, reply.cmd)

(* The inductive invariant.  AcceptedOnce alone does not say why a second  *)
(* invocation cannot accept the same identity: because it would have to    *)
(* hold the lock with a list that lacks it (LockInv), and because the      *)
(* identity of a post not yet printed is in the list already (PrintInv).   *)
IInv == Typed /\ LockInv /\ SnapshotInv /\ PrintInv /\ AcceptInv

(* The commands there are. *)
LEMMA CommandOps ==
  /\ \A r \in Commands :
       r.op \in {"init", "account", "post", "journal", "balances", "verify"}
  /\ None \notin Invocations \cup Commands
  BY CommandsAssumption
USE CommandOps

(* How the statements change the tables. *)
LEMMA EmptyIsDb == IsDb(EmptyDb) /\ EmptyDb.txns = <<>>
  <1>1. EmptyDb.txns = <<>> /\ <<>> \in Seq(Txns)
    BY DEF EmptyDb
  <1>2. DOMAIN EmptyDb = Tables /\ EmptyDb = [x \in Tables |-> EmptyDb[x]]
    BY DEF EmptyDb, Tables
  <1> QED BY <1>1, <1>2 DEF IsDb

(* Replacing a table other than the transactions keeps a database one.     *)
LEMMA TableChanges ==
  ASSUME NEW d, IsDb(d), NEW v, NEW w, NEW e,
         \/ e = [d EXCEPT !.migrated = TRUE]
         \/ e = [d EXCEPT !.lines = @ \cup v]
         \/ e = [d EXCEPT !.account[v] = w]
         \/ e = [d EXCEPT !.ledger = @ \cup {w}]
  PROVE  IsDb(e) /\ e.txns = d.txns
  BY DEF IsDb, Tables

(* So does entering one more transaction.                                  *)
LEMMA TxnAppended ==
  ASSUME NEW d, IsDb(d), NEW x \in Txns, NEW e, e = [d EXCEPT !.txns = Append(@, x)]
  PROVE  IsDb(e) /\ e.txns = Append(d.txns, x)
  <1>1. d.txns \in Seq(Txns) /\ Append(d.txns, x) \in Seq(Txns)
    BY DEF IsDb
  <1>2. /\ DOMAIN e = Tables /\ e = [y \in Tables |-> e[y]]
        /\ e.txns = Append(d.txns, x)
    BY DEF IsDb, Tables
  <1> QED BY <1>1, <1>2 DEF IsDb

(* A post entered at the end is present, and everything before it stays.   *)
LEMMA AppendFacts ==
  ASSUME NEW s \in Seq(Txns), NEW r \in Posts
  PROVE  /\ Append(s, Stored(r)) \in Seq(Txns)
         /\ Prefix(s, Append(s, Stored(r)))
         /\ Present(Append(s, Stored(r)), r)
         /\ \A n \in DOMAIN Append(s, Stored(r)) :
              Append(s, Stored(r))[n] = Stored(r) \/ (n \in DOMAIN s /\ Append(s, Stored(r))[n] = s[n])
  <1>1. Stored(r) \in Txns
    BY DEF Txns
  <1>2. Stored(r).id = r.id /\ Stored(r).fingerprint = Fingerprint(r)
    BY DEF Stored
  <1> DEFINE x == Stored(r)
             t == Append(s, x)
  <1>3. /\ t \in Seq(Txns) /\ DOMAIN t = 1..Len(s) + 1 /\ DOMAIN s = 1..Len(s)
        /\ t[Len(s) + 1] = x /\ \A n \in 1..Len(s) : t[n] = s[n]
        /\ Len(s) \in Nat
    BY <1>1
  <1> HIDE DEF x, t
  <1>4. Prefix(s, t)
    BY <1>3 DEF Prefix
  <1>5. Present(t, r)
    BY <1>2, <1>3 DEF Present, x
  <1>6. \A n \in DOMAIN t : t[n] = x \/ (n \in DOMAIN s /\ t[n] = s[n])
    BY <1>3
  <1> QED BY <1>3, <1>4, <1>5, <1>6 DEF x, t

(* What is present in a list is present in every longer one.               *)
LEMMA PresentStays ==
  ASSUME NEW s, NEW t, Prefix(s, t), NEW r, Present(s, r)
  PROVE  Present(t, r)
  BY DEF Prefix, Present

(* A post that is present does not have the identity of one that is absent.*)
LEMMA PresentIsNotAbsent ==
  ASSUME NEW s, NEW r, NEW id, Present(s, r), Absent(s, id)
  PROVE  r.id # id
  BY DEF Present, Absent

(* Longer lists extend what shorter ones extend.                           *)
LEMMA PrefixIsTransitive ==
  ASSUME NEW s, NEW t, NEW u, Prefix(s, t), Prefix(t, u)
  PROVE  Prefix(s, u)
  BY DEF Prefix

(* The initial state satisfies the invariant. *)
LEMMA InitIInv == Init => IInv
  BY EmptyIsDb DEF Init, IInv, Typed, LockInv, SnapshotInv, PrintInv, AcceptInv

(* The invocation ends without a success: nothing it did remains. *)
LEMMA EndKeeps ==
  ASSUME IInv, NEW c \in Invocations, End(c), UNCHANGED <<db, accepts>>,
         reply' = None \/ reply'.outcome # "replayed" \/ Present(db.txns, reply'.cmd)
  PROVE  IInv'
  <1> USE DEF IInv, End
  <1>1. Typed'
    BY EmptyIsDb DEF Typed
  <1>2. LockInv' /\ SnapshotInv'
    BY DEF Typed, LockInv, SnapshotInv, IsPost
  <1>3. PrintInv' /\ AcceptInv'
    BY DEF Typed, PrintInv, AcceptInv, IsPost
  <1> QED BY <1>1, <1>2, <1>3

(* Every answer but that of a post that has been committed. *)
LEMMA AnswerKeeps ==
  ASSUME IInv, NEW c \in Invocations, NEW o, Answer(c, o), o # "accepted",
         o = "replayed" => Present(db.txns, cmd[c])
  PROVE  IInv'
  <1>1. reply'.outcome = o /\ reply'.cmd = cmd[c]
    BY DEF Answer, Output
  <1>2. End(c) /\ UNCHANGED <<db, accepts>>
    BY DEF Answer, Output
  <1> QED BY <1>1, <1>2, EndKeeps

(* A step that neither reads nor writes a table. *)
LEMMA GotoKeeps ==
  ASSUME IInv, NEW c \in Invocations, NEW step, Goto(c, step),
         UNCHANGED <<db, wlock, work, cmd, accepts>>,
         \/ step \in {"migrateRow", "lookup", "sums", "getLedger"} /\ pc[c] # "idle"
         \/ pc[c] = "check" /\ step = "total"
         \/ pc[c] = "total" /\ step = "insert"
  PROVE  IInv'
  <1> USE DEF IInv, Goto
  <1>1. Typed'
    BY DEF Typed
  <1>2. LockInv' /\ SnapshotInv'
    BY DEF Typed, LockInv, SnapshotInv, IsPost
  <1>3. PrintInv' /\ AcceptInv'
    BY DEF Typed, PrintInv, AcceptInv, IsPost
  <1> QED BY <1>1, <1>2, <1>3

(* Accepting a command. *)
LEMMA InvokeKeeps == ASSUME IInv, NEW c \in Invocations, NEW r \in Commands, Invoke(c, r) PROVE IInv'
  <1> USE DEF IInv, Invoke, Goto
  <1>1. Typed'
    BY DEF Typed
  <1>2. LockInv' /\ SnapshotInv'
    BY DEF Typed, LockInv, SnapshotInv, IsPost
  <1>3. PrintInv' /\ AcceptInv'
    BY DEF Typed, PrintInv, AcceptInv, IsPost
  <1> QED BY <1>1, <1>2, <1>3

(* The migration changes no list. *)
LEMMA MigrateKeeps ==
  ASSUME IInv, NEW c \in Invocations, MigrateTables(c) \/ MigrateRow(c)
  PROVE  IInv'
  <1>1. CASE Busy(c)
    BY <1>1, AnswerKeeps DEF Busy
  <1>2. CASE ~Busy(c) /\ MigrateTables(c)
    <2>1. PICK d : /\ IsDb(d) /\ d.txns = db.txns
                   /\ work' = [work EXCEPT ![c] = d]
                   /\ \/ wlock' = wlock /\ Goto(c, "migrateRow")
                      \/ wlock = None /\ wlock' = c /\ Goto(c, "migrateCommit")
                   /\ UNCHANGED <<db, cmd, read, accepts>>
      BY <1>2, TableChanges DEF MigrateTables, IInv, Typed
    <2>2. pc[c] = "migrate"
      BY <1>2 DEF MigrateTables
    <2> USE <2>1, <2>2 DEF IInv, Goto
    <2>3. Typed'
      BY DEF Typed
    <2>4. LockInv' /\ SnapshotInv'
      BY DEF Typed, LockInv, SnapshotInv, IsPost
    <2>5. PrintInv' /\ AcceptInv'
      BY DEF Typed, PrintInv, AcceptInv, IsPost
    <2> QED BY <2>3, <2>4, <2>5
  <1>3. CASE ~Busy(c) /\ MigrateRow(c)
    <2>1. /\ work[c] = db /\ wlock = None /\ wlock' = c
          /\ pc[c] = "migrateRow" /\ Goto(c, "migrateCommit")
          /\ UNCHANGED <<db, ownVars, accepts>>
      BY <1>3 DEF MigrateRow, MayWrite
    <2> USE <2>1 DEF IInv, Goto, ownVars
    <2>2. Typed'
      BY DEF Typed
    <2>3. LockInv' /\ SnapshotInv'
      BY DEF Typed, LockInv, SnapshotInv, IsPost
    <2>4. PrintInv' /\ AcceptInv'
      BY DEF Typed, PrintInv, AcceptInv, IsPost
    <2> QED BY <2>2, <2>3, <2>4
  <1> QED BY <1>1, <1>2, <1>3

(* Committing: the list of the holder of the lock becomes the committed    *)
(* one; every snapshot stays a prefix of it.                               *)
LEMMA PublishKeeps ==
  ASSUME IInv, NEW c \in Invocations, NEW step, Publish(c, step),
         \/ pc[c] = "migrateCommit" /\ step \in {"lookup", "getLedger"}
         \/ pc[c] = "commit" /\ step = "print"
  PROVE  IInv'
  <1> USE DEF IInv
  <1>1. /\ wlock = c /\ wlock' = None /\ db' = work[c] /\ db'.txns = work[c].txns
        /\ pc' = [pc EXCEPT ![c] = step] /\ reply' = None
        /\ UNCHANGED <<work, cmd, read, accepts>>
    BY DEF Publish, Goto, ownVars, LockInv
  <1>2. \A d \in Invocations \ {c} : pc[d] \notin {"migrateCommit", "lines", "commit"}
    BY <1>1 DEF LockInv
  <1>3. Typed'
    BY <1>1 DEF Typed
  <1>4. LockInv'
    BY <1>1, <1>2, <1>3 DEF Typed, LockInv
  <1>5. CASE db'.txns = db.txns /\ ~(pc[c] = "commit" /\ IsPost(c))
    <2>1. SnapshotInv'
      BY <1>1, <1>5 DEF Typed, SnapshotInv, IsPost
    <2>2. PrintInv' /\ AcceptInv'
      BY <1>1, <1>5 DEF Typed, PrintInv, AcceptInv, IsPost
    <2> QED BY <1>3, <1>4, <2>1, <2>2
  <1>6. CASE pc[c] = "commit" /\ IsPost(c)
    <2>1. /\ Absent(db.txns, cmd[c].id) /\ cmd[c] \in Posts /\ db.txns \in Seq(Txns)
          /\ db'.txns = Append(db.txns, Stored(cmd[c]))
      BY <1>1, <1>6 DEF LockInv, Typed, IsPost, Posts, IsDb
    <2>2. Prefix(db.txns, db'.txns) /\ Present(db'.txns, cmd[c])
      BY <2>1, AppendFacts
    <2>3. SnapshotInv'
      BY <1>1, <2>2, PrefixIsTransitive DEF Typed, SnapshotInv, IsPost
    <2>4. \A s \in Posts : s.id = cmd[c].id => accepts[s] = 0
      <3> SUFFICES ASSUME NEW s \in Posts, s.id = cmd[c].id, accepts[s] # 0 PROVE FALSE
        OBVIOUS
      <3>1. Present(db.txns, s)
        BY DEF AcceptInv, Typed
      <3> QED BY <2>1, <3>1, PresentIsNotAbsent
    <2>5. \A d \in Invocations : (pc[d] = "print" /\ IsPost(d)) => cmd[d].id # cmd[c].id
      BY <2>1, PresentIsNotAbsent DEF PrintInv
    <2>6. PrintInv'
      BY <1>1, <1>6, <2>2, <2>4, <2>5, PresentStays DEF Typed, PrintInv, IsPost
    <2>7. AcceptInv'
      BY <1>1, <2>2, PresentStays DEF AcceptInv
    <2> QED BY <1>3, <1>4, <2>3, <2>6, <2>7
  <1> QED BY <1>1, <1>5, <1>6 DEF LockInv, IsPost

(* The outcomes of the checks are neither "accepted" nor "replayed". *)
Successes == {"accepted", "replayed"}

(* No refusal is printed as a success.                                     *)
LEMMA FaultsAreNoSuccesses ==
  /\ \A op, d : LedgerFault(op, d) \notin Successes
  /\ \A r, d : LookupFault(r, d) \notin Successes
  /\ \A ps, catalog, kind : Validate(ps, catalog, kind) \notin Successes
  <1>1. \A op, d : LedgerFault(op, d) \notin Successes
    BY DEF LedgerFault, Successes
  <1>2. \A r, d : LookupFault(r, d) \notin Successes
    BY <1>1 DEF LookupFault, Successes
  <1>3. \A ps, catalog : FirstFault(ps, catalog) \notin Successes
    BY DEF FirstFault, PostingFault, Successes
  <1>4. \A ps, catalog, kind : KindFault(ps, catalog, kind) \notin Successes
    BY DEF KindFault, Successes
  <1>5. \A ps, catalog, kind : Validate(ps, catalog, kind) \notin Successes
    BY <1>3, <1>4 DEF Validate, Successes
  <1> QED BY <1>1, <1>2, <1>5

(* A transaction's first reads take its snapshot and decide what it does.  *)
LEMMA LookupKeeps == ASSUME IInv, NEW c \in Invocations, Lookup(c) PROVE IInv'
  <1>1. CASE LookupFault(cmd[c], db) # "ok"
    BY <1>1, AnswerKeeps, FaultsAreNoSuccesses DEF Lookup, Successes
  <1>2. CASE LookupFault(cmd[c], db) = "ok"
    <2> USE DEF IInv
    <2> DEFINE r == cmd[c]
               step == AfterLookup(r, db)
    <2>1. /\ pc[c] = "lookup" /\ r \in Commands
          /\ work' = [work EXCEPT ![c] = db] /\ pc' = [pc EXCEPT ![c] = step]
          /\ reply' = None /\ UNCHANGED <<db, wlock, cmd, read, accepts>>
      BY <1>2 DEF Lookup, Goto, Typed
    <2>2. \/ step = "insert" /\ r.op \in {"init", "account"}
          \/ step = "check" /\ r.op = "post" /\ Absent(db.txns, r.id)
          \/ step = "replay" /\ r.op = "post" /\ Present(db.txns, r)
          \/ step = "entries"
      <3>1. CASE r.op \in {"init", "account"}
        BY <3>1 DEF AfterLookup
      <3>2. CASE r.op = "post" /\ Find(db, r.id) = {}
        BY <3>2 DEF AfterLookup, Find, Absent
      <3>3. CASE r.op = "post" /\ Find(db, r.id) # {}
        <4>1. \A n \in Find(db, r.id) : db.txns[n].fingerprint = Fingerprint(r)
          BY <1>2, <3>3 DEF LookupFault
        <4>2. Present(db.txns, r)
          BY <3>3, <4>1 DEF Find, Present
        <4> QED BY <3>3, <4>2 DEF AfterLookup
      <3>4. CASE r.op \in Reads
        BY <3>4 DEF AfterLookup, Reads
      <3> QED BY <2>1, <3>1, <3>2, <3>3, <3>4 DEF Reads
    <2>3. Prefix(db.txns, db.txns)
      BY DEF Prefix
    <2> HIDE DEF step
    <2>4. Typed'
      BY <2>1 DEF Typed
    <2>5. LockInv'
      BY <2>1, <2>2 DEF Typed, LockInv, IsPost
    <2>6. SnapshotInv'
      BY <2>1, <2>2, <2>3 DEF Typed, SnapshotInv, IsPost
    <2>7. PrintInv' /\ AcceptInv'
      BY <2>1, <2>2 DEF Typed, PrintInv, AcceptInv, IsPost
    <2> QED BY <2>4, <2>5, <2>6, <2>7
  <1> QED BY <1>1, <1>2

(* The first INSERT: the snapshot is the committed database. *)
LEMMA InsertKeeps == ASSUME IInv, NEW c \in Invocations, Insert(c) PROVE IInv'
  <1>1. CASE ~MayWrite(c)
    BY <1>1, AnswerKeeps DEF Insert, Busy
  <1>2. CASE MayWrite(c)
    <2> USE DEF IInv
    <2> DEFINE r == cmd[c]
               d == Inserted(r, db)
               step == IF r.op = "post" THEN "lines" ELSE "commit"
    <2>1. /\ pc[c] = "insert" /\ work[c] = db /\ wlock = None /\ wlock' = c
          /\ work' = [work EXCEPT ![c] = d] /\ pc' = [pc EXCEPT ![c] = step]
          /\ reply' = None /\ UNCHANGED <<db, cmd, read, accepts>>
      BY <1>2 DEF Insert, MayWrite, View, Goto
    <2>2. r \in Commands /\ IsDb(db) /\ r.op \in {"init", "account", "post"}
      BY <2>1 DEF Typed, SnapshotInv
    <2>3. CASE r.op = "post"
      <3>1. r \in Posts /\ Stored(r) \in Txns /\ Absent(db.txns, r.id)
        BY <2>1, <2>2, <2>3 DEF Posts, Txns, SnapshotInv, IsPost
      <3>2. IsDb(d) /\ d.txns = Append(db.txns, Stored(r))
        <4>1. d = [db EXCEPT !.txns = Append(@, Stored(r))]
          BY <2>3 DEF Inserted, Stored
        <4> HIDE DEF d
        <4> QED BY <2>2, <3>1, <4>1, TxnAppended
      <3> HIDE DEF d
      <3>3. Typed'
        BY <2>1, <3>2 DEF Typed
      <3>4. LockInv'
        BY <2>1, <2>3, <3>1, <3>2 DEF Typed, LockInv, IsPost
      <3>5. SnapshotInv' /\ PrintInv' /\ AcceptInv'
        BY <2>1, <2>3 DEF Typed, SnapshotInv, PrintInv, AcceptInv, IsPost
      <3> QED BY <3>3, <3>4, <3>5
    <2>4. CASE r.op # "post"
      <3>1. IsDb(d) /\ d.txns = db.txns
        <4>1. \/ d = [db EXCEPT !.ledger = @ \cup {r.id}]
              \/ d = [db EXCEPT !.account[r.id] = r.type]
          BY <2>2, <2>4 DEF Inserted
        <4> HIDE DEF d
        <4> QED BY <2>2, <4>1, TableChanges
      <3> HIDE DEF d
      <3>2. Typed'
        BY <2>1, <3>1 DEF Typed
      <3>3. LockInv'
        BY <2>1, <2>4, <3>1 DEF Typed, LockInv, IsPost
      <3>4. SnapshotInv' /\ PrintInv' /\ AcceptInv'
        BY <2>1, <2>4 DEF Typed, SnapshotInv, PrintInv, AcceptInv, IsPost
      <3> QED BY <3>2, <3>3, <3>4
    <2> QED BY <2>3, <2>4
  <1> QED BY <1>1, <1>2

(* A line leaves the list of transactions alone. *)
LEMMA InsertLineKeeps == ASSUME IInv, NEW c \in Invocations, InsertLine(c) PROVE IInv'
  <1> USE DEF IInv
  <1>1. PICK d, step :
          /\ pc[c] = "lines" /\ IsDb(d) /\ d.txns = work[c].txns
          /\ work' = [work EXCEPT ![c] = d] /\ step \in {"commit", "lines"}
          /\ pc' = [pc EXCEPT ![c] = step] /\ reply' = None
          /\ UNCHANGED <<db, wlock, cmd, read, accepts>>
    <2> DEFINE v == {Line(cmd[c], Written(c))}
               d == [work[c] EXCEPT !.lines = @ \cup v]
    <2>1. IsDb(work[c]) /\ d = [work[c] EXCEPT !.lines = @ \cup v]
      BY DEF Typed
    <2>2. work' = [work EXCEPT ![c] = d]
      BY DEF InsertLine
    <2> HIDE DEF d, v
    <2>3. IsDb(d) /\ d.txns = work[c].txns
      BY <2>1, TableChanges
    <2> QED BY <2>2, <2>3 DEF InsertLine, Goto
  <1>2. Typed'
    BY <1>1 DEF Typed
  <1>3. LockInv'
    BY <1>1 DEF Typed, LockInv, IsPost
  <1>4. SnapshotInv' /\ PrintInv' /\ AcceptInv'
    BY <1>1 DEF Typed, LockInv, SnapshotInv, PrintInv, AcceptInv, IsPost
  <1> QED BY <1>2, <1>3, <1>4

(* A post is printed as accepted once: none of its identity was before.    *)
LEMMA PrintKeeps == ASSUME IInv, NEW c \in Invocations, PrintResult(c) PROVE IInv'
  <1>1. CASE ~IsPost(c)
    BY <1>1, AnswerKeeps DEF PrintResult, IsPost
  <1>2. CASE IsPost(c)
    <2> USE DEF IInv
    <2>1. /\ pc[c] = "print" /\ cmd[c] \in Posts
          /\ Present(db.txns, cmd[c])
          /\ \A s \in Posts : s.id = cmd[c].id => accepts[s] = 0
      BY <1>2 DEF PrintResult, Typed, Posts, PrintInv, IsPost
    <2>2. /\ accepts' = [accepts EXCEPT ![cmd[c]] = @ + 1]
          /\ reply'.outcome = "accepted" /\ End(c) /\ db' = db
      BY <1>2 DEF PrintResult, Answer, Output, IsPost
    <2> USE DEF End
    <2>3. Typed'
      <3>1. accepts' \in [Posts -> Nat]
        BY <2>1, <2>2 DEF Typed
      <3> QED BY <2>2, <3>1, EmptyIsDb DEF Typed
    <2>4. LockInv' /\ SnapshotInv'
      BY <2>2 DEF Typed, LockInv, SnapshotInv, IsPost
    <2>5. accepts[cmd[c]] = 0 /\ accepts'[cmd[c]] = 1
           /\ \A s \in Posts : s # cmd[c] => accepts'[s] = accepts[s]
      BY <2>1, <2>2 DEF Typed
    <2>6. PrintInv'
      <3>1. \A d \in Invocations \ {c} : pc'[d] = pc[d] /\ cmd'[d] = cmd[d]
        BY <2>2 DEF Typed
      <3>2. pc'[c] = "idle"
        BY <2>2 DEF Typed
      <3>3. \A d \in Invocations \ {c} : (pc[d] = "print" /\ IsPost(d)) =>
              cmd[d].id # cmd[c].id
        BY <1>2, <2>1 DEF PrintInv
      <3>4. \A d \in Invocations \ {c} : (pc[d] = "print" /\ IsPost(d)) =>
              \A s \in Posts : s.id = cmd[d].id => accepts'[s] = 0
        BY <2>5, <3>3 DEF PrintInv
      <3> HIDE DEF End
      <3> QED BY <2>2, <3>1, <3>2, <3>4 DEF PrintInv, IsPost
    <2>7. AcceptInv'
      <3>1. ASSUME NEW r \in Posts, accepts'[r] > 0
            PROVE  accepts'[r] = 1 /\ Present(db.txns, r)
        BY <2>1, <2>5, <3>1 DEF AcceptInv
      <3>2. ASSUME NEW r \in Posts, NEW s \in Posts, accepts'[r] > 0, accepts'[s] > 0, s.id = r.id
            PROVE  s = r
        BY <2>1, <2>5, <3>2 DEF AcceptInv
      <3> QED BY <2>2, <3>1, <3>2 DEF AcceptInv
    <2> QED BY <2>3, <2>4, <2>6, <2>7
  <1> QED BY <1>1, <1>2

(* The steps that only read. *)
LEMMA ReadingStepsKeep ==
  ASSUME IInv, NEW c \in Invocations,
         \/ GetLedger(c) \/ Replay(c) \/ Check(c) \/ CheckTotal(c)
         \/ ReadEntries(c) \/ ReadSums(c)
  PROVE  IInv'
  <1> USE FaultsAreNoSuccesses DEF Successes
  <1>1. CASE GetLedger(c)
    BY <1>1, AnswerKeeps, GotoKeeps DEF GetLedger, ownVars
  <1>2. CASE Replay(c)
    <2>1. Present(db.txns, cmd[c])
      BY <1>2, PresentStays DEF Replay, IInv, SnapshotInv
    <2> QED BY <1>2, <2>1, AnswerKeeps DEF Replay
  <1>3. CASE Check(c)
    BY <1>3, AnswerKeeps, GotoKeeps DEF Check, ownVars
  <1>4. CASE CheckTotal(c)
    BY <1>4, AnswerKeeps, GotoKeeps DEF CheckTotal, ownVars
  <1>5. CASE ReadEntries(c)
    BY <1>5, AnswerKeeps, GotoKeeps DEF ReadEntries
  <1>6. CASE ReadSums(c)
    BY <1>6, AnswerKeeps DEF ReadSums
  <1> QED BY <1>1, <1>2, <1>3, <1>4, <1>5, <1>6

(* Every step of the specification preserves the invariant. *)
LEMMA NextIInv == IInv /\ [Next]_vars => IInv'
  <1> SUFFICES ASSUME IInv, [Next]_vars PROVE IInv'
    OBVIOUS
  <1>1. ASSUME NEW c \in Invocations, Work(c) PROVE IInv'
    <2>1. CASE MigrateCommit(c)
      BY <2>1, PublishKeeps DEF MigrateCommit
    <2>2. CASE Commit(c)
      BY <2>2, PublishKeeps DEF Commit
    <2> QED
      BY <1>1, <2>1, <2>2, MigrateKeeps, ReadingStepsKeep, LookupKeeps, InsertKeeps,
         InsertLineKeeps, PrintKeeps DEF Work
  <1>2. ASSUME NEW c \in Invocations, SqlFails(c) PROVE IInv'
    BY <1>2, AnswerKeeps DEF SqlFails, Busy
  <1>3. ASSUME NEW c \in Invocations, Die(c) PROVE IInv'
    BY <1>3, EndKeeps DEF Die
  <1>4. CASE UNCHANGED vars
    BY <1>4 DEF vars, ownVars, IInv, Typed, LockInv, SnapshotInv, PrintInv, AcceptInv, IsPost
  <1> QED BY <1>1, <1>2, <1>3, <1>4, InvokeKeeps DEF Next

(* A post is printed as accepted at most once for its transaction identity *)
(* and only when the journal holds it, and as replayed only when the       *)
(* journal holds exactly its payload.                                      *)
THEOREM PostsAreAcceptedOnce == Spec => []AcceptedOnce
  <1>1. IInv => AcceptedOnce
    <2> SUFFICES ASSUME IInv PROVE AcceptedOnce
      OBVIOUS
    <2>1. \A r : Present(db.txns, r) => Holds(r)
      BY DEF Present, Holds, Find
    <2> QED BY <2>1 DEF IInv, AcceptInv, AcceptedOnce
  <1> QED BY <1>1, InitIInv, NextIInv, PTL DEF Spec

(***************************************************************************)
(* What a stored transaction stands for: its postings, as its fingerprint  *)
(* holds them, and the lines they are stored as, the first j of them or    *)
(* all.                                                                    *)
(***************************************************************************)
Material(t)    == t.fingerprint.postings
LineOf(t, i)   == [id |-> t.id, line |-> i - 1, account |-> Material(t)[i].account,
                   side |-> Material(t)[i].side, amount |-> Material(t)[i].amount]
LinesOf(t, j)  == {LineOf(t, i) : i \in 1..j}
Size(t)        == Len(Material(t))
AllLines(txns) == UNION {LinesOf(txns[n], Size(txns[n])) : n \in DOMAIN txns}

(* No identity is listed twice. *)
Distinct(txns) == \A m, n \in DOMAIN txns : m # n => txns[m].id # txns[n].id

(* The material of a stored transaction is the list its fingerprint was    *)
(* taken of.                                                               *)
LEMMA TxnFacts ==
  ASSUME NEW t \in Txns
  PROVE  /\ Material(t) \in Seq(Posting) /\ Size(t) \in Nat /\ DOMAIN Material(t) = 1..Size(t)
         /\ t.fingerprint = [id |-> t.id, description |-> t.description,
                             postings |-> Material(t)]
         /\ \A i \in 1..Size(t) : Material(t)[i] \in Posting
  <1>1. PICK r \in Posts : t = Stored(r)
    BY DEF Txns
  <1>2. Material(t) = r.postings /\ r.postings \in Seq(Posting)
    BY <1>1, CommandsAssumption DEF Material, Stored, Fingerprint, Posts
  <1>3. PICK ps \in Seq(Posting) : ps = Material(t)
    BY <1>2
  <1>4. t.fingerprint = [id |-> t.id, description |-> t.description, postings |-> ps]
    BY <1>1, <1>2, <1>3 DEF Stored, Fingerprint
  <1> QED BY <1>3, <1>4 DEF Size

(* The line a posting is stored as.                                        *)
LEMMA LineFacts ==
  ASSUME NEW t, NEW i \in Int
  PROVE  /\ LineOf(t, i).id = t.id /\ LineOf(t, i).line = i - 1
         /\ LineOf(t, i).account = Material(t)[i].account
         /\ LineOf(t, i).side = Material(t)[i].side
         /\ LineOf(t, i).amount = Material(t)[i].amount
  BY DEF LineOf

(* Postings of one transaction are stored as different lines.              *)
LEMMA LinesAreDistinct ==
  ASSUME NEW t, NEW i \in Int, NEW j \in Int, LineOf(t, i) = LineOf(t, j)
  PROVE  i = j
  <1>1. i - 1 = j - 1
    BY LineFacts
  <1> QED BY <1>1

(* The first j lines of a transaction are j. *)
LEMMA LinesCounted ==
  ASSUME NEW t, NEW j \in Nat
  PROVE  IsFiniteSet(LinesOf(t, j)) /\ Cardinality(LinesOf(t, j)) = j
  <1> DEFINE f == [i \in 1..j |-> LineOf(t, i)]
  <1>1. f \in [1..j -> LinesOf(t, j)]
    BY DEF LinesOf
  <1>2. \A x, y \in 1..j : f[x] = f[y] => x = y
    BY LinesAreDistinct
  <1>3. \A l \in LinesOf(t, j) : \E i \in 1..j : f[i] = l
    BY DEF LinesOf
  <1> HIDE DEF f
  <1>4. f \in Bijection(1..j, LinesOf(t, j))
    BY <1>1, <1>2, <1>3 DEF Bijection, Injection, Surjection, IsInjective
  <1>5. ExistsBijection(1..j, LinesOf(t, j))
    BY <1>4 DEF ExistsBijection
  <1>6. IsFiniteSet(1..j)
    BY FS_Interval
  <1> QED BY <1>5, <1>6, FS_Bijection, FS_CountingElements

(* The lines stored under one identity. *)
LEMMA RowsOf ==
  ASSUME NEW txns \in Seq(Txns), Distinct(txns), NEW n \in DOMAIN txns
  PROVE  {l \in AllLines(txns) : l.id = txns[n].id} = LinesOf(txns[n], Size(txns[n]))
  <1>1. ASSUME NEW m \in DOMAIN txns, NEW l \in LinesOf(txns[m], Size(txns[m]))
        PROVE  l.id = txns[m].id
    BY LineFacts DEF LinesOf
  <1>2. ASSUME NEW l \in AllLines(txns), l.id = txns[n].id
        PROVE  l \in LinesOf(txns[n], Size(txns[n]))
    <2>1. PICK m \in DOMAIN txns : l \in LinesOf(txns[m], Size(txns[m]))
      BY DEF AllLines
    <2>2. m = n
      BY <1>1, <1>2, <2>1 DEF Distinct
    <2> QED BY <2>1, <2>2
  <1>3. LinesOf(txns[n], Size(txns[n])) \subseteq AllLines(txns)
    BY DEF AllLines
  <1> QED BY <1>1, <1>2, <1>3

(* An identity nobody has used has no lines.                               *)
LEMMA RowsOfNobody ==
  ASSUME NEW txns, NEW id, Absent(txns, id), NEW l \in AllLines(txns)
  PROVE  l.id # id
  <1>1. PICK m \in DOMAIN txns : l \in LinesOf(txns[m], Size(txns[m]))
    BY DEF AllLines
  <1>2. l.id = txns[m].id
    BY <1>1, LineFacts DEF LinesOf
  <1> QED BY <1>2 DEF Absent

(* The line with i - 1 lines before it is line i. *)
LEMMA LineInOrder ==
  ASSUME NEW t, NEW j \in Nat, NEW i \in 1..j
  PROVE  RowAt(LinesOf(t, j), i) = LineOf(t, i)
  <1> DEFINE Before(l) == {m \in LinesOf(t, j) : m.line < l.line}
  <1>1. ASSUME NEW k \in 1..j PROVE Cardinality(Before(LineOf(t, k))) = k - 1
    <2>1. Before(LineOf(t, k)) = LinesOf(t, k - 1)
      <3>1. \A x \in 1..j : LineOf(t, x).line = x - 1
        BY LineFacts
      <3>2. \A x \in 1..j : LineOf(t, x).line < LineOf(t, k).line <=> x \in 1..(k - 1)
        BY <3>1
      <3>3. \A x \in 1..(k - 1) : x \in 1..j
        OBVIOUS
      <3> QED BY <3>2, <3>3 DEF LinesOf
    <2>2. k - 1 \in Nat
      OBVIOUS
    <2> QED BY <2>1, <2>2, LinesCounted, Zenon
  <1>2. LineOf(t, i) \in LinesOf(t, j) /\ Cardinality(Before(LineOf(t, i))) = i - 1
    BY <1>1 DEF LinesOf
  <1>3. ASSUME NEW l \in LinesOf(t, j), Cardinality(Before(l)) = i - 1 PROVE l = LineOf(t, i)
    <2>1. PICK k \in 1..j : l = LineOf(t, k)
      BY DEF LinesOf
    <2>2. k - 1 = i - 1
      BY <1>1, <1>3, <2>1
    <2> QED BY <2>1, <2>2
  <1> HIDE DEF Before
  <1>4. (CHOOSE l \in LinesOf(t, j) : Cardinality(Before(l)) = i - 1) = LineOf(t, i)
    BY <1>2, <1>3
  <1> QED BY <1>4 DEF Before, RowAt

(* A stored transaction is read back with its lines in order. *)
LEMMA EntryIs ==
  ASSUME NEW d, d.txns \in Seq(Txns), Distinct(d.txns), d.lines = AllLines(d.txns),
         NEW n \in DOMAIN d.txns, NEW t, t = d.txns[n]
  PROVE  EntryOf(d, n) = [id |-> t.id, description |-> t.description,
                          fingerprint |-> t.fingerprint,
                          postings |-> [i \in 1..Size(t) |-> LineOf(t, i)]]
  <1>1. t \in Txns
    OBVIOUS
  <1>2. PICK rows : rows = Rows(d, t.id)
    OBVIOUS
  <1>3. rows = LinesOf(t, Size(t))
    BY <1>2, RowsOf DEF Rows
  <1>4. Size(t) \in Nat /\ Cardinality(rows) = Size(t)
    BY <1>1, <1>3, TxnFacts, LinesCounted
  <1>5. PICK ps : ps = [i \in 1..Cardinality(rows) |-> RowAt(rows, i)]
    OBVIOUS
  <1>6. ps = [i \in 1..Size(t) |-> LineOf(t, i)]
    <2>1. \A i \in 1..Size(t) : RowAt(rows, i) = LineOf(t, i)
      BY <1>3, <1>4, LineInOrder
    <2> QED BY <1>4, <1>5, <2>1
  <1>7. EntryOf(d, n) = [id |-> t.id, description |-> t.description,
                         fingerprint |-> t.fingerprint, postings |-> ps]
    BY <1>2, <1>5 DEF EntryOf
  <1> QED BY <1>6, <1>7

(* What a validated entry is. *)
ValidEntry(ps, catalog) ==
  /\ Len(ps) >= 2
  /\ \A i \in 1..Len(ps) : /\ ps[i].amount > 0 /\ ps[i].amount <= MaxUnits
                           /\ catalog[ps[i].account] # None
  /\ Total(ps, "debit") <= MaxUnits
  /\ Total(ps, "debit") = Total(ps, "credit")

(* Totals are integers.                                                    *)
LEMMA TotalType ==
  ASSUME NEW ps \in Seq(Posting), NEW side
  PROVE  Total(ps, side) \in Int
  <1> DEFINE f == [i \in DOMAIN ps |-> IF ps[i].side = side THEN ps[i].amount ELSE 0]
  <1>1. \A i \in DOMAIN ps : ps[i] \in Posting
    OBVIOUS
  <1>2. DOMAIN f = DOMAIN ps /\ \A i \in DOMAIN ps : f[i] \in Int
    BY <1>1 DEF Posting
  <1>3. IsFiniteSet(DOMAIN ps)
    BY FS_Interval
  <1> HIDE DEF f
  <1>4. SumFunctionOnSet(f, DOMAIN f) \in Int
    BY <1>2, <1>3, SumType
  <1> QED BY <1>4 DEF Total, SumFunction, f

(* The first faulty posting exists when there is a faulty one. *)
LEMMA LeastIsThere ==
  ASSUME NEW s \in SUBSET Nat, s # {}
  PROVE  Min(s) \in s
  <1> DEFINE Less == OpToRel(<, Nat)
  <1>1. IsWellFoundedOn(Less, Nat)
    BY NatLessThanWellFounded
  <1> HIDE DEF Less
  <1>2. PICK m \in s : \A y \in s : <<y, m>> \notin Less
    BY <1>1, WFMin
  <1>3. ASSUME NEW y \in s PROVE m <= y
    <2>1. y \in Nat /\ m \in Nat
      OBVIOUS
    <2>2. y < m => <<y, m>> \in Less
      BY <2>1 DEF Less, OpToRel
    <2> QED BY <1>2, <2>1, <2>2
  <1> QED BY <1>2, <1>3 DEF Min

(* Postings pass the validation exactly when each of them does.            *)
LEMMA NoFault ==
  ASSUME NEW ps \in Seq(Posting), NEW catalog
  PROVE  FirstFault(ps, catalog) = "ok" <=> \A i \in 1..Len(ps) : PostingFault(ps[i], catalog) = "ok"
  <1> DEFINE faulty == {i \in DOMAIN ps : PostingFault(ps[i], catalog) # "ok"}
  <1>1. DOMAIN ps = 1..Len(ps) /\ faulty \in SUBSET Nat
    OBVIOUS
  <1>2. CASE faulty = {}
    BY <1>1, <1>2 DEF FirstFault
  <1>3. CASE faulty # {}
    <2>1. Min(faulty) \in faulty
      <3> HIDE DEF faulty
      <3> QED BY <1>1, <1>3, LeastIsThere
    <2>2. PICK m \in faulty : m = Min(faulty)
      BY <2>1
    <2>3. FirstFault(ps, catalog) = PostingFault(ps[m], catalog)
      BY <1>3, <2>2 DEF FirstFault
    <2> QED BY <1>1, <2>2, <2>3
  <1> QED BY <1>2, <1>3

(* validateEntry accepts valid entries only, and every valid general one.  *)
LEMMA ValidateIs ==
  ASSUME NEW ps \in Seq(Posting), NEW catalog
  PROVE  /\ \A kind : Validate(ps, catalog, kind) = "ok" => ValidEntry(ps, catalog)
         /\ ValidEntry(ps, catalog) => Validate(ps, catalog, "entry") = "ok"
  <1>1. /\ Len(ps) \in Nat
        /\ Total(ps, "debit") \in Int /\ Total(ps, "credit") \in Int
    BY TotalType
  <1>2. ASSUME NEW i \in 1..Len(ps)
        PROVE  PostingFault(ps[i], catalog) = "ok" <=>
                 /\ ps[i].amount > 0 /\ ps[i].amount <= MaxUnits
                 /\ catalog[ps[i].account] # None
    <2>1. ps[i] \in Posting
      OBVIOUS
    <2>2. ps[i].amount \in Int
      BY <2>1 DEF Posting
    <2> QED BY <2>2, DomainAssumption DEF PostingFault
  <1>3. FirstFault(ps, catalog) = "ok" <=>
          \A i \in 1..Len(ps) : /\ ps[i].amount > 0 /\ ps[i].amount <= MaxUnits
                                /\ catalog[ps[i].account] # None
    BY <1>2, NoFault
  <1>4. MaxUnits \in Int
    BY DomainAssumption
  <1>5. ASSUME NEW kind, Validate(ps, catalog, kind) = "ok" PROVE ValidEntry(ps, catalog)
    BY <1>1, <1>3, <1>4, <1>5 DEF Validate, ValidEntry
  <1>6. ASSUME ValidEntry(ps, catalog) PROVE Validate(ps, catalog, "entry") = "ok"
    BY <1>1, <1>3, <1>4, <1>6 DEF Validate, ValidEntry
  <1> QED BY <1>5, <1>6

(* A valid entry stays valid when accounts are added. *)
LEMMA ValidStays ==
  ASSUME NEW ps \in Seq(Posting), NEW catalog, NEW later, ValidEntry(ps, catalog),
         \A a \in Accounts : catalog[a] # None => later[a] # None
  PROVE  ValidEntry(ps, later)
  <1>0. \A i \in 1..Len(ps) : ps[i] \in Posting
    OBVIOUS
  <1>1. \A i \in 1..Len(ps) : ps[i].account \in Accounts
    BY <1>0 DEF Posting
  <1> QED BY <1>1 DEF ValidEntry

(* A database that complete commands leave. *)
Sound(d) ==
  /\ d.ledger = {} \/ \E x : d.ledger = {x}
  /\ d.account \in [Accounts -> Types \cup {None}]
  /\ Distinct(d.txns)
  /\ \A n \in DOMAIN d.txns : ValidEntry(Material(d.txns[n]), d.account)
  /\ d.lines = AllLines(d.txns)
  /\ DebitTotal(d) <= MaxUnits

(* e is the stored transaction t, read back. *)
InOrder(e, t, catalog) ==
  /\ e.id = t.id /\ e.description = t.description
  /\ Payload(e) = Material(t)
  /\ DOMAIN e.postings = 1..Size(t)
  /\ \A i \in 1..Size(t) : e.postings[i] = LineOf(t, i)
  /\ Validate(Payload(e), catalog, "entry") = "ok"
  /\ e.fingerprint = Fingerprint([e EXCEPT !.postings = Payload(e)])
  /\ \A i \in DOMAIN e.postings : e.postings[i].line = i - 1

(* The entries of a sound database are in order. *)
LEMMA EntriesInOrder ==
  ASSUME NEW d, d.txns \in Seq(Txns), Sound(d), NEW n \in DOMAIN d.txns
  PROVE  InOrder(EntryOf(d, n), d.txns[n], d.account)
  <1>0. PICK e : e = EntryOf(d, n)
    OBVIOUS
  <1>1. PICK t \in Txns : t = d.txns[n]
    OBVIOUS
  <1>2. PICK ps \in Seq(Posting) : ps = Material(t)
    BY TxnFacts
  <1>3. /\ DOMAIN ps = 1..Size(t) /\ Size(t) \in Nat
        /\ \A i \in 1..Size(t) : ps[i] \in Posting
    BY <1>2, TxnFacts
  <1>4. PICK qs : qs = [i \in 1..Size(t) |-> LineOf(t, i)]
    OBVIOUS
  <1>5. e = [id |-> t.id, description |-> t.description,
             fingerprint |-> t.fingerprint, postings |-> qs]
    BY <1>0, <1>1, <1>4, EntryIs DEF Sound
  <1>6. Payload(e) = ps
    <2>1. \A i \in 1..Size(t) :
            [account |-> qs[i].account, side |-> qs[i].side, amount |-> qs[i].amount] = ps[i]
      <3> TAKE i \in 1..Size(t)
      <3>1. /\ qs[i].account = ps[i].account /\ qs[i].side = ps[i].side
            /\ qs[i].amount = ps[i].amount
        BY <1>2, <1>4, LineFacts
      <3>2. ps[i] = [account |-> ps[i].account, side |-> ps[i].side, amount |-> ps[i].amount]
        BY <1>3 DEF Posting
      <3> QED BY <3>1, <3>2
    <2>2. DOMAIN qs = 1..Size(t) /\ e.postings = qs
      BY <1>4, <1>5
    <2>3. Payload(e) = [i \in 1..Size(t) |-> ps[i]]
      BY <2>1, <2>2 DEF Payload
    <2>4. ps = [i \in 1..Size(t) |-> ps[i]]
      BY <1>3
    <2> QED BY <2>3, <2>4
  <1>7. Validate(ps, d.account, "entry") = "ok"
    BY <1>1, <1>2, ValidateIs DEF Sound
  <1>8. e.fingerprint = Fingerprint([e EXCEPT !.postings = ps])
    <2>1. t.fingerprint = [id |-> t.id, description |-> t.description, postings |-> ps]
      BY <1>2, TxnFacts
    <2>2. [e EXCEPT !.postings = ps] = [id |-> t.id, description |-> t.description,
             fingerprint |-> t.fingerprint, postings |-> ps]
      BY <1>5
    <2> QED BY <1>5, <2>1, <2>2 DEF Fingerprint
  <1>9. \A i \in 1..Size(t) : qs[i].line = i - 1
    BY <1>4, LineFacts
  <1>10. /\ e.id = t.id /\ e.description = t.description /\ e.postings = qs
         /\ DOMAIN qs = 1..Size(t) /\ \A i \in 1..Size(t) : qs[i] = LineOf(t, i)
    BY <1>4, <1>5
  <1> HIDE <1>4, <1>5
  <1>11. InOrder(e, t, d.account)
    BY <1>2, <1>6, <1>7, <1>8, <1>9, <1>10 DEF InOrder
  <1> QED BY <1>0, <1>1, <1>11

(* No sound database reads as a corrupt journal, whole or entry by entry.  *)
LEMMA SoundIsNotCorrupt ==
  ASSUME NEW d, d.txns \in Seq(Txns), Sound(d)
  PROVE  /\ ~Corrupt(EntriesOf(d), d.account)
         /\ \A n \in DOMAIN d.txns : ~Corrupt(<<EntryOf(d, n)>>, d.account)
         /\ Cardinality(d.ledger) \in {0, 1}
  <1>1. /\ DOMAIN EntriesOf(d) = DOMAIN d.txns
        /\ \A n \in DOMAIN d.txns : EntriesOf(d)[n] = EntryOf(d, n)
    BY DEF EntriesOf
  <1>2. ASSUME NEW n \in DOMAIN d.txns, NEW e, e = EntryOf(d, n)
        PROVE  /\ Validate(Payload(e), d.account, "entry") = "ok"
               /\ e.fingerprint = Fingerprint([e EXCEPT !.postings = Payload(e)])
               /\ \A i \in DOMAIN e.postings : e.postings[i].line = i - 1
               /\ e.id = d.txns[n].id
    BY <1>2, EntriesInOrder DEF InOrder
  <1>3. ~Corrupt(EntriesOf(d), d.account)
    <2>1. ASSUME NEW m \in DOMAIN d.txns, NEW n \in DOMAIN d.txns, m # n
          PROVE  EntriesOf(d)[m].id # EntriesOf(d)[n].id
      <3>1. EntriesOf(d)[m].id = d.txns[m].id /\ EntriesOf(d)[n].id = d.txns[n].id
        BY <1>1, <1>2
      <3> QED BY <2>1, <3>1 DEF Sound, Distinct
    <2>2. ASSUME NEW n \in DOMAIN d.txns, NEW e, e = EntriesOf(d)[n]
          PROVE  /\ Validate(Payload(e), d.account, "entry") = "ok"
                 /\ e.fingerprint = Fingerprint([e EXCEPT !.postings = Payload(e)])
                 /\ \A i \in DOMAIN e.postings : e.postings[i].line = i - 1
      <3>1. e = EntryOf(d, n)
        BY <1>1, <2>2
      <3> QED BY <3>1, <1>2
    <2> QED BY <1>1, <2>1, <2>2 DEF Corrupt
  <1>4. ASSUME NEW n \in DOMAIN d.txns PROVE ~Corrupt(<<EntryOf(d, n)>>, d.account)
    <2>1. PICK e : e = EntryOf(d, n)
      OBVIOUS
    <2>2. PICK es : es = <<e>>
      OBVIOUS
    <2>3. DOMAIN es = {1} /\ es[1] = e
      BY <2>2
    <2>4. ~Corrupt(es, d.account)
      BY <1>2, <2>1, <2>3 DEF Corrupt
    <2> QED BY <2>1, <2>2, <2>4
  <1>5. Cardinality(d.ledger) \in {0, 1}
    <2>1. CASE d.ledger = {}
      BY <2>1, FS_EmptySet
    <2>2. CASE \E x : d.ledger = {x}
      <3>1. PICK x : d.ledger = {x}
        BY <2>2
      <3>2. Cardinality({x}) = 1
        BY FS_Singleton
      <3>3. Cardinality(d.ledger) = 1
        BY <3>1, <3>2, Zenon
      <3> QED BY <3>3
    <2> QED BY <2>1, <2>2 DEF Sound
  <1> QED BY <1>3, <1>4, <1>5

(* v gives every posting the weight w gives its line. *)
Weighs(v, w, txns) ==
  \A n \in DOMAIN txns : \A i \in 1..Size(txns[n]) : v[n][i] = w[LineOf(txns[n], i)]
SumOfEach(v, txns) == [n \in DOMAIN txns |-> SumFunctionOnSet(v[n], 1..Size(txns[n]))]

(* What the lines of a journal sum to, transaction by transaction. *)
LEMMA JournalSum ==
  ASSUME NEW txns \in Seq(Txns), Distinct(txns),
         NEW w, \A l \in AllLines(txns) : w[l] \in Int,
         NEW v, Weighs(v, w, txns),
         NEW k, k = SumOfEach(v, txns)
  PROVE  /\ IsFiniteSet(AllLines(txns)) /\ IsFiniteSet(DOMAIN txns)
         /\ SumFunctionOnSet(w, AllLines(txns)) = SumFunctionOnSet(k, DOMAIN txns)
         /\ \A n \in DOMAIN txns : k[n] \in Int
  <1>a. /\ \A n \in DOMAIN txns : k[n] = SumFunctionOnSet(v[n], 1..Size(txns[n]))
        /\ \A n \in DOMAIN txns : \A i \in 1..Size(txns[n]) : v[n][i] = w[LineOf(txns[n], i)]
    BY DEF SumOfEach, Weighs
  <1>0. IsFiniteSet(DOMAIN txns)
    <2>1. DOMAIN txns = 1..Len(txns) /\ Len(txns) \in Nat
      OBVIOUS
    <2> QED BY <2>1, FS_Interval
  <1> DEFINE part == [n \in DOMAIN txns |-> LinesOf(txns[n], Size(txns[n]))]
  <1>1. AllLines(txns) = AllOf(part, DOMAIN txns)
    BY DEF AllLines, AllOf
  <1>2. ASSUME NEW n \in DOMAIN txns
        PROVE  /\ IsFiniteSet(part[n]) /\ k[n] = SumFunctionOnSet(w, part[n])
               /\ (\A x \in part[n] : w[x] \in Int) /\ k[n] \in Int
    <2>1. PICK t \in Txns : t = txns[n]
      OBVIOUS
    <2>2. PICK S : S = 1..Size(t)
      OBVIOUS
    <2>a. Size(t) \in Nat
      BY TxnFacts
    <2>b. IsFiniteSet(1..Size(t))
      BY <2>a, FS_Interval
    <2>3. Size(t) \in Nat /\ IsFiniteSet(S) /\ part[n] = LinesOf(t, Size(t))
      BY <2>1, <2>2, <2>a, <2>b
    <2> DEFINE f == [i \in S |-> LineOf(t, i)]
    <2>4. \A x, y \in S : f[x] = f[y] => x = y
      BY <2>2, LinesAreDistinct
    <2>5. part[n] = {f[i] : i \in S}
      BY <2>2, <2>3 DEF LinesOf
    <2>6. \A x \in part[n] : w[x] \in Int
      BY <1>1 DEF AllOf
    <2>7. \A i \in S : v[n][i] \in Int /\ w[f[i]] = v[n][i]
      BY <1>a, <2>1, <2>2, <2>5, <2>6
    <2> HIDE DEF f, part
    <2>8. PICK vn : vn = v[n]
      OBVIOUS
    <2>9. SumFunctionOnSet(w, {f[i] : i \in S}) = SumFunctionOnSet(vn, S)
      BY <2>3, <2>4, <2>7, <2>8, SumReindex
    <2>10. SumFunctionOnSet(vn, S) \in Int
      BY <2>3, <2>7, <2>8, SumType
    <2>11. IsFiniteSet(part[n])
      BY <2>3, LinesCounted
    <2>12. k[n] = SumFunctionOnSet(vn, S)
      BY <1>a, <2>1, <2>2, <2>8
    <2> QED BY <2>5, <2>6, <2>9, <2>10, <2>11, <2>12
  <1>3. ASSUME NEW m \in DOMAIN txns, NEW n \in DOMAIN txns, m # n
        PROVE  part[m] \cap part[n] = {}
    <2>1. (\A l \in part[m] : l.id = txns[m].id) /\ (\A l \in part[n] : l.id = txns[n].id)
      BY LineFacts DEF LinesOf
    <2> QED BY <1>3, <2>1 DEF Distinct
  <1> HIDE DEF part
  <1>4. PICK S : S = DOMAIN txns
    OBVIOUS
  <1>5. /\ IsFiniteSet(S) /\ \A n \in S : IsFiniteSet(part[n])
        /\ \A m, n \in S : m # n => part[m] \cap part[n] = {}
        /\ \A n \in S : \A x \in part[n] : w[x] \in Int
        /\ \A n \in S : k[n] = SumFunctionOnSet(w, part[n])
    BY <1>0, <1>2, <1>3, <1>4
  <1>6. /\ IsFiniteSet(AllOf(part, S))
        /\ SumFunctionOnSet(w, AllOf(part, S)) = SumFunctionOnSet(k, S)
    BY <1>5, SumPartition
  <1>7. AllLines(txns) = AllOf(part, S)
    BY <1>1, <1>4
  <1>8. /\ IsFiniteSet(AllLines(txns))
        /\ SumFunctionOnSet(w, AllLines(txns)) = SumFunctionOnSet(k, S)
    BY <1>6, <1>7, Zenon
  <1> QED BY <1>0, <1>2, <1>4, <1>8

(* What the lines of one side sum to is what the transactions' totals do.  *)
Weight(l, side) == IF l.side = side THEN l.amount ELSE 0
SideTotal(d, side) == SumFunction([l \in d.lines |-> Weight(l, side)])

(* Lines have a side, an amount and an account.                            *)
LEMMA LinesTyped ==
  ASSUME NEW txns \in Seq(Txns), NEW l \in AllLines(txns)
  PROVE  l.amount \in Int /\ l.side \in {"debit", "credit"} /\ l.account \in Accounts
  <1>1. PICK n \in DOMAIN txns : \E i \in 1..Size(txns[n]) : l = LineOf(txns[n], i)
    BY DEF AllLines, LinesOf
  <1>2. PICK t \in Txns : t = txns[n]
    OBVIOUS
  <1>a. PICK i \in 1..Size(t) : l = LineOf(t, i)
    BY <1>1, <1>2
  <1>3. PICK q \in Posting : q = Material(t)[i]
    BY <1>a, TxnFacts
  <1>4. l.amount = q.amount /\ l.side = q.side /\ l.account = q.account
    BY <1>a, <1>3, LineFacts
  <1> QED BY <1>4 DEF Posting

(* Summing over lines is summing over transactions the sum of their        *)
(* postings, whatever the order of rows in the table.                      *)
LEMMA SideTotals ==
  ASSUME NEW d, d.txns \in Seq(Txns), Distinct(d.txns), d.lines = AllLines(d.txns),
         NEW side,
         NEW k, k = [n \in DOMAIN d.txns |-> Total(Material(d.txns[n]), side)]
  PROVE  /\ SideTotal(d, side) = SumFunctionOnSet(k, DOMAIN d.txns)
         /\ SideTotal(d, side) \in Int
         /\ IsFiniteSet(d.lines) /\ IsFiniteSet(DOMAIN d.txns)
         /\ \A n \in DOMAIN d.txns : k[n] \in Int
  <1>0. PICK txns \in Seq(Txns) : txns = d.txns
    OBVIOUS
  <1> DEFINE w == [l \in AllLines(txns) |-> Weight(l, side)]
             v == [n \in DOMAIN txns |-> [i \in 1..Size(txns[n]) |->
                     IF Material(txns[n])[i].side = side THEN Material(txns[n])[i].amount ELSE 0]]
  <1>1. \A l \in AllLines(txns) : w[l] \in Int
    BY LinesTyped DEF Weight
  <1>2. \A n \in DOMAIN txns : \A i \in 1..Size(txns[n]) : v[n][i] = w[LineOf(txns[n], i)]
    <2> TAKE n \in DOMAIN txns
    <2> TAKE i \in 1..Size(txns[n])
    <2>1. PICK l : l = LineOf(txns[n], i)
      OBVIOUS
    <2>2. l \in AllLines(txns)
      BY <2>1 DEF AllLines, LinesOf
    <2>3. l.side = Material(txns[n])[i].side /\ l.amount = Material(txns[n])[i].amount
      BY <2>1, LineFacts
    <2> QED BY <2>1, <2>2, <2>3 DEF Weight
  <1>3. \A n \in DOMAIN txns : k[n] = SumFunctionOnSet(v[n], 1..Size(txns[n]))
    <2> TAKE n \in DOMAIN txns
    <2>1. PICK t \in Txns : t = txns[n]
      OBVIOUS
    <2>2. DOMAIN Material(t) = 1..Size(t)
      BY TxnFacts
    <2>3. PICK f : f = [i \in 1..Size(t) |->
                          IF Material(t)[i].side = side THEN Material(t)[i].amount ELSE 0]
      OBVIOUS
    <2>4. v[n] = f
      BY <2>1, <2>3
    <2>5. Total(Material(t), side) = SumFunction(f)
      BY <2>2, <2>3 DEF Total
    <2>6. SumFunction(f) = SumFunctionOnSet(f, 1..Size(t))
      <3>1. DOMAIN f = 1..Size(t)
        BY <2>3
      <3> QED BY <3>1 DEF SumFunction
    <2>7. k[n] = Total(Material(t), side)
      BY <1>0, <2>1
    <2> QED BY <2>1, <2>4, <2>5, <2>6, <2>7
  <1>4. DOMAIN w = AllLines(txns)
    OBVIOUS
  <1>5. SideTotal(d, side) = SumFunctionOnSet(w, AllLines(txns))
    <2>1. SideTotal(d, side) = SumFunction(w)
      BY <1>0 DEF SideTotal
    <2> HIDE DEF w
    <2> QED BY <1>4, <2>1 DEF SumFunction
  <1> HIDE DEF w, v
  <1>6. /\ IsFiniteSet(AllLines(txns)) /\ IsFiniteSet(DOMAIN txns)
        /\ SumFunctionOnSet(w, AllLines(txns)) = SumFunctionOnSet(k, DOMAIN txns)
        /\ \A n \in DOMAIN txns : k[n] \in Int
    <2>1. Weighs(v, w, txns)
      BY <1>2 DEF Weighs
    <2>2. k = SumOfEach(v, txns)
      BY <1>0, <1>3 DEF SumOfEach
    <2>3. Distinct(txns)
      BY <1>0
    <2> QED BY <1>1, <2>1, <2>2, <2>3, JournalSum
  <1>7. SumFunctionOnSet(w, AllLines(txns)) \in Int
    BY <1>1, <1>6, SumType
  <1> QED BY <1>0, <1>5, <1>6, <1>7

(* The total that is bounded is the one of the debits.                     *)
LEMMA DebitTotalIs == ASSUME NEW d PROVE DebitTotal(d) = SideTotal(d, "debit")
  BY DEF DebitTotal, SideTotal, Weight

(* Both sides of a sound database sum to its debits. *)
LEMMA SidesBalance ==
  ASSUME NEW d, d.txns \in Seq(Txns), Sound(d), NEW side \in {"debit", "credit"}
  PROVE  SideTotal(d, side) <= MaxUnits /\ IsFiniteSet(d.lines) /\ DebitTotal(d) \in Int
  <1> DEFINE K(s) == [n \in DOMAIN d.txns |-> Total(Material(d.txns[n]), s)]
  <1>1. PICK kd, kc : kd = K("debit") /\ kc = K("credit")
    OBVIOUS
  <1>2. kd = kc
    BY <1>1 DEF Sound, ValidEntry
  <1>3. Distinct(d.txns) /\ d.lines = AllLines(d.txns)
    BY DEF Sound
  <1>4. /\ SideTotal(d, "debit") = SumFunctionOnSet(kd, DOMAIN d.txns)
        /\ SideTotal(d, "debit") \in Int /\ IsFiniteSet(d.lines)
    BY <1>1, <1>3, SideTotals
  <1>5. SideTotal(d, "credit") = SumFunctionOnSet(kc, DOMAIN d.txns)
    BY <1>1, <1>3, SideTotals
  <1> HIDE DEF K
  <1> QED BY <1>2, <1>4, <1>5, DebitTotalIs DEF Sound

Amounts(s) == [l \in s |-> l.amount]

(* No aggregate of a side of an account exceeds the bound. *)
LEMMA SoundFits ==
  ASSUME NEW d, d.txns \in Seq(Txns), Sound(d),
         NEW a \in Accounts, NEW side \in {"debit", "credit"},
         NEW s, s = {m \in d.lines : m.account = a /\ m.side = side}
  PROVE  SumFunction(Amounts(s)) <= MaxUnits
  <1>0. PICK txns \in Seq(Txns) : txns = d.txns
    OBVIOUS
  <1>1. ASSUME NEW l \in d.lines PROVE l.amount \in Int /\ l.amount > 0
    <2>1. PICK n \in DOMAIN txns : \E i \in 1..Size(txns[n]) : l = LineOf(txns[n], i)
      BY <1>0 DEF AllLines, LinesOf, Sound
    <2>2. PICK t \in Txns : t = txns[n]
      OBVIOUS
    <2>a. PICK i \in 1..Size(t) : l = LineOf(t, i)
      BY <2>1, <2>2
    <2>3. l.amount = Material(t)[i].amount
      BY <2>a, LineFacts
    <2>4. Material(t)[i].amount > 0
      BY <1>0, <2>2 DEF Sound, ValidEntry, Size
    <2>5. l.amount \in Int
      BY <1>0, LinesTyped DEF Sound
    <2> QED BY <2>3, <2>4, <2>5
  <1>2. PICK g, w, z : /\ g = Amounts(s)
                       /\ w = [l \in d.lines |-> Weight(l, side)]
                       /\ z = [l \in d.lines |-> IF l \in s THEN l.amount ELSE 0]
    OBVIOUS
  <1>3. \A l \in d.lines : z[l] \in Int /\ w[l] \in Int /\ z[l] <= w[l]
    BY <1>1, <1>2 DEF Weight
  <1>4. s \in SUBSET d.lines /\ (\A l \in d.lines \ s : z[l] = 0) /\ \A l \in s : g[l] \in Int /\ z[l] = g[l]
    BY <1>1, <1>2 DEF Amounts
  <1>5. IsFiniteSet(d.lines) /\ IsFiniteSet(s)
    BY <1>4, SidesBalance, FS_Subset
  <1>6. SumFunctionOnSet(z, s) = SumFunctionOnSet(g, s)
    BY <1>4, <1>5, SumCongruent
  <1>7. SumFunctionOnSet(z, d.lines) = SumFunctionOnSet(z, s)
    BY <1>3, <1>4, <1>5, SumSupport
  <1>8. SumFunctionOnSet(z, d.lines) <= SumFunctionOnSet(w, d.lines)
    BY <1>3, <1>5, SumMonotone
  <1>9. SumFunctionOnSet(z, d.lines) \in Int /\ SumFunctionOnSet(w, d.lines) \in Int
    BY <1>3, <1>5, SumType
  <1>10. SumFunctionOnSet(w, d.lines) <= MaxUnits
    <2>1. DOMAIN w = d.lines
      BY <1>2
    <2>2. SideTotal(d, side) = SumFunctionOnSet(w, d.lines)
      BY <1>2, <2>1 DEF SideTotal, SumFunction
    <2> QED BY <2>2, SidesBalance
  <1>11. SumFunction(g) = SumFunctionOnSet(g, s)
    <2>1. DOMAIN g = s
      BY <1>2 DEF Amounts
    <2> QED BY <2>1 DEF SumFunction
  <1> QED BY <1>2, <1>6, <1>7, <1>8, <1>9, <1>10, <1>11, DomainAssumption

(* What a posting or a line adds to the balance of an account. *)
Change(q, a, type) == IF q.account = a THEN Signed(q, type) ELSE 0

(* The postings of a transaction on an account, and what they add to it.   *)
On(t, a) == {i \in 1..Size(t) : LineOf(t, i).account = a}
Adds(t, a, type) == [i \in On(t, a) |-> Signed(LineOf(t, i), type)]

(* The summands of readSqlBalances and of foldJournal for one account.     *)
SqlParts(sql, mine, type) ==
  /\ DOMAIN sql = mine
  /\ \A l \in mine : sql[l] = IF (type = "income") = (l.side = "credit")
                              THEN l.amount ELSE -l.amount
FoldParts(fold, txns, a, type) ==
  \A n \in DOMAIN txns : fold[n] = SumFunction(Adds(txns[n], a, type))

(* One account: the sum over its lines is the sum of its entries' postings. *)
LEMMA BalanceAgrees ==
  ASSUME NEW d, d.txns \in Seq(Txns), Sound(d), NEW a \in Accounts, NEW type \in Types,
         NEW mine, mine = {m \in d.lines : m.account = a},
         NEW sql, SqlParts(sql, mine, type),
         NEW fold, FoldParts(fold, d.txns, a, type)
  PROVE  SumFunction(sql) = SumFunctionOnSet(fold, DOMAIN d.txns)
  <1>0. PICK txns \in Seq(Txns) : txns = d.txns
    OBVIOUS
  <1>1. Distinct(txns) /\ d.lines = AllLines(txns)
    BY <1>0 DEF Sound
  <1>3. PICK w, v : /\ w = [l \in AllLines(txns) |-> Change(l, a, type)]
                    /\ v = [n \in DOMAIN txns |-> [i \in 1..Size(txns[n]) |->
                              Change(LineOf(txns[n], i), a, type)]]
    OBVIOUS
  <1>4. PICK k : k = SumOfEach(v, txns)
    OBVIOUS
  <1>5. \A l \in AllLines(txns) : w[l] \in Int
    BY <1>3, LinesTyped DEF Change, Signed
  <1>6. Weighs(v, w, txns)
    <2>1. \A n \in DOMAIN txns : \A i \in 1..Size(txns[n]) : LineOf(txns[n], i) \in AllLines(txns)
      BY DEF AllLines, LinesOf
    <2> QED BY <1>3, <2>1 DEF Weighs
  <1>7. /\ IsFiniteSet(AllLines(txns)) /\ IsFiniteSet(DOMAIN txns)
        /\ SumFunctionOnSet(w, AllLines(txns)) = SumFunctionOnSet(k, DOMAIN txns)
        /\ \A n \in DOMAIN txns : k[n] \in Int
    BY <1>1, <1>4, <1>5, <1>6, JournalSum
  <1>8. SumFunction(sql) = SumFunctionOnSet(w, AllLines(txns))
    <2>1. DOMAIN sql = mine /\ mine \in SUBSET AllLines(txns)
      BY <1>1 DEF SqlParts
    <2>2. \A l \in mine : sql[l] = w[l] /\ w[l] \in Int
      <3> TAKE l \in mine
      <3>1. l.side \in {"debit", "credit"} /\ l.amount \in Int /\ l \in AllLines(txns) /\ l.account = a
        BY <1>1, LinesTyped
      <3>2. w[l] = IF (l.side = "debit") = (type \in {"asset", "expense"}) THEN l.amount ELSE -l.amount
        BY <1>3, <3>1 DEF Change, Signed, DebitNormal
      <3>3. sql[l] = IF (type = "income") = (l.side = "credit") THEN l.amount ELSE -l.amount
        BY DEF SqlParts
      <3>4. ((type = "income") = (l.side = "credit")) = ((l.side = "debit") = (type \in {"asset", "expense"}))
        BY <3>1 DEF Types
      <3> QED BY <1>5, <3>1, <3>2, <3>3, <3>4
    <2>3. \A l \in AllLines(txns) \ mine : w[l] = 0
      BY <1>1, <1>3 DEF Change
    <2>4. IsFiniteSet(mine)
      BY <1>7, <2>1, FS_Subset
    <2>5. SumFunctionOnSet(w, AllLines(txns)) = SumFunctionOnSet(w, mine)
      BY <1>5, <1>7, <2>1, <2>3, SumSupport
    <2>6. SumFunctionOnSet(sql, mine) = SumFunctionOnSet(w, mine)
      BY <2>2, <2>4, SumCongruent
    <2> QED BY <2>1, <2>5, <2>6 DEF SumFunction
  <1>9. \A n \in DOMAIN txns : fold[n] = k[n]
    <2> TAKE n \in DOMAIN txns
    <2>1. PICK t \in Txns : t = txns[n]
      OBVIOUS
    <2>2. PICK S : S = 1..Size(t)
      OBVIOUS
    <2>3. PICK u : u = [i \in S |-> Change(LineOf(t, i), a, type)]
      OBVIOUS
    <2>4. PICK here : here = On(t, a)
      OBVIOUS
    <2>5. PICK f : f = Adds(t, a, type)
      OBVIOUS
    <2>6. Size(t) \in Nat /\ IsFiniteSet(S)
      <3>1. Size(t) \in Nat
        BY TxnFacts
      <3> QED BY <2>2, <3>1, FS_Interval
    <2>7. k[n] = SumFunctionOnSet(u, S)
      BY <1>3, <1>4, <2>1, <2>2, <2>3 DEF SumOfEach
    <2>8. fold[n] = SumFunctionOnSet(f, here)
      <3>1. DOMAIN f = here
        BY <2>4, <2>5 DEF Adds
      <3>2. fold[n] = SumFunction(f)
        BY <1>0, <2>1, <2>5 DEF FoldParts
      <3> QED BY <3>1, <3>2 DEF SumFunction
    <2>9. here = {i \in S : LineOf(t, i).account = a}
      BY <2>2, <2>4 DEF On
    <2>10. \A i \in S : u[i] \in Int
      <3> TAKE i \in S
      <3>1. LineOf(t, i) \in AllLines(txns)
        BY <2>1, <2>2 DEF AllLines, LinesOf
      <3> QED BY <1>3, <1>5, <2>3, <3>1
    <2>11. here \in SUBSET S /\ (\A i \in S \ here : u[i] = 0) /\ \A i \in here : f[i] = u[i]
      BY <2>3, <2>4, <2>5, <2>9 DEF Change, Adds
    <2>12. SumFunctionOnSet(u, S) = SumFunctionOnSet(u, here)
      BY <2>6, <2>10, <2>11, SumSupport
    <2>13. IsFiniteSet(here)
      BY <2>6, <2>11, FS_Subset
    <2>14. SumFunctionOnSet(f, here) = SumFunctionOnSet(u, here)
      BY <2>10, <2>11, <2>13, SumCongruent
    <2> QED BY <2>7, <2>8, <2>12, <2>14
  <1>10. SumFunctionOnSet(fold, DOMAIN txns) = SumFunctionOnSet(k, DOMAIN txns)
    BY <1>7, <1>9, SumCongruent
  <1> QED BY <1>0, <1>7, <1>8, <1>10

(* `ledger rebuild verify` finds no difference in a sound database. *)
LEMMA BalancesAgree ==
  ASSUME NEW d, d.txns \in Seq(Txns), Sound(d)
  PROVE  SqlBalances(d) = FoldJournal(EntriesOf(d), d.account)
  <1>1. PICK es : es = EntriesOf(d)
    OBVIOUS
  <1>2. DOMAIN es = DOMAIN d.txns
    BY <1>1 DEF EntriesOf
  <1>3. ASSUME NEW n \in DOMAIN d.txns
        PROVE  /\ DOMAIN es[n].postings = 1..Size(d.txns[n])
               /\ \A i \in 1..Size(d.txns[n]) : es[n].postings[i] = LineOf(d.txns[n], i)
    <2>1. es[n] = EntryOf(d, n)
      BY <1>1 DEF EntriesOf
    <2>2. InOrder(EntryOf(d, n), d.txns[n], d.account)
      BY EntriesInOrder
    <2> QED BY <2>1, <2>2 DEF InOrder
  <1>4. PICK D : D = {x \in Accounts : d.account[x] # None}
    OBVIOUS
  <1> DEFINE sql(a) == [l \in {m \in d.lines : m.account = a} |->
                          IF (d.account[a] = "income") = (l.side = "credit")
                          THEN l.amount ELSE -l.amount]
             fold(a) == [n \in DOMAIN es |->
                          LET ps == es[n].postings
                              on == {i \in DOMAIN ps : ps[i].account = a}
                          IN  SumFunction([i \in on |-> Signed(ps[i], d.account[a])])]
  <1>5. ASSUME NEW a \in D PROVE SumFunction(sql(a)) = SumFunction(fold(a))
    <2>1. PICK type \in Types : type = d.account[a]
      BY <1>4 DEF Sound
    <2>2. PICK f, s : f = fold(a) /\ s = sql(a)
      OBVIOUS
    <2>3. ASSUME NEW n \in DOMAIN d.txns
          PROVE  f[n] = SumFunction(Adds(d.txns[n], a, type))
      <3>1. PICK ps : ps = es[n].postings
        OBVIOUS
      <3>2. PICK on : on = {i \in DOMAIN ps : ps[i].account = a}
        OBVIOUS
      <3>3. f[n] = SumFunction([i \in on |-> Signed(ps[i], type)])
        BY <1>2, <2>1, <2>2, <3>1, <3>2
      <3>4. on = On(d.txns[n], a) /\ \A i \in on : ps[i] = LineOf(d.txns[n], i)
        BY <1>3, <3>1, <3>2 DEF On
      <3>5. [i \in on |-> Signed(ps[i], type)] = Adds(d.txns[n], a, type)
        BY <3>4 DEF Adds
      <3> QED BY <3>3, <3>5
    <2>m. PICK mine : mine = {m \in d.lines : m.account = a}
      OBVIOUS
    <2>4. SqlParts(s, mine, type)
      BY <2>1, <2>2, <2>m DEF SqlParts
    <2>5. FoldParts(f, d.txns, a, type)
      BY <2>3 DEF FoldParts
    <2>a. a \in Accounts
      BY <1>4
    <2> HIDE DEF sql, fold
    <2>6. SumFunction(s) = SumFunctionOnSet(f, DOMAIN d.txns)
      BY <2>a, <2>m, <2>4, <2>5, BalanceAgrees
    <2>7. DOMAIN f = DOMAIN d.txns
      BY <1>2, <2>2 DEF fold
    <2> QED BY <2>2, <2>6, <2>7 DEF SumFunction
  <1>6. SqlBalances(d) = [a \in D |-> SumFunction(sql(a))]
    BY <1>4 DEF SqlBalances
  <1>7. FoldJournal(es, d.account) = [a \in D |-> SumFunction(fold(a))]
    BY <1>4 DEF FoldJournal
  <1> HIDE DEF sql, fold
  <1> QED BY <1>1, <1>5, <1>6, <1>7

(* An identity that is not listed may be appended. *)
LEMMA AppendedLines ==
  ASSUME NEW txns \in Seq(Txns), NEW t \in Txns, NEW all, all = Append(txns, t)
  PROVE  /\ AllLines(all) = AllLines(txns) \cup LinesOf(t, Size(t))
         /\ all \in Seq(Txns) /\ Len(all) = Len(txns) + 1 /\ Len(txns) \in Nat
         /\ DOMAIN all = 1..Len(txns) + 1 /\ DOMAIN txns = 1..Len(txns)
         /\ all[Len(txns) + 1] = t
         /\ \A n \in 1..Len(txns) : all[n] = txns[n]
         /\ (Distinct(txns) /\ Absent(txns, t.id)) => Distinct(all)
  <1>1. /\ all \in Seq(Txns) /\ Len(all) = Len(txns) + 1 /\ Len(txns) \in Nat
        /\ DOMAIN all = 1..Len(txns) + 1 /\ DOMAIN txns = 1..Len(txns)
        /\ all[Len(txns) + 1] = t
        /\ \A n \in 1..Len(txns) : all[n] = txns[n]
    OBVIOUS
  <1>2. PICK N \in Nat : N = Len(txns)
    BY <1>1
  <1>3. AllLines(all) = AllLines(txns) \cup LinesOf(t, Size(t))
    <2>1. DOMAIN all = DOMAIN txns \cup {N + 1} /\ all[N + 1] = t
          /\ \A n \in DOMAIN txns : all[n] = txns[n]
      BY <1>1, <1>2
    <2> HIDE <1>1
    <2> QED BY <2>1 DEF AllLines
  <1>4. ASSUME Distinct(txns), Absent(txns, t.id) PROVE Distinct(all)
    BY <1>1, <1>2, <1>4 DEF Distinct, Absent
  <1> QED BY <1>1, <1>3, <1>4

(* What a post may be entered in. *)
Fits(r, d) == /\ ValidEntry(r.postings, d.account)
              /\ DebitTotal(d) + Total(r.postings, "debit") <= MaxUnits

(* A stored post has the identity and the postings of the command.         *)
LEMMA StoredFacts ==
  ASSUME NEW r \in Posts
  PROVE  /\ Stored(r) \in Txns /\ Stored(r).id = r.id /\ Material(Stored(r)) = r.postings
         /\ Size(Stored(r)) = Len(r.postings) /\ r.postings \in Seq(Posting)
         /\ Len(r.postings) \in Nat
  <1>1. Stored(r) \in Txns /\ Stored(r).id = r.id /\ Material(Stored(r)) = r.postings
    BY DEF Txns, Stored, Material, Fingerprint
  <1>2. r.postings \in Seq(Posting)
    BY CommandsAssumption DEF Posts
  <1> QED BY <1>1, <1>2 DEF Size

(* The debits of a database with one more post. *)
LEMMA DebitsAdded ==
  ASSUME NEW d, d.txns \in Seq(Txns), Distinct(d.txns), d.lines = AllLines(d.txns),
         NEW t \in Txns, NEW e, e.txns = Append(d.txns, t), Distinct(e.txns),
         e.lines = AllLines(e.txns)
  PROVE  DebitTotal(e) = DebitTotal(d) + Total(Material(t), "debit")
  <1>1. PICK txns, all : txns \in Seq(Txns) /\ txns = d.txns /\ all = Append(txns, t)
    OBVIOUS
  <1>2. PICK N \in Nat : N = Len(txns)
    OBVIOUS
  <1>3. PICK k, g : /\ k = [n \in DOMAIN d.txns |-> Total(Material(d.txns[n]), "debit")]
                    /\ g = [n \in DOMAIN e.txns |-> Total(Material(e.txns[n]), "debit")]
    OBVIOUS
  <1>4. /\ DOMAIN all = 1..(N + 1) /\ DOMAIN txns = 1..N /\ all[N + 1] = t
        /\ (\A n \in 1..N : all[n] = txns[n]) /\ all \in Seq(Txns)
    BY <1>1, <1>2, AppendedLines
  <1>5. /\ SideTotal(d, "debit") = SumFunctionOnSet(k, DOMAIN d.txns)
        /\ IsFiniteSet(DOMAIN d.txns) /\ \A n \in DOMAIN d.txns : k[n] \in Int
    BY <1>3, SideTotals
  <1>6. /\ SideTotal(e, "debit") = SumFunctionOnSet(g, DOMAIN e.txns)
        /\ \A n \in DOMAIN e.txns : g[n] \in Int
    <2>1. e.txns \in Seq(Txns)
      BY <1>1, <1>4
    <2> QED BY <1>3, <2>1, SideTotals
  <1>7. e.txns = all /\ d.txns = txns
    BY <1>1
  <1>8. g[N + 1] = Total(Material(t), "debit") /\ g[N + 1] \in Int /\ \A n \in 1..N : g[n] = k[n]
    BY <1>3, <1>4, <1>6, <1>7
  <1>9. SumFunctionOnSet(g, 1..N) = SumFunctionOnSet(k, 1..N)
    BY <1>4, <1>5, <1>7, <1>8, SumCongruent
  <1>10. SumFunctionOnSet(g, 1..(N + 1)) = g[N + 1] + SumFunctionOnSet(g, 1..N)
    <2>1. PICK S : S = 1..N
      OBVIOUS
    <2>2. 1..(N + 1) = S \cup {N + 1} /\ N + 1 \notin S
      BY <2>1
    <2>3. IsFiniteSet(S) /\ (\A n \in S : g[n] \in Int)
      BY <1>4, <1>5, <1>7, <1>8, <2>1
    <2>4. PICK M : M = N + 1
      OBVIOUS
    <2>5. SumFunctionOnSet(g, S \cup {M}) = g[M] + SumFunctionOnSet(g, S)
      BY <1>8, <2>2, <2>3, <2>4, SumAdd
    <2> QED BY <2>1, <2>2, <2>4, <2>5
  <1>11. SumFunctionOnSet(k, 1..N) \in Int
    BY <1>4, <1>5, <1>7, SumType
  <1>12. /\ SideTotal(d, "debit") = SumFunctionOnSet(k, 1..N)
         /\ SideTotal(e, "debit") = SumFunctionOnSet(g, 1..(N + 1))
    BY <1>4, <1>5, <1>6, <1>7
  <1> QED BY <1>8, <1>9, <1>10, <1>11, <1>12, DebitTotalIs

(* Entering a post that fits leaves a sound database. *)
LEMMA PostedIsSound ==
  ASSUME NEW d, d.txns \in Seq(Txns), Sound(d), NEW r \in Posts, Fits(r, d),
         Absent(d.txns, r.id),
         NEW e, e.ledger = d.ledger, e.account = d.account,
         e.txns = Append(d.txns, Stored(r)),
         e.lines = d.lines \cup LinesOf(Stored(r), Len(r.postings))
  PROVE  Sound(e) /\ DebitTotal(e) = DebitTotal(d) + Total(r.postings, "debit")
  <1>1. PICK t \in Txns : t = Stored(r) /\ t.id = r.id /\ Material(t) = r.postings
                          /\ Size(t) = Len(r.postings)
    BY StoredFacts
  <1>2. PICK txns, all : txns \in Seq(Txns) /\ txns = d.txns /\ all = Append(txns, t)
    OBVIOUS
  <1>3. PICK N \in Nat : N = Len(txns)
    BY <1>2
  <1>4. /\ DOMAIN all = 1..(N + 1) /\ DOMAIN txns = 1..N /\ all[N + 1] = t
        /\ (\A n \in 1..N : all[n] = txns[n])
    BY <1>2, <1>3, AppendedLines
  <1>a. AllLines(all) = AllLines(txns) \cup LinesOf(t, Size(t))
    BY <1>2, AppendedLines
  <1>5. Distinct(all)
    <2>1. Distinct(txns) /\ Absent(txns, t.id)
      BY <1>1, <1>2 DEF Sound
    <2> QED BY <1>2, <2>1, AppendedLines
  <1>6. e.txns = all /\ e.lines = AllLines(all)
    BY <1>1, <1>2, <1>a DEF Sound
  <1>7. \A n \in DOMAIN all : ValidEntry(Material(all[n]), e.account)
    <2> TAKE n \in DOMAIN all
    <2>1. CASE n = N + 1
      BY <1>1, <1>4, <2>1 DEF Fits
    <2>2. CASE n \in 1..N
      BY <1>2, <1>4, <2>2 DEF Sound
    <2> QED BY <1>4, <2>1, <2>2
  <1>8. DebitTotal(e) = DebitTotal(d) + Total(r.postings, "debit")
    <2>1. /\ Distinct(d.txns) /\ d.lines = AllLines(d.txns)
          /\ e.txns = Append(d.txns, t) /\ Distinct(e.txns) /\ e.lines = AllLines(e.txns)
      BY <1>2, <1>5, <1>6 DEF Sound
    <2> QED BY <1>1, <2>1, DebitsAdded
  <1>9. /\ e.ledger = {} \/ \E x : e.ledger = {x}
        /\ e.account \in [Accounts -> Types \cup {None}]
        /\ DebitTotal(e) <= MaxUnits
    BY <1>8 DEF Sound, Fits
  <1> QED BY <1>5, <1>6, <1>7, <1>8, <1>9 DEF Sound

(* So do opening the ledger and adding an account. *)
LEMMA OpenedIsSound ==
  ASSUME NEW d, d.txns \in Seq(Txns), Sound(d), NEW e, e.txns = d.txns, e.lines = d.lines,
         \/ e.ledger = d.ledger
         \/ \E x : e.ledger = {x},
         \/ e.account = d.account
         \/ \E a \in Accounts, type \in Types :
              d.account[a] = None /\ e.account = [d.account EXCEPT ![a] = type]
  PROVE  Sound(e)
  <1>1. e.ledger = {} \/ \E x : e.ledger = {x}
    BY DEF Sound
  <1>2. /\ e.account \in [Accounts -> Types \cup {None}]
        /\ \A a \in Accounts : d.account[a] # None => e.account[a] # None
    BY DEF Sound
  <1>3. \A n \in DOMAIN e.txns : ValidEntry(Material(e.txns[n]), e.account)
    <2> TAKE n \in DOMAIN e.txns
    <2>1. PICK t \in Txns : t = d.txns[n] /\ e.txns[n] = t
      OBVIOUS
    <2>2. PICK ps \in Seq(Posting) : ps = Material(t)
      BY TxnFacts
    <2>3. ValidEntry(ps, d.account)
      BY <2>1, <2>2 DEF Sound
    <2> QED BY <1>2, <2>1, <2>2, <2>3, ValidStays
  <1>4. DebitTotal(e) = DebitTotal(d)
    BY DEF DebitTotal
  <1> QED BY <1>1, <1>2, <1>3, <1>4 DEF Sound

(* The database starts without a journal.                                  *)
LEMMA EmptyIsSound == Sound(EmptyDb)
  <1>1. /\ EmptyDb.ledger = {} /\ EmptyDb.account = [a \in Accounts |-> None]
        /\ EmptyDb.txns = <<>> /\ EmptyDb.lines = {}
    BY DEF EmptyDb
  <1>2. DOMAIN EmptyDb.txns = {}
    BY <1>1
  <1>3. AllLines(EmptyDb.txns) = {}
    BY <1>2 DEF AllLines
  <1>4. DebitTotal(EmptyDb) = 0
    <2>1. PICK f : f = [l \in {} |-> IF l.side = "debit" THEN l.amount ELSE 0]
      OBVIOUS
    <2>2. DebitTotal(EmptyDb) = SumFunction(f)
      BY <1>1, <2>1 DEF DebitTotal
    <2>3. DOMAIN f = {}
      BY <2>1
    <2> QED BY <2>2, <2>3, SumEmpty DEF SumFunction
  <1> QED BY <1>1, <1>2, <1>3, <1>4, DomainAssumption DEF Sound, Distinct

(***************************************************************************)
(* The second inductive invariant.  JournalRebuilds alone does not say why *)
(* what an invocation is about to commit is a sound database, nor why what *)
(* it reads in several statements is one: because a snapshot is a database *)
(* that was committed, because the checks were made on the snapshot the    *)
(* transaction writes to, and because while it writes, the committed       *)
(* database is still that snapshot.                                        *)
(***************************************************************************)
Ready(r, d) == /\ r.op = "post" => Fits(r, d)
               /\ r.op = "init" => d.ledger = {}
               /\ r.op = "account" => d.ledger # {} /\ d.account[r.id] = None

SnapshotOk(step, r, w, entries) ==
  /\ step \in {"check", "total", "insert", "replay", "entries", "sums"} => Sound(w)
  /\ step = "total" => ValidEntry(r.postings, w.account)
  /\ step = "insert" => Ready(r, w)
  /\ step = "sums" => entries = EntriesOf(w)

SameBook(w, d) == /\ w.ledger = d.ledger /\ w.account = d.account
                  /\ w.txns = d.txns /\ w.lines = d.lines

(* w is d with the post r, up to line j. *)
HasLines(r, d, w, j) == /\ w.ledger = d.ledger /\ w.account = d.account
                        /\ w.lines = d.lines \cup LinesOf(Stored(r), j)

IsEntered(r, d, w) ==
  /\ r.op = "post" => HasLines(r, d, w, Len(r.postings))
  /\ r.op = "init" => /\ w.ledger = {r.id} /\ w.account = d.account
                      /\ w.txns = d.txns /\ w.lines = d.lines
  /\ r.op = "account" => /\ w.account = [d.account EXCEPT ![r.id] = r.type]
                         /\ w.ledger = d.ledger /\ w.txns = d.txns /\ w.lines = d.lines

WritesOk(step, r, d, w) ==
  /\ step = "migrateCommit" => SameBook(w, d)
  /\ step \in {"lines", "commit"} => Ready(r, d)
  /\ step = "lines" => \E j \in Nat : j < Len(r.postings) /\ HasLines(r, d, w, j)
  /\ step = "commit" => r.op \in {"init", "account", "post"} /\ IsEntered(r, d, w)

NothingCorrupt == reply # None => reply.outcome # "corrupt-journal"

RInv == /\ Sound(db)
        /\ \A c \in Invocations : /\ SnapshotOk(pc[c], cmd[c], work[c], read[c])
                                  /\ WritesOk(pc[c], cmd[c], db, work[c])
        /\ NothingCorrupt
        /\ read = [c \in Invocations |-> read[c]]

(* The initial state satisfies the invariant of the journal.               *)
LEMMA InitRInv == Init => RInv
  BY EmptyIsSound DEF Init, RInv, SnapshotOk, WritesOk, NothingCorrupt

(* A step of c that leaves the committed database alone is about c. *)
LEMMA OwnStepKeeps ==
  ASSUME IInv, RInv, NEW c \in Invocations, db' = db,
         NEW step, pc' = [pc EXCEPT ![c] = step],
         NEW r, cmd' = [cmd EXCEPT ![c] = r],
         NEW w, work' = [work EXCEPT ![c] = w],
         NEW entries, read' = [read EXCEPT ![c] = entries],
         SnapshotOk(step, r, w, entries), WritesOk(step, r, db, w),
         reply' = None \/ reply'.outcome # "corrupt-journal"
  PROVE  RInv'
  <1>1. /\ pc'[c] = step /\ cmd'[c] = r /\ work'[c] = w /\ read'[c] = entries
        /\ read' = [d \in Invocations |-> read'[d]]
        /\ \A d \in Invocations \ {c} : /\ pc'[d] = pc[d] /\ cmd'[d] = cmd[d]
                                        /\ work'[d] = work[d] /\ read'[d] = read[d]
    BY DEF IInv, Typed, RInv
  <1> QED BY <1>1 DEF RInv, NothingCorrupt

(* Only the rebuild of a journal reports a corrupt one.                    *)
LEMMA FaultsAreNotCorrupt ==
  ASSUME NEW d, Cardinality(d.ledger) \in {0, 1}
  PROVE  /\ \A op : LedgerFault(op, d) # "corrupt-journal"
         /\ \A r : LookupFault(r, d) # "corrupt-journal"
         /\ \A ps, catalog, kind : Validate(ps, catalog, kind) # "corrupt-journal"
  <1>1. \A op : LedgerFault(op, d) # "corrupt-journal"
    <2>1. ~(Cardinality(d.ledger) > 1)
      OBVIOUS
    <2> QED BY <2>1 DEF LedgerFault
  <1>2. \A r : LookupFault(r, d) # "corrupt-journal"
    BY <1>1 DEF LookupFault
  <1>3. \A ps, catalog : FirstFault(ps, catalog) # "corrupt-journal"
    BY DEF FirstFault, PostingFault
  <1>4. \A ps, catalog, kind : KindFault(ps, catalog, kind) # "corrupt-journal"
    BY DEF KindFault
  <1>5. \A ps, catalog, kind : Validate(ps, catalog, kind) # "corrupt-journal"
    BY <1>3, <1>4 DEF Validate
  <1> QED BY <1>1, <1>2, <1>5

(* An invocation that ends without reporting a corrupt journal keeps it:   *)
LEMMA EndKeepsR ==
  ASSUME IInv, RInv, NEW c \in Invocations, End(c), db' = db,
         reply' = None \/ reply'.outcome # "corrupt-journal"
  PROVE  RInv'
  <1>1. SnapshotOk("idle", None, EmptyDb, <<>>) /\ WritesOk("idle", None, db, EmptyDb)
    BY DEF SnapshotOk, WritesOk
  <1> QED BY <1>1, OwnStepKeeps DEF End

(* whatever it prints,                                                     *)
LEMMA AnswerKeepsR ==
  ASSUME IInv, RInv, NEW c \in Invocations, NEW o, Answer(c, o), o # "corrupt-journal"
  PROVE  RInv'
  <1>1. reply'.outcome = o /\ End(c) /\ db' = db
    BY DEF Answer, Output
  <1> QED BY <1>1, EndKeepsR

(* A step that neither reads nor writes a table. *)
LEMMA GotoKeepsR ==
  ASSUME IInv, RInv, NEW c \in Invocations, NEW step, Goto(c, step),
         UNCHANGED <<db, work, cmd>>,
         NEW entries, read' = [read EXCEPT ![c] = entries],
         SnapshotOk(step, cmd[c], work[c], entries), WritesOk(step, cmd[c], db, work[c])
  PROVE  RInv'
  <1>1. /\ work' = [work EXCEPT ![c] = work[c]] /\ cmd' = [cmd EXCEPT ![c] = cmd[c]]
        /\ pc' = [pc EXCEPT ![c] = step] /\ reply' = None
    BY DEF IInv, Typed, Goto
  <1> QED BY <1>1, OwnStepKeeps

(* having read nothing more,                                               *)
LEMMA ReadStays ==
  ASSUME RInv, NEW c \in Invocations, read' = read PROVE read' = [read EXCEPT ![c] = read[c]]
  BY DEF RInv

(* or only beginning.                                                      *)
LEMMA InvokeKeepsR ==
  ASSUME IInv, RInv, NEW c \in Invocations, NEW r \in Commands, Invoke(c, r) PROVE RInv'
  <1>1. /\ work' = [work EXCEPT ![c] = work[c]] /\ cmd' = [cmd EXCEPT ![c] = r]
        /\ pc' = [pc EXCEPT ![c] = "migrate"] /\ reply' = None /\ db' = db
        /\ read' = [read EXCEPT ![c] = read[c]]
    BY DEF IInv, Typed, RInv, Goto, Invoke
  <1>2. SnapshotOk("migrate", r, work[c], read[c]) /\ WritesOk("migrate", r, db, work[c])
    BY DEF SnapshotOk, WritesOk
  <1> QED BY <1>1, <1>2, OwnStepKeeps

(* The migration changes none of the tables of the book. *)
LEMMA MigrateKeepsR ==
  ASSUME IInv, RInv, NEW c \in Invocations, MigrateTables(c) \/ MigrateRow(c)
  PROVE  RInv'
  <1>1. CASE Busy(c)
    BY <1>1, AnswerKeepsR DEF Busy
  <1>2. CASE ~Busy(c) /\ MigrateTables(c)
    <2>1. PICK w, step : /\ SameBook(w, db) /\ work' = [work EXCEPT ![c] = w]
                         /\ step \in {"migrateRow", "migrateCommit"} /\ Goto(c, step)
                         /\ UNCHANGED <<db, cmd, read>>
      <3>1. CASE db.migrated
        <4>1. SameBook(db, db) /\ work' = [work EXCEPT ![c] = db] /\ Goto(c, "migrateRow")
              /\ UNCHANGED <<db, cmd, read>>
          BY <1>2, <3>1 DEF MigrateTables, SameBook
        <4> QED BY <4>1
      <3>2. CASE ~db.migrated
        <4>1. PICK w : w = [db EXCEPT !.migrated = TRUE]
          OBVIOUS
        <4>2. SameBook(w, db)
          BY <4>1 DEF SameBook, IInv, Typed, IsDb, Tables
        <4>3. work' = [work EXCEPT ![c] = w] /\ Goto(c, "migrateCommit")
              /\ UNCHANGED <<db, cmd, read>>
          BY <1>2, <3>2, <4>1 DEF MigrateTables
        <4> QED BY <4>2, <4>3
      <3> QED BY <3>1, <3>2
    <2>2. /\ cmd' = [cmd EXCEPT ![c] = cmd[c]] /\ read' = [read EXCEPT ![c] = read[c]]
          /\ pc' = [pc EXCEPT ![c] = step] /\ reply' = None
      BY <2>1, ReadStays DEF IInv, Typed, Goto
    <2>3. SnapshotOk(step, cmd[c], w, read[c]) /\ WritesOk(step, cmd[c], db, w)
      BY <2>1 DEF SnapshotOk, WritesOk
    <2> QED BY <2>1, <2>2, <2>3, OwnStepKeeps
  <1>3. CASE ~Busy(c) /\ MigrateRow(c)
    <2>1. /\ work[c] = db /\ Goto(c, "migrateCommit") /\ UNCHANGED <<db, work, cmd, read>>
      BY <1>3 DEF MigrateRow, MayWrite, ownVars
    <2>2. /\ SnapshotOk("migrateCommit", cmd[c], work[c], read[c])
          /\ WritesOk("migrateCommit", cmd[c], db, work[c])
      BY <2>1 DEF SnapshotOk, WritesOk, SameBook
    <2> QED BY <2>1, <2>2, GotoKeepsR, ReadStays
  <1> QED BY <1>1, <1>2, <1>3

(* What is committed is sound: the tables as they were, or with the one    *)
(* change that was checked.                                                *)
LEMMA CommittedIsSound ==
  ASSUME IInv, RInv, NEW c \in Invocations, pc[c] \in {"migrateCommit", "commit"}
  PROVE  Sound(work[c])
  <1>1. /\ Sound(db) /\ db.txns \in Seq(Txns) /\ cmd[c] \in Commands
    BY DEF IInv, Typed, IsDb, RInv
  <1>2. PICK r, w : r \in Commands /\ r = cmd[c] /\ w = work[c]
    BY <1>1
  <1>3. WritesOk(pc[c], r, db, w)
    BY <1>2 DEF RInv
  <1>4. CASE pc[c] = "migrateCommit"
    <2>1. w.txns = db.txns /\ w.lines = db.lines /\ w.ledger = db.ledger /\ w.account = db.account
      BY <1>3, <1>4 DEF WritesOk, SameBook
    <2> QED BY <1>1, <1>2, <2>1, OpenedIsSound
  <1>5. CASE pc[c] = "commit"
    <2>1. Ready(r, db) /\ IsEntered(r, db, w) /\ r.op \in {"init", "account", "post"}
      BY <1>3, <1>5 DEF WritesOk
    <2>2. CASE r.op = "init"
      <3>1. w.txns = db.txns /\ w.lines = db.lines /\ w.ledger = {r.id} /\ w.account = db.account
        BY <2>1, <2>2 DEF IsEntered
      <3> QED BY <1>1, <1>2, <3>1, OpenedIsSound
    <2>3. CASE r.op = "account"
      <3>1. /\ w.txns = db.txns /\ w.lines = db.lines /\ w.ledger = db.ledger
            /\ w.account = [db.account EXCEPT ![r.id] = r.type] /\ db.account[r.id] = None
        BY <2>1, <2>3 DEF IsEntered, Ready
      <3>2. r.id \in Accounts /\ r.type \in Types
        BY <1>2, <2>3, CommandsAssumption
      <3> QED BY <1>1, <1>2, <3>1, <3>2, OpenedIsSound
    <2>4. CASE r.op = "post"
      <3>1. Fits(r, db) /\ HasLines(r, db, w, Len(r.postings))
        BY <2>1, <2>4 DEF IsEntered, Ready
      <3>2. r \in Posts /\ Absent(db.txns, r.id) /\ w.txns = Append(db.txns, Stored(r))
        BY <1>2, <1>5, <2>4 DEF Posts, IInv, LockInv, IsPost
      <3>3. Sound(w)
        BY <1>1, <3>1, <3>2, PostedIsSound DEF HasLines
      <3> QED BY <1>2, <3>3
    <2> QED BY <2>1, <2>2, <2>3, <2>4
  <1> QED BY <1>4, <1>5

(* A COMMIT publishes the sound database its holder worked on, and nobody  *)
(* else's snapshot is current any more.                                    *)
LEMMA PublishKeepsR ==
  ASSUME IInv, RInv, NEW c \in Invocations, NEW step, Publish(c, step),
         pc[c] \in {"migrateCommit", "commit"}, step \in {"lookup", "getLedger", "print"}
  PROVE  RInv'
  <1>1. /\ wlock = c /\ db' = work[c]
        /\ pc' = [pc EXCEPT ![c] = step] /\ reply' = None
        /\ UNCHANGED <<work, cmd, read>>
    BY DEF Publish, Goto, ownVars, IInv, LockInv
  <1>2. \A d \in Invocations \ {c} : pc[d] \notin {"migrateCommit", "lines", "commit"}
    BY <1>1 DEF IInv, LockInv
  <1>3. Sound(db')
    BY <1>1, CommittedIsSound
  <1>4. pc'[c] = step /\ \A d \in Invocations \ {c} : pc'[d] = pc[d]
    BY <1>1 DEF IInv, Typed
  <1>5. ASSUME NEW d \in Invocations
        PROVE  /\ SnapshotOk(pc'[d], cmd'[d], work'[d], read'[d])
               /\ WritesOk(pc'[d], cmd'[d], db', work'[d])
    <2>1. CASE d = c
      BY <1>4, <2>1 DEF SnapshotOk, WritesOk
    <2>2. CASE d # c
      <3>1. pc'[d] = pc[d] /\ SnapshotOk(pc[d], cmd[d], work[d], read[d])
        BY <1>4, <2>2 DEF RInv
      <3>2. WritesOk(pc[d], cmd[d], db', work[d])
        BY <1>2, <2>2 DEF WritesOk
      <3> QED BY <1>1, <3>1, <3>2
    <2> QED BY <2>1, <2>2
  <1>6. NothingCorrupt' /\ read' = [d \in Invocations |-> read'[d]]
    BY <1>1 DEF NothingCorrupt, RInv
  <1> QED BY <1>3, <1>5, <1>6 DEF RInv

(* The lookup of a post takes the snapshot, which is the committed         *)
(* database.                                                               *)
LEMMA LookupKeepsR == ASSUME IInv, RInv, NEW c \in Invocations, Lookup(c) PROVE RInv'
  <1>0. Sound(db) /\ db.txns \in Seq(Txns)
    BY DEF IInv, Typed, IsDb, RInv
  <1>1. CASE LookupFault(cmd[c], db) # "ok"
    <2>1. Cardinality(db.ledger) \in {0, 1}
      BY <1>0, SoundIsNotCorrupt
    <2>2. LookupFault(cmd[c], db) # "corrupt-journal"
      BY <2>1, FaultsAreNotCorrupt
    <2> QED BY <1>1, <2>2, AnswerKeepsR DEF Lookup
  <1>2. CASE LookupFault(cmd[c], db) = "ok"
    <2>1. PICK r, step : r \in Commands /\ r = cmd[c] /\ step = AfterLookup(r, db)
      BY <1>2 DEF Lookup, IInv, Typed
    <2>2. /\ work' = [work EXCEPT ![c] = db] /\ pc' = [pc EXCEPT ![c] = step]
          /\ reply' = None /\ db' = db
          /\ cmd' = [cmd EXCEPT ![c] = r] /\ read' = [read EXCEPT ![c] = read[c]]
      BY <1>2, <2>1, ReadStays DEF Lookup, Goto, IInv, Typed
    <2>3. \/ step = "insert" /\ r.op \in {"init", "account"}
          \/ step \in {"check", "replay", "entries"}
      BY <2>1 DEF AfterLookup, Reads
    <2>4. LedgerFault(r.op, db) = "ok" /\ (r.op = "account" => db.account[r.id] = None)
      BY <1>2, <2>1 DEF LookupFault
    <2>5. step = "insert" => Ready(r, db)
      <3>1. r.op = "init" => db.ledger = {}
        BY <2>4 DEF LedgerFault
      <3>2. r.op = "account" => db.ledger # {}
        BY <2>4 DEF LedgerFault
      <3> QED BY <2>3, <2>4, <3>1, <3>2 DEF Ready
    <2>6. SnapshotOk(step, r, db, read[c])
      BY <1>0, <2>3, <2>5 DEF SnapshotOk
    <2>7. WritesOk(step, r, db, db)
      BY <2>3 DEF WritesOk
    <2> QED BY <2>2, <2>6, <2>7, OwnStepKeeps
  <1> QED BY <1>1, <1>2

(* The first INSERT writes to the snapshot the checks were made on.        *)
LEMMA InsertKeepsR == ASSUME IInv, RInv, NEW c \in Invocations, Insert(c) PROVE RInv'
  <1>1. CASE ~MayWrite(c)
    BY <1>1, AnswerKeepsR DEF Insert, Busy
  <1>2. CASE MayWrite(c)
    <2>1. PICK r, w, step :
            /\ r \in Commands /\ r = cmd[c] /\ w = Inserted(r, db)
            /\ step = IF r.op = "post" THEN "lines" ELSE "commit"
      BY <1>2 DEF Insert, IInv, Typed
    <2>2. /\ work' = [work EXCEPT ![c] = w] /\ pc' = [pc EXCEPT ![c] = step]
          /\ reply' = None /\ db' = db
          /\ cmd' = [cmd EXCEPT ![c] = r] /\ read' = [read EXCEPT ![c] = read[c]]
      BY <1>2, <2>1, ReadStays DEF Insert, MayWrite, View, Goto, IInv, Typed
    <2>3. pc[c] = "insert" /\ work[c] = db
      BY <1>2 DEF Insert, MayWrite
    <2>4. Ready(r, db) /\ r.op \in {"init", "account", "post"}
      BY <2>1, <2>3 DEF RInv, SnapshotOk, IInv, SnapshotInv
    <2>5. IsDb(db)
      BY DEF IInv, Typed
    <2>6. CASE r.op = "post"
      <3>1. PICK txns : txns = Append(db.txns, Stored(r))
        OBVIOUS
      <3>2. w = [db EXCEPT !.txns = txns]
        BY <2>1, <2>6, <3>1 DEF Inserted, Stored
      <3>3. w.ledger = db.ledger /\ w.account = db.account /\ w.lines = db.lines
        BY <2>5, <3>2 DEF IsDb, Tables
      <3>4. LinesOf(Stored(r), 0) = {}
        BY DEF LinesOf
      <3>5. HasLines(r, db, w, 0)
        BY <3>3, <3>4 DEF HasLines
      <3>6. 0 < Len(r.postings)
        <4>1. r \in Posts /\ Len(r.postings) >= 2
          BY <2>1, <2>4, <2>6 DEF Ready, Fits, ValidEntry, Posts
        <4> QED BY <4>1, StoredFacts
      <3>7. step = "lines"
        BY <2>1, <2>6
      <3>8. SnapshotOk(step, r, w, read[c]) /\ WritesOk(step, r, db, w)
        BY <2>4, <3>5, <3>6, <3>7 DEF SnapshotOk, WritesOk
      <3> QED BY <2>2, <3>8, OwnStepKeeps
    <2>7. CASE r.op = "init"
      <3>1. w = [db EXCEPT !.ledger = @ \cup {r.id}]
        BY <2>1, <2>7 DEF Inserted
      <3>2. db.ledger = {}
        BY <2>4, <2>7 DEF Ready
      <3>3. w.ledger = {r.id} /\ w.account = db.account /\ w.lines = db.lines /\ w.txns = db.txns
        BY <2>5, <3>1, <3>2 DEF IsDb, Tables
      <3>4. IsEntered(r, db, w) /\ step = "commit"
        BY <2>1, <2>7, <3>3 DEF IsEntered
      <3>8. SnapshotOk(step, r, w, read[c]) /\ WritesOk(step, r, db, w)
        BY <2>4, <3>4 DEF SnapshotOk, WritesOk
      <3> QED BY <2>2, <3>8, OwnStepKeeps
    <2>8. CASE r.op = "account"
      <3>1. w = [db EXCEPT !.account[r.id] = r.type]
        BY <2>1, <2>8 DEF Inserted
      <3>2. /\ w.account = [db.account EXCEPT ![r.id] = r.type]
            /\ w.ledger = db.ledger /\ w.lines = db.lines /\ w.txns = db.txns
        BY <2>5, <3>1 DEF IsDb, Tables
      <3>3. IsEntered(r, db, w) /\ step = "commit"
        BY <2>1, <2>8, <3>2 DEF IsEntered
      <3>8. SnapshotOk(step, r, w, read[c]) /\ WritesOk(step, r, db, w)
        BY <2>4, <3>3 DEF SnapshotOk, WritesOk
      <3> QED BY <2>2, <3>8, OwnStepKeeps
    <2> QED BY <2>4, <2>6, <2>7, <2>8
  <1> QED BY <1>1, <1>2

(* The lines are written in order, each once. *)
LEMMA InsertLineKeepsR == ASSUME IInv, RInv, NEW c \in Invocations, InsertLine(c) PROVE RInv'
  <1>1. PICK r, w : r \in Commands /\ r = cmd[c] /\ w = work[c]
    BY DEF InsertLine, IInv, Typed
  <1>2. pc[c] = "lines"
    BY DEF InsertLine
  <1>3. /\ r \in Posts /\ Absent(db.txns, r.id) /\ w.txns = Append(db.txns, Stored(r))
        /\ Sound(db) /\ IsDb(w)
    BY <1>1, <1>2 DEF IInv, Typed, LockInv, IsPost, Posts, RInv
  <1>4. Ready(r, db) /\ \E j \in Nat : j < Len(r.postings) /\ HasLines(r, db, w, j)
    BY <1>1, <1>2 DEF RInv, WritesOk
  <1>5. PICK j \in Nat : j < Len(r.postings) /\ HasLines(r, db, w, j)
    BY <1>4
  <1>6. PICK t \in Txns : /\ t = Stored(r) /\ t.id = r.id /\ Material(t) = r.postings
                          /\ Size(t) = Len(r.postings) /\ Len(r.postings) \in Nat
    BY <1>3, StoredFacts
  <1>7. Written(c) = j
    <2>1. Rows(w, r.id) = LinesOf(t, j)
      <3>1. \A l \in db.lines : l.id # r.id
        BY <1>3, RowsOfNobody DEF Sound
      <3>2. \A l \in LinesOf(t, j) : l.id = r.id
        BY <1>6, LineFacts DEF LinesOf
      <3>3. w.lines = db.lines \cup LinesOf(t, j)
        BY <1>5, <1>6 DEF HasLines
      <3> QED BY <3>1, <3>2, <3>3 DEF Rows
    <2>2. Cardinality(LinesOf(t, j)) = j
      BY LinesCounted
    <2>3. Cardinality(Rows(w, r.id)) = j
      BY <2>1, <2>2, Zenon
    <2> QED BY <1>1, <2>3 DEF Written
  <1>8. Line(r, j) = LineOf(t, j + 1)
    <2>1. LineOf(t, j + 1) = [id |-> r.id, line |-> (j + 1) - 1,
             account |-> r.postings[j + 1].account, side |-> r.postings[j + 1].side,
             amount |-> r.postings[j + 1].amount]
      BY <1>6 DEF LineOf
    <2>2. (j + 1) - 1 = j
      OBVIOUS
    <2> QED BY <2>1, <2>2 DEF Line
  <1>9. LinesOf(t, j) \cup {LineOf(t, j + 1)} = LinesOf(t, j + 1)
    <2>1. 1..(j + 1) = 1..j \cup {j + 1}
      OBVIOUS
    <2>2. PICK S : S = 1..j
      OBVIOUS
    <2>3. LinesOf(t, j + 1) = {LineOf(t, i) : i \in S \cup {j + 1}}
      BY <2>1, <2>2 DEF LinesOf
    <2>4. LinesOf(t, j) = {LineOf(t, i) : i \in S}
      BY <2>2 DEF LinesOf
    <2> HIDE <2>1, <2>2
    <2> QED BY <2>3, <2>4
  <1>10. PICK lines : lines = w.lines \cup {Line(r, j)}
    OBVIOUS
  <1>11. PICK e : e = [w EXCEPT !.lines = lines]
    OBVIOUS
  <1>12. PICK step : step = IF j + 1 = Len(r.postings) THEN "commit" ELSE "lines"
    OBVIOUS
  <1>13. /\ work' = [work EXCEPT ![c] = e] /\ pc' = [pc EXCEPT ![c] = step]
         /\ reply' = None /\ db' = db
         /\ cmd' = [cmd EXCEPT ![c] = r] /\ read' = [read EXCEPT ![c] = read[c]]
    <2>1. work' = [work EXCEPT ![c].lines = @ \cup {Line(cmd[c], Written(c))}]
      BY DEF InsertLine
    <2>2. work' = [work EXCEPT ![c] = e]
      BY <1>1, <1>7, <1>10, <1>11, <2>1
    <2>3. pc' = [pc EXCEPT ![c] = step]
      BY <1>1, <1>7, <1>12 DEF InsertLine, Goto
    <2> QED BY <1>1, <2>2, <2>3, ReadStays DEF InsertLine, Goto, IInv, Typed
  <1>14. HasLines(r, db, e, j + 1)
    <2>1. e.ledger = w.ledger /\ e.account = w.account /\ e.lines = lines
      BY <1>3, <1>11 DEF IsDb, Tables
    <2>2. w.ledger = db.ledger /\ w.account = db.account /\ w.lines = db.lines \cup LinesOf(t, j)
      BY <1>5, <1>6 DEF HasLines
    <2>3. lines = db.lines \cup LinesOf(t, j + 1)
      BY <1>8, <1>9, <1>10, <2>2
    <2> QED BY <1>6, <2>1, <2>2, <2>3 DEF HasLines
  <1>15. SnapshotOk(step, r, e, read[c])
    BY <1>12 DEF SnapshotOk
  <1>16. WritesOk(step, r, db, e)
    <2>1. CASE j + 1 = Len(r.postings)
      <3>1. r.op = "post"
        BY <1>3 DEF Posts
      <3>2. IsEntered(r, db, e)
        BY <1>14, <2>1, <3>1 DEF IsEntered
      <3> QED BY <1>4, <1>12, <2>1, <3>1, <3>2 DEF WritesOk
    <2>2. CASE j + 1 # Len(r.postings)
      <3>1. j + 1 \in Nat /\ j + 1 < Len(r.postings) /\ step = "lines"
        BY <1>5, <1>6, <1>12, <2>2
      <3> QED BY <1>4, <1>14, <3>1 DEF WritesOk
    <2> QED BY <2>1, <2>2
  <1> QED BY <1>13, <1>15, <1>16, OwnStepKeeps

(* The reading steps find nothing corrupt, and the checks decide what they *)
(* are made for.                                                           *)
LEMMA ReadingStepsKeepR ==
  ASSUME IInv, RInv, NEW c \in Invocations,
         \/ GetLedger(c) \/ Replay(c) \/ Check(c) \/ CheckTotal(c)
         \/ ReadEntries(c) \/ ReadSums(c)
  PROVE  RInv'
  <1>0. Sound(db) /\ db.txns \in Seq(Txns) /\ IsDb(work[c]) /\ work[c].txns \in Seq(Txns)
    BY DEF IInv, Typed, IsDb, RInv
  <1>a. Cardinality(db.ledger) \in {0, 1}
    BY <1>0, SoundIsNotCorrupt
  <1>b. /\ \A op : LedgerFault(op, db) # "corrupt-journal"
        /\ \A ps, catalog, kind : Validate(ps, catalog, kind) # "corrupt-journal"
    BY <1>a, FaultsAreNotCorrupt
  <1>c. SnapshotOk(pc[c], cmd[c], work[c], read[c])
    BY DEF RInv
  <1>1. CASE GetLedger(c)
    <2>1. CASE LedgerFault(cmd[c].op, db) = "ok"
      <3>1. Goto(c, "lookup") /\ UNCHANGED <<db, work, cmd>> /\ read' = read
        BY <1>1, <2>1 DEF GetLedger, ownVars
      <3>2. SnapshotOk("lookup", cmd[c], work[c], read[c]) /\ WritesOk("lookup", cmd[c], db, work[c])
        BY DEF SnapshotOk, WritesOk
      <3> QED BY <3>1, <3>2, GotoKeepsR, ReadStays
    <2>2. CASE LedgerFault(cmd[c].op, db) # "ok"
      BY <1>1, <1>b, <2>2, AnswerKeepsR DEF GetLedger
    <2> QED BY <2>1, <2>2
  <1>2. CASE Replay(c)
    <2>1. pc[c] = "replay" /\ Sound(work[c])
      BY <1>2, <1>c DEF Replay, SnapshotOk
    <2>2. PICK stored : stored = {EntryOf(work[c], n) : n \in Find(work[c], cmd[c].id)}
      OBVIOUS
    <2>3. \A e \in stored : ~Corrupt(<<e>>, work[c].account)
      BY <1>0, <2>1, <2>2, SoundIsNotCorrupt DEF Find
    <2>4. PICK fault : fault = Validate(cmd[c].postings, work[c].account, cmd[c].kind)
      OBVIOUS
    <2>5. Answer(c, IF fault # "ok" THEN fault ELSE "replayed")
      BY <1>2, <2>2, <2>3, <2>4 DEF Replay, View
    <2>6. (IF fault # "ok" THEN fault ELSE "replayed") # "corrupt-journal"
      BY <1>b, <2>4
    <2> QED BY <2>5, <2>6, AnswerKeepsR
  <1>3. CASE Check(c)
    <2>1. PICK r \in Commands : r = cmd[c]
      BY <1>3 DEF Check, IInv, Typed
    <2>2. PICK fault : fault = Validate(r.postings, work[c].account, r.kind)
      OBVIOUS
    <2>3. pc[c] = "check" /\ Sound(work[c]) /\ r \in Posts
      BY <1>3, <1>c, <2>1 DEF Check, SnapshotOk, IInv, SnapshotInv, IsPost, Posts
    <2>4. CASE fault = "ok"
      <3>1. Goto(c, "total") /\ UNCHANGED <<db, work, cmd>> /\ read' = read
        BY <1>3, <2>1, <2>2, <2>4 DEF Check, ownVars, View
      <3>2. ValidEntry(r.postings, work[c].account)
        BY <2>2, <2>3, <2>4, ValidateIs, StoredFacts
      <3>3. SnapshotOk("total", cmd[c], work[c], read[c]) /\ WritesOk("total", cmd[c], db, work[c])
        BY <2>1, <2>3, <3>2 DEF SnapshotOk, WritesOk
      <3> QED BY <3>1, <3>3, GotoKeepsR, ReadStays
    <2>5. CASE fault # "ok"
      BY <1>3, <1>b, <2>1, <2>2, <2>5, AnswerKeepsR DEF Check, View
    <2> QED BY <2>4, <2>5
  <1>4. CASE CheckTotal(c)
    <2>1. pc[c] = "total" /\ Sound(work[c]) /\ ValidEntry(cmd[c].postings, work[c].account)
          /\ cmd[c].op = "post"
      BY <1>4, <1>c DEF CheckTotal, SnapshotOk, IInv, SnapshotInv, IsPost
    <2>2. CASE DebitTotal(work[c]) + Total(cmd[c].postings, "debit") <= MaxUnits
      <3>1. Goto(c, "insert") /\ UNCHANGED <<db, work, cmd>> /\ read' = read
        BY <1>4, <2>2 DEF CheckTotal, ownVars, View
      <3>2. Ready(cmd[c], work[c])
        BY <2>1, <2>2 DEF Ready, Fits
      <3>3. SnapshotOk("insert", cmd[c], work[c], read[c]) /\ WritesOk("insert", cmd[c], db, work[c])
        BY <2>1, <3>2 DEF SnapshotOk, WritesOk
      <3> QED BY <3>1, <3>3, GotoKeepsR, ReadStays
    <2>3. CASE ~(DebitTotal(work[c]) + Total(cmd[c].postings, "debit") <= MaxUnits)
      BY <1>4, <2>3, AnswerKeepsR DEF CheckTotal, View
    <2> QED BY <2>2, <2>3
  <1>5. CASE ReadEntries(c)
    <2>1. pc[c] = "entries" /\ Sound(work[c])
      BY <1>5, <1>c DEF ReadEntries, SnapshotOk
    <2>2. ~Corrupt(EntriesOf(work[c]), work[c].account)
      BY <1>0, <2>1, SoundIsNotCorrupt
    <2>3. CASE cmd[c].op = "journal"
      BY <1>5, <2>2, <2>3, AnswerKeepsR DEF ReadEntries, View
    <2>4. CASE cmd[c].op # "journal"
      <3>1. Goto(c, "sums") /\ UNCHANGED <<db, work, cmd>>
            /\ read' = [read EXCEPT ![c] = EntriesOf(work[c])]
        BY <1>5, <2>2, <2>4 DEF ReadEntries, View
      <3>2. /\ SnapshotOk("sums", cmd[c], work[c], EntriesOf(work[c]))
            /\ WritesOk("sums", cmd[c], db, work[c])
        BY <2>1 DEF SnapshotOk, WritesOk
      <3> QED BY <3>1, <3>2, GotoKeepsR
    <2> QED BY <2>3, <2>4
  <1>6. CASE ReadSums(c)
    <2>1. pc[c] = "sums" /\ Sound(work[c]) /\ read[c] = EntriesOf(work[c])
      BY <1>6, <1>c DEF ReadSums, SnapshotOk
    <2>2. SqlBalances(work[c]) = FoldJournal(read[c], work[c].account)
      BY <1>0, <2>1, BalancesAgree
    <2>3. Answer(c, "done")
      BY <1>6, <2>2 DEF ReadSums, View
    <2> QED BY <2>3, AnswerKeepsR
  <1> QED BY <1>1, <1>2, <1>3, <1>4, <1>5, <1>6

(* Every step of every invocation keeps it.                                *)
LEMMA NextRInv == IInv /\ RInv /\ [Next]_vars => RInv'
  <1> SUFFICES ASSUME IInv, RInv, [Next]_vars PROVE RInv'
    OBVIOUS
  <1>1. ASSUME NEW c \in Invocations, Work(c) PROVE RInv'
    <2>1. CASE MigrateCommit(c)
      BY <2>1, PublishKeepsR DEF MigrateCommit
    <2>2. CASE Commit(c)
      BY <2>2, PublishKeepsR DEF Commit
    <2>3. CASE PrintResult(c)
      BY <2>3, AnswerKeepsR DEF PrintResult
    <2> QED
      BY <1>1, <2>1, <2>2, <2>3, MigrateKeepsR, ReadingStepsKeepR, LookupKeepsR, InsertKeepsR,
         InsertLineKeepsR DEF Work
  <1>2. ASSUME NEW c \in Invocations, SqlFails(c) PROVE RInv'
    BY <1>2, AnswerKeepsR DEF SqlFails, Busy
  <1>3. ASSUME NEW c \in Invocations, Die(c) PROVE RInv'
    BY <1>3, EndKeepsR DEF Die
  <1>4. CASE UNCHANGED vars
    BY <1>4 DEF vars, ownVars, RInv, NothingCorrupt
  <1> QED BY <1>1, <1>2, <1>3, <1>4, InvokeKeepsR DEF Next

(* Both invariants together. *)
LEMMA LedgerInvariance == Spec => [](IInv /\ RInv)
  <1>1. Init => IInv /\ RInv
    BY InitIInv, InitRInv
  <1>2. IInv /\ RInv /\ [Next]_vars => (IInv /\ RInv)'
    BY NextIInv, NextRInv
  <1> QED BY <1>1, <1>2, PTL DEF Spec

(* However invocations interleave, fail, die and are repeated, `ledger     *)
(* rebuild verify` would find the committed file in order, and no command  *)
(* reports a corrupt journal.                                              *)
THEOREM CommittedJournalsRebuild == Spec => []JournalRebuilds
  <1>1. IInv /\ RInv => JournalRebuilds
    <2> SUFFICES ASSUME IInv, RInv PROVE JournalRebuilds
      OBVIOUS
    <2>1. db.txns \in Seq(Txns) /\ Sound(db)
      BY DEF IInv, Typed, IsDb, RInv
    <2>2. ~Corrupt(EntriesOf(db), db.account) /\ Cardinality(db.ledger) \in {0, 1}
      BY <2>1, SoundIsNotCorrupt
    <2>3. SqlBalances(db) = FoldJournal(EntriesOf(db), db.account)
      BY <2>1, BalancesAgree
    <2>4. Cardinality(db.ledger) <= 1
      BY <2>2
    <2> QED BY <2>2, <2>3, <2>4 DEF JournalRebuilds, RInv, NothingCorrupt
  <1> QED BY <1>1, LedgerInvariance, PTL

(* The debits of the committed journal, and every aggregate of one side of *)
(* an account, stay within MaxUnits.                                       *)
THEOREM NoAggregateOverflows == Spec => []AggregatesFit
  <1>1. IInv /\ RInv => AggregatesFit
    <2> SUFFICES ASSUME IInv, RInv PROVE AggregatesFit
      OBVIOUS
    <2>1. db.txns \in Seq(Txns) /\ Sound(db)
      BY DEF IInv, Typed, IsDb, RInv
    <2>2. ASSUME NEW a \in Accounts, NEW side \in {"debit", "credit"}
          PROVE  SumFunction([l \in {m \in db.lines : m.account = a /\ m.side = side}
                                |-> l.amount]) <= MaxUnits
      <3>1. PICK s : s = {m \in db.lines : m.account = a /\ m.side = side}
        OBVIOUS
      <3>2. SumFunction(Amounts(s)) <= MaxUnits
        BY <2>1, <3>1, SoundFits
      <3> QED BY <3>1, <3>2 DEF Amounts
    <2> QED BY <2>1, <2>2 DEF AggregatesFit, Sound
  <1> QED BY <1>1, LedgerInvariance, PTL

(***************************************************************************)
(* The book.  Its operators are those of LedgerDomain, and the journal of  *)
(* the mapping is the list of the payloads of the stored transactions.     *)
(***************************************************************************)
PayloadOf(t)  == [id |-> t.id, description |-> t.description, postings |-> Material(t)]
BookOf(txns)  == [n \in DOMAIN txns |-> PayloadOf(txns[n])]
Journal(d)    == [n \in DOMAIN d.txns |->
                   LET e == EntryOf(d, n)
                   IN  [id |-> e.id, description |-> e.description, postings |-> Payload(e)]]

(* The journal read back from a sound database is the list of its          *)
(* transactions.                                                           *)
LEMMA JournalIs ==
  ASSUME NEW d, d.txns \in Seq(Txns), Sound(d)
  PROVE  Journal(d) = BookOf(d.txns)
  <1>0. ASSUME NEW n \in DOMAIN d.txns
        PROVE  LET e == EntryOf(d, n) IN
               /\ e.id = d.txns[n].id /\ e.description = d.txns[n].description
               /\ Payload(e) = Material(d.txns[n])
    BY EntriesInOrder DEF InOrder
  <1>1. ASSUME NEW n \in DOMAIN d.txns, NEW e, e = EntryOf(d, n)
        PROVE  [id |-> e.id, description |-> e.description, postings |-> Payload(e)]
                 = PayloadOf(d.txns[n])
    <2>1. /\ e.id = d.txns[n].id /\ e.description = d.txns[n].description
          /\ Payload(e) = Material(d.txns[n])
      BY <1>0, <1>1
    <2> QED BY <2>1 DEF PayloadOf
  <1>2. PICK J : J = [n \in DOMAIN d.txns |-> PayloadOf(d.txns[n])]
    OBVIOUS
  <1>3. Journal(d) = J
    BY <1>1, <1>2 DEF Journal
  <1> QED BY <1>2, <1>3 DEF BookOf

(* The book sums as the ledger does,                                       *)
LEMMA BookSums ==
  ASSUME NEW f
  PROVE  Book!SumFunction(f) = SumFunction(f)
  BY DEF Book!SumFunction, SumFunction, Book!SumFunctionOnSet, SumFunctionOnSet,
         Book!FoldFunctionOnSet, FoldFunctionOnSet, Book!MapThenFoldSet, MapThenFoldSet

(* side by side.                                                           *)
LEMMA BookTotals ==
  ASSUME NEW ps, NEW side
  PROVE  Book!Total(ps, side) = Total(ps, side)
  BY BookSums DEF Book!Total, Total

(* The debits of a journal are the debits of its lines. *)
LEMMA BookDebits ==
  ASSUME NEW d, d.txns \in Seq(Txns), Sound(d)
  PROVE  Book!Debits(BookOf(d.txns)) = DebitTotal(d)
  <1>1. PICK J : J = BookOf(d.txns)
    OBVIOUS
  <1>2. DOMAIN J = DOMAIN d.txns /\ \A n \in DOMAIN d.txns : J[n].postings = Material(d.txns[n])
    BY <1>1 DEF BookOf, PayloadOf
  <1>3. PICK k : k = [n \in DOMAIN d.txns |-> Total(Material(d.txns[n]), "debit")]
    OBVIOUS
  <1>4. [n \in DOMAIN J |-> Book!Total(J[n].postings, "debit")] = k
    BY <1>2, <1>3, BookTotals
  <1>5. Book!Debits(J) = SumFunction(k)
    BY <1>4, BookSums DEF Book!Debits
  <1>6. SumFunction(k) = SumFunctionOnSet(k, DOMAIN d.txns)
    BY <1>3 DEF SumFunction
  <1>7. DebitTotal(d) = SumFunctionOnSet(k, DOMAIN d.txns)
    BY <1>3, SideTotals, DebitTotalIs DEF Sound
  <1> QED BY <1>1, <1>5, <1>6, <1>7

(* A ledger without rows is an empty book.                                 *)
LEMMA BookMap == Book!Init <=> /\ db.ledger = {}
                               /\ db.account = [a \in Accounts |-> None]
                               /\ Journal(db) = <<>>
  BY DEF Book!Init, Journal

(* The steps of the book, said of the tables.                              *)
LEMMA BookSteps ==
  /\ Book!book = <<db.ledger, db.account, Journal(db)>>
  /\ Book!Open <=> /\ db.ledger = {}
                   /\ \E id \in LedgerIds : (db.ledger)' = {id}
                   /\ UNCHANGED <<db.account, Journal(db)>>
  /\ \A a : Book!AddAccount(a) <=>
       /\ db.ledger # {} /\ db.account[a] = None
       /\ \E type \in Types : (db.account)' = [db.account EXCEPT ![a] = type]
       /\ UNCHANGED <<db.ledger, Journal(db)>>
  BY DEF Book!book, Journal, Book!Open, Book!AddAccount, Book!Types, Types

(* The conditions of an entry, for the last entry of the new journal. *)
LEMMA BookEnters ==
  ASSUME NEW e, e = Journal(db')[Len(Journal(db'))],
         DOMAIN Journal(db') # DOMAIN Journal(db),
         Journal(db) = SubSeq(Journal(db'), 1, Len(Journal(db')) - 1),
         \A n \in DOMAIN Journal(db) : Journal(db)[n].id # e.id,
         \A i \in DOMAIN e.postings : /\ e.postings[i].amount > 0
                                      /\ db.account[e.postings[i].account] # None,
         Total(e.postings, "debit") = Total(e.postings, "credit"),
         Book!Debits(Journal(db')) <= MaxUnits,
         UNCHANGED <<db.ledger, db.account>>
  PROVE  Book!Enter
  <1>1. Book!Total(e.postings, "debit") = Book!Total(e.postings, "credit")
    BY BookTotals
  <1> QED BY <1>1 DEF Book!Enter, Journal

(* Committing a post enters it in the book. *)
LEMMA PostEnters ==
  ASSUME IInv, RInv, IInv', RInv', NEW c \in Invocations, Commit(c), IsPost(c)
  PROVE  Book!Enter
  <1>1. PICK r \in Posts : r = cmd[c]
    BY DEF Commit, IInv, Typed, IsPost, Posts
  <1>2. /\ pc[c] = "commit" /\ db' = work[c]
    BY DEF Commit, Publish
  <1>3. /\ Fits(r, db) /\ HasLines(r, db, db', Len(r.postings))
    BY <1>1, <1>2 DEF RInv, WritesOk, IsEntered, Ready, IsPost
  <1>4. Absent(db.txns, r.id) /\ db'.txns = Append(db.txns, Stored(r))
    BY <1>1, <1>2 DEF IInv, LockInv
  <1>5. Sound(db) /\ Sound(db') /\ db.txns \in Seq(Txns) /\ db'.txns \in Seq(Txns)
    BY DEF IInv, Typed, IsDb, RInv
  <1>6. PICK t \in Txns : t = Stored(r) /\ t.id = r.id /\ Material(t) = r.postings
                          /\ Size(t) = Len(r.postings)
    BY StoredFacts
  <1>7. PICK txns \in Seq(Txns), all \in Seq(Txns) : txns = db.txns /\ all = db'.txns
    BY <1>5
  <1>8. PICK J, K : J = BookOf(txns) /\ K = BookOf(all)
    OBVIOUS
  <1>9. Journal(db) = J /\ Journal(db') = K
    BY <1>5, <1>7, <1>8, JournalIs
  <1>10. PICK N \in Nat : N = Len(txns)
    OBVIOUS
  <1>11. /\ DOMAIN all = 1..(N + 1) /\ DOMAIN txns = 1..N /\ all[N + 1] = t
         /\ \A n \in 1..N : all[n] = txns[n]
    BY <1>4, <1>6, <1>7, <1>10, AppendedLines
  <1>12. /\ DOMAIN K = 1..(N + 1) /\ DOMAIN J = 1..N /\ K[N + 1] = PayloadOf(t)
         /\ \A n \in 1..N : K[n] = J[n] /\ J[n] = PayloadOf(txns[n])
    <2>1. DOMAIN K = 1..(N + 1) /\ DOMAIN J = 1..N
      BY <1>8, <1>11 DEF BookOf
    <2>2. /\ \A n \in 1..(N + 1) : K[n] = PayloadOf(all[n])
          /\ \A n \in 1..N : J[n] = PayloadOf(txns[n])
      BY <1>8, <1>11 DEF BookOf
    <2>3. N + 1 \in 1..(N + 1) /\ 1..N \subseteq 1..(N + 1)
      OBVIOUS
    <2> QED BY <1>11, <2>1, <2>2, <2>3
  <1>13. Len(K) = N + 1 /\ K \in Seq({PayloadOf(x) : x \in Txns})
    <2>1. PICK S : S = {PayloadOf(x) : x \in Txns}
      OBVIOUS
    <2>2. K \in [1..(N + 1) -> S]
      BY <1>8, <1>11, <2>1 DEF BookOf
    <2>3. K \in Seq(S)
      BY <2>2
    <2> QED BY <1>12, <2>1, <2>3
  <1>14. J = SubSeq(K, 1, Len(K) - 1)
    <2>1. PICK M \in Nat : M = N + 1 /\ Len(K) = M /\ M - 1 = N
      BY <1>13
    <2>2. SubSeq(K, 1, N) = [i \in 1..N |-> K[i]]
      BY <1>13, <2>1
    <2>3. J = [i \in 1..N |-> J[i]]
      BY <1>8, <1>11 DEF BookOf
    <2>4. J = SubSeq(K, 1, N)
      BY <1>12, <2>2, <2>3
    <2> QED BY <2>1, <2>4
  <1>15. PICK e : e = PayloadOf(t)
    OBVIOUS
  <1>16. e.id = r.id /\ e.postings = r.postings
    BY <1>6, <1>15 DEF PayloadOf
  <1>17. \A n \in DOMAIN J : J[n].id # e.id
    BY <1>4, <1>7, <1>11, <1>12, <1>16 DEF PayloadOf, Absent
  <1>18. /\ \A i \in DOMAIN e.postings : /\ e.postings[i].amount > 0
                                         /\ db.account[e.postings[i].account] # None
         /\ Total(e.postings, "debit") = Total(e.postings, "credit")
    <2>1. DOMAIN r.postings = 1..Len(r.postings)
      BY <1>1, StoredFacts
    <2> QED BY <1>3, <1>16, <2>1 DEF Fits, ValidEntry
  <1>19. Book!Debits(K) <= MaxUnits
    <2>1. Book!Debits(K) = DebitTotal(db')
      BY <1>5, <1>7, <1>8, BookDebits
    <2> QED BY <1>5, <2>1 DEF Sound
  <1>20. UNCHANGED <<db.ledger, db.account>>
    BY <1>3 DEF HasLines
  <1>21. e = K[Len(K)]
    BY <1>12, <1>13, <1>15
  <1>22. DOMAIN K # DOMAIN J
    <2>1. N + 1 \in 1..(N + 1) /\ N + 1 \notin 1..N
      OBVIOUS
    <2> QED BY <1>12, <2>1
  <1> QED BY <1>9, <1>14, <1>17, <1>18, <1>19, <1>20, <1>21, <1>22, BookEnters

(* A COMMIT opens the book, adds an account, enters one balanced post, or  *)
(* changes none of it.                                                     *)
LEMMA CommitKeepsBook ==
  ASSUME IInv, RInv, IInv', RInv', NEW c \in Invocations, Commit(c)
  PROVE  Book!Next
  <1>1. PICK r \in Commands : r = cmd[c]
    BY DEF Commit, IInv, Typed
  <1>2. pc[c] = "commit" /\ db' = work[c]
    BY DEF Commit, Publish
  <1>3. Ready(r, db) /\ IsEntered(r, db, db') /\ r.op \in {"init", "account", "post"}
    BY <1>1, <1>2 DEF RInv, WritesOk
  <1>4. db'.txns = db.txns => Journal(db') = Journal(db)
    BY JournalIs DEF IInv, Typed, IsDb, RInv
  <1>5. CASE r.op = "init"
    <2>1. r.id \in LedgerIds
      BY <1>5, CommandsAssumption
    <2>2. Book!Open
      BY <1>3, <1>4, <1>5, <2>1, BookSteps DEF IsEntered, Ready
    <2> QED BY <2>2 DEF Book!Next
  <1>6. CASE r.op = "account"
    <2>1. r.id \in Accounts /\ r.type \in Types
      BY <1>6, CommandsAssumption
    <2>2. Book!AddAccount(r.id)
      BY <1>3, <1>4, <1>6, <2>1, BookSteps DEF IsEntered, Ready
    <2> QED BY <2>1, <2>2 DEF Book!Next
  <1>7. CASE r.op = "post"
    BY <1>1, <1>7, PostEnters DEF IsPost, Book!Next
  <1> QED BY <1>3, <1>5, <1>6, <1>7

(* No other step changes what the book is about. *)
LEMMA NextBook ==
  ASSUME IInv, RInv, IInv', RInv', [Next]_vars
  PROVE  [Book!Next]_(Book!book)
  <1>0. /\ Book!book = <<db.ledger, db.account, Journal(db)>>
        /\ (Book!book)' = <<db'.ledger, db'.account, Journal(db')>>
    BY DEF Book!book, Journal
  <1>1. ASSUME db' = db PROVE UNCHANGED Book!book
    BY <1>0, <1>1
  <1>2. ASSUME NEW c \in Invocations, MigrateCommit(c) PROVE UNCHANGED Book!book
    <2>1. pc[c] = "migrateCommit" /\ db' = work[c]
      BY <1>2 DEF MigrateCommit, Publish
    <2>2. SameBook(db', db)
      BY <2>1 DEF RInv, WritesOk
    <2>3. Journal(db') = Journal(db)
      BY <2>2, JournalIs DEF SameBook, IInv, Typed, IsDb, RInv
    <2> QED BY <1>0, <2>2, <2>3 DEF SameBook
  <1>3. ASSUME NEW c \in Invocations, Work(c), ~MigrateCommit(c), ~Commit(c) PROVE db' = db
    <2>1. \A o : Answer(c, o) => db' = db
      BY DEF Answer
    <2> QED BY <1>3, <2>1 DEF Work, MigrateTables, MigrateRow, GetLedger, Lookup, Replay,
          Check, CheckTotal, Insert, InsertLine, PrintResult, ReadEntries, ReadSums, Busy
  <1>4. ASSUME NEW c \in Invocations, SqlFails(c) \/ Die(c) \/ \E r \in Commands : Invoke(c, r)
        PROVE  db' = db
    BY <1>4 DEF SqlFails, Busy, Answer, Die, Invoke
  <1>5. CASE UNCHANGED vars
    BY <1>1, <1>5 DEF vars
  <1> QED BY <1>1, <1>2, <1>3, <1>4, <1>5, CommitKeepsBook DEF Next

(* The ledger implements the append-only book: every commit of a command   *)
(* opens it, adds an account or enters one balanced post, and nothing else *)
(* changes it.                                                             *)
THEOREM LedgerKeepsTheBook == Spec => KeepsTheBook
  <1>1. Init => Book!Init
    <2>1. Init => Journal(db) = <<>>
      BY DEF Init, EmptyDb, Journal
    <2> QED BY <2>1, BookMap DEF Init, EmptyDb
  <1>2. IInv /\ RInv /\ (IInv /\ RInv)' /\ [Next]_vars => [Book!Next]_(Book!book)
    BY NextBook
  <1> QED BY <1>1, <1>2, LedgerInvariance, PTL DEF Spec, KeepsTheBook, Book!Spec

============================================================================
