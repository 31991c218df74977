--------------------------- MODULE TransferProofs ---------------------------
(***************************************************************************)
(* Proofs about TransferService for any number of accounts, processes and  *)
(* fibers, any opening balances and amounts and any results of a handler;  *)
(* then about VersionCutover, as the evolution journey and its rivals use  *)
(* it, for any number of operators, services and digests, and about the    *)
(* journey that composes it with the transfer service.                     *)
(***************************************************************************)
EXTENDS EvolutionJourney, FiniteSums

CreateSteps   == {"createCheck", "createInsert", "createPublish", "createRead"}
TransferSteps == {"begin"} \cup TxSteps \cup AfterSteps
Checked       == {"updateSource", "updateTarget", "commit"}
Writing       == {"updateTarget", "commit"}

(* A fiber's request fits its step, and it has moved money exactly while   *)
(* it is between its COMMIT and its answer.                                *)
RequestInv == \A f \in Fibers :
  /\ pc[f] = "query" => req[f] \in Queries
  /\ pc[f] \in CreateSteps => req[f] \in Creates
  /\ pc[f] \in TransferSteps => req[f] \in Transfers
  /\ f \in moved <=> pc[f] \in AfterSteps

(* A transaction holds the connection of its process; what it has read is  *)
(* an admissible pair, still committed while its snapshot is current; the  *)
(* balances it is about to write satisfy the obligation; and once it has   *)
(* written it holds the lock with a current snapshot.                      *)
TxInv == \A f \in Fibers :
  /\ pc[f] \in TxSteps => conn[Home[f]] = f
  /\ pc[f] \in Holding => /\ tx[f] \in Pairs
                          /\ req[f].source # req[f].target
                          /\ 0 < req[f].amount
                          /\ req[f].amount <= tx[f].source.balance
  /\ pc[f] \in AfterSteps => tx[f] \in Pairs
  /\ f \in fresh => /\ pc[f] \in Holding
                    /\ tx[f].source = rows[req[f].source]
                    /\ tx[f].target = rows[req[f].target]
  /\ pc[f] \in Checked => /\ Obligation(tx[f], req[f].amount, tx[f].after)
                          /\ tx[f].after[1] >= 0 /\ tx[f].after[2] >= 0
  /\ pc[f] \in Writing => f \in fresh /\ wlock = Home[f]

(* The inductive invariant.  The outcome tells the truth because a request *)
(* has moved money only past its COMMIT (RequestInv); the COMMIT moves     *)
(* money because the pair it overwrites is the pair it read (TxInv).       *)
IInv == TypeOK /\ RequestInv /\ TxInv /\ OutcomeTellsTruth

USE CallersAssumption, NoneAssumption
USE DEF Steps, TxSteps, AfterSteps, CreateSteps, TransferSteps, Holding, Checked, Writing

(* The initial state satisfies the invariant. *)
LEMMA InitIInv == Init => IInv
  BY DEF Init, IInv, TypeOK, RequestInv, TxInv, OutcomeTellsTruth

(* Only a transfer has an amount. *)
LEMMA QueriesAreNoTransfers == ASSUME NEW r \in Queries PROVE ~IsTransfer(r)
  BY DEF Queries, IsTransfer

(* The opening of an account is not a transfer.                            *)
LEMMA CreatesAreNoTransfers == ASSUME NEW r \in Creates PROVE ~IsTransfer(r)
  BY DEF Creates, IsTransfer

(* Accepting a query changes the request alone. *)
LEMMA StartQueryKeeps ==
  ASSUME IInv, NEW f \in Fibers, NEW topic \in Topics, StartQuery(f, topic)
  PROVE  IInv'
  <1> USE DEF IInv, txVars, ConnFree, StartQuery, Start, Goto, Queries
  <1>1. TypeOK'
    BY DEF TypeOK, RequestInv, Requests
  <1>2. RequestInv'
    BY DEF TypeOK, RequestInv
  <1>3. TxInv'
    BY DEF TypeOK, RequestInv, TxInv
  <1>4. OutcomeTellsTruth'
    BY DEF OutcomeTellsTruth
  <1> QED BY <1>1, <1>2, <1>3, <1>4

(* Accepting a create changes the request alone. *)
LEMMA StartCreateKeeps ==
  ASSUME IInv, NEW f \in Fibers, NEW a \in Accounts, NEW b \in Int,
         StartCreate(f, a, b)
  PROVE  IInv'
  <1> USE DEF IInv, txVars, ConnFree, StartCreate, Start, Goto, Creates
  <1>1. TypeOK'
    BY DEF TypeOK, RequestInv, Requests
  <1>2. RequestInv'
    BY DEF TypeOK, RequestInv
  <1>3. TxInv'
    BY DEF TypeOK, RequestInv, TxInv
  <1>4. OutcomeTellsTruth'
    BY DEF OutcomeTellsTruth
  <1> QED BY <1>1, <1>2, <1>3, <1>4

(* Accepting a transfer changes the request alone. *)
LEMMA StartTransferKeeps ==
  ASSUME IInv, NEW f \in Fibers, NEW a \in Accounts, NEW b \in Accounts,
         NEW n \in Int,
         StartTransfer(f, a, b, n)
  PROVE  IInv'
  <1> USE DEF IInv, txVars, ConnFree, StartTransfer, Start, Goto, Transfers
  <1>1. TypeOK'
    BY DEF TypeOK, RequestInv, Requests
  <1>2. RequestInv'
    BY DEF TypeOK, RequestInv
  <1>3. TxInv'
    BY DEF TypeOK, RequestInv, TxInv
  <1>4. OutcomeTellsTruth'
    BY DEF OutcomeTellsTruth
  <1> QED BY <1>1, <1>2, <1>3, <1>4

(* An answer outside a transaction ends the request alone. *)
LEMMA AnswerKeeps ==
  ASSUME IInv, NEW f \in Fibers, NEW o \in Failures \cup {"ok"}, NEW seen,
         pc[f] \notin TxSteps \cup {"idle"}, Answer(f, o, seen),
         UNCHANGED <<rows, opened, txVars, sub>>,
         o = "ok" => f \in moved \/ ~IsTransfer(req[f]),
         o \notin {"ok", "unavailable"} => f \notin moved
  PROVE  IInv'
  <1> USE DEF IInv, txVars, ConnFree, Answer, Failures, Rejections
  <1>1. TypeOK'
    BY DEF TypeOK, RequestInv, Requests
  <1>2. RequestInv'
    BY DEF TypeOK, RequestInv
  <1>3. TxInv'
    BY DEF TypeOK, RequestInv, TxInv
  <1>4. OutcomeTellsTruth'
    BY DEF OutcomeTellsTruth
  <1> QED BY <1>1, <1>2, <1>3, <1>4

(* A rollback releases what the transaction held. *)
LEMMA RollbackKeeps ==
  ASSUME IInv, NEW f \in Fibers, pc[f] \in TxSteps,
         NEW o \in (Rejections \cup Failures) \ {"unavailable"}, Rollback(f, o)
  PROVE  IInv'
  <1> USE DEF IInv, txVars, ConnFree, Rollback, Fail, Answer, Failures, Rejections
  <1>1. TypeOK'
    BY DEF TypeOK, RequestInv, Requests
  <1>2. RequestInv'
    BY DEF TypeOK, RequestInv
  <1>3. TxInv'
    BY DEF TypeOK, RequestInv, TxInv
  <1>4. OutcomeTellsTruth'
    BY DEF OutcomeTellsTruth, RequestInv
  <1> QED BY <1>1, <1>2, <1>3, <1>4

(* A step that only advances a request outside its transaction. *)
LEMMA AdvanceKeeps ==
  ASSUME IInv, NEW f \in Fibers, NEW step,
         \/ pc[f] = "createCheck" /\ step = "createInsert"
         \/ pc[f] = "createPublish" /\ step = "createRead"
         \/ pc[f] = "publish" /\ step = "readTarget"
         \/ pc[f] = "readTarget" /\ step = "readSource"
         \/ pc[f] = "readSource" /\ step = "readTotal",
         Goto(f, step), UNCHANGED <<rows, opened, txVars, req, tx, moved>>
  PROVE  IInv'
  <1> USE DEF IInv, txVars, ConnFree, Goto
  <1>1. TypeOK'
    BY DEF TypeOK, RequestInv, Requests
  <1>2. RequestInv'
    BY DEF TypeOK, RequestInv
  <1>3. TxInv'
    BY DEF TypeOK, RequestInv, TxInv
  <1>4. OutcomeTellsTruth'
    BY DEF OutcomeTellsTruth
  <1> QED BY <1>1, <1>2, <1>3, <1>4

(* A row read for the answer is kept beside the pair, past the COMMIT. *)
LEMMA ShowKeeps ==
  ASSUME IInv, NEW f \in Fibers, NEW step,
         \/ /\ pc[f] = "readTarget" /\ step = "readSource"
            /\ tx' = [tx EXCEPT ![f].shownTarget = rows[req[f].target]]
         \/ /\ pc[f] = "readSource" /\ step = "readTotal"
            /\ tx' = [tx EXCEPT ![f].shownSource = rows[req[f].source]],
         Goto(f, step), UNCHANGED <<rows, opened, txVars, req, moved>>
  PROVE  IInv'
  <1> USE DEF IInv, txVars, ConnFree, Goto
  <1>1. tx[f] \in Pairs /\ req[f] \in Transfers /\ f \notin fresh /\ tx \in [Fibers -> Pairs \cup {None}]
    BY DEF TypeOK, RequestInv, TxInv
  <1>2. rows[req[f].target] \in Row \cup {NoRow} /\ rows[req[f].source] \in Row \cup {NoRow}
    BY <1>1 DEF TypeOK, Transfers
  <1>3. tx' \in [Fibers -> Pairs \cup {None}] /\ tx'[f] \in Pairs /\ \A g \in Fibers \ {f} : tx'[g] = tx[g]
    BY <1>1, <1>2 DEF Pairs
  <1>4. TypeOK'
    BY <1>3 DEF TypeOK, RequestInv, Requests
  <1>5. RequestInv'
    BY DEF TypeOK, RequestInv
  <1>6. TxInv'
    BY <1>1, <1>3 DEF TypeOK, RequestInv, TxInv
  <1>7. OutcomeTellsTruth'
    BY DEF OutcomeTellsTruth
  <1> QED BY <1>4, <1>5, <1>6, <1>7

(* The INSERT opens an account nobody has read, while nobody writes. *)
LEMMA InsertKeeps ==
  ASSUME IInv, NEW f \in Fibers, NEW a \in Accounts, NEW b \in Nat,
         pc[f] = "createInsert", wlock = None, rows[a] = NoRow,
         rows' = [rows EXCEPT ![a] = [balance |-> b, revision |-> 0]],
         opened' = [opened EXCEPT ![a] = b], fresh' = {},
         Goto(f, "createPublish"), UNCHANGED <<req, tx, moved, wlock, conn>>
  PROVE  IInv'
  <1> USE DEF IInv, txVars, ConnFree, Goto, Row
  <1>1. TypeOK'
    BY DEF TypeOK, RequestInv, Requests
  <1>2. RequestInv'
    BY DEF TypeOK, RequestInv
  <1>3. TxInv'
    BY DEF TypeOK, RequestInv, TxInv
  <1>4. OutcomeTellsTruth'
    BY DEF OutcomeTellsTruth
  <1> QED BY <1>1, <1>2, <1>3, <1>4

(* BEGIN takes a free connection. *)
LEMMA BeginKeeps ==
  ASSUME IInv, NEW f \in Fibers, Begin(f)
  PROVE  IInv'
  <1> USE DEF IInv, txVars, ConnFree, Begin, Goto
  <1>1. TypeOK'
    BY DEF TypeOK, RequestInv, Requests
  <1>2. RequestInv'
    BY DEF TypeOK, RequestInv
  <1>3. TxInv'
    BY DEF TypeOK, RequestInv, TxInv
  <1>4. OutcomeTellsTruth'
    BY DEF OutcomeTellsTruth
  <1> QED BY <1>1, <1>2, <1>3, <1>4

(* The transaction's reads admit the pair. *)
LEMMA ReadPairKeeps ==
  ASSUME IInv, NEW f \in Fibers, ReadPair(f)
  PROVE  IInv'
  <1> USE DEF IInv, txVars
  <1> DEFINE r == req[f]
             pair == [source |-> rows[r.source], target |-> rows[r.target],
                      after |-> <<0, 0>>, shownTarget |-> NoRow, shownSource |-> NoRow]
  <1>1. /\ pc[f] = "read" /\ r \in Transfers
        /\ tx' = [tx EXCEPT ![f] = pair] /\ fresh' = fresh \cup {f}
        /\ pc' = [pc EXCEPT ![f] = "handler"] /\ reply' = None
        /\ UNCHANGED <<rows, opened, wlock, conn, req, moved>>
    BY DEF ReadPair, Goto, RequestInv
  <1>2. /\ r.source \in Accounts /\ r.target \in Accounts /\ r.amount \in Int
        /\ rows[r.source] \in Row /\ rows[r.target] \in Row
        /\ r.source # r.target /\ 0 < r.amount
        /\ r.amount <= rows[r.source].balance
    <2>1. /\ rows[r.source] # NoRow /\ rows[r.target] # NoRow
          /\ r.source # r.target /\ ~(r.amount <= 0)
          /\ ~(rows[r.source].balance < r.amount)
      BY DEF ReadPair, Refusal, Rejections, Failures
    <2> QED BY <1>1, <2>1 DEF TypeOK, Transfers, Row
  <1>3. pair \in Pairs /\ pair.source = rows[r.source] /\ pair.target = rows[r.target]
    BY <1>2 DEF Pairs
  <1> HIDE DEF pair
  <1>4. TypeOK'
    BY <1>1, <1>3 DEF TypeOK
  <1>5. RequestInv'
    BY <1>1 DEF TypeOK, RequestInv
  <1>6. TxInv'
    BY <1>1, <1>2, <1>3 DEF TypeOK, TxInv
  <1>7. OutcomeTellsTruth'
    BY <1>1 DEF OutcomeTellsTruth
  <1> QED BY <1>4, <1>5, <1>6, <1>7

(* The first UPDATE takes the write lock with a current snapshot. *)
LEMMA UpdateSourceKeeps ==
  ASSUME IInv, NEW f \in Fibers, UpdateSource(f)
  PROVE  IInv'
  <1> USE DEF IInv, txVars, ConnFree, UpdateSource, CanWrite, Goto
  <1>1. TypeOK'
    BY DEF TypeOK, RequestInv, Requests
  <1>2. RequestInv'
    BY DEF TypeOK, RequestInv
  <1>3. TxInv'
    BY DEF TypeOK, RequestInv, TxInv
  <1>4. OutcomeTellsTruth'
    BY DEF OutcomeTellsTruth
  <1> QED BY <1>1, <1>2, <1>3, <1>4

(* The second UPDATE holds the lock already. *)
LEMMA UpdateTargetKeeps ==
  ASSUME IInv, NEW f \in Fibers, UpdateTarget(f)
  PROVE  IInv'
  <1> USE DEF IInv, txVars, ConnFree, UpdateTarget, Goto
  <1>1. TypeOK'
    BY DEF TypeOK, RequestInv, Requests
  <1>2. RequestInv'
    BY DEF TypeOK, RequestInv
  <1>3. TxInv'
    BY DEF TypeOK, RequestInv, TxInv
  <1>4. OutcomeTellsTruth'
    BY DEF OutcomeTellsTruth
  <1> QED BY <1>1, <1>2, <1>3, <1>4

(* What COMMIT writes: two other rows, by the amount of the transfer. *)
LEMMA CommitMoves ==
  ASSUME IInv, NEW f \in Fibers, Commit(f)
  PROVE  LET a == req[f].source
             b == req[f].target
             n == req[f].amount IN
         /\ a \in Accounts /\ b \in Accounts /\ a # b
         /\ rows[a] \in Row /\ rows[b] \in Row
         /\ n \in 1..rows[a].balance
         /\ rows' = [rows EXCEPT
              ![a] = [balance |-> rows[a].balance - n, revision |-> rows[a].revision + 1],
              ![b] = [balance |-> rows[b].balance + n, revision |-> rows[b].revision + 1]]
  <1> DEFINE a == req[f].source
             b == req[f].target
             n == req[f].amount
  <1>1. /\ pc[f] = "commit" /\ req[f] \in Transfers /\ f \in fresh /\ tx[f] \in Pairs
        /\ a # b /\ 0 < n /\ n <= tx[f].source.balance
        /\ tx[f].source = rows[a] /\ tx[f].target = rows[b]
        /\ tx[f].after[1] = tx[f].source.balance - n
        /\ tx[f].after[2] = tx[f].target.balance + n
    BY DEF IInv, Commit, RequestInv, TxInv, Obligation
  <1>2. /\ a \in Accounts /\ b \in Accounts /\ n \in Int
        /\ rows[a] \in Row /\ rows[b] \in Row
    BY <1>1 DEF Transfers, Pairs
  <1>3. n \in 1..rows[a].balance
    BY <1>1, <1>2 DEF Row
  <1>4. rows' = [rows EXCEPT ![a] = Updated(rows[a], tx[f].after[1]),
                             ![b] = Updated(rows[b], tx[f].after[2])]
    BY DEF Commit
  <1>5. /\ Updated(rows[a], tx[f].after[1]) =
             [balance |-> rows[a].balance - n, revision |-> rows[a].revision + 1]
        /\ Updated(rows[b], tx[f].after[2]) =
             [balance |-> rows[b].balance + n, revision |-> rows[b].revision + 1]
    BY <1>1 DEF Updated
  <1> QED BY <1>1, <1>2, <1>3, <1>4, <1>5

(* COMMIT writes the pair of the only transaction that writes. *)
LEMMA CommitKeeps ==
  ASSUME IInv, NEW f \in Fibers, Commit(f)
  PROVE  IInv'
  <1> USE DEF IInv, txVars
  <1>1. TypeOK'
    <2>1. rows' \in [Accounts -> Row \cup {NoRow}]
      <3> DEFINE a == req[f].source
                 b == req[f].target
                 n == req[f].amount
                 x == [balance |-> rows[a].balance - n, revision |-> rows[a].revision + 1]
                 y == [balance |-> rows[b].balance + n, revision |-> rows[b].revision + 1]
      <3>1. /\ rows[a] \in Row /\ rows[b] \in Row /\ n \in 1..rows[a].balance
            /\ rows' = [rows EXCEPT ![a] = x, ![b] = y]
        BY CommitMoves
      <3>2. x \in Row /\ y \in Row
        BY <3>1 DEF Row
      <3> HIDE DEF a, b, n, x, y
      <3> QED BY <3>1, <3>2 DEF TypeOK
    <2> QED BY <2>1 DEF TypeOK, Commit, Goto
  <1>2. RequestInv'
    BY DEF Commit, Goto, TypeOK, RequestInv
  <1>3. TxInv'
    BY DEF Commit, Goto, TypeOK, TxInv
  <1>4. OutcomeTellsTruth'
    BY DEF Commit, Goto, OutcomeTellsTruth
  <1> QED BY <1>1, <1>2, <1>3, <1>4

(* A crash drops what the process held in memory. *)
LEMMA CrashKeeps ==
  ASSUME IInv, NEW p \in Procs, Crash(p)
  PROVE  IInv'
  <1> USE DEF IInv, txVars, ConnFree, Crash
  <1>1. TypeOK'
    BY DEF TypeOK, RequestInv, Requests
  <1>2. RequestInv'
    BY DEF TypeOK, RequestInv
  <1>3. TxInv'
    BY DEF TypeOK, RequestInv, TxInv
  <1>4. OutcomeTellsTruth'
    BY DEF OutcomeTellsTruth
  <1> QED BY <1>1, <1>2, <1>3, <1>4

(* The handler's result satisfies the obligation, or the transaction ends. *)
LEMMA HandlerKeeps ==
  ASSUME IInv, NEW f \in Fibers, Handler(f)
  PROVE  IInv'
  <1>1. PICK after \in HandlerResults :
          IF ~Obligation(tx[f], req[f].amount, after) THEN Rollback(f, "conformance")
          ELSE IF after[1] < 0 \/ after[2] < 0 THEN Rollback(f, "invariant")
          ELSE /\ tx' = [tx EXCEPT ![f].after = after]
               /\ Goto(f, "updateSource")
               /\ UNCHANGED <<rows, opened, txVars, req, moved, sub>>
    BY DEF Handler
  <1>2. /\ pc[f] = "handler" /\ after \in Int \X Int
        /\ after[1] \in Int /\ after[2] \in Int
    BY CallersAssumption DEF Handler
  <1>3. CASE ~Obligation(tx[f], req[f].amount, after) \/ after[1] < 0 \/ after[2] < 0
    BY <1>1, <1>2, <1>3, RollbackKeeps DEF Failures
  <1>4. CASE Obligation(tx[f], req[f].amount, after) /\ after[1] >= 0 /\ after[2] >= 0
    <2> USE DEF IInv, txVars
    <2> DEFINE t == [tx[f] EXCEPT !.after = after]
    <2>1. tx[f] \in Pairs
      BY <1>2 DEF TxInv
    <2>2. /\ t \in Pairs /\ t.source = tx[f].source /\ t.target = tx[f].target
          /\ t.after = after
      BY <1>2, <2>1 DEF Pairs
    <2>3. Obligation(t, req[f].amount, after)
      BY <1>4, <2>2 DEF Obligation
    <2>4. tx' = [tx EXCEPT ![f] = t]
      BY <1>1, <1>2, <1>4
    <2>5. /\ pc' = [pc EXCEPT ![f] = "updateSource"] /\ reply' = None
          /\ UNCHANGED <<rows, opened, wlock, conn, fresh, req, moved>>
      BY <1>1, <1>2, <1>4 DEF Goto
    <2> HIDE DEF t
    <2>6. TypeOK'
      BY <2>2, <2>4, <2>5 DEF TypeOK
    <2>7. RequestInv'
      BY <1>2, <2>5 DEF TypeOK, RequestInv
    <2>8. TxInv'
      BY <1>2, <1>4, <2>2, <2>3, <2>4, <2>5
         DEF TypeOK, TxInv
    <2>9. OutcomeTellsTruth'
      BY <2>5 DEF OutcomeTellsTruth
    <2> QED BY <2>6, <2>7, <2>8, <2>9
  <1> QED BY <1>2, <1>3, <1>4

(* The steps of a subscription touch nothing but the subscription. *)
SubStep(w) ==
  \/ \E topic \in Topics : Subscribe(w, topic)
  \/ SubRead(w) \/ SubFails(w) \/ SubEmit(w)

(* What a subscription does changes no request and no row.                 *)
LEMMA SubStepKeeps ==
  ASSUME IInv, NEW w \in Watchers, SubStep(w)
  PROVE  IInv'
  <1>1. reply' = None /\ UNCHANGED <<rows, opened, txVars, pc, req, tx, moved>>
    BY DEF SubStep, Subscribe, SubRead, SubFails, SubEmit, SetSub
  <1> QED
    BY <1>1 DEF IInv, TypeOK, RequestInv, TxInv, OutcomeTellsTruth, txVars

(* The steps of a request that only answers or advances. *)
LEMMA SimpleStepsKeep ==
  ASSUME IInv, NEW f \in Fibers,
         \/ Query(f) \/ CreateCheck(f) \/ CreatePublish(f) \/ CreateRead(f)
         \/ Publish(f) \/ ReadTarget(f) \/ ReadSource(f) \/ ReadTotal(f)
  PROVE  IInv'
  <1> USE DEF Fail, Failures
  <1>1. CASE Query(f)
    <2>1. req[f] \in Queries /\ f \notin moved
      BY <1>1 DEF Query, IInv, RequestInv
    <2> QED BY <1>1, <2>1, QueriesAreNoTransfers, AnswerKeeps DEF Query
  <1>2. CASE CreateCheck(f)
    <2>1. f \notin moved
      BY <1>2 DEF CreateCheck, IInv, RequestInv
    <2> QED BY <1>2, <2>1, AnswerKeeps, AdvanceKeeps DEF CreateCheck
  <1>3. CASE CreateRead(f)
    <2>1. req[f] \in Creates
      BY <1>3 DEF CreateRead, IInv, RequestInv
    <2> QED BY <1>3, <2>1, CreatesAreNoTransfers, AnswerKeeps DEF CreateRead
  <1>4. CASE ReadTotal(f)
    <2>1. f \in moved
      BY <1>4 DEF ReadTotal, IInv, RequestInv
    <2> QED BY <1>4, <2>1, AnswerKeeps DEF ReadTotal
  <1>5. CASE CreatePublish(f) \/ Publish(f)
    BY <1>5, AdvanceKeeps DEF CreatePublish, Publish
  <1>6. CASE ReadTarget(f)
    BY <1>6, ShowKeeps DEF ReadTarget
  <1>7. CASE ReadSource(f)
    BY <1>7, ShowKeeps DEF ReadSource
  <1> QED BY <1>1, <1>2, <1>3, <1>4, <1>5, <1>6, <1>7

(* The transaction of create opens the account or refuses. *)
LEMMA CreateInsertKeeps ==
  ASSUME IInv, NEW f \in Fibers, CreateInsert(f)
  PROVE  IInv'
  <1>1. /\ pc[f] = "createInsert" /\ req[f].account \in Accounts
        /\ req[f].value \in Int /\ f \notin moved
    BY DEF CreateInsert, IInv, RequestInv, Creates
  <1>2. CASE InsertRefused(req[f].account, req[f].value)
    BY <1>1, <1>2, AnswerKeeps DEF CreateInsert, Fail, Failures, txVars
  <1>3. CASE ~InsertRefused(req[f].account, req[f].value)
    BY <1>1, <1>3, InsertKeeps DEF CreateInsert, InsertRefused
  <1> QED BY <1>2, <1>3

(* Every rollback of a transaction. *)
LEMMA RollbacksKeep ==
  ASSUME IInv, NEW f \in Fibers,
         Refuse(f) \/ UpdateFails(f) \/ HandlerFails(f) \/ SqlFails(f)
  PROVE  IInv'
  <1> USE DEF Failures, Rejections
  <1>1. CASE Refuse(f)
    <2>1. Refusal(req[f]) \in (Rejections \cup Failures) \ {"unavailable"}
      BY <1>1 DEF Refuse, Refusal
    <2> QED BY <1>1, <2>1, RollbackKeeps DEF Refuse
  <1>2. CASE UpdateFails(f)
    BY <1>2, RollbackKeeps DEF UpdateFails
  <1>3. CASE HandlerFails(f)
    BY <1>3, RollbackKeeps DEF HandlerFails
  <1>4. CASE SqlFails(f) /\ InTransaction(f)
    BY <1>4, RollbackKeeps DEF SqlFails, InTransaction
  <1>5. CASE SqlFails(f) /\ ~InTransaction(f)
    BY <1>5, AnswerKeeps DEF SqlFails, InTransaction, Fail
  <1> QED BY <1>1, <1>2, <1>3, <1>4, <1>5

(* Every step of the specification preserves the invariant. *)
LEMMA NextIInv == IInv /\ [Next]_vars => IInv'
  <1> SUFFICES ASSUME IInv, [Next]_vars PROVE IInv'
    OBVIOUS
  <1>1. ASSUME NEW f \in Fibers, Calls(f) PROVE IInv'
    BY <1>1, StartQueryKeeps, StartCreateKeeps, StartTransferKeeps DEF Calls
  <1>2. ASSUME NEW f \in Fibers, Progress(f) PROVE IInv'
    BY <1>2, SimpleStepsKeep, CreateInsertKeeps, BeginKeeps, ReadPairKeeps,
       RollbacksKeep, HandlerKeeps, UpdateSourceKeeps, UpdateTargetKeeps,
       CommitKeeps DEF Progress
  <1>3. ASSUME NEW f \in Fibers, HandlerFails(f) \/ SqlFails(f) PROVE IInv'
    BY <1>3, RollbacksKeep
  <1>4. ASSUME NEW w \in Watchers, SubStep(w) PROVE IInv'
    BY <1>4, SubStepKeeps
  <1>5. ASSUME NEW p \in Procs, Crash(p) PROVE IInv'
    BY <1>5, CrashKeeps
  <1>6. CASE UNCHANGED vars
    BY <1>6 DEF vars, txVars, IInv, TypeOK, RequestInv, TxInv, OutcomeTellsTruth
  <1> QED
    BY <1>1, <1>2, <1>3, <1>4, <1>5, <1>6 DEF Next, SubStep

(* The invariant holds in every reachable state. *)
LEMMA Invariance == Spec => []IInv
  BY InitIInv, NextIInv, PTL DEF Spec

(* Every variable keeps its type. *)
THEOREM TypeCorrect == Spec => []TypeOK
  BY Invariance, PTL DEF IInv

(* A transfer answered with a success has been committed, one answered     *)
(* with a rejection or a failure inside the transaction has not, whatever  *)
(* other fibers and processes do meanwhile.                                *)
THEOREM AnswersTellTheTruth == Spec => []OutcomeTellsTruth
  BY Invariance, PTL DEF IInv

(* What changes the tables, and how. *)
LEMMA RowsChange ==
  ASSUME IInv, [Next]_vars
  PROVE  \/ rows' = rows /\ opened' = opened
         \/ \E a \in Accounts, b \in Nat :
              /\ rows[a] = NoRow
              /\ rows' = [rows EXCEPT ![a] = [balance |-> b, revision |-> 0]]
              /\ opened' = [opened EXCEPT ![a] = b]
              /\ reply' = None
         \/ \E f \in Fibers : Commit(f)
  <1> USE DEF txVars, Rollback
  <1>1. ASSUME NEW f \in Fibers, Calls(f) PROVE rows' = rows /\ opened' = opened
    BY <1>1 DEF Calls, StartQuery, StartCreate, StartTransfer, Start
  <1>2. ASSUME NEW f \in Fibers, HandlerFails(f) \/ SqlFails(f)
        PROVE  rows' = rows /\ opened' = opened
    BY <1>2 DEF HandlerFails, SqlFails
  <1>3. ASSUME NEW f \in Fibers, Progress(f), ~CreateInsert(f), ~Commit(f)
        PROVE  rows' = rows /\ opened' = opened
    BY <1>3 DEF Progress, Query, CreateCheck, CreatePublish, CreateRead, Begin,
       ReadPair, Refuse, Handler, UpdateSource, UpdateTarget, UpdateFails,
       Publish, ReadTarget, ReadSource, ReadTotal
  <1>4. ASSUME NEW w \in Watchers, SubStep(w) PROVE rows' = rows /\ opened' = opened
    BY <1>4 DEF SubStep, Subscribe, SubRead, SubFails, SubEmit, SetSub
  <1>5. ASSUME NEW p \in Procs, Crash(p) PROVE rows' = rows /\ opened' = opened
    BY <1>5 DEF Crash
  <1>6. ASSUME NEW f \in Fibers, CreateInsert(f)
        PROVE  \/ rows' = rows /\ opened' = opened
               \/ \E a \in Accounts, b \in Nat :
                    /\ rows[a] = NoRow
                    /\ rows' = [rows EXCEPT ![a] = [balance |-> b, revision |-> 0]]
                    /\ opened' = [opened EXCEPT ![a] = b]
                    /\ reply' = None
    <2>1. PICK a, b : a = req[f].account /\ b = req[f].value
      OBVIOUS
    <2>2. a \in Accounts /\ b \in Int
      BY <1>6, <2>1 DEF CreateInsert, IInv, RequestInv, Creates
    <2>3. CASE InsertRefused(a, b)
      BY <1>6, <2>1, <2>3 DEF CreateInsert
    <2>4. CASE ~InsertRefused(a, b)
      BY <1>6, <2>1, <2>2, <2>4 DEF CreateInsert, InsertRefused, Goto
    <2> QED BY <2>3, <2>4
  <1> QED
    BY <1>1, <1>2, <1>3, <1>4, <1>5, <1>6 DEF Next, SubStep, vars

(* The initial states of the service are initial states of the bank        *)
LEMMA InitRefines == Init => Abstract!Init
  BY DEF Init, Abstract!Init

(* and each of its steps opens an account, moves money, or stutters. *)
LEMMA StepRefines == IInv /\ IInv' /\ [Next]_vars =>
    [Abstract!Next]_([a \in Accounts |-> IF rows[a] = NoRow THEN NoRow ELSE rows[a].balance])
  <1> SUFFICES ASSUME IInv, IInv', [Next]_vars
               PROVE  Abstract!Next \/ UNCHANGED
                 [a \in Accounts |-> IF rows[a] = NoRow THEN NoRow ELSE rows[a].balance]
    OBVIOUS
  <1>1. ASSUME NEW a \in Accounts, NEW b \in Nat, rows[a] = NoRow,
               rows' = [rows EXCEPT ![a] = [balance |-> b, revision |-> 0]]
        PROVE  Abstract!Next
    <2>2. rows'[a] # NoRow /\ rows'[a].balance = b
      BY <1>1 DEF IInv, TypeOK, Row
    <2>3. \A x \in Accounts : x # a => rows'[x] = rows[x]
      BY <1>1 DEF IInv, TypeOK
    <2>4. Abstract!Open(a)
      <3> DEFINE B == [x \in Accounts |-> IF rows[x] = NoRow THEN NoRow ELSE rows[x].balance]
                 C == [x \in Accounts |-> IF rows'[x] = NoRow THEN NoRow ELSE rows'[x].balance]
      <3>1. B[a] = NoRow /\ C[a] = b
        BY <1>1, <2>2
      <3>2. \A x \in Accounts : x # a => C[x] = B[x]
        BY <2>3
      <3>3. C = [B EXCEPT ![a] = C[a]]
        <4>1. \A x \in Accounts : C[x] = [B EXCEPT ![a] = C[a]][x]
          BY <1>1, <3>2
        <4> QED BY <4>1
      <3>4. ~(B[a] # NoRow) /\ C[a] \in Nat
        BY <1>1, <3>1
      <3> QED BY <3>3, <3>4 DEF Abstract!Open, Abstract!Opened
    <2> QED BY <2>4 DEF Abstract!Next
  <1>2. ASSUME NEW f \in Fibers, Commit(f) PROVE Abstract!Next
    <2>0. /\ req[f].source \in Accounts /\ req[f].target \in Accounts
          /\ req[f].amount \in Int
      BY <1>2 DEF Commit, IInv, RequestInv, Transfers
    <2>1. PICK a \in Accounts, b \in Accounts, n \in Int :
          /\ a # b /\ rows[a] \in Row /\ rows[b] \in Row
          /\ n \in 1..rows[a].balance
          /\ rows' = [rows EXCEPT
               ![a] = [balance |-> rows[a].balance - n, revision |-> rows[a].revision + 1],
               ![b] = [balance |-> rows[b].balance + n, revision |-> rows[b].revision + 1]]
      <3> DEFINE x == req[f].source
                 y == req[f].target
                 m == req[f].amount
      <3>1. /\ x # y /\ rows[x] \in Row /\ rows[y] \in Row
            /\ m \in 1..rows[x].balance
            /\ rows' = [rows EXCEPT
                 ![x] = [balance |-> rows[x].balance - m, revision |-> rows[x].revision + 1],
                 ![y] = [balance |-> rows[y].balance + m, revision |-> rows[y].revision + 1]]
        BY <1>2, CommitMoves
      <3>2. x \in Accounts /\ y \in Accounts /\ m \in Int
        BY <2>0
      <3> HIDE DEF x, y, m
      <3> QED BY <3>1, <3>2
    <2>2. /\ rows'[a].balance = rows[a].balance - n
          /\ rows'[b].balance = rows[b].balance + n
          /\ \A x \in Accounts : x # a /\ x # b => rows'[x] = rows[x]
      BY <2>1 DEF IInv, TypeOK
    <2>3. rows[a] # NoRow /\ rows[b] # NoRow /\ rows'[a] # NoRow /\ rows'[b] # NoRow
      BY <2>1 DEF IInv, TypeOK, Row
    <2>4. rows[a].balance \in Nat /\ rows[b].balance \in Nat
      BY <2>1 DEF Row
    <2>5. Abstract!Move(a, b)
      <3> DEFINE B == [x \in Accounts |-> IF rows[x] = NoRow THEN NoRow ELSE rows[x].balance]
                 C == [x \in Accounts |-> IF rows'[x] = NoRow THEN NoRow ELSE rows'[x].balance]
      <3>1. /\ B[a] = rows[a].balance /\ B[b] = rows[b].balance
            /\ C[a] = B[a] - n /\ C[b] = B[b] + n
        BY <2>1, <2>2, <2>3
      <3>2. \A x \in Accounts : x # a /\ x # b => C[x] = B[x]
        BY <2>2
      <3>3. C = [B EXCEPT ![a] = B[a] - n, ![b] = B[b] + n]
        BY <2>1, <3>1, <3>2
      <3>4. B[a] # NoRow /\ B[b] # NoRow /\ n \in 1..B[a]
        BY <2>1, <2>4, <3>1
      <3> QED BY <2>1, <3>3, <3>4 DEF Abstract!Move, Abstract!Opened
    <2> QED BY <2>1, <2>5 DEF Abstract!Next
  <1> QED BY <1>1, <1>2, RowsChange

(* The service implements the bank: only an INSERT opens an account, with  *)
(* a balance that is no debt, and only a COMMIT changes a balance, by      *)
(* moving no more than the source holds to the target.                     *)
THEOREM ImplementsBank == Spec => MovesMoney
  <1>1. Spec => []IInv
    BY Invariance
  <1> QED
    BY <1>1, InitRefines, StepRefines, PTL DEF Spec, MovesMoney, Abstract!Spec

(* Only finitely many accounts have been opened, each has the row it was   *)
(* opened with, and the money is conserved.                                *)
Opened == {a \in Accounts : opened[a] # NoRow}

FundsInv == IsFiniteSet(Existing) /\ Opened = Existing /\ FundsConserved

(* There is no money before the first account.                             *)
LEMMA InitFunds == Init => FundsInv
  <1> SUFFICES ASSUME Init PROVE FundsInv
    OBVIOUS
  <1>1. Existing = {} /\ Opened = {}
    BY DEF Init, Existing, Opened
  <1>2. OpenedFunds = 0
    BY <1>1, SumEmpty DEF OpenedFunds, Opened
  <1>3. SumFunction(Balances) = 0
    <2>1. DOMAIN Balances = {}
      BY <1>1 DEF Balances
    <2> QED BY <2>1, SumEmpty DEF SumFunction
  <1> QED BY <1>1, <1>2, <1>3, FS_EmptySet DEF FundsInv, FundsConserved

(* An account brings the money it is opened with, and a COMMIT takes from  *)
(* one row what it gives the other: the sums over all rows stay equal.     *)
LEMMA NextFunds ==
  ASSUME IInv, IInv', FundsInv, [Next]_vars
  PROVE  FundsInv'
  <1> USE DEF FundsInv, FundsConserved, OpenedFunds, SumFunction
  <1>0. /\ \A a \in Existing : rows[a] \in Row /\ rows[a].balance \in Int
        /\ \A a \in Opened : opened[a] \in Int
        /\ DOMAIN Balances = Existing /\ \A a \in Existing : Balances[a] = rows[a].balance
    BY DEF IInv, TypeOK, Existing, Opened, Row, Balances
  <1>1. CASE rows' = rows /\ opened' = opened
    BY <1>1 DEF Existing, Balances, Opened
  <1>2. ASSUME NEW a \in Accounts, NEW b \in Nat, rows[a] = NoRow,
               rows' = [rows EXCEPT ![a] = [balance |-> b, revision |-> 0]],
               opened' = [opened EXCEPT ![a] = b]
        PROVE  FundsInv'
    <2>1. a \notin Existing /\ a \notin Opened
      BY <1>2 DEF Existing
    <2>2. /\ rows'[a] # NoRow /\ rows'[a].balance = b /\ opened'[a] = b
          /\ \A x \in Accounts \ {a} : rows'[x] = rows[x] /\ opened'[x] = opened[x]
      BY <1>2 DEF IInv, TypeOK, Row
    <2>3. /\ Existing' = Existing \cup {a} /\ Opened' = Opened \cup {a}
          /\ IsFiniteSet(Existing \cup {a})
      <3>1. Existing' = Existing \cup {a}
        BY <1>2, <2>2 DEF Existing
      <3>2. Opened' = Opened \cup {a}
        BY <1>2, <2>2 DEF Opened
      <3> QED BY <3>1, <3>2, FS_AddElement
    <2>4. PICK B, C : B = Balances /\ C = Balances'
      OBVIOUS
    <2>5. /\ DOMAIN C = Existing' /\ C[a] = b
          /\ \A x \in Existing : C[x] = B[x] /\ B[x] \in Int
      BY <1>0, <2>1, <2>2, <2>3, <2>4 DEF Balances, Existing
    <2>6. SumFunctionOnSet(C, Existing \cup {a}) = b + SumFunctionOnSet(C, Existing)
      BY <2>1, <2>5, SumAdd
    <2>7. SumFunctionOnSet(C, Existing) = SumFunctionOnSet(B, Existing)
      BY <2>5, SumCongruent
    <2>8. PICK o, p : o = opened /\ p = opened'
      OBVIOUS
    <2>9. /\ p[a] = b /\ \A x \in Existing : p[x] = o[x] /\ o[x] \in Int
      BY <1>0, <2>1, <2>2, <2>8 DEF Existing
    <2>a. SumFunctionOnSet(p, Existing \cup {a}) = b + SumFunctionOnSet(p, Existing)
      BY <2>1, <2>9, SumAdd
    <2>b. SumFunctionOnSet(p, Existing) = SumFunctionOnSet(o, Existing)
      BY <2>9, SumCongruent
    <2>c. SumFunctionOnSet(B, Existing) = SumFunctionOnSet(o, Existing)
      BY <1>0, <2>4, <2>8 DEF Opened
    <2> QED BY <2>3, <2>4, <2>5, <2>6, <2>7, <2>8, <2>a, <2>b, <2>c DEF Opened
  <1>3. ASSUME NEW f \in Fibers, Commit(f) PROVE FundsInv'
    <2>0. PICK a, b, n : a = req[f].source /\ b = req[f].target /\ n = req[f].amount
      OBVIOUS
    <2>1. /\ a \in Accounts /\ b \in Accounts /\ a # b
          /\ rows[a] \in Row /\ rows[b] \in Row /\ n \in 1..rows[a].balance
          /\ rows' = [rows EXCEPT
               ![a] = [balance |-> rows[a].balance - n, revision |-> rows[a].revision + 1],
               ![b] = [balance |-> rows[b].balance + n, revision |-> rows[b].revision + 1]]
      BY <1>3, <2>0, CommitMoves
    <2>2. /\ rows'[a].balance = rows[a].balance - n
          /\ rows'[b].balance = rows[b].balance + n
          /\ \A x \in Accounts \ {a, b} : rows'[x] = rows[x]
      BY <2>1 DEF IInv, TypeOK
    <2>3. rows[a] # NoRow /\ rows[b] # NoRow /\ rows'[a] # NoRow /\ rows'[b] # NoRow
      BY <2>1 DEF IInv, TypeOK, Row
    <2>4. Existing' = Existing /\ a \in Existing /\ b \in Existing
      BY <2>1, <2>2, <2>3 DEF Existing
    <2>5. opened' = opened
      BY <1>3 DEF Commit
    <2>6. PICK B, C : B = Balances /\ C = Balances'
      OBVIOUS
    <2>7. /\ DOMAIN C = Existing /\ \A x \in Existing : C[x] = rows'[x].balance
      BY <2>4, <2>6 DEF Balances
    <2>8. /\ \A x \in Existing : B[x] \in Int /\ C[x] \in Int
          /\ \A x \in Existing \ {a, b} : C[x] = B[x]
          /\ C[a] + C[b] = B[a] + B[b]
      <3>1. \A x \in Existing \ {a, b} : C[x] = B[x]
        BY <1>0, <2>2, <2>6, <2>7 DEF Existing
      <3>2. C[a] = B[a] - n /\ C[b] = B[b] + n /\ B[a] \in Int /\ B[b] \in Int /\ n \in Int
        <4>1. B[a] = rows[a].balance /\ B[b] = rows[b].balance
          BY <1>0, <2>4, <2>6
        <4>2. C[a] = rows'[a].balance /\ C[b] = rows'[b].balance
          BY <2>4, <2>7
        <4>3. rows[a].balance \in Int /\ rows[b].balance \in Int
          BY <1>0, <2>4
        <4> QED BY <2>1, <2>2, <4>1, <4>2, <4>3
      <3>3. \A x \in Existing : B[x] \in Int
        BY <1>0, <2>6
      <3> QED BY <3>1, <3>2, <3>3
    <2>9. SumFunctionOnSet(C, Existing) = SumFunctionOnSet(B, Existing)
      BY <2>1, <2>4, <2>8, SumMove
    <2> QED BY <1>0, <2>4, <2>5, <2>6, <2>7, <2>9 DEF Opened
  <1> QED BY <1>1, <1>2, <1>3, RowsChange

(* The money in the table is the money brought in, at every point.         *)
LEMMA FundsInvariance == Spec => [](IInv /\ FundsInv)
  <1>1. IInv /\ FundsInv /\ [Next]_vars => (IInv /\ FundsInv)'
    BY NextIInv, NextFunds
  <1> QED BY <1>1, InitIInv, InitFunds, PTL DEF Spec

(* The rows always add up to the opening balances of the accounts that     *)
(* exist, however transfers of many fibers and processes interleave, fail, *)
(* are refused or die.                                                     *)
THEOREM MoneyIsConserved == Spec => []FundsConserved
  BY FundsInvariance, PTL DEF FundsInv

(* A finite set of naturals that is not empty has a maximum: by induction  *)
(* over its size.                                                          *)
LEMMA MaxOfFinite ==
  ASSUME NEW S \in SUBSET Nat, IsFiniteSet(S), S # {}
  PROVE  Max(S) \in S /\ \A y \in S : Max(S) >= y
  <1> DEFINE Upto(n) == {s \in SUBSET S : s # {} /\ Cardinality(s) <= n}
             Good == {n \in Nat : \A s \in Upto(n) : \E m \in s : \A y \in s : m >= y}
  <1>0. \A s \in SUBSET S : IsFiniteSet(s) /\ Cardinality(s) \in Nat
    BY FS_Subset, FS_CardinalityType
  <1>1. 0 \in Good
    <2>1. Upto(0) = {}
      BY <1>0, FS_EmptySet
    <2> QED BY <2>1
  <1>2. \A n \in Nat : n \in Good => n + 1 \in Good
    <2> SUFFICES ASSUME NEW n \in Nat, n \in Good,
                        NEW s \in SUBSET S, s # {}, Cardinality(s) <= n + 1
                 PROVE  \E m \in s : \A y \in s : m >= y
      <3>1. \A n \in Nat : n + 1 \in Nat
        OBVIOUS
      <3> QED BY <3>1
    <2>0. PICK x, r : x = Pick(s) /\ r = s \ {x}
      OBVIOUS
    <2>1. x \in s /\ x \in Nat /\ s \subseteq Nat
      BY <2>0, Picked
    <2>2. CASE r = {}
      BY <2>0, <2>1, <2>2
    <2>3. CASE r # {}
      <3>1. r \in SUBSET S /\ Cardinality(r) <= n
        <4> IsFiniteSet(s) /\ n \in Int
          BY <1>0
        <4> QED BY <2>0, <2>1, Smaller
      <3>2. PICK m \in r : \A y \in r : m >= y
        BY <2>3, <3>1
      <3> QED BY <2>0, <2>1, <3>2
    <2> QED BY <2>2, <2>3
  <1>3. Nat \subseteq Good
    <2> HIDE DEF Good
    <2> QED BY <1>1, <1>2, SetInduction
  <1>4. \E m \in S : \A y \in S : m >= y
    <2>1. S \in Upto(Cardinality(S)) /\ Cardinality(S) \in Good
      BY <1>0, <1>3
    <2> QED BY <2>1
  <1> QED BY <1>4 DEF Max

(* A row never goes back: it stays, or its revision grows by one.          *)
GoesForward(old, now) == now = old \/ now.revision = old.revision + 1

(* So every step leaves every row there is.                                *)
LEMMA RowsAdvance ==
  ASSUME IInv, IInv', [Next]_vars, NEW a \in Accounts, rows[a] # NoRow
  PROVE  rows[a] \in Row /\ rows'[a] \in Row /\ GoesForward(rows[a], rows'[a])
  <1>0. rows[a] \in Row /\ rows'[a] \in Row \cup {NoRow}
    BY DEF IInv, TypeOK
  <1>1. CASE rows' = rows
    BY <1>0, <1>1 DEF GoesForward
  <1>2. ASSUME NEW x \in Accounts, NEW r \in Row, rows[x] = NoRow, rows' = [rows EXCEPT ![x] = r]
        PROVE  rows'[a] = rows[a]
    BY <1>2 DEF IInv, TypeOK
  <1>3. ASSUME NEW f \in Fibers, Commit(f)
        PROVE  rows'[a] \in Row /\ GoesForward(rows[a], rows'[a])
    <2>1. PICK x, y, n : x = req[f].source /\ y = req[f].target /\ n = req[f].amount
      OBVIOUS
    <2>2. rows' = [rows EXCEPT
            ![x] = [balance |-> rows[x].balance - n, revision |-> rows[x].revision + 1],
            ![y] = [balance |-> rows[y].balance + n, revision |-> rows[y].revision + 1]]
      BY <1>3, <2>1, CommitMoves
    <2>3. rows'[a] = rows[a] \/ rows'[a].revision = rows[a].revision + 1
      BY <2>2 DEF IInv, TypeOK
    <2>4. rows'[a] # NoRow
      <3>1. /\ x \in Accounts /\ y \in Accounts /\ rows[x] \in Row /\ rows[y] \in Row
            /\ n \in 1..rows[x].balance
        BY <1>3, <2>1, CommitMoves
      <3>2. /\ [balance |-> rows[x].balance - n, revision |-> rows[x].revision + 1] \in Row
            /\ [balance |-> rows[y].balance + n, revision |-> rows[y].revision + 1] \in Row
        BY <3>1 DEF Row
      <3>3. rows'[a] = rows[a] \/ rows'[a] \in Row
        BY <2>2, <3>2 DEF IInv, TypeOK
      <3> QED BY <3>3
    <2> QED BY <1>0, <2>3, <2>4 DEF GoesForward
  <1>4. \A b \in Nat : [balance |-> b, revision |-> 0] \in Row
    BY DEF Row
  <1> QED BY <1>0, <1>1, <1>2, <1>3, <1>4, RowsChange DEF GoesForward

(* What a row shows of a write stays true of every later state of it.      *)
LEMMA WriteStaysShown ==
  ASSUME NEW old \in Row, NEW now \in Row, GoesForward(old, now),
         NEW read \in Row, NEW b, ShowsWrite(old, read, b)
  PROVE  ShowsWrite(now, read, b) /\ now.revision >= old.revision
  <1>1. PICK i, j, k \in Nat : i = read.revision /\ j = old.revision /\ k = now.revision
    BY DEF Row
  <1>2. i < j /\ (now = old \/ k = j + 1)
    BY <1>1 DEF GoesForward, ShowsWrite
  <1>3. now # old => k > i + 1
    BY <1>2
  <1> QED BY <1>1, <1>2, <1>3 DEF ShowsWrite

(* Past its COMMIT a transfer's rows show its writes, and so do the rows   *)
(* it has read for its answer.                                             *)
Holds(row, read, b) == row \in Row /\ read \in Row /\ ShowsWrite(row, read, b)

AnswerInv(f) == pc[f] \in AfterSteps =>
  /\ Holds(rows[req[f].source], tx[f].source, tx[f].after[1])
  /\ Holds(rows[req[f].target], tx[f].target, tx[f].after[2])
  /\ pc[f] \in {"readSource", "readTotal"} =>
       /\ Holds(tx[f].shownTarget, tx[f].target, tx[f].after[2])
       /\ rows[req[f].target].revision >= tx[f].shownTarget.revision
  /\ pc[f] = "readTotal" =>
       /\ Holds(tx[f].shownSource, tx[f].source, tx[f].after[1])
       /\ rows[req[f].source].revision >= tx[f].shownSource.revision

(* A fiber past its COMMIT has just committed, published or read, or it    *)
(* has done nothing.                                                       *)
LEMMA PastCommit ==
  ASSUME IInv, [Next]_vars, NEW f \in Fibers, pc'[f] \in AfterSteps
  PROVE  \/ pc[f] \in AfterSteps /\ pc'[f] = pc[f] /\ req'[f] = req[f] /\ tx'[f] = tx[f]
         \/ Commit(f) \/ Publish(f) \/ ReadTarget(f) \/ ReadSource(f)
  <1> DEFINE Same == pc'[f] = pc[f] /\ req'[f] = req[f] /\ tx'[f] = tx[f]
  <1> USE DEF Goto, Rollback, Fail, Answer, IInv, TypeOK
  <1>1. ASSUME NEW g \in Fibers, Calls(g) PROVE Same
    BY <1>1 DEF Calls, StartQuery, StartCreate, StartTransfer, Start
  <1>2. ASSUME NEW g \in Fibers, HandlerFails(g) \/ SqlFails(g) PROVE Same
    BY <1>2 DEF HandlerFails, SqlFails
  <1>3. ASSUME NEW g \in Fibers, Query(g) \/ CreateCheck(g) \/ CreateInsert(g) \/ CreatePublish(g)
                 \/ CreateRead(g) \/ Begin(g) \/ ReadPair(g) \/ Refuse(g)
        PROVE  Same
    BY <1>3 DEF Query, CreateCheck, CreateInsert, CreatePublish, CreateRead, Begin, ReadPair, Refuse
  <1>4. ASSUME NEW g \in Fibers, Handler(g) \/ UpdateSource(g) \/ UpdateTarget(g)
                 \/ UpdateFails(g) \/ ReadTotal(g)
        PROVE  Same
    BY <1>4 DEF Handler, UpdateSource, UpdateTarget, UpdateFails, ReadTotal
  <1>5. ASSUME NEW g \in Fibers, Commit(g) \/ Publish(g) \/ ReadTarget(g) \/ ReadSource(g), g # f
        PROVE  Same
    BY <1>5 DEF Commit, Publish, ReadTarget, ReadSource
  <1>6. ASSUME NEW w \in Watchers, SubStep(w) PROVE Same
    BY <1>6 DEF SubStep, Subscribe, SubRead, SubFails, SubEmit, SetSub
  <1>7. ASSUME NEW p \in Procs, Crash(p) PROVE Same
    BY <1>7 DEF Crash
  <1>8. CASE UNCHANGED vars
    BY <1>8 DEF vars
  <1> QED
    BY <1>1, <1>2, <1>3, <1>4, <1>5, <1>6, <1>7, <1>8 DEF Next, SubStep, Progress

(* Every step keeps it.                                                    *)
LEMMA AnswerInvStays ==
  ASSUME IInv, IInv', [Next]_vars, NEW f \in Fibers, AnswerInv(f)
  PROVE  AnswerInv(f)'
  <1> SUFFICES ASSUME pc'[f] \in AfterSteps PROVE AnswerInv(f)'
    BY DEF AnswerInv
  <1>0. ASSUME NEW row, NEW now, NEW read, NEW b, Holds(row, read, b), now \in Row, GoesForward(row, now)
        PROVE  Holds(now, read, b) /\ now.revision >= row.revision
    BY <1>0, WriteStaysShown DEF Holds
  <1>1. ASSUME pc[f] \in AfterSteps PROVE req[f] \in Transfers /\ tx[f] \in Pairs
    BY <1>1 DEF IInv, RequestInv, TxInv
  <1>2. ASSUME pc[f] \in AfterSteps
        PROVE  /\ Holds(rows'[req[f].source], tx[f].source, tx[f].after[1])
               /\ Holds(rows'[req[f].target], tx[f].target, tx[f].after[2])
               /\ rows'[req[f].source].revision >= rows[req[f].source].revision
               /\ rows'[req[f].target].revision >= rows[req[f].target].revision
    <2>1. req[f].source \in Accounts /\ req[f].target \in Accounts
      BY <1>1, <1>2 DEF Transfers
    <2>2. /\ Holds(rows[req[f].source], tx[f].source, tx[f].after[1])
          /\ Holds(rows[req[f].target], tx[f].target, tx[f].after[2])
      BY <1>2 DEF AnswerInv
    <2>3. rows[req[f].source] # NoRow /\ rows[req[f].target] # NoRow
      BY <2>2 DEF Holds
    <2>4. /\ rows'[req[f].source] \in Row /\ GoesForward(rows[req[f].source], rows'[req[f].source])
          /\ rows'[req[f].target] \in Row /\ GoesForward(rows[req[f].target], rows'[req[f].target])
      BY <2>1, <2>3, RowsAdvance
    <2> QED BY <1>0, <2>2, <2>4
  <1>3. CASE pc[f] \in AfterSteps /\ pc'[f] = pc[f] /\ req'[f] = req[f] /\ tx'[f] = tx[f]
    <2>1. PICK i, j, k, l : i = rows[req[f].source].revision /\ j = rows'[req[f].source].revision
                         /\ k = rows[req[f].target].revision /\ l = rows'[req[f].target].revision
      OBVIOUS
    <2>2. /\ i \in Nat /\ j \in Nat /\ k \in Nat /\ l \in Nat /\ j >= i /\ l >= k
      BY <1>2, <1>3, <2>1 DEF Holds, Row, AnswerInv
    <2>3. pc[f] \in {"readSource", "readTotal"} => l >= tx[f].shownTarget.revision
      <3> SUFFICES ASSUME pc[f] \in {"readSource", "readTotal"} PROVE l >= tx[f].shownTarget.revision
        OBVIOUS
      <3>1. PICK m \in Nat : m = tx[f].shownTarget.revision /\ k >= m
        BY <1>3, <2>1 DEF AnswerInv, Holds, Row
      <3> QED BY <2>2, <3>1
    <2>4. pc[f] = "readTotal" => j >= tx[f].shownSource.revision
      <3> SUFFICES ASSUME pc[f] = "readTotal" PROVE j >= tx[f].shownSource.revision
        OBVIOUS
      <3>1. PICK m \in Nat : m = tx[f].shownSource.revision /\ i >= m
        BY <1>3, <2>1 DEF AnswerInv, Holds, Row
      <3> QED BY <2>2, <3>1
    <2> QED BY <1>2, <1>3, <2>1, <2>3, <2>4 DEF AnswerInv
  <1>4. CASE Commit(f)
    <2>1. PICK a, b, n : a = req[f].source /\ b = req[f].target /\ n = req[f].amount
      OBVIOUS
    <2>2. /\ a \in Accounts /\ b \in Accounts /\ a # b
          /\ rows[a] \in Row /\ rows[b] \in Row
      BY <1>4, <2>1, CommitMoves
    <2>3. /\ tx[f].source = rows[a] /\ tx[f].target = rows[b] /\ tx'[f] = tx[f] /\ req'[f] = req[f]
          /\ pc'[f] = "publish"
      BY <1>4, <2>1 DEF Commit, Goto, IInv, TxInv, TypeOK
    <2>4. /\ rows'[a] = Updated(rows[a], tx[f].after[1])
          /\ rows'[b] = Updated(rows[b], tx[f].after[2])
      BY <1>4, <2>1, <2>2 DEF Commit, IInv, TypeOK
    <2>5. rows'[a] \in Row /\ rows'[b] \in Row
      BY <2>2, RowsAdvance
    <2>6. ASSUME NEW r \in Row, NEW c PROVE ShowsWrite(Updated(r, c), r, c)
      BY DEF ShowsWrite, Updated, Row
    <2>7. Holds(rows'[a], tx[f].source, tx[f].after[1]) /\ Holds(rows'[b], tx[f].target, tx[f].after[2])
      BY <2>2, <2>3, <2>4, <2>5, <2>6 DEF Holds
    <2> QED BY <2>1, <2>3, <2>7 DEF AnswerInv
  <1>5. CASE Publish(f)
    <2>1. pc[f] \in AfterSteps /\ pc'[f] = "readTarget" /\ req'[f] = req[f] /\ tx'[f] = tx[f]
      BY <1>5 DEF Publish, Goto, IInv, TypeOK
    <2> QED BY <1>2, <2>1 DEF AnswerInv
  <1>6. CASE ReadTarget(f)
    <2>1. /\ pc[f] \in AfterSteps /\ pc'[f] = "readSource" /\ req'[f] = req[f] /\ rows' = rows
          /\ tx' = [tx EXCEPT ![f].shownTarget = rows[req[f].target]]
      BY <1>6 DEF ReadTarget, Goto, IInv, TypeOK
    <2>2. /\ tx'[f].shownTarget = rows[req[f].target] /\ tx'[f].source = tx[f].source
          /\ tx'[f].target = tx[f].target /\ tx'[f].after = tx[f].after
      BY <1>1, <2>1 DEF Pairs, IInv, TypeOK
    <2>3. rows[req[f].target].revision \in Nat
      BY <1>2, <2>1 DEF Holds, Row
    <2> QED BY <1>2, <2>1, <2>2, <2>3 DEF AnswerInv
  <1>7. CASE ReadSource(f)
    <2>1. /\ pc[f] = "readSource" /\ pc'[f] = "readTotal" /\ req'[f] = req[f] /\ rows' = rows
          /\ tx' = [tx EXCEPT ![f].shownSource = rows[req[f].source]]
      BY <1>7 DEF ReadSource, Goto, IInv, TypeOK
    <2>2. /\ tx'[f].shownSource = rows[req[f].source] /\ tx'[f].source = tx[f].source
          /\ tx'[f].target = tx[f].target /\ tx'[f].after = tx[f].after
          /\ tx'[f].shownTarget = tx[f].shownTarget
      BY <1>1, <2>1 DEF Pairs, IInv, TypeOK
    <2>3. rows[req[f].source].revision \in Nat
      BY <1>2, <2>1 DEF Holds, Row
    <2> QED BY <1>2, <2>1, <2>2, <2>3 DEF AnswerInv
  <1> QED BY <1>3, <1>4, <1>5, <1>6, <1>7, PastCommit

(* The total has the revision of the newest row.                           *)
LEMMA TotalIsNewest ==
  ASSUME IInv, FundsInv, NEW a \in Existing
  PROVE  TotalFunds.revision \in Nat /\ TotalFunds.revision >= rows[a].revision
  <1> DEFINE R == {rows[x].revision : x \in Existing}
             g == [x \in Existing |-> rows[x].revision]
  <1>1. IsFiniteSet(R)
    <2>1. IsFiniteSet(Existing)
      BY DEF FundsInv
    <2>2. g \in Surjection(Existing, R)
      BY DEF Surjection
    <2> HIDE DEF R, g
    <2> QED BY <2>1, <2>2, FS_Surjection
  <1>2. IsFiniteSet({0} \cup R) /\ {0} \cup R # {}
    <2>1. IsFiniteSet({0})
      BY FS_Singleton
    <2> HIDE DEF R
    <2> QED BY <1>1, <2>1, FS_Union
  <1>3. {0} \cup R \in SUBSET Nat /\ rows[a].revision \in {0} \cup R
    BY DEF Existing, IInv, TypeOK, Row
  <1>4. Max({0} \cup R) \in {0} \cup R /\ Max({0} \cup R) >= rows[a].revision
    <2> HIDE DEF R
    <2> QED BY <1>2, <1>3, MaxOfFinite
  <1> QED BY <1>3, <1>4 DEF TotalFunds

(* Only answers are delivered, and only the total read last answers a      *)
(* transfer with a success.                                                *)
LEMMA AnswersAreShown ==
  ASSUME IInv, FundsInv, \A f \in Fibers : AnswerInv(f), AnswersShowTheTransfer, [Next]_vars
  PROVE  AnswersShowTheTransfer'
  <1>1. ASSUME NEW f \in Fibers, NEW o, NEW seen, Answer(f, o, seen),
               o # "ok" \/ ~IsTransfer(req[f])
        PROVE  AnswersShowTheTransfer'
    <2>1. reply'.outcome = o /\ reply'.req = req[f]
      BY <1>1 DEF Answer
    <2> QED BY <1>1, <2>1 DEF AnswersShowTheTransfer
  <1>2. ASSUME reply' = None PROVE AnswersShowTheTransfer'
    BY <1>2 DEF AnswersShowTheTransfer
  <1>3. ASSUME NEW f \in Fibers, NEW o, o # "ok", Fail(f, o)
        PROVE  AnswersShowTheTransfer'
    BY <1>1, <1>3 DEF Fail
  <1>4. ASSUME NEW f \in Fibers, ReadTotal(f) PROVE AnswersShowTheTransfer'
    <2>1. PICK t, x, y, n : t = tx[f] /\ x = req[f].source /\ y = req[f].target
                         /\ n = TotalFunds.revision
      OBVIOUS
    <2>2. /\ reply'.seen.transfer = t /\ reply'.seen.value.revision = n
      BY <1>4, <2>1 DEF ReadTotal, Answer
    <2>3. /\ Holds(t.shownTarget, t.target, t.after[2]) /\ rows[y].revision >= t.shownTarget.revision
          /\ Holds(t.shownSource, t.source, t.after[1]) /\ rows[x].revision >= t.shownSource.revision
          /\ rows[x] \in Row /\ rows[y] \in Row
      BY <1>4, <2>1 DEF ReadTotal, AnswerInv, Holds
    <2>4. x \in Existing /\ y \in Existing
      BY <1>4, <2>1, <2>3 DEF ReadTotal, IInv, RequestInv, Transfers, Existing
    <2>5. n >= rows[x].revision /\ n >= rows[y].revision /\ n \in Nat
      BY <2>1, <2>4, TotalIsNewest
    <2>6. n >= t.shownTarget.revision /\ n >= t.shownSource.revision
      BY <2>3, <2>5 DEF Holds, Row
    <2> QED BY <2>2, <2>3, <2>6 DEF AnswersShowTheTransfer, Holds
  <1> USE DEF txVars, Goto, Rollback
  <1>5. ASSUME NEW f \in Fibers, Calls(f) PROVE reply' = None
    BY <1>5 DEF Calls, StartQuery, StartCreate, StartTransfer, Start
  <1>6. ASSUME NEW f \in Fibers, HandlerFails(f) \/ SqlFails(f) PROVE AnswersShowTheTransfer'
    BY <1>3, <1>6 DEF HandlerFails, SqlFails
  <1>7. ASSUME NEW f \in Fibers, Progress(f) PROVE AnswersShowTheTransfer'
    <2>1. CASE Query(f)
      <3>1. ~IsTransfer(req[f])
        BY <2>1, QueriesAreNoTransfers DEF Query, IInv, RequestInv
      <3> QED BY <1>1, <2>1, <3>1 DEF Query, Fail
    <2>2. CASE CreateRead(f)
      <3>1. ~IsTransfer(req[f])
        BY <2>2, CreatesAreNoTransfers DEF CreateRead, IInv, RequestInv
      <3> QED BY <1>1, <2>2, <3>1 DEF CreateRead
    <2>3. CASE Refuse(f)
      <3>1. Refusal(req[f]) # "ok"
        BY <2>3 DEF Refusal, Refuse
      <3> QED BY <1>3, <2>3, <3>1 DEF Refuse
    <2>4. CASE CreateCheck(f) \/ CreateInsert(f) \/ Handler(f) \/ UpdateFails(f)
      BY <1>2, <1>3, <2>4 DEF CreateCheck, CreateInsert, Handler, UpdateFails
    <2>5. CASE \/ CreatePublish(f) \/ Begin(f) \/ ReadPair(f) \/ UpdateSource(f)
               \/ UpdateTarget(f) \/ Commit(f) \/ Publish(f) \/ ReadTarget(f) \/ ReadSource(f)
      BY <1>2, <2>5 DEF CreatePublish, Begin, ReadPair, UpdateSource, UpdateTarget,
         Commit, Publish, ReadTarget, ReadSource
    <2> QED BY <1>4, <1>7, <2>1, <2>2, <2>3, <2>4, <2>5 DEF Progress
  <1>8. ASSUME NEW w \in Watchers, SubStep(w) PROVE reply' = None
    BY <1>8 DEF SubStep, Subscribe, SubRead, SubFails, SubEmit, SetSub
  <1>9. ASSUME NEW p \in Procs, Crash(p) PROVE reply' = None
    BY <1>9 DEF Crash
  <1>10. CASE UNCHANGED vars
    BY <1>10 DEF vars, AnswersShowTheTransfer
  <1> QED
    BY <1>2, <1>5, <1>6, <1>7, <1>8, <1>9, <1>10 DEF Next, SubStep

(* Whatever other fibers and processes commit between a transfer's COMMIT  *)
(* and its answer, and between the three statements of the answer: the     *)
(* rows it shows are past the rows it read, those of its own revision have *)
(* the balances its handler was granted, and the total is no older.        *)
THEOREM AnswersShowTheirTransfer == Spec => []AnswersShowTheTransfer
  <1> DEFINE Inv == \A f \in Fibers : AnswerInv(f)
  <1>1. Init => Inv /\ AnswersShowTheTransfer
    BY DEF Init, AnswerInv, AnswersShowTheTransfer
  <1>2. IInv /\ IInv' /\ Inv /\ [Next]_vars => Inv'
    BY AnswerInvStays
  <1>3. IInv /\ FundsInv /\ Inv /\ AnswersShowTheTransfer /\ [Next]_vars
          => AnswersShowTheTransfer'
    BY AnswersAreShown
  <1> HIDE DEF Inv
  <1> QED BY <1>1, <1>2, <1>3, FundsInvariance, PTL DEF Spec

(* Subscriptions of one process.  While its query is run again or is about *)
(* to be shown, a subscription may be behind only if it knows, or will be  *)
(* told by a fiber that has yet to publish.                                *)
OneProcess == \A f \in Fibers, w \in Watchers : Home[f] = Home[w]

IsSub(s) ==
  /\ s.phase \in {"due", "emit", "quiet"} /\ s.topic \in Topics /\ s.pending \in BOOLEAN
  /\ s = [phase |-> s.phase, topic |-> s.topic, pending |-> s.pending,
          got |-> s.got, seen |-> s.seen]

Announced(topic) == \E f \in Fibers : Unpublished(f, topic)

Follows(s) ==
  /\ s.phase = "quiet" => s.seen = Observe(s.topic) \/ Announced(s.topic)
  /\ s.phase = "emit" =>
       s.pending = TRUE \/ s.got = Observe(s.topic) \/ Announced(s.topic)

SubInv ==
  /\ sub = [w \in Watchers |-> sub[w]]
  /\ \A w \in Watchers : Live(w) => IsSub(sub[w]) /\ Follows(sub[w])

Publishing == {"publish", "createPublish"}

(* What is announced stays announced until its fiber publishes. *)
Waits(f) == pc[f] \in Publishing => pc'[f] = pc[f] /\ req'[f] = req[f]

(* A change that is to be published stays so until it is.                  *)
LEMMA AnnouncedStays ==
  ASSUME \A f \in Fibers : Waits(f), NEW topic, Announced(topic)
  PROVE  Announced(topic)'
  BY DEF Announced, Unpublished, Waits, Publishing

(* What a topic shows depends on the rows alone.                           *)
LEMMA ObserveStays == ASSUME rows' = rows, NEW topic PROVE Observe(topic)' = Observe(topic)
  BY DEF Observe, TotalFunds, Existing, Balances

(* A step that leaves the subscriptions alone announces what it changes. *)
LEMMA ChangesAreAnnounced ==
  ASSUME SubInv, sub' = sub, \A f \in Fibers : Waits(f),
         \A topic \in Topics : Observe(topic)' = Observe(topic) \/ Announced(topic)'
  PROVE  SubInv'
  <1> SUFFICES ASSUME NEW w \in Watchers, Live(w) PROVE Follows(sub[w])'
    BY DEF SubInv, Live, IsSub
  <1>1. IsSub(sub[w]) /\ Follows(sub[w])
    BY DEF SubInv
  <1>2. PICK s : s = sub[w] /\ s = sub'[w]
    OBVIOUS
  <1>3. Observe(s.topic)' = Observe(s.topic) \/ Announced(s.topic)'
    BY <1>1, <1>2 DEF IsSub
  <1>4. Announced(s.topic) => Announced(s.topic)'
    BY AnnouncedStays
  <1> QED BY <1>1, <1>2, <1>3, <1>4 DEF Follows

(* How a subscription changes. *)
LEMMA DueIsSub ==
  ASSUME NEW s, IsSub(s), NEW t, t = [s EXCEPT !.phase = "due"]
  PROVE  IsSub(t) /\ t.phase = "due"
  BY DEF IsSub

(* A subscription that is told of a change remains one.                    *)
LEMMA PendingIsSub ==
  ASSUME NEW s, IsSub(s), NEW t, t = [s EXCEPT !.pending = TRUE]
  PROVE  IsSub(t) /\ t.phase = s.phase /\ t.pending = TRUE
  BY DEF IsSub

(* Publishing tells every subscription the announcement was for. *)
LEMMA InvalidateKeeps ==
  ASSUME SubInv, OneProcess, NEW f \in Fibers, NEW keys, rows' = rows,
         Invalidate(f, keys), \A g \in Fibers \ {f} : Waits(g),
         \A topic \in Topics \ keys : ~Unpublished(f, topic)
  PROVE  SubInv'
  <1>0. sub' = [w \in Watchers |-> sub'[w]]
    BY DEF Invalidate
  <1> SUFFICES ASSUME NEW w \in Watchers, Live(w)' PROVE IsSub(sub'[w]) /\ Follows(sub[w])'
    BY <1>0 DEF SubInv
  <1>1. PICK s, t : s = sub[w] /\ t = sub'[w]
    OBVIOUS
  <1>2. t = IF ~(Live(w) /\ s.topic \in keys) THEN s
            ELSE IF s.phase = "quiet" THEN [s EXCEPT !.phase = "due"]
            ELSE [s EXCEPT !.pending = TRUE]
    BY <1>1 DEF Invalidate, OneProcess
  <1>3. IsSub(s) /\ Follows(s)
    <2>1. Live(w)
      BY <1>1, <1>2 DEF Live
    <2> QED BY <1>1, <2>1 DEF SubInv
  <1>4. CASE s.topic \notin keys
    <2>1. t = s
      BY <1>2, <1>4
    <2>2. Announced(s.topic) => Announced(s.topic)'
      BY <1>3, <1>4 DEF IsSub, Announced, Unpublished, Waits, Publishing
    <2>3. Observe(s.topic)' = Observe(s.topic)
      BY ObserveStays
    <2> QED BY <1>1, <1>3, <2>1, <2>2, <2>3 DEF Follows
  <1>5. CASE s.topic \in keys /\ s.phase = "quiet"
    <2>1. IsSub(t) /\ t.phase = "due"
      BY <1>1, <1>2, <1>3, <1>5, DueIsSub DEF Live
    <2> QED BY <1>1, <2>1 DEF Follows
  <1>6. CASE s.topic \in keys /\ s.phase # "quiet"
    <2>1. IsSub(t) /\ t.phase # "quiet" /\ t.pending = TRUE
      BY <1>1, <1>2, <1>3, <1>6, PendingIsSub DEF Live, IsSub
    <2> QED BY <1>1, <2>1 DEF Follows
  <1> QED BY <1>4, <1>5, <1>6

(* The steps of a subscription. *)
LEMMA SubStepsFollow ==
  ASSUME SubInv, NEW w \in Watchers, SubStep(w)
  PROVE  SubInv'
  <1>1. PICK s, t : s = sub[w] /\ t = sub'[w]
    OBVIOUS
  <1>2. /\ sub' = [sub EXCEPT ![w] = t]
        /\ UNCHANGED <<rows, opened, txVars, pc, req, tx, moved>>
    BY <1>1 DEF SubStep, Subscribe, SubRead, SubFails, SubEmit, SetSub, SubInv
  <1>3. /\ \A topic : Observe(topic)' = Observe(topic)
        /\ \A topic : Announced(topic)' <=> Announced(topic)
    BY <1>2, ObserveStays DEF Announced, Unpublished
  <1>4. t = NoSub \/ (IsSub(t) /\ Follows(t))
    <2>1. ASSUME NEW topic \in Topics, Subscribe(w, topic) PROVE IsSub(t) /\ Follows(t)
      BY <1>1, <2>1 DEF Subscribe, SetSub, SubInv, IsSub, Follows
    <2>2. CASE SubRead(w)
      <3>1. IsSub(s) /\ s.phase = "due"
        BY <1>1, <2>2 DEF SubRead, SubInv, Live
      <3>2. PICK v : v = Observe(s.topic)
        OBVIOUS
      <3>3. t = NoSub \/ t = [s EXCEPT !.phase = "emit", !.got = v]
        BY <1>1, <2>2, <3>2 DEF SubRead, SetSub, SubInv
      <3>4. CASE t # NoSub
        <4>1. IsSub(t) /\ t.phase = "emit" /\ t.topic = s.topic /\ t.got = v
          BY <3>1, <3>3, <3>4 DEF IsSub
        <4> QED BY <3>2, <4>1 DEF Follows
      <3> QED BY <3>4
    <2>3. CASE SubFails(w)
      BY <1>1, <2>3 DEF SubFails, SetSub, SubInv
    <2>4. CASE SubEmit(w)
      <3>1. IsSub(s) /\ s.phase = "emit" /\ Follows(s)
        BY <1>1, <2>4 DEF SubEmit, SubInv, Live
      <3>2. PICK p \in {"due", "quiet"} : p = IF s.pending THEN "due" ELSE "quiet"
        OBVIOUS
      <3>3. t = [s EXCEPT !.seen = s.got, !.pending = FALSE, !.phase = p]
        BY <1>1, <2>4, <3>2 DEF SubEmit, SetSub, SubInv
      <3>4. IsSub(t) /\ t.phase = p /\ t.topic = s.topic /\ t.seen = s.got
        BY <3>1, <3>2, <3>3 DEF IsSub
      <3> QED BY <3>1, <3>2, <3>4 DEF Follows, IsSub
    <2> QED BY <2>1, <2>2, <2>3, <2>4 DEF SubStep
  <1>5. sub' = [x \in Watchers |-> sub'[x]]
    BY <1>2 DEF SubInv
  <1> SUFFICES ASSUME NEW x \in Watchers, Live(x)' PROVE IsSub(sub'[x]) /\ Follows(sub[x])'
    BY <1>5 DEF SubInv
  <1>6. PICK u : u = sub'[x]
    OBVIOUS
  <1>7. IsSub(u) /\ Follows(u)
    BY <1>1, <1>2, <1>4, <1>6 DEF SubInv, Live, NoSub
  <1>8. Follows(u)'
    BY <1>3, <1>7 DEF Follows
  <1> QED BY <1>6, <1>7, <1>8 DEF Follows

(* A process that dies takes its subscriptions along. *)
LEMMA CrashDrops == ASSUME OneProcess, NEW p \in Procs, Crash(p) PROVE SubInv'
  <1>1. PICK f \in Fibers : Home[f] = p
    BY DEF Crash
  <1>2. sub' = [w \in Watchers |-> NoSub]
    BY <1>1 DEF Crash, OneProcess
  <1> QED BY <1>2 DEF SubInv, Live, NoSub

(* The other steps of a fiber announce the rows they change. *)
LEMMA StepsAnnounce ==
  ASSUME IInv, SubInv, NEW f \in Fibers,
         Calls(f) \/ Progress(f) \/ HandlerFails(f) \/ SqlFails(f),
         pc[f] \notin Publishing
  PROVE  SubInv'
  <1> USE DEF txVars, Goto, Rollback, Fail, Answer
  <1>1. /\ sub' = sub
        /\ \A g \in Fibers \ {f} : pc'[g] = pc[g] /\ req'[g] = req[g]
    <2>1. CASE Calls(f)
      BY <2>1 DEF Calls, StartQuery, StartCreate, StartTransfer, Start, IInv, TypeOK
    <2>2. CASE HandlerFails(f) \/ SqlFails(f)
      BY <2>2 DEF HandlerFails, SqlFails, IInv, TypeOK
    <2>3. CASE Progress(f) /\ ~CreateInsert(f) /\ ~Commit(f) /\ ~Handler(f)
      BY <2>3 DEF Progress, Query, CreateCheck, CreatePublish, CreateRead, Begin,
         ReadPair, Refuse, UpdateSource, UpdateTarget, UpdateFails,
         Publish, ReadTarget, ReadSource, ReadTotal, Publishing, IInv, TypeOK
    <2>4. CASE CreateInsert(f) \/ Commit(f) \/ Handler(f)
      BY <2>4 DEF CreateInsert, Commit, Handler, IInv, TypeOK
    <2> QED BY <2>1, <2>2, <2>3, <2>4
  <1>2. \A topic \in Topics : Observe(topic)' = Observe(topic) \/ Announced(topic)'
    <2> SUFFICES ASSUME NEW topic \in Topics
                 PROVE  Observe(topic)' = Observe(topic) \/ Announced(topic)'
      OBVIOUS
    <2>1. CASE rows' = rows
      BY <2>1, ObserveStays
    <2>2. CASE CreateInsert(f) /\ rows' # rows
      <3>1. /\ pc'[f] = "createPublish" /\ req' = req
            /\ \A a \in Accounts : a # req[f].account => rows'[a] = rows[a]
        BY <2>2 DEF CreateInsert, IInv, TypeOK
      <3> QED BY <3>1 DEF Topics, Announced, Unpublished, Observe
    <2>3. CASE Commit(f)
      <3>1. /\ pc'[f] = "publish" /\ req' = req
            /\ \A a \in Accounts \ {req[f].source, req[f].target} : rows'[a] = rows[a]
        BY <2>3 DEF Commit, IInv, TypeOK
      <3> QED BY <3>1 DEF Topics, Announced, Unpublished, Observe
    <2>4. rows' = rows \/ CreateInsert(f) \/ Commit(f)
      <3>1. CASE Calls(f)
        BY <3>1 DEF Calls, StartQuery, StartCreate, StartTransfer, Start
      <3>2. CASE HandlerFails(f) \/ SqlFails(f)
        BY <3>2 DEF HandlerFails, SqlFails
      <3>3. CASE Progress(f) /\ ~CreateInsert(f) /\ ~Commit(f)
        BY <3>3 DEF Progress, Query, CreateCheck, CreatePublish, CreateRead, Begin,
           ReadPair, Refuse, Handler, UpdateSource, UpdateTarget, UpdateFails,
           Publish, ReadTarget, ReadSource, ReadTotal
      <3> QED BY <3>1, <3>2, <3>3
    <2> QED BY <2>1, <2>2, <2>3, <2>4
  <1>3. \A g \in Fibers : Waits(g)
    BY <1>1 DEF Waits
  <1> QED BY <1>1, <1>2, <1>3, ChangesAreAnnounced

(* In one process every step keeps the subscriptions current.              *)
LEMMA NextSubs ==
  ASSUME OneProcess, IInv, SubInv, [Next]_vars
  PROVE  SubInv'
  <1>1. ASSUME NEW f \in Fibers, pc[f] \in Publishing,
               Calls(f) \/ Progress(f) \/ HandlerFails(f) \/ SqlFails(f)
        PROVE  SubInv'
    <2> USE DEF txVars, Goto
    <2>1. ~Calls(f) /\ ~HandlerFails(f) /\ ~SqlFails(f)
      BY <1>1 DEF Calls, StartQuery, StartCreate, StartTransfer, Start, HandlerFails,
         SqlFails, Publishing
    <2>2. CreatePublish(f) \/ Publish(f)
      BY <1>1, <2>1 DEF Progress, Query, CreateCheck, CreateInsert, CreateRead, Begin, ReadPair,
         Refuse, Handler, UpdateSource, UpdateTarget, UpdateFails, Commit,
         ReadTarget, ReadSource, ReadTotal, Publishing
    <2>3. CASE CreatePublish(f)
      <3>1. PICK keys : keys = CreateKeys(req[f])
        OBVIOUS
      <3>2. /\ rows' = rows /\ Invalidate(f, keys)
            /\ \A g \in Fibers \ {f} : Waits(g)
            /\ \A topic \in Topics \ keys : ~Unpublished(f, topic)
        BY <2>3, <3>1 DEF CreatePublish, CreateKeys, Waits, Unpublished, IInv, TypeOK
      <3> QED BY <3>2, InvalidateKeeps
    <2>4. CASE Publish(f)
      <3>1. PICK keys : keys = TransferKeys(req[f])
        OBVIOUS
      <3>2. /\ rows' = rows /\ Invalidate(f, keys)
            /\ \A g \in Fibers \ {f} : Waits(g)
            /\ \A topic \in Topics \ keys : ~Unpublished(f, topic)
        BY <2>4, <3>1 DEF Publish, TransferKeys, Waits, Unpublished, IInv, TypeOK
      <3> QED BY <3>2, InvalidateKeeps
    <2> QED BY <2>2, <2>3, <2>4
  <1>2. CASE UNCHANGED vars
    BY <1>2, ChangesAreAnnounced, ObserveStays DEF vars, Waits
  <1> QED
    BY <1>1, <1>2, StepsAnnounce, SubStepsFollow, CrashDrops DEF Next, SubStep

(* In one process a subscription at rest shows the committed value of its  *)
(* topic, or a fiber has yet to publish it.                                *)
THEOREM QuietSubscriptionsAreCurrent ==
  ASSUME OneProcess PROVE Spec => []QuietIsCurrent
  <1>1. Init => SubInv
    BY DEF Init, SubInv, Live, NoSub
  <1>2. SubInv => QuietIsCurrent
    BY DEF SubInv, QuietIsCurrent, Live, Follows, Announced
  <1>3. IInv /\ SubInv /\ [Next]_vars => (IInv /\ SubInv)'
    BY NextIInv, NextSubs
  <1> QED BY <1>1, <1>2, <1>3, InitIInv, PTL DEF Spec
-----------------------------------------------------------------------------
(* An operation carries what its caller passed, after the checks on it;    *)
(* one that is about to commit holds the write lock, and the row of its    *)
(* service is still the one it found.                                      *)
IsInitialize(o) == op[o].kind = "initialize"
IsCutover(o)    == op[o].kind = "cutover"

OperationInv == \A o \in Operators :
  /\ op[o].kind = "read" => op[o].service \in Services
  /\ IsInitialize(o) => op[o].row \in V!Metadata /\ op[o].row.version = 1
  /\ IsCutover(o) => /\ op[o].expected \in V!Metadata /\ op[o].expected.version = 1
                     /\ op[o].next \in V!Metadata /\ op[o].next.version = 2
                     /\ op[o].next.service = op[o].expected.service

CommitInv == \A o \in Operators :
  /\ IsInitialize(o) /\ op[o].phase = "commit" =>
       vlock = o /\ stored[op[o].row.service] = None
  /\ IsCutover(o) /\ op[o].phase = "commit" =>
       vlock = o /\ stored[op[o].expected.service] = op[o].expected

StoredInv ==
  /\ stored \in [Services -> V!Metadata \cup {None}]
  /\ \A s \in Services : stored[s] # None => stored[s].service = s

DoneInv == \A c \in done :
  /\ c.to \in V!Metadata /\ c.to.version = 2
  /\ stored[c.to.service] = c.to

(* The inductive invariant.  A cutover that commits replaces a row of      *)
(* version 1, so no acknowledged one, whose row has version 2, is replaced.*)
VIInv ==
  /\ op \in [Operators -> V!Operations \cup {V!Idle}]
  /\ OperationInv /\ CommitInv /\ StoredInv /\ DoneInv /\ V!CutoverIsFinal

(* The initial state satisfies the invariant. *)
LEMMA VInitIInv == V!NoneIsApart /\ V!Init => VIInv
  BY DEF V!Init, V!NoneIsApart, VIInv, OperationInv, CommitInv, StoredInv, DoneInv, V!CutoverIsFinal,
         IsInitialize, IsCutover, V!Idle

(* Ending an operation without touching the table. *)
LEMMA IdleKeeps ==
  ASSUME V!NoneIsApart, VIInv, NEW o \in Operators,
         op' = [op EXCEPT ![o] = V!Idle],
         vlock' = vlock \/ (vlock = o /\ vlock' = None),
         UNCHANGED <<stored, done>>
  PROVE  VIInv'
  <1> USE DEF VIInv
  <1>1. op' \in [Operators -> V!Operations \cup {V!Idle}] /\ OperationInv'
    BY DEF OperationInv, IsInitialize, IsCutover, V!Idle
  <1>2. CommitInv'
    BY DEF CommitInv, IsInitialize, IsCutover, V!Idle
  <1>3. StoredInv' /\ DoneInv' /\ V!CutoverIsFinal'
    BY DEF StoredInv, DoneInv, V!CutoverIsFinal
  <1> QED BY <1>1, <1>2, <1>3

(* Accepting an operation. *)
LEMMA VBeginKeeps ==
  ASSUME V!NoneIsApart, VIInv, NEW o \in Operators, NEW x \in V!Operations, V!Begin(o, x),
         \/ x.kind = "read" /\ x.service \in Services
         \/ /\ x.kind = "initialize" /\ x.phase = "insert"
            /\ x.row \in V!Metadata /\ x.row.version = 1
         \/ /\ x.kind = "cutover" /\ x.phase = "read"
            /\ x.expected \in V!Metadata /\ x.expected.version = 1
            /\ x.next \in V!Metadata /\ x.next.version = 2
            /\ x.next.service = x.expected.service
  PROVE  VIInv'
  <1> USE DEF VIInv, V!Begin
  <1>1. op' \in [Operators -> V!Operations \cup {V!Idle}] /\ OperationInv'
    BY DEF OperationInv, IsInitialize, IsCutover
  <1>2. CommitInv'
    BY DEF CommitInv, IsInitialize, IsCutover
  <1>3. StoredInv' /\ DoneInv' /\ V!CutoverIsFinal'
    BY DEF StoredInv, DoneInv, V!CutoverIsFinal
  <1> QED BY <1>1, <1>2, <1>3

(* An operation that goes on keeps what its caller passed. *)
LEMMA PhaseSet ==
  ASSUME NEW x \in V!Operations, x.kind = "initialize" \/ x.kind = "cutover",
         NEW p, p \in {"insert", "read", "update", "commit"},
         x.kind = "initialize" => p \in {"insert", "commit"},
         x.kind = "cutover" => p \in {"read", "update", "commit"},
         NEW y, y = [x EXCEPT !.phase = p]
  PROVE  /\ y \in V!Operations /\ y.kind = x.kind /\ y.phase = p
         /\ x.kind = "initialize" => y.row = x.row
         /\ x.kind = "cutover" => y.expected = x.expected /\ y.next = x.next
  BY DEF V!Operations

(* Going on to the next phase of an operation changes no row.              *)
LEMMA PhaseKeeps ==
  ASSUME V!NoneIsApart, VIInv, NEW o \in Operators, NEW p,
         \/ IsInitialize(o) /\ p = "commit"
         \/ IsCutover(o) /\ p \in {"update", "commit"},
         op' = [op EXCEPT ![o].phase = p],
         UNCHANGED <<stored, done>>,
         \/ vlock' = vlock /\ p # "commit"
         \/ vlock = None /\ vlock' = o,
         p = "commit" /\ IsInitialize(o) => stored[op[o].row.service] = None,
         p = "commit" /\ IsCutover(o) => stored[op[o].expected.service] = op[o].expected
  PROVE  VIInv'
  <1> USE DEF VIInv
  <1> DEFINE x == op[o]
             y == [op[o] EXCEPT !.phase = p]
  <1>1. op[o] \in V!Operations
    BY DEF IsInitialize, IsCutover, V!Idle
  <1>2. /\ y \in V!Operations /\ y.kind = x.kind /\ y.phase = p
        /\ x.kind = "initialize" => y.row = x.row
        /\ x.kind = "cutover" => y.expected = x.expected /\ y.next = x.next
    BY <1>1, PhaseSet DEF IsInitialize, IsCutover
  <1>3. op' = [op EXCEPT ![o] = y]
    OBVIOUS
  <1> HIDE DEF y
  <1>4. op' \in [Operators -> V!Operations \cup {V!Idle}] /\ OperationInv'
    BY <1>2, <1>3 DEF OperationInv, IsInitialize, IsCutover
  <1>5. CommitInv'
    BY <1>2, <1>3 DEF CommitInv, IsInitialize, IsCutover, V!NoneIsApart
  <1>6. StoredInv' /\ DoneInv' /\ V!CutoverIsFinal'
    BY DEF StoredInv, DoneInv, V!CutoverIsFinal
  <1> QED BY <1>4, <1>5, <1>6

(* Storing a row of a service, as the holder of the write lock.  The row   *)
(* it replaces is not of version 2.                                        *)
LEMMA StoreKeeps ==
  ASSUME V!NoneIsApart, VIInv, NEW o \in Operators, NEW row \in V!Metadata, vlock = o,
         stored[row.service] # None => stored[row.service].version # 2,
         stored' = [stored EXCEPT ![row.service] = row],
         op' = [op EXCEPT ![o] = V!Idle], vlock' = None,
         \/ done' = done
         \/ \E e \in V!Metadata : done' = done \cup {[from |-> e, to |-> row]} /\ row.version = 2
  PROVE  VIInv'
  <1> USE DEF VIInv
  <1>1. op' \in [Operators -> V!Operations \cup {V!Idle}] /\ OperationInv'
    BY DEF OperationInv, IsInitialize, IsCutover, V!Idle
  <1>2. CommitInv'
    BY DEF CommitInv, IsInitialize, IsCutover, V!Idle, V!NoneIsApart
  <1>3. row.service \in Services /\ StoredInv'
    BY DEF StoredInv, V!Metadata, V!NoneIsApart
  <1>4. \A c \in done : c.to.service # row.service
    BY DEF DoneInv, V!NoneIsApart
  <1>5. DoneInv'
    BY <1>3, <1>4 DEF DoneInv, StoredInv
  <1>6. V!CutoverIsFinal'
    BY <1>3, <1>4 DEF V!CutoverIsFinal, StoredInv
  <1> QED BY <1>1, <1>2, <1>3, <1>5, <1>6

(* What a commit of an operation stores is in order. *)
LEMMA CommitsAreSound ==
  ASSUME V!NoneIsApart, VIInv, NEW o \in Operators
  PROVE  /\ IsInitialize(o) /\ op[o].phase = "commit" =>
              /\ vlock = o /\ op[o].row \in V!Metadata /\ op[o].row.version = 1
              /\ stored[op[o].row.service] = None
         /\ IsCutover(o) /\ op[o].phase = "commit" =>
              /\ vlock = o /\ op[o].next \in V!Metadata /\ op[o].next.version = 2
              /\ op[o].expected \in V!Metadata
              /\ stored[op[o].next.service] # None
              /\ stored[op[o].next.service].version = 1
              /\ stored[op[o].next.service].version # 2
  <1>1. IsCutover(o) /\ op[o].phase = "commit" =>
          /\ stored[op[o].next.service] = op[o].expected
          /\ op[o].expected \in V!Metadata /\ op[o].expected.version = 1
    BY DEF VIInv, OperationInv, CommitInv
  <1>2. \A m \in V!Metadata : m.version = 1 => m.version # 2
    BY DEF V!Metadata
  <1> QED BY <1>1, <1>2 DEF VIInv, OperationInv, CommitInv, V!NoneIsApart

(* The operations of an operator that have been accepted go on. *)
LEMMA ProceedsKeeps == ASSUME V!NoneIsApart, VIInv, NEW o \in Operators, V!Proceeds(o) PROVE VIInv'
  <1> USE DEF V!Abort, V!Answer, V!Commit, IsInitialize, IsCutover
  <1>1. CASE V!Insert(o)
    BY <1>1, IdleKeeps, PhaseKeeps DEF V!Insert
  <1>2. CASE V!InitializeCommit(o)
    BY <1>2, CommitsAreSound, StoreKeeps DEF V!InitializeCommit
  <1>3. CASE V!Read(o)
    BY <1>3, IdleKeeps DEF V!Read
  <1>4. CASE V!CutoverRead(o)
    BY <1>4, IdleKeeps, PhaseKeeps DEF V!CutoverRead
  <1>5. CASE V!CutoverUpdate(o)
    BY <1>5, IdleKeeps, PhaseKeeps DEF V!CutoverUpdate, V!MayUpdate
  <1>6. CASE V!CutoverCommit(o)
    <2>1. PICK row \in V!Metadata, e \in V!Metadata :
          /\ vlock = o /\ row.version = 2 /\ stored[row.service].version # 2
          /\ stored' = [stored EXCEPT ![row.service] = row]
          /\ op' = [op EXCEPT ![o] = V!Idle] /\ vlock' = None
          /\ done' = done \cup {[from |-> e, to |-> row]}
      BY <1>6, CommitsAreSound DEF V!CutoverCommit, V!NextRow
    <2> QED BY <2>1, StoreKeeps
  <1> QED BY <1>1, <1>2, <1>3, <1>4, <1>5, <1>6 DEF V!Proceeds

(* The checks before an operation is accepted. *)
LEMMA StartsKeep == ASSUME V!NoneIsApart, VIInv, NEW o \in Operators, V!Starts(o) PROVE VIInv'
  <1>0. ASSUME UNCHANGED <<stored, vlock, op, done>> PROVE VIInv'
    BY <1>0 DEF VIInv, OperationInv, CommitInv, StoredInv, DoneInv, V!CutoverIsFinal,
       IsInitialize, IsCutover
  <1>1. ASSUME NEW m \in V!Metadata, V!Initialize(o, m) PROVE VIInv'
    <2> DEFINE x == [kind |-> "initialize", phase |-> "insert", row |-> m]
    <2>1. x \in V!Operations /\ x.kind = "initialize" /\ x.phase = "insert" /\ x.row = m
      BY DEF V!Operations
    <2>2. CASE m.version # 1
      BY <1>0, <1>1, <2>2 DEF V!Initialize
    <2>3. CASE m.version = 1
      <3>1. V!Begin(o, x)
        BY <1>1, <2>3 DEF V!Initialize
      <3> HIDE DEF x
      <3> QED BY <2>1, <2>3, <3>1, VBeginKeeps
    <2> QED BY <2>2, <2>3
  <1>2. ASSUME NEW s \in Services, V!StartRead(o, s) PROVE VIInv'
    <2> DEFINE x == [kind |-> "read", service |-> s]
    <2>1. x \in V!Operations /\ x.kind = "read" /\ x.service = s
      BY DEF V!Operations
    <2>2. V!Begin(o, x)
      BY <1>2 DEF V!StartRead
    <2> HIDE DEF x
    <2> QED BY <2>1, <2>2, VBeginKeeps
  <1>3. ASSUME NEW e \in V!Metadata, NEW n \in V!Metadata, V!StartCutover(o, e, n) PROVE VIInv'
    <2> DEFINE x == [kind |-> "cutover", phase |-> "read", expected |-> e, next |-> n]
    <2>1. /\ x \in V!Operations /\ x.kind = "cutover" /\ x.phase = "read"
          /\ x.expected = e /\ x.next = n
      BY DEF V!Operations
    <2>2. CASE V!InputFault(e, n) # None
      BY <1>0, <1>3, <2>2 DEF V!StartCutover
    <2>3. CASE V!InputFault(e, n) = None
      <3>1. V!Begin(o, x)
        BY <1>3, <2>3 DEF V!StartCutover
      <3>2. e.version = 1 /\ n.version = 2 /\ n.service = e.service
        BY <2>3 DEF V!InputFault, V!NoneIsApart, V!Outcomes
      <3> HIDE DEF x
      <3> QED BY <2>1, <3>1, <3>2, VBeginKeeps
    <2> QED BY <2>2, <2>3
  <1> QED BY <1>1, <1>2, <1>3 DEF V!Starts

(* A scope that fails rolls back; one that dies in its COMMIT may have     *)
(* stored its row without being told.                                      *)
LEMMA FailsKeep ==
  ASSUME V!NoneIsApart, VIInv, NEW o \in Operators, V!Fails(o) \/ V!DiesAfterCommit(o)
  PROVE  VIInv'
  <1>1. CASE V!Fails(o)
    BY <1>1, IdleKeeps DEF V!Fails, V!Abort, V!Answer
  <1>2. CASE V!DiesAfterCommit(o)
    <2>1. PICK row \in V!Metadata :
          /\ vlock = o /\ stored[row.service].version # 2
          /\ stored' = [stored EXCEPT ![row.service] = row]
          /\ op' = [op EXCEPT ![o] = V!Idle] /\ vlock' = None /\ done' = done
      BY <1>2, CommitsAreSound DEF V!DiesAfterCommit, V!NextRow, IsCutover
    <2> QED BY <2>1, StoreKeeps
  <1> QED BY <1>1, <1>2

(* Every step preserves the invariant. *)
LEMMA VNextIInv == V!NoneIsApart /\ VIInv /\ [V!Next]_(V!vars) => VIInv'
  <1> SUFFICES ASSUME V!NoneIsApart, VIInv, [V!Next]_(V!vars) PROVE VIInv'
    OBVIOUS
  <1>1. CASE UNCHANGED V!vars
    BY <1>1 DEF V!vars, VIInv, OperationInv, CommitInv, StoredInv, DoneInv, V!CutoverIsFinal,
       IsInitialize, IsCutover
  <1> QED BY <1>1, StartsKeep, ProceedsKeeps, FailsKeep DEF V!Next

(* An acknowledged cutover is final and the only one of its service, for   *)
(* any number of operators that race.                                      *)
THEOREM CutoversAreFinal == ASSUME V!NoneIsApart PROVE V!Spec => []V!CutoverIsFinal
  <1>1. VIInv => V!CutoverIsFinal
    BY DEF VIInv
  <1> QED BY <1>1, VInitIInv, VNextIInv, PTL DEF V!Spec

(* The row of a service appears at version 1, advances to version 2 at     *)
(* most once and never changes otherwise.                                  *)
THEOREM RowsOnlyAdvance == ASSUME V!NoneIsApart PROVE V!Spec => V!VersionsOnlyAdvance
  <1> DEFINE Advances == \A s \in Services : stored'[s] # stored[s] =>
       /\ stored'[s] # None
       /\ stored'[s].version = IF stored[s] = None THEN 1 ELSE stored[s].version + 1
       /\ \A t \in Services \ {s} : stored'[t] = stored[t]
  <1>1. ASSUME VIInv, [V!Next]_(V!vars) PROVE [Advances]_(V!vars)
    <2>1. ASSUME stored' = stored PROVE Advances
      BY <2>1
    <2>2. ASSUME NEW o \in Operators, NEW row \in V!Metadata,
                 stored' = [stored EXCEPT ![row.service] = row],
                 row.version = IF stored[row.service] = None THEN 1
                               ELSE stored[row.service].version + 1
          PROVE  Advances
      BY <2>2, <1>1 DEF VIInv, StoredInv, V!Metadata, V!NoneIsApart
    <2>3. ASSUME NEW o \in Operators, V!InitializeCommit(o) PROVE Advances
      BY <1>1, <2>2, <2>3, CommitsAreSound DEF V!InitializeCommit, V!Commit, IsInitialize
    <2>4. ASSUME NEW o \in Operators, V!CutoverCommit(o) \/ V!DiesAfterCommit(o) PROVE Advances
      BY <1>1, <2>2, <2>4, CommitsAreSound
         DEF V!CutoverCommit, V!DiesAfterCommit, V!Commit, V!NextRow, IsCutover
    <2>5. ASSUME NEW o \in Operators, V!Starts(o) \/ V!Fails(o) PROVE stored' = stored
      BY <2>5 DEF V!Starts, V!Initialize, V!StartRead, V!StartCutover, V!Begin, V!Fails, V!Abort
    <2>6. ASSUME NEW o \in Operators, V!Insert(o) \/ V!Read(o) \/ V!CutoverRead(o) \/ V!CutoverUpdate(o)
          PROVE  stored' = stored
      BY <2>6 DEF V!Insert, V!Read, V!CutoverRead, V!CutoverUpdate, V!Abort
    <2> HIDE DEF Advances
    <2> QED BY <1>1, <2>1, <2>3, <2>4, <2>5, <2>6 DEF V!Next, V!Proceeds, V!vars
  <1> QED BY <1>1, VInitIInv, VNextIInv, PTL DEF V!Spec, V!VersionsOnlyAdvance
-----------------------------------------------------------------------------
(* The script of the journey, statement by statement.                      *)
Ops == {"create", "subscribe", "take", "transfer", "overdraft", "count", "query", "close", "compare", "done",
        "baseline", "initialize", "read", "cutover", "advance", "sameVersion"}

Names == {"initial", "committed", "clean", "reopened", "initialized", "before", "after",
          "afterCutover", "afterTransfer", "afterReopen"}

Statements ==
  [op : Ops] \cup [op : Ops, name : Names] \cup [op : Ops, amount : Int]
    \cup [op : Ops, account : Accounts, value : Int]
    \cup [op : Ops, topic : Watchers, name : Names]
    \cup [op : Ops, left : Names, right : Names]

ACreate(a, b)      == [op |-> "create", account |-> a, value |-> b]
AMove(n)           == [op |-> "transfer", amount |-> n]
AnOverdraft(n)     == [op |-> "overdraft", amount |-> n]
AnEach(o, w, name) == [op |-> o, topic |-> w, name |-> name]
ACompare(x, y)     == [op |-> "compare", left |-> x, right |-> y]
ADo(o)             == [op |-> o]
AVersion(o, name)  == [op |-> o, name |-> name]

(* What two parts of a script have in common with the whole. *)
Cat(s, t) == s \o t
Joined(s, t) ==
  /\ Cat(s, t) \in Seq(Statements) /\ Len(Cat(s, t)) = Len(s) + Len(t)
  /\ \A k \in 1..Len(s) : Cat(s, t)[k] = s[k]
  /\ \A k \in 1..Len(t) : Cat(s, t)[Len(s) + k] = t[k]

(* The places of two scripts put one after the other.                      *)
LEMMA Parts == \A s, t \in Seq(Statements) : Joined(s, t)
  BY DEF Joined, Cat

(* The parts a script is put together from. *)
LEMMA OneStatement ==
  \A x \in Statements : <<x>> \in Seq(Statements) /\ Len(<<x>>) = 1 /\ <<x>>[1] = x
  OBVIOUS

(* The opening of an account, as a list of one statement;                  *)
LEMMA CreateIs ==
  ASSUME NEW a \in Accounts, NEW b \in Int
  PROVE  /\ Create(a, b) \in Seq(Statements) /\ Len(Create(a, b)) = 1
         /\ Create(a, b)[1] = ACreate(a, b)
  <1>1. ACreate(a, b) \in Statements
    BY DEF Ops, ACreate, Statements
  <1> QED BY <1>1, OneStatement DEF Create, ACreate

(* the transfer;                                                           *)
LEMMA MoveIs ==
  ASSUME NEW n \in Int
  PROVE  Move(n) \in Seq(Statements) /\ Len(Move(n)) = 1 /\ Move(n)[1] = AMove(n)
  <1>1. AMove(n) \in Statements
    BY DEF Ops, AMove, Statements
  <1> QED BY <1>1, OneStatement DEF Move, AMove

(* the transfer that must be refused;                                      *)
LEMMA OverdrawIs ==
  ASSUME NEW n \in Int
  PROVE  Overdraw(n) \in Seq(Statements) /\ Len(Overdraw(n)) = 1 /\ Overdraw(n)[1] = AnOverdraft(n)
  <1>1. AnOverdraft(n) \in Statements
    BY DEF Ops, AnOverdraft, Statements
  <1> QED BY <1>1, OneStatement DEF Overdraw, AnOverdraft

(* the comparison of two sets of observations;                             *)
LEMMA CompareIs ==
  ASSUME NEW x \in Names, NEW y \in Names
  PROVE  /\ Compare(x, y) \in Seq(Statements) /\ Len(Compare(x, y)) = 1
         /\ Compare(x, y)[1] = ACompare(x, y)
  <1>1. ACompare(x, y) \in Statements
    BY DEF Ops, ACompare, Statements
  <1> QED BY <1>1, OneStatement DEF Compare, ACompare

(* a statement without parameters;                                         *)
LEMMA DoIs ==
  ASSUME NEW o \in Ops
  PROVE  Do(o) \in Seq(Statements) /\ Len(Do(o)) = 1 /\ Do(o)[1] = ADo(o)
  <1>1. ADo(o) \in Statements
    BY DEF ADo, Statements
  <1> QED BY <1>1, OneStatement DEF Do, ADo

(* an operation on the version row;                                        *)
LEMMA VersionIs ==
  ASSUME NEW o \in Ops, NEW name \in Names
  PROVE  /\ Version(o, name) \in Seq(Statements) /\ Len(Version(o, name)) = 1
         /\ Version(o, name)[1] = AVersion(o, name)
  <1>1. AVersion(o, name) \in Statements
    BY DEF AVersion, Statements
  <1> QED BY <1>1, OneStatement DEF Version, AVersion

(* and one statement for each of the three topics.                         *)
LEMMA EachIs ==
  ASSUME NEW o \in Ops, NEW name \in Names
  PROVE  /\ Each(o, name) \in Seq(Statements) /\ Len(Each(o, name)) = 3
         /\ \A i \in 1..3 : Each(o, name)[i] = AnEach(o, Topic3[i], name)
  <1>1. \A i \in 1..3 : Topic3[i] \in Watchers
    BY JourneyAssumption DEF Topic3
  <1> DEFINE e(i) == AnEach(o, Topic3[i], name)
  <1>2. \A i \in 1..3 : e(i) \in Statements
    BY <1>1 DEF Statements, AnEach
  <1>3. Each(o, name) = [i \in 1..3 |-> e(i)]
    BY DEF Each, AnEach
  <1> HIDE DEF e
  <1>4. [i \in 1..3 |-> e(i)] \in Seq(Statements) /\ Len([i \in 1..3 |-> e(i)]) = 3
    BY <1>2
  <1>5. \A i \in 1..3 : Each(o, name)[i] = e(i)
    BY <1>3
  <1> QED BY <1>3, <1>4, <1>5 DEF e

(* Three queries of the reopened file. *)
LEMMA ReopenedScopeIs ==
  /\ ReopenedScope \in Seq(Statements) /\ Len(ReopenedScope) = 3
  /\ \A i \in 1..3 : ReopenedScope[i] = AnEach("query", Topic3[i], "reopened")
  <1>1. "query" \in Ops /\ "reopened" \in Names
    BY DEF Ops, Names
  <1> QED BY <1>1, EachIs DEF ReopenedScope

(* The scenario of a plan that deriveM027TransferPlan accepts. *)
LEMMA ScenarioIs ==
  /\ {Source, Target} \subseteq Accounts
  /\ {SourceOpening, TargetOpening, Amount, Overdraft, PostAmount} \subseteq Int
  BY JourneyAssumption, EvolutionAssumption, CallersAssumption

(* The first scope of the transfer journey. *)
LEMMA FirstScopeIs ==
  /\ FirstScope \in Seq(Statements) /\ Len(FirstScope) = 18
  /\ FirstScope[1] = ACreate(Source, SourceOpening)
  /\ FirstScope[2] = ACreate(Target, TargetOpening)
  /\ \A i \in 1..3 : FirstScope[2 + i] = AnEach("subscribe", Topic3[i], "initial")
  /\ \A i \in 1..3 : FirstScope[5 + i] = AnEach("take", Topic3[i], "initial")
  /\ FirstScope[9] = AMove(Amount)
  /\ \A i \in 1..3 : FirstScope[9 + i] = AnEach("take", Topic3[i], "committed")
  /\ FirstScope[13] = AnOverdraft(Overdraft)
  /\ FirstScope[14] = ADo("count")
  /\ \A i \in 1..3 : FirstScope[14 + i] = AnEach("query", Topic3[i], "clean")
  /\ FirstScope[18] = ADo("close")
  <1> DEFINE e1 == Create(Source, SourceOpening)
             e2 == Create(Target, TargetOpening)
             e3 == Each("subscribe", "initial")
             e4 == Each("take", "initial")
             e5 == Move(Amount)
             e6 == Each("take", "committed")
             e7 == Overdraw(Overdraft)
             e8 == Do("count")
             e9 == Each("query", "clean")
             e10 == Do("close")
             q1 == e1
             q2 == Cat(q1, e2)
             q3 == Cat(q2, e3)
             q4 == Cat(q3, e4)
             q5 == Cat(q4, e5)
             q6 == Cat(q5, e6)
             q7 == Cat(q6, e7)
             q8 == Cat(q7, e8)
             q9 == Cat(q8, e9)
             q10 == Cat(q9, e10)
  <1>0. FirstScope = q10
    BY DEF FirstScope, Cat
  <1>1. /\ e1 \in Seq(Statements) /\ Len(e1) = 1
        /\ e1[1] = ACreate(Source, SourceOpening)
    BY CreateIs, ScenarioIs
  <1>2. /\ e2 \in Seq(Statements) /\ Len(e2) = 1
        /\ e2[1] = ACreate(Target, TargetOpening)
    BY CreateIs, ScenarioIs
  <1>3. /\ e3 \in Seq(Statements) /\ Len(e3) = 3
        /\ \A i \in 1..3 : e3[i] = AnEach("subscribe", Topic3[i], "initial")
    <2>1. "subscribe" \in Ops /\ "initial" \in Names
      BY DEF Ops, Names
    <2> QED BY <2>1, EachIs
  <1>4. /\ e4 \in Seq(Statements) /\ Len(e4) = 3
        /\ \A i \in 1..3 : e4[i] = AnEach("take", Topic3[i], "initial")
    <2>1. "take" \in Ops /\ "initial" \in Names
      BY DEF Ops, Names
    <2> QED BY <2>1, EachIs
  <1>5. /\ e5 \in Seq(Statements) /\ Len(e5) = 1
        /\ e5[1] = AMove(Amount)
    BY MoveIs, ScenarioIs
  <1>6. /\ e6 \in Seq(Statements) /\ Len(e6) = 3
        /\ \A i \in 1..3 : e6[i] = AnEach("take", Topic3[i], "committed")
    <2>1. "take" \in Ops /\ "committed" \in Names
      BY DEF Ops, Names
    <2> QED BY <2>1, EachIs
  <1>7. /\ e7 \in Seq(Statements) /\ Len(e7) = 1
        /\ e7[1] = AnOverdraft(Overdraft)
    BY OverdrawIs, ScenarioIs
  <1>8. /\ e8 \in Seq(Statements) /\ Len(e8) = 1
        /\ e8[1] = ADo("count")
    <2>1. "count" \in Ops
      BY DEF Ops, Names
    <2> QED BY <2>1, DoIs
  <1>9. /\ e9 \in Seq(Statements) /\ Len(e9) = 3
        /\ \A i \in 1..3 : e9[i] = AnEach("query", Topic3[i], "clean")
    <2>1. "query" \in Ops /\ "clean" \in Names
      BY DEF Ops, Names
    <2> QED BY <2>1, EachIs
  <1>10. /\ e10 \in Seq(Statements) /\ Len(e10) = 1
         /\ e10[1] = ADo("close")
    <2>1. "close" \in Ops
      BY DEF Ops, Names
    <2> QED BY <2>1, DoIs
  <1> HIDE DEF e1, e2, e3, e4, e5, e6, e7, e8, e9, e10
  <1>12. /\ q2 \in Seq(Statements) /\ Len(q2) = 2
         /\ \A k \in 1..1 : q2[k] = q1[k]
         /\ \A k \in 1..1 : q2[1 + k] = e2[k]
    <2>1. Joined(q1, e2)
      BY <1>1, <1>2, Parts
    <2> QED BY <1>1, <1>2, <2>1 DEF Joined
  <1> HIDE DEF q2
  <1>13. /\ q3 \in Seq(Statements) /\ Len(q3) = 5
         /\ \A k \in 1..2 : q3[k] = q2[k]
         /\ \A k \in 1..3 : q3[2 + k] = e3[k]
    <2>1. Joined(q2, e3)
      BY <1>12, <1>3, Parts
    <2> QED BY <1>12, <1>3, <2>1 DEF Joined
  <1> HIDE DEF q3
  <1>14. /\ q4 \in Seq(Statements) /\ Len(q4) = 8
         /\ \A k \in 1..5 : q4[k] = q3[k]
         /\ \A k \in 1..3 : q4[5 + k] = e4[k]
    <2>1. Joined(q3, e4)
      BY <1>13, <1>4, Parts
    <2> QED BY <1>13, <1>4, <2>1 DEF Joined
  <1> HIDE DEF q4
  <1>15. /\ q5 \in Seq(Statements) /\ Len(q5) = 9
         /\ \A k \in 1..8 : q5[k] = q4[k]
         /\ \A k \in 1..1 : q5[8 + k] = e5[k]
    <2>1. Joined(q4, e5)
      BY <1>14, <1>5, Parts
    <2> QED BY <1>14, <1>5, <2>1 DEF Joined
  <1> HIDE DEF q5
  <1>16. /\ q6 \in Seq(Statements) /\ Len(q6) = 12
         /\ \A k \in 1..9 : q6[k] = q5[k]
         /\ \A k \in 1..3 : q6[9 + k] = e6[k]
    <2>1. Joined(q5, e6)
      BY <1>15, <1>6, Parts
    <2> QED BY <1>15, <1>6, <2>1 DEF Joined
  <1> HIDE DEF q6
  <1>17. /\ q7 \in Seq(Statements) /\ Len(q7) = 13
         /\ \A k \in 1..12 : q7[k] = q6[k]
         /\ \A k \in 1..1 : q7[12 + k] = e7[k]
    <2>1. Joined(q6, e7)
      BY <1>16, <1>7, Parts
    <2> QED BY <1>16, <1>7, <2>1 DEF Joined
  <1> HIDE DEF q7
  <1>18. /\ q8 \in Seq(Statements) /\ Len(q8) = 14
         /\ \A k \in 1..13 : q8[k] = q7[k]
         /\ \A k \in 1..1 : q8[13 + k] = e8[k]
    <2>1. Joined(q7, e8)
      BY <1>17, <1>8, Parts
    <2> QED BY <1>17, <1>8, <2>1 DEF Joined
  <1> HIDE DEF q8
  <1>19. /\ q9 \in Seq(Statements) /\ Len(q9) = 17
         /\ \A k \in 1..14 : q9[k] = q8[k]
         /\ \A k \in 1..3 : q9[14 + k] = e9[k]
    <2>1. Joined(q8, e9)
      BY <1>18, <1>9, Parts
    <2> QED BY <1>18, <1>9, <2>1 DEF Joined
  <1> HIDE DEF q9
  <1>20. /\ q10 \in Seq(Statements) /\ Len(q10) = 18
         /\ \A k \in 1..17 : q10[k] = q9[k]
         /\ \A k \in 1..1 : q10[17 + k] = e10[k]
    <2>1. Joined(q9, e10)
      BY <1>19, <1>10, Parts
    <2> QED BY <1>19, <1>10, <2>1 DEF Joined
  <1> HIDE DEF q10
  <1>21. \A k \in 1..17 : FirstScope[k] = q9[k]
    BY <1>20, <1>0
  <1>22. \A k \in 1..14 : FirstScope[k] = q8[k]
    BY <1>19, <1>21
  <1>23. \A k \in 1..13 : FirstScope[k] = q7[k]
    BY <1>18, <1>22
  <1>24. \A k \in 1..12 : FirstScope[k] = q6[k]
    BY <1>17, <1>23
  <1>25. \A k \in 1..9 : FirstScope[k] = q5[k]
    BY <1>16, <1>24
  <1>26. \A k \in 1..8 : FirstScope[k] = q4[k]
    BY <1>15, <1>25
  <1>27. \A k \in 1..5 : FirstScope[k] = q3[k]
    BY <1>14, <1>26
  <1>28. \A k \in 1..2 : FirstScope[k] = q2[k]
    BY <1>13, <1>27
  <1>29. \A k \in 1..1 : FirstScope[k] = q1[k]
    BY <1>12, <1>28
  <1>30. FirstScope[1] = ACreate(Source, SourceOpening)
    BY <1>29, <1>1
  <1>31. FirstScope[2] = ACreate(Target, TargetOpening)
    BY <1>28, <1>2, <1>12
  <1>32. \A i \in 1..3 : FirstScope[2 + i] = AnEach("subscribe", Topic3[i], "initial")
    BY <1>27, <1>3, <1>13
  <1>33. \A i \in 1..3 : FirstScope[5 + i] = AnEach("take", Topic3[i], "initial")
    BY <1>26, <1>4, <1>14
  <1>34. FirstScope[9] = AMove(Amount)
    BY <1>25, <1>5, <1>15
  <1>35. \A i \in 1..3 : FirstScope[9 + i] = AnEach("take", Topic3[i], "committed")
    BY <1>24, <1>6, <1>16
  <1>36. FirstScope[13] = AnOverdraft(Overdraft)
    BY <1>23, <1>7, <1>17
  <1>37. FirstScope[14] = ADo("count")
    BY <1>22, <1>8, <1>18
  <1>38. \A i \in 1..3 : FirstScope[14 + i] = AnEach("query", Topic3[i], "clean")
    BY <1>21, <1>9, <1>19
  <1>39. FirstScope[18] = ADo("close")
    BY <1>0, <1>10, <1>20
  <1> QED BY <1>0, <1>20, <1>30, <1>31, <1>32, <1>33, <1>34, <1>35, <1>36, <1>37, <1>38, <1>39

(* What the evolution journey adds. *)
LEMMA EvolutionScriptIs ==
  /\ EvolutionScript \in Seq(Statements) /\ Len(EvolutionScript) = 20
  /\ EvolutionScript[1] = ADo("baseline")
  /\ EvolutionScript[2] = AVersion("initialize", "initialized")
  /\ EvolutionScript[3] = AVersion("read", "before")
  /\ EvolutionScript[4] = AVersion("cutover", "after")
  /\ \A i \in 1..3 : EvolutionScript[4 + i] = AnEach("query", Topic3[i], "afterCutover")
  /\ EvolutionScript[8] = ACompare("committed", "afterCutover")
  /\ EvolutionScript[9] = AMove(PostAmount)
  /\ \A i \in 1..3 : EvolutionScript[9 + i] = AnEach("query", Topic3[i], "afterTransfer")
  /\ EvolutionScript[13] = ADo("advance")
  /\ EvolutionScript[14] = ADo("close")
  /\ \A i \in 1..3 : EvolutionScript[14 + i] = AnEach("query", Topic3[i], "afterReopen")
  /\ EvolutionScript[18] = AVersion("read", "reopened")
  /\ EvolutionScript[19] = ACompare("afterTransfer", "afterReopen")
  /\ EvolutionScript[20] = ADo("sameVersion")
  <1> DEFINE e1 == Do("baseline")
             e2 == Version("initialize", "initialized")
             e3 == Version("read", "before")
             e4 == Version("cutover", "after")
             e5 == Each("query", "afterCutover")
             e6 == Compare("committed", "afterCutover")
             e7 == Move(PostAmount)
             e8 == Each("query", "afterTransfer")
             e9 == Do("advance")
             e10 == Do("close")
             e11 == Each("query", "afterReopen")
             e12 == Version("read", "reopened")
             e13 == Compare("afterTransfer", "afterReopen")
             e14 == Do("sameVersion")
             q1 == e1
             q2 == Cat(q1, e2)
             q3 == Cat(q2, e3)
             q4 == Cat(q3, e4)
             q5 == Cat(q4, e5)
             q6 == Cat(q5, e6)
             q7 == Cat(q6, e7)
             q8 == Cat(q7, e8)
             q9 == Cat(q8, e9)
             q10 == Cat(q9, e10)
             q11 == Cat(q10, e11)
             q12 == Cat(q11, e12)
             q13 == Cat(q12, e13)
             q14 == Cat(q13, e14)
  <1>0. EvolutionScript = q14
    BY DEF EvolutionScript, Cat
  <1>1. /\ e1 \in Seq(Statements) /\ Len(e1) = 1
        /\ e1[1] = ADo("baseline")
    <2>1. "baseline" \in Ops
      BY DEF Ops, Names
    <2> QED BY <2>1, DoIs
  <1>2. /\ e2 \in Seq(Statements) /\ Len(e2) = 1
        /\ e2[1] = AVersion("initialize", "initialized")
    <2>1. "initialize" \in Ops /\ "initialized" \in Names
      BY DEF Ops, Names
    <2> QED BY <2>1, VersionIs
  <1>3. /\ e3 \in Seq(Statements) /\ Len(e3) = 1
        /\ e3[1] = AVersion("read", "before")
    <2>1. "read" \in Ops /\ "before" \in Names
      BY DEF Ops, Names
    <2> QED BY <2>1, VersionIs
  <1>4. /\ e4 \in Seq(Statements) /\ Len(e4) = 1
        /\ e4[1] = AVersion("cutover", "after")
    <2>1. "cutover" \in Ops /\ "after" \in Names
      BY DEF Ops, Names
    <2> QED BY <2>1, VersionIs
  <1>5. /\ e5 \in Seq(Statements) /\ Len(e5) = 3
        /\ \A i \in 1..3 : e5[i] = AnEach("query", Topic3[i], "afterCutover")
    <2>1. "query" \in Ops /\ "afterCutover" \in Names
      BY DEF Ops, Names
    <2> QED BY <2>1, EachIs
  <1>6. /\ e6 \in Seq(Statements) /\ Len(e6) = 1
        /\ e6[1] = ACompare("committed", "afterCutover")
    <2>1. "committed" \in Names /\ "afterCutover" \in Names
      BY DEF Ops, Names
    <2> QED BY <2>1, CompareIs
  <1>7. /\ e7 \in Seq(Statements) /\ Len(e7) = 1
        /\ e7[1] = AMove(PostAmount)
    BY MoveIs, ScenarioIs
  <1>8. /\ e8 \in Seq(Statements) /\ Len(e8) = 3
        /\ \A i \in 1..3 : e8[i] = AnEach("query", Topic3[i], "afterTransfer")
    <2>1. "query" \in Ops /\ "afterTransfer" \in Names
      BY DEF Ops, Names
    <2> QED BY <2>1, EachIs
  <1>9. /\ e9 \in Seq(Statements) /\ Len(e9) = 1
        /\ e9[1] = ADo("advance")
    <2>1. "advance" \in Ops
      BY DEF Ops, Names
    <2> QED BY <2>1, DoIs
  <1>10. /\ e10 \in Seq(Statements) /\ Len(e10) = 1
         /\ e10[1] = ADo("close")
    <2>1. "close" \in Ops
      BY DEF Ops, Names
    <2> QED BY <2>1, DoIs
  <1>11. /\ e11 \in Seq(Statements) /\ Len(e11) = 3
         /\ \A i \in 1..3 : e11[i] = AnEach("query", Topic3[i], "afterReopen")
    <2>1. "query" \in Ops /\ "afterReopen" \in Names
      BY DEF Ops, Names
    <2> QED BY <2>1, EachIs
  <1>12. /\ e12 \in Seq(Statements) /\ Len(e12) = 1
         /\ e12[1] = AVersion("read", "reopened")
    <2>1. "read" \in Ops /\ "reopened" \in Names
      BY DEF Ops, Names
    <2> QED BY <2>1, VersionIs
  <1>13. /\ e13 \in Seq(Statements) /\ Len(e13) = 1
         /\ e13[1] = ACompare("afterTransfer", "afterReopen")
    <2>1. "afterTransfer" \in Names /\ "afterReopen" \in Names
      BY DEF Ops, Names
    <2> QED BY <2>1, CompareIs
  <1>14. /\ e14 \in Seq(Statements) /\ Len(e14) = 1
         /\ e14[1] = ADo("sameVersion")
    <2>1. "sameVersion" \in Ops
      BY DEF Ops, Names
    <2> QED BY <2>1, DoIs
  <1> HIDE DEF e1, e2, e3, e4, e5, e6, e7, e8, e9, e10, e11, e12, e13, e14
  <1>16. /\ q2 \in Seq(Statements) /\ Len(q2) = 2
         /\ \A k \in 1..1 : q2[k] = q1[k]
         /\ \A k \in 1..1 : q2[1 + k] = e2[k]
    <2>1. Joined(q1, e2)
      BY <1>1, <1>2, Parts
    <2> QED BY <1>1, <1>2, <2>1 DEF Joined
  <1> HIDE DEF q2
  <1>17. /\ q3 \in Seq(Statements) /\ Len(q3) = 3
         /\ \A k \in 1..2 : q3[k] = q2[k]
         /\ \A k \in 1..1 : q3[2 + k] = e3[k]
    <2>1. Joined(q2, e3)
      BY <1>16, <1>3, Parts
    <2> QED BY <1>16, <1>3, <2>1 DEF Joined
  <1> HIDE DEF q3
  <1>18. /\ q4 \in Seq(Statements) /\ Len(q4) = 4
         /\ \A k \in 1..3 : q4[k] = q3[k]
         /\ \A k \in 1..1 : q4[3 + k] = e4[k]
    <2>1. Joined(q3, e4)
      BY <1>17, <1>4, Parts
    <2> QED BY <1>17, <1>4, <2>1 DEF Joined
  <1> HIDE DEF q4
  <1>19. /\ q5 \in Seq(Statements) /\ Len(q5) = 7
         /\ \A k \in 1..4 : q5[k] = q4[k]
         /\ \A k \in 1..3 : q5[4 + k] = e5[k]
    <2>1. Joined(q4, e5)
      BY <1>18, <1>5, Parts
    <2> QED BY <1>18, <1>5, <2>1 DEF Joined
  <1> HIDE DEF q5
  <1>20. /\ q6 \in Seq(Statements) /\ Len(q6) = 8
         /\ \A k \in 1..7 : q6[k] = q5[k]
         /\ \A k \in 1..1 : q6[7 + k] = e6[k]
    <2>1. Joined(q5, e6)
      BY <1>19, <1>6, Parts
    <2> QED BY <1>19, <1>6, <2>1 DEF Joined
  <1> HIDE DEF q6
  <1>21. /\ q7 \in Seq(Statements) /\ Len(q7) = 9
         /\ \A k \in 1..8 : q7[k] = q6[k]
         /\ \A k \in 1..1 : q7[8 + k] = e7[k]
    <2>1. Joined(q6, e7)
      BY <1>20, <1>7, Parts
    <2> QED BY <1>20, <1>7, <2>1 DEF Joined
  <1> HIDE DEF q7
  <1>22. /\ q8 \in Seq(Statements) /\ Len(q8) = 12
         /\ \A k \in 1..9 : q8[k] = q7[k]
         /\ \A k \in 1..3 : q8[9 + k] = e8[k]
    <2>1. Joined(q7, e8)
      BY <1>21, <1>8, Parts
    <2> QED BY <1>21, <1>8, <2>1 DEF Joined
  <1> HIDE DEF q8
  <1>23. /\ q9 \in Seq(Statements) /\ Len(q9) = 13
         /\ \A k \in 1..12 : q9[k] = q8[k]
         /\ \A k \in 1..1 : q9[12 + k] = e9[k]
    <2>1. Joined(q8, e9)
      BY <1>22, <1>9, Parts
    <2> QED BY <1>22, <1>9, <2>1 DEF Joined
  <1> HIDE DEF q9
  <1>24. /\ q10 \in Seq(Statements) /\ Len(q10) = 14
         /\ \A k \in 1..13 : q10[k] = q9[k]
         /\ \A k \in 1..1 : q10[13 + k] = e10[k]
    <2>1. Joined(q9, e10)
      BY <1>23, <1>10, Parts
    <2> QED BY <1>23, <1>10, <2>1 DEF Joined
  <1> HIDE DEF q10
  <1>25. /\ q11 \in Seq(Statements) /\ Len(q11) = 17
         /\ \A k \in 1..14 : q11[k] = q10[k]
         /\ \A k \in 1..3 : q11[14 + k] = e11[k]
    <2>1. Joined(q10, e11)
      BY <1>24, <1>11, Parts
    <2> QED BY <1>24, <1>11, <2>1 DEF Joined
  <1> HIDE DEF q11
  <1>26. /\ q12 \in Seq(Statements) /\ Len(q12) = 18
         /\ \A k \in 1..17 : q12[k] = q11[k]
         /\ \A k \in 1..1 : q12[17 + k] = e12[k]
    <2>1. Joined(q11, e12)
      BY <1>25, <1>12, Parts
    <2> QED BY <1>25, <1>12, <2>1 DEF Joined
  <1> HIDE DEF q12
  <1>27. /\ q13 \in Seq(Statements) /\ Len(q13) = 19
         /\ \A k \in 1..18 : q13[k] = q12[k]
         /\ \A k \in 1..1 : q13[18 + k] = e13[k]
    <2>1. Joined(q12, e13)
      BY <1>26, <1>13, Parts
    <2> QED BY <1>26, <1>13, <2>1 DEF Joined
  <1> HIDE DEF q13
  <1>28. /\ q14 \in Seq(Statements) /\ Len(q14) = 20
         /\ \A k \in 1..19 : q14[k] = q13[k]
         /\ \A k \in 1..1 : q14[19 + k] = e14[k]
    <2>1. Joined(q13, e14)
      BY <1>27, <1>14, Parts
    <2> QED BY <1>27, <1>14, <2>1 DEF Joined
  <1> HIDE DEF q14
  <1>29. \A k \in 1..19 : EvolutionScript[k] = q13[k]
    BY <1>28, <1>0
  <1>30. ASSUME NEW k \in 1..18 PROVE EvolutionScript[k] = q12[k]
    <2>1. k \in 1..19
      OBVIOUS
    <2>2. EvolutionScript[k] = q13[k]
      BY <2>1, <1>29
    <2>3. q13[k] = q12[k]
      BY <1>27
    <2> QED BY <2>2, <2>3
  <1>31. \A k \in 1..17 : EvolutionScript[k] = q11[k]
    BY <1>26, <1>30
  <1>32. \A k \in 1..14 : EvolutionScript[k] = q10[k]
    BY <1>25, <1>31
  <1>33. \A k \in 1..13 : EvolutionScript[k] = q9[k]
    BY <1>24, <1>32
  <1>34. \A k \in 1..12 : EvolutionScript[k] = q8[k]
    BY <1>23, <1>33
  <1>35. \A k \in 1..9 : EvolutionScript[k] = q7[k]
    BY <1>22, <1>34
  <1>36. \A k \in 1..8 : EvolutionScript[k] = q6[k]
    BY <1>21, <1>35
  <1>37. \A k \in 1..7 : EvolutionScript[k] = q5[k]
    BY <1>20, <1>36
  <1>38. \A k \in 1..4 : EvolutionScript[k] = q4[k]
    BY <1>19, <1>37
  <1>39. \A k \in 1..3 : EvolutionScript[k] = q3[k]
    BY <1>18, <1>38
  <1>40. \A k \in 1..2 : EvolutionScript[k] = q2[k]
    BY <1>17, <1>39
  <1>41. \A k \in 1..1 : EvolutionScript[k] = q1[k]
    BY <1>16, <1>40
  <1>42. EvolutionScript[1] = ADo("baseline")
    BY <1>41, <1>1
  <1>43. EvolutionScript[2] = AVersion("initialize", "initialized")
    BY <1>40, <1>2, <1>16
  <1>44. EvolutionScript[3] = AVersion("read", "before")
    BY <1>39, <1>3, <1>17
  <1>45. EvolutionScript[4] = AVersion("cutover", "after")
    BY <1>38, <1>4, <1>18
  <1>46. \A i \in 1..3 : EvolutionScript[4 + i] = AnEach("query", Topic3[i], "afterCutover")
    BY <1>37, <1>5, <1>19
  <1>47. EvolutionScript[8] = ACompare("committed", "afterCutover")
    BY <1>36, <1>6, <1>20
  <1>48. EvolutionScript[9] = AMove(PostAmount)
    BY <1>35, <1>7, <1>21
  <1>49. \A i \in 1..3 : EvolutionScript[9 + i] = AnEach("query", Topic3[i], "afterTransfer")
    BY <1>34, <1>8, <1>22
  <1>50. EvolutionScript[13] = ADo("advance")
    BY <1>33, <1>9, <1>23
  <1>51. EvolutionScript[14] = ADo("close")
    BY <1>32, <1>10, <1>24
  <1>52. \A i \in 1..3 : EvolutionScript[14 + i] = AnEach("query", Topic3[i], "afterReopen")
    BY <1>31, <1>11, <1>25
  <1>53. EvolutionScript[18] = AVersion("read", "reopened")
    BY <1>30, <1>12, <1>26
  <1>54. EvolutionScript[19] = ACompare("afterTransfer", "afterReopen")
    BY <1>29, <1>13, <1>27
  <1>55. EvolutionScript[20] = ADo("sameVersion")
    BY <1>0, <1>14, <1>28
  <1> QED BY <1>0, <1>28, <1>42, <1>43, <1>44, <1>45, <1>46, <1>47, <1>48, <1>49, <1>50, <1>51, <1>52, <1>53, <1>54, <1>55

(* The whole script, by its parts. *)
LEMMA ScriptIs ==
  /\ Script \in Seq(Statements) /\ Len(Script) = 44
  /\ \A i \in 1..18 : Script[i] = FirstScope[i]
  /\ \A i \in 1..3 : Script[18 + i] = ReopenedScope[i]
  /\ Script[22] = ACompare("committed", "clean")
  /\ Script[23] = ACompare("clean", "reopened")
  /\ \A i \in 1..20 : Script[23 + i] = Continuation[i]
  /\ Script[44] = ADo("done")
  <1> DEFINE e1 == FirstScope
             e2 == ReopenedScope
             e3 == Compare("committed", "clean")
             e4 == Compare("clean", "reopened")
             e5 == Continuation
             e6 == Do("done")
             q1 == e1
             q2 == Cat(q1, e2)
             q3 == Cat(q2, e3)
             q4 == Cat(q3, e4)
             q5 == Cat(q4, e5)
             q6 == Cat(q5, e6)
  <1>0. Script = q6
    BY DEF Script, Cat
  <1>1. /\ e1 \in Seq(Statements) /\ Len(e1) = 18
    BY FirstScopeIs
  <1>2. /\ e2 \in Seq(Statements) /\ Len(e2) = 3
    BY ReopenedScopeIs
  <1>3. /\ e3 \in Seq(Statements) /\ Len(e3) = 1
        /\ e3[1] = ACompare("committed", "clean")
    <2>1. "committed" \in Names /\ "clean" \in Names
      BY DEF Ops, Names
    <2> QED BY <2>1, CompareIs
  <1>4. /\ e4 \in Seq(Statements) /\ Len(e4) = 1
        /\ e4[1] = ACompare("clean", "reopened")
    <2>1. "clean" \in Names /\ "reopened" \in Names
      BY DEF Ops, Names
    <2> QED BY <2>1, CompareIs
  <1>5. /\ e5 \in Seq(Statements) /\ Len(e5) = 20
    BY EvolutionScriptIs, EvolutionAssumption
  <1>6. /\ e6 \in Seq(Statements) /\ Len(e6) = 1
        /\ e6[1] = ADo("done")
    <2>1. "done" \in Ops
      BY DEF Ops, Names
    <2> QED BY <2>1, DoIs
  <1> HIDE DEF e1, e2, e3, e4, e5, e6
  <1>8. /\ q2 \in Seq(Statements) /\ Len(q2) = 21
        /\ \A k \in 1..18 : q2[k] = q1[k]
        /\ \A k \in 1..3 : q2[18 + k] = e2[k]
    <2>1. Joined(q1, e2)
      BY <1>1, <1>2, Parts
    <2> QED BY <1>1, <1>2, <2>1 DEF Joined
  <1> HIDE DEF q2
  <1>9. /\ q3 \in Seq(Statements) /\ Len(q3) = 22
        /\ \A k \in 1..21 : q3[k] = q2[k]
        /\ \A k \in 1..1 : q3[21 + k] = e3[k]
    <2>1. Joined(q2, e3)
      BY <1>8, <1>3, Parts
    <2> QED BY <1>8, <1>3, <2>1 DEF Joined
  <1> HIDE DEF q3
  <1>10. /\ q4 \in Seq(Statements) /\ Len(q4) = 23
         /\ \A k \in 1..22 : q4[k] = q3[k]
         /\ \A k \in 1..1 : q4[22 + k] = e4[k]
    <2>1. Joined(q3, e4)
      BY <1>9, <1>4, Parts
    <2> QED BY <1>9, <1>4, <2>1 DEF Joined
  <1> HIDE DEF q4
  <1>11. /\ q5 \in Seq(Statements) /\ Len(q5) = 43
         /\ \A k \in 1..23 : q5[k] = q4[k]
         /\ \A k \in 1..20 : q5[23 + k] = e5[k]
    <2>1. Joined(q4, e5)
      BY <1>10, <1>5, Parts
    <2> QED BY <1>10, <1>5, <2>1 DEF Joined
  <1> HIDE DEF q5
  <1>12. /\ q6 \in Seq(Statements) /\ Len(q6) = 44
         /\ \A k \in 1..43 : q6[k] = q5[k]
         /\ \A k \in 1..1 : q6[43 + k] = e6[k]
    <2>1. Joined(q5, e6)
      BY <1>11, <1>6, Parts
    <2> QED BY <1>11, <1>6, <2>1 DEF Joined
  <1> HIDE DEF q6
  <1>13. \A k \in 1..43 : Script[k] = q5[k]
    <2>1. \A k \in 1..43 : k \in 1..44
      OBVIOUS
    <2>2. \A k \in 1..43 : q6[k] = q5[k]
      BY <1>12
    <2> QED BY <1>0, <2>1, <2>2, Zenon
  <1>14. \A k \in 1..23 : Script[k] = q4[k]
    <2>1. \A k \in 1..23 : k \in 1..43
      OBVIOUS
    <2>2. \A k \in 1..23 : q5[k] = q4[k]
      BY <1>11
    <2> QED BY <1>13, <2>1, <2>2, Zenon
  <1>15. \A k \in 1..22 : Script[k] = q3[k]
    <2>1. \A k \in 1..22 : k \in 1..23
      OBVIOUS
    <2>2. \A k \in 1..22 : q4[k] = q3[k]
      BY <1>10
    <2> QED BY <1>14, <2>1, <2>2, Zenon
  <1>16. \A k \in 1..21 : Script[k] = q2[k]
    <2>1. \A k \in 1..21 : k \in 1..22
      OBVIOUS
    <2>2. \A k \in 1..21 : q3[k] = q2[k]
      BY <1>9
    <2> QED BY <1>15, <2>1, <2>2, Zenon
  <1>17. \A k \in 1..18 : Script[k] = q1[k]
    <2>1. \A k \in 1..18 : k \in 1..21
      OBVIOUS
    <2>2. \A k \in 1..18 : q2[k] = q1[k]
      BY <1>8
    <2> QED BY <1>16, <2>1, <2>2, Zenon
  <1>18. \A i \in 1..18 : Script[i] = FirstScope[i]
    BY <1>17, <1>1 DEF e1
  <1>19. \A i \in 1..3 : Script[18 + i] = ReopenedScope[i]
    <2>1. \A i \in 1..3 : 18 + i \in 1..21
      OBVIOUS
    <2>2. Joined(q1, e2)
      BY <1>1, <1>2, Parts
    <2>3. \A i \in 1..3 : q2[18 + i] = e2[i]
      BY <1>1, <1>2, <2>2 DEF Joined, q2
    <2> QED BY <1>16, <2>1, <2>3, Zenon DEF e2
  <1>20. Script[22] = ACompare("committed", "clean")
    BY <1>15, <1>3, <1>9
  <1>21. Script[23] = ACompare("clean", "reopened")
    BY <1>14, <1>4, <1>10
  <1>22. \A i \in 1..20 : Script[23 + i] = Continuation[i]
    <2>1. \A i \in 1..20 : 23 + i \in 1..43
      OBVIOUS
    <2>2. Joined(q4, e5)
      BY <1>10, <1>5, Parts
    <2>3. \A i \in 1..20 : q5[23 + i] = e5[i]
      BY <1>10, <1>5, <2>2 DEF Joined, q5
    <2> QED BY <1>13, <2>1, <2>3, Zenon DEF e5
  <1>23. Script[44] = ADo("done")
    BY <1>0, <1>6, <1>12
  <1> QED BY <1>0, <1>12, <1>18, <1>19, <1>20, <1>21, <1>22, <1>23

(* The statement at each place. *)
LEMMA ScriptTable ==
  /\ Script \in Seq(Statements) /\ Len(Script) = 44
  /\ Script[1] = ACreate(Source, SourceOpening)
  /\ Script[2] = ACreate(Target, TargetOpening)
  /\ Script[3] = AnEach("subscribe", Topic3[1], "initial")
  /\ Script[4] = AnEach("subscribe", Topic3[2], "initial")
  /\ Script[5] = AnEach("subscribe", Topic3[3], "initial")
  /\ Script[6] = AnEach("take", Topic3[1], "initial")
  /\ Script[7] = AnEach("take", Topic3[2], "initial")
  /\ Script[8] = AnEach("take", Topic3[3], "initial")
  /\ Script[9] = AMove(Amount)
  /\ Script[10] = AnEach("take", Topic3[1], "committed")
  /\ Script[11] = AnEach("take", Topic3[2], "committed")
  /\ Script[12] = AnEach("take", Topic3[3], "committed")
  /\ Script[13] = AnOverdraft(Overdraft)
  /\ Script[14] = ADo("count")
  /\ Script[15] = AnEach("query", Topic3[1], "clean")
  /\ Script[16] = AnEach("query", Topic3[2], "clean")
  /\ Script[17] = AnEach("query", Topic3[3], "clean")
  /\ Script[18] = ADo("close")
  /\ Script[19] = AnEach("query", Topic3[1], "reopened")
  /\ Script[20] = AnEach("query", Topic3[2], "reopened")
  /\ Script[21] = AnEach("query", Topic3[3], "reopened")
  /\ Script[22] = ACompare("committed", "clean")
  /\ Script[23] = ACompare("clean", "reopened")
  /\ Script[24] = ADo("baseline")
  /\ Script[25] = AVersion("initialize", "initialized")
  /\ Script[26] = AVersion("read", "before")
  /\ Script[27] = AVersion("cutover", "after")
  /\ Script[28] = AnEach("query", Topic3[1], "afterCutover")
  /\ Script[29] = AnEach("query", Topic3[2], "afterCutover")
  /\ Script[30] = AnEach("query", Topic3[3], "afterCutover")
  /\ Script[31] = ACompare("committed", "afterCutover")
  /\ Script[32] = AMove(PostAmount)
  /\ Script[33] = AnEach("query", Topic3[1], "afterTransfer")
  /\ Script[34] = AnEach("query", Topic3[2], "afterTransfer")
  /\ Script[35] = AnEach("query", Topic3[3], "afterTransfer")
  /\ Script[36] = ADo("advance")
  /\ Script[37] = ADo("close")
  /\ Script[38] = AnEach("query", Topic3[1], "afterReopen")
  /\ Script[39] = AnEach("query", Topic3[2], "afterReopen")
  /\ Script[40] = AnEach("query", Topic3[3], "afterReopen")
  /\ Script[41] = AVersion("read", "reopened")
  /\ Script[42] = ACompare("afterTransfer", "afterReopen")
  /\ Script[43] = ADo("sameVersion")
  /\ Script[44] = ADo("done")
  <1>1. \A k \in 1..18 : Script[k] = FirstScope[k]
    BY ScriptIs
  <1>2. Script[19] = ReopenedScope[1] /\ Script[20] = ReopenedScope[2] /\ Script[21] = ReopenedScope[3]
    <2>1. \A i \in 1..3 : Script[18 + i] = ReopenedScope[i]
      BY ScriptIs
    <2> QED BY <2>1
  <1>3. \A i \in 1..20 : Script[23 + i] = EvolutionScript[i]
    BY ScriptIs, EvolutionAssumption
  <1>4. Script[1] = ACreate(Source, SourceOpening)
    <2>1. FirstScope[1] = ACreate(Source, SourceOpening)
      BY FirstScopeIs
    <2> QED BY <1>1, <2>1
  <1>5. Script[2] = ACreate(Target, TargetOpening)
    <2>1. FirstScope[2] = ACreate(Target, TargetOpening)
      BY FirstScopeIs
    <2> QED BY <1>1, <2>1
  <1>6. Script[3] = AnEach("subscribe", Topic3[1], "initial")
    <2>1. FirstScope[3] = AnEach("subscribe", Topic3[1], "initial")
      BY FirstScopeIs
    <2> QED BY <1>1, <2>1
  <1>7. Script[4] = AnEach("subscribe", Topic3[2], "initial")
    <2>1. FirstScope[4] = AnEach("subscribe", Topic3[2], "initial")
      BY FirstScopeIs
    <2> QED BY <1>1, <2>1
  <1>8. Script[5] = AnEach("subscribe", Topic3[3], "initial")
    <2>1. FirstScope[5] = AnEach("subscribe", Topic3[3], "initial")
      BY FirstScopeIs
    <2> QED BY <1>1, <2>1
  <1>9. Script[6] = AnEach("take", Topic3[1], "initial")
    <2>1. FirstScope[6] = AnEach("take", Topic3[1], "initial")
      BY FirstScopeIs
    <2> QED BY <1>1, <2>1
  <1>10. Script[7] = AnEach("take", Topic3[2], "initial")
    <2>1. FirstScope[7] = AnEach("take", Topic3[2], "initial")
      BY FirstScopeIs
    <2> QED BY <1>1, <2>1
  <1>11. Script[8] = AnEach("take", Topic3[3], "initial")
    <2>1. FirstScope[8] = AnEach("take", Topic3[3], "initial")
      BY FirstScopeIs
    <2> QED BY <1>1, <2>1
  <1>12. Script[9] = AMove(Amount)
    <2>1. FirstScope[9] = AMove(Amount)
      BY FirstScopeIs
    <2> QED BY <1>1, <2>1
  <1>13. Script[10] = AnEach("take", Topic3[1], "committed")
    <2>1. FirstScope[10] = AnEach("take", Topic3[1], "committed")
      BY FirstScopeIs
    <2> QED BY <1>1, <2>1
  <1>14. Script[11] = AnEach("take", Topic3[2], "committed")
    <2>1. FirstScope[11] = AnEach("take", Topic3[2], "committed")
      BY FirstScopeIs
    <2> QED BY <1>1, <2>1
  <1>15. Script[12] = AnEach("take", Topic3[3], "committed")
    <2>1. FirstScope[12] = AnEach("take", Topic3[3], "committed")
      BY FirstScopeIs
    <2> QED BY <1>1, <2>1
  <1>16. Script[13] = AnOverdraft(Overdraft)
    <2>1. FirstScope[13] = AnOverdraft(Overdraft)
      BY FirstScopeIs
    <2> QED BY <1>1, <2>1
  <1>17. Script[14] = ADo("count")
    <2>1. FirstScope[14] = ADo("count")
      BY FirstScopeIs
    <2> QED BY <1>1, <2>1
  <1>18. Script[15] = AnEach("query", Topic3[1], "clean")
    <2>1. FirstScope[15] = AnEach("query", Topic3[1], "clean")
      BY FirstScopeIs
    <2> QED BY <1>1, <2>1
  <1>19. Script[16] = AnEach("query", Topic3[2], "clean")
    <2>1. FirstScope[16] = AnEach("query", Topic3[2], "clean")
      BY FirstScopeIs
    <2> QED BY <1>1, <2>1
  <1>20. Script[17] = AnEach("query", Topic3[3], "clean")
    <2>1. FirstScope[17] = AnEach("query", Topic3[3], "clean")
      BY FirstScopeIs
    <2> QED BY <1>1, <2>1
  <1>21. Script[18] = ADo("close")
    <2>1. FirstScope[18] = ADo("close")
      BY FirstScopeIs
    <2> QED BY <1>1, <2>1
  <1>22. Script[19] = AnEach("query", Topic3[1], "reopened")
    BY <1>2, ReopenedScopeIs
  <1>23. Script[20] = AnEach("query", Topic3[2], "reopened")
    BY <1>2, ReopenedScopeIs
  <1>24. Script[21] = AnEach("query", Topic3[3], "reopened")
    BY <1>2, ReopenedScopeIs
  <1>25. Script[22] = ACompare("committed", "clean")
    BY ScriptIs
  <1>26. Script[23] = ACompare("clean", "reopened")
    BY ScriptIs
  <1>27. Script[24] = ADo("baseline")
    <2>1. EvolutionScript[1] = ADo("baseline")
      BY EvolutionScriptIs
    <2>2. Script[23 + 1] = EvolutionScript[1]
      BY <1>3
    <2> QED BY <2>1, <2>2
  <1>28. Script[25] = AVersion("initialize", "initialized")
    <2>1. EvolutionScript[2] = AVersion("initialize", "initialized")
      BY EvolutionScriptIs
    <2>2. Script[23 + 2] = EvolutionScript[2]
      BY <1>3
    <2> QED BY <2>1, <2>2
  <1>29. Script[26] = AVersion("read", "before")
    <2>1. EvolutionScript[3] = AVersion("read", "before")
      BY EvolutionScriptIs
    <2>2. Script[23 + 3] = EvolutionScript[3]
      BY <1>3
    <2> QED BY <2>1, <2>2
  <1>30. Script[27] = AVersion("cutover", "after")
    <2>1. EvolutionScript[4] = AVersion("cutover", "after")
      BY EvolutionScriptIs
    <2>2. Script[23 + 4] = EvolutionScript[4]
      BY <1>3
    <2> QED BY <2>1, <2>2
  <1>31. Script[28] = AnEach("query", Topic3[1], "afterCutover")
    <2>1. EvolutionScript[5] = AnEach("query", Topic3[1], "afterCutover")
      BY EvolutionScriptIs
    <2>2. Script[23 + 5] = EvolutionScript[5]
      BY <1>3
    <2> QED BY <2>1, <2>2
  <1>32. Script[29] = AnEach("query", Topic3[2], "afterCutover")
    <2>1. EvolutionScript[6] = AnEach("query", Topic3[2], "afterCutover")
      BY EvolutionScriptIs
    <2>2. Script[23 + 6] = EvolutionScript[6]
      BY <1>3
    <2> QED BY <2>1, <2>2
  <1>33. Script[30] = AnEach("query", Topic3[3], "afterCutover")
    <2>1. EvolutionScript[7] = AnEach("query", Topic3[3], "afterCutover")
      BY EvolutionScriptIs
    <2>2. Script[23 + 7] = EvolutionScript[7]
      BY <1>3
    <2> QED BY <2>1, <2>2
  <1>34. Script[31] = ACompare("committed", "afterCutover")
    <2>1. EvolutionScript[8] = ACompare("committed", "afterCutover")
      BY EvolutionScriptIs
    <2>2. Script[23 + 8] = EvolutionScript[8]
      BY <1>3
    <2> QED BY <2>1, <2>2
  <1>35. Script[32] = AMove(PostAmount)
    <2>1. EvolutionScript[9] = AMove(PostAmount)
      BY EvolutionScriptIs
    <2>2. Script[23 + 9] = EvolutionScript[9]
      BY <1>3
    <2> QED BY <2>1, <2>2
  <1>36. Script[33] = AnEach("query", Topic3[1], "afterTransfer")
    <2>1. EvolutionScript[10] = AnEach("query", Topic3[1], "afterTransfer")
      BY EvolutionScriptIs
    <2>2. Script[23 + 10] = EvolutionScript[10]
      BY <1>3
    <2> QED BY <2>1, <2>2
  <1>37. Script[34] = AnEach("query", Topic3[2], "afterTransfer")
    <2>1. EvolutionScript[11] = AnEach("query", Topic3[2], "afterTransfer")
      BY EvolutionScriptIs
    <2>2. Script[23 + 11] = EvolutionScript[11]
      BY <1>3
    <2> QED BY <2>1, <2>2
  <1>38. Script[35] = AnEach("query", Topic3[3], "afterTransfer")
    <2>1. EvolutionScript[12] = AnEach("query", Topic3[3], "afterTransfer")
      BY EvolutionScriptIs
    <2>2. Script[23 + 12] = EvolutionScript[12]
      BY <1>3
    <2> QED BY <2>1, <2>2
  <1>39. Script[36] = ADo("advance")
    <2>1. EvolutionScript[13] = ADo("advance")
      BY EvolutionScriptIs
    <2>2. Script[23 + 13] = EvolutionScript[13]
      BY <1>3
    <2> QED BY <2>1, <2>2
  <1>40. Script[37] = ADo("close")
    <2>1. EvolutionScript[14] = ADo("close")
      BY EvolutionScriptIs
    <2>2. Script[23 + 14] = EvolutionScript[14]
      BY <1>3
    <2> QED BY <2>1, <2>2
  <1>41. Script[38] = AnEach("query", Topic3[1], "afterReopen")
    <2>1. EvolutionScript[15] = AnEach("query", Topic3[1], "afterReopen")
      BY EvolutionScriptIs
    <2>2. Script[23 + 15] = EvolutionScript[15]
      BY <1>3
    <2> QED BY <2>1, <2>2
  <1>42. Script[39] = AnEach("query", Topic3[2], "afterReopen")
    <2>1. EvolutionScript[16] = AnEach("query", Topic3[2], "afterReopen")
      BY EvolutionScriptIs
    <2>2. Script[23 + 16] = EvolutionScript[16]
      BY <1>3
    <2> QED BY <2>1, <2>2
  <1>43. Script[40] = AnEach("query", Topic3[3], "afterReopen")
    <2>1. EvolutionScript[17] = AnEach("query", Topic3[3], "afterReopen")
      BY EvolutionScriptIs
    <2>2. Script[23 + 17] = EvolutionScript[17]
      BY <1>3
    <2> QED BY <2>1, <2>2
  <1>44. Script[41] = AVersion("read", "reopened")
    <2>1. EvolutionScript[18] = AVersion("read", "reopened")
      BY EvolutionScriptIs
    <2>2. Script[23 + 18] = EvolutionScript[18]
      BY <1>3
    <2> QED BY <2>1, <2>2
  <1>45. Script[42] = ACompare("afterTransfer", "afterReopen")
    <2>1. EvolutionScript[19] = ACompare("afterTransfer", "afterReopen")
      BY EvolutionScriptIs
    <2>2. Script[23 + 19] = EvolutionScript[19]
      BY <1>3
    <2> QED BY <2>1, <2>2
  <1>46. Script[43] = ADo("sameVersion")
    <2>1. EvolutionScript[20] = ADo("sameVersion")
      BY EvolutionScriptIs
    <2>2. Script[23 + 20] = EvolutionScript[20]
      BY <1>3
    <2> QED BY <2>1, <2>2
  <1>47. Script[44] = ADo("done")
    BY ScriptIs
  <1> QED BY ScriptIs, <1>4, <1>5, <1>6, <1>7, <1>8, <1>9, <1>10, <1>11, <1>12, <1>13, <1>14, <1>15, <1>16, <1>17, <1>18, <1>19, <1>20, <1>21, <1>22, <1>23, <1>24, <1>25, <1>26, <1>27, <1>28, <1>29, <1>30, <1>31, <1>32, <1>33, <1>34, <1>35, <1>36, <1>37, <1>38, <1>39, <1>40, <1>41, <1>42, <1>43, <1>44, <1>45, <1>46, <1>47

(* The operation at each place. *)
LEMMA OpTable ==
  /\ Script[1].op = "create"
  /\ Script[2].op = "create"
  /\ Script[3].op = "subscribe"
  /\ Script[4].op = "subscribe"
  /\ Script[5].op = "subscribe"
  /\ Script[6].op = "take"
  /\ Script[7].op = "take"
  /\ Script[8].op = "take"
  /\ Script[9].op = "transfer"
  /\ Script[10].op = "take"
  /\ Script[11].op = "take"
  /\ Script[12].op = "take"
  /\ Script[13].op = "overdraft"
  /\ Script[14].op = "count"
  /\ Script[15].op = "query"
  /\ Script[16].op = "query"
  /\ Script[17].op = "query"
  /\ Script[18].op = "close"
  /\ Script[19].op = "query"
  /\ Script[20].op = "query"
  /\ Script[21].op = "query"
  /\ Script[22].op = "compare"
  /\ Script[23].op = "compare"
  /\ Script[24].op = "baseline"
  /\ Script[25].op = "initialize"
  /\ Script[26].op = "read"
  /\ Script[27].op = "cutover"
  /\ Script[28].op = "query"
  /\ Script[29].op = "query"
  /\ Script[30].op = "query"
  /\ Script[31].op = "compare"
  /\ Script[32].op = "transfer"
  /\ Script[33].op = "query"
  /\ Script[34].op = "query"
  /\ Script[35].op = "query"
  /\ Script[36].op = "advance"
  /\ Script[37].op = "close"
  /\ Script[38].op = "query"
  /\ Script[39].op = "query"
  /\ Script[40].op = "query"
  /\ Script[41].op = "read"
  /\ Script[42].op = "compare"
  /\ Script[43].op = "sameVersion"
  /\ Script[44].op = "done"
  <1>1. Script[1].op = "create"
    <2>1. Script[1] = ACreate(Source, SourceOpening)
      BY ScriptTable
    <2> QED BY <2>1 DEF ACreate
  <1>2. Script[2].op = "create"
    <2>1. Script[2] = ACreate(Target, TargetOpening)
      BY ScriptTable
    <2> QED BY <2>1 DEF ACreate
  <1>3. Script[3].op = "subscribe"
    <2>1. Script[3] = AnEach("subscribe", Topic3[1], "initial")
      BY ScriptTable
    <2> QED BY <2>1 DEF AnEach
  <1>4. Script[4].op = "subscribe"
    <2>1. Script[4] = AnEach("subscribe", Topic3[2], "initial")
      BY ScriptTable
    <2> QED BY <2>1 DEF AnEach
  <1>5. Script[5].op = "subscribe"
    <2>1. Script[5] = AnEach("subscribe", Topic3[3], "initial")
      BY ScriptTable
    <2> QED BY <2>1 DEF AnEach
  <1>6. Script[6].op = "take"
    <2>1. Script[6] = AnEach("take", Topic3[1], "initial")
      BY ScriptTable
    <2> QED BY <2>1 DEF AnEach
  <1>7. Script[7].op = "take"
    <2>1. Script[7] = AnEach("take", Topic3[2], "initial")
      BY ScriptTable
    <2> QED BY <2>1 DEF AnEach
  <1>8. Script[8].op = "take"
    <2>1. Script[8] = AnEach("take", Topic3[3], "initial")
      BY ScriptTable
    <2> QED BY <2>1 DEF AnEach
  <1>9. Script[9].op = "transfer"
    <2>1. Script[9] = AMove(Amount)
      BY ScriptTable
    <2> QED BY <2>1 DEF AMove
  <1>10. Script[10].op = "take"
    <2>1. Script[10] = AnEach("take", Topic3[1], "committed")
      BY ScriptTable
    <2> QED BY <2>1 DEF AnEach
  <1>11. Script[11].op = "take"
    <2>1. Script[11] = AnEach("take", Topic3[2], "committed")
      BY ScriptTable
    <2> QED BY <2>1 DEF AnEach
  <1>12. Script[12].op = "take"
    <2>1. Script[12] = AnEach("take", Topic3[3], "committed")
      BY ScriptTable
    <2> QED BY <2>1 DEF AnEach
  <1>13. Script[13].op = "overdraft"
    <2>1. Script[13] = AnOverdraft(Overdraft)
      BY ScriptTable
    <2> QED BY <2>1 DEF AnOverdraft
  <1>14. Script[14].op = "count"
    <2>1. Script[14] = ADo("count")
      BY ScriptTable
    <2> QED BY <2>1 DEF ADo
  <1>15. Script[15].op = "query"
    <2>1. Script[15] = AnEach("query", Topic3[1], "clean")
      BY ScriptTable
    <2> QED BY <2>1 DEF AnEach
  <1>16. Script[16].op = "query"
    <2>1. Script[16] = AnEach("query", Topic3[2], "clean")
      BY ScriptTable
    <2> QED BY <2>1 DEF AnEach
  <1>17. Script[17].op = "query"
    <2>1. Script[17] = AnEach("query", Topic3[3], "clean")
      BY ScriptTable
    <2> QED BY <2>1 DEF AnEach
  <1>18. Script[18].op = "close"
    <2>1. Script[18] = ADo("close")
      BY ScriptTable
    <2> QED BY <2>1 DEF ADo
  <1>19. Script[19].op = "query"
    <2>1. Script[19] = AnEach("query", Topic3[1], "reopened")
      BY ScriptTable
    <2> QED BY <2>1 DEF AnEach
  <1>20. Script[20].op = "query"
    <2>1. Script[20] = AnEach("query", Topic3[2], "reopened")
      BY ScriptTable
    <2> QED BY <2>1 DEF AnEach
  <1>21. Script[21].op = "query"
    <2>1. Script[21] = AnEach("query", Topic3[3], "reopened")
      BY ScriptTable
    <2> QED BY <2>1 DEF AnEach
  <1>22. Script[22].op = "compare"
    <2>1. Script[22] = ACompare("committed", "clean")
      BY ScriptTable
    <2> QED BY <2>1 DEF ACompare
  <1>23. Script[23].op = "compare"
    <2>1. Script[23] = ACompare("clean", "reopened")
      BY ScriptTable
    <2> QED BY <2>1 DEF ACompare
  <1>24. Script[24].op = "baseline"
    <2>1. Script[24] = ADo("baseline")
      BY ScriptTable
    <2> QED BY <2>1 DEF ADo
  <1>25. Script[25].op = "initialize"
    <2>1. Script[25] = AVersion("initialize", "initialized")
      BY ScriptTable
    <2> QED BY <2>1 DEF AVersion
  <1>26. Script[26].op = "read"
    <2>1. Script[26] = AVersion("read", "before")
      BY ScriptTable
    <2> QED BY <2>1 DEF AVersion
  <1>27. Script[27].op = "cutover"
    <2>1. Script[27] = AVersion("cutover", "after")
      BY ScriptTable
    <2> QED BY <2>1 DEF AVersion
  <1>28. Script[28].op = "query"
    <2>1. Script[28] = AnEach("query", Topic3[1], "afterCutover")
      BY ScriptTable
    <2> QED BY <2>1 DEF AnEach
  <1>29. Script[29].op = "query"
    <2>1. Script[29] = AnEach("query", Topic3[2], "afterCutover")
      BY ScriptTable
    <2> QED BY <2>1 DEF AnEach
  <1>30. Script[30].op = "query"
    <2>1. Script[30] = AnEach("query", Topic3[3], "afterCutover")
      BY ScriptTable
    <2> QED BY <2>1 DEF AnEach
  <1>31. Script[31].op = "compare"
    <2>1. Script[31] = ACompare("committed", "afterCutover")
      BY ScriptTable
    <2> QED BY <2>1 DEF ACompare
  <1>32. Script[32].op = "transfer"
    <2>1. Script[32] = AMove(PostAmount)
      BY ScriptTable
    <2> QED BY <2>1 DEF AMove
  <1>33. Script[33].op = "query"
    <2>1. Script[33] = AnEach("query", Topic3[1], "afterTransfer")
      BY ScriptTable
    <2> QED BY <2>1 DEF AnEach
  <1>34. Script[34].op = "query"
    <2>1. Script[34] = AnEach("query", Topic3[2], "afterTransfer")
      BY ScriptTable
    <2> QED BY <2>1 DEF AnEach
  <1>35. Script[35].op = "query"
    <2>1. Script[35] = AnEach("query", Topic3[3], "afterTransfer")
      BY ScriptTable
    <2> QED BY <2>1 DEF AnEach
  <1>36. Script[36].op = "advance"
    <2>1. Script[36] = ADo("advance")
      BY ScriptTable
    <2> QED BY <2>1 DEF ADo
  <1>37. Script[37].op = "close"
    <2>1. Script[37] = ADo("close")
      BY ScriptTable
    <2> QED BY <2>1 DEF ADo
  <1>38. Script[38].op = "query"
    <2>1. Script[38] = AnEach("query", Topic3[1], "afterReopen")
      BY ScriptTable
    <2> QED BY <2>1 DEF AnEach
  <1>39. Script[39].op = "query"
    <2>1. Script[39] = AnEach("query", Topic3[2], "afterReopen")
      BY ScriptTable
    <2> QED BY <2>1 DEF AnEach
  <1>40. Script[40].op = "query"
    <2>1. Script[40] = AnEach("query", Topic3[3], "afterReopen")
      BY ScriptTable
    <2> QED BY <2>1 DEF AnEach
  <1>41. Script[41].op = "read"
    <2>1. Script[41] = AVersion("read", "reopened")
      BY ScriptTable
    <2> QED BY <2>1 DEF AVersion
  <1>42. Script[42].op = "compare"
    <2>1. Script[42] = ACompare("afterTransfer", "afterReopen")
      BY ScriptTable
    <2> QED BY <2>1 DEF ACompare
  <1>43. Script[43].op = "sameVersion"
    <2>1. Script[43] = ADo("sameVersion")
      BY ScriptTable
    <2> QED BY <2>1 DEF ADo
  <1>44. Script[44].op = "done"
    <2>1. Script[44] = ADo("done")
      BY ScriptTable
    <2> QED BY <2>1 DEF ADo
  <1> QED BY <1>1, <1>2, <1>3, <1>4, <1>5, <1>6, <1>7, <1>8, <1>9, <1>10, <1>11, <1>12, <1>13, <1>14, <1>15, <1>16, <1>17, <1>18, <1>19, <1>20, <1>21, <1>22, <1>23, <1>24, <1>25, <1>26, <1>27, <1>28, <1>29, <1>30, <1>31, <1>32, <1>33, <1>34, <1>35, <1>36, <1>37, <1>38, <1>39, <1>40, <1>41, <1>42, <1>43, <1>44

(* The topic at each place that has one. *)
LEMMA TopicTable ==
  /\ \A k \in {3, 6, 10, 15, 19, 28, 33, 38} : Script[k].topic = Source
  /\ \A k \in {4, 7, 11, 16, 20, 29, 34, 39} : Script[k].topic = Target
  /\ \A k \in {5, 8, 12, 17, 21, 30, 35, 40} : Script[k].topic = TotalKey
  <1>0. Topic3[1] = Source /\ Topic3[2] = Target /\ Topic3[3] = TotalKey
    BY DEF Topic3
  <1>3. Script[3].topic = Source
    <2>1. Script[3] = AnEach("subscribe", Topic3[1], "initial")
      BY ScriptTable
    <2> QED BY <1>0, <2>1 DEF AnEach
  <1>4. Script[4].topic = Target
    <2>1. Script[4] = AnEach("subscribe", Topic3[2], "initial")
      BY ScriptTable
    <2> QED BY <1>0, <2>1 DEF AnEach
  <1>5. Script[5].topic = TotalKey
    <2>1. Script[5] = AnEach("subscribe", Topic3[3], "initial")
      BY ScriptTable
    <2> QED BY <1>0, <2>1 DEF AnEach
  <1>6. Script[6].topic = Source
    <2>1. Script[6] = AnEach("take", Topic3[1], "initial")
      BY ScriptTable
    <2> QED BY <1>0, <2>1 DEF AnEach
  <1>7. Script[7].topic = Target
    <2>1. Script[7] = AnEach("take", Topic3[2], "initial")
      BY ScriptTable
    <2> QED BY <1>0, <2>1 DEF AnEach
  <1>8. Script[8].topic = TotalKey
    <2>1. Script[8] = AnEach("take", Topic3[3], "initial")
      BY ScriptTable
    <2> QED BY <1>0, <2>1 DEF AnEach
  <1>10. Script[10].topic = Source
    <2>1. Script[10] = AnEach("take", Topic3[1], "committed")
      BY ScriptTable
    <2> QED BY <1>0, <2>1 DEF AnEach
  <1>11. Script[11].topic = Target
    <2>1. Script[11] = AnEach("take", Topic3[2], "committed")
      BY ScriptTable
    <2> QED BY <1>0, <2>1 DEF AnEach
  <1>12. Script[12].topic = TotalKey
    <2>1. Script[12] = AnEach("take", Topic3[3], "committed")
      BY ScriptTable
    <2> QED BY <1>0, <2>1 DEF AnEach
  <1>15. Script[15].topic = Source
    <2>1. Script[15] = AnEach("query", Topic3[1], "clean")
      BY ScriptTable
    <2> QED BY <1>0, <2>1 DEF AnEach
  <1>16. Script[16].topic = Target
    <2>1. Script[16] = AnEach("query", Topic3[2], "clean")
      BY ScriptTable
    <2> QED BY <1>0, <2>1 DEF AnEach
  <1>17. Script[17].topic = TotalKey
    <2>1. Script[17] = AnEach("query", Topic3[3], "clean")
      BY ScriptTable
    <2> QED BY <1>0, <2>1 DEF AnEach
  <1>19. Script[19].topic = Source
    <2>1. Script[19] = AnEach("query", Topic3[1], "reopened")
      BY ScriptTable
    <2> QED BY <1>0, <2>1 DEF AnEach
  <1>20. Script[20].topic = Target
    <2>1. Script[20] = AnEach("query", Topic3[2], "reopened")
      BY ScriptTable
    <2> QED BY <1>0, <2>1 DEF AnEach
  <1>21. Script[21].topic = TotalKey
    <2>1. Script[21] = AnEach("query", Topic3[3], "reopened")
      BY ScriptTable
    <2> QED BY <1>0, <2>1 DEF AnEach
  <1>28. Script[28].topic = Source
    <2>1. Script[28] = AnEach("query", Topic3[1], "afterCutover")
      BY ScriptTable
    <2> QED BY <1>0, <2>1 DEF AnEach
  <1>29. Script[29].topic = Target
    <2>1. Script[29] = AnEach("query", Topic3[2], "afterCutover")
      BY ScriptTable
    <2> QED BY <1>0, <2>1 DEF AnEach
  <1>30. Script[30].topic = TotalKey
    <2>1. Script[30] = AnEach("query", Topic3[3], "afterCutover")
      BY ScriptTable
    <2> QED BY <1>0, <2>1 DEF AnEach
  <1>33. Script[33].topic = Source
    <2>1. Script[33] = AnEach("query", Topic3[1], "afterTransfer")
      BY ScriptTable
    <2> QED BY <1>0, <2>1 DEF AnEach
  <1>34. Script[34].topic = Target
    <2>1. Script[34] = AnEach("query", Topic3[2], "afterTransfer")
      BY ScriptTable
    <2> QED BY <1>0, <2>1 DEF AnEach
  <1>35. Script[35].topic = TotalKey
    <2>1. Script[35] = AnEach("query", Topic3[3], "afterTransfer")
      BY ScriptTable
    <2> QED BY <1>0, <2>1 DEF AnEach
  <1>38. Script[38].topic = Source
    <2>1. Script[38] = AnEach("query", Topic3[1], "afterReopen")
      BY ScriptTable
    <2> QED BY <1>0, <2>1 DEF AnEach
  <1>39. Script[39].topic = Target
    <2>1. Script[39] = AnEach("query", Topic3[2], "afterReopen")
      BY ScriptTable
    <2> QED BY <1>0, <2>1 DEF AnEach
  <1>40. Script[40].topic = TotalKey
    <2>1. Script[40] = AnEach("query", Topic3[3], "afterReopen")
      BY ScriptTable
    <2> QED BY <1>0, <2>1 DEF AnEach
  <1> QED BY <1>3, <1>4, <1>5, <1>6, <1>7, <1>8, <1>10, <1>11, <1>12, <1>15, <1>16, <1>17, <1>19, <1>20, <1>21, <1>28, <1>29, <1>30, <1>33, <1>34, <1>35, <1>38, <1>39, <1>40

(* The amounts and accounts of the calls. *)
LEMMA CallTable ==
  /\ Script[1].account = Source /\ Script[1].value = SourceOpening
  /\ Script[2].account = Target /\ Script[2].value = TargetOpening
  /\ Script[9].amount = Amount /\ Script[13].amount = Overdraft /\ Script[32].amount = PostAmount
  <1>1. /\ Script[1] = ACreate(Source, SourceOpening) /\ Script[2] = ACreate(Target, TargetOpening)
        /\ Script[9] = AMove(Amount) /\ Script[13] = AnOverdraft(Overdraft) /\ Script[32] = AMove(PostAmount)
    BY ScriptTable
  <1> QED BY <1>1 DEF ACreate, AMove, AnOverdraft

(* The places of each operation. *)
LEMMA Places == \A k \in 1..44 :
  /\ Script[k].op = "create" <=> k \in {1, 2}
  /\ Script[k].op = "subscribe" <=> k \in {3, 4, 5}
  /\ Script[k].op = "take" <=> k \in {6, 7, 8, 10, 11, 12}
  /\ Script[k].op = "transfer" <=> k \in {9, 32}
  /\ Script[k].op = "overdraft" <=> k \in {13}
  /\ Script[k].op = "count" <=> k \in {14}
  /\ Script[k].op = "query" <=> k \in {15, 16, 17, 19, 20, 21, 28, 29, 30, 33, 34, 35, 38, 39, 40}
  /\ Script[k].op = "close" <=> k \in {18, 37}
  /\ Script[k].op = "compare" <=> k \in {22, 23, 31, 42}
  /\ Script[k].op = "baseline" <=> k \in {24}
  /\ Script[k].op = "initialize" <=> k \in {25}
  /\ Script[k].op = "read" <=> k \in {26, 41}
  /\ Script[k].op = "cutover" <=> k \in {27}
  /\ Script[k].op = "advance" <=> k \in {36}
  /\ Script[k].op = "sameVersion" <=> k \in {43}
  /\ Script[k].op = "done" <=> k \in {44}
  BY OpTable
-----------------------------------------------------------------------------
(* The journey and the rivals as operators of the metadata table.  The     *)
(* fiber is in at most one operation, of the kind its statement asks for,  *)
(* so the row that the cutover expects has been read before.               *)
CallOps    == {"create", "transfer", "overdraft", "query"}
VersionOps == {"initialize", "read", "cutover"}

PlaceInv ==
  /\ at \in 1..44
  /\ pc[Driver] # "idle" => Stmt.op \in CallOps
  /\ op[Driver] # V!Idle => Stmt.op \in VersionOps
  /\ \A name \in DOMAIN versions : versions[name] \in V!Metadata
  /\ at > 26 => "before" \in DOMAIN versions

(* A call of the service is under way until it is answered. *)
LEMMA AnswersEnd ==
  ASSUME TypeOK, NEW f \in Fibers, Progress(f) \/ HandlerFails(f) \/ SqlFails(f)
  PROVE  pc[f] # "idle"
  BY DEF Progress, HandlerFails, SqlFails, Query, CreateCheck, CreateInsert, CreatePublish,
         CreateRead, Begin, ReadPair, Refuse, Handler, UpdateSource, UpdateTarget, UpdateFails,
         Commit, Publish, ReadTarget, ReadSource, ReadTotal

(* Topics are those of the three watchers. *)
LEMMA TopicOf ==
  ASSUME PlaceInv, Stmt.op \in {"subscribe", "take", "query"}
  PROVE  Stmt.topic \in Watchers /\ Stmt.topic \in Topics
  <1>1. at \in {3, 6, 10, 15, 19, 28, 33, 38} \cup {4, 7, 11, 16, 20, 29, 34, 39}
              \cup {5, 8, 12, 17, 21, 30, 35, 40}
    BY Places DEF PlaceInv, Stmt
  <1>2. Stmt.topic \in {Source, Target, TotalKey}
    BY <1>1, TopicTable DEF Stmt
  <1> QED BY <1>2, JourneyAssumption DEF Topics

(* A journey's step is a step of the service, but for the end of a scope,  *)
(* which ends the subscriptions alone.                                     *)
LEMMA JourneyStepsServe ==
  ASSUME PlaceInv, JNext
  PROVE  \/ [Next]_vars
         \/ /\ sub' = [w \in Watchers |-> NoSub] /\ reply' = None
            /\ UNCHANGED <<rows, opened, txVars, pc, req, tx, moved>>
  <1>0. Driver \in Fibers
    BY JourneyAssumption
  <1>1. CASE Call
    <2>1. CASE IsOp("create")
      <3>1. at \in {1, 2}
        BY <2>1, Places DEF PlaceInv, IsOp, Stmt
      <3>2. Stmt.account \in Accounts /\ Stmt.value \in OpeningBalances
        BY <3>1, CallTable, JourneyAssumption DEF Stmt
      <3> QED BY <1>0, <1>1, <2>1, <3>2 DEF Call, IsOp, Next, Calls
    <2>2. CASE IsOp("transfer") \/ IsOp("overdraft")
      <3>1. at \in {9, 13, 32}
        BY <2>2, Places DEF PlaceInv, IsOp, Stmt
      <3>2. Stmt.amount \in Amounts /\ Source \in Accounts /\ Target \in Accounts
        BY <3>1, CallTable, JourneyAssumption, EvolutionAssumption DEF Stmt
      <3> QED BY <1>0, <1>1, <2>2, <3>2 DEF Call, IsOp, Next, Calls
    <2>3. CASE IsOp("query")
      <3>1. Stmt.topic \in Topics
        BY <2>3, TopicOf DEF IsOp
      <3> QED BY <1>0, <1>1, <2>3, <3>1 DEF Call, IsOp, Next, Calls
    <2> QED BY <1>1, <2>1, <2>2, <2>3 DEF Call
  <1>2. CASE Serve
    BY <1>0, <1>2 DEF Serve, Next
  <1>3. CASE Collect
    <2>1. Stmt.topic \in Watchers /\ Stmt.topic \in Topics
      BY <1>3, TopicOf DEF Collect, IsOp
    <2> QED BY <1>3, <2>1 DEF Collect, Next
  <1>4. CASE Listen
    BY <1>4 DEF Listen, Next
  <1>5. CASE Close
    BY <1>5 DEF Close
  <1>6. CASE Take \/ Deadline \/ Count \/ CompareSlots \/ Done \/ Stop
    BY <1>6 DEF Take, Deadline, Count, CompareSlots, Done, Stop, allVars
  <1> QED BY <1>1, <1>2, <1>3, <1>4, <1>5, <1>6 DEF JNext

(* The three queues, the counters and the observations apart, a step of    *)
(* the journey keeps the invariant of the service.                         *)
LEMMA JourneyKeepsService == ASSUME IInv, PlaceInv, JNext PROVE IInv'
  <1>1. CASE [Next]_vars
    BY <1>1, NextIInv
  <1>2. CASE reply' = None /\ UNCHANGED <<rows, opened, txVars, pc, req, tx, moved>>
    BY <1>2 DEF IInv, TypeOK, RequestInv, TxInv, OutcomeTellsTruth, txVars
  <1> QED BY <1>1, <1>2, JourneyStepsServe

(* An operation on the version row is over when it is answered, and what   *)
(* it answers with a success is a row.                                     *)
LEMMA VersionAnswers ==
  ASSUME V!NoneIsApart, VIInv, NEW o \in Operators,
         \/ \E m \in V!Metadata : V!Initialize(o, m)
         \/ \E s \in Services : V!StartRead(o, s)
         \/ \E e, n \in V!Metadata : V!StartCutover(o, e, n)
         \/ V!Proceeds(o) \/ V!Fails(o)
  PROVE  /\ [V!Next]_(V!vars)
         /\ answer' # None => op'[o] = V!Idle
         /\ answer' # None /\ answer'.outcome = "ok" => answer'.row \in V!Metadata
         /\ V!Proceeds(o) \/ V!Fails(o) => op[o] # V!Idle
  <1> USE DEF V!Answer, V!Abort, V!Begin, V!Commit
  <1> DEFINE Told == /\ answer' # None => op'[o] = V!Idle
                     /\ answer' # None /\ answer'.outcome = "ok" => answer'.row \in V!Metadata
  <1>0. op \in [Operators -> V!Operations \cup {V!Idle}]
    BY DEF VIInv
  <1>1. [V!Next]_(V!vars)
    BY DEF V!Next, V!Starts
  <1>2. V!Proceeds(o) \/ V!Fails(o) => op[o] # V!Idle
    BY DEF V!Proceeds, V!Fails, V!Insert, V!InitializeCommit, V!Read, V!CutoverRead,
           V!CutoverUpdate, V!CutoverCommit, V!Idle
  <1>3. ASSUME NEW m \in V!Metadata, V!Initialize(o, m) PROVE Told
    BY <1>0, <1>3 DEF V!Initialize
  <1>4. ASSUME NEW s \in Services, V!StartRead(o, s) PROVE Told
    BY <1>0, <1>4 DEF V!StartRead
  <1>5. ASSUME NEW e \in V!Metadata, NEW n \in V!Metadata, V!StartCutover(o, e, n) PROVE Told
    BY <1>0, <1>5 DEF V!StartCutover, V!InputFault
  <1>6. ASSUME V!Insert(o) PROVE Told
    BY <1>0, <1>6 DEF V!Insert
  <1>7. ASSUME V!InitializeCommit(o) PROVE Told
    BY <1>0, <1>7, CommitsAreSound DEF V!InitializeCommit, IsInitialize
  <1>8. ASSUME V!Read(o) PROVE Told
    <2>1. op[o].service \in Services
      BY <1>8 DEF VIInv, OperationInv, V!Read
    <2>2. V!ReadFault(op[o].service) = None => stored[op[o].service] \in V!Metadata
      BY <2>1 DEF V!ReadFault, VIInv, StoredInv, V!NoneIsApart, V!Outcomes
    <2>3. V!ReadFault(op[o].service) # "ok"
      BY DEF V!ReadFault, V!NoneIsApart, V!Outcomes
    <2> QED BY <1>0, <1>8, <2>2, <2>3 DEF V!Read
  <1>9. ASSUME V!CutoverRead(o) PROVE Told
    <2>1. V!CutoverReadFault(op[o].expected) # "ok"
      BY DEF V!CutoverReadFault, V!ReadFault, V!Mismatch, V!NoneIsApart, V!Outcomes
    <2> QED BY <1>0, <1>9, <2>1 DEF V!CutoverRead
  <1>10. ASSUME V!CutoverUpdate(o) PROVE Told
    BY <1>0, <1>10 DEF V!CutoverUpdate
  <1>11. ASSUME V!CutoverCommit(o) PROVE Told
    BY <1>0, <1>11, CommitsAreSound DEF V!CutoverCommit, V!NextRow, IsCutover
  <1>12. ASSUME V!Fails(o) PROVE Told
    BY <1>0, <1>12 DEF V!Fails
  <1>13. Told
    BY <1>3, <1>4, <1>5, <1>6, <1>7, <1>8, <1>9, <1>10, <1>11, <1>12 DEF V!Proceeds
  <1> QED BY <1>1, <1>2, <1>13

(* The two rows of the plan. *)
LEMMA PlanRows == VersionOne \in V!Metadata /\ VersionTwo \in V!Metadata
  BY DEF VersionOne, VersionTwo, V!Metadata, Services, Digests

(* What the fiber may do to the version row is what any operator may. *)
LEMMA VersionStepIs ==
  ASSUME VIInv, PlaceInv, VersionStep
  PROVE  /\ [V!Next]_(V!vars)
         /\ answer' # None => op'[Driver] = V!Idle
         /\ answer' # None /\ answer'.outcome = "ok" => answer'.row \in V!Metadata
         /\ Stmt.op \in VersionOps
  <1>1. Driver \in Operators /\ Service \in Services /\ V!NoneIsApart
    BY EvolutionAssumption DEF Operators, Services
  <1>2. IsOp("cutover") => versions["before"] \in V!Metadata
    <2>1. IsOp("cutover") => at = 27
      BY Places DEF PlaceInv, IsOp, Stmt
    <2> QED BY <2>1 DEF PlaceInv
  <1>3. \/ \E m \in V!Metadata : V!Initialize(Driver, m)
        \/ \E s \in Services : V!StartRead(Driver, s)
        \/ \E e, n \in V!Metadata : V!StartCutover(Driver, e, n)
        \/ V!Proceeds(Driver) \/ V!Fails(Driver)
    BY <1>1, <1>2, PlanRows DEF VersionStep
  <1>4. V!Proceeds(Driver) \/ V!Fails(Driver) => op[Driver] # V!Idle
    BY <1>1, <1>3, VersionAnswers
  <1>5. Stmt.op \in VersionOps
    BY <1>4 DEF VersionStep, IsOp, PlaceInv, VersionOps
  <1> QED BY <1>1, <1>3, <1>5, VersionAnswers

(* The place moves on from a statement that is over. *)
LEMMA PlaceMoves ==
  ASSUME PlaceInv,
         pc'[Driver] # "idle" => Stmt.op \in CallOps /\ at' = at,
         op'[Driver] # V!Idle => Stmt.op \in VersionOps /\ at' = at,
         \/ at' = at
         \/ at' = at + 1 /\ Stmt.op # "done",
         \/ UNCHANGED versions /\ (at' = at \/ Stmt.op # "read")
         \/ \E row \in V!Metadata : versions' = With(versions, Stmt.name, row)
  PROVE  PlaceInv'
  <1>1. at' \in 1..44
    BY Places DEF PlaceInv, Stmt
  <1>2. Script[26] = AVersion("read", "before")
    BY ScriptTable
  <1>3. at = 26 => Stmt.op = "read" /\ Stmt.name = "before"
    BY <1>2 DEF AVersion, Stmt
  <1>4. CASE UNCHANGED versions /\ (at' = at \/ Stmt.op # "read")
    BY <1>1, <1>3, <1>4 DEF PlaceInv, Stmt
  <1>5. ASSUME NEW row \in V!Metadata, versions' = With(versions, Stmt.name, row) PROVE PlaceInv'
    <2>1. /\ DOMAIN versions' = DOMAIN versions \cup {Stmt.name}
          /\ \A name \in DOMAIN versions' : versions'[name] \in V!Metadata
      BY <1>5 DEF PlaceInv, With
    <2> QED BY <1>1, <1>3, <2>1 DEF PlaceInv, Stmt
  <1> QED BY <1>4, <1>5

(* What each kind of step of the journey does to the place. *)
LEMMA PlaceStays ==
  ASSUME IInv, VIInv, PlaceInv, ENext
  PROVE  PlaceInv'
  <1>0. Driver \in Fibers /\ Driver \in Operators
    BY JourneyAssumption DEF Operators
  <1> USE DEF Proceed, End
  <1>1. CASE Call /\ UNCHANGED <<versionVars, versions>>
    <2>1. Stmt.op \in CallOps /\ at' = at
      BY <1>1 DEF Call, IsOp, journeyVars, CallOps
    <2>2. op[Driver] = V!Idle
      BY <2>1, Places DEF PlaceInv, CallOps, VersionOps
    <2> QED BY <1>1, <2>1, <2>2, PlaceMoves DEF versionVars
  <1>2. CASE Serve /\ UNCHANGED <<versionVars, versions>>
    <2>1. pc[Driver] # "idle"
      BY <1>0, <1>2, AnswersEnd DEF Serve, IInv
    <2>2. Stmt.op \in CallOps /\ op[Driver] = V!Idle
      BY <2>1 DEF PlaceInv, CallOps, VersionOps
    <2>3. \/ at' = at
          \/ at' = at + 1 /\ pc'[Driver] = "idle"
      BY <1>2 DEF Serve, Answered
    <2> QED BY <1>2, <2>2, <2>3, PlaceMoves DEF versionVars, CallOps
  <1>3. CASE (Collect \/ Take \/ Deadline \/ Count \/ Close \/ CompareSlots \/ Done)
             /\ UNCHANGED <<versionVars, versions>>
    <2>1. Stmt.op \notin CallOps \cup VersionOps /\ pc' = pc
      BY <1>3 DEF Collect, Subscribe, SetSub, Take, Deadline, Count, Close, CompareSlots, Done,
              IsOp, CallOps, VersionOps, vars
    <2>2. pc[Driver] = "idle" /\ op[Driver] = V!Idle
      BY <2>1 DEF PlaceInv
    <2>3. at' = at \/ (at' = at + 1 /\ Stmt.op # "done")
      BY <1>3 DEF Collect, Take, Deadline, Count, Close, CompareSlots, Done, IsOp
    <2>4. Stmt.op # "read"
      BY <2>1 DEF VersionOps
    <2> QED BY <1>3, <2>1, <2>2, <2>3, <2>4, PlaceMoves DEF versionVars
  <1>4. CASE (Listen \/ Stop) /\ UNCHANGED <<versionVars, versions>>
    <2>1. at' = at /\ pc' = pc
      BY <1>4 DEF Listen, SubRead, SubFails, SubEmit, SetSub, Stop, allVars, vars, journeyVars
    <2> QED BY <1>4, <2>1 DEF PlaceInv, Stmt, versionVars
  <1>5. CASE VersionStep
    <2>1. /\ answer' # None => op'[Driver] = V!Idle
          /\ answer' # None /\ answer'.outcome = "ok" => answer'.row \in V!Metadata
          /\ Stmt.op \in VersionOps
      BY <1>5, VersionStepIs
    <2>2. pc'[Driver] = "idle" /\ Stmt.op # "done"
      BY <1>5, <2>1 DEF VersionStep, PlaceInv, CallOps, VersionOps, vars
    <2>3. CASE answer' = None \/ answer'.outcome # "ok"
      BY <1>5, <2>1, <2>2, <2>3, PlaceMoves DEF VersionStep, TakeVersion
    <2>4. CASE answer' # None /\ answer'.outcome = "ok"
      <3>1. /\ at' = at + 1 /\ op'[Driver] = V!Idle
            /\ versions' = With(versions, Stmt.name, answer'.row)
        BY <1>5, <2>1, <2>4 DEF VersionStep, TakeVersion
      <3> QED BY <2>1, <2>2, <2>4, <3>1, PlaceMoves
    <2> QED BY <2>3, <2>4
  <1>6. CASE RivalStep
    <2>1. op'[Driver] = op[Driver]
      <3>1. PICK o \in Rivals : V!Starts(o) \/ V!Proceeds(o) \/ V!Fails(o) \/ V!DiesAfterCommit(o)
        BY <1>6 DEF RivalStep
      <3>2. \/ op' = op
            \/ \E x : op' = [op EXCEPT ![o] = x]
        BY <3>1 DEF V!Starts, V!Proceeds, V!Fails, V!DiesAfterCommit, V!Initialize, V!StartRead,
           V!StartCutover, V!Begin, V!Insert, V!InitializeCommit, V!Read, V!CutoverRead,
           V!CutoverUpdate, V!CutoverCommit, V!Commit, V!Abort, V!Answer
      <3>3. o # Driver
        BY EvolutionAssumption
      <3> QED BY <1>0, <3>2, <3>3 DEF VIInv
    <2> QED BY <1>6, <2>1 DEF RivalStep, allVars, vars, journeyVars, PlaceInv, Stmt
  <1>7. CASE Judge
    <2>1. Stmt.op \notin CallOps \cup VersionOps /\ pc' = pc /\ op' = op
      BY <1>7 DEF Judge, IsOp, CallOps, VersionOps, vars, versionVars
    <2>2. pc[Driver] = "idle" /\ op[Driver] = V!Idle
      BY <2>1 DEF PlaceInv
    <2>3. at' = at \/ (at' = at + 1 /\ Stmt.op # "done")
      BY <1>7 DEF Judge, IsOp
    <2>4. Stmt.op # "read"
      BY <2>1 DEF VersionOps
    <2> QED BY <1>7, <2>1, <2>2, <2>3, <2>4, PlaceMoves DEF Judge
  <1> QED BY <1>1, <1>2, <1>3, <1>4, <1>5, <1>6, <1>7 DEF ENext, JourneyStep, JNext

(* Both parts of the journey keep their own invariants, and its place fits *)
(* what is under way.                                                      *)
EInv == IInv /\ VIInv /\ PlaceInv

(* The journey starts at its first statement with both tables empty.       *)
LEMMA InitEInv == EInit => EInv
  <1> SUFFICES ASSUME EInit PROVE EInv
    OBVIOUS
  <1>1. Driver \in Fibers /\ Driver \in Operators
    BY JourneyAssumption DEF Operators
  <1>2. IInv /\ VIInv
    BY InitIInv, VInitIInv, EvolutionAssumption DEF EInit, JInit
  <1>3. PlaceInv
    BY <1>1 DEF EInit, JInit, Init, V!Init, PlaceInv
  <1> QED BY <1>2, <1>3 DEF EInv

(* Every step of the journey and of its rivals is a step of the version    *)
(* table.                                                                  *)
LEMMA StepsOfVersions == EInv /\ [ENext]_eVars => [V!Next]_(V!vars)
  <1>1. ASSUME EInv, RivalStep PROVE V!Next
    BY <1>1 DEF RivalStep, V!Next, Operators
  <1>2. ASSUME EInv, VersionStep PROVE [V!Next]_(V!vars)
    BY <1>2, VersionStepIs DEF EInv
  <1> QED BY <1>1, <1>2 DEF ENext, JourneyStep, Judge, eVars, versionVars, V!vars

(* The composition keeps the invariants of the service, of the version     *)
(* table and of the script's places.                                       *)
LEMMA NextEInv == EInv /\ [ENext]_eVars => EInv'
  <1> SUFFICES ASSUME EInv, [ENext]_eVars PROVE EInv'
    OBVIOUS
  <1>1. VIInv'
    BY StepsOfVersions, VNextIInv, EvolutionAssumption DEF EInv
  <1>2. CASE UNCHANGED eVars
    <2>1. UNCHANGED vars /\ UNCHANGED <<at, versions, op>>
      BY <1>2 DEF eVars, allVars, journeyVars, versionVars
    <2>2. IInv'
      BY <2>1, NextIInv DEF EInv
    <2>3. PlaceInv'
      BY <2>1 DEF EInv, PlaceInv, Stmt, vars
    <2> QED BY <1>1, <2>2, <2>3 DEF EInv
  <1>3. CASE ENext
    <2>1. PlaceInv'
      BY <1>3, PlaceStays DEF EInv
    <2>2. CASE JNext
      BY <1>1, <2>1, <2>2, JourneyKeepsService DEF EInv
    <2>3. CASE UNCHANGED vars
      BY <1>1, <2>1, <2>3, NextIInv DEF EInv
    <2> QED BY <1>3, <2>2, <2>3 DEF ENext, JourneyStep, VersionStep, RivalStep, Judge, allVars
  <1> QED BY <1>2, <1>3

(* They hold at every point of the journey.                                *)
LEMMA JourneyInvariance == ESpec => []EInv
  BY InitEInv, NextEInv, PTL DEF ESpec

(* The journey and its rivals are operators of the metadata table like any *)
(* other: an acknowledged cutover stays what every later reader gets.      *)
THEOREM JourneyCutoverIsFinal == ESpec => []CutoverIsFinal
  <1>1. EInv => CutoverIsFinal
    BY DEF EInv, VIInv, CutoverIsFinal
  <1> QED BY <1>1, JourneyInvariance, PTL

(* ... and the journey, whatever it does besides, runs the version table   *)
(* as its specification allows, so that its rows only advance.             *)
THEOREM JourneyRunsTheVersions == ESpec => V!Spec
  <1>1. EInit => V!Init
    BY DEF EInit
  <1> QED BY <1>1, JourneyInvariance, StepsOfVersions, PTL DEF ESpec, V!Spec
-----------------------------------------------------------------------------
(* The rows at each place of the script.  The fiber is the only caller of  *)
(* the service, so that a row is opened or moved by the statement under    *)
(* way alone, and it is under way twice for none.                          *)
Sent(n)     == IF n = 0 THEN 0 ELSE IF n = 1 THEN Amount ELSE Amount + PostAmount
AtSource(n) == [balance |-> SourceOpening - Sent(n), revision |-> n]
AtTarget(n) == [balance |-> TargetOpening + Sent(n), revision |-> n]

HasMoved(r, n) == /\ r[Source] \in Row /\ r[Source] = AtSource(n)
                  /\ r[Target] \in Row /\ r[Target] = AtTarget(n)

(* What the table is before the statement of place k. *)
Before(r, k) ==
  /\ k = 1 => r[Source] = NoRow /\ r[Target] = NoRow
  /\ k = 2 => r[Source] \in Row /\ r[Source] = AtSource(0) /\ r[Target] = NoRow
  /\ k \in 3..9 => HasMoved(r, 0)
  /\ k \in 10..32 => HasMoved(r, 1)
  /\ k > 32 => HasMoved(r, 2)

(* The steps of a call that has written its row. *)
Past == {"createPublish", "createRead"} \cup AfterSteps

RowsInv ==
  /\ \A a \in Accounts \ {Source, Target} : rows[a] = NoRow
  /\ Before(rows, at) \/ Before(rows, at + 1)
  /\ Running /\ pc[Driver] \notin Past => Before(rows, at)
  /\ Running /\ pc[Driver] \in Past => Before(rows, at + 1)

(* What the fiber has asked for is what its statement says. *)
SaidInv ==
  /\ pc[Driver] = "query" => Stmt.op = "query" /\ req[Driver].topic = Stmt.topic
  /\ pc[Driver] \in CreateSteps =>
       /\ Stmt.op = "create"
       /\ req[Driver].account = Stmt.account /\ req[Driver].value = Stmt.value
  /\ pc[Driver] \in TransferSteps =>
       /\ Stmt.op \in {"transfer", "overdraft"}
       /\ req[Driver].source = Source /\ req[Driver].target = Target
       /\ req[Driver].amount = Stmt.amount
  /\ op[Driver] # V!Idle => op[Driver].kind = Stmt.op
  /\ IsCutover(Driver) => op[Driver].next = VersionTwo
  /\ op[Driver].kind = "read" => op[Driver].service = Service

(* Past its place the cutover is done; and the journey is done at the end. *)
CutInv ==
  /\ at > 27 => \E c \in done : c.to = VersionTwo
  /\ ended = "done" => at = 44

DataInv == RowsInv /\ SaidInv /\ CutInv

(* What a step of the service does for the fiber that takes it: it ends    *)
(* the call and writes nothing, opens an account, moves money, or goes on. *)
EndsCall(f) ==
  /\ pc'[f] = "idle" /\ UNCHANGED rows
  /\ reply'.outcome = "ok" => pc[f] \in {"query", "createRead", "readTotal"}
  /\ reply'.outcome = "ok" /\ pc[f] = "query" => /\ reply'.seen.value = Observe(req[f].topic)
                                                  /\ Observe(req[f].topic) # NoRow
  /\ reply'.outcome \in Rejections => pc[f] = "read"

Opens(f) ==
  /\ pc[f] = "createInsert" /\ pc'[f] = "createPublish"
  /\ rows[req[f].account] = NoRow /\ req[f].value \in Nat
  /\ rows' = [rows EXCEPT ![req[f].account] = [balance |-> req[f].value, revision |-> 0]]

GoesOn(f) ==
  /\ UNCHANGED rows
  /\ \/ pc[f] = "createCheck" /\ pc'[f] = "createInsert"
     \/ pc[f] = "createPublish" /\ pc'[f] = "createRead"
     \/ /\ pc[f] \in TransferSteps /\ pc'[f] \in TransferSteps
        /\ pc[f] \in AfterSteps <=> pc'[f] \in AfterSteps

(* A step of a request in service ends it, commits it, opens its account,  *)
(* or goes on without changing a row.                                      *)
LEMMA ServiceStep ==
  ASSUME IInv, NEW f \in Fibers, Progress(f) \/ HandlerFails(f) \/ SqlFails(f)
  PROVE  \/ EndsCall(f)
         \/ /\ pc'[f] # "idle" /\ UNCHANGED req
            /\ \/ Opens(f)
               \/ Commit(f) /\ pc[f] = "commit" /\ pc'[f] = "publish"
               \/ GoesOn(f)
  <1> USE DEF Goto, Answer, Fail, Steps, TxSteps, AfterSteps, CreateSteps, TransferSteps, Holding
  <1>0. /\ pc \in [Fibers -> Steps] /\ req \in [Fibers -> Requests \cup {None}] /\ f \in Fibers
        /\ pc[f] = "createInsert" => req[f].value \in Int
    BY DEF IInv, TypeOK, RequestInv, Creates
  <1>1. CASE Query(f)
    BY <1>0, <1>1 DEF Query, EndsCall, Rejections
  <1>2. CASE CreateCheck(f)
    BY <1>0, <1>2 DEF CreateCheck, EndsCall, GoesOn, Rejections
  <1>3. CASE CreateInsert(f)
    BY <1>0, <1>3 DEF CreateInsert, InsertRefused, EndsCall, Opens, Rejections
  <1>4. CASE CreatePublish(f) \/ Begin(f) \/ ReadPair(f) \/ UpdateSource(f) \/ UpdateTarget(f)
             \/ Publish(f) \/ ReadTarget(f) \/ ReadSource(f)
    BY <1>0, <1>4 DEF CreatePublish, Begin, ReadPair, UpdateSource, UpdateTarget, Publish, ReadTarget,
                ReadSource, GoesOn
  <1>5. CASE CreateRead(f) \/ ReadTotal(f)
    BY <1>0, <1>5 DEF CreateRead, ReadTotal, EndsCall, Rejections
  <1>6. CASE Refuse(f)
    BY <1>0, <1>6 DEF Refuse, Refusal, Rollback, EndsCall, Rejections
  <1>7. CASE Handler(f)
    BY <1>0, <1>7 DEF Handler, Rollback, EndsCall, GoesOn, Rejections
  <1>8. CASE UpdateFails(f) \/ HandlerFails(f)
    BY <1>0, <1>8 DEF UpdateFails, HandlerFails, Rollback, EndsCall, Rejections
  <1>9. CASE Commit(f)
    BY <1>0, <1>9 DEF Commit
  <1>10. CASE SqlFails(f)
    BY <1>0, <1>10 DEF SqlFails, Rollback, EndsCall, Rejections
  <1> QED BY <1>1, <1>2, <1>3, <1>4, <1>5, <1>6, <1>7, <1>8, <1>9, <1>10 DEF Progress

(* The rows stay right while nobody writes them: a statement that is over  *)
(* has written what it had to write.                                       *)
LEMMA RowsStay ==
  ASSUME PlaceInv, RowsInv, UNCHANGED rows,
         \/ at' = at /\ ended' = ended /\ (pc'[Driver] \in Past <=> pc[Driver] \in Past)
         \/ at' = at /\ ~Running'
         \/ /\ at' = at + 1 /\ Running /\ pc'[Driver] \notin Past
            /\ pc[Driver] \in Past \/ at \notin {1, 2, 9, 32}
  PROVE  RowsInv'
  <1>1. at \in 1..44
    BY DEF PlaceInv
  <1>2. CASE at' = at
    BY <1>2 DEF RowsInv, Running
  <1>3. CASE /\ at' = at + 1 /\ Running /\ pc'[Driver] \notin Past
             /\ pc[Driver] \in Past \/ at \notin {1, 2, 9, 32}
    <2>1. Before(rows, at + 1)
      BY <1>1, <1>3 DEF RowsInv, Before
    <2> QED BY <1>1, <1>3, <2>1 DEF RowsInv
  <1> QED BY <1>2, <1>3

(* An account is opened by the first two statements, with its balance.     *)
LEMMA OpensItsRow ==
  ASSUME IInv, PlaceInv, RowsInv, SaidInv, Running, Opens(Driver), at' = at, ended' = ended
  PROVE  RowsInv'
  <1> USE DEF CreateSteps
  <1>1. pc[Driver] = "createInsert" /\ pc'[Driver] = "createPublish"
    BY DEF Opens
  <1>2. at \in {1, 2} /\ req[Driver].account = Stmt.account /\ req[Driver].value = Stmt.value
    BY <1>1, Places DEF PlaceInv, SaidInv, Stmt
  <1>3. Before(rows, at)
    BY <1>1 DEF RowsInv, Past, AfterSteps
  <1>4. /\ Source \in Accounts /\ Target \in Accounts /\ Source # Target
        /\ NoRow \notin Row /\ rows \in [Accounts -> Row \cup {NoRow}]
    BY JourneyAssumption, NoneAssumption DEF IInv, TypeOK
  <1> DEFINE Opening(b) == [balance |-> b, revision |-> 0]
  <1>5. CASE at = 1
    <2>1. req[Driver].account = Source /\ req[Driver].value = SourceOpening
      BY <1>2, <1>5, CallTable DEF Stmt
    <2>2. rows' = [rows EXCEPT ![Source] = Opening(SourceOpening)] /\ SourceOpening \in Nat
      BY <2>1 DEF Opens
    <2>3. Opening(SourceOpening) \in Row /\ Opening(SourceOpening) = AtSource(0)
      BY <2>2 DEF Row, AtSource, Sent
    <2>4. /\ rows'[Source] \in Row /\ rows'[Source] = AtSource(0) /\ rows'[Target] = NoRow
          /\ \A a \in Accounts \ {Source, Target} : rows'[a] = rows[a]
      BY <1>3, <1>4, <1>5, <2>2, <2>3 DEF Before
    <2>5. Before(rows', at + 1)
      BY <1>5, <2>4 DEF Before
    <2> QED BY <1>1, <2>4, <2>5 DEF RowsInv, Past
  <1>6. CASE at = 2
    <2>1. req[Driver].account = Target /\ req[Driver].value = TargetOpening
      BY <1>2, <1>6, CallTable DEF Stmt
    <2>2. rows' = [rows EXCEPT ![Target] = Opening(TargetOpening)] /\ TargetOpening \in Nat
      BY <2>1 DEF Opens
    <2>3. Opening(TargetOpening) \in Row /\ Opening(TargetOpening) = AtTarget(0)
      BY <2>2 DEF Row, AtTarget, Sent
    <2>4. /\ HasMoved(rows', 0)
          /\ \A a \in Accounts \ {Source, Target} : rows'[a] = rows[a]
      BY <1>3, <1>4, <1>6, <2>2, <2>3 DEF Before, HasMoved
    <2>5. Before(rows', at + 1)
      BY <1>6, <2>4 DEF Before
    <2> QED BY <1>1, <2>4, <2>5 DEF RowsInv, Past
  <1> QED BY <1>2, <1>5, <1>6

(* Money is moved once by each of the two transfers and never by the       *)
(* overdraft, whose amount is more than the source has left.               *)
LEMMA MovesItsRows ==
  ASSUME IInv, PlaceInv, RowsInv, SaidInv, Running, Commit(Driver),
         pc[Driver] = "commit", pc'[Driver] = "publish", at' = at, ended' = ended
  PROVE  RowsInv' /\ at # 13
  <1> USE DEF TransferSteps, TxSteps
  <1>0. Driver \in Fibers
    BY JourneyAssumption
  <1>1. /\ at \in {9, 13, 32}
        /\ req[Driver].source = Source /\ req[Driver].target = Target
        /\ req[Driver].amount = Stmt.amount
    BY Places DEF PlaceInv, SaidInv, Stmt
  <1>2. Before(rows, at)
    BY DEF RowsInv, Past, AfterSteps
  <1> DEFINE n == Stmt.amount
  <1>3. /\ Source \in Accounts /\ Target \in Accounts /\ Source # Target
        /\ rows[Source] \in Row /\ rows[Target] \in Row /\ n \in 1..rows[Source].balance
        /\ rows' = [rows EXCEPT
             ![Source] = [balance |-> rows[Source].balance - n, revision |-> rows[Source].revision + 1],
             ![Target] = [balance |-> rows[Target].balance + n, revision |-> rows[Target].revision + 1]]
    BY <1>0, <1>1, CommitMoves
  <1>4. /\ rows \in [Accounts -> Row \cup {NoRow}]
        /\ {SourceOpening, TargetOpening, Amount, Overdraft, PostAmount} \subseteq Int
    BY ScenarioIs DEF IInv, TypeOK
  <1> HIDE DEF n
  <1>5. /\ rows'[Source] = [balance |-> rows[Source].balance - n, revision |-> rows[Source].revision + 1]
        /\ rows'[Target] = [balance |-> rows[Target].balance + n, revision |-> rows[Target].revision + 1]
        /\ \A a \in Accounts \ {Source, Target} : rows'[a] = rows[a]
    BY <1>3, <1>4
  <1>6. rows'[Source] \in Row /\ rows'[Target] \in Row
    <2>1. /\ rows[Source].balance \in Nat /\ rows[Source].revision \in Nat
          /\ rows[Target].balance \in Nat /\ rows[Target].revision \in Nat
      BY <1>3 DEF Row
    <2>2. /\ rows[Source].balance - n \in Nat /\ rows[Source].revision + 1 \in Nat
          /\ rows[Target].balance + n \in Nat /\ rows[Target].revision + 1 \in Nat
      BY <1>3, <2>1
    <2> QED BY <1>5, <2>2 DEF Row
  <1>7. at # 13
    <2> SUFFICES ASSUME at = 13 PROVE FALSE
      OBVIOUS
    <2>1. n = Overdraft
      BY CallTable DEF Stmt, n
    <2>2. rows[Source].balance = SourceOpening - Amount
      BY <1>2 DEF Before, HasMoved, AtSource, Sent
    <2>3. Overdraft > SourceOpening - Amount
      BY JourneyAssumption
    <2> QED BY <1>3, <1>4, <2>1, <2>2, <2>3
  <1>8. CASE at = 9
    <2>1. n = Amount
      BY <1>8, CallTable DEF Stmt, n
    <2>2. HasMoved(rows', 1)
      BY <1>2, <1>4, <1>5, <1>6, <1>8, <2>1 DEF Before, HasMoved, AtSource, AtTarget, Sent
    <2>3. Before(rows', at + 1)
      BY <1>8, <2>2 DEF Before
    <2> QED BY <1>5, <1>8, <2>3 DEF RowsInv, Past, AfterSteps
  <1>9. CASE at = 32
    <2>1. n = PostAmount
      BY <1>9, CallTable DEF Stmt, n
    <2>2. HasMoved(rows', 2)
      BY <1>2, <1>4, <1>5, <1>6, <1>9, <2>1 DEF Before, HasMoved, AtSource, AtTarget, Sent
    <2>3. Before(rows', at + 1)
      BY <1>9, <2>2 DEF Before
    <2> QED BY <1>5, <1>9, <2>3 DEF RowsInv, Past, AfterSteps
  <1> QED BY <1>1, <1>7, <1>8, <1>9


(* A call of the service and what it writes.                               *)
LEMMA CallSaysIt ==
  ASSUME IInv, PlaceInv, DataInv, Call, UNCHANGED <<versionVars, versions>>
  PROVE  DataInv'
  <1> USE DEF Start, Goto, CreateSteps, TransferSteps, TxSteps, AfterSteps
  <1>0. Driver \in Fibers /\ pc \in [Fibers -> Steps] /\ req \in [Fibers -> Requests \cup {None}]
    BY JourneyAssumption DEF IInv, TypeOK
  <1>1. Running /\ UNCHANGED <<at, ended, rows, op, done>> /\ pc[Driver] = "idle"
    BY DEF Call, StartCreate, StartTransfer, StartQuery, journeyVars, IsOp, versionVars
  <1>2. /\ pc'[Driver] \in {"query", "createCheck", "begin"}
        /\ pc'[Driver] = "query" => Stmt.op = "query" /\ req'[Driver].topic = Stmt.topic
        /\ pc'[Driver] = "createCheck" =>
             /\ Stmt.op = "create"
             /\ req'[Driver].account = Stmt.account /\ req'[Driver].value = Stmt.value
        /\ pc'[Driver] = "begin" =>
             /\ Stmt.op \in {"transfer", "overdraft"}
             /\ req'[Driver].source = Source /\ req'[Driver].target = Target
             /\ req'[Driver].amount = Stmt.amount
    BY <1>0 DEF Call, StartCreate, StartTransfer, StartQuery, IsOp
  <1>3. RowsInv'
    BY <1>1, <1>2, RowsStay DEF DataInv, Past
  <1>4. SaidInv'
    BY <1>1, <1>2 DEF DataInv, SaidInv, Stmt, IsCutover
  <1>5. CutInv'
    BY <1>1 DEF DataInv, CutInv
  <1> QED BY <1>3, <1>4, <1>5 DEF DataInv

(* Whatever the service answers, the rows are where the statement says: an *)
(* answer "ok" to a transfer comes after its COMMIT, and the overdraft     *)
(* exceeds what the source holds.                                          *)
LEMMA ServeSaysIt ==
  ASSUME IInv, PlaceInv, DataInv, Serve, UNCHANGED <<versionVars, versions>>
  PROVE  DataInv'
  <1> USE DEF CreateSteps, TransferSteps, TxSteps, AfterSteps, Proceed, End
  <1>0. /\ Driver \in Fibers /\ Running /\ UNCHANGED <<op, done>>
        /\ at' = at \/ (at' = at + 1 /\ ended' = ended)
        /\ at \in 1..44
    BY JourneyAssumption DEF Serve, versionVars, PlaceInv
  <1>1. pc[Driver] # "idle" /\ Stmt.op \in CallOps
    BY <1>0, AnswersEnd DEF Serve, PlaceInv, IInv
  <1>2. CASE EndsCall(Driver)
    <2>1. pc'[Driver] = "idle" /\ UNCHANGED rows /\ Answered
      BY <1>2 DEF EndsCall, Answered
    <2>2. CASE Expected(reply'.outcome)
      <3>1. at' = at + 1 /\ ended' = ended
        BY <2>1, <2>2 DEF Serve
      <3>2. pc[Driver] \in Past \/ at \notin {1, 2, 9, 32}
        <4>1. CASE Stmt.op = "overdraft"
          BY <4>1, Places DEF PlaceInv, Stmt
        <4>2. CASE Stmt.op # "overdraft"
          <5>1. pc[Driver] \in {"query", "createRead", "readTotal"}
            BY <1>2, <2>2, <4>2 DEF Expected, IsOp, EndsCall
          <5>2. pc[Driver] = "query" => at \notin {1, 2, 9, 32}
            BY Places DEF DataInv, SaidInv, PlaceInv, Stmt
          <5> QED BY <5>1, <5>2 DEF Past
        <4> QED BY <4>1, <4>2
      <3>3. RowsInv'
        BY <1>0, <2>1, <3>1, <3>2, RowsStay DEF DataInv, Past
      <3>4. op[Driver] = V!Idle
        BY <1>1 DEF PlaceInv, CallOps, VersionOps
      <3>5. SaidInv'
        BY <1>0, <2>1, <3>4 DEF SaidInv, IsCutover, V!Idle
      <3>6. CutInv'
        <4>1. at # 27 /\ at # 44
          BY <1>1, Places DEF PlaceInv, Stmt, CallOps
        <4> QED BY <1>0, <3>1, <4>1 DEF DataInv, CutInv
      <3> QED BY <3>3, <3>5, <3>6 DEF DataInv
    <2>3. CASE ~Expected(reply'.outcome)
      <3>1. at' = at /\ ended' \in {"acceptedOverdraft", "runtimeFailure"}
        BY <2>1, <2>3 DEF Serve
      <3>2. RowsInv'
        <4>1. None \notin Endings
          BY JourneyAssumption
        <4> QED BY <2>1, <3>1, <4>1, RowsStay DEF DataInv, Running, Endings
      <3>3. SaidInv' /\ CutInv'
        BY <1>0, <2>1, <3>1 DEF DataInv, SaidInv, CutInv, IsCutover, Stmt
      <3> QED BY <3>2, <3>3 DEF DataInv
    <2> QED BY <2>2, <2>3
  <1>3. ASSUME pc'[Driver] # "idle", UNCHANGED req,
               \/ Opens(Driver)
               \/ Commit(Driver) /\ pc[Driver] = "commit" /\ pc'[Driver] = "publish"
               \/ GoesOn(Driver)
        PROVE  DataInv'
    <2>1. UNCHANGED <<at, ended>>
      BY <1>3 DEF Serve, Answered
    <2>2. RowsInv'
      <3>1. CASE Opens(Driver)
        BY <1>0, <2>1, <3>1, OpensItsRow DEF DataInv
      <3>2. CASE Commit(Driver) /\ pc[Driver] = "commit" /\ pc'[Driver] = "publish"
        BY <1>0, <2>1, <3>2, MovesItsRows DEF DataInv
      <3>3. CASE GoesOn(Driver)
        <4>1. UNCHANGED rows /\ (pc'[Driver] \in Past <=> pc[Driver] \in Past)
          BY <3>3 DEF GoesOn, Past
        <4> QED BY <2>1, <4>1, RowsStay DEF DataInv
      <3> QED BY <1>3, <3>1, <3>2, <3>3
    <2>3. /\ \/ pc[Driver] \in CreateSteps /\ pc'[Driver] \in CreateSteps
             \/ pc[Driver] \in TransferSteps /\ pc'[Driver] \in TransferSteps
          /\ pc'[Driver] # "query"
      BY <1>3 DEF Opens, GoesOn
    <2>4. SaidInv' /\ CutInv'
      BY <1>0, <1>3, <2>1, <2>3 DEF DataInv, SaidInv, CutInv, IsCutover, Stmt
    <2> QED BY <2>2, <2>4 DEF DataInv
  <1> QED BY <1>0, <1>2, <1>3, ServiceStep DEF Serve

(* An operation on the version row keeps its kind and what it was called   *)
(* with, and a cutover that is acknowledged has stored what it was to.     *)
LEMMA VersionSaysIt ==
  ASSUME VIInv, PlaceInv, SaidInv, VersionStep
  PROVE  /\ op'[Driver] # V!Idle => op'[Driver].kind = Stmt.op
         /\ IsCutover(Driver)' => op'[Driver].next = VersionTwo
         /\ op'[Driver].kind = "read" => op'[Driver].service = Service
         /\ at = 27 /\ at' = at + 1 => (\E c \in done' : c.to = VersionTwo)
                                       /\ answer'.row = VersionTwo
         /\ at = 41 /\ at' = at + 1 => answer'.row = stored[Service]
  <1> USE DEF V!Answer, V!Abort, V!Begin, V!Commit, V!Idle
  <1> DEFINE Said == /\ op'[Driver] # V!Idle => op'[Driver].kind = Stmt.op
                     /\ IsCutover(Driver)' => op'[Driver].next = VersionTwo
                     /\ op'[Driver].kind = "read" => op'[Driver].service = Service
             Cut == answer' # None /\ answer'.outcome = "ok" =>
                      /\ at = 27 => (\E c \in done' : c.to = VersionTwo) /\ answer'.row = VersionTwo
                      /\ at = 41 => answer'.row = stored[Service]
  <1>0. /\ Driver \in Operators /\ op \in [Operators -> V!Operations \cup {V!Idle}]
        /\ V!NoneIsApart
    BY EvolutionAssumption DEF VIInv, Operators
  <1>1. (at = 27 => Stmt.op = "cutover") /\ (at = 41 => Stmt.op = "read")
    BY Places DEF PlaceInv, Stmt
  <1>13. ASSUME NEW p, p = "update" \/ p = "commit", op' = [op EXCEPT ![Driver].phase = p],
               (IsInitialize(Driver) /\ p = "commit") \/ IsCutover(Driver)
        PROVE  Said
    <2> DEFINE y == [op[Driver] EXCEPT !.phase = p]
    <2>1. op[Driver] \in V!Operations
      BY <1>0, <1>13 DEF IsInitialize, IsCutover
    <2>2. /\ y.kind = op[Driver].kind
          /\ op[Driver].kind = "cutover" => y.next = op[Driver].next
      BY <1>13, <2>1, PhaseSet DEF IsInitialize, IsCutover
    <2>3. op'[Driver] = y
      BY <1>0, <1>13
    <2> HIDE DEF y
    <2>4. op[Driver] # V!Idle /\ op[Driver].kind # "read"
      BY <1>13 DEF IsInitialize, IsCutover
    <2>5. op'[Driver].kind = op[Driver].kind
      BY <2>2, <2>3
    <2>6. IsCutover(Driver)' => op'[Driver].next = VersionTwo
      BY <2>2, <2>3, <2>5 DEF SaidInv, IsCutover
    <2> QED BY <2>4, <2>5, <2>6 DEF SaidInv
  <1>2. ASSUME IsOp("initialize"), V!Initialize(Driver, VersionOne) PROVE Said /\ Cut
    BY <1>0, <1>1, <1>2 DEF V!Initialize, IsOp, SaidInv, IsCutover
  <1>3. ASSUME IsOp("read"), V!StartRead(Driver, Service) PROVE Said /\ Cut
    BY <1>0, <1>1, <1>3 DEF V!StartRead, IsOp, SaidInv, IsCutover
  <1>4. ASSUME IsOp("cutover"), V!StartCutover(Driver, versions["before"], VersionTwo)
        PROVE  Said /\ Cut
    <2>1. CASE V!InputFault(versions["before"], VersionTwo) # None
      BY <1>0, <1>4, <2>1 DEF V!StartCutover, IsOp, SaidInv, IsCutover, V!InputFault
    <2>2. CASE V!InputFault(versions["before"], VersionTwo) = None
      BY <1>0, <1>4, <2>2 DEF V!StartCutover, IsOp, SaidInv, IsCutover
    <2> QED BY <2>1, <2>2
  <1>5. ASSUME V!Insert(Driver) PROVE Said /\ Cut
    <2>1. CASE op' = [op EXCEPT ![Driver].phase = "commit"] /\ answer' = None
      <3> HIDE DEF Said
      <3> QED BY <1>5, <1>13, <2>1 DEF V!Insert, IsInitialize
    <2>2. CASE V!Abort(Driver, "sql")
      BY <1>0, <2>2 DEF IsCutover
    <2> QED BY <1>5, <2>1, <2>2 DEF V!Insert
  <1>6. ASSUME V!InitializeCommit(Driver) PROVE Said /\ Cut
    <2>1. Stmt.op = "initialize"
      BY <1>6 DEF V!InitializeCommit, SaidInv
    <2> QED BY <1>0, <1>1, <1>6, <2>1 DEF V!InitializeCommit, IsCutover
  <1>14. ASSUME V!Read(Driver) PROVE Said /\ Cut
    <2>1. Stmt.op = "read" /\ op[Driver].service = Service
      BY <1>14 DEF V!Read, SaidInv
    <2>2. Said
      BY <1>0, <1>14 DEF V!Read, IsCutover
    <2>3. CASE V!ReadFault(Service) # None
      <3>1. answer'.outcome # "ok"
        BY <1>0, <1>14, <2>1, <2>3 DEF V!Read, V!ReadFault
      <3> QED BY <2>2, <3>1
    <2>4. CASE V!ReadFault(Service) = None
      <3>1. answer'.row = stored[Service]
        BY <1>14, <2>1, <2>4 DEF V!Read
      <3> QED BY <1>1, <2>1, <2>2, <3>1
    <2> QED BY <2>3, <2>4
  <1>7. ASSUME V!CutoverRead(Driver) PROVE Said /\ Cut
    <2>1. V!CutoverReadFault(op[Driver].expected) # "ok"
      BY <1>0 DEF V!CutoverReadFault, V!ReadFault, V!Mismatch, V!NoneIsApart, V!Outcomes, V!Metadata
    <2>2. CASE op' = [op EXCEPT ![Driver].phase = "update"] /\ answer' = None
      <3> HIDE DEF Said
      <3> QED BY <1>7, <1>13, <2>2 DEF V!CutoverRead, IsCutover
    <2>3. CASE V!Abort(Driver, V!CutoverReadFault(op[Driver].expected))
      BY <1>0, <2>1, <2>3 DEF IsCutover
    <2> QED BY <1>7, <2>2, <2>3 DEF V!CutoverRead
  <1>8. ASSUME V!CutoverUpdate(Driver) PROVE Said /\ Cut
    <2>1. CASE op' = [op EXCEPT ![Driver].phase = "commit"] /\ answer' = None
      <3> HIDE DEF Said
      <3> QED BY <1>8, <1>13, <2>1 DEF V!CutoverUpdate, IsCutover
    <2>2. CASE V!Abort(Driver, "sql")
      BY <1>0, <2>2 DEF IsCutover
    <2> QED BY <1>8, <2>1, <2>2 DEF V!CutoverUpdate
  <1>9. ASSUME V!CutoverCommit(Driver) PROVE Said /\ Cut
    <2>1. Said
      BY <1>0, <1>9 DEF V!CutoverCommit, IsCutover
    <2>2. op[Driver].next = VersionTwo
      BY <1>9 DEF V!CutoverCommit, SaidInv, IsCutover
    <2>3. \E c \in done' : c.to = VersionTwo
      <3> DEFINE c == [from |-> op[Driver].expected, to |-> op[Driver].next]
      <3>1. c \in done' /\ c.to = VersionTwo
        BY <1>9, <2>2 DEF V!CutoverCommit
      <3> QED BY <3>1
    <2>4. answer'.row = VersionTwo /\ Stmt.op = "cutover"
      BY <1>9, <2>2 DEF V!CutoverCommit, V!NextRow, SaidInv
    <2> QED BY <1>1, <2>1, <2>3, <2>4
  <1>10. ASSUME V!Fails(Driver) PROVE Said /\ Cut
    BY <1>0, <1>1, <1>10 DEF V!Fails, SaidInv, IsCutover
  <1>11. Said /\ Cut
    BY <1>2, <1>3, <1>4, <1>5, <1>6, <1>7, <1>8, <1>9, <1>10, <1>14 DEF VersionStep, V!Proceeds
  <1>12. at' = at + 1 => answer' # None /\ answer'.outcome = "ok"
    BY DEF VersionStep, TakeVersion, End, PlaceInv
  <1> QED BY <1>11, <1>12

(* Nobody takes an acknowledged cutover back.                              *)
LEMMA DoneGrows == [V!Next]_(V!vars) => done \subseteq done'
  BY DEF V!Next, V!vars, V!Starts, V!Proceeds, V!Fails, V!DiesAfterCommit, V!Initialize, V!StartRead,
     V!StartCutover, V!Begin, V!Insert, V!InitializeCommit, V!Read, V!CutoverRead,
     V!CutoverUpdate, V!CutoverCommit, V!Commit, V!Abort, V!Answer


(* The steps of the journey that neither call the service nor touch the    *)
(* version row.                                                            *)
LEMMA QuietKeepsData ==
  ASSUME PlaceInv, DataInv, UNCHANGED <<rows, pc, req, op>>, done \subseteq done',
         \/ UNCHANGED <<at, ended>>
         \/ /\ Running /\ Stmt.op \notin CallOps \cup {"initialize", "read", "cutover"}
            /\ at' = at + 1 /\ UNCHANGED ended /\ Stmt.op # "done"
         \/ /\ Running /\ at' = at /\ ended' \in Endings
            /\ ended' = "done" => Stmt.op = "done"
  PROVE  DataInv'
  <1>1. CASE UNCHANGED <<at, ended>>
    <2>1. RowsInv'
      BY <1>1, RowsStay DEF DataInv
    <2>2. SaidInv' /\ CutInv'
      BY <1>1 DEF DataInv, SaidInv, CutInv, Stmt, IsCutover
    <2> QED BY <2>1, <2>2 DEF DataInv
  <1>2. CASE /\ Running /\ Stmt.op \notin CallOps \cup {"initialize", "read", "cutover"}
             /\ at' = at + 1 /\ UNCHANGED ended /\ Stmt.op # "done"
    <2>1. at \notin {1, 2, 9, 27, 32, 44} /\ at \in 1..44
      BY <1>2, Places DEF PlaceInv, Stmt, CallOps
    <2>2. pc[Driver] = "idle" /\ op[Driver] = V!Idle
      BY <1>2 DEF PlaceInv, VersionOps
    <2>3. RowsInv'
      BY <1>2, <2>1, <2>2, RowsStay DEF DataInv, Past, AfterSteps
    <2>4. SaidInv' /\ CutInv'
      BY <1>2, <2>1, <2>2 DEF DataInv, SaidInv, CutInv, IsCutover, V!Idle, CreateSteps, TransferSteps,
            TxSteps, AfterSteps
    <2> QED BY <2>3, <2>4 DEF DataInv
  <1>3. CASE /\ Running /\ at' = at /\ ended' \in Endings
             /\ ended' = "done" => Stmt.op = "done"
    <2>1. None \notin Endings
      BY JourneyAssumption
    <2>2. RowsInv'
      BY <1>3, <2>1, RowsStay DEF DataInv, Running
    <2>3. Stmt.op = "done" => at = 44
      BY Places DEF PlaceInv, Stmt
    <2>4. SaidInv' /\ CutInv'
      BY <1>3, <2>3 DEF DataInv, SaidInv, CutInv, IsCutover, Stmt
    <2> QED BY <2>2, <2>4 DEF DataInv
  <1> QED BY <1>1, <1>2, <1>3

(* A version operation of the journey changes no account, and its answer   *)
(* tells the version that is stored.                                       *)
LEMMA VersionKeepsData ==
  ASSUME VIInv, PlaceInv, DataInv, VersionStep, done \subseteq done'
  PROVE  DataInv'
  <1>1. /\ answer' # None => op'[Driver] = V!Idle
        /\ Stmt.op \in VersionOps /\ at \in 1..44
    BY VersionStepIs DEF PlaceInv
  <1>2. Running /\ pc[Driver] = "idle" /\ UNCHANGED <<rows, pc, req>>
    BY <1>1 DEF VersionStep, PlaceInv, VersionOps, CallOps, vars
  <1>3. at \notin {1, 2, 9, 32, 44}
    BY <1>1, Places DEF PlaceInv, Stmt, VersionOps
  <1>4. \/ UNCHANGED <<at, ended>>
        \/ at' = at + 1 /\ UNCHANGED ended /\ answer' # None
        \/ at' = at /\ ended' = "versionFailure"
    BY DEF VersionStep, TakeVersion, Proceed, End
  <1>5. RowsInv'
    <2>1. None \notin Endings
      BY JourneyAssumption
    <2> QED BY <1>2, <1>3, <1>4, <2>1, RowsStay DEF DataInv, Running, Past, AfterSteps, Endings
  <1>6. SaidInv'
    BY <1>1, <1>2, <1>4, VersionSaysIt DEF DataInv, SaidInv, Stmt, V!Idle, IsCutover, CreateSteps,
       TransferSteps, TxSteps, AfterSteps
  <1>7. CutInv'
    <2>1. at' > 27 => \E c \in done' : c.to = VersionTwo
      BY <1>1, <1>4, VersionSaysIt DEF DataInv, CutInv
    <2>2. ended # "done"
      BY <1>3 DEF DataInv, CutInv
    <2> QED BY <1>4, <2>1, <2>2 DEF CutInv
  <1> QED BY <1>5, <1>6, <1>7 DEF DataInv

(* At the first statement there are no rows and no version.                *)
LEMMA InitData == EInit => DataInv
  <1> SUFFICES ASSUME EInit PROVE DataInv
    OBVIOUS
  <1>1. Driver \in Fibers /\ Driver \in Operators
    BY JourneyAssumption DEF Operators
  <1>2. /\ at = 1 /\ ended = None /\ rows = [a \in Accounts |-> NoRow]
        /\ pc[Driver] = "idle" /\ op[Driver] = V!Idle
    BY <1>1 DEF EInit, JInit, Init, V!Init
  <1>3. RowsInv
    BY <1>2, JourneyAssumption DEF RowsInv, Before, Past, AfterSteps
  <1>4. SaidInv
    BY <1>2 DEF SaidInv, IsCutover, V!Idle, CreateSteps, TransferSteps, TxSteps, AfterSteps
  <1>5. CutInv
    BY <1>2, JourneyAssumption DEF CutInv, Endings
  <1> QED BY <1>3, <1>4, <1>5 DEF DataInv

(* Every step of the journey and of its rivals keeps the rows, the version *)
(* and the place of the script in agreement.                               *)
LEMMA NextData == EInv /\ DataInv /\ [ENext]_eVars => DataInv'
  <1> SUFFICES ASSUME EInv, DataInv, [ENext]_eVars PROVE DataInv'
    OBVIOUS
  <1> USE DEF EInv
  <1>0. done \subseteq done' /\ Driver \in Operators
    BY StepsOfVersions, DoneGrows DEF Operators
  <1>1. CASE UNCHANGED eVars
    BY <1>0, <1>1, QuietKeepsData DEF eVars, allVars, journeyVars, vars, versionVars
  <1>2. CASE Call /\ UNCHANGED <<versionVars, versions>>
    BY <1>2, CallSaysIt
  <1>3. CASE Serve /\ UNCHANGED <<versionVars, versions>>
    BY <1>3, ServeSaysIt
  <1>4. CASE (Listen \/ Stop) /\ UNCHANGED <<versionVars, versions>>
    BY <1>0, <1>4, QuietKeepsData
       DEF Listen, SubRead, SubFails, SubEmit, SetSub, Stop, allVars, vars, journeyVars, versionVars
  <1>5. CASE (Collect \/ Take \/ Close) /\ UNCHANGED <<versionVars, versions>>
    BY <1>0, <1>5, QuietKeepsData
       DEF Collect, Subscribe, SetSub, Take, Close, IsOp, Proceed, CallOps, vars, versionVars
  <1>6. CASE (Deadline \/ Count \/ CompareSlots \/ Done) /\ UNCHANGED <<versionVars, versions>>
    BY <1>0, <1>6, QuietKeepsData
       DEF Deadline, Count, CompareSlots, Done, IsOp, Proceed, End, CallOps, vars, versionVars, Endings
  <1>7. CASE VersionStep
    BY <1>0, <1>7, VersionKeepsData
  <1>8. CASE RivalStep
    <2>1. PICK o \in Rivals : V!Starts(o) \/ V!Proceeds(o) \/ V!Fails(o) \/ V!DiesAfterCommit(o)
      BY <1>8 DEF RivalStep
    <2>2. \/ op' = op
          \/ \E x : op' = [op EXCEPT ![o] = x]
      BY <2>1 DEF V!Starts, V!Proceeds, V!Fails, V!DiesAfterCommit, V!Initialize, V!StartRead,
         V!StartCutover, V!Begin, V!Insert, V!InitializeCommit, V!Read, V!CutoverRead,
         V!CutoverUpdate, V!CutoverCommit, V!Commit, V!Abort, V!Answer
    <2>3. op'[Driver] = op[Driver]
      BY <1>0, <2>2, EvolutionAssumption DEF VIInv
    <2>4. UNCHANGED <<rows, pc, req, at, ended>>
      BY <1>8 DEF RivalStep, allVars, vars, journeyVars
    <2>5. RowsInv'
      BY <2>4, RowsStay DEF DataInv
    <2>6. SaidInv' /\ CutInv'
      BY <1>0, <2>3, <2>4 DEF DataInv, SaidInv, CutInv, Stmt, IsCutover
    <2> QED BY <2>5, <2>6 DEF DataInv
  <1>9. CASE Judge
    BY <1>0, <1>9, QuietKeepsData
       DEF Judge, IsOp, Proceed, End, CallOps, vars, versionVars, Endings
  <1> QED BY <1>1, <1>2, <1>3, <1>4, <1>5, <1>6, <1>7, <1>8, <1>9 DEF ENext, JourneyStep, JNext

(* They agree at every point of the journey.                               *)
LEMMA DataInvariance == ESpec => [](EInv /\ DataInv)
  BY InitEInv, NextEInv, InitData, NextData, PTL DEF ESpec

(* Wherever the journey stops, and whatever the rivals do to the version   *)
(* row, the file tells how far it came: money moves a second time only     *)
(* under the candidate version, and it has when the journey is done.       *)
THEOREM JourneyVersionFollowsData == ESpec => []VersionFollowsData
  <1>1. ASSUME EInv, DataInv PROVE VersionFollowsData
    <2> DEFINE moved_ == rows[Source] # NoRow /\ rows[Source].revision = 2
    <2>1. at \in 1..44
      BY <1>1 DEF EInv, PlaceInv
    <2>2. ASSUME moved_ PROVE stored[Service] = VersionTwo
      <3>1. at > 27
        BY <1>1, <2>1, <2>2 DEF DataInv, RowsInv, Before, HasMoved, AtSource
      <3>2. PICK c \in done : c.to = VersionTwo
        BY <1>1, <3>1 DEF DataInv, CutInv
      <3> QED BY <1>1, <3>2 DEF EInv, VIInv, DoneInv, VersionTwo
    <2>3. ASSUME ended = "done" PROVE moved_
      <3>1. HasMoved(rows, 2)
        BY <1>1, <2>3 DEF DataInv, CutInv, RowsInv, Before
      <3> QED BY <3>1, NoneAssumption DEF HasMoved, AtSource
    <2> QED BY <2>2, <2>3 DEF VersionFollowsData
  <1> QED BY <1>1, DataInvariance, PTL
-----------------------------------------------------------------------------
(* What the journey observes.  Before it has moved money n times it is     *)
(* shown the rows of revision n and their total, by the names of a stage.  *)
Shown(w, n) == IF w = Source THEN AtSource(n) ELSE IF w = Target THEN AtTarget(n)
               ELSE [revision |-> n, total |-> SourceOpening + TargetOpening]

Stage(name) == IF name = "initial" THEN 0
               ELSE IF name \in {"committed", "clean", "reopened", "afterCutover"} THEN 1 ELSE 2

(* The name at each place that has one, and what is compared.              *)
LEMMA NameTable ==
  /\ \A k \in 6..8 : Script[k].name = "initial"
  /\ \A k \in 10..12 : Script[k].name = "committed"
  /\ \A k \in 15..17 : Script[k].name = "clean"
  /\ \A k \in 19..21 : Script[k].name = "reopened"
  /\ \A k \in 28..30 : Script[k].name = "afterCutover"
  /\ \A k \in 33..35 : Script[k].name = "afterTransfer"
  /\ \A k \in 38..40 : Script[k].name = "afterReopen"
  /\ Script[25].name = "initialized" /\ Script[26].name = "before"
  /\ Script[27].name = "after" /\ Script[41].name = "reopened"
  <1> USE DEF AnEach, AVersion
  <1>1. \A k \in 6..8 : Script[k].name = "initial"
    <2>1. Script[6].name = "initial" /\ Script[7].name = "initial" /\ Script[8].name = "initial"
      BY ScriptTable
    <2> QED BY <2>1
  <1>2. \A k \in 10..12 : Script[k].name = "committed"
    <2>1. Script[10].name = "committed" /\ Script[11].name = "committed" /\ Script[12].name = "committed"
      BY ScriptTable
    <2> QED BY <2>1
  <1>3. \A k \in 15..17 : Script[k].name = "clean"
    <2>1. Script[15].name = "clean" /\ Script[16].name = "clean" /\ Script[17].name = "clean"
      BY ScriptTable
    <2> QED BY <2>1
  <1>4. \A k \in 19..21 : Script[k].name = "reopened"
    <2>1. Script[19].name = "reopened" /\ Script[20].name = "reopened" /\ Script[21].name = "reopened"
      BY ScriptTable
    <2> QED BY <2>1
  <1>5. \A k \in 28..30 : Script[k].name = "afterCutover"
    <2>1. /\ Script[28].name = "afterCutover" /\ Script[29].name = "afterCutover"
          /\ Script[30].name = "afterCutover"
      BY ScriptTable
    <2> QED BY <2>1
  <1>6. \A k \in 33..35 : Script[k].name = "afterTransfer"
    <2>1. /\ Script[33].name = "afterTransfer" /\ Script[34].name = "afterTransfer"
          /\ Script[35].name = "afterTransfer"
      BY ScriptTable
    <2> QED BY <2>1
  <1>7. \A k \in 38..40 : Script[k].name = "afterReopen"
    <2>1. /\ Script[38].name = "afterReopen" /\ Script[39].name = "afterReopen"
          /\ Script[40].name = "afterReopen"
      BY ScriptTable
    <2> QED BY <2>1
  <1>8. /\ Script[25].name = "initialized" /\ Script[26].name = "before"
        /\ Script[27].name = "after" /\ Script[41].name = "reopened"
    BY ScriptTable
  <1> QED BY <1>1, <1>2, <1>3, <1>4, <1>5, <1>6, <1>7, <1>8

(* What is compared with what.                                             *)
LEMMA CompareTable ==
  /\ Script[22].left = "committed" /\ Script[22].right = "clean"
  /\ Script[23].left = "clean" /\ Script[23].right = "reopened"
  /\ Script[31].left = "committed" /\ Script[31].right = "afterCutover"
  /\ Script[42].left = "afterTransfer" /\ Script[42].right = "afterReopen"
  <1>1. /\ Script[22] = ACompare("committed", "clean") /\ Script[23] = ACompare("clean", "reopened")
        /\ Script[31] = ACompare("committed", "afterCutover")
        /\ Script[42] = ACompare("afterTransfer", "afterReopen")
    BY ScriptTable
  <1> QED BY <1>1 DEF ACompare

(* Whoever reads while the accounts have moved n times is shown the stage. *)
LEMMA ShownIs ==
  ASSUME IInv, NEW n \in 0..2, HasMoved(rows, n),
         \A a \in Accounts \ {Source, Target} : rows[a] = NoRow, NEW w \in Watchers
  PROVE  Observe(w) = Shown(w, n)
  <1>1. /\ Source \in Accounts /\ Target \in Accounts /\ Source # Target
        /\ NoRow \notin Row /\ TotalKey \notin Accounts
        /\ w \in {Source, Target, TotalKey}
    BY JourneyAssumption, NoneAssumption
  <1>2. CASE w # TotalKey
    BY <1>1, <1>2 DEF Observe, Shown, HasMoved
  <1>3. CASE w = TotalKey
    <2>1. Existing = {Source, Target}
      BY <1>1 DEF Existing, HasMoved
    <2>2. DOMAIN Balances = {Source, Target}
      BY <2>1 DEF Balances
    <2>3. /\ Balances[Source] = SourceOpening - Sent(n) /\ Balances[Target] = TargetOpening + Sent(n)
          /\ Balances[Source] \in Nat /\ Balances[Target] \in Nat
      BY <1>1, <2>1 DEF Balances, HasMoved, AtSource, AtTarget, Row
    <2>4. SumFunctionOnSet(Balances, {Source, Target}) = Balances[Source] + Balances[Target]
      <3>0. PICK g, S, R : g = Balances /\ S = {Source, Target} /\ R = {Target}
        OBVIOUS
      <3>1. /\ IsFiniteSet(S) /\ IsFiniteSet(R) /\ S \ {Source} = R /\ R \ {Target} = {}
            /\ Source \in S /\ Target \in R /\ \A x \in S : g[x] \in Int
        <4>1. IsFiniteSet(R) /\ IsFiniteSet(R \cup {Source})
          BY <3>0, FS_Singleton, FS_AddElement
        <4>2. S = R \cup {Source}
          BY <3>0
        <4>3. S \ {Source} = R /\ R \ {Target} = {} /\ Source \in S /\ Target \in R
          BY <1>1, <3>0
        <4>4. \A x \in S : g[x] \in Int
          BY <2>3, <3>0
        <4> QED BY <4>1, <4>2, <4>3, <4>4
      <3>2. SumFunctionOnSet(g, S) = g[Source] + SumFunctionOnSet(g, R)
        <4>1. SumFunctionOnSet(g, S) = g[Source] + SumFunctionOnSet(g, S \ {Source})
          BY <3>1, SumRemove
        <4> QED BY <3>1, <4>1
      <3>3. SumFunctionOnSet(g, R) = g[Target] + 0
        <4>1. \A x \in R : g[x] \in Int
          BY <3>0, <3>1
        <4>2. SumFunctionOnSet(g, R) = g[Target] + SumFunctionOnSet(g, R \ {Target})
          BY <3>1, <4>1, SumRemove
        <4>3. SumFunctionOnSet(g, {}) = 0
          BY SumEmpty
        <4> QED BY <3>1, <4>2, <4>3
      <3>4. g[Source] \in Int /\ g[Target] \in Int
        BY <2>3, <3>0
      <3>5. SumFunctionOnSet(g, S) = g[Source] + g[Target]
        BY <3>2, <3>3, <3>4
      <3> QED BY <3>0, <3>5
    <2>5. SumFunction(Balances) = SourceOpening + TargetOpening
      <3>1. {SourceOpening, TargetOpening, Amount, PostAmount} \subseteq Int
        BY ScenarioIs
      <3>2. Sent(n) \in Int
        BY <3>1 DEF Sent
      <3> QED BY <2>2, <2>3, <2>4, <3>1, <3>2 DEF SumFunction
    <2>6. {rows[a].revision : a \in Existing} = {n}
      BY <2>1 DEF HasMoved, AtSource, AtTarget
    <2>7. Max({0} \cup {n}) = n
      BY DEF Max
    <2> QED BY <1>1, <1>3, <2>5, <2>6, <2>7 DEF Observe, TotalFunds, Shown
  <1> QED BY <1>2, <1>3

(* What has been observed is what its stage showed, and every statement    *)
(* that observes has been followed before the next.                        *)
Observes == {"take", "query"}

GotInv ==
  /\ \A name \in Names, w \in Watchers :
       Slot(name, w) \in DOMAIN got => got[Slot(name, w)] = Shown(w, Stage(name))
  /\ \A k \in 1..44 : k < at /\ Script[k].op \in Observes =>
       Slot(Script[k].name, Script[k].topic) \in DOMAIN got

(* An observation is noted under its own name, and none is overwritten     *)
(* with another value.                                                     *)
LEMMA GotMoves ==
  ASSUME GotInv, at \in 1..44,
         \/ /\ got' = got
            /\ at' = at \/ (at' = at + 1 /\ Stmt.op \notin Observes)
         \/ /\ at' = at + 1
            /\ Note(Stmt.name, Stmt.topic, Shown(Stmt.topic, Stage(Stmt.name)))
  PROVE  GotInv'
  <1>1. CASE /\ got' = got
             /\ at' = at \/ (at' = at + 1 /\ Stmt.op \notin Observes)
    BY <1>1 DEF GotInv, Stmt
  <1>2. CASE /\ at' = at + 1
             /\ Note(Stmt.name, Stmt.topic, Shown(Stmt.topic, Stage(Stmt.name)))
    <2> PICK x : x = Slot(Stmt.name, Stmt.topic)
      OBVIOUS
    <2>1. /\ DOMAIN got' = DOMAIN got \cup {x}
          /\ got'[x] = Shown(Stmt.topic, Stage(Stmt.name))
          /\ \A y \in DOMAIN got \ {x} : got'[y] = got[y]
      BY <1>2 DEF Note, With
    <2>2. ASSUME NEW name \in Names, NEW w \in Watchers, Slot(name, w) \in DOMAIN got'
          PROVE  got'[Slot(name, w)] = Shown(w, Stage(name))
      <3>1. CASE Slot(name, w) = x
        <4>1. name = Stmt.name /\ w = Stmt.topic
          BY <3>1 DEF Slot
        <4> QED BY <2>1, <3>1, <4>1
      <3>2. CASE Slot(name, w) # x
        BY <2>1, <2>2, <3>2 DEF GotInv
      <3> QED BY <3>1, <3>2
    <2>3. ASSUME NEW k \in 1..44, k < at', Script[k].op \in Observes
          PROVE  Slot(Script[k].name, Script[k].topic) \in DOMAIN got'
      <3>1. CASE k = at
        BY <2>1, <3>1 DEF Stmt
      <3>2. CASE k # at
        <4>1. k < at
          BY <1>2, <2>3, <3>2
        <4> QED BY <2>1, <2>3, <4>1 DEF GotInv
      <3> QED BY <3>1, <3>2
    <2> QED BY <2>2, <2>3 DEF GotInv
  <1> QED BY <1>1, <1>2

(* The rows a query of the journey is answered with.                       *)
LEMMA QueryShows ==
  ASSUME IInv, PlaceInv, DataInv, Running, pc[Driver] = "query"
  PROVE  /\ Stmt.op = "query" /\ req[Driver].topic = Stmt.topic
         /\ Observe(Stmt.topic) = Shown(Stmt.topic, Stage(Stmt.name))
  <1>1. Stmt.op = "query" /\ req[Driver].topic = Stmt.topic
    BY DEF DataInv, SaidInv
  <1>2. at \in (15..17) \cup (19..21) \cup (28..30) \cup (33..35) \cup (38..40)
    BY <1>1, Places DEF PlaceInv, Stmt
  <1>3. Before(rows, at) /\ \A a \in Accounts \ {Source, Target} : rows[a] = NoRow
    BY DEF DataInv, RowsInv, Past, AfterSteps
  <1>4. Stmt.topic \in Watchers
    BY <1>1, TopicOf
  <1>5. CASE at < 32
    <2>1. Stage(Stmt.name) = 1
      BY <1>2, <1>5, NameTable DEF Stmt, Stage
    <2>2. HasMoved(rows, 1)
      BY <1>2, <1>3, <1>5 DEF Before
    <2> QED BY <1>1, <1>3, <1>4, <2>1, <2>2, ShownIs
  <1>6. CASE at > 32
    <2>1. Stage(Stmt.name) = 2
      BY <1>2, <1>6, NameTable DEF Stmt, Stage
    <2>2. HasMoved(rows, 2)
      BY <1>2, <1>3, <1>6 DEF Before
    <2> QED BY <1>1, <1>3, <1>4, <2>1, <2>2, ShownIs
  <1> QED BY <1>2, <1>5, <1>6

(* Three statements that are over have observed the three topics.          *)
LEMMA Noted ==
  ASSUME PlaceInv, GotInv, NEW w \in Watchers, NEW name,
         NEW first \in {6, 10, 15, 19, 28, 33, 38}, first + 2 < at,
         \A k \in first..(first + 2) : Script[k].name = name
  PROVE  Slot(name, w) \in DOMAIN got
  <1>1. w \in {Source, Target, TotalKey}
    BY JourneyAssumption
  <1>2. /\ Script[first].topic = Source /\ Script[first + 1].topic = Target
        /\ Script[first + 2].topic = TotalKey
    BY TopicTable
  <1>3. PICK k \in first..(first + 2) : Script[k].topic = w
    BY <1>1, <1>2
  <1>4. k \in 1..44 /\ k < at /\ Script[k].op \in Observes
    BY Places DEF PlaceInv, Observes
  <1> QED BY <1>3, <1>4 DEF GotInv

(* What each name has been shown, once its three statements are over.      *)
LEMMA ObservedSoFar ==
  ASSUME PlaceInv, GotInv, NEW w \in Watchers
  PROVE  /\ at > 8 => got[Slot("initial", w)] = Shown(w, 0)
         /\ at > 12 => got[Slot("committed", w)] = Shown(w, 1)
         /\ at > 17 => got[Slot("clean", w)] = Shown(w, 1)
         /\ at > 21 => got[Slot("reopened", w)] = Shown(w, 1)
         /\ at > 30 => got[Slot("afterCutover", w)] = Shown(w, 1)
         /\ at > 35 => got[Slot("afterTransfer", w)] = Shown(w, 2)
         /\ at > 40 => got[Slot("afterReopen", w)] = Shown(w, 2)
  <1>0. at \in 1..44
    BY DEF PlaceInv
  <1>1. ASSUME NEW name \in Names, NEW first \in {6, 10, 15, 19, 28, 33, 38}, first + 2 < at,
               \A k \in first..(first + 2) : Script[k].name = name
        PROVE  got[Slot(name, w)] = Shown(w, Stage(name))
    BY <1>1, Noted DEF GotInv
  <1> USE DEF Names
  <1>2. at > 8 => got[Slot("initial", w)] = Shown(w, Stage("initial"))
    BY <1>0, <1>1, NameTable
  <1>3. at > 12 => got[Slot("committed", w)] = Shown(w, Stage("committed"))
    BY <1>0, <1>1, NameTable
  <1>4. at > 17 => got[Slot("clean", w)] = Shown(w, Stage("clean"))
    BY <1>0, <1>1, NameTable
  <1>5. at > 21 => got[Slot("reopened", w)] = Shown(w, Stage("reopened"))
    BY <1>0, <1>1, NameTable
  <1>6. at > 30 => got[Slot("afterCutover", w)] = Shown(w, Stage("afterCutover"))
    BY <1>0, <1>1, NameTable
  <1>7. at > 35 => got[Slot("afterTransfer", w)] = Shown(w, Stage("afterTransfer"))
    BY <1>0, <1>1, NameTable
  <1>8. at > 40 => got[Slot("afterReopen", w)] = Shown(w, Stage("afterReopen"))
    BY <1>0, <1>1, NameTable
  <1>9. /\ Stage("initial") = 0 /\ Stage("committed") = 1 /\ Stage("clean") = 1
        /\ Stage("reopened") = 1 /\ Stage("afterCutover") = 1 /\ Stage("afterTransfer") = 2
        /\ Stage("afterReopen") = 2
    BY DEF Stage
  <1> QED BY <1>2, <1>3, <1>4, <1>5, <1>6, <1>7, <1>8, <1>9

(* What is compared has been observed at the same stage.                   *)
LEMMA ComparisonsHold ==
  ASSUME PlaceInv, GotInv, IsOp("compare"), NEW w \in Watchers
  PROVE  got[Slot(Stmt.left, w)] = got[Slot(Stmt.right, w)]
  <1>1. at \in {22, 23, 31, 42}
    BY Places DEF PlaceInv, IsOp, Stmt
  <1> QED BY <1>1, ObservedSoFar, CompareTable DEF Stmt

(* What the journey knows of the version row, once it has advanced it.     *)
KeptVersions ==
  /\ at > 27 => "after" \in DOMAIN versions
  /\ at > 41 => "reopened" \in DOMAIN versions
  /\ "after" \in DOMAIN versions => versions["after"] = VersionTwo
  /\ "reopened" \in DOMAIN versions => versions["reopened"] = VersionTwo

(* The three expectations of the journey's own are met, the first of them  *)
(* if the plan's amounts are those that it is written for.                 *)
LEMMA JudgementsHold ==
  ASSUME PlaceInv, GotInv, KeptVersions
  PROVE  /\ SourceOpening - Amount = 6 /\ TargetOpening + Amount = 6 /\ IsOp("baseline")
              => ExpectedBaseline
         /\ IsOp("advance") => ExpectedAfterTransfer
         /\ IsOp("sameVersion") => SameVersion
  <1>0. /\ {SourceOpening, TargetOpening, Amount, PostAmount} \subseteq Int
        /\ Source # Target /\ TotalKey \notin {Source, Target}
        /\ Source \in Watchers /\ Target \in Watchers /\ TotalKey \in Watchers
    BY ScenarioIs, JourneyAssumption, NoneAssumption
  <1>1. \A n \in 0..2 : /\ Shown(Source, n) = AtSource(n) /\ Shown(Target, n) = AtTarget(n)
                        /\ Shown(TotalKey, n) = [revision |-> n, total |-> SourceOpening + TargetOpening]
    BY <1>0 DEF Shown
  <1>2. ASSUME SourceOpening - Amount = 6, TargetOpening + Amount = 6, IsOp("baseline")
        PROVE  ExpectedBaseline
    <2>1. at = 24
      BY <1>2, Places DEF PlaceInv, IsOp, Stmt
    <2>2. \A w \in Watchers : got[Slot("committed", w)] = Shown(w, 1)
                             /\ got[Slot("reopened", w)] = Shown(w, 1)
      BY <2>1, ObservedSoFar
    <2>3. AtSource(1) = [balance |-> 6, revision |-> 1] /\ AtTarget(1) = [balance |-> 6, revision |-> 1]
      BY <1>2 DEF AtSource, AtTarget, Sent
    <2>4. SourceOpening + TargetOpening = 12
      BY <1>0, <1>2
    <2> QED BY <1>0, <1>1, <2>2, <2>3, <2>4 DEF ExpectedBaseline
  <1>3. ASSUME IsOp("advance") PROVE ExpectedAfterTransfer
    <2>1. at = 36
      BY <1>3, Places DEF PlaceInv, IsOp, Stmt
    <2>2. \A w \in Watchers : got[Slot("afterCutover", w)] = Shown(w, 1)
                             /\ got[Slot("afterTransfer", w)] = Shown(w, 2)
      BY <2>1, ObservedSoFar
    <2>3. /\ AtSource(2) = [balance |-> AtSource(1).balance - PostAmount,
                            revision |-> AtSource(1).revision + 1]
          /\ AtTarget(2) = [balance |-> AtTarget(1).balance + PostAmount,
                            revision |-> AtTarget(1).revision + 1]
      BY <1>0 DEF AtSource, AtTarget, Sent
    <2> QED BY <1>0, <1>1, <2>2, <2>3 DEF ExpectedAfterTransfer
  <1>4. ASSUME IsOp("sameVersion") PROVE SameVersion
    <2>1. at = 43
      BY <1>4, Places DEF PlaceInv, IsOp, Stmt
    <2> QED BY <2>1 DEF KeptVersions, SameVersion
  <1> QED BY <1>2, <1>3, <1>4
-----------------------------------------------------------------------------
(* The three subscriptions.  Each runs its query when it is registered and *)
(* once more when the first transfer is published, and what it emits waits *)
(* in its queue until its statement takes it.  Publication is an hour of   *)
(* the journey of its own, between its ninth statement and its tenth.      *)
Published == {"readTarget", "readSource", "readTotal"}
Hour      == IF at > 9 \/ (at = 9 /\ pc[Driver] \in Published) THEN at + 1 ELSE at
Turn(w)   == IF w = Source THEN 1 ELSE IF w = Target THEN 2 ELSE 3

Of(s, w, phase) ==
  /\ s.phase = phase /\ s.topic = w /\ s.pending = FALSE
  /\ s = [phase |-> s.phase, topic |-> s.topic, pending |-> s.pending,
          got |-> s.got, seen |-> s.seen]

(* Nothing is left to be told after n queries.                             *)
Rests(s, r, q, w, n) == Of(s, w, "quiet") /\ r = n /\ q = <<>>

(* The next query is due, has been answered, has been emitted, or failed.  *)
Watches(s, r, q, w, n) ==
  \/ Of(s, w, "due") /\ r = n /\ q = <<>>
  \/ Of(s, w, "emit") /\ s.got = Shown(w, n) /\ r = n + 1 /\ q = <<>>
  \/ Of(s, w, "quiet") /\ r = n + 1 /\ q = <<Shown(w, n)>>
  \/ s = NoSub /\ r = n + 1 /\ q = <<>>

WatchedAt(s, r, q, w, h) ==
  /\ h <= 2 + Turn(w) => s = NoSub /\ r = 0 /\ q = <<>>
  /\ h \in (3 + Turn(w))..(5 + Turn(w)) => Watches(s, r, q, w, 0)
  /\ h \in (6 + Turn(w))..9 => Rests(s, r, q, w, 1)
  /\ h \in 10..(10 + Turn(w)) => Watches(s, r, q, w, 1)
  /\ h \in (11 + Turn(w))..19 => Rests(s, r, q, w, 2)
  /\ h > 19 => s = NoSub

Watched(w) == WatchedAt(sub[w], runs[w], queue[w], w, Hour)

WatchInv == Running =>
  /\ sub = [w \in Watchers |-> sub[w]] /\ runs = [w \in Watchers |-> runs[w]]
  /\ queue = [w \in Watchers |-> queue[w]]
  /\ \A w \in Watchers : Watched(w)

(* Turns are three different hours.                                        *)
LEMMA Turns == \A w \in Watchers : /\ Turn(w) \in 1..3
                                  /\ \A x \in Watchers : Turn(x) = Turn(w) => x = w
  BY JourneyAssumption DEF Turn

(* An hour that is nobody's passes.                                        *)
LEMMA HourPasses ==
  ASSUME NEW s, NEW r, NEW q, NEW w \in Watchers, NEW h \in Nat, WatchedAt(s, r, q, w, h),
         h \notin {2 + Turn(w), 5 + Turn(w), 9, 10 + Turn(w), 19}
  PROVE  WatchedAt(s, r, q, w, h + 1)
  <1>1. Turn(w) \in 1..3
    BY Turns
  <1> QED BY <1>1 DEF WatchedAt

(* The subscriptions nobody touches in a step: none at all, or those whose *)
(* hour does not strike.                                                   *)
LEMMA WatchersWait ==
  ASSUME PlaceInv, WatchInv, UNCHANGED <<sub, runs, queue>>,
         \/ ~Running'
         \/ UNCHANGED <<ended, at>> /\ Hour' = Hour
         \/ /\ Running /\ Hour' = Hour + 1 /\ Hour # 9
            /\ \A w \in Watchers : Hour \notin {2 + Turn(w), 5 + Turn(w), 10 + Turn(w), 19}
  PROVE  WatchInv'
  <1>1. at \in 1..44 /\ Hour \in Nat
    BY DEF PlaceInv, Hour
  <1>2. CASE ~Running'
    BY <1>2 DEF WatchInv
  <1>3. CASE UNCHANGED <<ended, at>> /\ Hour' = Hour
    <2>1. \A w \in Watchers : Watched(w) => Watched(w)'
      BY <1>3 DEF Watched
    <2> QED BY <1>3, <2>1 DEF WatchInv, Running
  <1>4. CASE /\ Running /\ Hour' = Hour + 1 /\ Hour # 9
             /\ \A w \in Watchers : Hour \notin {2 + Turn(w), 5 + Turn(w), 10 + Turn(w), 19}
    <2>1. ASSUME NEW w \in Watchers PROVE Watched(w)'
      <3>1. WatchedAt(sub[w], runs[w], queue[w], w, Hour)
        BY <1>4 DEF WatchInv, Watched
      <3>2. Hour \notin {2 + Turn(w), 5 + Turn(w), 9, 10 + Turn(w), 19}
        BY <1>4
      <3>3. WatchedAt(sub[w], runs[w], queue[w], w, Hour + 1)
        BY <1>1, <3>1, <3>2, HourPasses
      <3> QED BY <1>4, <3>3 DEF Watched
    <2> QED BY <1>4, <2>1 DEF WatchInv
  <1> QED BY <1>2, <1>3, <1>4

(* The subscription x alone is touched, in an hour that is nobody else's.  *)
LEMMA OneWatcherMoves ==
  ASSUME PlaceInv, WatchInv, Running, NEW x \in Watchers,
         NEW s, NEW r, NEW q,
         sub' = [sub EXCEPT ![x] = s], runs' = [runs EXCEPT ![x] = r], queue' = [queue EXCEPT ![x] = q],
         \/ Hour' = Hour
         \/ /\ Hour' = Hour + 1 /\ Hour \notin {9, 19}
            /\ \A w \in Watchers \ {x} : Hour \notin {2 + Turn(w), 5 + Turn(w), 10 + Turn(w)},
         WatchedAt(s, r, q, x, Hour')
  PROVE  WatchInv'
  <1>1. at \in 1..44 /\ Hour \in Nat
    BY DEF PlaceInv, Hour
  <1>2. /\ sub = [w \in Watchers |-> sub[w]] /\ runs = [w \in Watchers |-> runs[w]]
        /\ queue = [w \in Watchers |-> queue[w]]
    BY DEF WatchInv
  <1>3. /\ sub' = [w \in Watchers |-> sub'[w]] /\ runs' = [w \in Watchers |-> runs'[w]]
        /\ queue' = [w \in Watchers |-> queue'[w]]
    BY <1>2
  <1>4. sub'[x] = s /\ runs'[x] = r /\ queue'[x] = q
    BY <1>2
  <1>5. \A w \in Watchers \ {x} : sub'[w] = sub[w] /\ runs'[w] = runs[w] /\ queue'[w] = queue[w]
    BY <1>2
  <1>6. Watched(x)'
    BY <1>4 DEF Watched
  <1>7. ASSUME NEW w \in Watchers \ {x} PROVE Watched(w)'
    <2>1. WatchedAt(sub[w], runs[w], queue[w], w, Hour)
      BY DEF WatchInv, Watched
    <2>2. WatchedAt(sub[w], runs[w], queue[w], w, Hour')
      BY <1>1, <2>1, HourPasses
    <2> QED BY <1>5, <2>2 DEF Watched
  <1> QED BY <1>3, <1>6, <1>7 DEF WatchInv

(* A subscription is registered at its turn.                               *)
LEMMA CollectWatches ==
  ASSUME PlaceInv, WatchInv, Collect, UNCHANGED pc
  PROVE  WatchInv'
  <1> DEFINE x == Stmt.topic
             s == [phase |-> "due", topic |-> x, pending |-> FALSE, got |-> NoRow, seen |-> NoRow]
  <1>1. Running /\ Stmt.op = "subscribe" /\ at' = at + 1 /\ ended' = ended
        /\ UNCHANGED <<runs, queue>> /\ sub' = [sub EXCEPT ![x] = s]
    BY DEF Collect, Subscribe, SetSub, IsOp, Proceed
  <1>2. x \in Watchers
    BY <1>1, TopicOf
  <1>3. at \in {3, 4, 5} /\ at = 2 + Turn(x)
    <2>1. at \in {3, 4, 5}
      BY <1>1, Places DEF PlaceInv, Stmt
    <2> QED BY <2>1, TopicTable, JourneyAssumption, NoneAssumption DEF Stmt, Turn
  <1>4. Hour = at /\ Hour' = at + 1
    BY <1>1, <1>3 DEF Hour
  <1>5. WatchedAt(sub[x], runs[x], queue[x], x, Hour)
    BY <1>1, <1>2 DEF WatchInv, Watched
  <1>6. runs[x] = 0 /\ queue[x] = <<>>
    BY <1>3, <1>4, <1>5, Turns, <1>2 DEF WatchedAt
  <1>7. Of(s, x, "due")
    BY DEF Of
  <1> HIDE DEF s, x
  <1>8. WatchedAt(s, runs[x], queue[x], x, Hour')
    BY <1>2, <1>3, <1>4, <1>6, <1>7, Turns DEF WatchedAt, Watches
  <1>9. \A w \in Watchers \ {x} : Hour \notin {2 + Turn(w), 5 + Turn(w), 10 + Turn(w)}
    BY <1>2, <1>3, <1>4, Turns
  <1>10. runs' = [runs EXCEPT ![x] = runs[x]] /\ queue' = [queue EXCEPT ![x] = queue[x]]
    BY <1>1, <1>2 DEF WatchInv
  <1>11. Hour' = Hour + 1 /\ Hour \notin {9, 19}
    BY <1>3, <1>4
  <1>12. Running /\ sub' = [sub EXCEPT ![x] = s]
    BY <1>1
  <1> QED BY <1>2, <1>8, <1>9, <1>10, <1>11, <1>12, OneWatcherMoves

(* A snapshot is taken at its turn, and is that of its stage.              *)
LEMMA TakeWatches ==
  ASSUME PlaceInv, WatchInv, Take, UNCHANGED pc
  PROVE  /\ WatchInv'
         /\ Note(Stmt.name, Stmt.topic, Shown(Stmt.topic, Stage(Stmt.name)))
  <1> DEFINE x == Stmt.topic
  <1>1. /\ Running /\ Stmt.op = "take" /\ at' = at + 1 /\ ended' = ended
        /\ UNCHANGED <<runs, sub>> /\ queue[x] # <<>>
        /\ queue' = [queue EXCEPT ![x] = Tail(queue[x])]
        /\ Note(Stmt.name, x, Head(queue[x]))
    BY DEF Take, IsOp, Proceed, vars
  <1>2. x \in Watchers
    BY <1>1, TopicOf
  <1>3. \/ at \in 6..8 /\ at = 5 + Turn(x) /\ Stage(Stmt.name) = 0
        \/ at \in 10..12 /\ at = 9 + Turn(x) /\ Stage(Stmt.name) = 1
    <2>1. at \in {6, 7, 8, 10, 11, 12}
      BY <1>1, Places DEF PlaceInv, Stmt
    <2>2. CASE at \in {6, 7, 8}
      <3>1. Stage(Stmt.name) = 0
        BY <2>2, NameTable DEF Stmt, Stage
      <3> QED BY <2>2, <3>1, TopicTable, JourneyAssumption, NoneAssumption DEF Stmt, Turn
    <2>3. CASE at \in {10, 11, 12}
      <3>1. Stage(Stmt.name) = 1
        BY <2>3, NameTable DEF Stmt, Stage
      <3> QED BY <2>3, <3>1, TopicTable, JourneyAssumption, NoneAssumption DEF Stmt, Turn
    <2> QED BY <2>1, <2>2, <2>3
  <1>4. Hour = (IF at < 9 THEN at ELSE at + 1) /\ Hour' = Hour + 1
    <2>1. pc[Driver] = "idle"
      BY <1>1 DEF PlaceInv, CallOps
    <2> QED BY <1>1, <1>3, <2>1 DEF Hour, Published
  <1>5. WatchedAt(sub[x], runs[x], queue[x], x, Hour)
    BY <1>1, <1>2 DEF WatchInv, Watched
  <1> PICK n : n = Stage(Stmt.name)
    OBVIOUS
  <1> HIDE DEF x
  <1>6. /\ Watches(sub[x], runs[x], queue[x], x, n)
    BY <1>2, <1>3, <1>4, <1>5, Turns DEF WatchedAt
  <1>7. Of(sub[x], x, "quiet") /\ runs[x] = n + 1 /\ queue[x] = <<Shown(x, n)>>
    BY <1>1, <1>6 DEF Watches
  <1>8. Head(queue[x]) = Shown(x, n) /\ Tail(queue[x]) = <<>>
    BY <1>7
  <1>9. WatchedAt(sub[x], runs[x], Tail(queue[x]), x, Hour')
    BY <1>2, <1>3, <1>4, <1>7, <1>8, Turns DEF WatchedAt, Rests
  <1>10. Hour \notin {9, 19} /\ \A w \in Watchers \ {x} : Hour \notin {2 + Turn(w), 5 + Turn(w), 10 + Turn(w)}
    BY <1>2, <1>3, <1>4, Turns
  <1>11. sub' = [sub EXCEPT ![x] = sub[x]] /\ runs' = [runs EXCEPT ![x] = runs[x]]
    BY <1>1, <1>2 DEF WatchInv
  <1>12. WatchInv'
    BY <1>1, <1>2, <1>4, <1>9, <1>10, <1>11, OneWatcherMoves
  <1> QED BY <1>1, <1>8, <1>12 DEF x

(* A subscription is told what its stage shows.                            *)
LEMMA ListenWatches ==
  ASSUME IInv, PlaceInv, DataInv, WatchInv, Listen, UNCHANGED pc
  PROVE  WatchInv'
  <1>1. UNCHANGED <<at, ended>> /\ Hour' = Hour
    BY DEF Listen, Hour
  <1>2. CASE ~Running
    BY <1>1, <1>2 DEF WatchInv, Running
  <1>3. CASE Running
    <2>1. PICK w \in Watchers :
            \/ /\ SubRead(w) \/ SubFails(w)
               /\ runs' = [runs EXCEPT ![w] = runs[w] + 1]
               /\ queue' = queue
            \/ /\ SubEmit(w)
               /\ queue' = [queue EXCEPT ![w] = Append(queue[w], sub[w].got)]
               /\ runs' = runs
      BY DEF Listen
    <2>2. WatchedAt(sub[w], runs[w], queue[w], w, Hour)
      BY <1>3 DEF WatchInv, Watched
    <2>3. sub[w].phase \in {"due", "emit"}
      BY <2>1 DEF SubRead, SubFails, SubEmit
    <2>4. Hour \in 1..45 /\ Turn(w) \in 1..3 /\ at \in 1..44
      BY Turns DEF PlaceInv, Hour
    <2>5. \/ Hour \in (3 + Turn(w))..(5 + Turn(w)) /\ Watches(sub[w], runs[w], queue[w], w, 0)
          \/ Hour \in 10..(10 + Turn(w)) /\ Watches(sub[w], runs[w], queue[w], w, 1)
      <3>1. sub[w] # NoSub
        BY <2>3 DEF NoSub
      <3>2. \A m : ~Rests(sub[w], runs[w], queue[w], w, m)
        BY <2>3 DEF Rests, Of
      <3>3. /\ ~(Hour <= 2 + Turn(w)) /\ ~(Hour > 19)
            /\ Hour \notin (6 + Turn(w))..9 /\ Hour \notin (11 + Turn(w))..19
        BY <2>2, <3>1, <3>2 DEF WatchedAt
      <3>4. Hour \in (3 + Turn(w))..(5 + Turn(w)) \/ Hour \in 10..(10 + Turn(w))
        BY <2>4, <3>3
      <3> QED BY <2>2, <3>4 DEF WatchedAt
    <2>6. PICK n \in {0, 1} :
            /\ Watches(sub[w], runs[w], queue[w], w, n)
            /\ n = 0 => Hour \in (3 + Turn(w))..(5 + Turn(w))
            /\ n = 1 => Hour \in 10..(10 + Turn(w))
      BY <2>5
    <2>7. Observe(w) = Shown(w, n)
      <3>1. HasMoved(rows, n)
        <4>1. CASE n = 0
          <5>1. at \in 3..8
            BY <2>4, <2>6, <4>1 DEF Hour
          <5> QED BY <4>1, <5>1 DEF DataInv, RowsInv, Before
        <4>2. CASE n = 1
          <5>1. at \in 10..12 \/ (at = 9 /\ pc[Driver] \in Past)
            BY <2>4, <2>6, <4>2 DEF Hour, Published, Past, AfterSteps
          <5>2. Before(rows, at) \/ Before(rows, at + 1)
            BY DEF DataInv, RowsInv
          <5>3. pc[Driver] \in Past => Before(rows, at + 1)
            BY <1>3 DEF DataInv, RowsInv
          <5> QED BY <4>2, <5>1, <5>2, <5>3 DEF Before
        <4> QED BY <4>1, <4>2
      <3>2. \A a \in Accounts \ {Source, Target} : rows[a] = NoRow
        BY DEF DataInv, RowsInv
      <3> QED BY <3>1, <3>2, ShownIs
    <2>8. ASSUME NEW s, NEW r, NEW q, Watches(s, r, q, w, n) PROVE WatchedAt(s, r, q, w, Hour')
      BY <1>1, <2>4, <2>6, <2>8 DEF WatchedAt
    <2>9. \E s, r, q : /\ Watches(s, r, q, w, n)
                       /\ sub' = [sub EXCEPT ![w] = s] /\ runs' = [runs EXCEPT ![w] = r]
                       /\ queue' = [queue EXCEPT ![w] = q]
      <3>0. /\ runs = [runs EXCEPT ![w] = runs[w]] /\ queue = [queue EXCEPT ![w] = queue[w]]
        BY <1>3 DEF WatchInv
      <3>1. CASE sub[w].phase = "due"
        <4>1. Of(sub[w], w, "due") /\ runs[w] = n /\ queue[w] = <<>>
          BY <2>6, <3>1 DEF Watches, Of, NoSub
        <4>2. SubRead(w) \/ SubFails(w)
          BY <2>1, <3>1 DEF SubEmit
        <4>3. /\ runs' = [runs EXCEPT ![w] = n + 1]
              /\ queue' = [queue EXCEPT ![w] = <<>>]
          BY <2>1, <3>0, <3>1, <4>1 DEF SubEmit
        <4>4. \/ sub' = [sub EXCEPT ![w] = NoSub]
              \/ sub' = [sub EXCEPT ![w] = [sub[w] EXCEPT !.phase = "emit", !.got = Shown(w, n)]]
          <5>1. sub[w].topic = w
            BY <4>1 DEF Of
          <5> QED BY <2>7, <4>2, <5>1 DEF SubRead, SubFails, SetSub
        <4>5. Watches(NoSub, n + 1, <<>>, w, n)
          BY DEF Watches
        <4>6. PICK e : e = [sub[w] EXCEPT !.phase = "emit", !.got = Shown(w, n)]
          OBVIOUS
        <4>7. Of(e, w, "emit") /\ e.got = Shown(w, n)
          BY <4>1, <4>6 DEF Of
        <4>8. Watches(e, n + 1, <<>>, w, n)
          BY <4>7 DEF Watches
        <4> QED BY <4>3, <4>4, <4>5, <4>6, <4>8
      <3>2. CASE sub[w].phase = "emit"
        <4>1. Of(sub[w], w, "emit") /\ sub[w].got = Shown(w, n) /\ runs[w] = n + 1 /\ queue[w] = <<>>
          BY <2>6, <3>2 DEF Watches, Of, NoSub
        <4>2. SubEmit(w) /\ runs' = [runs EXCEPT ![w] = n + 1]
              /\ queue' = [queue EXCEPT ![w] = Append(<<>>, Shown(w, n))]
          BY <2>1, <3>0, <3>2, <4>1 DEF SubRead, SubFails
        <4>3. PICK e : e = [sub[w] EXCEPT !.seen = sub[w].got, !.pending = FALSE, !.phase = "quiet"]
          OBVIOUS
        <4>4. sub' = [sub EXCEPT ![w] = e]
          <5>1. sub[w].pending = FALSE
            BY <4>1 DEF Of
          <5> QED BY <4>2, <4>3, <5>1 DEF SubEmit, SetSub
        <4>5. Of(e, w, "quiet")
          BY <4>1, <4>3 DEF Of
        <4>6. Append(<<>>, Shown(w, n)) = <<Shown(w, n)>>
          OBVIOUS
        <4>7. Watches(e, n + 1, <<Shown(w, n)>>, w, n)
          BY <4>5 DEF Watches
        <4> QED BY <4>2, <4>4, <4>6, <4>7
      <3> QED BY <2>3, <3>1, <3>2
    <2> QED BY <1>1, <1>3, <2>8, <2>9, OneWatcherMoves
  <1> QED BY <1>2, <1>3

(* A step of the service tells no subscription anything but when it        *)
(* publishes, and publication is followed by the reads of the answer.      *)
LEMMA ServiceTells ==
  ASSUME IInv, NEW f \in Fibers, Progress(f) \/ HandlerFails(f) \/ SqlFails(f)
  PROVE  \/ Publish(f) /\ pc[f] = "publish" /\ pc'[f] = "readTarget"
         \/ CreatePublish(f) /\ pc[f] = "createPublish" /\ pc'[f] = "createRead"
         \/ UNCHANGED sub /\ (pc'[f] = "idle" \/ (pc[f] \in Published <=> pc'[f] \in Published))
  <1> USE DEF Goto, Answer, Fail, Rollback, Published
  <1>0. pc \in [Fibers -> Steps] /\ f \in Fibers
    BY DEF IInv, TypeOK
  <1>1. CASE Query(f) \/ CreateCheck(f) \/ CreateInsert(f) \/ CreateRead(f)
    BY <1>0, <1>1 DEF Query, CreateCheck, CreateInsert, CreateRead
  <1>2. CASE Begin(f) \/ ReadPair(f) \/ UpdateSource(f) \/ UpdateTarget(f) \/ ReadTarget(f) \/ ReadSource(f)
    BY <1>0, <1>2 DEF Begin, ReadPair, UpdateSource, UpdateTarget, ReadTarget, ReadSource
  <1>3. CASE Refuse(f) \/ Handler(f) \/ UpdateFails(f) \/ Commit(f) \/ ReadTotal(f)
    BY <1>0, <1>3 DEF Refuse, Handler, UpdateFails, Commit, ReadTotal
  <1>4. CASE HandlerFails(f) \/ SqlFails(f)
    BY <1>0, <1>4 DEF HandlerFails, SqlFails
  <1>5. CASE Publish(f) \/ CreatePublish(f)
    BY <1>0, <1>5 DEF Publish, CreatePublish
  <1> QED BY <1>1, <1>2, <1>3, <1>4, <1>5 DEF Progress

(* Where there is no subscription there is nobody to tell.                 *)
LEMMA NobodyToTell ==
  ASSUME sub = [w \in Watchers |-> sub[w]], \A w \in Watchers : sub[w] = NoSub,
         NEW f, NEW keys, Invalidate(f, keys)
  PROVE  sub' = sub
  <1>1. \A w \in Watchers : ~Live(w)
    BY DEF Live, NoSub
  <1> QED BY <1>1 DEF Invalidate

(* The first transfer's publication reaches the three of them at rest.     *)
LEMMA PublishWatches ==
  ASSUME WatchInv, Running, at = 9, pc[Driver] = "publish", pc'[Driver] = "readTarget",
         UNCHANGED <<at, ended, runs, queue>>, Invalidate(Driver, {Source, Target, TotalKey})
  PROVE  WatchInv'
  <1>1. Hour = 9 /\ Hour' = 10
    BY DEF Hour, Published
  <1>2. /\ runs' = [w \in Watchers |-> runs'[w]] /\ queue' = [w \in Watchers |-> queue'[w]]
        /\ sub' = [w \in Watchers |-> sub'[w]]
    BY DEF WatchInv, Invalidate
  <1>3. ASSUME NEW w \in Watchers PROVE Watched(w)'
    <2>1. Turn(w) \in 1..3
      BY Turns
    <2>2. Rests(sub[w], runs[w], queue[w], w, 1)
      BY <1>1, <2>1 DEF WatchInv, Watched, WatchedAt
    <2>3. /\ Live(w) /\ Home[w] = Home[Driver] /\ sub[w].topic \in {Source, Target, TotalKey}
          /\ sub[w].phase = "quiet"
      BY <2>2, JourneyAssumption DEF Rests, Of, Live
    <2>4. sub'[w] = [sub[w] EXCEPT !.phase = "due"]
      BY <2>3 DEF Invalidate
    <2>5. Of(sub'[w], w, "due")
      BY <2>2, <2>4 DEF Rests, Of
    <2>6. Watches(sub'[w], runs'[w], queue'[w], w, 1)
      BY <2>2, <2>5 DEF Rests, Watches
    <2> QED BY <1>1, <2>1, <2>6 DEF Watched, WatchedAt
  <1> QED BY <1>2, <1>3 DEF WatchInv, Running

(* The overdraft is refused before it writes anything: it never comes to   *)
(* the steps that follow a COMMIT.                                         *)
OverInv == at = 13 => pc[Driver] \notin AfterSteps

(* A call of the service and the subscriptions.                            *)
LEMMA ServeWatches ==
  ASSUME IInv, PlaceInv, DataInv, OverInv, WatchInv, Serve
  PROVE  WatchInv'
  <1>0. /\ Driver \in Fibers /\ Running /\ at \in 1..44 /\ UNCHANGED <<runs, queue>>
        /\ Progress(Driver) \/ HandlerFails(Driver) \/ SqlFails(Driver)
    BY JourneyAssumption DEF Serve, PlaceInv
  <1>1. Stmt.op \in CallOps
    BY <1>0, AnswersEnd DEF PlaceInv, IInv
  <1>2. at \in {1, 2, 9, 13, 15, 16, 17, 19, 20, 21, 28, 29, 30, 32, 33, 34, 35, 38, 39, 40}
    BY <1>1, Places DEF PlaceInv, Stmt, CallOps
  <1>3. \A w \in Watchers : Turn(w) \in 1..3
    BY Turns
  <1>4. at \in {1, 2, 32} => \A w \in Watchers : sub[w] = NoSub
    <2> SUFFICES ASSUME at \in {1, 2, 32}, NEW w \in Watchers PROVE sub[w] = NoSub
      OBVIOUS
    <2>1. Hour \in {1, 2, 33}
      BY DEF Hour
    <2>2. WatchedAt(sub[w], runs[w], queue[w], w, Hour)
      BY <1>0 DEF WatchInv, Watched
    <2> QED BY <1>3, <2>1, <2>2 DEF WatchedAt
  <1>5. CASE pc'[Driver] # "idle" /\ UNCHANGED sub /\ (pc[Driver] \in Published <=> pc'[Driver] \in Published)
    <2>1. UNCHANGED <<at, ended>> /\ Hour' = Hour
      BY <1>5 DEF Serve, Answered, Hour
    <2> QED BY <1>0, <1>5, <2>1, WatchersWait
  <1>6. CASE pc'[Driver] = "idle" /\ UNCHANGED sub
    <2>1. CASE Expected(reply'.outcome)
      <3>1. at' = at + 1 /\ ended' = ended
        BY <1>6, <2>1 DEF Serve, Answered, Proceed
      <3>2. at = 9 => pc[Driver] \in Published
        <4> SUFFICES ASSUME at = 9 PROVE pc[Driver] \in Published
          OBVIOUS
        <4>1. Stmt.op = "transfer"
          BY Places DEF Stmt
        <4>2. EndsCall(Driver)
          BY <1>0, <1>6, ServiceStep
        <4>3. pc[Driver] \in {"query", "createRead", "readTotal"}
          BY <2>1, <4>1, <4>2 DEF Expected, IsOp, EndsCall
        <4>4. pc[Driver] \notin {"query", "createRead"}
          BY <4>1 DEF DataInv, SaidInv, CreateSteps
        <4> QED BY <4>3, <4>4 DEF Published
      <3>3. Hour' = Hour + 1
        BY <1>2, <1>6, <3>1, <3>2 DEF Hour, Published
      <3>4. Hour \in {1, 2, 10, 14, 16, 17, 18} \/ Hour > 19
        BY <1>2, <3>2 DEF Hour
      <3>5. \A w \in Watchers : Hour \notin {2 + Turn(w), 5 + Turn(w), 10 + Turn(w), 19}
        BY <1>3, <3>4
      <3> QED BY <1>0, <1>6, <3>3, <3>4, <3>5, WatchersWait
    <2>2. CASE ~Expected(reply'.outcome)
      <3>1. ~Running'
        BY <1>6, <2>2, JourneyAssumption DEF Serve, Answered, End, Running, Endings
      <3> QED BY <3>1 DEF WatchInv
    <2> QED BY <2>1, <2>2
  <1>7. CASE Publish(Driver) /\ pc[Driver] = "publish" /\ pc'[Driver] = "readTarget"
    <2>1. at \in {9, 32} /\ req[Driver].source = Source /\ req[Driver].target = Target
      <3>1. Stmt.op \in {"transfer", "overdraft"} /\ req[Driver].source = Source /\ req[Driver].target = Target
        BY <1>7 DEF DataInv, SaidInv, TransferSteps, AfterSteps
      <3>2. at \in {9, 13, 32}
        BY <3>1, Places DEF PlaceInv, Stmt
      <3> QED BY <1>7, <3>1, <3>2 DEF OverInv, AfterSteps
    <2>2. Invalidate(Driver, {Source, Target, TotalKey})
      BY <1>7, <2>1 DEF Publish, TransferKeys
    <2>3. UNCHANGED <<at, ended>>
      BY <1>7 DEF Serve, Answered
    <2>4. CASE at = 9
      BY <1>0, <1>7, <2>2, <2>3, <2>4, PublishWatches
    <2>5. CASE at = 32
      <3>1. UNCHANGED sub
        BY <1>0, <1>4, <2>2, <2>5, NobodyToTell DEF WatchInv
      <3>2. Hour' = Hour
        BY <2>3, <2>5 DEF Hour
      <3> QED BY <1>0, <2>3, <3>1, <3>2, WatchersWait
    <2> QED BY <2>1, <2>4, <2>5
  <1>8. CASE CreatePublish(Driver) /\ pc[Driver] = "createPublish" /\ pc'[Driver] = "createRead"
    <2>1. at \in {1, 2}
      <3>1. Stmt.op = "create"
        BY <1>8 DEF DataInv, SaidInv, CreateSteps
      <3> QED BY <3>1, Places DEF PlaceInv, Stmt
    <2>2. UNCHANGED <<at, ended>>
      BY <1>8 DEF Serve, Answered
    <2>3. UNCHANGED sub
      BY <1>0, <1>4, <1>8, <2>1, NobodyToTell DEF WatchInv, CreatePublish
    <2>4. Hour' = Hour
      BY <2>1, <2>2 DEF Hour
    <2> QED BY <1>0, <2>2, <2>3, <2>4, WatchersWait
  <1> QED BY <1>0, <1>5, <1>6, <1>7, <1>8, ServiceTells

(* The file is closed when every snapshot has been taken.                  *)
LEMMA CloseWatches ==
  ASSUME PlaceInv, WatchInv, Close
  PROVE  WatchInv'
  <1>1. at \in {18, 37} /\ Running
    BY Places DEF Close, PlaceInv, IsOp, Stmt
  <1>2. Hour' > 19 /\ ~(Hour' \in 10..19) /\ Hour' \in Nat
    BY <1>1 DEF Close, Proceed, Hour
  <1>3. \A w \in Watchers : sub'[w] = NoSub /\ Turn(w) \in 1..3
    BY Turns DEF Close
  <1>4. ASSUME NEW w \in Watchers PROVE Watched(w)'
    <2>1. WatchedAt(sub'[w], runs'[w], queue'[w], w, Hour')
      BY <1>2, <1>3 DEF WatchedAt
    <2> QED BY <2>1 DEF Watched
  <1> QED BY <1>1, <1>3, <1>4 DEF WatchInv, Close

(* The steps that leave the subscriptions alone.                           *)
LEMMA OthersWait ==
  ASSUME PlaceInv, WatchInv, UNCHANGED <<sub, runs, queue>>,
         \/ UNCHANGED <<at, ended>> /\ pc'[Driver] \notin Published /\ pc[Driver] \notin Published
         \/ UNCHANGED <<at, ended, pc>>
         \/ /\ at' = at + 1 /\ Running
            /\ Stmt.op \notin CallOps \cup {"subscribe", "take", "close"}
         \/ ~Running'
  PROVE  WatchInv'
  <1>1. CASE UNCHANGED <<at, ended>> /\ (pc'[Driver] \in Published <=> pc[Driver] \in Published)
    <2>1. Hour' = Hour
      BY <1>1 DEF Hour
    <2> QED BY <1>1, <2>1, WatchersWait
  <1>2. CASE /\ at' = at + 1 /\ Running
             /\ Stmt.op \notin CallOps \cup {"subscribe", "take", "close"}
    <2>1. at \in 14..44 /\ at # 18
      <3>1. at \in 1..44
        BY DEF PlaceInv
      <3> QED BY <1>2, <3>1, Places DEF Stmt, CallOps
    <2>2. Hour = at + 1 /\ Hour' = Hour + 1
      BY <1>2, <2>1 DEF Hour
    <2>3. \A w \in Watchers : Hour \notin {2 + Turn(w), 5 + Turn(w), 10 + Turn(w), 19}
      BY <2>1, <2>2, Turns
    <2> QED BY <1>2, <2>1, <2>2, <2>3, WatchersWait
  <1> QED BY <1>1, <1>2, WatchersWait

(* The three subscriptions have run two queries each when they are counted.*)
LEMMA CountsHold ==
  ASSUME PlaceInv, WatchInv, IsOp("count")
  PROVE  \A w \in Watchers : runs[w] = 2
  <1>1. at = 14 /\ Running
    BY Places DEF PlaceInv, IsOp, Stmt
  <1>2. Hour = 15
    BY <1>1 DEF Hour
  <1> QED BY <1>1, <1>2, Turns DEF WatchInv, Watched, WatchedAt, Rests

(* The journey's own invariant: what it has seen, what it is about to see, *)
(* and that none of its comparisons has failed.                            *)
Mismatches == {"observationFailure", "parityFailure", "runsFailure", "acceptedOverdraft"}

CheckInv == GotInv /\ KeptVersions /\ OverInv /\ WatchInv /\ ended \notin Mismatches

(* Nothing has been observed at the first statement.                       *)
LEMMA InitChecks == EInit => CheckInv
  <1> SUFFICES ASSUME EInit PROVE CheckInv
    OBVIOUS
  <1>1. at = 1 /\ ended = None /\ got = <<>> /\ versions = <<>>
    BY DEF EInit, JInit
  <1>2. Hour = 1
    BY <1>1 DEF Hour
  <1>3. /\ sub = [w \in Watchers |-> NoSub] /\ runs = [w \in Watchers |-> 0]
        /\ queue = [w \in Watchers |-> <<>>]
    BY DEF EInit, JInit, Init
  <1>4. WatchInv
    <2>1. \A w \in Watchers : Watched(w)
      BY <1>2, <1>3, Turns DEF Watched, WatchedAt
    <2> QED BY <1>3, <2>1 DEF WatchInv
  <1>5. GotInv
    BY <1>1 DEF GotInv
  <1>6. KeptVersions /\ OverInv
    BY <1>1 DEF KeptVersions, OverInv
  <1>7. ended \notin Mismatches
    BY <1>1, JourneyAssumption DEF Mismatches, Endings
  <1> QED BY <1>4, <1>5, <1>6, <1>7 DEF CheckInv

(* A call of the service: what it is answered with, and that the overdraft *)
(* is not accepted.                                                        *)
LEMMA ServeChecks ==
  ASSUME IInv, PlaceInv, DataInv, CheckInv, Serve, UNCHANGED <<versionVars, versions>>
  PROVE  CheckInv'
  <1> USE DEF TxSteps, AfterSteps, CreateSteps, TransferSteps
  <1>0. /\ Driver \in Fibers /\ Running /\ at \in 1..44
        /\ Progress(Driver) \/ HandlerFails(Driver) \/ SqlFails(Driver)
    BY JourneyAssumption DEF Serve, PlaceInv
  <1>1. Stmt.op \in CallOps /\ pc[Driver] # "idle"
    BY <1>0, AnswersEnd DEF PlaceInv, IInv
  <1>2. WatchInv'
    BY ServeWatches DEF CheckInv
  <1>3. KeptVersions'
    <2>1. at \notin {27, 41} /\ (at' = at \/ at' = at + 1)
      BY <1>1, Places DEF PlaceInv, Stmt, CallOps, Serve, Proceed, End
    <2> QED BY <1>0, <2>1 DEF CheckInv, KeptVersions
  <1>4. CASE EndsCall(Driver)
    <2>1. pc'[Driver] = "idle" /\ Answered
      BY <1>4 DEF EndsCall, Answered
    <2>2. OverInv'
      BY <2>1 DEF OverInv
    <2>3. ended' \notin Mismatches
      <3>1. ~Expected(reply'.outcome) => reply'.outcome # "ok"
        <4> SUFFICES ASSUME reply'.outcome = "ok", IsOp("overdraft") PROVE FALSE
          BY DEF Expected
        <4>1. at = 13
          BY Places DEF PlaceInv, IsOp, Stmt
        <4>2. pc[Driver] = "readTotal"
          BY <1>4 DEF EndsCall, DataInv, SaidInv, IsOp
        <4> QED BY <4>1, <4>2 DEF CheckInv, OverInv
      <3> QED BY <1>0, <2>1, <3>1, JourneyAssumption DEF Serve, Proceed, End, CheckInv, Mismatches
    <2>4. GotInv'
      <3>1. CASE IsOp("query") /\ reply'.outcome = "ok"
        <4>1. pc[Driver] = "query"
          BY <1>4, <3>1 DEF EndsCall, DataInv, SaidInv, IsOp
        <4>2. req[Driver].topic = Stmt.topic /\ Observe(Stmt.topic) = Shown(Stmt.topic, Stage(Stmt.name))
          BY <1>0, <4>1, QueryShows
        <4>3. reply'.seen.value = Shown(Stmt.topic, Stage(Stmt.name))
          BY <1>4, <3>1, <4>1, <4>2 DEF EndsCall
        <4>4. /\ Note(Stmt.name, Stmt.topic, Shown(Stmt.topic, Stage(Stmt.name)))
              /\ at' = at + 1
          BY <2>1, <3>1, <4>3 DEF Serve, Expected, IsOp, Proceed
        <4> QED BY <1>0, <4>4, GotMoves DEF CheckInv
      <3>2. CASE ~(IsOp("query") /\ reply'.outcome = "ok")
        <4>1. got' = got
          BY <3>2 DEF Serve
        <4>2. at' = at \/ (at' = at + 1 /\ Stmt.op \notin Observes)
          <5>1. CASE IsOp("query")
            <6>1. ~Expected(reply'.outcome)
              BY <3>2, <5>1 DEF Expected, IsOp
            <6> QED BY <2>1, <6>1 DEF Serve, End
          <5>2. CASE ~IsOp("query")
            BY <1>0, <1>1, <5>2 DEF IsOp, Observes, CallOps, Serve, Proceed, End
          <5> QED BY <5>1, <5>2
        <4> QED BY <1>0, <4>1, <4>2, GotMoves DEF CheckInv
      <3> QED BY <3>1, <3>2
    <2> QED BY <1>2, <1>3, <2>2, <2>3, <2>4 DEF CheckInv
  <1>5. ASSUME pc'[Driver] # "idle",
               \/ Opens(Driver)
               \/ Commit(Driver) /\ pc[Driver] = "commit" /\ pc'[Driver] = "publish"
               \/ GoesOn(Driver)
        PROVE  CheckInv'
    <2>1. UNCHANGED <<at, ended, got>>
      BY <1>5 DEF Serve, Answered
    <2>2. GotInv' /\ ended' \notin Mismatches
      BY <1>0, <2>1, GotMoves DEF CheckInv
    <2>3. OverInv'
      <3>1. CASE Opens(Driver)
        BY <3>1 DEF Opens, OverInv
      <3>2. CASE Commit(Driver) /\ pc[Driver] = "commit" /\ pc'[Driver] = "publish"
        <4>1. at # 13
          BY <1>0, <2>1, <3>2, MovesItsRows DEF DataInv
        <4> QED BY <2>1, <4>1 DEF OverInv
      <3>3. CASE GoesOn(Driver)
        BY <2>1, <3>3 DEF GoesOn, OverInv, CheckInv
      <3> QED BY <1>5, <3>1, <3>2, <3>3
    <2> QED BY <1>2, <1>3, <2>2, <2>3 DEF CheckInv
  <1> QED BY <1>0, <1>4, <1>5, ServiceStep

(* A version operation tells the journey the row that is stored.           *)
LEMMA VersionChecks ==
  ASSUME VIInv, PlaceInv, DataInv, CheckInv, VersionStep, DoneInv'
  PROVE  CheckInv'
  <1>1. /\ UNCHANGED <<vars, queue, runs, got>> /\ Running /\ at \in 1..44
        /\ Stmt.op \in VersionOps
    BY VersionStepIs DEF VersionStep, PlaceInv
  <1>2. \/ UNCHANGED <<at, ended, versions>>
        \/ at' = at + 1 /\ UNCHANGED ended /\ versions' = With(versions, Stmt.name, answer'.row)
        \/ at' = at /\ ended' = "versionFailure" /\ UNCHANGED versions
    BY DEF VersionStep, TakeVersion, Proceed, End
  <1>3. ended' \notin Mismatches
    BY <1>2 DEF CheckInv, Mismatches
  <1>4. GotInv'
    BY <1>1, <1>2, GotMoves DEF CheckInv, VersionOps, Observes
  <1>5. OverInv'
    <2>1. pc'[Driver] = "idle"
      BY <1>1 DEF PlaceInv, VersionOps, CallOps, vars
    <2> QED BY <2>1 DEF OverInv, AfterSteps
  <1>6. WatchInv'
    <2>1. UNCHANGED <<sub, pc>>
      BY <1>1 DEF vars
    <2>2. ended' = "versionFailure" => ~Running'
      BY JourneyAssumption DEF Running, Endings
    <2>3. Stmt.op \notin CallOps \cup {"subscribe", "take", "close"}
      BY <1>1 DEF VersionOps, CallOps
    <2> QED BY <1>1, <1>2, <2>1, <2>2, <2>3, OthersWait DEF CheckInv
  <1>7. KeptVersions'
    <2>1. CASE at' = at /\ UNCHANGED versions
      BY <2>1 DEF CheckInv, KeptVersions
    <2>2. CASE at' = at + 1 /\ versions' = With(versions, Stmt.name, answer'.row)
      <3>1. at \in {25, 26, 27, 41}
        BY <1>1, Places DEF VersionOps, Stmt
      <3>2. /\ at = 27 => answer'.row = VersionTwo
            /\ at = 41 => answer'.row = stored[Service]
        BY <2>2, VersionSaysIt DEF DataInv
      <3>3. at = 41 => stored[Service] = VersionTwo
        <4> SUFFICES ASSUME at = 41 PROVE stored[Service] = VersionTwo
          OBVIOUS
        <4>1. PICK c \in done : c.to = VersionTwo
          BY DEF DataInv, CutInv
        <4> QED BY <4>1 DEF VIInv, DoneInv, VersionTwo
      <3>4. /\ DOMAIN versions' = DOMAIN versions \cup {Stmt.name}
            /\ versions'[Stmt.name] = answer'.row
            /\ \A name \in DOMAIN versions \ {Stmt.name} : versions'[name] = versions[name]
        BY <2>2 DEF With
      <3>5. /\ at = 25 => Stmt.name = "initialized"
            /\ at = 26 => Stmt.name = "before"
            /\ at = 27 => Stmt.name = "after"
            /\ at = 41 => Stmt.name = "reopened"
        BY NameTable DEF Stmt
      <3>6. "after" \in DOMAIN versions' => versions'["after"] = VersionTwo
        <4>1. CASE at = 27
          BY <3>2, <3>4, <3>5, <4>1
        <4>2. CASE at # 27
          <5>1. Stmt.name # "after"
            BY <3>1, <3>5, <4>2
          <5> QED BY <3>4, <5>1 DEF CheckInv, KeptVersions
        <4> QED BY <4>1, <4>2
      <3>7. "reopened" \in DOMAIN versions' => versions'["reopened"] = VersionTwo
        <4>1. CASE at = 41
          BY <3>2, <3>3, <3>4, <3>5, <4>1
        <4>2. CASE at # 41
          <5>1. Stmt.name # "reopened"
            BY <3>1, <3>5, <4>2
          <5> QED BY <3>4, <5>1 DEF CheckInv, KeptVersions
        <4> QED BY <4>1, <4>2
      <3>8. /\ at' > 27 => "after" \in DOMAIN versions'
            /\ at' > 41 => "reopened" \in DOMAIN versions'
        BY <2>2, <3>1, <3>4, <3>5 DEF CheckInv, KeptVersions
      <3> QED BY <3>6, <3>7, <3>8 DEF KeptVersions
    <2> QED BY <1>2, <2>1, <2>2
  <1> QED BY <1>3, <1>4, <1>5, <1>6, <1>7 DEF CheckInv

(* The steps that leave the service, the subscriptions and the versions    *)
(* alone, and fail no comparison.                                          *)
LEMMA QuietChecks ==
  ASSUME PlaceInv, CheckInv, UNCHANGED <<pc, sub, runs, queue, got, versions>>,
         \/ UNCHANGED <<at, ended>>
         \/ /\ at' = at + 1 /\ UNCHANGED ended /\ Running
            /\ Stmt.op \notin CallOps \cup VersionOps \cup Observes \cup {"subscribe", "close"}
         \/ at' = at /\ ended' \in {"done", "runtimeFailure"}
  PROVE  CheckInv'
  <1>1. at \in 1..44
    BY DEF PlaceInv
  <1>2. at' = at + 1 => Stmt.op \notin Observes
    BY <1>1
  <1>3. GotInv'
    BY <1>1, <1>2, GotMoves DEF CheckInv
  <1>4. at' = at + 1 => at \notin {27, 41}
    BY <1>1, Places DEF Stmt, VersionOps
  <1>5. KeptVersions'
    BY <1>1, <1>4 DEF CheckInv, KeptVersions
  <1>6. OverInv'
    <2>1. at' = at + 1 => pc[Driver] = "idle"
      BY <1>1 DEF PlaceInv
    <2> QED BY <1>1, <2>1 DEF CheckInv, OverInv, AfterSteps
  <1>7. ended' \notin Mismatches
    BY DEF CheckInv, Mismatches
  <1>8. WatchInv'
    <2>1. ended' \in {"done", "runtimeFailure"} => ~Running'
      BY JourneyAssumption DEF Running, Endings
    <2> QED BY <2>1, OthersWait DEF CheckInv, Observes
  <1> QED BY <1>3, <1>5, <1>6, <1>7, <1>8 DEF CheckInv

(* The steps that observe nothing and fail nothing, but touch the          *)
(* subscriptions.                                                          *)
LEMMA StreamChecks ==
  ASSUME IInv, PlaceInv, DataInv, CheckInv, Collect \/ Take \/ Listen \/ Close, UNCHANGED versions
  PROVE  CheckInv'
  <1>0. at \in 1..44
    BY DEF PlaceInv
  <1>1. pc' = pc /\ ended' = ended
    BY DEF Collect, Subscribe, Listen, SubRead, SubFails, SubEmit, SetSub, Take, Close, Proceed, vars
  <1>2. \/ at' = at
        \/ at' = at + 1 /\ Stmt.op \in {"subscribe", "take", "close"}
    BY DEF Collect, Take, Listen, Close, Proceed, IsOp
  <1>3. WatchInv'
    BY <1>1, CollectWatches, TakeWatches, ListenWatches, CloseWatches DEF CheckInv
  <1>4. GotInv'
    <2>1. CASE Take
      <3>1. at' = at + 1
        BY <2>1 DEF Take, Proceed
      <3> QED BY <1>0, <1>1, <2>1, <3>1, TakeWatches, GotMoves DEF CheckInv
    <2>2. CASE Collect \/ Listen \/ Close
      <3>1. got' = got /\ (at' = at \/ (at' = at + 1 /\ Stmt.op \notin Observes))
        BY <2>2 DEF Collect, Listen, Close, Proceed, IsOp, Observes
      <3> QED BY <1>0, <3>1, GotMoves DEF CheckInv
    <2> QED BY <2>1, <2>2
  <1>5. KeptVersions'
    <2>1. at' = at \/ (at' = at + 1 /\ at \notin {27, 41})
      BY <1>0, <1>2, Places DEF Stmt
    <2> QED BY <1>0, <2>1 DEF CheckInv, KeptVersions
  <1>6. OverInv'
    <2>1. at' = at + 1 => pc[Driver] = "idle"
      BY <1>0, <1>2 DEF PlaceInv, CallOps
    <2> QED BY <1>0, <1>1, <1>2, <2>1 DEF CheckInv, OverInv, AfterSteps
  <1> QED BY <1>1, <1>3, <1>4, <1>5, <1>6 DEF CheckInv

(* Every step of the journey and of its rivals keeps what the journey has  *)
(* seen in agreement with the rows, and fails no comparison.               *)
LEMMA NextChecks ==
  ASSUME SourceOpening - Amount = 6, TargetOpening + Amount = 6
  PROVE  EInv /\ EInv' /\ DataInv /\ CheckInv /\ [ENext]_eVars => CheckInv'
  <1> SUFFICES ASSUME EInv, EInv', DataInv, CheckInv, [ENext]_eVars PROVE CheckInv'
    OBVIOUS
  <1> USE DEF EInv
  <1>1. CASE UNCHANGED eVars
    BY <1>1, QuietChecks DEF eVars, allVars, journeyVars, vars
  <1>2. CASE Call /\ UNCHANGED <<versionVars, versions>>
    <2>1. /\ UNCHANGED <<at, ended, queue, runs, got, versions, sub>>
          /\ pc[Driver] = "idle" /\ pc'[Driver] \in {"query", "createCheck", "begin"}
      <3>1. Driver \in Fibers /\ pc \in [Fibers -> Steps]
        BY JourneyAssumption DEF IInv, TypeOK
      <3> QED BY <1>2, <3>1 DEF Call, StartCreate, StartTransfer, StartQuery, Start, Goto, journeyVars
    <2>2. at \in 1..44
      BY DEF PlaceInv
    <2>3. GotInv' /\ KeptVersions' /\ OverInv' /\ ended' \notin Mismatches
      BY <2>1, <2>2, GotMoves DEF CheckInv, KeptVersions, OverInv, AfterSteps
    <2>4. WatchInv'
      BY <2>1, OthersWait DEF CheckInv, Published
    <2> QED BY <2>3, <2>4 DEF CheckInv
  <1>3. CASE Serve /\ UNCHANGED <<versionVars, versions>>
    BY <1>3, ServeChecks
  <1>4. CASE (Collect \/ Take \/ Listen \/ Close) /\ UNCHANGED <<versionVars, versions>>
    BY <1>4, StreamChecks
  <1>5. CASE (Deadline \/ Done \/ Stop) /\ UNCHANGED <<versionVars, versions>>
    BY <1>5, QuietChecks DEF Deadline, Done, Stop, End, vars, allVars, journeyVars
  <1>6. CASE Count /\ UNCHANGED <<versionVars, versions>>
    <2>1. at' = at + 1 /\ UNCHANGED ended /\ Running /\ Stmt.op = "count"
      BY <1>6, CountsHold DEF Count, IsOp, Proceed, CheckInv
    <2> QED BY <1>6, <2>1, QuietChecks DEF Count, vars, CallOps, VersionOps, Observes
  <1>7. CASE CompareSlots /\ UNCHANGED <<versionVars, versions>>
    <2>1. at' = at + 1 /\ UNCHANGED ended /\ Running /\ Stmt.op = "compare"
      BY <1>7, ComparisonsHold DEF CompareSlots, IsOp, Proceed, CheckInv
    <2> QED BY <1>7, <2>1, QuietChecks DEF CompareSlots, vars, CallOps, VersionOps, Observes
  <1>8. CASE VersionStep
    BY <1>8, VersionChecks DEF VIInv
  <1>9. CASE RivalStep
    BY <1>9, QuietChecks DEF RivalStep, allVars, vars, journeyVars
  <1>10. CASE Judge
    <2>1. /\ at' = at + 1 /\ UNCHANGED ended /\ Running
          /\ Stmt.op \in {"baseline", "advance", "sameVersion"}
      BY <1>10, JudgementsHold DEF Judge, IsOp, Proceed, CheckInv
    <2> QED BY <1>10, <2>1, QuietChecks DEF Judge, vars, CallOps, VersionOps, Observes
  <1> QED BY <1>1, <1>2, <1>3, <1>4, <1>5, <1>6, <1>7, <1>8, <1>9, <1>10 DEF ENext, JourneyStep, JNext

(* Whatever fails in the service and whatever the rivals do to the version *)
(* row, no comparison of the journey's own ever fails: with the amounts    *)
(* that assertExpectedBaseline is written for, the overdraft is refused,   *)
(* each subscription has run two queries when they are counted, and what   *)
(* is read after the file is opened again is what was committed.           *)
THEOREM JourneyChecksItself ==
  ASSUME SourceOpening - Amount = 6, TargetOpening + Amount = 6
  PROVE  ESpec => []EvolutionChecksHold
  <1>1. EInv /\ EInv' /\ DataInv /\ CheckInv /\ [ENext]_eVars => CheckInv'
    BY NextChecks
  <1>2. ASSUME EInv, CheckInv PROVE EvolutionChecksHold
    <2>1. {SourceOpening, TargetOpening, Amount} \subseteq Int
      BY ScenarioIs
    <2>2. SnapshotsAgree
      <3> SUFFICES ASSUME NEW name \in {"initial", "committed"},
                          \A w \in Watchers : Slot(name, w) \in DOMAIN got,
                          NEW n, n = Stage(name)
                   PROVE  LET o(w) == got[Slot(name, w)] IN
                          /\ o(Source).balance + o(Target).balance = o(TotalKey).total
                          /\ o(TotalKey).total = SourceOpening + TargetOpening
                          /\ \A w \in Watchers : o(w).revision = n
        BY DEF SnapshotsAgree, Stage
      <3>1. n \in 0..1 /\ name \in Names
        BY DEF Stage, Names
      <3>2. \A w \in Watchers : got[Slot(name, w)] = Shown(w, n)
        BY <1>2, <3>1 DEF CheckInv, GotInv
      <3>3. /\ Watchers = {Source, Target, TotalKey} /\ Source # Target
            /\ TotalKey \notin {Source, Target}
        BY JourneyAssumption, NoneAssumption
      <3>4. /\ Shown(Source, n) = AtSource(n) /\ Shown(Target, n) = AtTarget(n)
            /\ Shown(TotalKey, n) = [revision |-> n, total |-> SourceOpening + TargetOpening]
        BY <3>3 DEF Shown
      <3>5. Sent(n) \in Int
        BY <2>1, <3>1 DEF Sent
      <3> QED BY <2>1, <3>2, <3>3, <3>4, <3>5 DEF AtSource, AtTarget
    <2> QED BY <1>2, <2>2 DEF EvolutionChecksHold, CheckInv, Mismatches
  <1> QED BY <1>1, <1>2, InitChecks, DataInvariance, PTL DEF ESpec
=============================================================================
