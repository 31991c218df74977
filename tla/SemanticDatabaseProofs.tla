----------------------- MODULE SemanticDatabaseProofs -----------------------
(***************************************************************************)
(* Proofs about SemanticDatabase for any number of accounts, processes,    *)
(* fibers and subscribers.                                                 *)
(***************************************************************************)
EXTENDS SemanticDatabaseJourney, TLAPS

(* The inductive invariant.  Type correctness alone is not inductive for   *)
(* the grant: COMMIT adds one to a revision it did not read, so it needs   *)
(* that the committed row still has its use (TxInv), and the read after    *)
(* the transaction needs that nobody else has been answered (RequestInv).  *)
IInv == TypeOK /\ GrantUsedOnce /\ AckedIsFinal /\ TxInv /\ RequestInv

USE CallersAssumption, NoneAssumption

(* The initial state satisfies the invariant. *)
LEMMA InitIInv == Init => IInv
  BY DEF Init, IInv, TypeOK, GrantUsedOnce, AckedIsFinal, TxInv, RequestInv,
         Row, Steps, TxSteps, Reading, Committed, NoSub

(* Accepting a query changes the request alone. *)
LEMMA StartQueryKeeps ==
    ASSUME IInv, NEW f \in Fibers, NEW a \in Accounts, StartQuery(f, a)
  PROVE  IInv'
  <1> USE DEF IInv, txVars, reqVars, ConnFree, StartQuery, Advance
  <1>1. TypeOK'
    BY DEF TypeOK, RequestInv, Request, Reply, Steps, TxSteps, Outcome
  <1>2. GrantUsedOnce'
    BY DEF GrantUsedOnce
  <1>3. AckedIsFinal'
    BY DEF AckedIsFinal
  <1>4. TxInv'
    BY DEF TypeOK, TxInv, TxSteps, Reading
  <1>5. RequestInv'
    BY DEF TypeOK, RequestInv, TxSteps, Committed
  <1> QED BY <1>1, <1>2, <1>3, <1>4, <1>5

(* A query answers from the committed row. *)
LEMMA QueryKeeps ==
    ASSUME IInv, NEW f \in Fibers, Query(f)
  PROVE  IInv'
  <1> USE DEF IInv, txVars, reqVars, ConnFree, Query, Fail, Return, Answer
  <1>1. TypeOK'
    <2>1. cmd[f] \in Request /\ rows[cmd[f].account] \in Row \cup {NoRow}
      BY DEF TypeOK, RequestInv, Request
    <2> QED
      BY <2>1 DEF TypeOK, Steps, Outcome, Reply, Request
  <1>2. GrantUsedOnce'
    BY DEF GrantUsedOnce
  <1>3. AckedIsFinal'
    BY DEF AckedIsFinal
  <1>4. TxInv'
    BY DEF TypeOK, TxInv, TxSteps, Reading
  <1>5. RequestInv'
    BY DEF TypeOK, RequestInv, TxSteps, Committed
  <1> QED BY <1>1, <1>2, <1>3, <1>4, <1>5

(* Accepting a create changes the request alone. *)
LEMMA StartCreateKeeps ==
    ASSUME IInv, NEW f \in Fibers, NEW a \in Accounts, NEW b \in
         OpeningBalances, StartCreate(f, a, b)
  PROVE  IInv'
  <1> USE DEF IInv, txVars, reqVars, ConnFree, StartCreate, Advance
  <1>0. b \in Int BY CallersAssumption
  <1>1. TypeOK'
    BY <1>0 DEF TypeOK, RequestInv, Request, Reply, Steps, TxSteps, Outcome
  <1>2. GrantUsedOnce'
    BY DEF GrantUsedOnce
  <1>3. AckedIsFinal'
    BY DEF AckedIsFinal
  <1>4. TxInv'
    BY DEF TypeOK, TxInv, TxSteps, Reading
  <1>5. RequestInv'
    BY DEF TypeOK, RequestInv, TxSteps, Committed
  <1> QED BY <1>1, <1>2, <1>3, <1>4, <1>5

(* The existence check of create decides the next step. *)
LEMMA CreateCheckKeeps ==
    ASSUME IInv, NEW f \in Fibers, CreateCheck(f)
  PROVE  IInv'
  <1> USE DEF IInv, txVars, reqVars, ConnFree, CreateCheck, Fail, Answer,
     Goto, Advance
  <1>1. TypeOK'
    BY DEF TypeOK, RequestInv, Request, Reply, Steps, TxSteps, Outcome
  <1>2. GrantUsedOnce'
    BY DEF GrantUsedOnce
  <1>3. AckedIsFinal'
    BY DEF AckedIsFinal
  <1>4. TxInv'
    BY DEF TypeOK, TxInv, TxSteps, Reading
  <1>5. RequestInv'
    BY DEF TypeOK, RequestInv, TxSteps, Committed
  <1> QED BY <1>1, <1>2, <1>3, <1>4, <1>5

(* The INSERT opens an absent account only, while no writer holds the lock,
   so every other request's account keeps its row. *)
LEMMA CreateInsertKeeps ==
    ASSUME IInv, NEW f \in Fibers, CreateInsert(f)
  PROVE  IInv'
  <1> USE DEF IInv, txVars, reqVars, ConnFree, CreateInsert, Insert, Fail,
     Answer, Goto, Advance
  <1>1. TypeOK'
    BY DEF TypeOK, TxInv, RequestInv, Row, Steps, TxSteps, Reading, Committed,
       Request, Reply, Outcome, Subscription, NoSub
  <1>2. GrantUsedOnce'
    BY DEF GrantUsedOnce, TypeOK, Row
  <1>3. AckedIsFinal'
    BY DEF AckedIsFinal, TypeOK
  <1>4. TxInv'
    BY DEF TypeOK, TxInv, TxSteps, Reading
  <1>5. RequestInv'
    <2>1. cmd[f] \in Request
      BY DEF TypeOK, RequestInv
    <2>2. CASE Fail(f, "unavailable") /\ rows' = rows
      BY <2>1, <2>2 DEF TypeOK, RequestInv, TxSteps, Committed, Fail, Answer
    <2>3. CASE /\ cmd[f].value >= 0 /\ rows[cmd[f].account] = NoRow
               /\ Insert(cmd[f].account, cmd[f].value) /\ Goto(f, "createRead")
      <3>1. rows[cmd[f].account] = NoRow /\ rows'[cmd[f].account] # NoRow
        BY <2>1, <2>3 DEF TypeOK, Row, Request
      <3>2. \A a \in Accounts : a # cmd[f].account => rows'[a] = rows[a]
        BY <2>1, <2>3 DEF TypeOK
      <3> QED
        <4>1. \A g \in Fibers : pc[g] # "idle" => cmd[g].account \in Accounts
          BY DEF TypeOK, RequestInv, Request
        <4>2. \A g \in Fibers : pc[g] \in Committed
                  => cmd[g].account # cmd[f].account
          BY <2>3 DEF RequestInv
        <4>3. pc' = [pc EXCEPT ![f] = "createRead"] /\ UNCHANGED <<cmd, acked>>
          BY <2>3 DEF Goto, Advance
        <4>4. \A g \in Fibers : pc[g] # "idle" /\ rows[cmd[g].account] # NoRow
                                 => rows'[cmd[g].account] = rows[cmd[g].account]
          BY <3>1, <3>2, <4>1
        <4>5. \A g \in Fibers : pc'[g] # "idle" => cmd'[g] # None
          BY <4>3 DEF TypeOK, RequestInv
        <4>6. \A g \in Fibers : pc'[g] \in TxSteps \cup {"begin", "createRead"} \cup Committed
                                 => rows'[cmd'[g].account] # NoRow
          BY <3>1, <4>3, <4>4 DEF TypeOK, RequestInv, TxSteps, Committed
        <4>7. \A g \in Fibers : pc'[g] \in Committed => pc[g] \in Committed
          BY <4>3 DEF TypeOK, Committed
        <4>8. \A g \in Fibers : pc'[g] \in Committed
                  => rows'[cmd'[g].account].remainingUses = 0
          BY <4>3, <4>4, <4>7 DEF RequestInv, Committed
        <4>9. \A g \in Fibers : pc'[g] \in Committed =>
                /\ \A y \in acked' : y.account # cmd'[g].account
                /\ \A h \in Fibers : pc'[h] \in Committed /\ h # g
                                       => cmd'[h].account # cmd'[g].account
          <5> HIDE DEF IInv, CreateInsert, Fail, Answer, Goto, Advance
          <5>1. RequestInv
            BY DEF IInv
          <5> QED
            BY <4>3, <4>7, <5>1 DEF RequestInv
        <4> HIDE DEF IInv, CreateInsert, Fail, Answer, Goto, Advance, Insert
        <4> QED
          BY <4>5, <4>6, <4>8, <4>9 DEF RequestInv, TxSteps, Committed
    <2> QED BY <2>1, <2>2, <2>3 DEF Request
  <1> QED BY <1>1, <1>2, <1>3, <1>4, <1>5

(* The read that ends a create. *)
LEMMA CreateReadKeeps ==
    ASSUME IInv, NEW f \in Fibers, CreateRead(f)
  PROVE  IInv'
  <1> USE DEF IInv, txVars, reqVars, ConnFree, CreateRead, Return, Answer
  <1>1. TypeOK'
    BY DEF TypeOK, RequestInv, Request, Reply, Steps, TxSteps, Outcome
  <1>2. GrantUsedOnce'
    BY DEF GrantUsedOnce
  <1>3. AckedIsFinal'
    BY DEF AckedIsFinal
  <1>4. TxInv'
    BY DEF TypeOK, TxInv, TxSteps, Reading
  <1>5. RequestInv'
    BY DEF TypeOK, RequestInv, TxSteps, Committed
  <1> QED BY <1>1, <1>2, <1>3, <1>4, <1>5

(* Accepting a dispatch changes the request alone. *)
LEMMA StartDispatchKeeps ==
    ASSUME IInv, NEW f \in Fibers, NEW a \in Accounts, NEW n \in Amounts,
         StartDispatch(f, a, n)
  PROVE  IInv'
  <1> USE DEF IInv, txVars, reqVars, ConnFree, StartDispatch, Advance
  <1>0. n \in Int BY CallersAssumption
  <1>1. TypeOK'
    BY <1>0 DEF TypeOK, RequestInv, Request, Reply, Steps, TxSteps, Outcome
  <1>2. GrantUsedOnce'
    BY DEF GrantUsedOnce
  <1>3. AckedIsFinal'
    BY DEF AckedIsFinal
  <1>4. TxInv'
    BY DEF TypeOK, TxInv, TxSteps, Reading
  <1>5. RequestInv'
    BY DEF TypeOK, RequestInv, TxSteps, Committed
  <1> QED BY <1>1, <1>2, <1>3, <1>4, <1>5

(* The existence check of dispatch. *)
LEMMA CheckKeeps ==
    ASSUME IInv, NEW f \in Fibers, Check(f)
  PROVE  IInv'
  <1> USE DEF IInv, txVars, reqVars, ConnFree, Check, Fail, Answer, Goto,
     Advance
  <1>1. TypeOK'
    BY DEF TypeOK, RequestInv, Request, Reply, Steps, TxSteps, Outcome
  <1>2. GrantUsedOnce'
    BY DEF GrantUsedOnce
  <1>3. AckedIsFinal'
    BY DEF AckedIsFinal
  <1>4. TxInv'
    BY DEF TypeOK, TxInv, TxSteps, Reading
  <1>5. RequestInv'
    BY DEF TypeOK, RequestInv, TxSteps, Committed
  <1> QED BY <1>1, <1>2, <1>3, <1>4, <1>5

(* BEGIN takes a free connection. *)
LEMMA BeginKeeps ==
    ASSUME IInv, NEW f \in Fibers, Begin(f)
  PROVE  IInv'
  <1> USE DEF IInv, txVars, reqVars, ConnFree, Begin, Goto, Advance
  <1>1. TypeOK'
    BY DEF TypeOK, Steps, TxSteps
  <1>2. GrantUsedOnce'
    BY DEF GrantUsedOnce
  <1>3. AckedIsFinal'
    BY DEF AckedIsFinal
  <1>4. TxInv'
    BY DEF TypeOK, TxInv, TxSteps, Reading
  <1>5. RequestInv'
    BY DEF TypeOK, RequestInv, TxSteps, Committed
  <1> QED BY <1>1, <1>2, <1>3, <1>4, <1>5

(* The transaction's read: the row admitted still has its use. *)
LEMMA ReadRowKeeps ==
    ASSUME IInv, NEW f \in Fibers, ReadRow(f)
  PROVE  IInv'
  <1> USE DEF IInv, txVars, reqVars, ConnFree, ReadRow, Admits, Advance
  <1>1. TypeOK'
    BY DEF TypeOK, RequestInv, Request, Reply, Steps, TxSteps, Outcome
  <1>2. GrantUsedOnce'
    BY DEF GrantUsedOnce
  <1>3. AckedIsFinal'
    BY DEF AckedIsFinal
  <1>4. TxInv'
    BY DEF TypeOK, TxInv, TxSteps, Reading, RequestInv
  <1>5. RequestInv'
    BY DEF TypeOK, RequestInv, TxSteps, Committed
  <1> QED BY <1>1, <1>2, <1>3, <1>4, <1>5

(* A rollback releases what the transaction held. *)
LEMMA RollbackKeeps ==
    ASSUME IInv, NEW f \in Fibers, NEW o \in Outcome, pc[f] \in TxSteps,
         Rollback(f, o)
  PROVE  IInv'
  <1> USE DEF IInv, txVars, reqVars, ConnFree, Rollback, Fail, Answer
  <1>1. TypeOK'
    BY DEF TypeOK, RequestInv, Request, Reply, Steps, TxSteps, Outcome
  <1>2. GrantUsedOnce'
    BY DEF GrantUsedOnce
  <1>3. AckedIsFinal'
    BY DEF AckedIsFinal
  <1>4. TxInv'
    BY DEF TypeOK, TxInv, TxSteps, Reading
  <1>5. RequestInv'
    BY DEF TypeOK, RequestInv, TxSteps, Committed
  <1> QED BY <1>1, <1>2, <1>3, <1>4, <1>5

(* A failure outside a transaction ends the request alone. *)
LEMMA FailKeeps ==
    ASSUME IInv, NEW f \in Fibers, pc[f] \notin TxSteps, pc[f] # "idle",
         Fail(f, "unavailable"), UNCHANGED <<rows, txVars, acked, sub>>
  PROVE  IInv'
  <1> USE DEF IInv, txVars, reqVars, ConnFree, Fail, Answer
  <1>1. TypeOK'
    BY DEF TypeOK, RequestInv, Request, Reply, Steps, TxSteps, Outcome
  <1>2. GrantUsedOnce'
    BY DEF GrantUsedOnce
  <1>3. AckedIsFinal'
    BY DEF AckedIsFinal
  <1>4. TxInv'
    BY DEF TypeOK, TxInv, TxSteps, Reading
  <1>5. RequestInv'
    BY DEF TypeOK, RequestInv, TxSteps, Committed
  <1> QED BY <1>1, <1>2, <1>3, <1>4, <1>5

(* The handler's result is nonnegative, or the transaction rolls back. *)
LEMMA HandlerKeeps ==
    ASSUME IInv, NEW f \in Fibers, Handler(f)
  PROVE  IInv'
  <1>1. PICK b \in HandlerBalances :
          IF b < 0 THEN Rollback(f, "unavailable")
          ELSE /\ next' = [next EXCEPT ![f] = b]
               /\ Advance(f, "update")
               /\ UNCHANGED <<rows, txVars, cmd, row, acked, sub>>
    BY DEF Handler
  <1>2. pc[f] = "handler" /\ b \in Int
    BY CallersAssumption DEF Handler
  <1>3. CASE b < 0
    BY <1>1, <1>2, <1>3, RollbackKeeps DEF TxSteps, Outcome
  <1>4. CASE ~(b < 0)
    <2> USE <1>1, <1>2, <1>4 DEF IInv, txVars, Advance
    <2>1. TypeOK'
      BY DEF TypeOK, Steps, TxSteps
    <2>2. GrantUsedOnce' /\ AckedIsFinal'
      BY DEF GrantUsedOnce, AckedIsFinal
    <2>3. TxInv'
      BY DEF TypeOK, TxInv, TxSteps, Reading
    <2>4. RequestInv'
      BY DEF TypeOK, RequestInv, TxSteps, Committed
    <2> QED BY <2>1, <2>2, <2>3, <2>4
  <1> QED BY <1>3, <1>4

(* The conditional update takes the write lock with a fresh snapshot. *)
LEMMA UpdateKeeps ==
    ASSUME IInv, NEW f \in Fibers, Update(f)
  PROVE  IInv'
  <1> USE DEF IInv, txVars, reqVars, ConnFree, Update, Goto, Advance
  <1>1. TypeOK'
    BY DEF TypeOK, Steps, TxSteps
  <1>2. GrantUsedOnce'
    BY DEF GrantUsedOnce
  <1>3. AckedIsFinal'
    BY DEF AckedIsFinal
  <1>4. TxInv'
    BY DEF TypeOK, TxInv, TxSteps, Reading
  <1>5. RequestInv'
    BY DEF TypeOK, RequestInv, TxSteps, Committed
  <1> QED BY <1>1, <1>2, <1>3, <1>4, <1>5

(* COMMIT uses the grant up: nobody was answered for this account before,
   and no other request has committed it. *)
LEMMA CommitKeeps ==
    ASSUME IInv, NEW f \in Fibers, Commit(f)
  PROVE  IInv'
  <1> USE DEF IInv, txVars, reqVars, ConnFree, Commit, Updated, Goto, Advance
  <1>1. TypeOK'
    BY DEF TypeOK, RequestInv, Request, Row, Steps, TxSteps, Outcome, NoSub
  <1>2. GrantUsedOnce'
    BY DEF GrantUsedOnce, TypeOK, TxInv, RequestInv, Row, TxSteps, Reading
  <1>3. AckedIsFinal'
    BY DEF AckedIsFinal, GrantUsedOnce, TypeOK, TxInv, RequestInv, TxSteps,
         Reading
  <1>4. TxInv'
    BY DEF TypeOK, TxInv, TxSteps, Reading
  <1>5. RequestInv'
    <2>1. cmd[f] \in Request /\ rows[cmd[f].account] \in Row
      BY DEF TypeOK, RequestInv, Request, TxSteps
    <2>2. rows[cmd[f].account].remainingUses = 1
      BY DEF TxInv, Reading
    <2>3. /\ rows'[cmd[f].account].remainingUses = 0
          /\ rows'[cmd[f].account] # NoRow
          /\ \A a \in Accounts : a # cmd[f].account => rows'[a] = rows[a]
      BY <2>1 DEF TypeOK, Row, Request
    <2>4. \A y \in acked : y.account # cmd[f].account
      BY <2>2, <2>1 DEF AckedIsFinal, GrantUsedOnce, TypeOK, Row, Request
    <2>5. \A g \in Fibers : pc[g] \in Committed
              => cmd[g].account # cmd[f].account
      BY <2>2 DEF RequestInv
    <2> QED
      BY <2>1, <2>3, <2>4, <2>5 DEF TypeOK, RequestInv, TxSteps, Committed,
         Request
  <1> QED BY <1>1, <1>2, <1>3, <1>4, <1>5

(* The invalidation touches subscriptions only. *)
LEMMA PublishKeeps ==
    ASSUME IInv, NEW f \in Fibers, Publish(f)
  PROVE  IInv'
  <1> USE DEF IInv, txVars, reqVars, ConnFree, Publish, Invalidate, Invalidated,
     Live, Goto, Advance
  <1>1. TypeOK'
    <2>1. ASSUME NEW s \in Subscribers, Live(s)
          PROVE  Invalidated(s) \in Subscription
      <3>1. sub[s] \in Subscription
        BY <2>1 DEF TypeOK, NoSub
      <3> QED
        BY <3>1 DEF Subscription
    <2>2. sub' \in [Subscribers -> Subscription \cup {NoSub}]
      BY <2>1 DEF TypeOK
    <2> QED
      BY <2>2 DEF TypeOK, Steps
  <1>2. GrantUsedOnce'
    BY DEF GrantUsedOnce
  <1>3. AckedIsFinal'
    BY DEF AckedIsFinal
  <1>4. TxInv'
    BY DEF TypeOK, TxInv, TxSteps, Reading
  <1>5. RequestInv'
    BY DEF TypeOK, RequestInv, TxSteps, Committed
  <1> QED BY <1>1, <1>2, <1>3, <1>4, <1>5

(* The summary returned is the row the request itself committed. *)
LEMMA ReadBackKeeps ==
    ASSUME IInv, NEW f \in Fibers, ReadBack(f)
  PROVE  IInv'
  <1> USE DEF IInv, txVars, reqVars, ConnFree, ReadBack, Return, Answer
  <1>1. TypeOK'
    BY DEF TypeOK, TxInv, RequestInv, Row, Steps, TxSteps, Reading, Committed,
       Request, Reply, Outcome, Subscription, NoSub
  <1>2. GrantUsedOnce'
    BY DEF GrantUsedOnce
  <1>3. AckedIsFinal'
    <2>1. cmd[f] \in Request /\ rows[cmd[f].account] \in Row
      BY DEF TypeOK, RequestInv, Request, Committed
    <2>2. rows[cmd[f].account].revision = 1
      BY <2>1 DEF RequestInv, GrantUsedOnce, Row, Request, Committed
    <2>3. \A y \in acked : y.account # cmd[f].account
      BY DEF RequestInv, Committed
    <2> QED
      BY <2>2, <2>3 DEF AckedIsFinal
  <1>4. TxInv'
    BY DEF TypeOK, TxInv, TxSteps, Reading
  <1>5. RequestInv'
    BY DEF TypeOK, RequestInv, TxSteps, Committed
  <1> QED BY <1>1, <1>2, <1>3, <1>4, <1>5

(* A crash drops what the process held in memory. *)
LEMMA CrashKeeps ==
    ASSUME IInv, NEW p \in Procs, Crash(p)
  PROVE  IInv'
  <1> USE DEF IInv, txVars, reqVars, ConnFree, Crash
  <1>1. TypeOK'
    BY DEF TypeOK, Steps, TxSteps
  <1>2. GrantUsedOnce'
    BY DEF GrantUsedOnce
  <1>3. AckedIsFinal'
    BY DEF AckedIsFinal
  <1>4. TxInv'
    BY DEF TypeOK, TxInv, TxSteps, Reading
  <1>5. RequestInv'
    BY DEF TypeOK, RequestInv, TxSteps, Committed
  <1> QED BY <1>1, <1>2, <1>3, <1>4, <1>5

(* The steps of a subscription touch nothing but the subscription. *)
SubStep(s) ==
 \/ \E a \in Accounts : Subscribe(s, a)
 \/ SubRead(s) \/ SubFails(s) \/ SubEmit(s)

(* Running its query keeps a subscription well formed. *)
LEMMA RanIsSubscription ==
  ASSUME NEW x \in Subscription, NEW r \in Row \cup {NoRow}
  PROVE  Ran(x, r) \in Subscription
  <1> DEFINE n == x.runs + 1
  <1>1. n \in Nat
    BY DEF Subscription
  <1> HIDE DEF n
  <1>2. [x EXCEPT !.phase = "emit", !.got = r, !.runs = n] \in Subscription
    BY <1>1 DEF Subscription
  <1> QED
    BY <1>2 DEF Ran, n

(* A subscription's own steps leave the database and the requests alone. *)
LEMMA SubStepKeeps == ASSUME IInv, NEW s \in Subscribers, SubStep(s) PROVE IInv'
  <1>1. PICK new \in Subscription \cup {NoSub} : sub' = [sub EXCEPT ![s] = new]
    <2> USE DEF IInv, TypeOK, SubStep
    <2>1. CASE \E a \in Accounts : Subscribe(s, a)
      BY <2>1 DEF Subscribe, Subscription
    <2>2. CASE SubFails(s)
      BY <2>2 DEF SubFails
    <2>3. sub[s].phase # "off" => sub[s] \in Subscription
      BY DEF NoSub
    <2>4. CASE SubRead(s)
      <3>1. sub[s] \in Subscription
        BY <2>3, <2>4 DEF SubRead
      <3>2. rows[sub[s].account] \in Row \cup {NoRow}
        BY <3>1 DEF Subscription
      <3>3. Ran(sub[s], rows[sub[s].account]) \in Subscription
        BY <3>1, <3>2, RanIsSubscription
      <3> QED
        BY <2>4, <3>3 DEF SubRead
    <2>5. CASE SubEmit(s)
      <3>1. sub[s] \in Subscription
        BY <2>3, <2>5 DEF SubEmit
      <3> QED
        BY <2>5, <3>1 DEF SubEmit, Subscription
    <2> QED BY <2>1, <2>2, <2>4, <2>5
  <1>2. reply' = None /\ UNCHANGED <<rows, txVars, pc, reqVars, acked>>
    BY DEF SubStep, Subscribe, SubRead, SubFails, SubEmit
  <1> USE DEF IInv, txVars, reqVars
  <1>3. TypeOK'
    BY <1>1, <1>2 DEF TypeOK
  <1>4. GrantUsedOnce' /\ AckedIsFinal' /\ TxInv' /\ RequestInv'
    BY <1>2 DEF GrantUsedOnce, AckedIsFinal, TxInv, RequestInv
  <1> QED BY <1>3, <1>4

(* Every step of the specification preserves the invariant. *)
LEMMA NextIInv == IInv /\ [Next]_vars => IInv'
  <1> SUFFICES ASSUME IInv, [Next]_vars PROVE IInv'
    OBVIOUS
  <1>1. ASSUME NEW f \in Fibers, Calls(f) PROVE IInv'
    BY <1>1, StartQueryKeeps, StartCreateKeeps, StartDispatchKeeps DEF Calls
  <1>2. ASSUME NEW f \in Fibers, Progress(f) PROVE IInv'
    <2>1. CASE Refuse(f)
      <3>1. PICK o \in Outcome : Rollback(f, o)
        BY <2>1 DEF Refuse, Outcome
      <3> QED BY <2>1, <3>1, RollbackKeeps DEF Refuse, TxSteps
    <2>2. CASE UpdateFails(f)
      BY <2>2, RollbackKeeps DEF UpdateFails, TxSteps, Outcome
    <2> QED
      BY <1>2, <2>1, <2>2, QueryKeeps, CreateCheckKeeps, CreateInsertKeeps,
         CreateReadKeeps, CheckKeeps, BeginKeeps, ReadRowKeeps, HandlerKeeps,
         UpdateKeeps, CommitKeeps, PublishKeeps, ReadBackKeeps DEF Progress, Statement
  <1>3. ASSUME NEW f \in Fibers, SqlFails(f) PROVE IInv'
    <2>1. CASE pc[f] \in TxSteps
      BY <1>3, <2>1, RollbackKeeps DEF SqlFails, Outcome
    <2>2. CASE pc[f] \notin TxSteps
      BY <1>3, <2>2, FailKeeps DEF SqlFails
    <2> QED BY <2>1, <2>2
  <1>4. ASSUME NEW s \in Subscribers, SubStep(s) PROVE IInv'
    BY <1>4, SubStepKeeps
  <1>5. ASSUME NEW p \in Procs, Crash(p) PROVE IInv'
    BY <1>5, CrashKeeps
  <1>6. CASE UNCHANGED vars
    BY <1>6 DEF vars, txVars, reqVars, IInv, TypeOK, GrantUsedOnce,
       AckedIsFinal,
                TxInv, RequestInv
  <1> QED
    BY <1>1, <1>2, <1>3, <1>4, <1>5, <1>6 DEF Next, SubStep

(* The invariant holds in every reachable state, for any number of         *)
(* accounts, processes, fibers and subscribers.                            *)
LEMMA Invariance == Spec => []IInv
  BY InitIInv, NextIInv, PTL DEF Spec

(* Every variable keeps its type. *)
THEOREM TypeCorrect == Spec => []TypeOK
  BY Invariance, PTL DEF IInv

(* The conditional update of the dispatch transaction lets a grant be used *)
(* at most once, in every interleaving of fibers, processes and crashes.   *)
THEOREM GrantIsUsedOnce == Spec => []GrantUsedOnce
  BY Invariance, PTL DEF IInv

(* A summary returned by dispatch is the account's final committed state,  *)
(* and no account has two acknowledged withdrawals.                        *)
THEOREM AckedWithdrawalsAreFinal == Spec => []AckedIsFinal
  BY Invariance, PTL DEF IInv

(* No update is lost between a transaction's read and its COMMIT. *)
THEOREM NoLostUpdate == Spec => []CommitSeesItsRead
  <1>1. IInv => CommitSeesItsRead
    BY DEF IInv, TxInv, CommitSeesItsRead, TxSteps, Reading
  <1> QED BY <1>1, Invariance, PTL

(* The summary of a row, in the form the abstraction states it. *)
LEMMA AvailableSummary ==
  ASSUME NEW r, r # NoRow, r.remainingUses = 1
  PROVE  SummaryOf(r) =
           [balance |-> r.balance, revision |-> r.revision,
            withdrawalAvailable |-> TRUE]
  <1>1. (r.remainingUses = 1) = TRUE
    OBVIOUS
  <1> QED
    BY <1>1, Zenon DEF SummaryOf

(* The summary of a row without uses.                                      *)
LEMMA SpentSummary ==
  ASSUME NEW r, r # NoRow, r.remainingUses = 0
  PROVE  SummaryOf(r) =
           [balance |-> r.balance, revision |-> r.revision,
            withdrawalAvailable |-> FALSE]
  <1>1. (r.remainingUses = 1) = FALSE
    OBVIOUS
  <1> QED
    BY <1>1, Zenon DEF SummaryOf

(* The initial states of the service are initial states of the abstraction *)
LEMMA InitRefines == Init => Abstract!Init
  BY DEF Init, Abstract!Init, SummaryOf

(* and each of its steps opens an account, withdraws from one, or stutters. *)
LEMMA StepRefines == IInv /\ IInv' /\ [Next]_vars =>
                       [Abstract!Next]_([a \in Accounts |-> SummaryOf(rows[a])])
  <1> SUFFICES ASSUME IInv, IInv', [Next]_vars
               PROVE  Abstract!Next \/ UNCHANGED [a \in Accounts |-> SummaryOf(rows[a])]
    OBVIOUS
  <1>1. ASSUME NEW f \in Fibers, CreateInsert(f), rows' # rows
        PROVE  Abstract!Next
    <2> DEFINE a == cmd[f].account
               b == cmd[f].value
    <2>1. a \in Accounts /\ b \in Int
      BY <1>1 DEF CreateInsert, IInv, TypeOK, RequestInv, Request
    <2>2. b \in Nat /\ rows[a] = NoRow /\ Insert(a, b)
      BY <1>1, <2>1 DEF CreateInsert
    <2>3. rows'[a] = [balance |-> b, revision |-> 0, remainingUses |-> 1] /\ rows'[a] # NoRow
      BY <2>1, <2>2 DEF Insert, IInv, TypeOK, Row
    <2>4. SummaryOf(rows[a]) = NoRow /\ SummaryOf(rows'[a]) \in Abstract!Fresh
      <3>1. SummaryOf(rows'[a]) =
              [balance |-> b, revision |-> 0, withdrawalAvailable |-> TRUE]
        <4>1. /\ rows'[a] # NoRow /\ (rows'[a].remainingUses = 1) = TRUE
              /\ rows'[a].balance = b /\ rows'[a].revision = 0
          BY <2>3
        <4> QED BY <4>1, Zenon DEF SummaryOf
      <3>2. SummaryOf(rows[a]) = NoRow
        BY <2>2 DEF SummaryOf
      <3> QED BY <2>2, <3>1, <3>2 DEF Abstract!Fresh
    <2>5. \A x \in Accounts : x # a => SummaryOf(rows'[x]) = SummaryOf(rows[x])
      BY <2>1, <2>2 DEF Insert, IInv, TypeOK
    <2>6. Abstract!Open(a)
      BY <2>1, <2>4, <2>5 DEF Abstract!Open, Abstract!Only
    <2> QED BY <2>1, <2>6 DEF Abstract!Next
  <1>2. ASSUME NEW f \in Fibers, Commit(f) PROVE Abstract!Next
    <2> DEFINE a == cmd[f].account
               r == rows[a]
    <2>1. a \in Accounts /\ r \in Row /\ next[f] \in Nat
      BY <1>2 DEF Commit, IInv, TypeOK, RequestInv, TxSteps, Request
    <2>2. r.remainingUses = 1 /\ r.revision = 0
      BY <1>2, <2>1 DEF Commit, IInv, TxInv, GrantUsedOnce, Reading, Row
    <2>3. /\ rows'[a] = [balance |-> next[f], revision |-> 1, remainingUses |-> 0]
          /\ rows'[a] # NoRow
      BY <1>2, <2>1, <2>2 DEF Commit, Updated, IInv, TypeOK, Row
    <2>4. SummaryOf(r) \in Abstract!Fresh /\ SummaryOf(rows'[a]) \in Abstract!Spent
      <3>1. r.balance \in Nat /\ r # NoRow
        BY <2>1 DEF Row
      <3>3. SummaryOf(r) =
              [balance |-> r.balance, revision |-> 0,
               withdrawalAvailable |-> TRUE]
        BY <2>2, <3>1, AvailableSummary
      <3>4. SummaryOf(rows'[a]) =
              [balance |-> next[f], revision |-> 1,
               withdrawalAvailable |-> FALSE]
        <4>1. /\ rows'[a] # NoRow /\ (rows'[a].remainingUses = 1) = FALSE
              /\ rows'[a].balance = next[f] /\ rows'[a].revision = 1
          BY <2>3
        <4> QED BY <4>1, Zenon DEF SummaryOf
      <3> QED BY <2>1, <3>1, <3>3, <3>4 DEF Abstract!Fresh, Abstract!Spent
    <2>5. \A x \in Accounts : x # a => SummaryOf(rows'[x]) = SummaryOf(rows[x])
      BY <1>2, <2>1 DEF Commit, IInv, TypeOK
    <2>6. Abstract!Withdraw(a)
      BY <2>1, <2>4, <2>5 DEF Abstract!Withdraw, Abstract!Only
    <2> QED BY <2>1, <2>6 DEF Abstract!Next
  <1>3. (\E f \in Fibers : (CreateInsert(f) /\ rows' # rows) \/ Commit(f)) \/ rows' = rows
    <2> USE DEF txVars, Rollback
    <2>1. ASSUME NEW f \in Fibers, Calls(f) PROVE rows' = rows
      BY <2>1 DEF Calls, StartQuery, StartCreate, StartDispatch
    <2>2. ASSUME NEW f \in Fibers, SqlFails(f) PROVE rows' = rows
      BY <2>2 DEF SqlFails
    <2>3. ASSUME NEW f \in Fibers, Progress(f), ~CreateInsert(f), ~Commit(f)
          PROVE  rows' = rows
      BY <2>3 DEF Progress, Statement, Query, CreateCheck, CreateRead, Check, Begin,
         ReadRow,
                  Refuse, Handler, Update, UpdateFails, Publish, ReadBack
    <2>4. ASSUME NEW s \in Subscribers, SubStep(s) PROVE rows' = rows
      BY <2>4 DEF SubStep, Subscribe, SubRead, SubFails, SubEmit
    <2>5. ASSUME NEW p \in Procs, Crash(p) PROVE rows' = rows
      BY <2>5 DEF Crash
    <2> QED
      BY <2>1, <2>2, <2>3, <2>4, <2>5 DEF Next, SubStep, vars
  <1> QED BY <1>1, <1>2, <1>3

(* The service implements the exact-one account. *)
THEOREM ImplementsExactOne == Spec => ExactOne
  <1>1. Spec => []IInv
    BY Invariance
  <1> QED
    BY <1>1, InitRefines, StepRefines, PTL DEF Spec, ExactOne, Abstract!Spec

-----------------------------------------------------------------------------
(* The subscriptions.  A commit is announced until its fiber publishes it. *)
Unpublished(a) == \E f \in Fibers : pc[f] = "publish" /\ cmd[f].account = a

Spent(a) == rows[a] # NoRow /\ rows[a].remainingUses = 0

(* The runs of a subscription's query, made and to come: a commit adds one *)
(* more when it is published, and no account has two of them.              *)
Work(s) == s.runs + (IF s.phase = "due" THEN 1 ELSE 0) + (IF s.pending THEN 1 ELSE 0)

RunsAreCaused == \A s \in Subscribers : Live(s) =>
  \/ Work(sub[s]) <= 1
  \/ Work(sub[s]) <= 2 /\ Spent(sub[s].account) /\ ~Unpublished(sub[s].account)

(* A subscription is behind only if it knows, or has yet to be told. *)
Follows(s) ==
  /\ s.phase # "due" => rows[s.account] # NoRow
  /\ s.phase = "quiet" => s.seen = rows[s.account] \/ Unpublished(s.account)
  /\ s.phase = "emit" =>
       s.got = rows[s.account] \/ s.pending = TRUE \/ Unpublished(s.account)

SubsFollow == \A s \in Subscribers : Live(s) => Follows(sub[s])

OneProcess == \A p, q \in Procs : p = q

(* What the steps that neither commit, publish nor belong to a             *)
(* subscription leave alone.                                               *)
Calm ==
  /\ \A a \in Accounts : rows[a] # NoRow => rows'[a] = rows[a]
  /\ \A a \in Accounts : Unpublished(a)' => Unpublished(a)
  /\ \A s \in Subscribers : sub'[s] = sub[s] \/ sub'[s] = NoSub
  /\ OneProcess => \/ \A s \in Subscribers : sub'[s] = NoSub
                   \/ \A a \in Accounts : Unpublished(a) => Unpublished(a)'

(* A subscription that lives has a topic and a value.                      *)
LEMMA LiveSubs ==
  ASSUME TypeOK, NEW s \in Subscribers, Live(s)
  PROVE  sub[s] \in Subscription
  BY DEF TypeOK, Live, NoSub

(* A step commits, publishes, serves a subscription, or is calm: it changes*)
(* no row and tells nobody anything.                                       *)
LEMMA StepsAreCalm ==
  ASSUME IInv, [Next]_vars
  PROVE  \/ Calm
         \/ \E f \in Fibers : Commit(f) \/ Publish(f)
         \/ \E s \in Subscribers : SubStep(s)
  <1> USE DEF txVars, reqVars, Goto, Advance, Rollback, Fail, Return, Answer
  <1>1. ASSUME NEW f \in Fibers, pc[f] # "publish",
               \E dest \in Steps \ {"publish"} : pc' = [pc EXCEPT ![f] = dest],
               \A g \in Fibers \ {f} : cmd'[g] = cmd[g], sub' = sub,
               \A a \in Accounts : rows[a] # NoRow => rows'[a] = rows[a]
        PROVE  Calm
    <2>1. \A g \in Fibers : /\ pc'[g] = "publish" => pc[g] = "publish" /\ cmd'[g] = cmd[g]
                            /\ pc[g] = "publish" => pc'[g] = "publish" /\ cmd'[g] = cmd[g]
      BY <1>1 DEF IInv, TypeOK
    <2> HIDE DEF Goto, Advance, Rollback, Fail, Return, Answer
    <2> QED BY <1>1, <2>1 DEF Calm, Unpublished
  <1>2. ASSUME NEW f \in Fibers, Calls(f) PROVE Calm
    BY <1>1, <1>2 DEF Calls, StartQuery, StartCreate, StartDispatch, IInv, TypeOK, Steps
  <1>3. ASSUME NEW f \in Fibers, SqlFails(f) PROVE Calm
    BY <1>1, <1>3 DEF SqlFails, IInv, TypeOK, Steps
  <1>4. ASSUME NEW f \in Fibers, Progress(f), ~Commit(f), ~Publish(f) PROVE Calm
    <2>1. CASE CreateInsert(f)
      BY <1>1, <2>1 DEF CreateInsert, Insert, IInv, TypeOK, Steps
    <2>2. CASE Handler(f)
      BY <1>1, <2>2 DEF Handler, IInv, TypeOK, Steps, TxSteps
    <2>3. CASE Query(f) \/ CreateCheck(f) \/ CreateRead(f) \/ Check(f) \/ Begin(f)
      BY <1>1, <2>3 DEF Query, CreateCheck, CreateRead, Check, Begin, IInv, TypeOK, Steps, TxSteps
    <2>4. CASE ReadRow(f) \/ Refuse(f) \/ Update(f) \/ UpdateFails(f) \/ ReadBack(f)
      BY <1>1, <2>4 DEF ReadRow, Refuse, Update, UpdateFails, ReadBack, IInv, TypeOK, Steps, TxSteps
    <2> QED BY <1>4, <2>1, <2>2, <2>3, <2>4 DEF Progress, Statement
  <1>5. ASSUME NEW p \in Procs, Crash(p) PROVE Calm
    <2>1. rows' = rows
      BY <1>5 DEF Crash
    <2>2. \A g \in Fibers : pc'[g] = "publish" => pc[g] = "publish" /\ cmd'[g] = cmd[g]
      BY <1>5 DEF Crash, IInv, TypeOK
    <2>3. \A s \in Subscribers : sub'[s] = IF Home[s] = p THEN NoSub ELSE sub[s]
      BY <1>5 DEF Crash
    <2>4. OneProcess => \A s \in Subscribers : Home[s] = p
      BY DEF OneProcess
    <2> HIDE DEF Goto, Advance, Rollback, Fail, Return, Answer
    <2> QED BY <2>1, <2>2, <2>3, <2>4 DEF Calm, Unpublished
  <1>6. CASE UNCHANGED vars
    <2> HIDE DEF Goto, Advance, Rollback, Fail, Return, Answer
    <2> QED BY <1>6 DEF vars, Calm, Unpublished
  <1> QED
    BY <1>2, <1>3, <1>4, <1>5, <1>6 DEF Next, SubStep

(* Publishing adds one run to the subscriptions it reaches. *)
LEMMA InvalidatedWork ==
  ASSUME NEW x \in Subscription, NEW y,
         y = IF x.phase = "quiet" THEN [x EXCEPT !.phase = "due"]
                                  ELSE [x EXCEPT !.pending = TRUE]
  PROVE  /\ y.account = x.account /\ Work(y) <= Work(x) + 1
         /\ y.phase # "quiet" /\ (y.phase = "emit" => y.pending = TRUE)
         /\ y.phase # "due" => x.phase # "due"
  BY DEF Subscription, Work

(* Publishing tells every subscription of the account, in its own process. *)
LEMMA PublishTells ==
  ASSUME IInv, RunsAreCaused, NEW f \in Fibers, Publish(f)
  PROVE  /\ RunsAreCaused'
         /\ OneProcess /\ SubsFollow => SubsFollow'
  <1>0. /\ pc[f] = "publish" /\ rows' = rows /\ cmd' = cmd
        /\ pc' = [pc EXCEPT ![f] = "readBack"] /\ Invalidate(f)
    BY DEF Publish, Goto, Advance, reqVars
  <1>1. PICK a : a = cmd[f].account
    OBVIOUS
  <1>2. \A b : Unpublished(b)' <=> Unpublished(b) /\ b # a
    BY <1>0, <1>1 DEF Unpublished, IInv, TypeOK, RequestInv, Committed
  <1>3. Spent(a) /\ Unpublished(a) /\ a \in Accounts
    BY <1>0, <1>1 DEF IInv, TypeOK, RequestInv, Committed, Spent, Unpublished, Request
  <1>4. ASSUME NEW s \in Subscribers, Live(s)'
        PROVE  /\ sub[s] \in Subscription
               /\ \/ sub'[s] = sub[s] /\ (sub[s].account = a => Home[s] # Home[f])
                  \/ sub[s].account = a /\ sub'[s] = Invalidated(s)
    <2>1. sub'[s] = IF Live(s) /\ Home[s] = Home[f] /\ sub[s].account = a
                    THEN Invalidated(s) ELSE sub[s]
      BY <1>0, <1>1 DEF Invalidate
    <2>2. Live(s)
      BY <1>4, <2>1 DEF Live
    <2> QED BY <2>1, <2>2, LiveSubs DEF IInv
  <1>5. RunsAreCaused'
    <2> SUFFICES ASSUME NEW s \in Subscribers, Live(s)'
                 PROVE  \/ Work(sub'[s]) <= 1
                        \/ /\ Work(sub'[s]) <= 2 /\ Spent(sub[s].account)'
                           /\ ~Unpublished(sub[s].account)'
      BY DEF RunsAreCaused
    <2>1. PICK x, y : x = sub[s] /\ y = sub'[s]
      OBVIOUS
    <2>2. /\ x \in Subscription
          /\ Work(x) <= 1 \/ (Work(x) <= 2 /\ Spent(x.account) /\ ~Unpublished(x.account))
      BY <1>4, <2>1 DEF RunsAreCaused, Live, Subscription
    <2>3. \A b : Spent(b)' <=> Spent(b)
      BY <1>0 DEF Spent
    <2>4. CASE y = x
      BY <1>2, <2>1, <2>2, <2>3, <2>4
    <2>5. CASE x.account = a /\ y = Invalidated(s)
      <3>1. y.account = a /\ Work(y) <= Work(x) + 1 /\ Work(x) \in Int /\ Work(y) \in Int
        <4>1. y.account = a /\ Work(y) <= Work(x) + 1
          BY <2>1, <2>2, <2>5, InvalidatedWork DEF Invalidated
        <4>2. Work(x) \in Int
          BY <2>2 DEF Work, Subscription
        <4>3. Work(y) \in Int
          BY <2>1, <2>2, <2>5 DEF Work, Subscription, Invalidated
        <4> QED BY <4>1, <4>2, <4>3
      <3>2. Work(x) <= 1
        BY <1>3, <2>2, <2>5
      <3> QED BY <1>2, <1>3, <2>1, <2>3, <3>1, <3>2
    <2> QED BY <1>4, <2>1, <2>4, <2>5
  <1>6. ASSUME OneProcess, SubsFollow PROVE SubsFollow'
    <2> SUFFICES ASSUME NEW s \in Subscribers, Live(s)' PROVE Follows(sub[s])'
      BY DEF SubsFollow
    <2>1. PICK x, y : x = sub[s] /\ y = sub'[s]
      OBVIOUS
    <2>2. x \in Subscription /\ Follows(x)
      BY <1>4, <1>6, <2>1 DEF SubsFollow, Live, Subscription
    <2>3. Home[s] = Home[f]
      BY <1>6 DEF OneProcess
    <2>4. CASE y = x /\ x.account # a
      BY <1>0, <1>2, <2>1, <2>2, <2>4 DEF Follows
    <2>5. CASE x.account = a /\ y = Invalidated(s)
      <3>1. /\ y.account = a /\ y.phase # "quiet" /\ (y.phase = "emit" => y.pending = TRUE)
        BY <2>1, <2>2, <2>5, InvalidatedWork DEF Invalidated
      <3> QED BY <1>0, <1>3, <2>1, <3>1 DEF Follows, Spent
    <2> QED BY <1>4, <2>1, <2>3, <2>4, <2>5
  <1> QED BY <1>5, <1>6

(* A commit announces the row it writes. *)
LEMMA CommitAnnounces ==
  ASSUME IInv, NEW f \in Fibers, Commit(f)
  PROVE  /\ RunsAreCaused => RunsAreCaused'
         /\ SubsFollow => SubsFollow'
  <1>0. PICK a : a = cmd[f].account
    OBVIOUS
  <1>1. /\ a \in Accounts /\ rows[a] # NoRow /\ rows[a].remainingUses = 1 /\ rows'[a] # NoRow
        /\ \A b \in Accounts : b # a => rows'[b] = rows[b]
    BY <1>0 DEF Commit, Updated, IInv, TypeOK, RequestInv, TxInv, TxSteps, Reading, Request, Row
  <1>2. pc' = [pc EXCEPT ![f] = "publish"] /\ cmd' = cmd /\ sub' = sub /\ pc[f] = "commit"
    BY DEF Commit, Goto, Advance, reqVars
  <1>3. \A b : Unpublished(b)' <=> Unpublished(b) \/ b = a
    BY <1>0, <1>2 DEF Unpublished, IInv, TypeOK
  <1>4. ASSUME RunsAreCaused PROVE RunsAreCaused'
    <2> SUFFICES ASSUME NEW s \in Subscribers, Live(s)
                 PROVE  \/ Work(sub'[s]) <= 1
                        \/ /\ Work(sub'[s]) <= 2 /\ Spent(sub[s].account)'
                           /\ ~Unpublished(sub[s].account)'
      BY <1>2 DEF RunsAreCaused, Live
    <2>1. PICK x : x = sub[s] /\ x = sub'[s]
      BY <1>2
    <2>2. x.account \in Accounts
      BY <2>1, LiveSubs DEF IInv, Subscription
    <2>3. Work(x) <= 1 \/ (Work(x) <= 2 /\ Spent(x.account) /\ ~Unpublished(x.account))
      BY <1>4, <2>1 DEF RunsAreCaused
    <2> QED BY <1>1, <1>3, <2>1, <2>2, <2>3 DEF Spent
  <1>5. ASSUME SubsFollow PROVE SubsFollow'
    <2> SUFFICES ASSUME NEW s \in Subscribers, Live(s) PROVE Follows(sub[s])'
      BY <1>2 DEF SubsFollow, Live
    <2>1. PICK x : x = sub[s] /\ x = sub'[s]
      BY <1>2
    <2>2. x.account \in Accounts /\ Follows(x)
      BY <1>5, <2>1, LiveSubs DEF IInv, Subscription, SubsFollow
    <2> QED BY <1>1, <1>3, <2>1, <2>2 DEF Follows
  <1> QED BY <1>4, <1>5

(* A calm step owes nobody a query.                                        *)
LEMMA CalmKeeps ==
  ASSUME IInv, Calm
  PROVE  /\ RunsAreCaused => RunsAreCaused'
         /\ OneProcess /\ SubsFollow => SubsFollow'
  <1>1. ASSUME NEW s \in Subscribers, Live(s)'
        PROVE  sub'[s] = sub[s] /\ Live(s) /\ sub[s].account \in Accounts
    <2>1. sub'[s] = sub[s]
      BY <1>1 DEF Calm, Live, NoSub
    <2> QED BY <1>1, <2>1, LiveSubs DEF Live, IInv, Subscription
  <1>2. ASSUME RunsAreCaused PROVE RunsAreCaused'
    <2> SUFFICES ASSUME NEW s \in Subscribers, Live(s)'
                 PROVE  \/ Work(sub'[s]) <= 1
                        \/ /\ Work(sub'[s]) <= 2 /\ Spent(sub[s].account)'
                           /\ ~Unpublished(sub[s].account)'
      BY DEF RunsAreCaused
    <2>1. PICK x : x = sub[s] /\ x = sub'[s]
      BY <1>1
    <2>2. Work(x) <= 1 \/ (Work(x) <= 2 /\ Spent(x.account) /\ ~Unpublished(x.account))
      BY <1>1, <1>2, <2>1 DEF RunsAreCaused
    <2>3. Spent(x.account) => Spent(x.account)'
      BY <1>1, <2>1 DEF Calm, Spent
    <2>4. Unpublished(x.account)' => Unpublished(x.account)
      BY <1>1, <2>1 DEF Calm
    <2> QED BY <2>1, <2>2, <2>3, <2>4
  <1>3. ASSUME OneProcess, SubsFollow PROVE SubsFollow'
    <2> SUFFICES ASSUME NEW s \in Subscribers, Live(s)' PROVE Follows(sub[s])'
      BY DEF SubsFollow
    <2>1. PICK x : x = sub[s] /\ x = sub'[s]
      BY <1>1
    <2>2. Follows(x) /\ x.account \in Accounts
      BY <1>1, <1>3, <2>1 DEF SubsFollow
    <2>3. Unpublished(x.account) => Unpublished(x.account)'
      BY <1>3, <2>1, <2>2 DEF Calm, Live, NoSub
    <2>4. rows[x.account] # NoRow => rows'[x.account] = rows[x.account]
      BY <2>2 DEF Calm
    <2> QED BY <2>1, <2>2, <2>3, <2>4 DEF Follows
  <1> QED BY <1>2, <1>3

(* A subscription's own steps trade work for runs, and show what they read. *)
LEMMA SubStepFollows ==
  ASSUME IInv, NEW s \in Subscribers, SubStep(s)
  PROVE  /\ RunsAreCaused => RunsAreCaused'
         /\ SubsFollow => SubsFollow'
  <1>1. PICK x, y : x = sub[s] /\ y = sub'[s]
    OBVIOUS
  <1>2. /\ rows' = rows /\ pc' = pc /\ cmd' = cmd
        /\ sub' = [sub EXCEPT ![s] = y]
    BY <1>1 DEF SubStep, Subscribe, SubRead, SubFails, SubEmit, reqVars, IInv, TypeOK
  <1>3. \A a : (Unpublished(a)' <=> Unpublished(a)) /\ (Spent(a)' <=> Spent(a))
    BY <1>2 DEF Unpublished, Spent
  <1>4. \/ y = NoSub
        \/ y.phase = "due" /\ Work(y) <= 1
        \/ /\ x \in Subscription /\ y.account = x.account /\ Live(s)
           /\ Work(y) <= Work(x) /\ Work(y) \in Int /\ Work(x) \in Int
           /\ Follows(x) => Follows(y)
    <2> USE <1>1 DEF IInv, TypeOK
    <2>1. CASE \E a \in Accounts : Subscribe(s, a)
      <3>1. PICK a \in Accounts : Subscribe(s, a)
        BY <2>1
      <3>2. y = [phase |-> "due", account |-> a, pending |-> FALSE,
                 got |-> NoRow, seen |-> NoRow, runs |-> 0]
        BY <3>1 DEF Subscribe
      <3> QED BY <3>2 DEF Work
    <2>2. CASE SubFails(s)
      BY <2>2 DEF SubFails
    <2>3. CASE SubRead(s) /\ rows[x.account] = NoRow
      BY <2>3 DEF SubRead
    <2>4. CASE SubRead(s) /\ rows[x.account] # NoRow
      <3>1. Live(s) /\ x \in Subscription /\ x.phase = "due"
        BY <2>4, LiveSubs DEF SubRead, Live
      <3>2. PICK r, n : r = rows[x.account] /\ n = x.runs + 1
        OBVIOUS
      <3>3. y = [x EXCEPT !.phase = "emit", !.got = r, !.runs = n]
        BY <2>4, <3>2 DEF SubRead, Ran
      <3>4. y.account = x.account /\ y.phase = "emit" /\ y.got = r /\ y.runs = n /\ y.pending = x.pending
        BY <3>1, <3>3 DEF Subscription
      <3>5. Follows(y)
        BY <2>4, <3>2, <3>4 DEF Follows
      <3>6. Work(y) <= Work(x) /\ Work(y) \in Int /\ Work(x) \in Int
        BY <3>1, <3>2, <3>4 DEF Work, Subscription
      <3> QED BY <3>1, <3>4, <3>5, <3>6
    <2>5. CASE SubEmit(s)
      <3>1. Live(s) /\ x \in Subscription /\ x.phase = "emit"
        BY <2>5, LiveSubs DEF SubEmit, Live
      <3>2. PICK p \in {"due", "quiet"} : p = IF x.pending THEN "due" ELSE "quiet"
        OBVIOUS
      <3>3. y = [x EXCEPT !.seen = x.got, !.pending = FALSE, !.phase = p]
        BY <2>5, <3>2 DEF SubEmit
      <3>4. /\ y.account = x.account /\ y.phase = p /\ y.seen = x.got /\ y.runs = x.runs
            /\ y.pending = FALSE
        BY <3>1, <3>3 DEF Subscription
      <3>5. Follows(x) => Follows(y)
        BY <3>1, <3>2, <3>4 DEF Follows, Subscription
      <3>6. Work(y) <= Work(x) /\ Work(y) \in Int /\ Work(x) \in Int
        BY <3>1, <3>2, <3>4 DEF Work, Subscription
      <3> QED BY <3>1, <3>4, <3>5, <3>6
    <2> QED BY <2>1, <2>2, <2>3, <2>4, <2>5 DEF SubStep
  <1>5. ASSUME RunsAreCaused PROVE RunsAreCaused'
    <2> SUFFICES ASSUME NEW t \in Subscribers, Live(t)'
                 PROVE  \/ Work(sub'[t]) <= 1
                        \/ /\ Work(sub'[t]) <= 2 /\ Spent(sub[t].account)'
                           /\ ~Unpublished(sub[t].account)'
      BY DEF RunsAreCaused
    <2>1. CASE t # s
      <3>1. sub'[t] = sub[t] /\ Live(t)
        BY <1>2, <2>1 DEF IInv, TypeOK, Live
      <3>2. PICK z : z = sub[t]
        OBVIOUS
      <3>3. Work(z) <= 1 \/ (Work(z) <= 2 /\ Spent(z.account) /\ ~Unpublished(z.account))
        BY <1>5, <3>1, <3>2 DEF RunsAreCaused
      <3> QED BY <1>3, <3>1, <3>2, <3>3
    <2>2. CASE t = s
      <3>1. y # NoSub
        BY <1>1, <2>2 DEF Live, NoSub
      <3>2. CASE Work(y) <= 1
        BY <1>1, <2>2, <3>2
      <3>3. CASE Live(s) /\ y.account = x.account /\ Work(y) <= Work(x)
                 /\ Work(y) \in Int /\ Work(x) \in Int
        <4>1. Work(x) <= 1 \/ (Work(x) <= 2 /\ Spent(x.account) /\ ~Unpublished(x.account))
          BY <1>1, <1>5, <3>3 DEF RunsAreCaused
        <4> QED BY <1>1, <1>3, <2>2, <3>3, <4>1
      <3> QED BY <1>4, <3>1, <3>2, <3>3
    <2> QED BY <2>1, <2>2
  <1>6. ASSUME SubsFollow PROVE SubsFollow'
    <2> SUFFICES ASSUME NEW t \in Subscribers, Live(t)' PROVE Follows(sub[t])'
      BY DEF SubsFollow
    <2>1. PICK z : z = sub'[t]
      OBVIOUS
    <2>2. Follows(z)
      <3>1. CASE t # s
        BY <1>2, <1>6, <2>1, <3>1 DEF IInv, TypeOK, Live, SubsFollow
      <3>2. CASE t = s
        <4>1. z = y /\ y # NoSub
          BY <1>1, <2>1, <3>2 DEF Live, NoSub
        <4>2. CASE y.phase = "due"
          BY <4>1, <4>2 DEF Follows
        <4>3. CASE Live(s) /\ (Follows(x) => Follows(y))
          BY <1>1, <1>6, <4>1, <4>3 DEF SubsFollow
        <4> QED BY <1>4, <4>1, <4>2, <4>3
      <3> QED BY <3>1, <3>2
    <2>3. Follows(z)'
      BY <1>2, <1>3, <2>2 DEF Follows
    <2> QED BY <2>1, <2>3 DEF Follows
  <1> QED BY <1>5, <1>6

(* Every step keeps what subscriptions have run and what they have seen.   *)
LEMMA NextRuns ==
  ASSUME IInv, RunsAreCaused, [Next]_vars
  PROVE  RunsAreCaused' /\ (OneProcess /\ SubsFollow => SubsFollow')
  BY StepsAreCalm, CalmKeeps, CommitAnnounces, PublishTells, SubStepFollows

(* No subscription ever runs more often than it has cause to.              *)
LEMMA SubsInvariance == Spec => [](IInv /\ RunsAreCaused)
  <1>1. Init => RunsAreCaused
    BY DEF Init, RunsAreCaused, Live, NoSub
  <1>2. IInv /\ RunsAreCaused /\ [Next]_vars => (IInv /\ RunsAreCaused)'
    BY NextIInv, NextRuns
  <1> QED BY <1>1, <1>2, InitIInv, PTL DEF Spec

(* A subscription's query runs once when it is registered and at most once *)
(* more for each committed withdrawal of its account, in every             *)
(* interleaving of the processes.                                          *)
THEOREM QueriesRunOncePerRevision == Spec => []RunsOncePerRevision
  <1>1. ASSUME IInv, RunsAreCaused PROVE RunsOncePerRevision
    <2> SUFFICES ASSUME NEW s \in Subscribers, Live(s), rows[sub[s].account] # NoRow
                 PROVE  sub[s].runs <= 1 + rows[sub[s].account].revision
      BY DEF RunsOncePerRevision
    <2>1. PICK x, r : x = sub[s] /\ r = rows[x.account]
      OBVIOUS
    <2>2. x \in Subscription /\ x.account \in Accounts
      BY <1>1, <2>1, LiveSubs DEF IInv, Subscription
    <2>3. r \in Row /\ r.revision + r.remainingUses = 1
      BY <1>1, <2>1, <2>2 DEF IInv, TypeOK, GrantUsedOnce
    <2>4. x.runs <= Work(x) /\ Work(x) \in Int /\ x.runs \in Nat
      BY <2>2 DEF Work, Subscription
    <2>5. Work(x) <= 1 \/ (Work(x) <= 2 /\ r.remainingUses = 0)
      BY <1>1, <2>1 DEF RunsAreCaused, Spent
    <2> QED BY <2>1, <2>3, <2>4, <2>5 DEF Row
  <1> QED BY <1>1, SubsInvariance, PTL

(* In one process a subscription whose query is not running has emitted    *)
(* the committed row, or a fiber has yet to publish it: no interleaving of *)
(* commits, queries and invalidations loses an update.                     *)
THEOREM QuietSubscriptionsAreCurrent ==
  ASSUME OneProcess PROVE Spec => []QuietIsCurrent
  <1>1. Init => SubsFollow
    BY DEF Init, SubsFollow, Live, NoSub
  <1>2. SubsFollow => QuietIsCurrent
    BY DEF SubsFollow, QuietIsCurrent, Live, Follows, Unpublished
  <1>3. IInv /\ RunsAreCaused /\ SubsFollow /\ [Next]_vars => SubsFollow'
    BY NextRuns
  <1> QED BY <1>1, <1>2, <1>3, SubsInvariance, PTL DEF Spec
-----------------------------------------------------------------------------
(* The journey.  It calls the service as any client may. *)
LEMMA JourneyStepsAreServed == [JNext \/ Others \/ ServeClients]_allVars => [Next]_vars
  <1> USE JourneyAssumption
  <1>1. Home[Driver] \in Procs
    BY DEF JourneyAssumption
  <1>2. Call => Next
    BY DEF Call, Next, Calls, JourneyAssumption
  <1>3. Serve => Next
    BY DEF Serve, Next, JourneyAssumption
  <1>4. Open => Next
    BY DEF Open, Next, JourneyAssumption
  <1>5. Listen => Next
    BY DEF Listen, Next, JourneyAssumption
  <1>6. Close => Next \/ UNCHANGED vars
    BY <1>1 DEF Close, Next
  <1>7. Take \/ Deadline \/ Count \/ Parity \/ Stop => UNCHANGED vars
    BY DEF Take, Deadline, Count, Parity, Stop, allVars
  <1>8. Others => Next
    BY DEF Others, Next
  <1> QED
    BY <1>2, <1>3, <1>4, <1>5, <1>6, <1>7, <1>8 DEF JNext, ServeClients, allVars

(* Every behaviour of the journey, and of its clients, is one of the       *)
(* service: what is proved of the service holds in the journey.            *)
THEOREM JourneyRunsTheService == JSpec => Spec
  BY JourneyStepsAreServed, PTL DEF JSpec, JInit, Spec

(* Where the driver's request can be at each step of the journey. *)
CallSteps(at) ==
  IF at = "create" THEN {"idle", "createCheck", "createInsert", "createRead"}
  ELSE IF at = "first" THEN {"idle", "check", "begin"} \cup TxSteps \cup Committed
  ELSE IF at = "second" THEN {"idle", "check", "begin", "txRead"}
  ELSE IF at \in {"clean", "reopened"} THEN {"idle", "query"}
  ELSE {"idle"}

(* The snapshots the stream has shown, those the journey has taken first. *)
Taken    == IF Len(seenRows) > 2 THEN 2 ELSE Len(seenRows)
Emitted  == Len(queue) + Taken
Shown(k) == IF k <= Len(seenRows) THEN seenRows[k] ELSE queue[k - Len(seenRows)]

(* How many rows the journey has seen at each of its steps. *)
Seen(at) ==
  IF at \in {"create", "subscribe", "initial"} THEN 0
  ELSE IF at \in {"first", "committed"} THEN 1
  ELSE IF at \in {"second", "count", "clean"} THEN 2
  ELSE IF at \in {"close", "reopened"} THEN 3 ELSE 4

Withdrawn == {"committed", "second", "count", "clean", "close", "reopened", "parity", "done"}
Listening == {"initial", "first", "committed", "second", "count"}
JourneySteps == {"create", "subscribe", "first"} \cup Withdrawn \cup Listening \cup Failed

Opened == rows[Account] # NoRow /\ rows[Account].revision = 0

(* Another process has withdrawn first: the journey can only fail, or has  *)
(* failed before its own withdrawal was shown.                             *)
Beaten ==
  \/ /\ step \in {"create", "subscribe", "initial", "first"}
     /\ pc[Driver] \notin Committed /\ Spent(Account)
  \/ step \in Failed /\ Len(seenRows) < 2

(* What the journey knows of the account at each of its steps. *)
DriverInv ==
  /\ step \in JourneySteps \ {"concurrencyFailure", "parityFailure"}
  /\ pc[Driver] \in CallSteps(step)
  /\ pc[Driver] # "idle" => cmd[Driver].account = Account
  /\ pc[Driver] = "createRead" \/ step \in {"subscribe", "initial"} => rows[Account] # NoRow
  /\ step \in Withdrawn => Spent(Account)

(* What it has been shown: the opened account, unless it is beaten, then   *)
(* the withdrawn one.                                                      *)
ShownInv ==
  /\ queue \in Seq(Row \cup {NoRow}) /\ seenRows \in Seq(Row \cup {NoRow})
  /\ step \notin Failed => Len(seenRows) = Seen(step)
  /\ Emitted <= 2
  /\ Emitted >= 1 => Shown(1).revision = 0 \/ Beaten
  /\ Emitted >= 2 => Shown(2) = rows[Account] /\ Spent(Account)
  /\ step \notin Failed => \A k \in 3..Len(seenRows) : seenRows[k] = rows[Account]

(* The stream behind it: every run of its query has been or is being       *)
(* emitted, the first run read the opened account, the second the spent.   *)
ListenerInv ==
  /\ Live(Listener) =>
       /\ sub[Listener].account = Account
       /\ sub[Listener].runs = Emitted + (IF sub[Listener].phase = "emit" THEN 1 ELSE 0)
       /\ sub[Listener].runs = 0 => Opened \/ Beaten
       /\ sub[Listener].phase = "emit" /\ sub[Listener].runs = 1
            => sub[Listener].got.revision = 0 \/ Beaten
       /\ sub[Listener].phase = "emit" /\ sub[Listener].runs = 2 => sub[Listener].got = rows[Account]
  /\ step \in {"create", "subscribe"} => ~Live(Listener) /\ Emitted = 0
  /\ step \in Listening /\ Emitted = 2 => Live(Listener)

JInv == IF step = "clients" THEN queue = <<>> /\ seenRows = <<>>
        ELSE DriverInv /\ ShownInv /\ ListenerInv

(* A step of the driver's request, as the journey sees it. *)
Answered ==
  /\ reply' # None /\ pc'[Driver] = "idle" /\ rows' = rows /\ sub' = sub
  /\ reply'.row \in Row \cup {NoRow}
  /\ reply'.outcome = "ok" => /\ reply'.row = rows[Account]
                              /\ step = "create" => rows[Account] # NoRow
                              /\ step = "first" => Spent(Account) /\ ~Beaten

Underway ==
  /\ reply' = None /\ pc'[Driver] \in CallSteps(step)
  /\ cmd' = cmd /\ cmd[Driver].account = Account
  /\ pc'[Driver] = "createRead" => rows'[Account] # NoRow
  /\ pc'[Driver] \in Committed => pc[Driver] \in Committed \/ ~Spent(Account)
  /\ rows' = rows \/ sub' = sub
  /\ \/ rows'[Account] = rows[Account]
     \/ step = "create" /\ ~Spent(Account)
     \/ step = "first" /\ ~Spent(Account)
  /\ sub'[Listener] = sub[Listener] \/ (Live(Listener) /\ sub'[Listener] = Invalidated(Listener))

(* A call of the journey is answered or still under way, and always about  *)
(* its account.                                                            *)
LEMMA Served ==
  ASSUME IInv, DriverInv, step \in Calling, Progress(Driver) \/ SqlFails(Driver)
  PROVE  Answered \/ Underway
  <1> USE JourneyAssumption DEF Goto, Advance, reqVars, txVars, Answered, Underway
  <1>1. /\ Driver \in Fibers /\ Listener \in Subscribers /\ Account \in Accounts
        /\ pc[Driver] # "idle" /\ cmd[Driver].account = Account
        /\ rows[Account] \in Row \cup {NoRow} /\ pc[Driver] \in CallSteps(step)
    BY DEF JourneyAssumption, IInv, TypeOK, DriverInv, Progress, Statement, SqlFails, Query, CreateCheck,
       CreateInsert, CreateRead, Check, Begin, ReadRow, Refuse, Handler, Update, UpdateFails,
       Commit, Publish, ReadBack
  <1>2. ASSUME NEW o \in Outcome, NEW r \in Row \cup {NoRow}, Answer(Driver, o, r),
               rows' = rows, sub' = sub,
               o = "ok" => /\ r = rows[Account] /\ (step = "create" => rows[Account] # NoRow)
                           /\ step = "first" => Spent(Account) /\ ~Beaten
        PROVE  Answered
    <2>1. reply'.outcome = o /\ reply'.row = r /\ reply' # None
      BY <1>1, <1>2 DEF Answer, Reply
    <2>2. pc'[Driver] = "idle"
      BY <1>1, <1>2 DEF Answer, IInv, TypeOK
    <2> QED BY <1>2, <2>1, <2>2
  <1>3. ASSUME NEW o \in Outcome, o # "ok", Fail(Driver, o), rows' = rows, sub' = sub
        PROVE  Answered
    BY <1>2, <1>3 DEF Fail
  <1>4. CASE SqlFails(Driver)
    BY <1>3, <1>4 DEF Outcome, SqlFails, Rollback
  <1>5. CASE step = "create" /\ Progress(Driver)
    <2>1. CreateCheck(Driver) \/ CreateInsert(Driver) \/ CreateRead(Driver)
      BY <1>1, <1>5 DEF CallSteps, Progress, Statement, Query, Check, Begin, ReadRow, Refuse, Handler,
         Update, UpdateFails, Commit, Publish, ReadBack
    <2>2. CASE CreateCheck(Driver)
      BY <1>1, <1>3, <1>5, <2>2 DEF Outcome, CreateCheck, CallSteps, IInv, TypeOK, Committed
    <2>3. CASE CreateInsert(Driver)
      <3>1. CASE Fail(Driver, "unavailable") /\ UNCHANGED <<rows, fresh>>
        BY <1>3, <2>3, <3>1 DEF Outcome, CreateInsert
      <3>2. CASE rows[Account] = NoRow /\ Insert(Account, cmd[Driver].value)
                 /\ cmd[Driver].value \in Nat /\ Goto(Driver, "createRead")
        <4>1. rows'[Account] = [balance |-> cmd[Driver].value, revision |-> 0, remainingUses |-> 1]
          BY <1>1, <3>2 DEF Insert, IInv, TypeOK
        <4>2. rows'[Account] # NoRow
          BY <3>2, <4>1 DEF Row
        <4> QED BY <1>1, <1>5, <2>3, <3>2, <4>2 DEF CreateInsert, CallSteps, Committed, IInv, TypeOK, Spent
      <3>3. cmd[Driver].value \in Int
        BY <1>1 DEF IInv, TypeOK, RequestInv, Request
      <3> QED BY <1>1, <2>3, <3>1, <3>2, <3>3 DEF CreateInsert
    <2>4. CASE CreateRead(Driver)
      BY <1>1, <1>2, <1>5, <2>4 DEF Outcome, CreateRead, Return, DriverInv
    <2> QED BY <2>1, <2>2, <2>3, <2>4
  <1>6. CASE step \in {"first", "second"} /\ Progress(Driver)
    <2>1. CASE Check(Driver)
      BY <1>1, <1>3, <1>6, <2>1 DEF Outcome, Check, CallSteps, IInv, TypeOK, Committed
    <2>2. CASE Begin(Driver)
      BY <1>1, <1>6, <2>2 DEF Begin, CallSteps, IInv, TypeOK, TxSteps, Committed
    <2>3. CASE ReadRow(Driver)
      BY <1>1, <1>6, <2>3 DEF ReadRow, Admits, CallSteps, IInv, TypeOK, TxSteps, DriverInv,
         Withdrawn, Spent
    <2>4. CASE Refuse(Driver) \/ UpdateFails(Driver)
      BY <1>3, <2>4 DEF Outcome, Refuse, UpdateFails, Rollback
    <2>5. CASE Handler(Driver)
      <3>1. step = "first"
        BY <1>1, <1>6, <2>5 DEF CallSteps, Handler
      <3>2. CASE Rollback(Driver, "unavailable")
        BY <1>3, <3>2 DEF Outcome, Rollback
      <3>3. CASE Advance(Driver, "update") /\ UNCHANGED <<rows, cmd, sub>>
        BY <1>1, <3>1, <3>3 DEF CallSteps, IInv, TypeOK, TxSteps, Committed
      <3> QED BY <2>5, <3>2, <3>3 DEF Handler
    <2>6. CASE Update(Driver)
      BY <1>1, <1>6, <2>6 DEF Update, CallSteps, IInv, TypeOK, TxSteps, Committed
    <2>7. CASE Commit(Driver)
      <3>1. step = "first"
        BY <1>1, <1>6, <2>7 DEF CallSteps, Commit
      <3>2. ~Spent(Account)
        BY <1>1, <2>7 DEF Commit, Spent, IInv, TxInv, Reading
      <3> QED BY <1>1, <2>7, <3>1, <3>2 DEF Commit, CallSteps, Committed, IInv, TypeOK
    <2>8. CASE Publish(Driver)
      <3>1. step = "first"
        BY <1>1, <1>6, <2>8 DEF CallSteps, Publish
      <3> QED BY <1>1, <2>8, <3>1 DEF Publish, Invalidate, CallSteps, Committed, IInv, TypeOK
    <2>9. CASE ReadBack(Driver)
      <3>1. Spent(Account) /\ (step = "first" => ~Beaten)
        BY <1>1, <2>9 DEF ReadBack, Spent, IInv, RequestInv, Committed, Beaten, Failed
      <3> QED BY <1>1, <1>2, <1>6, <2>9, <3>1 DEF Outcome, ReadBack, Return
    <2> QED
      BY <1>1, <1>6, <2>1, <2>2, <2>3, <2>4, <2>5, <2>6, <2>7, <2>8, <2>9
         DEF CallSteps, Progress, Statement, Query, CreateCheck, CreateInsert, CreateRead, TxSteps, Committed
  <1>7. CASE step \in {"clean", "reopened"} /\ Progress(Driver)
    <2>1. Query(Driver)
      BY <1>1, <1>7 DEF CallSteps, Progress, Statement, CreateCheck, CreateInsert, CreateRead, Check, Begin,
         ReadRow, Refuse, Handler, Update, UpdateFails, Commit, Publish, ReadBack
    <2> QED BY <1>1, <1>2, <1>3, <1>7, <2>1 DEF Outcome, Query, Return
  <1> QED BY <1>4, <1>5, <1>6, <1>7 DEF Calling

(* The counters are numbers. *)
LEMMA Counts ==
  ASSUME ShownInv
  PROVE  /\ Len(queue) \in Nat /\ Len(seenRows) \in Nat
         /\ Taken \in 0..2 /\ Emitted \in 0..2
  <1>1. Len(queue) \in Nat /\ Len(seenRows) \in Nat
    BY DEF ShownInv
  <1>2. PICK n \in Nat : n = Len(seenRows)
    BY <1>1
  <1>3. Taken = IF n > 2 THEN 2 ELSE n
    BY <1>2 DEF Taken
  <1>4. Taken \in 0..2
    BY <1>3
  <1> QED BY <1>1, <1>4 DEF ShownInv, Emitted

(* Every value emitted is in the queue or has been taken.                  *)
LEMMA CountsSum ==
  ASSUME ShownInv, Emitted <= 1
  PROVE  Emitted = Len(queue) + Len(seenRows) /\ Len(queue) \in Nat /\ Len(seenRows) \in Nat
  <1>1. PICK m, n \in Nat : m = Len(queue) /\ n = Len(seenRows)
    BY Counts
  <1>2. Emitted = m + (IF n > 2 THEN 2 ELSE n)
    BY <1>1 DEF Emitted, Taken
  <1> QED BY <1>1, <1>2, Counts

(* The spent account changes no more, and the second run saw it spent. *)
LEMMA SecondRunIsCaused ==
  ASSUME IInv, RunsAreCaused, Live(Listener), sub[Listener].account = Account,
         \/ sub[Listener].runs >= 2
         \/ sub[Listener].runs >= 1 /\ sub[Listener].phase = "due"
  PROVE  Spent(Account) /\ Work(sub[Listener]) <= 2 /\ sub[Listener].runs <= 2
  <1>1. PICK x : x = sub[Listener]
    OBVIOUS
  <1>2. x \in Subscription
    BY <1>1, LiveSubs, JourneyAssumption DEF JourneyAssumption, IInv
  <1>3. Work(x) \in Int /\ Work(x) >= 2 /\ x.runs <= Work(x)
    BY <1>1, <1>2 DEF Work, Subscription
  <1>4. Work(x) <= 1 \/ (Work(x) <= 2 /\ Spent(x.account))
    BY <1>1, JourneyAssumption DEF JourneyAssumption, RunsAreCaused
  <1> QED BY <1>1, <1>2, <1>3, <1>4 DEF Subscription

(* An answer moves the journey to the statement that expects it,           *)
LEMMA ServeKeeps ==
  ASSUME IInv, RunsAreCaused, DriverInv, ShownInv, ListenerInv, Serve
  PROVE  DriverInv' /\ ShownInv' /\ ListenerInv'
  <1>1. /\ step \in Calling /\ queue' = queue /\ step \notin Failed
        /\ step' = IF reply' = None THEN step ELSE After(reply'.outcome)
        /\ seenRows' = IF step \in {"clean", "reopened"} /\ reply' # None
                       THEN Append(seenRows, reply'.row) ELSE seenRows
    BY DEF Serve, Calling, Failed
  <1>2. Answered \/ Underway
    BY Served DEF Serve
  <1>3. ASSUME Underway PROVE DriverInv' /\ ShownInv' /\ ListenerInv'
    <2>1. step' = step /\ seenRows' = seenRows
      BY <1>1, <1>3 DEF Underway
    <2>2. Emitted' = Emitted /\ Shown(1)' = Shown(1) /\ Shown(2)' = Shown(2)
      BY <1>1, <2>1 DEF Emitted, Taken, Shown
    <2>b. Beaten => Beaten'
      BY <1>1, <1>3, <2>1 DEF Beaten, Underway, Spent
    <2>3. CASE rows'[Account] = rows[Account]
      <3>1. (Spent(Account)' <=> Spent(Account)) /\ (Opened' <=> Opened)
        BY <2>3 DEF Spent, Opened
      <3>2. DriverInv'
        BY <1>1, <1>3, <2>1, <3>1 DEF DriverInv, Underway, Calling
      <3>3. ShownInv'
        BY <1>1, <2>1, <2>2, <2>b, <2>3, <3>1 DEF ShownInv
      <3>4. ListenerInv'
        <4>1. PICK x, y : x = sub[Listener] /\ y = sub'[Listener]
          OBVIOUS
        <4>2. CASE y = x
          BY <2>1, <2>2, <2>b, <2>3, <3>1, <4>1, <4>2 DEF ListenerInv, Live
        <4>3. CASE Live(Listener) /\ y = Invalidated(Listener)
          <5>1. x \in Subscription
            BY <4>1, <4>3, LiveSubs, JourneyAssumption DEF JourneyAssumption, IInv
          <5>2. y = IF x.phase = "quiet" THEN [x EXCEPT !.phase = "due"]
                                         ELSE [x EXCEPT !.pending = TRUE]
            BY <4>1, <4>3 DEF Invalidated
          <5>3. /\ y.account = x.account /\ y.runs = x.runs /\ y.got = x.got
                /\ y.phase = "emit" <=> x.phase = "emit"
                /\ y.phase # "off"
            BY <5>1, <5>2 DEF Subscription
          <5> QED BY <2>1, <2>2, <2>b, <2>3, <3>1, <4>1, <4>3, <5>3 DEF ListenerInv, Live
        <4> QED BY <1>3, <4>1, <4>2, <4>3 DEF Underway
      <3> QED BY <3>2, <3>3, <3>4
    <2>4. CASE rows'[Account] # rows[Account] /\ ~Spent(Account) /\ step \in {"create", "first"}
      <3>1. sub' = sub
        BY <1>3, <2>4 DEF Underway
      <3>2. DriverInv'
        BY <1>1, <1>3, <2>1, <2>4 DEF DriverInv, Underway, Calling, Withdrawn
      <3>3. Len(seenRows) = Seen(step) /\ Emitted <= 1
        BY <1>1, <2>4, Counts DEF ShownInv
      <3>4. ShownInv'
        <4>1. Len(seenRows) <= 1 /\ ~(Emitted >= 2)
          BY <2>4, <3>3, Counts DEF Seen
        <4>2. \A k \in 3..Len(seenRows) : FALSE
          BY <4>1, Counts
        <4> QED BY <1>1, <2>1, <2>2, <2>b, <4>1, <4>2 DEF ShownInv
      <3>5. ListenerInv'
        <4>1. PICK x : x = sub[Listener] /\ x = sub'[Listener]
          BY <3>1
        <4>2. CASE step = "create"
          BY <2>1, <2>2, <3>1, <4>2 DEF ListenerInv, Live, Listening
        <4>3. CASE step = "first" /\ Live(Listener)
          <5>1. Emitted >= 1
            BY <3>3, <4>3, Counts DEF Seen, Emitted, Taken
          <5>2. x.runs = Emitted + (IF x.phase = "emit" THEN 1 ELSE 0) /\ x.account = Account
            BY <4>1, <4>3 DEF ListenerInv
          <5>3. ~(x.runs >= 2)
            BY <2>4, <4>1, <4>3, <5>2, SecondRunIsCaused
          <5> QED
            BY <2>1, <2>2, <2>b, <3>3, <4>1, <4>3, <5>1, <5>2, <5>3, Counts DEF ListenerInv, Live
        <4>4. CASE step = "first" /\ ~Live(Listener)
          BY <2>1, <2>2, <3>1, <4>4 DEF ListenerInv, Live
        <4> QED BY <2>4, <4>2, <4>3, <4>4
      <3> QED BY <3>2, <3>4, <3>5
    <2> QED BY <1>3, <2>3, <2>4 DEF Underway
  <1>4. ASSUME Answered PROVE DriverInv' /\ ShownInv' /\ ListenerInv'
    <2>1. /\ step' = After(reply'.outcome) /\ rows' = rows /\ sub' = sub /\ pc'[Driver] = "idle"
          /\ reply'.row \in Row \cup {NoRow}
      BY <1>1, <1>4 DEF Answered
    <2>2. (Spent(Account)' <=> Spent(Account)) /\ (Opened' <=> Opened)
      BY <2>1 DEF Spent, Opened
    <2>3. \/ step' = "runtimeFailure"
          \/ /\ reply'.outcome = "ok"
             /\ \/ step = "create" /\ step' = "subscribe" /\ rows[Account] # NoRow
                \/ step = "first" /\ step' = "committed" /\ Spent(Account) /\ ~Beaten
                \/ step = "clean" /\ step' = "close" /\ reply'.row = rows[Account]
                \/ step = "reopened" /\ step' = "parity" /\ reply'.row = rows[Account]
          \/ step = "second" /\ step' = "count"
      BY <1>1, <1>4, <2>1 DEF After, Answered, Calling
    <2>4. DriverInv'
      BY <1>1, <2>1, <2>2, <2>3 DEF DriverInv, CallSteps, Calling, JourneySteps, Withdrawn, Failed
    <2>5. Len(seenRows) = Seen(step)
      BY <1>1 DEF ShownInv
    <2>b. Beaten => Beaten'
      <3> SUFFICES ASSUME Beaten PROVE Beaten'
        OBVIOUS
      <3>1. step \in {"create", "first"} /\ Spent(Account)' /\ seenRows' = seenRows
        BY <1>1, <2>2 DEF Beaten, Calling
      <3>2. Len(seenRows') < 2
        <4>1. Len(seenRows') = 0 \/ Len(seenRows') = 1
          BY <2>5, <3>1 DEF Seen
        <4> QED BY <4>1
      <3>3. step' \in {"runtimeFailure", "subscribe"}
        BY <2>3, <3>1
      <3> QED BY <2>1, <3>1, <3>2, <3>3 DEF Beaten, Failed, Committed
    <2>6. CASE step \in {"create", "first", "second"}
      <3>1. seenRows' = seenRows /\ step' \in {"runtimeFailure", "subscribe", "committed", "count"}
        BY <1>1, <2>3, <2>6
      <3>2. Emitted' = Emitted /\ Shown(1)' = Shown(1) /\ Shown(2)' = Shown(2)
        BY <1>1, <3>1 DEF Emitted, Taken, Shown
      <3>3. ShownInv'
        BY <1>1, <2>1, <2>2, <2>b, <2>3, <2>5, <2>6, <3>1, <3>2 DEF ShownInv, Seen, Failed
      <3>4. ListenerInv'
        BY <1>1, <2>1, <2>2, <2>b, <2>3, <2>6, <3>1, <3>2 DEF ListenerInv, Live, Listening
      <3> QED BY <2>4, <3>3, <3>4
    <2>7. CASE step \in {"clean", "reopened"}
      <3>1. seenRows' = Append(seenRows, reply'.row) /\ Len(seenRows) >= 2
        BY <1>1, <1>4, <2>5, <2>7 DEF Answered, Seen
      <3>2. Emitted' = Emitted /\ Shown(1)' = Shown(1) /\ Shown(2)' = Shown(2)
        <4>1. Len(seenRows') = Len(seenRows) + 1 /\ seenRows'[1] = seenRows[1] /\ seenRows'[2] = seenRows[2]
          BY <2>1, <3>1, Counts DEF ShownInv
        <4> QED BY <1>1, <3>1, <4>1, Counts DEF Emitted, Taken, Shown
      <3>3. ShownInv'
        <4>1. seenRows' \in Seq(Row \cup {NoRow}) /\ Len(seenRows') = Len(seenRows) + 1
          BY <2>1, <3>1 DEF ShownInv
        <4>2. step' \notin Failed => /\ Len(seenRows') = Seen(step')
                                     /\ \A k \in 3..Len(seenRows') : seenRows'[k] = rows'[Account]
          BY <1>1, <2>1, <2>3, <2>5, <2>7, <3>1, <4>1, Counts DEF ShownInv, Seen, Failed
        <4> QED BY <1>1, <2>1, <2>2, <2>b, <3>2, <4>1, <4>2 DEF ShownInv
      <3>4. ListenerInv'
        BY <1>1, <2>1, <2>2, <2>b, <2>3, <2>7, <3>1, <3>2 DEF ListenerInv, Live, Listening
      <3> QED BY <2>4, <3>3, <3>4
    <2> QED BY <1>1, <2>6, <2>7 DEF Calling
  <1> QED BY <1>2, <1>3, <1>4

(* A step that keeps the account's row, the stream and what it has shown   *)
(* keeps what is known of them.                                            *)
LEMMA ShownStays ==
  ASSUME ShownInv, ListenerInv, rows' = rows, sub' = sub, UNCHANGED <<queue, seenRows>>,
         step' \notin Failed => step \notin Failed /\ Seen(step') = Seen(step),
         step' \in {"create", "subscribe"} => step \in {"create", "subscribe"},
         step' \in Listening => step \in Listening,
         Beaten => Beaten'
  PROVE  ShownInv' /\ ListenerInv'
  <1>1. Emitted' = Emitted /\ Shown(1)' = Shown(1) /\ Shown(2)' = Shown(2)
    BY DEF Emitted, Taken, Shown
  <1>2. (Spent(Account)' <=> Spent(Account)) /\ (Opened' <=> Opened)
    BY DEF Spent, Opened
  <1>3. ShownInv'
    BY <1>1, <1>2 DEF ShownInv
  <1>4. ListenerInv'
    BY <1>1, <1>2 DEF ListenerInv, Live
  <1> QED BY <1>3, <1>4

(* a call waits in place,                                                  *)
LEMMA CallKeeps ==
  ASSUME IInv, DriverInv, ShownInv, ListenerInv, Call
  PROVE  DriverInv' /\ ShownInv' /\ ListenerInv'
  <1> USE JourneyAssumption
  <1>1. UNCHANGED <<rows, sub, step, queue, seenRows>>
    BY DEF Call, StartCreate, StartDispatch, StartQuery, journeyVars
  <1>2. Driver \in Fibers /\ pc'[Driver] \in CallSteps(step) /\ cmd'[Driver].account = Account
        /\ pc'[Driver] # "createRead"
    BY DEF JourneyAssumption, Call, StartCreate, StartDispatch, StartQuery, Advance, CallSteps,
       IInv, TypeOK
  <1>3. (Spent(Account)' <=> Spent(Account)) /\ (Opened' <=> Opened)
    BY <1>1 DEF Spent, Opened
  <1>4. DriverInv'
    BY <1>1, <1>2, <1>3 DEF DriverInv
  <1>5. Beaten => Beaten'
    <2>1. pc'[Driver] \notin Committed
      BY <1>2 DEF Call, StartCreate, StartDispatch, StartQuery, Advance, Committed, IInv, TypeOK
    <2> QED BY <1>1, <1>3, <2>1 DEF Beaten
  <1> QED BY <1>1, <1>4, <1>5, ShownStays

(* An account that exists is as it was opened, or its grant is spent.      *)
LEMMA OpenedOrSpent ==
  ASSUME IInv, Account \in Accounts, rows[Account] # NoRow
  PROVE  Opened \/ Spent(Account)
  <1>1. PICK r \in Row : r = rows[Account]
    BY DEF IInv, TypeOK
  <1>2. r.revision \in Nat /\ r.remainingUses \in 0..1 /\ r.revision + r.remainingUses = 1
    BY <1>1 DEF IInv, GrantUsedOnce, Row
  <1>3. r.revision = 0 \/ r.remainingUses = 0
    BY <1>2
  <1> QED BY <1>1, <1>3 DEF Opened, Spent

(* the subscription is opened once,                                        *)
LEMMA OpenKeeps ==
  ASSUME IInv, DriverInv, ShownInv, ListenerInv, Open
  PROVE  DriverInv' /\ ShownInv' /\ ListenerInv'
  <1> USE JourneyAssumption
  <1>1. /\ step = "subscribe" /\ step' = "initial"
        /\ UNCHANGED <<rows, pc, cmd, queue, seenRows>>
        /\ Listener \in Subscribers /\ Account \in Accounts /\ rows[Account] # NoRow
        /\ pc[Driver] = "idle"
    BY DEF Open, Subscribe, reqVars, JourneyAssumption, DriverInv, CallSteps
  <1>2. sub'[Listener] = [phase |-> "due", account |-> Account, pending |-> FALSE,
                          got |-> NoRow, seen |-> NoRow, runs |-> 0]
    BY <1>1 DEF Open, Subscribe, IInv, TypeOK
  <1>3. Emitted' = Emitted /\ Shown(1)' = Shown(1) /\ Shown(2)' = Shown(2)
    BY <1>1 DEF Emitted, Taken, Shown
  <1>4. (Spent(Account)' <=> Spent(Account)) /\ (Opened' <=> Opened)
    BY <1>1 DEF Spent, Opened
  <1>5. DriverInv'
    BY <1>1, <1>4 DEF DriverInv, CallSteps, JourneySteps, Listening, Withdrawn, Failed
  <1>b. Beaten' <=> Spent(Account)
    BY <1>1, <1>4 DEF Beaten, Committed, Failed
  <1>c. Beaten => Beaten'
    BY <1>1, <1>b DEF Beaten, Failed
  <1>d. Opened \/ Beaten'
    BY <1>1, <1>b, OpenedOrSpent
  <1>6. ShownInv'
    BY <1>1, <1>3, <1>4, <1>c DEF ShownInv, Seen, Failed
  <1>7. Emitted = 0
    BY <1>1 DEF ListenerInv
  <1>8. ListenerInv'
    BY <1>1, <1>2, <1>3, <1>4, <1>7, <1>d, Counts DEF ListenerInv, Live, Listening
  <1> QED BY <1>5, <1>6, <1>8

(* it emits the value of its query, once for its registration and once for *)
(* the withdrawal,                                                         *)
LEMMA ListenKeeps ==
  ASSUME IInv, RunsAreCaused, DriverInv, ShownInv, ListenerInv, Listen
  PROVE  DriverInv' /\ ShownInv' /\ ListenerInv'
  <1> USE JourneyAssumption
  <1>1. PICK x, y : x = sub[Listener] /\ y = sub'[Listener]
    OBVIOUS
  <1>2. /\ UNCHANGED <<rows, pc, cmd, step, seenRows>>
        /\ Listener \in Subscribers /\ Account \in Accounts /\ Live(Listener)
    BY DEF Listen, SubRead, SubFails, SubEmit, reqVars, journeyVars, Live, JourneyAssumption
  <1>3. x \in Subscription
    BY <1>1, <1>2, LiveSubs DEF IInv
  <1>4. (Spent(Account)' <=> Spent(Account)) /\ (Opened' <=> Opened)
    BY <1>2 DEF Spent, Opened
  <1>b. Beaten' <=> Beaten
    BY <1>2, <1>4 DEF Beaten
  <1>5. DriverInv'
    BY <1>2, <1>4 DEF DriverInv
  <1>6. /\ x.account = Account /\ x.runs = Emitted + (IF x.phase = "emit" THEN 1 ELSE 0)
        /\ x.runs = 0 => Opened \/ Beaten
    BY <1>1, <1>2 DEF ListenerInv
  <1>7. CASE SubRead(Listener) \/ SubFails(Listener)
    <2>1. queue' = queue /\ x.phase = "due" /\ x.runs = Emitted
      <3>1. x.phase = "due"
        BY <1>1, <1>7 DEF SubRead, SubFails
      <3>2. queue' = queue
        BY <1>1, <3>1 DEF Listen, SubEmit, journeyVars
      <3> QED BY <1>6, <3>1, <3>2, Counts
    <2>2. Emitted' = Emitted /\ Shown(1)' = Shown(1) /\ Shown(2)' = Shown(2)
      BY <1>2, <2>1 DEF Emitted, Taken, Shown
    <2>3. ShownInv'
      BY <1>2, <1>4, <1>b, <2>1, <2>2 DEF ShownInv
    <2>4. Emitted <= 1 /\ (Emitted = 1 => Spent(Account))
      <3>1. x.runs >= 1 => Spent(Account) /\ Work(x) <= 2
        BY <1>1, <1>2, <1>6, <2>1, SecondRunIsCaused
      <3>2. Work(x) >= x.runs + 1 /\ Work(x) \in Int
        BY <1>3, <2>1 DEF Work, Subscription
      <3> QED BY <2>1, <3>1, <3>2, Counts
    <2>5. CASE y = NoSub
      <3>1. ~Live(Listener)'
        BY <1>1, <2>5 DEF Live, NoSub
      <3>2. ~(Emitted' = 2) /\ (step \in {"create", "subscribe"} => Emitted' = 0)
        BY <1>2, <2>2, <2>4, Counts DEF ListenerInv
      <3>3. ListenerInv'
        BY <1>2, <3>1, <3>2 DEF ListenerInv
      <3> QED BY <1>5, <2>3, <3>3
    <2>6. CASE y # NoSub
      <3>1. PICK r, n : r = rows[Account] /\ n = x.runs + 1
        OBVIOUS
      <3>2. y = [x EXCEPT !.phase = "emit", !.got = r, !.runs = n] /\ r # NoRow
        BY <1>1, <1>2, <1>6, <1>7, <2>6, <3>1 DEF SubRead, SubFails, Ran, IInv, TypeOK
      <3>3. y.account = x.account /\ y.phase = "emit" /\ y.got = r /\ y.runs = n
        BY <1>3, <3>2 DEF Subscription
      <3>4. n = Emitted + 1
        BY <2>1, <3>1
      <3>5. n = 1 => r.revision = 0 \/ Beaten
        BY <1>6, <2>1, <3>1, <3>4, Counts DEF Opened
      <3> QED
        BY <1>1, <1>2, <1>4, <1>b, <1>6, <2>2, <2>4, <3>1, <3>3, <3>4, <3>5, <2>3, <1>5, Counts
           DEF ListenerInv, Live
    <2> QED BY <1>5, <2>3, <2>5, <2>6
  <1>8. CASE SubEmit(Listener)
    <2>1. queue' = Append(queue, x.got) /\ x.phase = "emit" /\ x.runs = Emitted + 1
      BY <1>1, <1>2, <1>6, <1>8 DEF Listen, SubRead, SubFails, SubEmit
    <2>2. Emitted <= 1 /\ (Emitted = 1 => Spent(Account))
      <3>1. x.runs >= 2 => Spent(Account) /\ x.runs <= 2
        BY <1>1, <1>2, <1>6, SecondRunIsCaused
      <3> QED BY <2>1, <3>1, Counts
    <2>3. Emitted' = Emitted + 1 /\ queue' \in Seq(Row \cup {NoRow})
      <3>1. queue \in Seq(Row \cup {NoRow}) /\ x.got \in Row \cup {NoRow}
        BY <1>3 DEF ShownInv, Subscription
      <3>2. queue' \in Seq(Row \cup {NoRow}) /\ Len(queue') = Len(queue) + 1
        BY <2>1, <3>1
      <3>3. Taken' = Taken
        BY <1>2 DEF Taken
      <3> QED BY <3>2, <3>3, Counts DEF Emitted
    <2>4. /\ Len(queue') = Len(queue) + 1 /\ queue'[Len(queue) + 1] = x.got
          /\ \A k \in 1..Len(queue) : queue'[k] = queue[k]
      BY <1>3, <2>1 DEF ShownInv, Subscription
    <2>5. /\ Emitted = 0 => x.got.revision = 0 \/ Beaten
          /\ Emitted = 1 => x.got = rows[Account]
      BY <1>1, <1>2, <2>1 DEF ListenerInv
    <2>6. (Shown(1)'.revision = 0 \/ Beaten) /\ (Emitted' >= 2 => Shown(2)' = rows[Account])
      <3>1. CASE Emitted = 0
        <4>1. Len(queue) = 0 /\ Len(seenRows) = 0
          BY <3>1, CountsSum
        <4> QED BY <1>2, <2>3, <2>4, <2>5, <3>1, <4>1 DEF Shown
      <3>2. CASE Emitted = 1
        <4>1. \/ Len(queue) = 1 /\ Len(seenRows) = 0
              \/ Len(queue) = 0 /\ Len(seenRows) = 1
          <5>1. PICK m, n \in Nat : m = Len(queue) /\ n = Len(seenRows) /\ m + n = 1
            BY <3>2, CountsSum
          <5> QED BY <5>1
        <4>2. Shown(1).revision = 0 \/ Beaten
          BY <3>2 DEF ShownInv
        <4>3. /\ Emitted' = 2 /\ Shown(1)' = Shown(1) /\ Shown(2)' = x.got
          BY <1>2, <2>3, <2>4, <3>2, <4>1 DEF Shown
        <4> QED BY <2>5, <3>2, <4>2, <4>3
      <3> QED BY <2>2, <3>1, <3>2, Counts
    <2>7. ShownInv'
      BY <1>2, <1>4, <1>b, <2>2, <2>3, <2>6, Counts DEF ShownInv
    <2>8. ListenerInv'
      <3>1. PICK p \in {"due", "quiet"} : p = IF x.pending THEN "due" ELSE "quiet"
        OBVIOUS
      <3>2. y = [x EXCEPT !.seen = x.got, !.pending = FALSE, !.phase = p]
        BY <1>1, <1>2, <1>8, <3>1 DEF SubEmit, IInv, TypeOK
      <3>3. y.account = x.account /\ y.phase = p /\ y.runs = x.runs
        BY <1>3, <3>2 DEF Subscription
      <3> QED
        BY <1>1, <1>2, <1>4, <1>b, <1>6, <2>1, <2>3, <3>1, <3>3, Counts DEF ListenerInv, Live
    <2> QED BY <1>5, <2>7, <2>8
  <1> QED BY <1>7, <1>8 DEF Listen

(* the journey takes the values in the order of the queue,                 *)
LEMMA TakeKeeps ==
  ASSUME IInv, DriverInv, ShownInv, ListenerInv, Take
  PROVE  DriverInv' /\ ShownInv' /\ ListenerInv'
  <1>1. /\ UNCHANGED <<rows, pc, cmd, sub>> /\ queue # <<>>
        /\ seenRows' = Append(seenRows, Head(queue)) /\ queue' = Tail(queue)
        /\ \/ step = "initial" /\ step' = "first" /\ Len(seenRows) = 0
           \/ step = "committed" /\ step' = "second" /\ Len(seenRows) = 1
    BY DEF Take, vars, reqVars, ShownInv, Seen, Failed
  <1>2. PICK R : R = Row \cup {NoRow}
    OBVIOUS
  <1>3. queue \in Seq(R) /\ seenRows \in Seq(R) /\ Len(queue) \in Nat /\ Len(queue) >= 1
    BY <1>1, <1>2 DEF ShownInv
  <1>4. /\ queue' \in Seq(R) /\ Len(queue') = Len(queue) - 1
        /\ \A k \in 1..Len(queue') : queue'[k] = queue[k + 1]
    BY <1>1, <1>3
  <1>5. /\ seenRows' \in Seq(R) /\ Len(seenRows') = Len(seenRows) + 1
        /\ seenRows'[Len(seenRows) + 1] = queue[1]
        /\ \A k \in 1..Len(seenRows) : seenRows'[k] = seenRows[k]
    <2>1. Head(queue) = queue[1] /\ queue[1] \in R
      BY <1>1, <1>3
    <2> QED BY <1>1, <1>3, <2>1
  <1>6. Emitted' = Emitted /\ Emitted = Len(queue) + Len(seenRows)
    BY <1>1, <1>3, <1>4, <1>5 DEF Emitted, Taken
  <1>7. Emitted >= 1 /\ Shown(1)' = Shown(1) /\ (Emitted >= 2 => Shown(2)' = Shown(2))
    <2>1. CASE Len(seenRows) = 0
      BY <1>3, <1>4, <1>5, <1>6, <2>1 DEF Shown
    <2>2. CASE Len(seenRows) = 1
      BY <1>3, <1>4, <1>5, <1>6, <2>2 DEF Shown
    <2> QED BY <1>1, <2>1, <2>2
  <1>8. (Spent(Account)' <=> Spent(Account)) /\ (Opened' <=> Opened)
    BY <1>1 DEF Spent, Opened
  <1>b. Beaten => Beaten'
    BY <1>1, <1>8 DEF Beaten, Failed
  <1>9. DriverInv'
    BY <1>1, <1>8 DEF DriverInv, CallSteps, JourneySteps, Listening, Withdrawn, Failed
  <1>10. ShownInv'
    <2>1. Len(seenRows') = Seen(step') /\ \A k \in 3..Len(seenRows') : FALSE
      BY <1>1, <1>5 DEF Seen
    <2> QED BY <1>1, <1>2, <1>4, <1>5, <1>6, <1>7, <1>8, <1>b, <2>1 DEF ShownInv
  <1>11. ListenerInv'
    BY <1>1, <1>6, <1>8, <1>b DEF ListenerInv, Live, Listening
  <1> QED BY <1>9, <1>10, <1>11

(* its checks find what they expect,                                       *)
LEMMA ChecksKeep ==
  ASSUME IInv, RunsAreCaused, DriverInv, ShownInv, ListenerInv,
         Deadline \/ Count \/ Parity \/ Stop
  PROVE  DriverInv' /\ ShownInv' /\ ListenerInv'
  <1>1. UNCHANGED <<rows, pc, cmd, sub, queue, seenRows>>
    BY DEF Deadline, Count, Parity, Stop, vars, allVars, journeyVars, reqVars
  <1>2. (Spent(Account)' <=> Spent(Account)) /\ (Opened' <=> Opened)
    BY <1>1 DEF Spent, Opened
  <1>3. \/ step' = step
        \/ step \in {"initial", "committed"} /\ step' = "runtimeFailure"
        \/ step = "count" /\ step' = "clean"
        \/ step = "parity" /\ step' = "done"
    <2>1. CASE Deadline \/ Stop
      BY <2>1 DEF Deadline, Stop, allVars, journeyVars
    <2>2. CASE Count
      <3>1. Emitted = 2
        BY <2>2, Counts DEF Count, ShownInv, Seen, Failed, Emitted, Taken
      <3>2. Live(Listener) /\ sub[Listener].account = Account
        BY <2>2, <3>1 DEF Count, ListenerInv, Listening
      <3>3. sub[Listener].runs = 2 + (IF sub[Listener].phase = "emit" THEN 1 ELSE 0)
        BY <3>1, <3>2 DEF ListenerInv
      <3>4. sub[Listener].runs = 2
        BY <3>2, <3>3, SecondRunIsCaused
      <3> QED BY <2>2, <3>4 DEF Count
    <2>3. CASE Parity
      <3>1. Len(seenRows) = 4 /\ step \notin Failed
        BY <2>3 DEF Parity, ShownInv, Seen, Failed
      <3>2. Emitted >= 2
        BY <3>1, Counts DEF Emitted, Taken
      <3>3. seenRows[2] = rows[Account] /\ seenRows[3] = rows[Account] /\ seenRows[4] = rows[Account]
        BY <3>1, <3>2 DEF ShownInv, Shown
      <3> QED BY <2>3, <3>3 DEF Parity
    <2> QED BY <2>1, <2>2, <2>3
  <1>4. DriverInv'
    BY <1>1, <1>2, <1>3 DEF DriverInv, CallSteps, JourneySteps, Listening, Withdrawn, Failed
  <1>b. Beaten => Beaten'
    BY <1>1, <1>2, <1>3 DEF Beaten, ShownInv, Seen, Failed
  <1>5. ShownInv' /\ ListenerInv'
    BY <1>1, <1>3, <1>b, ShownStays DEF Failed, Seen, Listening
  <1> QED BY <1>4, <1>5

(* and closing the file ends the subscription.                             *)
LEMMA CloseKeeps ==
  ASSUME IInv, DriverInv, ShownInv, ListenerInv, Close
  PROVE  DriverInv' /\ ShownInv' /\ ListenerInv'
  <1> USE JourneyAssumption
  <1>1. /\ rows' = rows /\ UNCHANGED <<queue, seenRows>> /\ step = "close" /\ step' = "reopened"
        /\ pc'[Driver] = "idle" /\ ~Live(Listener)'
    BY DEF Close, Crash, Live, NoSub, vars, JourneyAssumption, DriverInv, CallSteps
  <1>2. Emitted' = Emitted /\ Shown(1)' = Shown(1) /\ Shown(2)' = Shown(2)
    BY <1>1 DEF Emitted, Taken, Shown
  <1>3. (Spent(Account)' <=> Spent(Account)) /\ (Opened' <=> Opened)
    BY <1>1 DEF Spent, Opened
  <1>4. DriverInv'
    BY <1>1, <1>3 DEF DriverInv, CallSteps, JourneySteps, Listening, Withdrawn, Failed
  <1>b. ~Beaten
    BY <1>1 DEF Beaten, Failed
  <1>5. ShownInv'
    BY <1>1, <1>2, <1>3, <1>b DEF ShownInv, Seen, Failed
  <1>6. ListenerInv'
    BY <1>1 DEF ListenerInv, Listening
  <1> QED BY <1>4, <1>5, <1>6

(* A step elsewhere touches neither the driver's request nor its stream;   *)
(* it may open the account, or spend its grant.                            *)
LEMMA OthersLeave ==
  ASSUME IInv, Others
  PROVE  /\ UNCHANGED <<step, queue, seenRows>> /\ step # "clients"
         /\ pc'[Driver] = pc[Driver] /\ cmd'[Driver] = cmd[Driver]
         /\ sub'[Listener] = sub[Listener]
         /\ \/ rows'[Account] = rows[Account]
            \/ ~Spent(Account) /\ rows'[Account] # NoRow
  <1> USE JourneyAssumption DEF JourneyAssumption, IInv, TypeOK, Elsewhere
  <1>1. UNCHANGED <<step, queue, seenRows>> /\ step # "clients"
    BY DEF Others, journeyVars
  <1>2. ASSUME NEW f \in Fibers, Elsewhere(f), Calls(f)
        PROVE  /\ pc'[Driver] = pc[Driver] /\ cmd'[Driver] = cmd[Driver]
               /\ sub' = sub /\ rows' = rows
    BY <1>2 DEF Calls, StartQuery, StartCreate, StartDispatch, Advance
  <1>3. ASSUME NEW f \in Fibers, Elsewhere(f), Progress(f) \/ SqlFails(f)
        PROVE  /\ pc'[Driver] = pc[Driver] /\ cmd'[Driver] = cmd[Driver]
               /\ sub'[Listener] = sub[Listener]
               /\ \/ rows'[Account] = rows[Account]
                  \/ ~Spent(Account) /\ rows'[Account] # NoRow
    <2> USE DEF Goto, Advance, reqVars, Fail, Return, Answer, Rollback
    <2>1. CASE CreateInsert(f)
      BY <1>3, <2>1 DEF CreateInsert, Insert, Spent
    <2>2. CASE Commit(f)
      <3>1. cmd[f].account \in Accounts /\ ~Spent(cmd[f].account)
        BY <2>2 DEF Commit, Spent, TxInv, RequestInv, Reading, TxSteps, Request
      <3>2. rows' = [rows EXCEPT ![cmd[f].account] = Updated(rows[cmd[f].account], next[f])]
        BY <2>2 DEF Commit
      <3>3. Updated(rows[cmd[f].account], next[f]) # NoRow
        <4>1. rows[cmd[f].account] \in Row
          BY <2>2, <3>1 DEF Commit, RequestInv, TxSteps
        <4>2. rows[cmd[f].account].revision + 1 \in Nat /\ next[f] \in Nat
          BY <4>1 DEF Row
        <4> QED BY <4>2, NoneAssumption DEF Updated, Row
      <3>4. /\ pc'[Driver] = pc[Driver] /\ cmd'[Driver] = cmd[Driver] /\ sub' = sub
        BY <1>3, <2>2 DEF Commit
      <3> QED BY <3>1, <3>2, <3>3, <3>4
    <2>3. CASE Publish(f)
      BY <1>3, <2>3 DEF Publish, Invalidate
    <2>4. CASE Query(f) \/ CreateCheck(f) \/ CreateRead(f) \/ Check(f) \/ Begin(f) \/ ReadRow(f)
      BY <1>3, <2>4 DEF Query, CreateCheck, CreateRead, Check, Begin, ReadRow
    <2>5. CASE Refuse(f) \/ Handler(f) \/ Update(f) \/ UpdateFails(f) \/ ReadBack(f) \/ SqlFails(f)
      BY <1>3, <2>5 DEF Refuse, Handler, Update, UpdateFails, ReadBack, SqlFails
    <2> QED BY <1>3, <2>1, <2>2, <2>3, <2>4, <2>5 DEF Progress, Statement
  <1>4. ASSUME NEW s \in Subscribers, Elsewhere(s),
               (\E a \in Accounts : Subscribe(s, a)) \/ SubRead(s) \/ SubFails(s) \/ SubEmit(s)
        PROVE  /\ pc' = pc /\ cmd' = cmd /\ sub'[Listener] = sub[Listener] /\ rows' = rows
    BY <1>4 DEF Subscribe, SubRead, SubFails, SubEmit, reqVars
  <1>5. ASSUME NEW p \in Procs \ {Home[Driver]}, Crash(p)
        PROVE  /\ pc'[Driver] = pc[Driver] /\ cmd'[Driver] = cmd[Driver]
               /\ sub'[Listener] = sub[Listener] /\ rows' = rows
    BY <1>5 DEF Crash
  <1> QED BY <1>1, <1>2, <1>3, <1>4, <1>5 DEF Others

(* and it keeps what the journey knows, or beats it.                       *)
LEMMA OthersKeep ==
  ASSUME IInv, IInv', RunsAreCaused, DriverInv, ShownInv, ListenerInv, Others
  PROVE  DriverInv' /\ ShownInv' /\ ListenerInv'
  <1>1. Account \in Accounts /\ Driver \in Fibers
    BY JourneyAssumption DEF JourneyAssumption
  <1>2. Emitted' = Emitted /\ Shown(1)' = Shown(1) /\ Shown(2)' = Shown(2)
    BY OthersLeave DEF Emitted, Taken, Shown
  <1>3. Spent(Account) => rows'[Account] = rows[Account] /\ Spent(Account)'
    BY OthersLeave DEF Spent
  <1>4. rows[Account] # NoRow => rows'[Account] # NoRow
    BY OthersLeave
  <1>5. Beaten => Beaten'
    BY OthersLeave, <1>3 DEF Beaten
  <1>6. DriverInv'
    BY OthersLeave, <1>3, <1>4 DEF DriverInv
  <1>7. ShownInv'
    <2>1. step \notin Failed /\ Len(seenRows) >= 3 => Spent(Account)
      BY Counts DEF ShownInv, Emitted, Taken
    <2>2. step \notin Failed => \A k \in 3..Len(seenRows) : seenRows[k] = rows'[Account]
      BY <1>3, <2>1, Counts DEF ShownInv
    <2>3. Emitted >= 2 => Shown(2) = rows'[Account] /\ Spent(Account)'
      BY <1>3 DEF ShownInv
    <2> QED BY OthersLeave, <1>2, <1>5, <2>2, <2>3 DEF ShownInv
  <1>8. ListenerInv'
    <2>1. Live(Listener)' <=> Live(Listener)
      BY OthersLeave DEF Live
    <2>2. Live(Listener) /\ sub[Listener].runs = 0 => Opened' \/ Beaten'
      <3> SUFFICES ASSUME Live(Listener), sub[Listener].runs = 0, ~Beaten PROVE Opened' \/ Beaten'
        BY <1>5
      <3>1. Opened
        BY DEF ListenerInv
      <3>2. Opened' \/ Spent(Account)'
        <4>1. PICK r \in Row : r = rows'[Account]
          BY <1>1, <1>4, <3>1 DEF IInv, TypeOK, Opened
        <4>2. r.revision \in Nat /\ r.remainingUses \in 0..1 /\ r.revision + r.remainingUses = 1
          BY <1>1, <1>4, <3>1, <4>1 DEF IInv, GrantUsedOnce, Row, Opened
        <4>3. r.revision = 0 \/ r.remainingUses = 0
          BY <4>2
        <4> QED BY <1>4, <3>1, <4>1, <4>3 DEF Opened, Spent
      <3>3. ~Spent(Account)
        BY <1>1, <3>1 DEF IInv, TypeOK, GrantUsedOnce, Row, Opened, Spent
      <3>4. step \notin Withdrawn /\ step \in JourneySteps
        BY <3>3 DEF DriverInv
      <3>5. Emitted = 0
        BY <3>1, Counts DEF ListenerInv
      <3>6. Len(seenRows) < 2
        BY <3>5, Counts DEF Emitted, Taken
      <3>7. pc[Driver] \notin Committed
        <4> SUFFICES ASSUME pc[Driver] \in Committed PROVE FALSE
          OBVIOUS
        <4>1. cmd[Driver].account = Account
          BY DEF DriverInv, Committed
        <4> QED BY <1>1, <3>1, <3>3, <4>1 DEF IInv, RequestInv, Opened, Spent
      <3>8. step \in Failed \/ step \in {"create", "subscribe", "initial", "first"}
        BY <3>4 DEF JourneySteps, Withdrawn, Listening
      <3> QED BY OthersLeave, <3>2, <3>6, <3>7, <3>8 DEF Beaten
    <2>3. Live(Listener) /\ sub[Listener].phase = "emit" /\ sub[Listener].runs = 2
            => rows'[Account] = rows[Account]
      <3> SUFFICES ASSUME Live(Listener), sub[Listener].phase = "emit", sub[Listener].runs = 2
                   PROVE  rows'[Account] = rows[Account]
        OBVIOUS
      <3>1. sub[Listener].account = Account
        BY DEF ListenerInv
      <3>2. Spent(Account)
        BY <3>1, SecondRunIsCaused
      <3> QED BY <1>3, <3>2
    <2> QED BY OthersLeave, <1>2, <1>5, <2>1, <2>2, <2>3 DEF ListenerInv
  <1> QED BY <1>6, <1>7, <1>8

(* Every step of the journey and of the other clients keeps it.            *)
LEMMA NextJInv ==
  ASSUME IInv, IInv', RunsAreCaused, JInv, [JNext \/ Others \/ ServeClients]_allVars
  PROVE  JInv'
  <1>1. CASE step = "clients"
    <2>1. ~JNext /\ ~Others
      BY <1>1 DEF Others, JNext, Call, Serve, Open, Listen, Take, Deadline, Count, Close, Parity, Stop,
         Calling, Failed
    <2> QED BY <1>1, <2>1 DEF ServeClients, journeyVars, allVars, JInv
  <1>2. CASE step # "clients"
    <2>1. DriverInv /\ ShownInv /\ ListenerInv
      BY <1>2 DEF JInv
    <2>2. DriverInv' /\ ShownInv' /\ ListenerInv'
      <3>1. JNext \/ Others \/ UNCHANGED allVars
        BY <1>2 DEF ServeClients
      <3>2. CASE UNCHANGED allVars
        <4>1. DriverInv'
          BY <2>1, <3>2 DEF allVars, vars, journeyVars, reqVars, DriverInv, Spent
        <4>2. Beaten' <=> Beaten
          BY <3>2 DEF allVars, vars, journeyVars, reqVars, Beaten, Spent
        <4> QED BY <2>1, <3>2, <4>1, <4>2, ShownStays DEF allVars, vars, journeyVars
      <3> QED
        BY <2>1, <3>1, <3>2, CallKeeps, ServeKeeps, OpenKeeps, ListenKeeps, TakeKeeps,
           ChecksKeep, CloseKeeps, OthersKeep DEF JNext
    <2>3. step' # "clients"
      BY <2>2 DEF DriverInv, JourneySteps, Listening, Withdrawn, Failed
    <2> QED BY <2>2, <2>3 DEF JInv
  <1> QED BY <1>1, <1>2

(* The journey's own checks never fail, whatever clients of the same file  *)
(* do in other processes meanwhile: when the second withdrawal is refused  *)
(* the subscription's query has run exactly twice, its two snapshots are   *)
(* the opened and the withdrawn account in this order, and the queries     *)
(* before and after the file is reopened agree with them.                  *)
THEOREM JourneySucceeds == JSpec => []JourneyChecksHold
  <1>1. JInit \/ (Init /\ step = "clients" /\ queue = <<>> /\ seenRows = <<>>) => JInv
    <2>1. ASSUME JInit PROVE DriverInv /\ ShownInv /\ ListenerInv /\ step # "clients"
      <3>1. /\ step = "create" /\ queue = <<>> /\ seenRows = <<>> /\ pc[Driver] = "idle"
            /\ ~Live(Listener)
        BY <2>1, JourneyAssumption DEF JInit, Init, JourneyAssumption, Live, NoSub
      <3>2. Emitted = 0
        BY <3>1 DEF Emitted, Taken
      <3>3. ShownInv
        BY <3>1, <3>2 DEF ShownInv, Seen
      <3> QED
        BY <3>1, <3>2, <3>3 DEF DriverInv, CallSteps, JourneySteps, Withdrawn, ListenerInv, Listening
    <2> QED BY <2>1 DEF JInv
  <1>2. ASSUME IInv, JInv PROVE JourneyChecksHold
    <2>1. CASE step = "clients"
      BY <1>2, <2>1 DEF JInv, JourneyChecksHold, SnapshotsInOrder
    <2>2. CASE step # "clients"
      <3>1. DriverInv /\ ShownInv
        BY <1>2, <2>2 DEF JInv
      <3>2. Len(seenRows) >= 2 => seenRows[1].revision = 0
        <4> SUFFICES ASSUME Len(seenRows) >= 2 PROVE seenRows[1].revision = 0
          OBVIOUS
        <4>1. ~Beaten
          <5>1. step \in {"create", "subscribe", "initial", "first"} => Len(seenRows) \in {0, 1}
            BY <3>1 DEF ShownInv, Seen, Failed
          <5>2. PICK n \in Nat : n = Len(seenRows) /\ n >= 2
            BY <3>1, Counts
          <5>3. ~(n < 2) /\ n \notin {0, 1}
            BY <5>2
          <5> QED BY <5>1, <5>2, <5>3 DEF Beaten
        <4> QED BY <3>1, <4>1, Counts DEF ShownInv, Shown, Emitted, Taken
      <3>3. Len(seenRows) >= 2 => seenRows[2].revision = 1
        <4> SUFFICES ASSUME Len(seenRows) >= 2 PROVE seenRows[2].revision = 1
          OBVIOUS
        <4>1. Emitted >= 2
          BY <3>1, Counts DEF Emitted, Taken
        <4>2. seenRows[2] = rows[Account] /\ Spent(Account)
          BY <3>1, <4>1 DEF ShownInv, Shown
        <4> QED
          BY <1>2, <4>2, JourneyAssumption
             DEF Spent, IInv, TypeOK, GrantUsedOnce, Row, JourneyAssumption
      <3>4. Len(queue) + (IF Len(seenRows) > 2 THEN 2 ELSE Len(seenRows)) <= 2
        BY <3>1 DEF ShownInv, Emitted, Taken
      <3>5. step \notin {"concurrencyFailure", "parityFailure"}
        BY <3>1 DEF DriverInv
      <3> QED
        BY <3>2, <3>3, <3>4, <3>5 DEF JourneyChecksHold, SnapshotsInOrder
    <2> QED BY <2>1, <2>2
  <1>3. JSpec => []IInv /\ []RunsAreCaused
    BY JourneyRunsTheService, SubsInvariance, PTL
  <1> QED BY <1>1, <1>2, <1>3, NextJInv, PTL DEF JSpec
=============================================================================
