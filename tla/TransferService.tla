--------------------------- MODULE TransferService ---------------------------
(***************************************************************************)
(* The M027 transfer service: fibers of one or several processes call      *)
(* M027DatabaseProvider on one SQLite file.  A transfer reads two rows,    *)
(* calls an independent handler, checks its result against the transfer    *)
(* obligation and updates both rows in one transaction; it then publishes  *)
(* three reactivity keys and answers with three further reads.             *)
(*                                                                         *)
(* SQLite and Effect's SqlClient and Reactivity are external, with the     *)
(* locking and the snapshots that SemanticDatabase describes.              *)
(***************************************************************************)
EXTENDS Integers, FiniteSetsExt

CONSTANTS
  Accounts,        \* account identities
  Procs,           \* processes: one provider layer, one connection each
  Fibers,          \* callers of the provider
  Watchers,        \* consumers of subscribeAccount and subscribeTotal
  Home,            \* the process a fiber or a watcher runs in
  OpeningBalances, \* the initialBalance values callers pass
  Amounts,         \* the transfer amounts callers pass
  HandlerResults,  \* the pairs <<source after, target after>> a handler returns
  MaxRevision,     \* bound: no transfer starts from or to a row of this revision
  TotalKey, NoRow, None

ASSUME CallersAssumption ==
  /\ Home \in [Fibers \cup Watchers -> Procs]
  /\ OpeningBalances \subseteq Int /\ Amounts \subseteq Int
  /\ HandlerResults \subseteq Int \X Int
  /\ MaxRevision \in Nat

Rejections == {"identical-account", "nonpositive-amount", "overdraft"}
Failures   == {"missing", "duplicate", "unavailable", "corruption",
               "handler", "conformance", "invariant", "sql"}

Row    == [balance : Nat, revision : Nat]
Topics == Accounts \cup {TotalKey}

ASSUME NoneAssumption ==
  /\ TotalKey \notin Accounts
  /\ NoRow \notin Row /\ NoRow \notin Nat
  /\ None \notin Fibers \cup Procs \cup Rejections \cup Failures

VARIABLES
  rows,    \* committed table: the row of each account, or NoRow
  opened,  \* history: the opening balance of each account, or NoRow
  wlock,   \* the process whose transaction holds SQLite's write lock
  conn,    \* conn[p]: the fiber whose transaction holds p's connection
  fresh,   \* the transactions whose snapshot is the latest committed state
  pc,      \* the next step of each fiber
  req,     \* the request of each fiber
  tx,      \* the rows a transfer has read, the balances it writes, the rows it shows
  moved,   \* history: the fibers whose current request has committed a transfer
  reply,   \* the reply the last step delivered, if it delivered one
  sub      \* the subscriptions

txVars == <<wlock, conn, fresh>>
vars == <<rows, opened, txVars, pc, req, tx, moved, reply, sub>>

TxSteps    == {"read", "handler", "updateSource", "updateTarget", "commit"}
Holding    == {"handler", "updateSource", "updateTarget", "commit"}
AfterSteps == {"publish", "readTarget", "readSource", "readTotal"}
Steps == TxSteps \cup AfterSteps
           \cup {"idle", "query", "createCheck", "createInsert",
                 "createPublish", "createRead", "begin"}

NoSub   == [phase |-> "off"]
Live(w) == sub[w].phase # "off"
-----------------------------------------------------------------------------
Init ==
  /\ rows   = [a \in Accounts |-> NoRow]
  /\ opened = [a \in Accounts |-> NoRow]
  /\ wlock  = None
  /\ conn   = [p \in Procs |-> None]
  /\ fresh  = {}
  /\ pc     = [f \in Fibers |-> "idle"]
  /\ req    = [f \in Fibers |-> None]
  /\ tx     = [f \in Fibers |-> None]
  /\ moved  = {}
  /\ reply  = None
  /\ sub    = [w \in Watchers |-> NoSub]

Existing == {a \in Accounts : rows[a] # NoRow}

Balances == [a \in Existing |-> rows[a].balance]

(* The derived observation: one statement reads every row. *)
TotalFunds ==
  [revision |-> Max({0} \cup {rows[a].revision : a \in Existing}),
   total    |-> SumFunction(Balances)]

Observe(topic) == IF topic = TotalKey THEN TotalFunds ELSE rows[topic]

ConnFree(f) == conn[Home[f]] = None

Goto(f, step) == pc' = [pc EXCEPT ![f] = step] /\ reply' = None

Answer(f, outcome, seen) ==
  /\ reply' = [req |-> req[f], outcome |-> outcome, seen |-> seen,
               moved |-> f \in moved]
  /\ pc'    = [pc EXCEPT ![f] = "idle"]
  /\ req'   = [req EXCEPT ![f] = None]
  /\ tx'    = [tx EXCEPT ![f] = None]
  /\ moved' = moved \ {f}

Fail(f, outcome) == Answer(f, outcome, None)

Rollback(f, outcome) ==
  /\ conn'  = [conn EXCEPT ![Home[f]] = None]
  /\ fresh' = fresh \ {f}
  /\ wlock' = IF wlock = Home[f] THEN None ELSE wlock
  /\ Fail(f, outcome)
  /\ UNCHANGED <<rows, opened, sub>>

Start(f, step, r) ==
  /\ pc[f] = "idle"
  /\ req' = [req EXCEPT ![f] = r]
  /\ Goto(f, step)
  /\ UNCHANGED <<rows, opened, txVars, tx, moved, sub>>
-----------------------------------------------------------------------------
(* provider.query, provider.account and provider.total: one statement. *)
StartQuery(f, topic) == Start(f, "query", [topic |-> topic])

Query(f) ==
  LET seen == Observe(req[f].topic) IN
  /\ pc[f] = "query" /\ ConnFree(f)
  /\ IF seen = NoRow THEN Fail(f, "missing")
                     ELSE Answer(f, "ok", [topic |-> req[f].topic, value |-> seen])
  /\ UNCHANGED <<rows, opened, txVars, sub>>

(* provider.create: an existence check, an INSERT in a transaction of its  *)
(* own that is a mutation of two keys, and a query.                        *)
StartCreate(f, a, b) == Start(f, "createCheck", [account |-> a, value |-> b])

CreateCheck(f) ==
  /\ pc[f] = "createCheck" /\ ConnFree(f)
  /\ IF rows[req[f].account] # NoRow
     THEN Fail(f, "duplicate")
     ELSE Goto(f, "createInsert") /\ UNCHANGED <<req, tx, moved>>
  /\ UNCHANGED <<rows, opened, txVars, sub>>

(* Faulty variant: the row is replaced when it exists. *)
InsertReplaces(a, b) == b < 0 \/ wlock # None

InsertRefused(a, b) == b < 0 \/ rows[a] # NoRow \/ wlock # None

CreateInsert(f) ==
  LET a == req[f].account
      b == req[f].value IN
  /\ pc[f] = "createInsert" /\ ConnFree(f)
  /\ IF InsertRefused(a, b)
     THEN Fail(f, "unavailable") /\ UNCHANGED <<rows, opened, fresh>>
     ELSE /\ rows'   = [rows EXCEPT ![a] = [balance |-> b, revision |-> 0]]
          /\ opened' = [opened EXCEPT ![a] = b]
          /\ fresh'  = {}
          /\ Goto(f, "createPublish")
          /\ UNCHANGED <<req, tx, moved>>
  /\ UNCHANGED <<wlock, conn, sub>>

(* An invalidation reaches the subscriptions of the process to these keys; *)
(* a query that is running is run once more.                               *)
Invalidate(f, keys) == sub' = [w \in Watchers |->
  IF ~(Live(w) /\ Home[w] = Home[f] /\ sub[w].topic \in keys) THEN sub[w]
  ELSE IF sub[w].phase = "quiet" THEN [sub[w] EXCEPT !.phase = "due"]
  ELSE [sub[w] EXCEPT !.pending = TRUE]]

CreateKeys(r) == {r.account, TotalKey}

CreatePublish(f) ==
  /\ pc[f] = "createPublish"
  /\ Invalidate(f, CreateKeys(req[f]))
  /\ Goto(f, "createRead")
  /\ UNCHANGED <<rows, opened, txVars, req, tx, moved>>

CreateRead(f) ==
  /\ pc[f] = "createRead" /\ ConnFree(f)
  /\ Answer(f, "ok", [topic |-> req[f].account, value |-> rows[req[f].account]])
  /\ UNCHANGED <<rows, opened, txVars, sub>>
-----------------------------------------------------------------------------
(* provider.transfer *)
StartTransfer(f, a, b, n) ==
  /\ \A x \in {a, b} \cap Existing : rows[x].revision < MaxRevision
  /\ Start(f, "begin", [source |-> a, target |-> b, amount |-> n])

Begin(f) ==
  /\ pc[f] = "begin" /\ ConnFree(f)
  /\ conn' = [conn EXCEPT ![Home[f]] = f]
  /\ Goto(f, "read")
  /\ UNCHANGED <<rows, opened, wlock, fresh, req, tx, moved, sub>>

(* The refusals before the handler, in the order of the code. *)
Refusal(r) ==
  IF NoRow \in {rows[r.source], rows[r.target]} THEN "corruption"
  ELSE IF r.source = r.target THEN "identical-account"
  ELSE IF r.amount <= 0 THEN "nonpositive-amount"
  ELSE IF rows[r.source].balance < r.amount THEN "overdraft"
  ELSE None

(* Both rows come from the snapshot the first of the two reads takes. *)
ReadPair(f) ==
  LET r == req[f] IN
  /\ pc[f] = "read" /\ Refusal(r) = None
  /\ tx' = [tx EXCEPT ![f] =
       [source |-> rows[r.source], target |-> rows[r.target], after |-> <<0, 0>>,
        shownTarget |-> NoRow, shownSource |-> NoRow]]
  /\ fresh' = fresh \cup {f}
  /\ Goto(f, "handler")
  /\ UNCHANGED <<rows, opened, wlock, conn, req, moved, sub>>

(* Faulty variants: a rejected command keeps its transaction; it publishes *)
(* its keys.                                                               *)
RefuseKeepsTransaction(f) ==
  /\ pc[f] = "read" /\ Refusal(req[f]) # None
  /\ Fail(f, Refusal(req[f]))
  /\ UNCHANGED <<rows, opened, txVars, sub>>

RefusePublishes(f) ==
  /\ pc[f] = "read" /\ Refusal(req[f]) # None
  /\ conn' = [conn EXCEPT ![Home[f]] = None]
  /\ Invalidate(f, {req[f].source, req[f].target, TotalKey})
  /\ Fail(f, Refusal(req[f]))
  /\ UNCHANGED <<rows, opened, wlock, fresh>>

Refuse(f) ==
  /\ pc[f] = "read" /\ Refusal(req[f]) # None
  /\ Rollback(f, Refusal(req[f]))

(* Faulty variant: only the equation of the target is evaluated. *)
ObligationTarget(t, n, after) == after[2] = t.target.balance + n

(* The transfer equations and the preserved total, in exact integers. *)
Obligation(t, n, after) ==
  /\ after[1] = t.source.balance - n
  /\ after[2] = t.target.balance + n
  /\ after[1] + after[2] = t.source.balance + t.target.balance

(* The handler may fail or return any pair of balances. *)
HandlerFails(f) == pc[f] = "handler" /\ Rollback(f, "handler")

Handler(f) ==
  /\ pc[f] = "handler"
  /\ \E after \in HandlerResults :
       IF ~Obligation(tx[f], req[f].amount, after) THEN Rollback(f, "conformance")
       ELSE IF after[1] < 0 \/ after[2] < 0 THEN Rollback(f, "invariant")
       ELSE /\ tx' = [tx EXCEPT ![f].after = after]
            /\ Goto(f, "updateSource")
            /\ UNCHANGED <<rows, opened, txVars, req, moved, sub>>

(* The first write needs a snapshot that is still current and the lock;    *)
(* each UPDATE matches the revision its row was read with.                 *)
CanWrite(f) == f \in fresh /\ wlock \in {None, Home[f]}

UpdateSource(f) ==
  /\ pc[f] = "updateSource" /\ CanWrite(f)
  /\ wlock' = Home[f]
  /\ Goto(f, "updateTarget")
  /\ UNCHANGED <<rows, opened, conn, fresh, req, tx, moved, sub>>

UpdateTarget(f) ==
  /\ pc[f] = "updateTarget"
  /\ Goto(f, "commit")
  /\ UNCHANGED <<rows, opened, txVars, req, tx, moved, sub>>

UpdateFails(f) ==
  /\ pc[f] = "updateSource" /\ ~CanWrite(f)
  /\ Rollback(f, "sql")

Updated(r, b) == [balance |-> b, revision |-> r.revision + 1]

Commit(f) ==
  LET r == req[f] IN
  /\ pc[f] = "commit"
  /\ rows' = [rows EXCEPT ![r.source] = Updated(rows[r.source], tx[f].after[1]),
                          ![r.target] = Updated(rows[r.target], tx[f].after[2])]
  /\ wlock' = None
  /\ conn'  = [conn EXCEPT ![Home[f]] = None]
  /\ fresh' = {}
  /\ moved' = moved \cup {f}
  /\ Goto(f, "publish")
  /\ UNCHANGED <<opened, req, tx, sub>>

(* Faulty variant: the total is not among the keys of the mutation. *)
TransferKeysWithoutTotal(r) == {r.source, r.target}

TransferKeys(r) == {r.source, r.target, TotalKey}

Publish(f) ==
  /\ pc[f] = "publish"
  /\ Invalidate(f, TransferKeys(req[f]))
  /\ Goto(f, "readTarget")
  /\ UNCHANGED <<rows, opened, txVars, req, tx, moved>>

(* The answer is three statements after the transaction, outside it. *)
ReadTarget(f) ==
  /\ pc[f] = "readTarget" /\ ConnFree(f)
  /\ tx' = [tx EXCEPT ![f].shownTarget = rows[req[f].target]]
  /\ Goto(f, "readSource")
  /\ UNCHANGED <<rows, opened, txVars, req, moved, sub>>

(* Faulty variant: the source is shown as the transaction has read it. *)
ReadSourceStale(f) ==
  /\ pc[f] = "readSource" /\ ConnFree(f)
  /\ tx' = [tx EXCEPT ![f].shownSource = tx[f].source]
  /\ Goto(f, "readTotal")
  /\ UNCHANGED <<rows, opened, txVars, req, moved, sub>>

ReadSource(f) ==
  /\ pc[f] = "readSource" /\ ConnFree(f)
  /\ tx' = [tx EXCEPT ![f].shownSource = rows[req[f].source]]
  /\ Goto(f, "readTotal")
  /\ UNCHANGED <<rows, opened, txVars, req, moved, sub>>

ReadTotal(f) ==
  /\ pc[f] = "readTotal" /\ ConnFree(f)
  /\ Answer(f, "ok", [topic |-> TotalKey, value |-> TotalFunds, transfer |-> tx[f]])
  /\ UNCHANGED <<rows, opened, txVars, sub>>

(* Faulty variant: the first read after the COMMIT belongs to the           *)
(* transaction's error mapping.                                            *)
InTransactionLate(f) == pc[f] \in TxSteps \cup {"readTarget"}

InTransaction(f) == pc[f] \in TxSteps

(* Any statement may fail with a SqlError. *)
SqlFails(f) ==
  /\ pc[f] \notin {"idle", "handler", "publish", "createPublish"}
  /\ IF InTransaction(f) THEN Rollback(f, "sql")
     ELSE /\ ConnFree(f)
          /\ Fail(f, "unavailable")
          /\ UNCHANGED <<rows, opened, txVars, sub>>
-----------------------------------------------------------------------------
(* subscribeAccount, subscribeTotal: Reactivity runs the query when the    *)
(* stream is registered and once more for the invalidations meanwhile.     *)
SetSub(w, s) ==
  /\ sub' = [sub EXCEPT ![w] = s]
  /\ reply' = None
  /\ UNCHANGED <<rows, opened, txVars, pc, req, tx, moved>>

Subscribe(w, topic) ==
  /\ ~Live(w)
  /\ SetSub(w, [phase |-> "due", topic |-> topic, pending |-> FALSE,
                got |-> NoRow, seen |-> NoRow])

SubRead(w) ==
  LET value == Observe(sub[w].topic) IN
  /\ sub[w].phase = "due" /\ conn[Home[w]] = None
  /\ SetSub(w, IF value = NoRow THEN NoSub
               ELSE [sub[w] EXCEPT !.phase = "emit", !.got = value])

SubFails(w) ==
  /\ sub[w].phase = "due" /\ conn[Home[w]] = None
  /\ SetSub(w, NoSub)

(* Faulty variant: an invalidation that arrived meanwhile is forgotten. *)
SubEmitForgets(w) ==
  /\ sub[w].phase = "emit"
  /\ SetSub(w, [sub[w] EXCEPT !.seen = sub[w].got, !.pending = FALSE,
                              !.phase = "quiet"])

SubEmit(w) ==
  /\ sub[w].phase = "emit"
  /\ SetSub(w, [sub[w] EXCEPT !.seen = sub[w].got, !.pending = FALSE,
                   !.phase = IF sub[w].pending THEN "due" ELSE "quiet"])

(* A process dies: its transaction is rolled back, nobody is answered. *)
Crash(p) ==
  LET dead == {f \in Fibers : Home[f] = p} IN
  /\ \E f \in dead : pc[f] # "idle"
  /\ conn'  = [conn EXCEPT ![p] = None]
  /\ wlock' = IF wlock = p THEN None ELSE wlock
  /\ fresh' = fresh \ dead
  /\ pc'    = [f \in Fibers |-> IF f \in dead THEN "idle" ELSE pc[f]]
  /\ req'   = [f \in Fibers |-> IF f \in dead THEN None ELSE req[f]]
  /\ tx'    = [f \in Fibers |-> IF f \in dead THEN None ELSE tx[f]]
  /\ moved' = moved \ dead
  /\ reply' = None
  /\ sub'   = [w \in Watchers |-> IF Home[w] = p THEN NoSub ELSE sub[w]]
  /\ UNCHANGED <<rows, opened>>
-----------------------------------------------------------------------------
Calls(f) ==
  \/ \E topic \in Topics : StartQuery(f, topic)
  \/ \E a \in Accounts : \E b \in OpeningBalances : StartCreate(f, a, b)
  \/ \E a, b \in Accounts : \E n \in Amounts : StartTransfer(f, a, b, n)

Progress(f) ==
  \/ Query(f) \/ CreateCheck(f) \/ CreateInsert(f) \/ CreatePublish(f)
  \/ CreateRead(f) \/ Begin(f) \/ ReadPair(f) \/ Refuse(f) \/ Handler(f)
  \/ UpdateSource(f) \/ UpdateTarget(f) \/ UpdateFails(f) \/ Commit(f)
  \/ Publish(f) \/ ReadTarget(f) \/ ReadSource(f) \/ ReadTotal(f)

Next ==
  \/ \E f \in Fibers : Calls(f) \/ Progress(f) \/ HandlerFails(f) \/ SqlFails(f)
  \/ \E w \in Watchers : \/ \E topic \in Topics : Subscribe(w, topic)
                         \/ SubRead(w) \/ SubFails(w) \/ SubEmit(w)
  \/ \E p \in Procs : Crash(p)

Spec == Init /\ [][Next]_vars

-----------------------------------------------------------------------------
(* What a fiber is asked, the pair of rows a transfer works on, and the    *)
(* two rows it answers with.                                               *)
Queries   == [topic : Topics]
Creates   == [account : Accounts, value : Int]
Transfers == [source : Accounts, target : Accounts, amount : Int]
Requests  == Queries \cup Creates \cup Transfers
Pairs     == [source : Row, target : Row, after : Int \X Int,
              shownTarget : Row \cup {NoRow}, shownSource : Row \cup {NoRow}]

TypeOK ==
  /\ rows \in [Accounts -> Row \cup {NoRow}]
  /\ opened \in [Accounts -> Nat \cup {NoRow}]
  /\ wlock \in Procs \cup {None}
  /\ conn \in [Procs -> Fibers \cup {None}]
  /\ fresh \subseteq Fibers /\ moved \subseteq Fibers
  /\ pc \in [Fibers -> Steps]
  /\ req \in [Fibers -> Requests \cup {None}]
  /\ tx \in [Fibers -> Pairs \cup {None}]
  /\ reply = None \/ /\ reply.req \in Requests
                     /\ reply.outcome \in Rejections \cup Failures \cup {"ok"}

(* The money in the table is the money the accounts were opened with,      *)
(* whatever handlers return and however transfers of several processes     *)
(* interleave, fail or die (dispatchTransfer's obligation check and its    *)
(* two conditional updates in one transaction).                            *)
OpenedFunds == SumFunctionOnSet(opened, {a \in Accounts : opened[a] # NoRow})

FundsConserved == SumFunction(Balances) = OpenedFunds

(* A transfer that is answered with a success has been committed; one      *)
(* answered with a rejection, a refused handler result or a failure inside *)
(* the transaction has not, although the answer is given long after.       *)
IsTransfer(r) == "amount" \in DOMAIN r

OutcomeTellsTruth ==
  (reply # None /\ IsTransfer(reply.req)) =>
    /\ reply.outcome = "ok" => reply.moved
    /\ reply.outcome \notin {"ok", "unavailable"} => ~reply.moved

(* The answer of a transfer is read in three statements after its COMMIT,  *)
(* when other fibers and processes may have moved money again: each row it *)
(* shows is past the one the transaction read, and where it is the         *)
(* transaction's own, it has the balance the handler was granted; the      *)
(* total, read last, is no older than either row (dispatchTransfer, then   *)
(* query, query and total in provider.transfer).                           *)
ShowsWrite(shown, read, balance) ==
  /\ shown.revision > read.revision
  /\ shown.revision = read.revision + 1 => shown.balance = balance

AnswersShowTheTransfer ==
  (reply # None /\ IsTransfer(reply.req) /\ reply.outcome = "ok") =>
    LET t == reply.seen.transfer IN
    /\ ShowsWrite(t.shownTarget, t.target, t.after[2])
    /\ ShowsWrite(t.shownSource, t.source, t.after[1])
    /\ reply.seen.value.revision >= t.shownTarget.revision
    /\ reply.seen.value.revision >= t.shownSource.revision

(* In one process a subscription at rest shows the committed value of its  *)
(* topic, the total included, unless a fiber is between its COMMIT and its *)
(* publication.                                                            *)
Unpublished(f, topic) ==
  \/ pc[f] = "publish" /\ topic \in {req[f].source, req[f].target, TotalKey}
  \/ pc[f] = "createPublish" /\ topic \in {req[f].account, TotalKey}

QuietIsCurrent == \A w \in Watchers :
  sub[w].phase = "quiet" => \/ sub[w].seen = Observe(sub[w].topic)
                           \/ \E f \in Fibers : Unpublished(f, sub[w].topic)

(* The design document's sentence "A rejected or failed transfer changes   *)
(* neither account": a transfer that did not succeed has committed         *)
(* nothing.                                                                *)
FailedTransferChangesNothing ==
  (reply # None /\ reply.outcome # "ok") => ~reply.moved

(* The service implements the bank: COMMIT moves money between two         *)
(* accounts, an INSERT opens one, and nothing else changes a balance.      *)
Abstract == INSTANCE Bank WITH
  balance <- [a \in Accounts |-> IF rows[a] = NoRow THEN NoRow ELSE rows[a].balance]
MovesMoney == Abstract!Spec
=============================================================================
