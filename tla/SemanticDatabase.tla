-------------------------- MODULE SemanticDatabase --------------------------
(***************************************************************************)
(* The M026 data service: fibers of one or several processes call          *)
(* M026DatabaseProvider on one SQLite file.  Each process has one          *)
(* connection, which a transaction holds from BEGIN to COMMIT or ROLLBACK  *)
(* and a single statement uses alone; the write lock belongs to the file.  *)
(* A command commits first and publishes the invalidation of its account   *)
(* afterwards; a process may die at any point in between.                  *)
(*                                                                         *)
(* SQLite and Effect's SqlClient and Reactivity are external: modelled     *)
(* from how semantic-database-runtime.ts uses them.                        *)
(***************************************************************************)
EXTENDS Integers, FiniteSets

CONSTANTS
  Accounts,        \* account identities
  Procs,           \* processes: one provider layer, one connection each
  Fibers,          \* callers of the provider
  Subscribers,     \* consumers of provider.subscribe
  Home,            \* the process a fiber or a subscriber runs in
  OpeningBalances, \* the initialBalance values callers pass
  Amounts,         \* the withdrawal amounts callers pass
  HandlerBalances, \* the next balances the independent handler may return
  NoRow, None

ASSUME CallersAssumption ==
  /\ Home \in [Fibers \cup Subscribers -> Procs]
  /\ OpeningBalances \subseteq Int
  /\ Amounts \subseteq Int
  /\ HandlerBalances \subseteq Int

Row == [balance : Nat, revision : Nat, remainingUses : 0..1]
Outcome == {"ok", "missing", "duplicate", "disabled", "unavailable"}
Reply == [outcome : Outcome, account : Accounts, row : Row \cup {NoRow}]

ASSUME NoneAssumption ==
  /\ NoRow \notin Row
  /\ None \notin Fibers \cup Procs \cup [account : Accounts, value : Int] \cup Reply

VARIABLES
  rows,    \* committed table: the row of each account, or NoRow
  wlock,   \* the process whose transaction holds SQLite's write lock
  conn,    \* conn[p]: the fiber whose transaction holds p's connection
  fresh,   \* the transactions whose snapshot is the latest committed state
  pc,      \* the next step of each fiber
  cmd,     \* the request of each fiber
  row,     \* the row a fiber's transaction has read
  next,    \* the balance the handler computed for a fiber
  reply,   \* the reply the last step delivered, if it delivered one
  acked,   \* history: the summaries successful withdrawals returned
  sub      \* the subscriptions

txVars  == <<wlock, conn, fresh>>
reqVars == <<cmd, row, next>>
vars == <<rows, txVars, pc, reqVars, reply, acked, sub>>

Request == [account : Accounts, value : Int]
TxSteps == {"txRead", "handler", "update", "commit"}
Reading == {"handler", "update", "commit"}
Committed == {"publish", "readBack"}
Steps   == TxSteps \cup {"idle", "query", "createCheck", "createInsert",
                         "createRead", "check", "begin", "publish", "readBack"}
NoSub   == [phase |-> "off"]
Live(s) == sub[s].phase # "off"
-----------------------------------------------------------------------------
Init ==
  /\ rows   = [a \in Accounts |-> NoRow]
  /\ wlock  = None
  /\ conn   = [p \in Procs |-> None]
  /\ fresh  = {}
  /\ pc     = [f \in Fibers |-> "idle"]
  /\ cmd    = [f \in Fibers |-> None]
  /\ row    = [f \in Fibers |-> NoRow]
  /\ next   = [f \in Fibers |-> 0]
  /\ reply  = None
  /\ acked  = {}
  /\ sub    = [s \in Subscribers |-> NoSub]

(* A single statement waits for the connection of its process. *)
ConnFree(f) == conn[Home[f]] = None

(* The request goes on to its next step; its local values are kept. *)
Advance(f, step) == pc' = [pc EXCEPT ![f] = step] /\ reply' = None
Goto(f, step)    == Advance(f, step) /\ UNCHANGED reqVars

(* The request returns; its local values go with it. *)
Answer(f, outcome, r) ==
  /\ reply' = [outcome |-> outcome, account |-> cmd[f].account, row |-> r]
  /\ pc'    = [pc EXCEPT ![f] = "idle"]
  /\ cmd'   = [cmd EXCEPT ![f] = None]
  /\ row'   = [row EXCEPT ![f] = NoRow]
  /\ next'  = [next EXCEPT ![f] = 0]

Fail(f, outcome) == Answer(f, outcome, NoRow)
Return(f)        == Answer(f, "ok", rows[cmd[f].account])

(* ROLLBACK: the connection, the snapshot and the write lock are released. *)
Rollback(f, outcome) ==
  /\ conn'  = [conn EXCEPT ![Home[f]] = None]
  /\ fresh' = fresh \ {f}
  /\ wlock' = IF wlock = Home[f] THEN None ELSE wlock
  /\ Fail(f, outcome)
  /\ UNCHANGED <<rows, acked, sub>>
-----------------------------------------------------------------------------
(* provider.query: one statement. *)
StartQuery(f, a) ==
  /\ pc[f] = "idle"
  /\ cmd' = [cmd EXCEPT ![f] = [account |-> a, value |-> 0]]
  /\ Advance(f, "query")
  /\ UNCHANGED <<rows, txVars, row, next, acked, sub>>

Query(f) ==
  /\ pc[f] = "query" /\ ConnFree(f)
  /\ IF rows[cmd[f].account] = NoRow THEN Fail(f, "missing") ELSE Return(f)
  /\ UNCHANGED <<rows, txVars, acked, sub>>

(* provider.create: an existence check, an INSERT and a read, each a       *)
(* statement of its own and none of them reactive.                         *)
StartCreate(f, a, b) ==
  /\ pc[f] = "idle"
  /\ cmd' = [cmd EXCEPT ![f] = [account |-> a, value |-> b]]
  /\ Advance(f, "createCheck")
  /\ UNCHANGED <<rows, txVars, row, next, acked, sub>>

CreateCheck(f) ==
  /\ pc[f] = "createCheck" /\ ConnFree(f)
  /\ IF rows[cmd[f].account] # NoRow THEN Fail(f, "duplicate")
                                     ELSE Goto(f, "createInsert")
  /\ UNCHANGED <<rows, txVars, acked, sub>>

Insert(a, b) ==
  rows' = [rows EXCEPT ![a] = [balance |-> b, revision |-> 0, remainingUses |-> 1]]

(* Faulty variant: the row is replaced when it exists. *)
CreateReplaces(f) ==
  LET a == cmd[f].account
      b == cmd[f].value IN
  /\ pc[f] = "createInsert" /\ ConnFree(f)
  /\ IF b < 0 \/ wlock # None
     THEN Fail(f, "unavailable") /\ UNCHANGED <<rows, fresh>>
     ELSE Insert(a, b) /\ fresh' = {} /\ Goto(f, "createRead")
  /\ UNCHANGED <<wlock, conn, acked, sub>>

(* A negative balance fails before the statement; the primary key or a     *)
(* busy database fails it.  An INSERT makes every open snapshot stale.     *)
CreateInsert(f) ==
  LET a == cmd[f].account
      b == cmd[f].value IN
  /\ pc[f] = "createInsert" /\ ConnFree(f)
  /\ IF b < 0 \/ rows[a] # NoRow \/ wlock # None
     THEN Fail(f, "unavailable") /\ UNCHANGED <<rows, fresh>>
     ELSE Insert(a, b) /\ fresh' = {} /\ Goto(f, "createRead")
  /\ UNCHANGED <<wlock, conn, acked, sub>>

CreateRead(f) ==
  /\ pc[f] = "createRead" /\ ConnFree(f)
  /\ Return(f)
  /\ UNCHANGED <<rows, txVars, acked, sub>>
-----------------------------------------------------------------------------
(* provider.dispatch: a negative amount is refused before the existence    *)
(* check reads anything.                                                   *)
StartDispatch(f, a, n) ==
  /\ pc[f] = "idle"
  /\ cmd' = [cmd EXCEPT ![f] = [account |-> a, value |-> n]]
  /\ Advance(f, "check")
  /\ UNCHANGED <<rows, txVars, row, next, acked, sub>>

Check(f) ==
  /\ pc[f] = "check" /\ ConnFree(f)
  /\ \/ cmd[f].value < 0 /\ Fail(f, "unavailable")
     \/ /\ cmd[f].value >= 0 /\ rows[cmd[f].account] = NoRow
        /\ Fail(f, "missing")
     \/ /\ cmd[f].value >= 0 /\ rows[cmd[f].account] # NoRow
        /\ Goto(f, "begin")
  /\ UNCHANGED <<rows, txVars, acked, sub>>

(* Faulty variant: the reads and the update are not in one transaction. *)
BeginOutside(f) ==
  /\ pc[f] = "begin" /\ ConnFree(f)
  /\ Goto(f, "txRead")
  /\ UNCHANGED <<rows, wlock, conn, fresh, acked, sub>>

(* sql.withTransaction: BEGIN takes the connection of the process. *)
Begin(f) ==
  /\ pc[f] = "begin" /\ ConnFree(f)
  /\ conn' = [conn EXCEPT ![Home[f]] = f]
  /\ Goto(f, "txRead")
  /\ UNCHANGED <<rows, wlock, fresh, acked, sub>>

(* An invalidation of the account's key reaches the subscriptions of the   *)
(* same process, and no other; a query that is running is run once more.   *)
Invalidated(s) ==
  IF sub[s].phase = "quiet" THEN [sub[s] EXCEPT !.phase = "due"]
                            ELSE [sub[s] EXCEPT !.pending = TRUE]

Invalidate(f) == sub' = [s \in Subscribers |->
  IF Live(s) /\ Home[s] = Home[f] /\ sub[s].account = cmd[f].account
  THEN Invalidated(s) ELSE sub[s]]

(* The selected transition requires balance >= amount. *)
ViolatesStatePredicates(r, amount) == r.balance < amount

(* The first read of the transaction takes its snapshot. *)
Admits(r, amount) == r.remainingUses = 1 /\ ~ViolatesStatePredicates(r, amount)

ReadRow(f) ==
  LET r == rows[cmd[f].account] IN
  /\ pc[f] = "txRead"
  /\ Admits(r, cmd[f].value)
  /\ row' = [row EXCEPT ![f] = r]
  /\ fresh' = fresh \cup {f}
  /\ Advance(f, "handler")
  /\ UNCHANGED <<rows, wlock, conn, cmd, next, acked, sub>>

(* Faulty variants: a refused command keeps its transaction; a refused     *)
(* command publishes.                                                      *)
RefuseKeepsTransaction(f) ==
  LET r == rows[cmd[f].account] IN
  /\ pc[f] = "txRead"
  /\ ~Admits(r, cmd[f].value)
  /\ Fail(f, IF r.remainingUses = 0 THEN "disabled" ELSE "unavailable")
  /\ UNCHANGED <<rows, txVars, acked, sub>>

RefusePublishes(f) ==
  LET r == rows[cmd[f].account] IN
  /\ pc[f] = "txRead"
  /\ ~Admits(r, cmd[f].value)
  /\ conn'  = [conn EXCEPT ![Home[f]] = None]
  /\ Invalidate(f)
  /\ Fail(f, IF r.remainingUses = 0 THEN "disabled" ELSE "unavailable")
  /\ UNCHANGED <<rows, wlock, fresh, acked>>

Refuse(f) ==
  LET r == rows[cmd[f].account] IN
  /\ pc[f] = "txRead"
  /\ ~Admits(r, cmd[f].value)
  /\ Rollback(f, IF r.remainingUses = 0 THEN "disabled" ELSE "unavailable")

(* Faulty variant: the handler's balance is not checked. *)
HandlerUnchecked(f) ==
  /\ pc[f] = "handler"
  /\ \E b \in HandlerBalances : next' = [next EXCEPT ![f] = b]
  /\ Advance(f, "update")
  /\ UNCHANGED <<rows, txVars, cmd, row, acked, sub>>

(* The independent handler sees the state it is given and nothing else; it *)
(* may return any balance.  A negative one fails the command.              *)
Handler(f) ==
  /\ pc[f] = "handler"
  /\ \E b \in HandlerBalances :
       IF b < 0 THEN Rollback(f, "unavailable")
       ELSE /\ next' = [next EXCEPT ![f] = b]
            /\ Advance(f, "update")
            /\ UNCHANGED <<rows, txVars, cmd, row, acked, sub>>

(* UPDATE ... WHERE revision = read AND remainingUses = 1, evaluated in    *)
(* the transaction's snapshot.  SQLite refuses the write when the snapshot *)
(* is stale or another connection holds the lock.                          *)
Matches(f) == /\ rows[cmd[f].account].revision = row[f].revision
              /\ rows[cmd[f].account].remainingUses = 1

Update(f) ==
  /\ pc[f] = "update"
  /\ f \in fresh /\ wlock = None /\ Matches(f)
  /\ wlock' = Home[f]
  /\ Goto(f, "commit")
  /\ UNCHANGED <<rows, conn, fresh, acked, sub>>

UpdateFails(f) ==
  /\ pc[f] = "update"
  /\ ~(f \in fresh /\ wlock = None /\ Matches(f))
  /\ Rollback(f, "unavailable")

(* Faulty variant: the grant is not used up. *)
UpdatedKeepsGrant(r, b) == [balance |-> b, revision |-> r.revision + 1, remainingUses |-> 1]

Updated(r, b) == [balance |-> b, revision |-> r.revision + 1, remainingUses |-> 0]

Commit(f) ==
  LET a == cmd[f].account IN
  /\ pc[f] = "commit"
  /\ rows'  = [rows EXCEPT ![a] = Updated(rows[a], next[f])]
  /\ wlock' = None
  /\ conn'  = [conn EXCEPT ![Home[f]] = None]
  /\ fresh' = {}
  /\ Goto(f, "publish")
  /\ UNCHANGED <<acked, sub>>

(* Faulty variant: the transaction is not a mutation of its account's key. *)
PublishNothing(f) ==
  /\ pc[f] = "publish"
  /\ Goto(f, "readBack")
  /\ UNCHANGED <<rows, txVars, acked, sub>>

(* Reactivity.mutation invalidates once the transaction has succeeded. *)
Publish(f) ==
  /\ pc[f] = "publish"
  /\ Invalidate(f)
  /\ Goto(f, "readBack")
  /\ UNCHANGED <<rows, txVars, acked>>

(* Faulty variant: the summary is the row the transaction read. *)
ReadBackStale(f) ==
  LET a == cmd[f].account IN
  /\ pc[f] = "readBack" /\ ConnFree(f)
  /\ acked' = acked \cup {[by |-> f, account |-> a, row |-> row[f]]}
  /\ Answer(f, "ok", row[f])
  /\ UNCHANGED <<rows, txVars, sub>>

(* The summary the caller gets is read after the transaction, outside it.  *)
ReadBack(f) ==
  LET a == cmd[f].account IN
  /\ pc[f] = "readBack" /\ ConnFree(f)
  /\ acked' = acked \cup {[by |-> f, account |-> a, row |-> rows[a]]}
  /\ Return(f)
  /\ UNCHANGED <<rows, txVars, sub>>

(* Any statement may fail with a SqlError; inside the transaction it rolls *)
(* the transaction back.                                                   *)
SqlFails(f) ==
  /\ pc[f] \notin {"idle", "handler", "publish"}
  /\ IF pc[f] \in TxSteps THEN Rollback(f, "unavailable")
     ELSE /\ ConnFree(f)
          /\ Fail(f, "unavailable")
          /\ UNCHANGED <<rows, txVars, acked, sub>>
-----------------------------------------------------------------------------
(* provider.subscribe: Reactivity runs the query on registration and once  *)
(* more for the invalidations that arrive while it runs.                   *)
Subscribe(s, a) ==
  /\ ~Live(s)
  /\ sub' = [sub EXCEPT ![s] = [phase |-> "due", account |-> a, pending |-> FALSE,
                                got |-> NoRow, seen |-> NoRow, runs |-> 0]]
  /\ reply' = None
  /\ UNCHANGED <<rows, txVars, pc, reqVars, acked>>

Ran(x, r) == [x EXCEPT !.phase = "emit", !.got = r, !.runs = x.runs + 1]

(* A missing account or a failing statement ends the stream. *)
SubRead(s) ==
  LET r == rows[sub[s].account] IN
  /\ sub[s].phase = "due" /\ ConnFree(s)
  /\ sub' = [sub EXCEPT ![s] =
       IF r = NoRow THEN NoSub ELSE Ran(sub[s], r)]
  /\ reply' = None
  /\ UNCHANGED <<rows, txVars, pc, reqVars, acked>>

SubFails(s) ==
  /\ sub[s].phase = "due" /\ ConnFree(s)
  /\ sub' = [sub EXCEPT ![s] = NoSub]
  /\ reply' = None
  /\ UNCHANGED <<rows, txVars, pc, reqVars, acked>>

(* Faulty variants: an invalidation that arrived meanwhile is forgotten, or *)
(* never taken off.                                                        *)
SubEmitForgets(s) ==
  /\ sub[s].phase = "emit"
  /\ sub' = [sub EXCEPT ![s] =
       [@ EXCEPT !.seen = sub[s].got, !.pending = FALSE, !.phase = "quiet"]]
  /\ reply' = None
  /\ UNCHANGED <<rows, txVars, pc, reqVars, acked>>

SubEmitKeepsPending(s) ==
  /\ sub[s].phase = "emit"
  /\ sub' = [sub EXCEPT ![s] =
       [@ EXCEPT !.seen = sub[s].got,
                 !.phase = IF sub[s].pending THEN "due" ELSE "quiet"]]
  /\ reply' = None
  /\ UNCHANGED <<rows, txVars, pc, reqVars, acked>>

SubEmit(s) ==
  /\ sub[s].phase = "emit"
  /\ sub' = [sub EXCEPT ![s] =
       [@ EXCEPT !.seen = sub[s].got, !.pending = FALSE,
                 !.phase = IF sub[s].pending THEN "due" ELSE "quiet"]]
  /\ reply' = None
  /\ UNCHANGED <<rows, txVars, pc, reqVars, acked>>

(* A process dies: its open transaction is rolled back, its callers get no *)
(* answer and its subscriptions end.  The next scope reopens the file.     *)
Crash(p) ==
  /\ \/ \E f \in Fibers : Home[f] = p /\ pc[f] # "idle"
     \/ \E s \in Subscribers : Home[s] = p /\ Live(s)
  /\ conn'   = [conn EXCEPT ![p] = None]
  /\ wlock'  = IF wlock = p THEN None ELSE wlock
  /\ fresh'  = {f \in fresh : Home[f] # p}
  /\ pc'     = [f \in Fibers |-> IF Home[f] = p THEN "idle" ELSE pc[f]]
  /\ reply'  = None
  /\ sub'    = [s \in Subscribers |-> IF Home[s] = p THEN NoSub ELSE sub[s]]
  /\ cmd'    = [f \in Fibers |-> IF Home[f] = p THEN None ELSE cmd[f]]
  /\ row'    = [f \in Fibers |-> IF Home[f] = p THEN NoRow ELSE row[f]]
  /\ next'   = [f \in Fibers |-> IF Home[f] = p THEN 0 ELSE next[f]]
  /\ UNCHANGED <<rows, acked>>
-----------------------------------------------------------------------------
Calls(f) == \E a \in Accounts :
  \/ StartQuery(f, a)
  \/ \E b \in OpeningBalances : StartCreate(f, a, b)
  \/ \E n \in Amounts : StartDispatch(f, a, n)

(* The provider's own steps, and all steps of a request. *)
Statement(f) ==
  \/ Query(f) \/ CreateCheck(f) \/ CreateInsert(f) \/ CreateRead(f)
  \/ Check(f) \/ Begin(f) \/ ReadRow(f) \/ Refuse(f)
  \/ Update(f) \/ UpdateFails(f) \/ Commit(f) \/ Publish(f) \/ ReadBack(f)

Progress(f) == Statement(f) \/ Handler(f)

Next ==
  \/ \E f \in Fibers : Calls(f) \/ Progress(f) \/ SqlFails(f)
  \/ \E s \in Subscribers : \/ \E a \in Accounts : Subscribe(s, a)
                            \/ SubRead(s) \/ SubFails(s) \/ SubEmit(s)
  \/ \E p \in Procs : Crash(p)

Spec == Init /\ [][Next]_vars

(* The connection is a semaphore with a first-in first-out queue, so a     *)
(* statement that keeps finding it free again and again does get it.  The  *)
(* foreign handler is an arbitrary Effect, awaited without a deadline: no  *)
(* fairness makes it return.                                               *)
Fairness == /\ \A f \in Fibers : SF_vars(Statement(f))
            /\ \A s \in Subscribers : SF_vars(SubRead(s)) /\ WF_vars(SubEmit(s))

FairSpec == Spec /\ Fairness
-----------------------------------------------------------------------------
(* Type invariant. *)
Subscription ==
  [phase : {"due", "emit", "quiet"}, account : Accounts, pending : BOOLEAN,
   got : Row \cup {NoRow}, seen : Row \cup {NoRow}, runs : Nat]

TypeOK ==
  /\ rows \in [Accounts -> Row \cup {NoRow}]
  /\ wlock \in Procs \cup {None}
  /\ conn \in [Procs -> Fibers \cup {None}]
  /\ fresh \subseteq Fibers
  /\ pc \in [Fibers -> Steps]
  /\ cmd \in [Fibers -> Request \cup {None}]
  /\ row \in [Fibers -> Row \cup {NoRow}]
  /\ next \in [Fibers -> Nat]
  /\ reply \in Reply \cup {None}
  /\ acked \subseteq [by : Fibers, account : Accounts, row : Row]
  /\ sub \in [Subscribers -> Subscription \cup {NoSub}]

(* A committed row has been withdrawn from exactly as often as its grant   *)
(* was used: revision and remaining uses always add up to one, however     *)
(* dispatches of several processes interleave (updateAccount's conditional *)
(* UPDATE inside the dispatch transaction).                                *)
GrantUsedOnce == \A a \in Accounts :
  rows[a] # NoRow => rows[a].revision + rows[a].remainingUses = 1

(* Two dispatches that both returned a summary never withdrew from the     *)
(* same account, and the summary a dispatch returned, though it was read   *)
(* after its transaction ended, stays the account's committed state in     *)
(* every later state, across crashes.                                      *)
AckedIsFinal == \A x \in acked :
  /\ rows[x.account] = x.row /\ x.row.revision = 1
  /\ \A y \in acked : y.account = x.account => y = x

(* With a single process, a subscription whose query is not running has    *)
(* emitted the committed row, unless a fiber is between the COMMIT of that *)
(* account and its publication: no interleaving of commits, queries and    *)
(* invalidations loses an update.  (A commit of another process is never   *)
(* published here; the design document promises no more.)                  *)
QuietIsCurrent == \A s \in Subscribers :
  sub[s].phase = "quiet" => \/ sub[s].seen = rows[sub[s].account]
                           \/ \E f \in Fibers : /\ pc[f] = "publish"
                                                /\ cmd[f].account = sub[s].account

(* A subscription's query runs once at registration and at most once more  *)
(* per committed revision: a rejected or failed dispatch never causes a    *)
(* run (the journey's check that the query ran exactly twice).             *)
RunsOncePerRevision == \A s \in Subscribers :
  Live(s) /\ rows[sub[s].account] # NoRow
    => sub[s].runs <= 1 + rows[sub[s].account].revision

(* What each step of a request relies on: the connection belongs to the    *)
(* fiber inside a transaction; a snapshot still fresh agrees with the      *)
(* committed row; the write lock belongs to a fiber about to commit.       *)
TxInv ==
  /\ \A f \in Fibers : pc[f] \in TxSteps => conn[Home[f]] = f
  /\ \A p \in Procs : conn[p] # None => Home[conn[p]] = p /\ pc[conn[p]] \in TxSteps
  /\ \A f \in Fibers : pc[f] \in Reading =>
       row[f] # NoRow /\ row[f].remainingUses = 1
  /\ \A f \in fresh : pc[f] \in Reading /\ row[f] = rows[cmd[f].account]
  /\ \A f \in Fibers : pc[f] = "commit" => wlock = Home[f] /\ f \in fresh
  /\ wlock # None => conn[wlock] # None /\ pc[conn[wlock]] = "commit"

(* A request past its existence check finds its account; one past its      *)
(* COMMIT finds the grant spent and has not been answered yet, nor has any *)
(* other request for that account.                                         *)
RequestInv ==
  /\ \A f \in Fibers : pc[f] # "idle" => cmd[f] # None
  /\ \A f \in Fibers : pc[f] \in TxSteps \cup {"begin", "createRead"} \cup Committed =>
       rows[cmd[f].account] # NoRow
  /\ \A f \in Fibers : pc[f] \in Committed =>
       /\ rows[cmd[f].account].remainingUses = 0
       /\ \A y \in acked : y.account # cmd[f].account
       /\ \A g \in Fibers : pc[g] \in Committed /\ g # f
                              => cmd[g].account # cmd[f].account

(* A fiber about to commit holds its connection and the write lock, and    *)
(* the row it read is still the committed row: no update is lost between   *)
(* its read and its COMMIT.                                                *)
CommitSeesItsRead == \A f \in Fibers : pc[f] = "commit" =>
  /\ conn[Home[f]] = f /\ wlock = Home[f]
  /\ rows[cmd[f].account] = row[f] /\ row[f].remainingUses = 1

(* The service implements the exact-one account, crashes and failed        *)
(* statements included: COMMIT is the only step that withdraws.            *)
SummaryOf(r) == IF r = NoRow THEN NoRow
  ELSE [balance |-> r.balance, revision |-> r.revision,
        withdrawalAvailable |-> r.remainingUses = 1]
Abstract == INSTANCE ExactOneAccount
              WITH summary <- [a \in Accounts |-> SummaryOf(rows[a])]
ExactOne == Abstract!Spec

(* The handlers that process p awaits return, or their process dies. *)
HandlersReturn(p) ==
  \A f \in {g \in Fibers : Home[g] = p} : []<>(pc[f] # "handler")

(* Every request is answered, failed or lost with its process, provided    *)
(* the handlers its own process awaits return.  A handler that never does  *)
(* keeps its connection, and with it every caller of its process; it never *)
(* keeps a caller of another process waiting, because its transaction      *)
(* holds no lock before its UPDATE, and a refused write fails at once.     *)
EveryRequestEnds == \A f \in Fibers :
  HandlersReturn(Home[f]) => []<>(pc[f] = "idle")

(* A subscription never stays behind the committed row for ever: it emits  *)
(* it, or its stream ends, provided the handlers of its process return.    *)
SubscribersCatchUp == \A s \in Subscribers :
  HandlersReturn(Home[s]) => []<>(Live(s) => sub[s].seen = rows[sub[s].account])
=============================================================================
