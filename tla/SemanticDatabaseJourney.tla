----------------------- MODULE SemanticDatabaseJourney -----------------------
(***************************************************************************)
(* runM026DatabaseJourney: one fiber drives the provider through create,   *)
(* subscribe, a withdrawal, a second withdrawal that must be refused, a    *)
(* count of the subscription's queries, a clean query, and a query after   *)
(* the file is closed and opened again.  The subscriber's emissions reach  *)
(* the fiber through an unbounded queue.                                   *)
(***************************************************************************)
EXTENDS SemanticDatabase, Sequences

CONSTANTS Driver,          \* the only fiber of a journey
          Listener,        \* its only subscriber
          Account, Opening, Amount   \* plan.scenario

ASSUME JourneyAssumption ==
  /\ Driver \in Fibers /\ Listener \in Subscribers
  /\ Home[Driver] = Home[Listener] /\ Account \in Accounts
  /\ Opening \in OpeningBalances /\ Amount \in Amounts
  /\ Opening >= Amount /\ Amount >= 0

VARIABLES
  step,     \* where the journey is
  queue,    \* emitted snapshots the journey has not taken
  seenRows  \* initialSnapshot, committedSnapshot, clean query, reopened query

journeyVars == <<step, queue, seenRows>>
allVars == <<vars, journeyVars>>

Calling == {"create", "first", "second", "clean", "reopened"}
Failed  == {"runtimeFailure", "concurrencyFailure", "parityFailure"}

JInit == Init /\ step = "create" /\ queue = <<>> /\ seenRows = <<>>

Call ==
  /\ \/ step = "create" /\ StartCreate(Driver, Account, Opening)
     \/ step \in {"first", "second"} /\ StartDispatch(Driver, Account, Amount)
     \/ step \in {"clean", "reopened"} /\ StartQuery(Driver, Account)
  /\ UNCHANGED journeyVars

(* The step after a call that was answered with outcome o. *)
After(o) ==
  CASE step = "create"   -> IF o = "ok" THEN "subscribe" ELSE "runtimeFailure"
    [] step = "first"    -> IF o = "ok" THEN "committed" ELSE "runtimeFailure"
    [] step = "second"   -> IF o = "disabled" THEN "count" ELSE "runtimeFailure"
    [] step = "clean"    -> IF o = "ok" THEN "close" ELSE "runtimeFailure"
    [] step = "reopened" -> IF o = "ok" THEN "parity" ELSE "runtimeFailure"

Serve ==
  /\ step \in Calling
  /\ Progress(Driver) \/ SqlFails(Driver)
  /\ step' = IF reply' = None THEN step ELSE After(reply'.outcome)
  /\ seenRows' = IF step \in {"clean", "reopened"} /\ reply' # None
                 THEN Append(seenRows, reply'.row) ELSE seenRows
  /\ UNCHANGED queue

Open == /\ step = "subscribe"
        /\ Subscribe(Listener, Account)
        /\ step' = "initial"
        /\ UNCHANGED <<queue, seenRows>>

(* The forked stream runs while the journey goes on. *)
Listen == /\ step # "clients"
          /\ \/ (SubRead(Listener) \/ SubFails(Listener)) /\ UNCHANGED journeyVars
             \/ /\ SubEmit(Listener)
                /\ queue' = Append(queue, sub[Listener].got)
                /\ UNCHANGED <<step, seenRows>>

(* takeSnapshot, or its deadline of five seconds. *)
Take == /\ step \in {"initial", "committed"} /\ queue # <<>>
        /\ step' = IF step = "initial" THEN "first" ELSE "second"
        /\ seenRows' = Append(seenRows, Head(queue))
        /\ queue' = Tail(queue)
        /\ UNCHANGED vars

Deadline == /\ step \in {"initial", "committed"} /\ queue = <<>>
            /\ step' = "runtimeFailure"
            /\ UNCHANGED <<vars, queue, seenRows>>

Count == /\ step = "count"
         /\ step' = IF sub[Listener].runs # 2 THEN "concurrencyFailure" ELSE "clean"
         /\ UNCHANGED <<vars, queue, seenRows>>

(* The first scope ends: the stream is interrupted, the file is closed. *)
Close == /\ step = "close"
         /\ step' = "reopened"
         /\ Crash(Home[Driver]) \/ (~Live(Listener) /\ UNCHANGED vars)
         /\ UNCHANGED <<queue, seenRows>>

Parity == /\ step = "parity"
          /\ step' = IF seenRows[2] = seenRows[3] /\ seenRows[3] = seenRows[4]
                     THEN "done" ELSE "parityFailure"
          /\ UNCHANGED <<vars, queue, seenRows>>

Stop == step \in Failed \cup {"done"} /\ UNCHANGED allVars

JNext == Call \/ Serve \/ Open \/ Listen \/ Take \/ Deadline \/ Count \/ Close
         \/ Parity \/ Stop

(* The file is the journey's alone only by agreement: meanwhile another    *)
(* process may open it, call for the same account, commit and die.         *)
Elsewhere(x) == Home[x] # Home[Driver]

Others ==
  /\ step # "clients"
  /\ \/ \E f \in Fibers : Elsewhere(f) /\ (Calls(f) \/ Progress(f) \/ SqlFails(f))
     \/ \E s \in Subscribers :
          /\ Elsewhere(s)
          /\ (\E a \in Accounts : Subscribe(s, a)) \/ SubRead(s) \/ SubFails(s) \/ SubEmit(s)
     \/ \E p \in Procs \ {Home[Driver]} : Crash(p)
  /\ UNCHANGED journeyVars

(* The service either runs one journey or serves clients that call it in   *)
(* any order, as the tests of the runtime do.                              *)
ServeClients == step = "clients" /\ Next /\ UNCHANGED journeyVars

JSpec ==
  /\ JInit \/ (Init /\ step = "clients" /\ queue = <<>> /\ seenRows = <<>>)
  /\ [][JNext \/ Others \/ ServeClients]_allVars

JFairSpec == JSpec /\ Fairness
-----------------------------------------------------------------------------
(* The two snapshots a journey reports are the opened account and its only *)
(* withdrawal, in that order, also when another process withdraws first:   *)
(* then there is no second one.  The queue never holds a third.            *)
SnapshotsInOrder ==
  /\ Len(queue) + (IF Len(seenRows) > 2 THEN 2 ELSE Len(seenRows)) <= 2
  /\ Len(seenRows) >= 2 => seenRows[1].revision = 0 /\ seenRows[2].revision = 1

(* However the subscription's queries and the calls of other processes for *)
(* the same account interleave with the journey, its own checks never      *)
(* fail: the query has run exactly twice when the second withdrawal is     *)
(* refused, and the committed snapshot, the clean query and the reopened   *)
(* query agree.  A failing statement, the deadline or a process that       *)
(* withdraws first can only end a journey early.                           *)
JourneyChecksHold == step \notin {"concurrencyFailure", "parityFailure"} /\ SnapshotsInOrder
=============================================================================
