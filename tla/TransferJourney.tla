--------------------------- MODULE TransferJourney ---------------------------
(***************************************************************************)
(* runM027TransferJourney: one fiber drives the transfer service through a *)
(* script.  It opens two accounts, starts three subscriptions, transfers,  *)
(* takes the committed snapshots, provokes an overdraft, counts the        *)
(* queries the subscriptions ran, queries again, closes the file, opens it *)
(* again and compares.  Three queues carry the emitted snapshots.          *)
(***************************************************************************)
EXTENDS TransferService, Sequences

CONSTANTS Driver,                 \* the only fiber
          Source, Target,         \* plan.scenario: the two accounts,
          SourceOpening, TargetOpening, Amount, Overdraft,  \* their amounts
          Continuation            \* what a caller of the journey does next

(* How a journey ends, or one that composes it. *)
Endings == {"done", "runtimeFailure", "acceptedOverdraft", "runsFailure", "parityFailure",
            "observationFailure", "versionFailure"}

(* One process, and a scenario that deriveM027TransferPlan accepts.  A     *)
(* watcher is named for its topic.                                         *)
ASSUME JourneyAssumption ==
  /\ Fibers = {Driver} /\ Watchers = {Source, Target, TotalKey}
  /\ \A w \in Watchers : Home[w] = Home[Driver]
  /\ Source # Target /\ {Source, Target} \subseteq Accounts
  /\ {SourceOpening, TargetOpening} \subseteq OpeningBalances
  /\ {Amount, Overdraft} \subseteq Amounts
  /\ 0 < Amount /\ Amount <= SourceOpening /\ TargetOpening >= 0
  /\ Overdraft > SourceOpening - Amount
  /\ None \notin Endings

VARIABLES
  at,     \* the statement of the script the journey is at
  ended,  \* how the journey ended, or None
  queue,  \* queue[w]: the snapshots of subscription w not yet taken
  runs,   \* runs[w]: how often the query of subscription w has run
  got     \* the observations of the journey, by name

journeyVars == <<at, ended, queue, runs, got>>
allVars == <<vars, journeyVars>>

Topic3 == <<Source, Target, TotalKey>>
Create(a, b)       == <<[op |-> "create", account |-> a, value |-> b]>>
Move(n)            == <<[op |-> "transfer", amount |-> n]>>
Overdraw(n)        == <<[op |-> "overdraft", amount |-> n]>>
Each(op, name)     == [i \in 1..3 |-> [op |-> op, topic |-> Topic3[i], name |-> name]]
Compare(x, y)      == <<[op |-> "compare", left |-> x, right |-> y]>>
Do(op)             == <<[op |-> op]>>

(* runFirstScope, then runReopenedScope, then the two comparisons. *)
FirstScope ==
  Create(Source, SourceOpening) \o Create(Target, TargetOpening)
    \o Each("subscribe", "initial") \o Each("take", "initial")
    \o Move(Amount) \o Each("take", "committed")
    \o Overdraw(Overdraft) \o Do("count") \o Each("query", "clean") \o Do("close")
ReopenedScope == Each("query", "reopened")
Script == FirstScope \o ReopenedScope
            \o Compare("committed", "clean") \o Compare("clean", "reopened")
            \o Continuation \o Do("done")

Running == ended = None
Stmt    == Script[at]
IsOp(op) == Running /\ Stmt.op = op
Slot(name, topic) == <<name, topic>>
With(f, x, value) == [y \in DOMAIN f \cup {x} |-> IF y = x THEN value ELSE f[y]]
Note(name, topic, value) == got' = With(got, Slot(name, topic), value)

JInit == /\ Init /\ at = 1 /\ ended = None /\ got = <<>>
         /\ queue = [w \in Watchers |-> <<>>]
         /\ runs = [w \in Watchers |-> 0]

Proceed    == at' = at + 1 /\ UNCHANGED ended
End(how)   == ended' = how /\ UNCHANGED at

Call ==
  /\ \/ IsOp("create") /\ StartCreate(Driver, Stmt.account, Stmt.value)
     \/ IsOp("transfer") /\ StartTransfer(Driver, Source, Target, Stmt.amount)
     \/ IsOp("overdraft") /\ StartTransfer(Driver, Source, Target, Stmt.amount)
     \/ IsOp("query") /\ StartQuery(Driver, Stmt.topic)
  /\ UNCHANGED journeyVars

(* The overdraft must be refused by the service, everything else succeed. *)
Expected(o) == IF IsOp("overdraft") THEN o \in Rejections ELSE o = "ok"

Answered == pc'[Driver] = "idle"

Serve ==
  /\ Running
  /\ Progress(Driver) \/ HandlerFails(Driver) \/ SqlFails(Driver)
  /\ IF ~Answered THEN UNCHANGED <<at, ended>>
     ELSE IF Expected(reply'.outcome) THEN Proceed
     ELSE End(IF reply'.outcome = "ok" THEN "acceptedOverdraft" ELSE "runtimeFailure")
  /\ IF IsOp("query") /\ Answered /\ reply'.outcome = "ok"
     THEN Note(Stmt.name, Stmt.topic, reply'.seen.value) ELSE UNCHANGED got
  /\ UNCHANGED <<queue, runs>>

Collect == /\ IsOp("subscribe") /\ Subscribe(Stmt.topic, Stmt.topic)
           /\ Proceed
           /\ UNCHANGED <<queue, runs, got>>

(* The forked streams run beside the journey; runs is counted before the   *)
(* query.                                                                  *)
Listen == \E w \in Watchers :
  \/ /\ SubRead(w) \/ SubFails(w)
     /\ runs' = [runs EXCEPT ![w] = @ + 1]
     /\ UNCHANGED <<at, ended, queue, got>>
  \/ /\ SubEmit(w)
     /\ queue' = [queue EXCEPT ![w] = Append(@, sub[w].got)]
     /\ UNCHANGED <<at, ended, runs, got>>

Take == /\ IsOp("take") /\ queue[Stmt.topic] # <<>>
        /\ Note(Stmt.name, Stmt.topic, Head(queue[Stmt.topic]))
        /\ queue' = [queue EXCEPT ![Stmt.topic] = Tail(@)]
        /\ Proceed
        /\ UNCHANGED <<vars, runs>>

(* take gives up after five seconds. *)
Deadline == /\ IsOp("take") /\ queue[Stmt.topic] = <<>>
            /\ End("runtimeFailure")
            /\ UNCHANGED <<vars, queue, runs, got>>

Count == /\ IsOp("count")
         /\ IF \A w \in Watchers : runs[w] = 2 THEN Proceed ELSE End("runsFailure")
         /\ UNCHANGED <<vars, queue, runs, got>>

(* The scope ends: the streams are interrupted and the file is closed. *)
Close == /\ IsOp("close")
         /\ sub' = [w \in Watchers |-> NoSub] /\ reply' = None
         /\ Proceed
         /\ UNCHANGED <<rows, opened, txVars, pc, req, tx, moved, queue, runs, got>>

CompareSlots ==
  /\ IsOp("compare")
  /\ IF \A w \in Watchers : got[Slot(Stmt.left, w)] = got[Slot(Stmt.right, w)]
     THEN Proceed ELSE End("parityFailure")
  /\ UNCHANGED <<vars, queue, runs, got>>

Done == IsOp("done") /\ End("done") /\ UNCHANGED <<vars, queue, runs, got>>

Stop == ~Running /\ UNCHANGED allVars

JNext == Call \/ Serve \/ Collect \/ Listen \/ Take \/ Deadline \/ Count \/ Close
         \/ CompareSlots \/ Done \/ Stop

JSpec == JInit /\ [][JNext]_allVars
-----------------------------------------------------------------------------
(* The three committed snapshots, though taken one after another from      *)
(* three queues, show the same commit: both revisions are 1 and the two    *)
(* balances add up to the total, which is also the initial one.            *)
SnapshotsAgree ==
  \A name \in {"initial", "committed"} :
    (\A w \in Watchers : Slot(name, w) \in DOMAIN got) =>
      LET o(w) == got[Slot(name, w)] IN
      /\ o(Source).balance + o(Target).balance = o(TotalKey).total
      /\ o(TotalKey).total = SourceOpening + TargetOpening
      /\ \A w \in Watchers : o(w).revision = IF name = "initial" THEN 0 ELSE 1
=============================================================================
