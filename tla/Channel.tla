------------------------------ MODULE Channel ------------------------------
(***************************************************************************)
(* bang trace: a selection of delivery schedules for a protocol of two     *)
(* owners and three messages is validated, run one schedule after the      *)
(* other, and the traces are evaluated against the five obligations of the *)
(* channel theory.  A trace is reported only after every stage succeeded.  *)
(***************************************************************************)
EXTENDS Naturals, Sequences, FiniteSets

CONSTANT TraceSelections  \* what the selection file may hold

VARIABLES
  selection,  \* the selection, once it is read
  stage,      \* selection, execution, evaluation, reported, or failed
  traces,     \* of the schedules already run
  taken,      \* steps of the running schedule already taken
  ownerA, ownerB,
  handled,    \* messages handled in the running schedule
  observed,   \* its observations, in order
  mutations,  \* its state mutations
  report      \* one entry per schedule

channel == <<selection, stage, traces, taken, ownerA, ownerB, handled, observed,
             mutations, report>>

Operations == {"Prepare", "Commit", "Ack"}
Distinct(s) == \A i, j \in DOMAIN s : i # j => s[i] # s[j]
MessagesOf(protocol) == {protocol.messages[i] : i \in DOMAIN protocol.messages}
MessageOf(protocol, id) == CHOOSE m \in MessagesOf(protocol) : m.id = id

(* What decoding a selection file establishes before it is validated. *)
SelectionsAreDecoded == \A sel \in TraceSelections :
  /\ DOMAIN sel.protocol.messages = 1..Len(sel.protocol.messages)
  /\ \A m \in MessagesOf(sel.protocol) : m.operation \in Operations
  /\ DOMAIN sel.schedules = 1..Len(sel.schedules) /\ Len(sel.schedules) \in Nat
  /\ \A k \in DOMAIN sel.schedules :
       /\ DOMAIN sel.schedules[k] = 1..Len(sel.schedules[k])
       /\ Len(sel.schedules[k]) \in Nat
-----------------------------------------------------------------------------
(* What a selection must be before anything runs. *)
ParentOperation(op) == IF op = "Commit" THEN "Prepare" ELSE "Commit"

ValidMessage(protocol, m) ==
  LET ab == <<protocol.owners[1], protocol.owners[2]>>
      ba == <<protocol.owners[2], protocol.owners[1]>>
  IN /\ <<m.sender, m.receiver>> = IF m.operation = "Ack" THEN ba ELSE ab
     /\ IF m.operation = "Prepare"
        THEN m.causalParent = {} /\ m.amount
        ELSE /\ ~m.amount
             /\ \E parent \in MessagesOf(protocol) :
                  /\ m.causalParent = {parent.id} /\ parent.id # m.id
                  /\ parent.operation = ParentOperation(m.operation)
                  /\ parent.transaction = m.transaction

ValidateProtocol(protocol) ==
  /\ protocol.owners[1] # protocol.owners[2]
  /\ Len(protocol.messages) = 3
  /\ Distinct([i \in 1..3 |-> protocol.messages[i].id])
  /\ \A op \in Operations : \E m \in MessagesOf(protocol) : m.operation = op
  /\ \A m \in MessagesOf(protocol) : ValidMessage(protocol, m)

Deliveries(schedule) == {i \in DOMAIN schedule : schedule[i].action # "complete"}

ValidateSchedules(sel) ==
  /\ sel.schedules # <<>>
  /\ \A k \in DOMAIN sel.schedules :
       LET schedule == sel.schedules[k]
       IN /\ schedule # <<>>
          /\ \A i \in DOMAIN schedule :
               IF i \in Deliveries(schedule)
               THEN \E m \in MessagesOf(sel.protocol) : m.id = schedule[i].messageId
               ELSE schedule[i].ownerId = sel.protocol.owners[1]
          /\ \A i, j \in Deliveries(schedule) :
               i # j => schedule[i].attemptId # schedule[j].attemptId

ValidateSelection(sel) == ValidateProtocol(sel.protocol) /\ ValidateSchedules(sel)
-----------------------------------------------------------------------------
TraceInit ==
  /\ selection = [schedules |-> <<>>] /\ stage = "selection" /\ traces = <<>> /\ taken = 0
  /\ ownerA = "waiting" /\ ownerB = "idle" /\ handled = {} /\ observed = <<>>
  /\ mutations = 0 /\ report = <<>>

schedule == selection.schedules[Len(traces) + 1]
step == schedule[taken + 1]

StepsLeft == /\ stage = "execution" /\ Len(traces) < Len(selection.schedules)
             /\ taken < Len(schedule)

owning == <<ownerA, ownerB, handled, mutations>>

(* readSelection and decodeM024ChannelSelection: a selection that is not   *)
(* valid runs nothing.                                                     *)
ReadSelection ==
  /\ stage = "selection"
  /\ \E sel \in TraceSelections :
       /\ selection' = sel
       /\ stage' = IF ValidateSelection(sel) THEN "execution" ELSE "failed"
  /\ UNCHANGED <<traces, taken, owning, observed, report>>

Observe(tag, m, owner, reason) ==
  [tag |-> tag, attemptId |-> step.attemptId, messageId |-> m.id,
   ownerId |-> owner, reason |-> reason]

Sent(m) == Observe("Sent", m, "nobody", "none")
Delivered(m) == Observe("Delivered", m, "nobody", "none")

Takes(action) == StepsLeft /\ step.action = action /\ taken' = taken + 1
StaysInTrace == UNCHANGED <<selection, stage, traces, report>>

(* A step may force the first owner, while it waits and only once. *)
ForceCompletion ==
  /\ Takes("complete") /\ ownerA = "waiting"
  /\ ownerA' = "complete" /\ mutations' = mutations + 1
  /\ observed' = Append(observed, [tag |-> "ForcedCompletion", ownerId |-> step.ownerId])
  /\ UNCHANGED <<ownerB, handled>> /\ StaysInTrace

RefuseCompletion ==
  /\ StepsLeft /\ step.action = "complete" /\ ownerA # "waiting"
  /\ stage' = "failed"
  /\ UNCHANGED <<selection, traces, taken, owning, observed, report>>

DropMessage ==
  /\ Takes("drop")
  /\ LET m == MessageOf(selection.protocol, step.messageId)
     IN observed' = observed \o <<Sent(m), Observe("Dropped", m, "nobody", "none")>>
  /\ UNCHANGED owning /\ StaysInTrace

JudgeInAnyState(m) ==
  LET a == selection.protocol.owners[1]
      b == selection.protocol.owners[2]
      expected == IF m.operation = "Ack" THEN <<b, a>> ELSE <<a, b>>
  IN IF <<m.sender, m.receiver>> # expected THEN <<"Rejected", "wrong-recipient">>
     ELSE IF m.id \in handled THEN <<"DuplicateIgnored", "none">>
     ELSE IF ~(m.causalParent \subseteq handled) THEN <<"Rejected", "causal-parent-not-handled">>
     ELSE <<"Handled", "none">>

(* What the owner a message reaches makes of it, in the order of the tests.*)
Judge(m) ==
  LET a == selection.protocol.owners[1]
      b == selection.protocol.owners[2]
      expected == IF m.operation = "Ack" THEN <<b, a>> ELSE <<a, b>>
  IN IF <<m.sender, m.receiver>> # expected THEN <<"Rejected", "wrong-recipient">>
     ELSE IF m.id \in handled THEN <<"DuplicateIgnored", "none">>
     ELSE IF ~(m.causalParent \subseteq handled) THEN <<"Rejected", "causal-parent-not-handled">>
     ELSE IF \/ m.operation = "Prepare" /\ ownerB # "idle"
             \/ m.operation = "Commit" /\ ownerB # "prepared"
             \/ m.operation = "Ack" /\ ownerA # "waiting" THEN <<"Rejected", "wrong-state">>
     ELSE <<"Handled", "none">>

DeliverMessage(tag) ==
  /\ Takes("deliver")
  /\ LET m == MessageOf(selection.protocol, step.messageId)
     IN /\ Judge(m)[1] = tag
        /\ observed' = observed \o
             <<Sent(m), Delivered(m), Observe(tag, m, m.receiver, Judge(m)[2])>>
        /\ IF tag # "Handled" THEN UNCHANGED owning
           ELSE /\ handled' = handled \cup {m.id} /\ mutations' = mutations + 1
                /\ ownerA' = IF m.operation = "Ack" THEN "complete" ELSE ownerA
                /\ ownerB' = CASE m.operation = "Prepare" -> "prepared"
                               [] m.operation = "Commit"  -> "committed"
                               [] OTHER -> ownerB
  /\ StaysInTrace

FinishKeepingHandled ==
  /\ stage = "execution" /\ Len(traces) < Len(selection.schedules)
  /\ taken = Len(schedule)
  /\ traces' = Append(traces, [observations |-> observed, ownerA |-> ownerA,
                               ownerB |-> ownerB, mutations |-> mutations])
  /\ taken' = 0 /\ ownerA' = "waiting" /\ ownerB' = "idle" /\ UNCHANGED handled
  /\ observed' = <<>> /\ mutations' = 0
  /\ UNCHANGED <<selection, stage, report>>

(* The next schedule starts with new owners and no handled message. *)
FinishSchedule ==
  /\ stage = "execution" /\ Len(traces) < Len(selection.schedules)
  /\ taken = Len(schedule)
  /\ traces' = Append(traces, [observations |-> observed, ownerA |-> ownerA,
                               ownerB |-> ownerB, mutations |-> mutations])
  /\ taken' = 0 /\ ownerA' = "waiting" /\ ownerB' = "idle" /\ handled' = {}
  /\ observed' = <<>> /\ mutations' = 0
  /\ UNCHANGED <<selection, stage, report>>

FinishExecution ==
  /\ stage = "execution" /\ Len(traces) = Len(selection.schedules)
  /\ stage' = "evaluation"
  /\ UNCHANGED <<selection, traces, taken, owning, observed, report>>
-----------------------------------------------------------------------------
(* The evaluator reads the trace again, from its observations alone. *)
Events(trace) == DOMAIN trace.observations
Tagged(trace, tag) == {i \in Events(trace) : trace.observations[i].tag = tag}
AttemptEvents(trace) == Events(trace) \ Tagged(trace, "ForcedCompletion")
Earlier(trace, i, tag) ==
  \E j \in Tagged(trace, tag) :
    j < i /\ trace.observations[j].attemptId = trace.observations[i].attemptId
Terminal == {"Dropped", "Handled", "Rejected", "DuplicateIgnored"}
HandledIn(trace) == {trace.observations[i].messageId : i \in Tagged(trace, "Handled")}
HandledBefore(trace, i) ==
  {trace.observations[j].messageId : j \in {k \in Tagged(trace, "Handled") : k < i}}

ValidateObservation(sel, steps, trace, i) ==
  LET event == trace.observations[i]
      over == \E tag \in Terminal : Earlier(trace, i, tag)
  IN \E d \in Deliveries(steps) :
       /\ steps[d].attemptId = event.attemptId /\ steps[d].messageId = event.messageId
       /\ CASE event.tag = "Sent" ->
                 ~Earlier(trace, i, "Sent") /\ ~Earlier(trace, i, "Delivered") /\ ~over
            [] event.tag = "Delivered" ->
                 /\ steps[d].action = "deliver" /\ Earlier(trace, i, "Sent")
                 /\ ~Earlier(trace, i, "Delivered") /\ ~over
            [] event.tag = "Dropped" ->
                 steps[d].action = "drop" /\ Earlier(trace, i, "Sent") /\ ~over
            [] OTHER ->
                 /\ event.ownerId = MessageOf(sel.protocol, event.messageId).receiver
                 /\ Earlier(trace, i, "Sent") /\ Earlier(trace, i, "Delivered")
                 /\ event.tag = "DuplicateIgnored" =>
                      event.messageId \in HandledBefore(trace, i)

ValidateTraceAgainstSelection(sel) ==
  /\ Len(traces) = Len(sel.schedules)
  /\ \A k \in DOMAIN traces :
       LET steps == sel.schedules[k]
       IN /\ \A i \in AttemptEvents(traces[k]) : ValidateObservation(sel, steps, traces[k], i)
          /\ Cardinality(Tagged(traces[k], "ForcedCompletion"))
               = Cardinality(DOMAIN steps \ Deliveries(steps))

Violated(condition) == IF condition THEN "Violated" ELSE "Satisfied"

MessageAt(sel, trace, i) == MessageOf(sel.protocol, trace.observations[i].messageId)
Some(sel, trace, tag, op) ==
  \E i \in Tagged(trace, tag) : MessageAt(sel, trace, i).operation = op

CausalViolation(sel, trace) ==
  \/ \E i \in Tagged(trace, "Rejected") :
       trace.observations[i].reason = "causal-parent-not-handled"
  \/ \E i \in Tagged(trace, "Handled") :
       ~(MessageAt(sel, trace, i).causalParent \subseteq HandledBefore(trace, i))

AtMostOnceViolation(trace) ==
  \/ \E i \in Tagged(trace, "Handled") :
       trace.observations[i].messageId \in HandledBefore(trace, i)
  \/ trace.mutations #
       Cardinality(HandledIn(trace)) + Cardinality(Tagged(trace, "ForcedCompletion"))

CoordinationViolation(sel, trace) ==
  \/ trace.ownerB = "committed" /\ ~Some(sel, trace, "Handled", "Commit")
  \/ trace.ownerA = "complete" /\ ~Some(sel, trace, "Handled", "Ack")

LossStatus(sel, trace) ==
  LET acked == Some(sel, trace, "Handled", "Ack")
  IN IF Some(sel, trace, "Dropped", "Ack") /\ ~acked /\ trace.ownerA = "complete" THEN "Violated"
     ELSE IF ~acked THEN "Unresolved" ELSE "Satisfied"

EvaluateSchedule(sel, trace) ==
  <<"Satisfied", Violated(CausalViolation(sel, trace)), Violated(AtMostOnceViolation(trace)),
    Violated(CoordinationViolation(sel, trace)), LossStatus(sel, trace)>>

Result(verdicts) ==
  LET all == {verdicts[i] : i \in DOMAIN verdicts}
  IN IF "Violated" \in all THEN "Violated"
     ELSE IF "Unresolved" \in all THEN "Unresolved" ELSE "Satisfied"

EvaluateTrace ==
  /\ stage = "evaluation"
  /\ IF ValidateTraceAgainstSelection(selection)
     THEN /\ stage' = "reported"
          /\ report' = [k \in DOMAIN traces |->
               LET verdicts == EvaluateSchedule(selection, traces[k])
               IN [obligations |-> verdicts, result |-> Result(verdicts)]]
     ELSE stage' = "refuted" /\ UNCHANGED report
  /\ UNCHANGED <<selection, traces, taken, owning, observed>>

TraceNext ==
  \/ ReadSelection \/ ForceCompletion \/ RefuseCompletion \/ DropMessage
  \/ DeliverMessage("Handled") \/ DeliverMessage("DuplicateIgnored")
  \/ DeliverMessage("Rejected")
  \/ FinishSchedule \/ FinishExecution \/ EvaluateTrace

TraceSpec == TraceInit /\ [][TraceNext]_channel
-----------------------------------------------------------------------------
(* The executor runs and the evaluator rereads: the owners of every        *)
(* schedule behave like two coordinated owners, and each schedule starts   *)
(* from nothing.                                                           *)
Owners == INSTANCE Coordination WITH
  forced <- \E i \in DOMAIN observed : observed[i].tag = "ForcedCompletion",
  moves <- mutations

OwnersCoordinate == Owners!Coordinate

(* What the schedule itself says, without running it: an acknowledgement   *)
(* is handled when a prepare, a commit and then an acknowledgement are     *)
(* delivered in this order and nothing forced the first owner before.      *)
Subsequence(steps, ops, p) ==
  \E f \in [DOMAIN ops -> DOMAIN steps] :
    /\ \A i \in DOMAIN ops : /\ steps[f[i]].action = "deliver"
                             /\ MessageOf(p, steps[f[i]].messageId).operation = ops[i]
    /\ \A i, j \in DOMAIN ops : i < j => f[i] < f[j]

Expected(sel, steps) ==
  LET p == sel.protocol
      Prefix(i) == [d \in 1..i |-> steps[d]]
      Delivers(i, op) == /\ steps[i].action = "deliver"
                         /\ MessageOf(p, steps[i].messageId).operation = op
      forced == \E i \in DOMAIN steps : steps[i].action = "complete"
      early == \E i \in DOMAIN steps :
                 \/ Delivers(i, "Commit") /\ ~Subsequence(Prefix(i), <<"Prepare">>, p)
                 \/ Delivers(i, "Ack") /\ ~Subsequence(Prefix(i), <<"Prepare", "Commit">>, p)
      acked == Subsequence(steps, <<"Prepare", "Commit", "Ack">>, p) /\ ~forced
      lost == \E i \in DOMAIN steps :
                steps[i].action = "drop" /\ MessageOf(p, steps[i].messageId).operation = "Ack"
  IN <<"Satisfied", Violated(early), "Satisfied", Violated(forced),
       IF lost /\ forced THEN "Violated" ELSE IF ~acked THEN "Unresolved" ELSE "Satisfied">>

(* The report says of every schedule what the schedule itself says, and    *)
(* the evaluator never refuses a trace the executor made.                  *)
VerdictsTellTheSchedules ==
  /\ stage # "refuted"
  /\ stage = "reported" =>
       \A k \in DOMAIN selection.schedules :
         report[k].obligations = Expected(selection, selection.schedules[k])
=============================================================================
