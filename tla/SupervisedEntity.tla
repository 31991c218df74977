-------------------------- MODULE SupervisedEntity --------------------------
(***************************************************************************)
(* The Gleam actor generated for an operation: an entity that owns its     *)
(* state, answers its mailbox in order, and is restarted by a supervisor   *)
(* when it stops abnormally.  The exact-one entity issues grants that are  *)
(* good for one run in one incarnation; the plain entity asks for none.    *)
(* Clients send to the entity's registered name; the probe generated       *)
(* beside the exact-one entity is one such client.                         *)
(***************************************************************************)
EXTENDS TargetEvidence, Integers, SequencesExt

CONSTANTS Realization,
          Rivals,          \* clients that send what they like
          RivalAmounts,    \* the amounts they ask for
          MaxSent,         \* messages a rival sends
          MaxRestarts      \* restarts before the supervisor must give up

VARIABLES
  exactOne,    \* the kind of entity
  actor,       \* the incarnation in being, and whether it runs
  mailbox,     \* messages the actor has yet to handle
  clients,     \* what each client is doing
  script,      \* the probe's messages to come
  heard,       \* the replies to the probe, by trace
  granted,     \* every grant issued
  operationRuns \* each run of the operation: its grant and incarnation

(* What rivals ask for: a composing module assumes it. *)
AmountsAreIntegers == RivalAmounts \subseteq Int

entityVars == <<exactOne, actor, mailbox, clients, script, heard, granted, operationRuns>>

Initial == 10
Here == "account-1"
There == "account-2"
NoGrant == [incarnation |-> 0, number |-> 0]

Fresh(incarnation) ==
  [status |-> "running", balance |-> Initial, incarnation |-> incarnation,
   nextGrant |-> 1, consumed |-> {}, calls |-> 0]

Probe == "probe"
Clients == {Probe} \cup Rivals

(* A step of the probe, and what sending it leaves a client: waiting for   *)
(* the answer, or free to go on.                                           *)
Step(op, trace, destination, amount) ==
  [op |-> op, trace |-> trace, destination |-> destination, amount |-> amount,
   leaves |-> IF op \in {"defect", "first"} THEN "idle" ELSE "waiting"]
Issue == Step("issue", "valid", Here, 0)
Uses(trace) == Step("uses", trace, Here, 0)
Withdraw(trace, destination, amount) == Step("withdraw", trace, destination, amount)
Between(trace, steps) == <<Uses(trace)>> \o steps \o <<Uses(trace)>>

ProbeScript ==
  <<Issue>> \o Between("valid", <<Withdraw("valid", Here, 4)>>)
  \o Between("reuse", <<Withdraw("reuse", Here, 1)>>)
  \o <<Issue>> \o Between("competing",
       <<Step("first", "competing", Here, 2), Withdraw("competing", Here, 2)>>)
  \o <<Issue>> \o Between("wrongDestination", <<Withdraw("wrongDestination", There, 1)>>)
  \o <<Issue>> \o Between("disabled", <<Withdraw("disabled", Here, 9)>>)
  \o <<Issue, Uses("defect"), Step("defect", "defect", Here, 1)>>
  \o Between("stale", <<Withdraw("stale", Here, 1)>>)
  \o <<Issue>> \o Between("replacement", <<Withdraw("replacement", Here, 3)>>)
  \o <<Step("stop", "valid", Here, 0)>>

Client == [status |-> "idle", waiting |-> 0, inbox |-> <<>>, grant |-> NoGrant, sent |-> 0]

EntityInit ==
  /\ exactOne \in BOOLEAN
  /\ actor = Fresh(1) /\ mailbox = <<>>
  /\ clients = [c \in Clients |-> Client]
  /\ script \in {<<>>} \cup (IF exactOne THEN {ProbeScript} ELSE {})
  /\ heard = [t \in Traces |-> <<>>] /\ granted = {} /\ operationRuns = <<>>
-----------------------------------------------------------------------------
Asked(client, message) ==
  [status |-> message.leaves, inbox |-> client.inbox, grant |-> client.grant,
   waiting |-> client.waiting + (IF message.op = "defect" THEN 0 ELSE 1), sent |-> client.sent + 1]

(* Sending to a name nobody is registered under ends the sender.           *)
Send(c, message) ==
  IF actor.status = "running"
  THEN /\ mailbox' = Append(mailbox, message)
       /\ clients' = [clients EXCEPT ![c] = Asked(@, message)]
  ELSE clients' = [clients EXCEPT ![c].status = "crashed"] /\ UNCHANGED mailbox

Message(c, step, grant) ==
  [from |-> c, op |-> IF step.op = "first" THEN "withdraw" ELSE step.op, trace |-> step.trace,
   destination |-> step.destination, amount |-> step.amount, leaves |-> step.leaves, grant |-> grant]

ProbeSends ==
  /\ script # <<>> /\ clients[Probe].status = "idle"
  /\ Send(Probe, Message(Probe, Head(script), clients[Probe].grant))
  /\ script' = Tail(script)
  /\ UNCHANGED <<exactOne, actor, heard, granted, operationRuns>>

(* The probe has the name to itself: rivals run against other entities.    *)
RivalSends(c) ==
  /\ script = <<>> /\ clients[Probe].sent = 0
  /\ clients[c].status = "idle" /\ clients[c].sent < MaxSent
  /\ \E op \in {"issue", "withdraw", "defect", "stop"}, destination \in {Here, There},
        amount \in RivalAmounts, grant \in granted \cup {NoGrant} :
       /\ op \in {"issue", "stop"} => destination = Here /\ grant = NoGrant
                                      /\ \A a \in RivalAmounts : amount <= a
       /\ op = "issue" => exactOne
       /\ op \in {"withdraw", "defect"} => (exactOne <=> grant # NoGrant)
       /\ Send(c, Message(c, Step(op, "valid", destination, amount), grant))
  /\ UNCHANGED <<exactOne, actor, script, heard, granted, operationRuns>>

Answered(client) ==
  [status |-> "idle", inbox |-> <<>>, waiting |-> 0, sent |-> client.sent,
   grant |-> IF client.inbox[1].tag = "Grant" THEN client.inbox[1].grant ELSE client.grant]

(* A waiting client takes its replies, all of them before it goes on.      *)
Receive(c) ==
  /\ clients[c].status = "waiting" /\ Len(clients[c].inbox) = clients[c].waiting
  /\ clients' = [clients EXCEPT ![c] = Answered(@)]
  /\ heard' = IF c # Probe \/ clients[c].inbox[1].tag \in {"Grant", "Stopped"} THEN heard
              ELSE [heard EXCEPT ![clients[c].inbox[1].trace] = @ \o clients[c].inbox]
  /\ UNCHANGED <<exactOne, actor, mailbox, script, granted, operationRuns>>

(* A call ends its client when the actor goes down before it answers, or   *)
(* after five seconds; the message may still be handled.                   *)
CallFails(c) ==
  /\ clients[c].status = "waiting" /\ Len(clients[c].inbox) < clients[c].waiting
  /\ clients' = [clients EXCEPT ![c].status = "crashed"]
  /\ UNCHANGED <<exactOne, actor, mailbox, script, heard, granted, operationRuns>>
-----------------------------------------------------------------------------
RemainingFor(grant) ==
  IF grant.incarnation = actor.incarnation /\ grant \notin actor.consumed THEN 1 ELSE 0

Enabled_(amount) == amount >= 0 /\ actor.balance >= amount

(* Faulty variant: takes the grant's use alone for its validity. *)
RefusalWithoutReference(message) ==
  IF message.destination # Here THEN "WrongDestination"
  ELSE IF ~Enabled_(message.amount) THEN "DomainRejected"
  ELSE IF exactOne /\ RemainingFor(message.grant) = 0 THEN "CapabilityUseRejected"
  ELSE "none"

(* handle_withdraw and handle_defect_withdraw refuse in the same order.    *)
Refusal(message) ==
  IF exactOne /\ message.grant.incarnation # actor.incarnation THEN "StaleGrantRejected"
  ELSE IF message.destination # Here THEN "WrongDestination"
  ELSE IF ~Enabled_(message.amount) THEN "DomainRejected"
  ELSE IF exactOne /\ RemainingFor(message.grant) = 0 THEN "CapabilityUseRejected"
  ELSE "none"

Reply(message, tag, next, remaining) ==
  [tag |-> tag, trace |-> message.trace, state |-> next.balance, remaining |-> remaining,
   calls |-> next.calls, grant |-> message.grant]

Answers(message, reply) ==
  clients' = [clients EXCEPT ![message.from].inbox = Append(@, reply)]

ConsumedState(grant) ==
  [actor EXCEPT !.consumed = IF exactOne THEN @ \cup {grant} ELSE @, !.calls = @ + 1]

Recorded(grant) == Append(operationRuns, [grant |-> grant, incarnation |-> actor.incarnation])

HandleIssue(message) ==
  LET grant == [incarnation |-> actor.incarnation, number |-> actor.nextGrant]
  IN /\ exactOne /\ message.op = "issue"
     /\ actor' = [actor EXCEPT !.nextGrant = @ + 1]
     /\ granted' = granted \cup {grant}
     /\ Answers([message EXCEPT !.grant = grant], Reply([message EXCEPT !.grant = grant],
                                                        "Grant", actor, 1))
     /\ UNCHANGED operationRuns

HandleUses(message) ==
  /\ message.op = "uses"
  /\ Answers(message, Reply(message, "Uses", actor, RemainingFor(message.grant)))
  /\ UNCHANGED <<actor, granted, operationRuns>>

Refuse(message) ==
  /\ message.op = "withdraw" /\ Refusal(message) # "none"
  /\ Answers(message, Reply(message, Refusal(message), actor,
       IF Refusal(message) \in {"StaleGrantRejected", "CapabilityUseRejected"} THEN 0
       ELSE RemainingFor(message.grant)))
  /\ UNCHANGED <<actor, granted, operationRuns>>

HandleWithdraw(message) ==
  LET next == [ConsumedState(message.grant) EXCEPT !.balance = @ - message.amount]
  IN /\ message.op = "withdraw" /\ Refusal(message) = "none"
     /\ actor' = next
     /\ Answers(message, Reply(message, "Success", next, 0))
     /\ operationRuns' = Recorded(message.grant)
     /\ UNCHANGED granted

(* A defect strikes after the use is taken, and takes the actor with it;   *)
(* a plain entity can be made to fail outright.                            *)
HandleDefect(message) ==
  /\ message.op = "defect"
  /\ IF exactOne /\ Refusal(message) # "none" THEN UNCHANGED <<actor, operationRuns>>
     ELSE actor' = [actor EXCEPT !.status = "failed"] /\ operationRuns' = Recorded(message.grant)
  /\ UNCHANGED <<clients, granted>>

(* A normal stop of the significant child shuts the supervisor down.       *)
HandleStop(message) ==
  /\ message.op = "stop"
  /\ Answers(message, Reply(message, "Stopped", actor, 0))
  /\ actor' = [actor EXCEPT !.status = "stopped"]
  /\ UNCHANGED <<granted, operationRuns>>

Handle ==
  /\ actor.status = "running" /\ mailbox # <<>>
  /\ LET message == Head(mailbox)
     IN \/ HandleIssue(message) \/ HandleUses(message) \/ Refuse(message)
        \/ HandleWithdraw(message) \/ HandleDefect(message) \/ HandleStop(message)
  /\ mailbox' = IF actor'.status = "running" THEN Tail(mailbox) ELSE <<>>
  /\ UNCHANGED <<exactOne, script, heard>>

(* The supervisor starts the actor anew: its first state, a new reference  *)
(* and the next number of the incarnation counter, which outlives actors.  *)
Restart ==
  /\ actor.status = "failed" /\ actor.incarnation <= MaxRestarts
  /\ actor' = Fresh(actor.incarnation + 1)
  /\ UNCHANGED <<exactOne, mailbox, clients, script, heard, granted, operationRuns>>

(* Too many restarts in too short a time shut the supervisor down.         *)
GiveUp ==
  /\ actor.status = "failed"
  /\ actor' = [actor EXCEPT !.status = "stopped"]
  /\ UNCHANGED <<exactOne, mailbox, clients, script, heard, granted, operationRuns>>

EntityNext ==
  \/ ProbeSends \/ Handle \/ Restart \/ GiveUp
  \/ \E c \in Clients : Receive(c) \/ CallFails(c)
  \/ \E c \in Rivals : RivalSends(c)

EntitySpec == EntityInit /\ [][EntityNext]_entityVars
-----------------------------------------------------------------------------
(* What the probe prints once the entity is stopped. *)
Probed == heard["replacement"] # <<>> /\ script = <<>> /\ clients[Probe].status = "idle"

Heard(trace, n, tag, state, remaining, calls) ==
  heard[trace][n].tag = tag /\ heard[trace][n].state = state
  /\ heard[trace][n].remaining = remaining /\ heard[trace][n].calls = calls
Tagged(trace, tag) == Cardinality({n \in DOMAIN heard[trace] : heard[trace][n].tag = tag})
Replaced == Heard("replacement", 2, "Success", 7, 0, 1)
            /\ heard["replacement"][2].grant.incarnation # heard["defect"][1].grant.incarnation

GleamReport ==
  [target |-> "gleam-beam", realization |-> Realization,
   passed |->
     {j \in Journeys :
        CASE j = "validCall"        -> Heard("valid", 2, "Success", 6, 0, 1)
          [] j = "reuse"            -> Heard("reuse", 2, "CapabilityUseRejected", 6, 0, 1)
          [] j = "competing"        -> /\ Heard("competing", 2, "Success", 4, 0, 2)
                                       /\ Heard("competing", 3, "CapabilityUseRejected", 4, 0, 2)
          [] j = "wrongDestination" -> Heard("wrongDestination", 2, "WrongDestination", 4, 1, 2)
          [] j = "disabled"         -> Heard("disabled", 2, "DomainRejected", 4, 1, 2)
          [] j = "defect"           -> Heard("stale", 2, "StaleGrantRejected", 10, 0, 0)},
   successes |-> Tagged("competing", "Success"),
   rejections |-> Tagged("competing", "CapabilityUseRejected"),
   remaining |->
     [t \in Traces |-> <<heard[t][1].remaining,
                         IF t = "defect" THEN Last(heard["stale"]).remaining
                         ELSE Last(heard[t]).remaining>>],
   supervised |-> "yes",
   restart |-> {(IF heard["stale"][2].tag = "StaleGrantRejected" THEN {"oldGrantRejected"} ELSE {})
                \cup (IF Replaced THEN {"freshGrantDistinct", "replacementGrantAccepted"} ELSE {})}]
-----------------------------------------------------------------------------
(* A grant of the exact-one entity pays for one run, in the incarnation    *)
(* that issued it: neither rivals, nor defects, nor a restart that forgets *)
(* what was consumed, nor a message handled after its caller gave up, make *)
(* it pay for another.                                                     *)
GrantsBuyOneRun ==
  exactOne =>
    \A i \in DOMAIN operationRuns :
      /\ operationRuns[i].grant \in granted
      /\ operationRuns[i].incarnation = operationRuns[i].grant.incarnation
      /\ \A j \in DOMAIN operationRuns : operationRuns[i].grant = operationRuns[j].grant => i = j

(* However slowly the actor restarts, a probe that prints anything prints  *)
(* what the evidence package demands: it crashes otherwise.                *)
ProbeShowsExactOne ==
  Probed => CheckObservations([target |-> "gleam-beam", id |-> [realization |-> Realization],
                               observations |-> Normalize(GleamReport)])
=============================================================================
