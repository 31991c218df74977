-------------------------- MODULE BoundariesProofs --------------------------
(***************************************************************************)
(* Proofs about the three guards, for any protocol and any number and      *)
(* length of schedules, any journeys of any phases and any number of       *)
(* fibers, and any number of clients, messages, amounts and restarts: the  *)
(* owners of a trace coordinate, the verdicts of a trace are what its      *)
(* schedules say, a grant buys one run, and both probes print what the     *)
(* evidence package demands of them, or nothing.                           *)
(***************************************************************************)
EXTENDS Boundaries, FiniteSetTheorems, TLAPS

IsList(s) == \E S : s \in Seq(S)
Forced == \E i \in DOMAIN observed : observed[i].tag = "ForcedCompletion"

(* The positions in the selection and in the running schedule. *)
Positions ==
  /\ stage \notin {"selection", "failed"} =>
       selection \in TraceSelections /\ Trace!ValidateSelection(selection)
  /\ stage = "selection" => handled = {}
  /\ taken \in Nat /\ IsList(traces) /\ IsList(observed)

(* The owner of a message that was handled has moved, and only a waiting   *)
(* owner has not been forced.                                              *)
OwnersInv ==
  /\ stage = "execution" =>
       \A m \in Trace!MessagesOf(selection.protocol) :
         m.operation = "Commit" /\ m.id \in handled => ownerB = "committed"
  /\ Forced => ownerA = "complete"

(* The inductive invariant: an acknowledgement is handled only after its   *)
(* causal parent, the commit, and then the second owner has committed.     *)
IInv == Positions /\ OwnersInv

(* Lists. *)
LEMMA ListLen == ASSUME NEW s, IsList(s) PROVE Len(s) \in Nat /\ DOMAIN s = 1..Len(s)
  BY DEF IsList

(* A sequence over a set is one over every larger set.                     *)
LEMMA SeqGrows == ASSUME NEW S, NEW T, S \subseteq T, NEW s \in Seq(S) PROVE s \in Seq(T)
  OBVIOUS

(* A list that grows by an element keeps the ones it has,                  *)
LEMMA AppendList ==
  ASSUME NEW s, IsList(s), NEW x
  PROVE  /\ IsList(Append(s, x)) /\ Len(Append(s, x)) = Len(s) + 1
         /\ Append(s, x)[Len(s) + 1] = x
  <1>1. PICK S : s \in Seq(S)
    BY DEF IsList
  <1>2. s \in Seq(S \cup {x})
    BY <1>1, SeqGrows
  <1>3. Append(s, x) \in Seq(S \cup {x})
    BY <1>2
  <1> QED BY <1>2, <1>3 DEF IsList

(* and so does one that grows by a list.                                   *)
LEMMA ConcatList ==
  ASSUME NEW s, IsList(s), NEW t, IsList(t)
  PROVE  /\ IsList(s \o t)
         /\ \A n \in DOMAIN (s \o t) : \/ n \in DOMAIN s /\ (s \o t)[n] = s[n]
                                       \/ \E k \in DOMAIN t : (s \o t)[n] = t[k]
         /\ \A n \in DOMAIN s : n \in DOMAIN (s \o t) /\ (s \o t)[n] = s[n]
  <1>1. PICK S : s \in Seq(S)
    BY DEF IsList
  <1>2. PICK T : t \in Seq(T)
    BY DEF IsList
  <1>3. s \in Seq(S \cup T) /\ t \in Seq(S \cup T)
    BY <1>1, <1>2, SeqGrows
  <1>4. s \o t \in Seq(S \cup T)
    BY <1>3
  <1> QED BY <1>3, <1>4 DEF IsList

(* Nothing is a list.                                                      *)
LEMMA EmptyList == IsList(<<>>)
  <1>1. <<>> \in Seq({})
    OBVIOUS
  <1> QED BY <1>1 DEF IsList

(* Observations that force nobody leave Forced as it is. *)
LEMMA NotForced ==
  ASSUME IsList(observed), NEW t, IsList(t),
         \A k \in DOMAIN t : t[k].tag # "ForcedCompletion",
         observed' = observed \o t
  PROVE  IsList(observed') /\ (Forced' <=> Forced)
  BY ConcatList DEF Forced

(* The observations of a step come in twos                                 *)
LEMMA Pair == ASSUME NEW a, NEW b
  PROVE  IsList(<<a, b>>) /\ \A k \in DOMAIN <<a, b>> : <<a, b>>[k] \in {a, b}
  <1>1. <<a, b>> \in Seq({a, b})
    OBVIOUS
  <1>2. ASSUME NEW k \in DOMAIN <<a, b>> PROVE <<a, b>>[k] \in {a, b}
    BY <1>1
  <1> QED BY <1>1, <1>2 DEF IsList

(* and threes.                                                             *)
LEMMA Triple == ASSUME NEW a, NEW b, NEW c
  PROVE  IsList(<<a, b, c>>) /\ \A k \in DOMAIN <<a, b, c>> : <<a, b, c>>[k] \in {a, b, c}
  <1>1. <<a, b, c>> \in Seq({a, b, c})
    OBVIOUS
  <1>2. ASSUME NEW k \in DOMAIN <<a, b, c>> PROVE <<a, b, c>>[k] \in {a, b, c}
    BY <1>1
  <1> QED BY <1>1, <1>2 DEF IsList

(* The tag of an observation. *)
LEMMA ObservedTag == ASSUME NEW tag, NEW m, NEW owner, NEW reason
  PROVE  Trace!Observe(tag, m, owner, reason).tag = tag
  BY DEF Trace!Observe

(* A message a valid selection delivers or drops is one of the protocol.   *)
LEMMA DeliveredMessage ==
  ASSUME Trace!SelectionsAreDecoded, IInv, Trace!StepsLeft, Trace!step.action # "complete"
  PROVE  LET m == Trace!MessageOf(selection.protocol, Trace!step.messageId)
         IN  m \in Trace!MessagesOf(selection.protocol) /\ m.id = Trace!step.messageId
  <1>1. /\ selection \in TraceSelections /\ Trace!ValidateSelection(selection)
        /\ taken \in Nat /\ Len(traces) \in Nat
    BY ListLen DEF IInv, Positions, Trace!StepsLeft
  <1>2. /\ Len(traces) + 1 \in DOMAIN selection.schedules
        /\ taken + 1 \in DOMAIN Trace!schedule
    <2>1. /\ DOMAIN selection.schedules = 1..Len(selection.schedules)
          /\ Len(selection.schedules) \in Nat
      BY <1>1 DEF Trace!SelectionsAreDecoded
    <2>2. Len(traces) + 1 \in DOMAIN selection.schedules
      BY <1>1, <2>1 DEF Trace!StepsLeft
    <2>3. DOMAIN Trace!schedule = 1..Len(Trace!schedule) /\ Len(Trace!schedule) \in Nat
      BY <1>1, <2>2 DEF Trace!SelectionsAreDecoded, Trace!schedule
    <2> QED BY <1>1, <2>2, <2>3 DEF Trace!StepsLeft
  <1>3. taken + 1 \in Trace!Deliveries(Trace!schedule)
    BY <1>2 DEF Trace!Deliveries, Trace!step
  <1>4. \E m \in Trace!MessagesOf(selection.protocol) : m.id = Trace!step.messageId
    BY <1>1, <1>2, <1>3 DEF Trace!ValidateSelection, Trace!ValidateSchedules, Trace!schedule,
      Trace!step
  <1> QED BY <1>4 DEF Trace!MessageOf

(* Messages are told apart by their identities. *)
LEMMA OneMessagePerId ==
  ASSUME Trace!SelectionsAreDecoded, selection \in TraceSelections, Trace!ValidateSelection(selection),
         NEW m \in Trace!MessagesOf(selection.protocol), NEW n \in Trace!MessagesOf(selection.protocol),
         m.id = n.id
  PROVE  m = n
  <1> DEFINE ms == selection.protocol.messages
  <1>1. Len(ms) = 3 /\ DOMAIN ms = 1..3
    BY DEF Trace!SelectionsAreDecoded, Trace!ValidateSelection, Trace!ValidateProtocol
  <1>2. PICK i \in 1..3, j \in 1..3 : m = ms[i] /\ n = ms[j]
    BY <1>1 DEF Trace!MessagesOf
  <1>3. \A x, y \in 1..3 : x # y => ms[x].id # ms[y].id
    BY DEF Trace!ValidateSelection, Trace!ValidateProtocol, Trace!Distinct
  <1> QED BY <1>2, <1>3

(* Nothing is handled, taken or observed before the selection is read.     *)
LEMMA InitIInv == Trace!TraceInit => IInv
  BY EmptyList DEF Trace!TraceInit, IInv, Positions, OwnersInv, Forced
-----------------------------------------------------------------------------
(* A step of the executor: the positions stay and the owners coordinate.   *)
OwnersStep ==
  \/ Trace!Owners!Prepare \/ Trace!Owners!Commit \/ Trace!Owners!Complete
  \/ Trace!Owners!Force \/ Trace!Owners!Restart
  \/ UNCHANGED Trace!Owners!owners

(* Steps that leave owners and observations alone. *)
LEMMA QuietStep ==
  ASSUME IInv, UNCHANGED <<Trace!owning, observed>>
  PROVE  OwnersStep /\ (Forced' <=> Forced)
  BY DEF OwnersStep, Trace!Owners!owners, Trace!owning, Forced

(* Reading the selection leaves both owners at rest.                       *)
LEMMA ReadSelectionStep ==
  ASSUME IInv, Trace!ReadSelection PROVE IInv' /\ OwnersStep
  <1>1. OwnersStep /\ (Forced' <=> Forced)
    BY QuietStep DEF Trace!ReadSelection
  <1>2. Positions'
    BY DEF IInv, Positions, Trace!ReadSelection
  <1>3. OwnersInv'
    BY <1>1 DEF IInv, Positions, OwnersInv, Trace!ReadSelection, Trace!owning
  <1> QED BY <1>1, <1>2, <1>3 DEF IInv

(* A refusal, the end of the execution and the evaluation move no owner.   *)
LEMMA OtherStagesStep ==
  ASSUME IInv, Trace!RefuseCompletion \/ Trace!FinishExecution \/ Trace!EvaluateTrace
  PROVE  IInv' /\ OwnersStep
  <1>1. OwnersStep /\ (Forced' <=> Forced)
    BY QuietStep DEF Trace!RefuseCompletion, Trace!FinishExecution, Trace!EvaluateTrace
  <1>2. Positions'
    BY DEF IInv, Positions, Trace!RefuseCompletion, Trace!FinishExecution, Trace!EvaluateTrace,
      Trace!StepsLeft
  <1>3. OwnersInv'
    BY <1>1 DEF IInv, OwnersInv, Trace!RefuseCompletion, Trace!FinishExecution,
      Trace!EvaluateTrace, Trace!owning
  <1> QED BY <1>1, <1>2, <1>3 DEF IInv

(* The next schedule starts with two new owners.                           *)
LEMMA FinishScheduleStep ==
  ASSUME IInv, Trace!FinishSchedule PROVE IInv' /\ OwnersStep
  <1>1. ~Forced'
    BY DEF Trace!FinishSchedule, Forced
  <1>2. Positions'
    BY AppendList, EmptyList DEF IInv, Positions, Trace!FinishSchedule
  <1>3. OwnersInv'
    BY <1>1 DEF OwnersInv, Trace!FinishSchedule
  <1>4. Trace!Owners!Restart
    BY <1>1 DEF Trace!Owners!Restart, Trace!FinishSchedule, Forced
  <1> QED BY <1>2, <1>3, <1>4 DEF IInv, OwnersStep

(* A forced completion completes the first owner, whatever the second is.  *)
LEMMA ForceCompletionStep ==
  ASSUME IInv, Trace!ForceCompletion PROVE IInv' /\ OwnersStep
  <1> USE DEF Trace!ForceCompletion, Trace!Takes, Trace!StaysInTrace, Trace!StepsLeft
  <1>1. IsList(observed') /\ Forced'
    <2>1. IsList(observed)
      BY DEF IInv, Positions
    <2>2. PICK e : e.tag = "ForcedCompletion" /\ observed' = Append(observed, e)
      OBVIOUS
    <2>3. /\ IsList(observed') /\ Len(observed') = Len(observed) + 1
          /\ observed'[Len(observed) + 1] = e
      BY <2>1, <2>2, AppendList
    <2>4. DOMAIN observed' = 1..Len(observed') /\ Len(observed) \in Nat
      BY <2>1, <2>3, ListLen
    <2>5. Len(observed) + 1 \in DOMAIN observed'
      BY <2>3, <2>4
    <2> QED BY <2>2, <2>3, <2>5 DEF Forced
  <1>2. Positions'
    BY <1>1 DEF IInv, Positions
  <1>3. OwnersInv'
    BY DEF IInv, OwnersInv
  <1>4. Trace!Owners!Force
    BY <1>1 DEF Trace!Owners!Force, Forced
  <1> QED BY <1>2, <1>3, <1>4 DEF IInv, OwnersStep

(* A dropped message is observed and moves nobody.                         *)
LEMMA DropMessageStep ==
  ASSUME IInv, Trace!DropMessage PROVE IInv' /\ OwnersStep
  <1> USE DEF Trace!DropMessage, Trace!Takes, Trace!StaysInTrace, Trace!StepsLeft
  <1> DEFINE m == Trace!MessageOf(selection.protocol, Trace!step.messageId)
  <1>0. PICK a, b : a = Trace!Sent(m) /\ b = Trace!Observe("Dropped", m, "nobody", "none")
    OBVIOUS
  <1>1. observed' = observed \o <<a, b>> /\ a.tag = "Sent" /\ b.tag = "Dropped"
    BY <1>0, ObservedTag DEF Trace!Sent
  <1>2. IsList(observed') /\ (Forced' <=> Forced)
    <2>1. IsList(<<a, b>>) /\ \A k \in DOMAIN <<a, b>> : <<a, b>>[k].tag # "ForcedCompletion"
      BY <1>1, Pair
    <2> QED BY <1>1, <2>1, NotForced DEF IInv, Positions
  <1>3. Positions'
    BY <1>2 DEF IInv, Positions
  <1>4. OwnersInv'
    BY <1>2 DEF IInv, OwnersInv, Trace!owning
  <1>5. UNCHANGED Trace!Owners!owners
    BY <1>2 DEF Trace!Owners!owners, Trace!owning, Forced
  <1> QED BY <1>3, <1>4, <1>5 DEF IInv, OwnersStep

(* The observations of a delivery force nobody. *)
LEMMA DeliveryObserved ==
  ASSUME IInv, NEW tag \in {"Handled", "DuplicateIgnored", "Rejected"}, Trace!DeliverMessage(tag)
  PROVE  Positions' /\ (Forced' <=> Forced)
  <1> USE DEF Trace!DeliverMessage, Trace!Takes, Trace!StaysInTrace, Trace!StepsLeft
  <1> DEFINE m == Trace!MessageOf(selection.protocol, Trace!step.messageId)
  <1>0. PICK a, b, c : /\ a = Trace!Sent(m) /\ b = Trace!Delivered(m)
                       /\ c = Trace!Observe(tag, m, m.receiver, Trace!Judge(m)[2])
    OBVIOUS
  <1>1. /\ observed' = observed \o <<a, b, c>>
        /\ a.tag = "Sent" /\ b.tag = "Delivered" /\ c.tag = tag
    BY <1>0, ObservedTag DEF Trace!Sent, Trace!Delivered
  <1>2. /\ IsList(<<a, b, c>>)
        /\ \A k \in DOMAIN <<a, b, c>> : <<a, b, c>>[k].tag # "ForcedCompletion"
    BY <1>1, Triple
  <1>3. IsList(observed') /\ (Forced' <=> Forced)
    BY <1>1, <1>2, NotForced DEF IInv, Positions
  <1> QED BY <1>3 DEF IInv, Positions

(* Nor does one that was delivered before or comes too early.              *)
LEMMA NotHandledStep ==
  ASSUME IInv, NEW tag \in {"DuplicateIgnored", "Rejected"}, Trace!DeliverMessage(tag)
  PROVE  IInv' /\ OwnersStep
  <1>1. Positions' /\ (Forced' <=> Forced)
    BY DeliveryObserved
  <1>2. UNCHANGED Trace!owning /\ UNCHANGED <<selection, stage>>
    BY DEF Trace!DeliverMessage, Trace!StaysInTrace
  <1>3. OwnersInv'
    BY <1>1, <1>2 DEF IInv, OwnersInv, Trace!owning
  <1>4. UNCHANGED Trace!Owners!owners
    BY <1>1, <1>2 DEF Trace!Owners!owners, Trace!owning, Forced
  <1> QED BY <1>1, <1>3, <1>4 DEF IInv, OwnersStep

(* A message is handled after its cause: a prepare by an owner at rest, a  *)
(* commit or an acknowledgement only after the message that caused it.     *)
LEMMA HandledStep ==
  ASSUME Trace!SelectionsAreDecoded, IInv, Trace!DeliverMessage("Handled")
  PROVE  IInv' /\ OwnersStep
  <1>1. Positions' /\ (Forced' <=> Forced)
    BY DeliveryObserved
  <1> DEFINE m == Trace!MessageOf(selection.protocol, Trace!step.messageId)
  <1>2. /\ Trace!StepsLeft /\ Trace!step.action = "deliver" /\ UNCHANGED <<selection, stage>>
        /\ Trace!Judge(m)[1] = "Handled" /\ mutations' = mutations + 1
        /\ handled' = handled \cup {m.id}
        /\ ownerA' = IF m.operation = "Ack" THEN "complete" ELSE ownerA
        /\ ownerB' = CASE m.operation = "Prepare" -> "prepared"
                       [] m.operation = "Commit"  -> "committed"
                       [] OTHER -> ownerB
    BY DEF Trace!DeliverMessage, Trace!Takes, Trace!StaysInTrace
  <1>3. m \in Trace!MessagesOf(selection.protocol)
    BY <1>2, DeliveredMessage
  <1>4. /\ selection \in TraceSelections /\ Trace!ValidateSelection(selection)
        /\ Trace!ValidMessage(selection.protocol, m) /\ m.operation \in Trace!Operations
    BY <1>2, <1>3 DEF IInv, Positions, Trace!StepsLeft, Trace!ValidateSelection,
      Trace!ValidateProtocol,
       Trace!SelectionsAreDecoded
  <1>5. /\ m.causalParent \subseteq handled
        /\ m.operation = "Prepare" => ownerB = "idle"
        /\ m.operation = "Commit" => ownerB = "prepared"
        /\ m.operation = "Ack" => ownerA = "waiting"
    BY <1>2 DEF Trace!Judge
  <1> HIDE DEF m
  <1>6. CASE m.operation = "Prepare"
    <2>1. Trace!Owners!Prepare
      BY <1>1, <1>2, <1>5, <1>6 DEF Trace!Owners!Prepare, Forced
    <2>2. OwnersInv'
      <3>1. ASSUME NEW n \in Trace!MessagesOf(selection.protocol), n.operation = "Commit", n.id \in handled'
            PROVE  FALSE
        <4>1. n.id # m.id
          BY <1>3, <1>4, <1>6, <3>1, OneMessagePerId
        <4> QED BY <1>2, <1>5, <1>6, <3>1, <4>1 DEF IInv, OwnersInv, Trace!StepsLeft
      <3> QED BY <1>1, <1>2, <1>6, <3>1 DEF IInv, OwnersInv
    <2> QED BY <1>1, <2>1, <2>2 DEF IInv, OwnersStep
  <1>7. CASE m.operation = "Commit"
    <2>1. Trace!Owners!Commit
      BY <1>1, <1>2, <1>5, <1>7 DEF Trace!Owners!Commit, Forced
    <2>2. OwnersInv'
      BY <1>1, <1>2, <1>7 DEF IInv, OwnersInv
    <2> QED BY <1>1, <2>1, <2>2 DEF IInv, OwnersStep
  <1>8. CASE m.operation = "Ack"
    <2>1. PICK parent \in Trace!MessagesOf(selection.protocol) :
            m.causalParent = {parent.id} /\ parent.operation = "Commit"
      BY <1>4, <1>8 DEF Trace!ValidMessage, Trace!ParentOperation
    <2>2. ownerB = "committed" /\ ownerA = "waiting" /\ ~Forced
      BY <1>2, <1>5, <1>8, <2>1 DEF IInv, OwnersInv, Trace!StepsLeft
    <2>3. Trace!Owners!Complete
      BY <1>1, <1>2, <1>8, <2>2 DEF Trace!Owners!Complete, Forced
    <2>4. OwnersInv'
      BY <1>1, <1>2, <1>8, <2>2 DEF IInv, OwnersInv
    <2> QED BY <1>1, <2>3, <2>4 DEF IInv, OwnersStep
  <1> QED BY <1>4, <1>6, <1>7, <1>8 DEF Trace!Operations
-----------------------------------------------------------------------------
(* Every step of the trace keeps the invariant and is a step of its owners.*)
LEMMA NextStep ==
  ASSUME Trace!SelectionsAreDecoded, IInv, [Trace!TraceNext]_(Trace!channel) PROVE IInv' /\ OwnersStep
  <1>1. CASE UNCHANGED Trace!channel
    <2>1. OwnersStep /\ (Forced' <=> Forced)
      BY <1>1, QuietStep DEF Trace!channel, Trace!owning
    <2>2. Positions'
      BY <1>1 DEF IInv, Positions, Trace!channel
    <2>3. OwnersInv'
      BY <1>1, <2>1 DEF IInv, OwnersInv, Trace!channel
    <2> QED BY <2>1, <2>2, <2>3 DEF IInv
  <1>2. CASE Trace!TraceNext
    BY <1>2, ReadSelectionStep, OtherStagesStep, FinishScheduleStep, ForceCompletionStep,
       DropMessageStep, NotHandledStep, HandledStep DEF Trace!TraceNext
  <1> QED BY <1>1, <1>2

(* bang trace: in every schedule the receiving owner prepares and then     *)
(* commits, the sending owner completes once, after the commit unless it   *)
(* is forced, every state mutation is counted, and the next schedule       *)
(* starts from nothing, whatever is delivered, dropped, repeated or early. *)
THEOREM TraceOwnersCoordinate == Trace!TraceSpec => OwnersCoordinate
  <1>1. Trace!TraceInit => IInv /\ Trace!Owners!AtRest
    BY InitIInv DEF Trace!TraceInit, Trace!Owners!AtRest
  <1>2. IInv /\ [Trace!TraceNext]_(Trace!channel) => IInv' /\ OwnersStep
    BY NextStep, SelectionsAssumption
  <1>3. IInv /\ [Trace!TraceNext]_(Trace!channel) =>
          [\/ Trace!Owners!Prepare \/ Trace!Owners!Commit \/ Trace!Owners!Complete \/ Trace!Owners!Force
           \/ Trace!Owners!Restart]_(Trace!Owners!owners)
    BY <1>2 DEF OwnersStep
  <1> QED BY <1>1, <1>2, <1>3, PTL
    DEF Trace!TraceSpec, OwnersCoordinate, Trace!OwnersCoordinate, Trace!Owners!Coordinate
-----------------------------------------------------------------------------
(* The calls that took the use of grant g and have yet to run. *)
Due(g) == {f \in DOMAIN fibers : fibers[f].grant = g /\ fibers[f].pc \in {"count", "run"}}

Balanced(g) == grantRuns[g] + Cardinality(Due(g)) = 1 - Effect!RemainingUses(g)

FibersTyped ==
  /\ journey \in Seq(Effect!Phases)
  /\ grantStates \in Seq({"available", "consumed"})
  /\ grantRuns \in Seq(Nat) /\ Len(grantRuns) = Len(grantStates)
  /\ IsFiniteSet(DOMAIN fibers) /\ (fibers # <<>> => journey # <<>>)
  /\ \A f \in DOMAIN fibers : "pc" \in DOMAIN fibers[f]

BInv == FibersTyped /\ \A g \in DOMAIN grantStates : Balanced(g)

(* The generated probe is a journey like any other.                        *)
LEMMA ProbeTyped == Effect!EffectProbe \in Seq(Effect!Phases)
  <1>1. /\ \A s, a \in Int : /\ Effect!Call(0, Effect!Entity, s, a) \in Effect!Calls
                             /\ Effect!Call(0, Effect!Elsewhere, s, a) \in Effect!Calls
        /\ \A a \in Int : Effect!CarryOn(a) \in Effect!Calls
    BY DEF Effect!Call, Effect!CarryOn, Effect!Calls
  <1>2. \A t \in Effect!Traces, l \in {"healthy", "defecting"}, i \in Nat, c \in Seq(Effect!Calls) :
          Effect!Phase(t, l, i, c) \in Effect!Phases
    BY DEF Effect!Phase, Effect!Phases
  <1>3. \A c, d \in Effect!Calls : <<c>> \in Seq(Effect!Calls) /\ <<c, d>> \in Seq(Effect!Calls)
    OBVIOUS
  <1>4. \A p, q, r, s, t, u, v \in Effect!Phases : <<p, q, r, s, t, u, v>> \in Seq(Effect!Phases)
    OBVIOUS
  <1>5. Effect!Phase("valid", "healthy", 1, <<Effect!Call(0, Effect!Entity, 10, 4)>>) \in Effect!Phases
    <2>1. <<Effect!Call(0, Effect!Entity, 10, 4)>> \in Seq(Effect!Calls) BY <1>1, <1>3
    <2> QED BY <1>2, <2>1 DEF Effect!Traces
  <1>6. Effect!Phase("reuse", "healthy", 0, <<Effect!CarryOn(1)>>) \in Effect!Phases
    <2>1. <<Effect!CarryOn(1)>> \in Seq(Effect!Calls) BY <1>1, <1>3
    <2> QED BY <1>2, <2>1 DEF Effect!Traces
  <1>7. Effect!Phase("competing", "healthy", 1,
          <<Effect!Call(0, Effect!Entity, 6, 2), Effect!Call(0, Effect!Entity, 6, 2)>>) \in Effect!Phases
    <2>1. <<Effect!Call(0, Effect!Entity, 6, 2), Effect!Call(0, Effect!Entity, 6, 2)>>
            \in Seq(Effect!Calls)
      BY <1>1, <1>3
    <2> QED BY <1>2, <2>1 DEF Effect!Traces
  <1>8. Effect!Phase("wrongDestination", "healthy", 1, <<Effect!Call(0, Effect!Elsewhere, 6, 2)>>) \in Effect!Phases
    <2>1. <<Effect!Call(0, Effect!Elsewhere, 6, 2)>> \in Seq(Effect!Calls) BY <1>1, <1>3
    <2> QED BY <1>2, <2>1 DEF Effect!Traces
  <1>9. Effect!Phase("disabled", "healthy", 1, <<Effect!Call(0, Effect!Entity, 6, 20)>>) \in Effect!Phases
    <2>1. <<Effect!Call(0, Effect!Entity, 6, 20)>> \in Seq(Effect!Calls) BY <1>1, <1>3
    <2> QED BY <1>2, <2>1 DEF Effect!Traces
  <1>10. Effect!Phase("defect", "defecting", 1, <<Effect!Call(0, Effect!Entity, 10, 4)>>) \in Effect!Phases
    <2>1. <<Effect!Call(0, Effect!Entity, 10, 4)>> \in Seq(Effect!Calls) BY <1>1, <1>3
    <2> QED BY <1>2, <2>1 DEF Effect!Traces
  <1>11. Effect!Phase("stale", "defecting", 0, <<Effect!Call(0, Effect!Entity, 10, 1)>>) \in Effect!Phases
    <2>1. <<Effect!Call(0, Effect!Entity, 10, 1)>> \in Seq(Effect!Calls) BY <1>1, <1>3
    <2> QED BY <1>2, <2>1 DEF Effect!Traces
  <1> QED BY <1>4, <1>5, <1>6, <1>7, <1>8, <1>9, <1>10, <1>11 DEF Effect!EffectProbe

(* What a step of fiber f leaves of the fibers. *)
OnlyMoves(f) ==
  /\ DOMAIN fibers' = DOMAIN fibers
  /\ \A h \in DOMAIN fibers : /\ "pc" \in DOMAIN fibers'[h]
                              /\ fibers'[h].grant = fibers[h].grant
                              /\ h # f => fibers'[h].pc = fibers[h].pc

(* The steps that neither take a grant's use nor run the implementation    *)
(* leave everybody's debts.                                                *)
LEMMA DueStays ==
  ASSUME NEW f \in DOMAIN fibers, OnlyMoves(f),
         fibers'[f].pc \in {"count", "run"} <=> fibers[f].pc \in {"count", "run"}
  PROVE  \A g : Due(g)' = Due(g)
  BY DEF OnlyMoves, Due

(* Taking a use adds a debt, and running takes it away. *)
LEMMA DueGrows ==
  ASSUME FibersTyped, NEW f \in DOMAIN fibers, OnlyMoves(f),
         fibers[f].pc = "consume", fibers'[f].pc = "count"
  PROVE  \A g : /\ Cardinality(Due(g)) \in Nat
                /\ Cardinality(Due(g)') = IF g = fibers[f].grant THEN Cardinality(Due(g)) + 1
                                          ELSE Cardinality(Due(g))
  <1> TAKE g
  <1>1. IsFiniteSet(Due(g))
    BY FS_Subset DEF FibersTyped, Due
  <1>2. f \notin Due(g)
    BY DEF Due
  <1>3. Due(g)' = IF g = fibers[f].grant THEN Due(g) \cup {f} ELSE Due(g)
    BY DEF OnlyMoves, Due
  <1> QED BY <1>1, <1>2, <1>3, FS_AddElement, FS_CardinalityType

(* The call that runs was due for its own grant and for no other.          *)
LEMMA DueShrinks ==
  ASSUME FibersTyped, NEW f \in DOMAIN fibers, OnlyMoves(f),
         fibers[f].pc = "run", fibers'[f].pc = "uses"
  PROVE  \A g : /\ Cardinality(Due(g)) \in Nat
                /\ Cardinality(Due(g)') = IF g = fibers[f].grant THEN Cardinality(Due(g)) - 1
                                          ELSE Cardinality(Due(g))
  <1> TAKE g
  <1>1. IsFiniteSet(Due(g))
    BY FS_Subset DEF FibersTyped, Due
  <1>2. g = fibers[f].grant => f \in Due(g)
    BY DEF Due
  <1>3. Due(g)' = IF g = fibers[f].grant THEN Due(g) \ {f} ELSE Due(g)
    BY DEF OnlyMoves, Due
  <1> QED BY <1>1, <1>2, <1>3, FS_RemoveElement, FS_CardinalityType

(* Before the journey no grant has been issued and nobody calls.           *)
LEMMA BoundaryInitHolds == Effect!JourneysAreTyped /\ Effect!BoundaryInit => BInv
  <1> SUFFICES ASSUME Effect!JourneysAreTyped, Effect!BoundaryInit PROVE BInv
    OBVIOUS
  <1>1. journey \in Seq(Effect!Phases)
    BY ProbeTyped DEF Effect!JourneysAreTyped, Effect!BoundaryInit
  <1>2. DOMAIN fibers = {} /\ DOMAIN grantStates = {}
    BY DEF Effect!BoundaryInit
  <1>3. FibersTyped
    BY <1>1, <1>2, FS_EmptySet DEF Effect!BoundaryInit, FibersTyped
  <1> QED BY <1>2, <1>3 DEF BInv

(* New grants are unused and owe nothing. *)
LEMMA BeginKeeps == BInv /\ Effect!Begin => BInv'
  <1> SUFFICES ASSUME BInv, Effect!Begin PROVE BInv'
    OBVIOUS
  <1> DEFINE phase == Head(journey)
  <1>0. fibers' = [i \in DOMAIN Head(journey).calls |->
                     Effect!Fiber(Head(journey).calls[i], Len(grantStates) + Head(journey).issues)]
    BY DEF Effect!Begin
  <1>1. /\ journey # <<>> /\ journey' = journey /\ DOMAIN fibers = {}
        /\ grantStates' = grantStates \o [i \in 1..phase.issues |-> "available"]
        /\ grantRuns' = grantRuns \o [i \in 1..phase.issues |-> 0]
        /\ fibers' = [i \in DOMAIN phase.calls |->
                        Effect!Fiber(phase.calls[i], Len(grantStates) + phase.issues)]
    BY <1>0 DEF Effect!Begin
  <1>2. phase \in Effect!Phases
    BY <1>1 DEF BInv, FibersTyped
  <1>3. phase.issues \in Nat /\ phase.calls \in Seq(Effect!Calls)
    BY <1>2 DEF Effect!Phases
  <1> HIDE DEF phase
  <1>4. /\ grantStates' \in Seq({"available", "consumed"}) /\ grantRuns' \in Seq(Nat)
        /\ Len(grantStates') = Len(grantStates) + phase.issues
        /\ Len(grantRuns') = Len(grantStates')
        /\ \A g \in DOMAIN grantStates : grantStates'[g] = grantStates[g] /\ grantRuns'[g] = grantRuns[g]
        /\ \A g \in DOMAIN grantStates' \ DOMAIN grantStates :
             grantStates'[g] = "available" /\ grantRuns'[g] = 0
    <2>1. /\ [i \in 1..phase.issues |-> "available"] \in Seq({"available", "consumed"})
          /\ [i \in 1..phase.issues |-> 0] \in Seq(Nat)
          /\ Len([i \in 1..phase.issues |-> "available"]) = phase.issues
          /\ Len([i \in 1..phase.issues |-> 0]) = phase.issues
      BY <1>3
    <2>2. /\ grantStates \in Seq({"available", "consumed"}) /\ grantRuns \in Seq(Nat)
          /\ Len(grantRuns) = Len(grantStates)
      BY DEF BInv, FibersTyped
    <2> QED BY <1>1, <1>3, <2>1, <2>2
  <1>5. /\ IsFiniteSet(DOMAIN fibers')
        /\ \A f \in DOMAIN fibers' : "pc" \in DOMAIN fibers'[f] /\ fibers'[f].pc = "check"
    <2>1. DOMAIN fibers' = 1..Len(phase.calls)
      BY <1>1, <1>3
    <2>2. IsFiniteSet(1..Len(phase.calls))
      BY <1>3, FS_Interval
    <2> QED BY <1>1, <2>1, <2>2 DEF Effect!Fiber
  <1>6. \A g : Due(g) = {} /\ Due(g)' = {}
    BY <1>1, <1>5 DEF Due
  <1>7. Cardinality({}) = 0
    BY FS_EmptySet
  <1>8. FibersTyped'
    BY <1>1, <1>4, <1>5 DEF BInv, FibersTyped
  <1>9. ASSUME NEW g \in DOMAIN grantStates' PROVE Balanced(g)'
    <2>1. CASE g \in DOMAIN grantStates
      BY <1>4, <1>6, <1>7, <2>1 DEF BInv, Balanced, Effect!RemainingUses
    <2>2. CASE g \notin DOMAIN grantStates
      <3>1. grantStates'[g] = "available" /\ grantRuns'[g] = 0
        BY <1>4, <1>9, <2>2
      <3>2. Cardinality(Due(g)') = 0
        BY <1>6, <1>7
      <3> QED BY <3>1, <3>2 DEF Balanced, Effect!RemainingUses
    <2> QED BY <2>1, <2>2
  <1> QED BY <1>8, <1>9 DEF BInv

(* A phase ends when all its calls are done: then none is due.             *)
LEMMA FinishKeeps == BInv /\ Effect!Finish => BInv'
  <1> SUFFICES ASSUME BInv, Effect!Finish PROVE BInv'
    OBVIOUS
  <1>1. /\ DOMAIN fibers' = {} /\ UNCHANGED <<grantStates, grantRuns>>
        /\ journey' = Tail(journey)
        /\ \A f \in DOMAIN fibers : fibers[f].pc = "done"
    BY DEF Effect!Finish
  <1>2. \A g : Due(g) = {} /\ Due(g)' = {}
    BY <1>1 DEF Due
  <1>3. FibersTyped'
    <2>1. journey' \in Seq(Effect!Phases)
      BY <1>1 DEF BInv, FibersTyped, Effect!Finish
    <2> QED BY <1>1, <2>1, FS_EmptySet DEF BInv, FibersTyped, Effect!Finish
  <1> QED BY <1>1, <1>2, <1>3 DEF BInv, Balanced, Effect!RemainingUses

(* A fiber's step moves that fiber and no other. *)
LEMMA StepMoves ==
  ASSUME FibersTyped, NEW f \in DOMAIN fibers, Effect!FiberStep(f)
  PROVE  OnlyMoves(f) /\ journey' = journey
  <1>a. ASSUME NEW p, Effect!Goes(f, p) PROVE OnlyMoves(f)
    BY <1>a DEF FibersTyped, Effect!Goes, OnlyMoves
  <1>b. ASSUME NEW o, Effect!Ends(f, o) PROVE OnlyMoves(f)
    BY <1>b DEF FibersTyped, Effect!Ends, OnlyMoves
  <1>1. CASE Effect!Check(f) BY <1>1, <1>a, <1>b DEF Effect!Check
  <1>2. CASE Effect!Consume(f) BY <1>2, <1>a, <1>b DEF Effect!Consume
  <1>3. CASE Effect!Count(f) BY <1>3 DEF FibersTyped, Effect!Count, Effect!Goes, OnlyMoves
  <1>4. CASE Effect!Run(f) BY <1>4 DEF FibersTyped, Effect!Run, OnlyMoves
  <1>5. CASE Effect!ReadUses(f) BY <1>5 DEF FibersTyped, Effect!ReadUses, OnlyMoves
  <1>6. CASE Effect!ReadCalls(f) BY <1>6 DEF FibersTyped, Effect!ReadCalls, OnlyMoves
  <1> QED BY <1>1, <1>2, <1>3, <1>4, <1>5, <1>6 DEF Effect!FiberStep

(* A step of a fiber keeps the journey and the calls well formed.          *)
LEMMA TypedStep ==
  ASSUME FibersTyped, NEW f \in DOMAIN fibers, Effect!FiberStep(f)
  PROVE  FibersTyped'
  <1>1. OnlyMoves(f) /\ journey' = journey
    BY StepMoves
  <1>2. journey' # <<>>
    BY <1>1 DEF FibersTyped
  <1>3. grantStates' \in Seq({"available", "consumed"}) /\ Len(grantStates') = Len(grantStates)
    <2>1. \/ UNCHANGED grantStates
          \/ \E g : grantStates' = [grantStates EXCEPT ![g] = "consumed"]
      BY DEF Effect!FiberStep, Effect!Check, Effect!Consume, Effect!Count, Effect!Run,
        Effect!ReadUses, Effect!ReadCalls
    <2> QED BY <2>1 DEF FibersTyped
  <1>4. grantRuns' \in Seq(Nat) /\ Len(grantRuns') = Len(grantRuns)
    <2>1. \/ UNCHANGED grantRuns
          \/ \E g : grantRuns' = [grantRuns EXCEPT ![g] = @ + 1]
      BY DEF Effect!FiberStep, Effect!Check, Effect!Consume, Effect!Count, Effect!Run,
        Effect!ReadUses, Effect!ReadCalls
    <2> QED BY <2>1 DEF FibersTyped
  <1> QED BY <1>1, <1>2, <1>3, <1>4 DEF FibersTyped, OnlyMoves

(* The step that takes a use and the step that runs the implementation are *)
(* the two that move the balance, and each moves both sides of it.         *)
LEMMA FiberKeeps ==
  ASSUME BInv, NEW f \in DOMAIN fibers, Effect!FiberStep(f)
  PROVE  BInv'
  <1>1. FibersTyped /\ OnlyMoves(f)
    BY StepMoves DEF BInv
  <1>2. FibersTyped'
    BY TypedStep DEF BInv
  <1>3. ASSUME UNCHANGED <<grantStates, grantRuns>>,
               fibers'[f].pc \in {"count", "run"} <=> fibers[f].pc \in {"count", "run"}
        PROVE  \A g \in DOMAIN grantStates' : Balanced(g)'
    <2>1. \A g : Due(g)' = Due(g) BY <1>1, <1>3, DueStays
    <2> QED BY <1>3, <2>1 DEF BInv, Balanced, Effect!RemainingUses
  <1>4. CASE Effect!Check(f)
    <2>1. fibers[f].pc = "check" /\ fibers'[f].pc \in {"uses", "consume"}
      BY <1>1, <1>4 DEF FibersTyped, Effect!Check, Effect!Goes, Effect!Ends
    <2> QED BY <1>2, <1>3, <1>4, <2>1 DEF BInv, Effect!Check
  <1>5. CASE Effect!Consume(f)
    <2>1. CASE grantStates[fibers[f].grant] = "available"
      <3>1. fibers[f].pc = "consume" /\ fibers'[f].pc = "count" /\ grantRuns' = grantRuns
        BY <1>1, <1>5, <2>1 DEF FibersTyped, Effect!Consume, Effect!Goes
      <3>2. grantStates' = [grantStates EXCEPT ![fibers[f].grant] = "consumed"]
        BY <1>5, <2>1 DEF Effect!Consume
      <3>3. ASSUME NEW g \in DOMAIN grantStates' PROVE Balanced(g)'
        <4>1. g \in DOMAIN grantStates /\ Balanced(g)
          BY <1>1, <3>2, <3>3 DEF BInv, FibersTyped
        <4>2. /\ Cardinality(Due(g)) \in Nat /\ grantRuns[g] \in Nat
              /\ Cardinality(Due(g)') = IF g = fibers[f].grant THEN Cardinality(Due(g)) + 1
                                        ELSE Cardinality(Due(g))
          BY <1>1, <3>1, <4>1, DueGrows DEF FibersTyped
        <4>3. Effect!RemainingUses(g)' = IF g = fibers[f].grant THEN 0 ELSE Effect!RemainingUses(g)
          BY <1>1, <3>2, <4>1 DEF Effect!RemainingUses, FibersTyped
        <4>4. g = fibers[f].grant => Effect!RemainingUses(g) = 1
          BY <2>1 DEF Effect!RemainingUses
        <4> QED BY <3>1, <4>1, <4>2, <4>3, <4>4 DEF Balanced
      <3> QED BY <1>2, <3>3 DEF BInv
    <2>2. CASE grantStates[fibers[f].grant] # "available"
      <3>1. fibers[f].pc = "consume" /\ fibers'[f].pc = "uses"
        BY <1>1, <1>5, <2>2 DEF FibersTyped, Effect!Consume, Effect!Ends
      <3> QED BY <1>2, <1>3, <1>5, <2>2, <3>1 DEF BInv, Effect!Consume
    <2> QED BY <2>1, <2>2
  <1>6. CASE Effect!Count(f)
    <2>1. fibers[f].pc = "count" /\ fibers'[f].pc = "run"
      BY <1>1, <1>6 DEF FibersTyped, Effect!Count, Effect!Goes
    <2> QED BY <1>2, <1>3, <1>6, <2>1 DEF BInv, Effect!Count
  <1>7. CASE Effect!Run(f)
    <2>1. fibers[f].pc = "run" /\ fibers'[f].pc = "uses" /\ grantStates' = grantStates
      BY <1>1, <1>7 DEF FibersTyped, Effect!Run
    <2>2. grantRuns' = [grantRuns EXCEPT ![fibers[f].grant] = @ + 1]
      BY <1>7 DEF Effect!Run
    <2>3. ASSUME NEW g \in DOMAIN grantStates' PROVE Balanced(g)'
      <3>1. g \in DOMAIN grantStates /\ g \in DOMAIN grantRuns /\ Balanced(g)
        BY <1>1, <2>1, <2>3 DEF BInv, FibersTyped
      <3>2. /\ Cardinality(Due(g)) \in Nat /\ grantRuns[g] \in Nat
            /\ Cardinality(Due(g)') = IF g = fibers[f].grant THEN Cardinality(Due(g)) - 1
                                      ELSE Cardinality(Due(g))
        BY <1>1, <2>1, <3>1, DueShrinks DEF FibersTyped
      <3>3. grantRuns'[g] = IF g = fibers[f].grant THEN grantRuns[g] + 1 ELSE grantRuns[g]
        BY <1>1, <2>2, <3>1 DEF FibersTyped
      <3> QED BY <2>1, <3>1, <3>2, <3>3 DEF Balanced, Effect!RemainingUses
    <2> QED BY <1>2, <2>3 DEF BInv
  <1>8. CASE Effect!ReadUses(f)
    <2>1. fibers[f].pc = "uses" /\ fibers'[f].pc = "calls"
      BY <1>1, <1>8 DEF FibersTyped, Effect!ReadUses
    <2> QED BY <1>2, <1>3, <1>8, <2>1 DEF BInv, Effect!ReadUses
  <1>9. CASE Effect!ReadCalls(f)
    <2>1. fibers[f].pc = "calls" /\ fibers'[f].pc = "done"
      BY <1>1, <1>9 DEF FibersTyped, Effect!ReadCalls
    <2> QED BY <1>2, <1>3, <1>9, <2>1 DEF BInv, Effect!ReadCalls
  <1> QED BY <1>4, <1>5, <1>6, <1>7, <1>8, <1>9 DEF Effect!FiberStep

(* One grant pays for one run, whatever competes for it: a use that is     *)
(* gone was run on or is about to be (resolution, consumeGrant and the     *)
(* wrapped implementation of the generated boundary).                      *)
LEMMA EffectGrantsBuyOneRun ==
  ASSUME Effect!JourneysAreTyped
  PROVE  Effect!BoundarySpec => []Effect!GrantsBuyOneRun
  <1>1. Effect!BoundaryInit => BInv
    BY BoundaryInitHolds
  <1>2. BInv /\ [Effect!BoundaryNext]_(Effect!boundaryVars) => BInv'
    <2> SUFFICES ASSUME BInv, [Effect!BoundaryNext]_(Effect!boundaryVars) PROVE BInv'
      OBVIOUS
    <2>1. CASE UNCHANGED Effect!boundaryVars
      BY <2>1 DEF Effect!boundaryVars, BInv, FibersTyped, Balanced, Due, Effect!RemainingUses
    <2>2. CASE Effect!BoundaryNext
      BY <2>2, BeginKeeps, FinishKeeps, FiberKeeps DEF Effect!BoundaryNext
    <2> QED BY <2>1, <2>2
  <1>3. BInv => Effect!GrantsBuyOneRun
    <2>1. \A S : Effect!Cardinality(S) = Cardinality(S)
      BY DEF Effect!Cardinality, Cardinality
    <2> QED BY <2>1 DEF BInv, Balanced, Due, Effect!GrantsBuyOneRun
  <1> QED BY <1>1, <1>2, <1>3, PTL DEF Effect!BoundarySpec
-----------------------------------------------------------------------------
Ops == {"issue", "uses", "withdraw", "first", "defect", "stop"}
Tags == {"Grant", "Uses", "Success", "Stopped", "StaleGrantRejected", "WrongDestination",
         "DomainRejected", "CapabilityUseRejected"}
Grants == [incarnation : Nat, number : Nat]
Replies == [tag : Tags, trace : Gleam!Traces, state : Int, remaining : {0, 1}, calls : Nat,
            grant : Grants]
ClientStates == [status : {"idle", "waiting", "crashed"}, waiting : Nat, inbox : Seq(Replies),
                 grant : Grants, sent : Nat]
Actors == [status : {"running", "failed", "stopped"}, balance : Int, incarnation : Nat \ {0},
           nextGrant : Nat, consumed : SUBSET Grants, calls : Nat]

(* A sender waits for none but an answer. *)
Awaited(m) == m.leaves = "waiting" => m.op # "defect"
Steps == {s \in [op : Ops, trace : Gleam!Traces, destination : {Gleam!Here, Gleam!There},
                 amount : Int, leaves : {"idle", "waiting"}] : Awaited(s)}
Messages == {m \in [from : Gleam!Clients, op : Ops, trace : Gleam!Traces,
                    destination : {Gleam!Here, Gleam!There}, amount : Int, leaves : {"idle", "waiting"}, grant : Grants] : Awaited(m)}

ActorTyped ==
  /\ actor \in Actors /\ script \in Seq(Steps)
  /\ operationRuns \in Seq([grant : Grants, incarnation : Nat])
  /\ granted \subseteq Grants /\ \A g \in granted : g.incarnation \in 1..actor.incarnation

(* Grants are only passed on. *)
Known == granted \cup {Gleam!NoGrant}

MailIsSound ==
  mailbox \in Seq(Messages) /\ \A i \in DOMAIN mailbox : mailbox[i].grant \in Known

(* A client that waits is due an answer. *)
IsSound(k, known) ==
  /\ k.grant \in known
  /\ \A i \in DOMAIN k.inbox : k.inbox[i].grant \in known
  /\ k.status = "waiting" => k.waiting > 0

ClientsAreSound ==
  clients \in [Gleam!Clients -> ClientStates] /\ \A c \in Gleam!Clients : IsSound(clients[c], Known)

(* An actor that runs has not forgotten what its grants were used for. *)
Remembered ==
  exactOne /\ actor.status = "running" =>
    \A i \in DOMAIN operationRuns :
      operationRuns[i].grant.incarnation = actor.incarnation => operationRuns[i].grant \in actor.consumed

EInv == ActorTyped /\ MailIsSound /\ ClientsAreSound /\ Remembered /\ Gleam!GrantsBuyOneRun
-----------------------------------------------------------------------------
(* What clients send and the actor answers are steps, messages,            *)
LEMMA StepTyped ==
  ASSUME NEW op \in Ops, NEW t \in Gleam!Traces, NEW d \in {Gleam!Here, Gleam!There}, NEW a \in Int
  PROVE  Gleam!Step(op, t, d, a) \in Steps
  BY DEF Gleam!Step, Steps, Awaited

(* messages that carry the grant they were given,                          *)
LEMMA MessageTyped ==
  ASSUME NEW c \in Gleam!Clients, NEW s \in Steps, NEW g \in Grants
  PROVE  Gleam!Message(c, s, g) \in Messages /\ Gleam!Message(c, s, g).grant = g
  BY DEF Gleam!Message, Messages, Steps, Ops, Awaited

(* clients that wait for an answer,                                        *)
LEMMA AskedTyped ==
  ASSUME NEW k \in ClientStates, NEW m \in Messages
  PROVE  /\ Gleam!Asked(k, m) \in ClientStates /\ Gleam!Asked(k, m).grant = k.grant
         /\ Gleam!Asked(k, m).inbox = k.inbox
         /\ Gleam!Asked(k, m).status = "waiting" => Gleam!Asked(k, m).waiting > 0
  BY DEF Gleam!Asked, ClientStates, Messages, Awaited

(* and clients that have it, with the grant it brought.                    *)
LEMMA AnsweredTyped ==
  ASSUME NEW k \in ClientStates, k.status = "waiting", k.waiting > 0, Len(k.inbox) = k.waiting
  PROVE  /\ Gleam!Answered(k) \in ClientStates /\ Gleam!Answered(k).status = "idle"
         /\ Gleam!Answered(k).inbox = <<>>
         /\ Gleam!Answered(k).grant \in {k.grant, k.inbox[1].grant} /\ 1 \in DOMAIN k.inbox
  <1>1. k.inbox \in Seq(Replies) /\ Len(k.inbox) > 0
    BY DEF ClientStates
  <1>2. 1 \in DOMAIN k.inbox /\ k.inbox[1] \in Replies
    BY <1>1
  <1>3. k.inbox[1].grant \in Grants
    BY <1>2 DEF Replies
  <1>4. <<>> \in Seq(Replies)
    OBVIOUS
  <1> QED BY <1>2, <1>3, <1>4 DEF Gleam!Answered, ClientStates

(* The generated probe is a script of such steps.                          *)
LEMMA ScriptTyped == Gleam!ProbeScript \in Seq(Steps)
  <1>1. \A s \in Steps : <<s>> \in Seq(Steps)
    OBVIOUS
  <1>2. \A s, t \in Seq(Steps) : s \o t \in Seq(Steps)
    OBVIOUS
  <1>3. Gleam!Issue \in Steps
    BY StepTyped DEF Gleam!Issue, Ops, Gleam!Traces
  <1>4. \A t \in Gleam!Traces : Gleam!Uses(t) \in Steps
    BY StepTyped DEF Gleam!Uses, Ops
  <1>5. \A t \in Gleam!Traces, d \in {Gleam!Here, Gleam!There}, a \in Int : Gleam!Withdraw(t, d, a) \in Steps
    BY StepTyped DEF Gleam!Withdraw, Ops
  <1>6. \A t \in Gleam!Traces, s \in Seq(Steps) : Gleam!Between(t, s) \in Seq(Steps)
    <2> TAKE t \in Gleam!Traces, s \in Seq(Steps)
    <2>1. <<Gleam!Uses(t)>> \in Seq(Steps)
      BY <1>1, <1>4
    <2>2. <<Gleam!Uses(t)>> \o s \in Seq(Steps)
      BY <1>2, <2>1
    <2> QED BY <1>2, <2>1, <2>2 DEF Gleam!Between
  <1>7. \A t \in Gleam!Traces, d \in {Gleam!Here, Gleam!There}, a \in Int :
          Gleam!Between(t, <<Gleam!Withdraw(t, d, a)>>) \in Seq(Steps)
    BY <1>1, <1>5, <1>6
  <1>8. <<Gleam!Step("first", "competing", Gleam!Here, 2),
          Gleam!Withdraw("competing", Gleam!Here, 2)>> \in Seq(Steps)
    <2>1. Gleam!Step("first", "competing", Gleam!Here, 2) \in Steps
      BY StepTyped DEF Ops, Gleam!Traces
    <2>2. Gleam!Withdraw("competing", Gleam!Here, 2) \in Steps
      BY <1>5 DEF Gleam!Traces
    <2> QED BY <2>1, <2>2
  <1>9. <<Gleam!Issue, Gleam!Uses("defect"), Gleam!Step("defect", "defect", Gleam!Here, 1)>> \in Seq(Steps)
    <2>1. Gleam!Step("defect", "defect", Gleam!Here, 1) \in Steps
      BY StepTyped DEF Ops, Gleam!Traces
    <2>2. Gleam!Uses("defect") \in Steps
      BY <1>4 DEF Gleam!Traces
    <2> QED BY <1>3, <2>1, <2>2
  <1>10. <<Gleam!Step("stop", "valid", Gleam!Here, 0)>> \in Seq(Steps)
    BY <1>1, StepTyped DEF Ops, Gleam!Traces
  <1>11. <<Gleam!Issue>> \in Seq(Steps)
    BY <1>1, <1>3
  <1>12. {"valid", "reuse", "competing", "wrongDestination", "disabled", "defect", "stale",
          "replacement"} \subseteq Gleam!Traces
    BY DEF Gleam!Traces
  <1> DEFINE part(t, d, a) == Gleam!Between(t, <<Gleam!Withdraw(t, d, a)>>)
             race == Gleam!Between("competing",
                       <<Gleam!Step("first", "competing", Gleam!Here, 2),
                         Gleam!Withdraw("competing", Gleam!Here, 2)>>)
             fault == <<Gleam!Issue, Gleam!Uses("defect"), Gleam!Step("defect", "defect", Gleam!Here, 1)>>
  <1>13. race \in Seq(Steps)
    BY <1>6, <1>8, <1>12
  <1>14. <<Gleam!Issue>> \o part("valid", Gleam!Here, 4) \o part("reuse", Gleam!Here, 1) \in Seq(Steps)
    BY <1>2, <1>7, <1>11, <1>12
  <1>15. <<Gleam!Issue>> \o part("valid", Gleam!Here, 4) \o part("reuse", Gleam!Here, 1)
           \o <<Gleam!Issue>> \o race
           \in Seq(Steps)
    BY <1>2, <1>11, <1>13, <1>14
  <1> QED
    BY <1>2, <1>7, <1>9, <1>10, <1>11, <1>12, <1>15 DEF Gleam!ProbeScript
-----------------------------------------------------------------------------
(* The first incarnation has issued nothing, and nobody has sent anything. *)
LEMMA EntityInitHolds == Gleam!EntityInit => EInv
  <1> SUFFICES ASSUME Gleam!EntityInit PROVE EInv
    OBVIOUS
  <1>1. Gleam!NoGrant \in Grants /\ <<>> \in Seq(Replies) /\ <<>> \in Seq(Steps) /\ <<>> \in Seq(Messages)
    BY DEF Gleam!NoGrant, Grants
  <1>2. Gleam!Client \in ClientStates
    BY <1>1 DEF Gleam!Client, ClientStates
  <1>3. actor \in Actors
    BY DEF Gleam!EntityInit, Gleam!Fresh, Actors, Gleam!Initial
  <1>4. script \in Seq(Steps)
    <2>1. script \in {<<>>, Gleam!ProbeScript}
      BY DEF Gleam!EntityInit
    <2> QED BY <1>1, <2>1, ScriptTyped
  <1>5. ActorTyped
    BY <1>3, <1>4 DEF Gleam!EntityInit, ActorTyped
  <1>6. MailIsSound
    BY <1>1 DEF Gleam!EntityInit, MailIsSound
  <1>7. ClientsAreSound
    BY <1>2 DEF Gleam!EntityInit, ClientsAreSound, IsSound, Known, Gleam!Client
  <1> QED BY <1>5, <1>6, <1>7 DEF Gleam!EntityInit, EInv, Remembered, Gleam!GrantsBuyOneRun

(* What a step that runs nothing and issues nothing must keep. *)
Kept == UNCHANGED <<exactOne, actor, granted, operationRuns>>

(* While the actor and its runs stay, it is enough that mail and clients   *)
(* stay sound.                                                             *)
LEMMA KeptSuffices ==
  ASSUME EInv, Kept, MailIsSound', ClientsAreSound', script' \in Seq(Steps)
  PROVE  EInv'
  <1>1. ActorTyped'
    BY DEF EInv, ActorTyped, Kept
  <1>2. Remembered'
    BY DEF EInv, Remembered, Kept
  <1>3. Gleam!GrantsBuyOneRun'
    BY DEF EInv, Gleam!GrantsBuyOneRun, Kept
  <1> QED BY <1>1, <1>2, <1>3 DEF EInv

(* One client changes, and stays sound. *)
LEMMA OneClient ==
  ASSUME ClientsAreSound, granted \subseteq granted', NEW c \in Gleam!Clients, NEW k \in ClientStates,
         clients' = [clients EXCEPT ![c] = k], IsSound(k, Known')
  PROVE  ClientsAreSound'
  <1>1. clients' \in [Gleam!Clients -> ClientStates]
    BY DEF ClientsAreSound
  <1>2. ASSUME NEW d \in Gleam!Clients, d # c PROVE IsSound(clients'[d], Known')
    <2>1. clients'[d] = clients[d]
      BY <1>2 DEF ClientsAreSound
    <2>2. IsSound(clients[d], Known)
      BY DEF ClientsAreSound
    <2> QED BY <2>1, <2>2 DEF IsSound, Known
  <1>3. clients'[c] = k
    BY DEF ClientsAreSound
  <1>4. IsSound(clients'[c], Known')
    BY <1>3 DEF IsSound, Known
  <1> QED BY <1>1, <1>2, <1>4 DEF ClientsAreSound

(* Sending adds a message whose grant is known.                            *)
LEMMA SendHolds ==
  ASSUME EInv, Kept, script' \in Seq(Steps), NEW c \in Gleam!Clients, NEW m \in Messages,
         m.grant \in Known, Gleam!Send(c, m)
  PROVE  EInv'
  <1>1. clients[c] \in ClientStates /\ IsSound(clients[c], Known)
    BY DEF EInv, ClientsAreSound
  <1>2. granted' = granted
    BY DEF Kept
  <1>3. CASE actor.status = "running"
    <2> DEFINE k == Gleam!Asked(clients[c], m)
    <2>1. mailbox' = Append(mailbox, m) /\ clients' = [clients EXCEPT ![c] = k]
      BY <1>3 DEF Gleam!Send
    <2>2. /\ k \in ClientStates /\ k.grant = clients[c].grant /\ k.inbox = clients[c].inbox
          /\ k.status = "waiting" => k.waiting > 0
      BY <1>1, AskedTyped
    <2>3. MailIsSound'
      BY <1>2, <2>1 DEF EInv, MailIsSound, Known
    <2> HIDE DEF k
    <2>4. IsSound(k, Known')
      BY <1>1, <1>2, <2>2 DEF IsSound, Known
    <2>5. ClientsAreSound'
      BY <1>2, <2>1, <2>2, <2>4, OneClient DEF EInv
    <2> QED BY <2>3, <2>5, KeptSuffices
  <1>4. CASE actor.status # "running"
    <2> DEFINE k == [clients[c] EXCEPT !.status = "crashed"]
    <2>1. mailbox' = mailbox /\ clients' = [clients EXCEPT ![c] = k]
      BY <1>4 DEF Gleam!Send
    <2>2. /\ k \in ClientStates /\ k.grant = clients[c].grant /\ k.inbox = clients[c].inbox
          /\ k.status = "crashed"
      BY <1>1 DEF ClientStates
    <2>3. MailIsSound'
      BY <1>2, <2>1 DEF EInv, MailIsSound, Known
    <2> HIDE DEF k
    <2>4. IsSound(k, Known')
      BY <1>1, <1>2, <2>2 DEF IsSound, Known
    <2>5. ClientsAreSound'
      BY <1>2, <2>1, <2>2, <2>4, OneClient DEF EInv
    <2> QED BY <2>3, <2>5, KeptSuffices
  <1> QED BY <1>3, <1>4
-----------------------------------------------------------------------------
(* An answer to a client brings it a grant that is known.                  *)
LEMMA AnsweredClients ==
  ASSUME ClientsAreSound, granted \subseteq granted', NEW c \in Gleam!Clients, NEW r \in Replies,
         r.grant \in Known', clients' = [clients EXCEPT ![c].inbox = Append(@, r)]
  PROVE  ClientsAreSound'
  <1>1. clients[c] \in ClientStates /\ IsSound(clients[c], Known)
    BY DEF ClientsAreSound
  <1>2. Append(clients[c].inbox, r) \in Seq(Replies)
    BY <1>1 DEF ClientStates
  <1> DEFINE k == [clients[c] EXCEPT !.inbox = Append(clients[c].inbox, r)]
  <1>3. clients' = [clients EXCEPT ![c] = k]
    OBVIOUS
  <1>4. /\ k \in ClientStates /\ k.grant = clients[c].grant /\ k.status = clients[c].status
        /\ k.waiting = clients[c].waiting /\ k.inbox = Append(clients[c].inbox, r)
    BY <1>1, <1>2 DEF ClientStates
  <1> HIDE DEF k
  <1>5. \A i \in DOMAIN k.inbox : k.inbox[i].grant \in Known'
    <2>1. clients[c].inbox \in Seq(Replies)
      BY <1>1 DEF ClientStates
    <2>2. \A i \in DOMAIN clients[c].inbox : clients[c].inbox[i].grant \in Known'
      BY <1>1 DEF IsSound, Known
    <2> QED BY <1>4, <2>1, <2>2
  <1>6. IsSound(k, Known')
    BY <1>1, <1>4, <1>5 DEF IsSound, Known
  <1> QED BY <1>3, <1>4, <1>6, OneClient

(* The message at the head is sound, and so is the mail without it.        *)
LEMMA NextMessage ==
  ASSUME MailIsSound, mailbox # <<>>
  PROVE  /\ Head(mailbox) \in Messages /\ Head(mailbox).grant \in Known
         /\ (granted \subseteq granted' /\ mailbox' \in {Tail(mailbox), <<>>}) => MailIsSound'
  <1>1. mailbox \in Seq(Messages) /\ \A i \in DOMAIN mailbox : mailbox[i].grant \in Known
    BY DEF MailIsSound
  <1>2. 1 \in DOMAIN mailbox /\ Head(mailbox) = mailbox[1]
    BY <1>1
  <1>3. ASSUME granted \subseteq granted', mailbox' = Tail(mailbox) PROVE MailIsSound'
    BY <1>1, <1>3 DEF MailIsSound, Known
  <1>4. ASSUME mailbox' = <<>> PROVE MailIsSound'
    BY <1>4 DEF MailIsSound
  <1> QED BY <1>1, <1>2, <1>3, <1>4

(* A reply carries the grant of its message.                               *)
LEMMA ReplyTyped ==
  ASSUME NEW m \in Messages, NEW tag \in Tags, NEW next \in Actors, NEW n \in {0, 1}
  PROVE  Gleam!Reply(m, tag, next, n) \in Replies /\ Gleam!Reply(m, tag, next, n).grant = m.grant
  BY DEF Gleam!Reply, Replies, Messages, Actors

(* Issuing a grant changes the next number only,                           *)
LEMMA ActorIssues ==
  ASSUME NEW a \in Actors, NEW n \in Nat, NEW b, b = [a EXCEPT !.nextGrant = n]
  PROVE  /\ b \in Actors /\ b.status = a.status
         /\ b.incarnation = a.incarnation /\ b.consumed = a.consumed
  BY Zenon DEF Actors

(* a failure or a stop the status only,                                    *)
LEMMA ActorEnds ==
  ASSUME NEW a \in Actors, NEW s \in {"running", "failed", "stopped"}, NEW b,
         b = [a EXCEPT !.status = s]
  PROVE  /\ b \in Actors /\ b.status = s
         /\ b.incarnation = a.incarnation /\ b.consumed = a.consumed
  BY Zenon DEF Actors

(* and a withdrawal the balance only, of what the record of uses rests on. *)
LEMMA ActorSpends ==
  ASSUME NEW a \in Actors, NEW x \in Int, NEW b, b = [a EXCEPT !.balance = x]
  PROVE  /\ b \in Actors /\ b.status = a.status
         /\ b.incarnation = a.incarnation /\ b.consumed = a.consumed
  BY Zenon DEF Actors

(* A grant that is not refused was issued by this incarnation, and nothing *)
(* was run on it.                                                          *)
LEMMA RunsOnce ==
  ASSUME EInv, actor.status = "running", UNCHANGED <<exactOne, granted>>,
         NEW m \in Messages, m.grant \in Known, exactOne => Gleam!Refusal(m) = "none",
         operationRuns' = Gleam!Recorded(m.grant)
  PROVE  /\ operationRuns' \in Seq([grant : Grants, incarnation : Nat])
         /\ Gleam!GrantsBuyOneRun'
  <1> DEFINE run == [grant |-> m.grant, incarnation |-> actor.incarnation]
             n == Len(operationRuns)
  <1>1. operationRuns \in Seq([grant : Grants, incarnation : Nat])
    BY DEF EInv, ActorTyped
  <1>2. actor.incarnation \in Nat \ {0}
    BY DEF EInv, ActorTyped, Actors
  <1>3. run \in [grant : Grants, incarnation : Nat]
    BY <1>2 DEF Messages
  <1>4. operationRuns' = Append(operationRuns, run)
    BY DEF Gleam!Recorded
  <1>5. operationRuns' \in Seq([grant : Grants, incarnation : Nat])
    BY <1>1, <1>3, <1>4
  <1>6. ASSUME exactOne PROVE Gleam!GrantsBuyOneRun'
    <2>1. m.grant.incarnation = actor.incarnation /\ m.grant \notin actor.consumed
      BY <1>6 DEF Gleam!Refusal, Gleam!RemainingFor
    <2>2. m.grant \in granted
      <3>1. m.grant # Gleam!NoGrant
        BY <1>2, <2>1 DEF Gleam!NoGrant
      <3> QED BY <3>1 DEF Known
    <2>3. \A i \in 1..n : operationRuns[i].grant # m.grant
      BY <1>1, <1>6, <2>1 DEF EInv, Remembered
    <2>4. \A i \in 1..n : /\ operationRuns'[i] = operationRuns[i]
                         /\ operationRuns[i].grant \in granted
                         /\ operationRuns[i].incarnation = operationRuns[i].grant.incarnation
                         /\ \A j \in 1..n : operationRuns[i].grant = operationRuns[j].grant => i = j
      BY <1>1, <1>3, <1>4, <1>6 DEF EInv, Gleam!GrantsBuyOneRun
    <2>5. /\ DOMAIN operationRuns' = 1..(n + 1) /\ n \in Nat
          /\ operationRuns'[n + 1].grant = m.grant
          /\ operationRuns'[n + 1].incarnation = actor.incarnation
      BY <1>1, <1>3, <1>4
    <2> HIDE DEF n, run
    <2> QED BY <2>1, <2>2, <2>3, <2>4, <2>5 DEF Gleam!GrantsBuyOneRun
  <1>7. ASSUME ~exactOne PROVE Gleam!GrantsBuyOneRun'
    BY <1>7 DEF Gleam!GrantsBuyOneRun
  <1> QED BY <1>5, <1>6, <1>7
-----------------------------------------------------------------------------
(* A grant issued is new: its number has not been given in this            *)
(* incarnation.                                                            *)
LEMMA IssueHolds ==
  ASSUME EInv, NEW m \in Messages, Gleam!HandleIssue(m), MailIsSound', UNCHANGED <<exactOne, script>>
  PROVE  EInv'
  <1> DEFINE g == [incarnation |-> actor.incarnation, number |-> actor.nextGrant]
             mm == [m EXCEPT !.grant = g]
  <1>1. /\ actor \in Actors /\ actor.incarnation \in Nat \ {0} /\ actor.nextGrant \in Nat
        /\ m.from \in Gleam!Clients
    BY DEF EInv, ActorTyped, Actors, Messages
  <1>2. g \in Grants /\ g.incarnation = actor.incarnation
    BY <1>1 DEF Grants
  <1>3. /\ actor' = [actor EXCEPT !.nextGrant = actor.nextGrant + 1]
        /\ granted' = granted \cup {g} /\ operationRuns' = operationRuns
        /\ Gleam!Answers(mm, Gleam!Reply(mm, "Grant", actor, 1))
    BY DEF Gleam!HandleIssue
  <1>4. /\ actor' \in Actors /\ actor'.status = actor.status
        /\ actor'.incarnation = actor.incarnation /\ actor'.consumed = actor.consumed
    <2>1. actor.nextGrant + 1 \in Nat
      BY <1>1
    <2> QED BY <1>1, <1>3, <2>1, ActorIssues, Zenon
  <1> HIDE DEF g
  <1>5. mm \in Messages /\ mm.grant = g /\ mm.from = m.from
    BY <1>2, Zenon DEF Messages, Awaited
  <1> HIDE DEF mm
  <1>6. ClientsAreSound'
    <2> DEFINE r == Gleam!Reply(mm, "Grant", actor, 1)
    <2>1. r \in Replies /\ r.grant = g
      BY <1>1, <1>5, ReplyTyped DEF Tags
    <2>2. clients' = [clients EXCEPT ![m.from].inbox = Append(@, r)]
      BY <1>3, <1>5 DEF Gleam!Answers
    <2>3. r.grant \in Known' /\ granted \subseteq granted'
      BY <1>3, <2>1 DEF Known
    <2> HIDE DEF r
    <2> QED BY <1>1, <2>1, <2>2, <2>3, AnsweredClients DEF EInv
  <1>7. ActorTyped'
    <2>1. \A h \in granted' : h.incarnation \in 1..actor.incarnation
      BY <1>1, <1>2, <1>3 DEF EInv, ActorTyped
    <2> QED BY <1>2, <1>3, <1>4, <2>1 DEF EInv, ActorTyped
  <1>8. Remembered'
    BY <1>3, <1>4 DEF EInv, Remembered
  <1>9. Gleam!GrantsBuyOneRun'
    BY <1>3 DEF EInv, Gleam!GrantsBuyOneRun
  <1> QED BY <1>6, <1>7, <1>8, <1>9 DEF EInv

(* A grant has one use or none left.                                       *)
LEMMA RemainingTyped == \A g : Gleam!RemainingFor(g) \in {0, 1}
  BY DEF Gleam!RemainingFor

(* Refused, or asked what is left. *)
LEMMA AnswerHolds ==
  ASSUME EInv, NEW m \in Messages, m.grant \in Known, NEW tag \in Tags, NEW n \in {0, 1},
         Gleam!Answers(m, Gleam!Reply(m, tag, actor, n)), Kept, UNCHANGED script, MailIsSound'
  PROVE  EInv'
  <1> DEFINE r == Gleam!Reply(m, tag, actor, n)
  <1>1. r \in Replies /\ r.grant = m.grant
    BY ReplyTyped DEF EInv, ActorTyped
  <1>2. clients' = [clients EXCEPT ![m.from].inbox = Append(@, r)] /\ m.from \in Gleam!Clients
    BY DEF Gleam!Answers, Messages
  <1>3. r.grant \in Known' /\ granted \subseteq granted'
    BY <1>1 DEF Known, Kept
  <1> HIDE DEF r
  <1>4. ClientsAreSound'
    BY <1>1, <1>2, <1>3, AnsweredClients DEF EInv
  <1> QED BY <1>4, KeptSuffices DEF EInv, ActorTyped

(* A withdrawal runs only for a grant that is not consumed, and consumes it*)
(* before the implementation is called.                                    *)
LEMMA WithdrawHolds ==
  ASSUME EInv, actor.status = "running", NEW m \in Messages, m.grant \in Known,
         Gleam!HandleWithdraw(m), MailIsSound', UNCHANGED <<exactOne, script>>
  PROVE  EInv'
  <1> DEFINE used == IF exactOne THEN actor.consumed \cup {m.grant} ELSE actor.consumed
             calls == actor.calls + 1
             after == Gleam!ConsumedState(m.grant)
             balance == after.balance - m.amount
             next == [after EXCEPT !.balance = balance]
             r == Gleam!Reply(m, "Success", next, 0)
  <1>1. /\ actor \in Actors /\ actor.calls \in Nat
        /\ actor.consumed \subseteq Grants /\ actor.incarnation \in Nat \ {0}
        /\ m.from \in Gleam!Clients /\ m.amount \in Int /\ m.grant \in Grants
    BY DEF EInv, ActorTyped, Actors, Messages
  <1>2. /\ after \in Actors /\ after.status = actor.status
        /\ after.incarnation = actor.incarnation /\ after.consumed = used
    <2>1. used \in SUBSET Grants /\ calls \in Nat
      BY <1>1
    <2>2. after = [actor EXCEPT !.consumed = used, !.calls = calls]
      BY Zenon DEF Gleam!ConsumedState
    <2> HIDE DEF used, calls, after
    <2> QED BY <1>1, <2>1, <2>2, Zenon DEF Actors
  <1>3. /\ actor' = next /\ granted' = granted /\ operationRuns' = Gleam!Recorded(m.grant)
        /\ Gleam!Answers(m, r) /\ Gleam!Refusal(m) = "none"
    BY Zenon DEF Gleam!HandleWithdraw
  <1> HIDE DEF after
  <1>4. next \in Actors /\ next.status = actor.status /\ next.incarnation = actor.incarnation
        /\ next.consumed = used
    <2>1. balance \in Int
      BY <1>1, <1>2 DEF Actors
    <2>2. next = [after EXCEPT !.balance = balance]
      OBVIOUS
    <2> HIDE DEF used, balance, next
    <2>3. /\ next \in Actors /\ next.status = after.status
          /\ next.incarnation = after.incarnation /\ next.consumed = after.consumed
      BY <1>2, <2>1, <2>2, ActorSpends, Zenon
    <2> QED BY <1>2, <2>3
  <1> HIDE DEF next
  <1>5. r \in Replies /\ r.grant = m.grant
    BY <1>4, ReplyTyped DEF Tags
  <1> HIDE DEF r
  <1>6. ClientsAreSound'
    <2>1. clients' = [clients EXCEPT ![m.from].inbox = Append(@, r)]
      BY <1>3 DEF Gleam!Answers
    <2>2. r.grant \in Known' /\ granted \subseteq granted'
      BY <1>3, <1>5 DEF Known
    <2> QED BY <1>1, <1>5, <2>1, <2>2, AnsweredClients DEF EInv
  <1>7. operationRuns' \in Seq([grant : Grants, incarnation : Nat]) /\ Gleam!GrantsBuyOneRun'
    BY <1>3, RunsOnce
  <1>8. ActorTyped'
    BY <1>3, <1>4, <1>7 DEF EInv, ActorTyped
  <1>9. Remembered'
    <2> SUFFICES ASSUME exactOne, NEW i \in DOMAIN operationRuns',
                        operationRuns'[i].grant.incarnation = actor.incarnation
                 PROVE  operationRuns'[i].grant \in used
      BY <1>3, <1>4 DEF Remembered
    <2> DEFINE run == [grant |-> m.grant, incarnation |-> actor.incarnation]
    <2>1. operationRuns' = Append(operationRuns, run) /\ run.grant = m.grant
      BY <1>3 DEF Gleam!Recorded
    <2>2. operationRuns \in Seq([grant : Grants, incarnation : Nat])
      BY DEF EInv, ActorTyped
    <2> HIDE DEF run
    <2>3. operationRuns'[i] = run \/ (i \in DOMAIN operationRuns /\ operationRuns'[i] = operationRuns[i])
      BY <2>1, <2>2
    <2> QED BY <2>1, <2>3 DEF EInv, Remembered
  <1> QED BY <1>6, <1>7, <1>8, <1>9 DEF EInv

(* The actor leaves, and what it remembers with it. *)
LEMMA DownHolds ==
  ASSUME EInv, UNCHANGED <<exactOne, script, granted>>, NEW s \in {"failed", "stopped"},
         actor' = [actor EXCEPT !.status = s], MailIsSound', ClientsAreSound',
         operationRuns' \in Seq([grant : Grants, incarnation : Nat]), Gleam!GrantsBuyOneRun'
  PROVE  EInv'
  <1>1. actor' \in Actors /\ actor'.status = s /\ actor'.incarnation = actor.incarnation
    <2>1. actor \in Actors /\ s \in {"running", "failed", "stopped"}
      BY DEF EInv, ActorTyped
    <2> QED BY <2>1, ActorEnds, Zenon
  <1>2. ActorTyped' /\ Remembered'
    BY <1>1 DEF EInv, ActorTyped, Remembered
  <1> QED BY <1>2 DEF EInv
-----------------------------------------------------------------------------
(* The probe sends the next step of its script with the grant it holds.    *)
LEMMA ProbeSendsHolds == EInv /\ Gleam!ProbeSends => EInv'
  <1> SUFFICES ASSUME EInv, Gleam!ProbeSends PROVE EInv'
    OBVIOUS
  <1> DEFINE m == Gleam!Message(Gleam!Probe, Head(script), clients[Gleam!Probe].grant)
  <1>1. script \in Seq(Steps) /\ script # <<>>
    BY DEF EInv, ActorTyped, Gleam!ProbeSends
  <1>2. Head(script) \in Steps /\ script' \in Seq(Steps)
    BY <1>1 DEF Gleam!ProbeSends
  <1>3. /\ Gleam!Probe \in Gleam!Clients
        /\ clients[Gleam!Probe].grant \in Known /\ clients[Gleam!Probe].grant \in Grants
    BY DEF Gleam!Clients, EInv, ClientsAreSound, IsSound, ClientStates
  <1>4. m \in Messages /\ m.grant \in Known
    BY <1>2, <1>3, MessageTyped
  <1>5. Gleam!Send(Gleam!Probe, m) /\ Kept
    BY DEF Gleam!ProbeSends, Kept
  <1> HIDE DEF m
  <1> QED BY <1>2, <1>3, <1>4, <1>5, SendHolds

(* A rival sends any step with any grant that has been issued.             *)
LEMMA RivalSendsHolds ==
  ASSUME Gleam!AmountsAreIntegers, EInv, NEW c \in Rivals, Gleam!RivalSends(c)
  PROVE  EInv'
  <1>1. PICK op \in {"issue", "withdraw", "defect", "stop"}, destination \in {Gleam!Here, Gleam!There},
             amount \in RivalAmounts, grant \in granted \cup {Gleam!NoGrant} :
          Gleam!Send(c, Gleam!Message(c, Gleam!Step(op, "valid", destination, amount), grant))
    BY DEF Gleam!RivalSends
  <1>2. Gleam!Step(op, "valid", destination, amount) \in Steps
    BY StepTyped DEF Gleam!AmountsAreIntegers, Ops, Gleam!Traces
  <1>3. c \in Gleam!Clients /\ grant \in Known /\ grant \in Grants
    <2>1. granted \subseteq Grants /\ Gleam!NoGrant \in Grants
      BY DEF EInv, ActorTyped, Gleam!NoGrant, Grants
    <2> QED BY <2>1 DEF Gleam!Clients, Known
  <1> DEFINE m == Gleam!Message(c, Gleam!Step(op, "valid", destination, amount), grant)
  <1>4. m \in Messages /\ m.grant \in Known
    BY <1>2, <1>3, MessageTyped
  <1>5. Kept /\ script' \in Seq(Steps)
    BY DEF Gleam!RivalSends, Kept, EInv, ActorTyped
  <1>6. Gleam!Send(c, m)
    BY <1>1
  <1> HIDE DEF m
  <1> QED BY <1>3, <1>4, <1>5, <1>6, SendHolds

(* A client takes the answer it waited for, and the grant in it.           *)
LEMMA ReceiveHolds ==
  ASSUME EInv, NEW c \in Gleam!Clients, Gleam!Receive(c)
  PROVE  EInv'
  <1> DEFINE k == Gleam!Answered(clients[c])
  <1>1. clients[c] \in ClientStates /\ IsSound(clients[c], Known)
    BY DEF EInv, ClientsAreSound
  <1>2. /\ clients[c].status = "waiting" /\ clients[c].waiting > 0
        /\ Len(clients[c].inbox) = clients[c].waiting
    BY <1>1 DEF IsSound, Gleam!Receive
  <1>3. /\ k \in ClientStates /\ k.status = "idle" /\ k.inbox = <<>>
        /\ k.grant \in {clients[c].grant, clients[c].inbox[1].grant}
        /\ 1 \in DOMAIN clients[c].inbox
    BY <1>1, <1>2, AnsweredTyped
  <1>4. clients' = [clients EXCEPT ![c] = k] /\ Kept /\ mailbox' = mailbox /\ script' = script
    BY DEF Gleam!Receive, Kept
  <1> HIDE DEF k
  <1>5. IsSound(k, Known') /\ granted \subseteq granted'
    BY <1>1, <1>3, <1>4 DEF IsSound, Known, Kept
  <1>6. ClientsAreSound'
    BY <1>3, <1>4, <1>5, OneClient DEF EInv
  <1>7. MailIsSound' /\ script' \in Seq(Steps)
    BY <1>4 DEF EInv, MailIsSound, Known, Kept, ActorTyped
  <1> QED BY <1>4, <1>6, <1>7, KeptSuffices

(* A client that gives up keeps its grant.                                 *)
LEMMA CallFailsHolds ==
  ASSUME EInv, NEW c \in Gleam!Clients, Gleam!CallFails(c)
  PROVE  EInv'
  <1> DEFINE k == [clients[c] EXCEPT !.status = "crashed"]
  <1>1. clients[c] \in ClientStates /\ IsSound(clients[c], Known)
    BY DEF EInv, ClientsAreSound
  <1>2. /\ k \in ClientStates /\ k.grant = clients[c].grant /\ k.inbox = clients[c].inbox
        /\ k.status = "crashed"
    BY <1>1 DEF ClientStates
  <1>3. clients' = [clients EXCEPT ![c] = k] /\ Kept /\ mailbox' = mailbox /\ script' = script
    BY DEF Gleam!CallFails, Kept
  <1> HIDE DEF k
  <1>4. IsSound(k, Known') /\ granted \subseteq granted'
    BY <1>1, <1>2, <1>3 DEF IsSound, Known, Kept
  <1>5. ClientsAreSound'
    BY <1>2, <1>3, <1>4, OneClient DEF EInv
  <1>6. MailIsSound' /\ script' \in Seq(Steps)
    BY <1>3 DEF EInv, MailIsSound, Known, Kept, ActorTyped
  <1> QED BY <1>3, <1>5, <1>6, KeptSuffices

(* The actor handles one message at a time.                                *)
LEMMA HandleHolds == EInv /\ Gleam!Handle => EInv'
  <1> SUFFICES ASSUME EInv, Gleam!Handle PROVE EInv'
    OBVIOUS
  <1> DEFINE m == Head(mailbox)
  <1>1. /\ actor.status = "running" /\ mailbox # <<>> /\ mailbox' \in {Tail(mailbox), <<>>}
        /\ UNCHANGED <<exactOne, script>>
    BY DEF Gleam!Handle
  <1>2. \/ Gleam!HandleIssue(m) \/ Gleam!HandleUses(m) \/ Gleam!Refuse(m) \/ Gleam!HandleWithdraw(m)
        \/ Gleam!HandleDefect(m) \/ Gleam!HandleStop(m)
    BY DEF Gleam!Handle
  <1>3. granted \subseteq granted'
    BY <1>2 DEF Gleam!HandleIssue, Gleam!HandleUses, Gleam!Refuse, Gleam!HandleWithdraw,
      Gleam!HandleDefect, Gleam!HandleStop
  <1>4. m \in Messages /\ m.grant \in Known /\ MailIsSound'
    BY <1>1, <1>3, NextMessage DEF EInv
  <1> HIDE DEF m
  <1>5. CASE Gleam!HandleIssue(m)
    BY <1>1, <1>4, <1>5, IssueHolds
  <1>6. CASE Gleam!HandleUses(m)
    <2>1. Gleam!Answers(m, Gleam!Reply(m, "Uses", actor, Gleam!RemainingFor(m.grant))) /\ Kept
      BY <1>1, <1>6 DEF Gleam!HandleUses, Kept
    <2>2. "Uses" \in Tags
      BY DEF Tags
    <2> QED BY <1>1, <1>4, <2>1, <2>2, AnswerHolds, RemainingTyped
  <1>7. CASE Gleam!Refuse(m)
    <2> DEFINE tag == Gleam!Refusal(m)
               n == IF tag \in {"StaleGrantRejected", "CapabilityUseRejected"} THEN 0
                    ELSE Gleam!RemainingFor(m.grant)
    <2>1. Gleam!Answers(m, Gleam!Reply(m, tag, actor, n)) /\ Kept
      BY <1>1, <1>7 DEF Gleam!Refuse, Kept
    <2>2. tag \in Tags
      BY <1>7 DEF Gleam!Refuse, Gleam!Refusal, Tags
    <2>3. n \in {0, 1}
      BY RemainingTyped
    <2> HIDE DEF tag, n
    <2> QED BY <1>1, <1>4, <2>1, <2>2, <2>3, AnswerHolds
  <1>8. CASE Gleam!HandleWithdraw(m)
    BY <1>1, <1>4, <1>8, WithdrawHolds
  <1>9. CASE Gleam!HandleDefect(m)
    <2>1. ClientsAreSound'
      BY <1>9 DEF EInv, ClientsAreSound, IsSound, Known, Gleam!HandleDefect
    <2>2. CASE exactOne /\ Gleam!Refusal(m) # "none"
      <3>1. Kept
        BY <1>1, <1>9, <2>2 DEF Gleam!HandleDefect, Kept
      <3>2. script' \in Seq(Steps)
        BY <1>1 DEF EInv, ActorTyped
      <3> QED BY <1>4, <2>1, <3>1, <3>2, KeptSuffices
    <2>3. CASE ~(exactOne /\ Gleam!Refusal(m) # "none")
      <3>1. /\ actor' = [actor EXCEPT !.status = "failed"] /\ granted' = granted
            /\ operationRuns' = Gleam!Recorded(m.grant)
            /\ exactOne => Gleam!Refusal(m) = "none"
        BY <1>9, <2>3 DEF Gleam!HandleDefect
      <3>2. operationRuns' \in Seq([grant : Grants, incarnation : Nat]) /\ Gleam!GrantsBuyOneRun'
        BY <1>1, <1>4, <3>1, RunsOnce
      <3> QED BY <1>1, <1>4, <2>1, <3>1, <3>2, DownHolds
    <2> QED BY <2>2, <2>3
  <1>10. CASE Gleam!HandleStop(m)
    <2> DEFINE r == Gleam!Reply(m, "Stopped", actor, 0)
    <2>1. /\ clients' = [clients EXCEPT ![m.from].inbox = Append(@, r)] /\ m.from \in Gleam!Clients
          /\ actor' = [actor EXCEPT !.status = "stopped"] /\ UNCHANGED <<granted, operationRuns>>
      BY <1>4, <1>10 DEF Gleam!HandleStop, Gleam!Answers, Messages
    <2>2. r \in Replies /\ r.grant \in Known'
      BY <1>4, <2>1, ReplyTyped DEF Tags, EInv, ActorTyped, Known
    <2> HIDE DEF r
    <2>3. ClientsAreSound'
      BY <1>3, <2>1, <2>2, AnsweredClients DEF EInv
    <2>4. operationRuns' \in Seq([grant : Grants, incarnation : Nat]) /\ Gleam!GrantsBuyOneRun'
      BY <1>1, <2>1 DEF EInv, ActorTyped, Gleam!GrantsBuyOneRun
    <2> QED BY <1>1, <1>4, <2>1, <2>3, <2>4, DownHolds
  <1> QED BY <1>2, <1>5, <1>6, <1>7, <1>8, <1>9, <1>10

(* The new incarnation has consumed nothing, and no grant in existence is  *)
(* of it.                                                                  *)
LEMMA RestartHolds == EInv /\ Gleam!Restart => EInv'
  <1> SUFFICES ASSUME EInv, Gleam!Restart PROVE EInv'
    OBVIOUS
  <1>1. actor.incarnation \in Nat \ {0}
    BY DEF EInv, ActorTyped, Actors
  <1>2. /\ actor' = Gleam!Fresh(actor.incarnation + 1)
        /\ UNCHANGED <<exactOne, mailbox, clients, script, granted, operationRuns>>
    BY DEF Gleam!Restart
  <1>3. /\ actor' \in Actors /\ actor'.incarnation = actor.incarnation + 1
    BY <1>1, <1>2 DEF Gleam!Fresh, Actors, Gleam!Initial
  <1>4. \A g \in granted : g.incarnation \in 1..actor.incarnation
    BY DEF EInv, ActorTyped
  <1>5. ActorTyped'
    BY <1>1, <1>2, <1>3, <1>4 DEF EInv, ActorTyped
  <1>6. MailIsSound' /\ ClientsAreSound'
    BY <1>2 DEF EInv, MailIsSound, ClientsAreSound, IsSound, Known
  <1>7. Gleam!GrantsBuyOneRun'
    BY <1>2 DEF EInv, Gleam!GrantsBuyOneRun
  <1>8. Remembered'
    BY <1>1, <1>2, <1>3, <1>4 DEF EInv, Remembered, Gleam!GrantsBuyOneRun
  <1> QED BY <1>5, <1>6, <1>7, <1>8 DEF EInv

(* Every step keeps the entity's invariant. *)
LEMMA EntityKeeps ==
  ASSUME Gleam!AmountsAreIntegers, EInv, [Gleam!EntityNext]_(Gleam!entityVars)
  PROVE  EInv'
  <1>1. CASE Gleam!ProbeSends
    BY <1>1, ProbeSendsHolds
  <1>2. CASE Gleam!Handle
    BY <1>2, HandleHolds
  <1>3. CASE Gleam!Restart
    BY <1>3, RestartHolds
  <1>4. CASE Gleam!GiveUp
    <2>1. /\ actor' = [actor EXCEPT !.status = "stopped"]
          /\ UNCHANGED <<exactOne, mailbox, clients, script, granted, operationRuns>>
      BY <1>4 DEF Gleam!GiveUp
    <2>2. MailIsSound' /\ ClientsAreSound' /\ Gleam!GrantsBuyOneRun'
      BY <2>1 DEF EInv, MailIsSound, ClientsAreSound, IsSound, Known, Gleam!GrantsBuyOneRun
    <2>3. operationRuns' \in Seq([grant : Grants, incarnation : Nat])
      BY <2>1 DEF EInv, ActorTyped
    <2> QED BY <2>1, <2>2, <2>3, DownHolds
  <1>5. ASSUME NEW c \in Gleam!Clients, Gleam!Receive(c) \/ Gleam!CallFails(c) PROVE EInv'
    BY <1>5, ReceiveHolds, CallFailsHolds
  <1>6. ASSUME NEW c \in Rivals, Gleam!RivalSends(c) PROVE EInv'
    BY <1>6, RivalSendsHolds
  <1>7. CASE UNCHANGED Gleam!entityVars
    <2>1. Kept /\ UNCHANGED <<mailbox, clients, script>>
      BY <1>7 DEF Gleam!entityVars, Kept
    <2>2. MailIsSound' /\ ClientsAreSound' /\ script' \in Seq(Steps)
      BY <2>1 DEF EInv, MailIsSound, ClientsAreSound, IsSound, Known, Kept, ActorTyped
    <2> QED BY <2>1, <2>2, KeptSuffices
  <1> QED BY <1>1, <1>2, <1>3, <1>4, <1>5, <1>6, <1>7 DEF Gleam!EntityNext

(* A grant buys one run of the operation, in the incarnation that issued   *)
(* it: an actor that runs remembers every grant of its incarnation it ran  *)
(* on, and one that is restarted is given no grant of its own              *)
(* (emitExactOneEntity: handle_message, start_actor).                      *)
LEMMA EntityGrantsBuyOneRun ==
  ASSUME Gleam!AmountsAreIntegers
  PROVE  Gleam!EntitySpec => []Gleam!GrantsBuyOneRun
  <1>1. Gleam!EntityInit => EInv
    BY EntityInitHolds
  <1>2. EInv /\ [Gleam!EntityNext]_(Gleam!entityVars) => EInv'
    BY EntityKeeps
  <1>3. EInv => Gleam!GrantsBuyOneRun
    BY DEF EInv
  <1> QED BY <1>1, <1>2, <1>3, PTL DEF Gleam!EntitySpec

(* At both generated boundaries one grant buys one run of the              *)
(* implementation, however many callers compete for it, however a run      *)
(* ends, and, for the supervised entity, however often its actor is        *)
(* restarted (emitExactOneBoundary, emitExactOneEntity).                   *)
THEOREM GrantsBuyOneRunAtBoth ==
  Effect!BoundarySpec /\ Gleam!EntitySpec => []GrantsBuyOneRun
  <1>1. Effect!BoundarySpec => []Effect!GrantsBuyOneRun
    BY EffectGrantsBuyOneRun, JourneysAssumption
  <1>2. Gleam!EntitySpec => []Gleam!GrantsBuyOneRun
    BY EntityGrantsBuyOneRun, AmountsAssumption
  <1>3. Effect!GrantsBuyOneRun /\ Gleam!GrantsBuyOneRun => GrantsBuyOneRun
    BY DEF GrantsBuyOneRun
  <1> QED BY <1>1, <1>2, <1>3, PTL
-----------------------------------------------------------------------------
(* What a schedule says of itself, step by step: a message it delivers,    *)
(* the messages of the protocol delivered in their causal order among the  *)
(* first steps, a forced completion, a delivery that comes too early.      *)
Plays(sel, steps, d, op) ==
  steps[d].action = "deliver" /\ Trace!MessageOf(sel.protocol, steps[d].messageId).operation = op
Drops(sel, steps, d, op) ==
  steps[d].action = "drop" /\ Trace!MessageOf(sel.protocol, steps[d].messageId).operation = op

Prepares(sel, steps, n) == \E a \in 1..n : Plays(sel, steps, a, "Prepare")
Commits(sel, steps, n) ==
  \E a, b \in 1..n : a < b /\ Plays(sel, steps, a, "Prepare") /\ Plays(sel, steps, b, "Commit")
Acknowledges(sel, steps, n) ==
  \E a, b, c \in 1..n : /\ a < b /\ b < c /\ Plays(sel, steps, a, "Prepare")
                        /\ Plays(sel, steps, b, "Commit") /\ Plays(sel, steps, c, "Ack")
Forces(steps, n) == \E d \in 1..n : steps[d].action = "complete"
Early(sel, steps, d) == \/ Plays(sel, steps, d, "Commit") /\ ~Prepares(sel, steps, d)
                        \/ Plays(sel, steps, d, "Ack") /\ ~Commits(sel, steps, d)

(* The identity of the one message of an operation.                        *)
IdOf(sel, op) == (CHOOSE m \in Trace!MessagesOf(sel.protocol) : m.operation = op).id

(* What a trace says after n steps of its schedule, when the messages of   *)
(* hd are handled: every attempt it shows is of one of these steps         *)
FromSteps(steps, n, tr) ==
  \A i \in Trace!AttemptEvents(tr) :
    \E d \in Trace!Deliveries(steps) : /\ d <= n
                                       /\ tr.observations[i].attemptId = steps[d].attemptId

(* and passes the evaluator's inspection;                                  *)
StandsUp(sel, steps, tr) ==
  \A i \in Trace!AttemptEvents(tr) : Trace!ValidateObservation(sel, steps, tr, i)

(* it is forced at most once, when the schedule forces it;                 *)
ForcesTell(steps, n, tr) ==
  \/ Trace!Tagged(tr, "ForcedCompletion") = {} /\ ~Forces(steps, n)
  \/ \E i, d : /\ Trace!Tagged(tr, "ForcedCompletion") = {i}
               /\ d \in 1..n /\ {e \in 1..n : steps[e].action = "complete"} = {d}

(* a message is handled once, after its cause, when the schedule delivers  *)
(* it after its cause, and an acknowledgement only by an owner not forced; *)
HandledTell(sel, steps, n, tr, hd) ==
  /\ hd = Trace!HandledIn(tr) /\ hd \subseteq {IdOf(sel, op) : op \in Trace!Operations}
  /\ IdOf(sel, "Prepare") \in hd <=> Prepares(sel, steps, n)
  /\ IdOf(sel, "Commit") \in hd <=> Commits(sel, steps, n)
  /\ IdOf(sel, "Ack") \in hd <=> Acknowledges(sel, steps, n) /\ ~Forces(steps, n)
  /\ \A i \in Trace!Tagged(tr, "Handled") :
       LET id == tr.observations[i].messageId
       IN /\ id \notin Trace!HandledBefore(tr, i)
          /\ Trace!MessageOf(sel.protocol, id).causalParent \subseteq Trace!HandledBefore(tr, i)

(* a delivery is rejected for its cause when it comes too early;           *)
EarlyTell(sel, steps, n, tr) ==
  (\E i \in Trace!Tagged(tr, "Rejected") : tr.observations[i].reason = "causal-parent-not-handled")
    <=> \E d \in 1..n : Early(sel, steps, d)

(* an acknowledgement is seen dropped when the schedule drops it;          *)
ShowsAck(sel, tr, i) ==
  Trace!MessageOf(sel.protocol, tr.observations[i].messageId).operation = "Ack"

DropsTell(sel, steps, n, tr) ==
  (\E i \in Trace!Tagged(tr, "Dropped") : ShowsAck(sel, tr, i)) <=> \E d \in 1..n : Drops(sel, steps, d, "Ack")

(* and the owners and the count of moves follow from all this.             *)
OwnersTell(sel, steps, n, tr, hd) ==
  /\ tr.ownerA = IF Forces(steps, n) \/ IdOf(sel, "Ack") \in hd THEN "complete" ELSE "waiting"
  /\ tr.ownerB = IF IdOf(sel, "Commit") \in hd THEN "committed"
                 ELSE IF IdOf(sel, "Prepare") \in hd THEN "prepared" ELSE "idle"
  /\ tr.mutations = Cardinality(hd) + IF Forces(steps, n) THEN 1 ELSE 0

Tells(sel, steps, n, tr, hd) ==
  /\ IsList(tr.observations)
  /\ FromSteps(steps, n, tr) /\ StandsUp(sel, steps, tr) /\ ForcesTell(steps, n, tr)
  /\ HandledTell(sel, steps, n, tr, hd) /\ EarlyTell(sel, steps, n, tr)
  /\ DropsTell(sel, steps, n, tr) /\ OwnersTell(sel, steps, n, tr, hd)

(* The trace of the running schedule, as it would be kept now.             *)
Running == [observations |-> observed, ownerA |-> ownerA, ownerB |-> ownerB,
            mutations |-> mutations]

AtStart == /\ traces = <<>> /\ taken = 0 /\ observed = <<>> /\ handled = {} /\ mutations = 0
           /\ ownerA = "waiting" /\ ownerB = "idle"

(* The inductive invariant: every trace kept, and the one being made, says *)
(* what its schedule says.                                                 *)
TracesInv ==
  /\ stage = "selection" => AtStart
  /\ stage \in {"execution", "evaluation"} =>
       /\ Len(traces) <= Len(selection.schedules)
       /\ \A k \in DOMAIN traces : \E hd :
            Tells(selection, selection.schedules[k], Len(selection.schedules[k]), traces[k], hd)
  /\ stage = "execution" /\ Len(traces) < Len(selection.schedules) =>
       Tells(selection, Trace!schedule, taken, Running, handled)
  /\ stage = "evaluation" => Len(traces) = Len(selection.schedules)

VInv == IInv /\ TracesInv /\ VerdictsTellTheSchedules
-----------------------------------------------------------------------------
(* A schedule of a selection that was found valid.                         *)
Ready(sel, steps) ==
  /\ sel \in TraceSelections /\ Trace!ValidateSelection(sel)
  /\ \E k \in DOMAIN sel.schedules : steps = sel.schedules[k]

(* The protocol has one message of each operation, each caused by the one  *)
(* before it and sent the way its operation demands.                       *)
LEMMA TheMessages ==
  ASSUME Trace!SelectionsAreDecoded, NEW sel \in TraceSelections, Trace!ValidateSelection(sel)
  PROVE  \E mp, mc, ma \in Trace!MessagesOf(sel.protocol) :
           /\ Trace!MessagesOf(sel.protocol) = {mp, mc, ma}
           /\ mp.operation = "Prepare" /\ mc.operation = "Commit" /\ ma.operation = "Ack"
           /\ mp.id # mc.id /\ mp.id # ma.id /\ mc.id # ma.id
           /\ mp.causalParent = {} /\ mc.causalParent = {mp.id} /\ ma.causalParent = {mc.id}
  <1> DEFINE ms == sel.protocol.messages
  <1>1. DOMAIN ms = 1..3 /\ \A x, y \in 1..3 : x # y => ms[x].id # ms[y].id
    BY DEF Trace!SelectionsAreDecoded, Trace!ValidateSelection, Trace!ValidateProtocol, Trace!Distinct
  <1>2. \A op \in Trace!Operations : \E m \in Trace!MessagesOf(sel.protocol) : m.operation = op
    BY DEF Trace!ValidateSelection, Trace!ValidateProtocol
  <1>3. Trace!MessagesOf(sel.protocol) = {ms[x] : x \in 1..3}
    BY <1>1 DEF Trace!MessagesOf
  <1> HIDE DEF ms
  <1>4. PICK x, y, z \in 1..3 :
          ms[x].operation = "Prepare" /\ ms[y].operation = "Commit" /\ ms[z].operation = "Ack"
    BY <1>2, <1>3 DEF Trace!Operations
  <1>5. x # y /\ x # z /\ y # z /\ 1..3 = {x, y, z}
    <2>1. x # y /\ x # z /\ y # z
      BY <1>4
    <2> QED BY <2>1
  <1>6. Trace!MessagesOf(sel.protocol) = {ms[x], ms[y], ms[z]}
    BY <1>3, <1>5
  <1>7. ms[x].id # ms[y].id /\ ms[x].id # ms[z].id /\ ms[y].id # ms[z].id
    BY <1>1, <1>5
  <1>8. \A m \in Trace!MessagesOf(sel.protocol) : Trace!ValidMessage(sel.protocol, m)
    BY DEF Trace!ValidateSelection, Trace!ValidateProtocol
  <1>9. ms[x].causalParent = {}
    BY <1>4, <1>6, <1>8 DEF Trace!ValidMessage
  <1>10. ms[y].causalParent = {ms[x].id}
    BY <1>4, <1>6, <1>8 DEF Trace!ValidMessage, Trace!ParentOperation
  <1>11. ms[z].causalParent = {ms[y].id}
    BY <1>4, <1>6, <1>8 DEF Trace!ValidMessage, Trace!ParentOperation
  <1> QED BY <1>4, <1>6, <1>7, <1>9, <1>10, <1>11

(* Messages by their operation, and by their identity.                     *)
LEMMA MessageNames ==
  ASSUME Trace!SelectionsAreDecoded, NEW sel \in TraceSelections, Trace!ValidateSelection(sel)
  PROVE  /\ \A m \in Trace!MessagesOf(sel.protocol) :
              /\ m.operation \in Trace!Operations /\ m.id = IdOf(sel, m.operation)
              /\ Trace!MessageOf(sel.protocol, m.id) = m
              /\ m.operation = "Prepare" => m.causalParent = {}
              /\ m.operation = "Commit" => m.causalParent = {IdOf(sel, "Prepare")}
              /\ m.operation = "Ack" => m.causalParent = {IdOf(sel, "Commit")}
         /\ \A op \in Trace!Operations :
              \E m \in Trace!MessagesOf(sel.protocol) : m.operation = op /\ m.id = IdOf(sel, op)
         /\ IdOf(sel, "Prepare") # IdOf(sel, "Commit") /\ IdOf(sel, "Prepare") # IdOf(sel, "Ack")
         /\ IdOf(sel, "Commit") # IdOf(sel, "Ack")
  <1>1. PICK mp, mc, ma \in Trace!MessagesOf(sel.protocol) :
           /\ Trace!MessagesOf(sel.protocol) = {mp, mc, ma}
           /\ mp.operation = "Prepare" /\ mc.operation = "Commit" /\ ma.operation = "Ack"
           /\ mp.id # mc.id /\ mp.id # ma.id /\ mc.id # ma.id
           /\ mp.causalParent = {} /\ mc.causalParent = {mp.id} /\ ma.causalParent = {mc.id}
    BY TheMessages
  <1>2. /\ (CHOOSE m \in Trace!MessagesOf(sel.protocol) : m.operation = "Prepare") = mp
        /\ (CHOOSE m \in Trace!MessagesOf(sel.protocol) : m.operation = "Commit") = mc
        /\ (CHOOSE m \in Trace!MessagesOf(sel.protocol) : m.operation = "Ack") = ma
    BY <1>1
  <1>3. IdOf(sel, "Prepare") = mp.id /\ IdOf(sel, "Commit") = mc.id /\ IdOf(sel, "Ack") = ma.id
    BY <1>2 DEF IdOf
  <1>4. /\ (CHOOSE m \in Trace!MessagesOf(sel.protocol) : m.id = mp.id) = mp
        /\ (CHOOSE m \in Trace!MessagesOf(sel.protocol) : m.id = mc.id) = mc
        /\ (CHOOSE m \in Trace!MessagesOf(sel.protocol) : m.id = ma.id) = ma
    BY <1>1
  <1>5. \A m \in {mp, mc, ma} : Trace!MessageOf(sel.protocol, m.id) = m
    BY <1>4 DEF Trace!MessageOf
  <1> QED BY <1>1, <1>3, <1>5 DEF Trace!Operations

(* The steps of a schedule and the messages they name.                     *)
LEMMA StepMessage ==
  ASSUME Trace!SelectionsAreDecoded, NEW sel, NEW steps, Ready(sel, steps)
  PROVE  /\ DOMAIN steps = 1..Len(steps) /\ Len(steps) \in Nat
         /\ \A d \in Trace!Deliveries(steps) :
              LET m == Trace!MessageOf(sel.protocol, steps[d].messageId)
              IN m \in Trace!MessagesOf(sel.protocol) /\ m.id = steps[d].messageId
         /\ \A d, e \in Trace!Deliveries(steps) :
              steps[d].attemptId = steps[e].attemptId => d = e
  <1>1. PICK k \in DOMAIN sel.schedules : steps = sel.schedules[k]
    BY DEF Ready
  <1>2. DOMAIN steps = 1..Len(steps) /\ Len(steps) \in Nat
    BY <1>1 DEF Ready, Trace!SelectionsAreDecoded
  <1>3. ASSUME NEW d \in Trace!Deliveries(steps)
        PROVE  \E m \in Trace!MessagesOf(sel.protocol) : m.id = steps[d].messageId
    BY <1>1 DEF Ready, Trace!ValidateSelection, Trace!ValidateSchedules, Trace!Deliveries
  <1>4. ASSUME NEW d \in Trace!Deliveries(steps), NEW e \in Trace!Deliveries(steps),
               steps[d].attemptId = steps[e].attemptId
        PROVE  d = e
    BY <1>1, <1>4 DEF Ready, Trace!ValidateSelection, Trace!ValidateSchedules
  <1>5. ASSUME NEW d \in Trace!Deliveries(steps)
        PROVE  LET m == Trace!MessageOf(sel.protocol, steps[d].messageId)
               IN m \in Trace!MessagesOf(sel.protocol) /\ m.id = steps[d].messageId
    BY <1>3 DEF Trace!MessageOf
  <1> QED BY <1>2, <1>4, <1>5

(* What one more step adds to what a schedule says.                        *)
LEMMA OneMoreStep ==
  ASSUME NEW sel, NEW steps, NEW n \in Nat
  PROVE  /\ Prepares(sel, steps, n + 1) <=> Prepares(sel, steps, n) \/ Plays(sel, steps, n + 1, "Prepare")
         /\ Commits(sel, steps, n + 1) <=>
              \/ Commits(sel, steps, n)
              \/ Prepares(sel, steps, n) /\ Plays(sel, steps, n + 1, "Commit")
         /\ Acknowledges(sel, steps, n + 1) <=>
              \/ Acknowledges(sel, steps, n)
              \/ Commits(sel, steps, n) /\ Plays(sel, steps, n + 1, "Ack")
         /\ Forces(steps, n + 1) <=> Forces(steps, n) \/ steps[n + 1].action = "complete"
         /\ Early(sel, steps, n + 1) <=>
              \/ Plays(sel, steps, n + 1, "Commit") /\ ~Prepares(sel, steps, n)
              \/ Plays(sel, steps, n + 1, "Ack") /\ ~Commits(sel, steps, n)
         /\ (\E d \in 1..(n + 1) : Early(sel, steps, d)) <=>
              (\E d \in 1..n : Early(sel, steps, d)) \/ Early(sel, steps, n + 1)
         /\ (\E d \in 1..(n + 1) : Drops(sel, steps, d, "Ack")) <=>
              (\E d \in 1..n : Drops(sel, steps, d, "Ack")) \/ Drops(sel, steps, n + 1, "Ack")
         /\ Commits(sel, steps, n) => Prepares(sel, steps, n)
         /\ Acknowledges(sel, steps, n) => Commits(sel, steps, n)
  <1>0. 1..(n + 1) = (1..n) \cup {n + 1} /\ \A a \in 1..n : a < n + 1
    OBVIOUS
  <1>1. Prepares(sel, steps, n + 1) <=> Prepares(sel, steps, n) \/ Plays(sel, steps, n + 1, "Prepare")
    BY <1>0 DEF Prepares
  <1>2. Commits(sel, steps, n + 1) <=>
              \/ Commits(sel, steps, n)
              \/ Prepares(sel, steps, n) /\ Plays(sel, steps, n + 1, "Commit")
    BY <1>0 DEF Commits, Prepares
  <1>3. Acknowledges(sel, steps, n + 1) <=>
              \/ Acknowledges(sel, steps, n)
              \/ Commits(sel, steps, n) /\ Plays(sel, steps, n + 1, "Ack")
    BY <1>0 DEF Commits, Acknowledges
  <1>4. Forces(steps, n + 1) <=> Forces(steps, n) \/ steps[n + 1].action = "complete"
    BY <1>0 DEF Forces
  <1>5. /\ Plays(sel, steps, n + 1, "Commit") => ~Plays(sel, steps, n + 1, "Prepare")
        /\ Plays(sel, steps, n + 1, "Ack") => ~Plays(sel, steps, n + 1, "Commit")
    BY DEF Plays
  <1>6. Early(sel, steps, n + 1) <=>
              \/ Plays(sel, steps, n + 1, "Commit") /\ ~Prepares(sel, steps, n)
              \/ Plays(sel, steps, n + 1, "Ack") /\ ~Commits(sel, steps, n)
    BY <1>1, <1>2, <1>5 DEF Early
  <1>7. (\E d \in 1..(n + 1) : Early(sel, steps, d)) <=>
              (\E d \in 1..n : Early(sel, steps, d)) \/ Early(sel, steps, n + 1)
    BY <1>0
  <1>8. (\E d \in 1..(n + 1) : Drops(sel, steps, d, "Ack")) <=>
              (\E d \in 1..n : Drops(sel, steps, d, "Ack")) \/ Drops(sel, steps, n + 1, "Ack")
    BY <1>0
  <1>9. Commits(sel, steps, n) => Prepares(sel, steps, n)
    BY DEF Commits, Prepares
  <1>10. Acknowledges(sel, steps, n) => Commits(sel, steps, n)
    BY DEF Commits, Acknowledges
  <1> QED BY <1>1, <1>2, <1>3, <1>4, <1>6, <1>7, <1>8, <1>9, <1>10
-----------------------------------------------------------------------------
(* A trace grows by the m observations of a step.                          *)
Longer(tr, tr2, m) ==
  /\ IsList(tr.observations) /\ IsList(tr2.observations)
  /\ Len(tr2.observations) = Len(tr.observations) + m
  /\ \A i \in 1..Len(tr.observations) : tr2.observations[i] = tr.observations[i]

(* What was observed before stays what it was.                             *)
LEMMA OldEvents ==
  ASSUME NEW tr, NEW tr2, NEW m \in Nat, Longer(tr, tr2, m)
  PROVE  LET N == Len(tr.observations)
         IN /\ N \in Nat /\ Trace!Events(tr) = 1..N /\ Trace!Events(tr2) = 1..(N + m)
            /\ \A tag : Trace!Tagged(tr2, tag) = Trace!Tagged(tr, tag)
                          \cup {i \in (N + 1)..(N + m) : tr2.observations[i].tag = tag}
            /\ \A i \in 1..(N + 1) : Trace!HandledBefore(tr2, i) = Trace!HandledBefore(tr, i)
            /\ \A tag : \A i \in 1..N : Trace!Earlier(tr2, i, tag) <=> Trace!Earlier(tr, i, tag)
  <1> DEFINE N == Len(tr.observations)
  <1>1. N \in Nat /\ Trace!Events(tr) = 1..N /\ Trace!Events(tr2) = 1..(N + m)
    BY ListLen DEF Longer, Trace!Events
  <1>2. \A i \in 1..N : tr2.observations[i] = tr.observations[i]
    BY DEF Longer
  <1> HIDE DEF N
  <1>3. \A tag : Trace!Tagged(tr2, tag) = Trace!Tagged(tr, tag)
                          \cup {i \in (N + 1)..(N + m) : tr2.observations[i].tag = tag}
    BY <1>1, <1>2 DEF Trace!Tagged
  <1>4. ASSUME NEW tag, NEW i
        PROVE  /\ i \in Trace!Tagged(tr, tag) => i \in 1..N
               /\ i \in 1..N => (i \in Trace!Tagged(tr2, tag) <=> i \in Trace!Tagged(tr, tag))
    <2>1. i \in Trace!Tagged(tr, tag) => i \in 1..N
      BY <1>1 DEF Trace!Tagged
    <2>2. i \in 1..N => i \notin (N + 1)..(N + m)
      BY <1>1
    <2> QED BY <1>3, <2>1, <2>2
  <1>5. ASSUME NEW i \in 1..(N + 1)
        PROVE  Trace!HandledBefore(tr2, i) = Trace!HandledBefore(tr, i)
    <2>1. {k \in Trace!Tagged(tr2, "Handled") : k < i} = {k \in Trace!Tagged(tr, "Handled") : k < i}
      BY <1>1, <1>3, <1>4
    <2>2. \A j \in {k \in Trace!Tagged(tr, "Handled") : k < i} :
            tr2.observations[j] = tr.observations[j]
      BY <1>2, <1>4
    <2> QED BY <2>1, <2>2 DEF Trace!HandledBefore
  <1>6. ASSUME NEW i \in 1..N, NEW tag
        PROVE  Trace!Earlier(tr2, i, tag) <=> Trace!Earlier(tr, i, tag)
    <2>1. \A j : j < i /\ j \in Trace!Tagged(tr2, tag) <=> j < i /\ j \in Trace!Tagged(tr, tag)
      BY <1>1, <1>3, <1>4
    <2>2. \A j \in Trace!Tagged(tr, tag) : tr2.observations[j] = tr.observations[j]
      BY <1>2, <1>4
    <2> QED BY <1>2, <2>1, <2>2 DEF Trace!Earlier
  <1> QED BY <1>1, <1>3, <1>5, <1>6 DEF N

(* An observation that stood up stands up.                                 *)
LEMMA StandsUpStill ==
  ASSUME NEW sel, NEW steps, NEW tr, NEW tr2, NEW m \in Nat, Longer(tr, tr2, m),
         StandsUp(sel, steps, tr), NEW i \in Trace!AttemptEvents(tr2), i \in 1..Len(tr.observations)
  PROVE  Trace!ValidateObservation(sel, steps, tr2, i)
  <1>1. /\ tr2.observations[i] = tr.observations[i]
        /\ Trace!HandledBefore(tr2, i) = Trace!HandledBefore(tr, i)
        /\ \A tag : Trace!Earlier(tr2, i, tag) <=> Trace!Earlier(tr, i, tag)
    <2>1. Len(tr.observations) \in Nat
      BY OldEvents
    <2>2. i \in 1..(Len(tr.observations) + 1)
      BY <2>1
    <2> QED BY <2>2, OldEvents DEF Longer
  <1>2. i \in Trace!AttemptEvents(tr)
    BY <1>1, OldEvents DEF Trace!AttemptEvents, Trace!Tagged
  <1>3. Trace!ValidateObservation(sel, steps, tr, i)
    BY <1>2 DEF StandsUp
  <1> QED BY <1>1, <1>3 DEF Trace!ValidateObservation

(* An attempt leaves no trace before its step.                             *)
LEMMA FreshAttempt ==
  ASSUME Trace!SelectionsAreDecoded, NEW sel, NEW steps, Ready(sel, steps), NEW n \in Nat,
         n + 1 \in Trace!Deliveries(steps), NEW tr, FromSteps(steps, n, tr),
         NEW i \in Trace!Events(tr), tr.observations[i].tag # "ForcedCompletion"
  PROVE  tr.observations[i].attemptId # steps[n + 1].attemptId
  <1>1. i \in Trace!AttemptEvents(tr)
    BY DEF Trace!AttemptEvents, Trace!Tagged
  <1>2. PICK d \in Trace!Deliveries(steps) :
          d <= n /\ tr.observations[i].attemptId = steps[d].attemptId
    BY <1>1 DEF FromSteps
  <1>3. \A c \in Trace!Deliveries(steps) : steps[c].attemptId = steps[n + 1].attemptId => c = n + 1
    BY StepMessage
  <1>4. d \in Nat
    BY StepMessage DEF Trace!Deliveries
  <1> QED BY <1>2, <1>3, <1>4

(* The observation of an attempt of the step taken.                        *)
Shows(tr, i, tag, steps, d) ==
  /\ tr.observations[i].tag = tag /\ tr.observations[i].attemptId = steps[d].attemptId
  /\ tr.observations[i].messageId = steps[d].messageId

(* A step that observes its attempt sent, and then what became of it: the  *)
(* observations are of the steps taken, and stand up.                      *)
LEMMA NewEvents ==
  ASSUME Trace!SelectionsAreDecoded, NEW sel, NEW steps, Ready(sel, steps), NEW n \in Nat,
         n + 1 \in Trace!Deliveries(steps), NEW tr, FromSteps(steps, n, tr), StandsUp(sel, steps, tr),
         NEW tr2, NEW m \in Nat, Longer(tr, tr2, m), m > 0,
         \A i \in (Len(tr.observations) + 1)..(Len(tr.observations) + m) :
           /\ tr2.observations[i].tag # "ForcedCompletion"
           /\ tr2.observations[i].attemptId = steps[n + 1].attemptId
  PROVE  /\ FromSteps(steps, n + 1, tr2)
         /\ \A tag : \A i \in (Len(tr.observations) + 1)..(Len(tr.observations) + m) :
              tag # "ForcedCompletion" =>
                (Trace!Earlier(tr2, i, tag) <=>
                   \E j \in (Len(tr.observations) + 1)..(i - 1) : tr2.observations[j].tag = tag)
         /\ Trace!Tagged(tr2, "ForcedCompletion") = Trace!Tagged(tr, "ForcedCompletion")
  <1> DEFINE N == Len(tr.observations)
  <1>1. /\ N \in Nat /\ Trace!Events(tr) = 1..N /\ Trace!Events(tr2) = 1..(N + m)
        /\ \A i \in 1..N : tr2.observations[i] = tr.observations[i]
    BY OldEvents DEF Longer
  <1>2. ASSUME NEW i \in (N + 1)..(N + m)
        PROVE  /\ tr2.observations[i].tag # "ForcedCompletion"
               /\ tr2.observations[i].attemptId = steps[n + 1].attemptId
    BY DEF N
  <1>3. \A i \in 1..N : tr.observations[i].tag # "ForcedCompletion" =>
           tr.observations[i].attemptId # steps[n + 1].attemptId
    BY <1>1, FreshAttempt
  <1> HIDE DEF N
  <1>4. FromSteps(steps, n + 1, tr2)
    <2> SUFFICES ASSUME NEW i \in Trace!AttemptEvents(tr2)
                 PROVE  \E d \in Trace!Deliveries(steps) :
                          /\ d <= n + 1 /\ tr2.observations[i].attemptId = steps[d].attemptId
      BY DEF FromSteps
    <2>1. i \in 1..(N + m) /\ tr2.observations[i].tag # "ForcedCompletion"
      BY <1>1 DEF Trace!AttemptEvents, Trace!Tagged
    <2>2. CASE i \in 1..N
      <3>1. i \in Trace!AttemptEvents(tr)
        BY <1>1, <2>1, <2>2 DEF Trace!AttemptEvents, Trace!Tagged
      <3>2. PICK d \in Trace!Deliveries(steps) :
              d <= n /\ tr.observations[i].attemptId = steps[d].attemptId
        BY <3>1 DEF FromSteps
      <3>3. d \in Nat
        BY StepMessage DEF Trace!Deliveries
      <3> QED BY <1>1, <2>2, <3>2, <3>3
    <2>3. CASE i \in (N + 1)..(N + m)
      BY <1>2, <2>3
    <2> QED BY <1>1, <2>1, <2>2, <2>3
  <1>5. ASSUME NEW i \in (N + 1)..(N + m), NEW tag, tag # "ForcedCompletion"
        PROVE  Trace!Earlier(tr2, i, tag) <=> \E j \in (N + 1)..(i - 1) : tr2.observations[j].tag = tag
    <2>1. ASSUME NEW j \in Trace!Tagged(tr2, tag), j < i,
                 tr2.observations[j].attemptId = tr2.observations[i].attemptId
          PROVE  j \in (N + 1)..(i - 1) /\ tr2.observations[j].tag = tag
      <3>1. j \in 1..(N + m) /\ tr2.observations[j].tag = tag
        BY <1>1 DEF Trace!Tagged
      <3>2. j \notin 1..N
        BY <1>1, <1>2, <1>3, <1>5, <2>1, <3>1
      <3> QED BY <1>1, <2>1, <3>1, <3>2
    <2>2. ASSUME NEW j \in (N + 1)..(i - 1), tr2.observations[j].tag = tag
          PROVE  /\ j \in Trace!Tagged(tr2, tag) /\ j < i
                 /\ tr2.observations[j].attemptId = tr2.observations[i].attemptId
      <3>1. j \in (N + 1)..(N + m) /\ j \in 1..(N + m) /\ j < i
        BY <1>1
      <3> QED BY <1>1, <1>2, <2>2, <3>1 DEF Trace!Tagged
    <2> QED BY <2>1, <2>2 DEF Trace!Earlier
  <1>6. Trace!Tagged(tr2, "ForcedCompletion") = Trace!Tagged(tr, "ForcedCompletion")
    <2>1. \A i \in 1..(N + m) : tr2.observations[i].tag = "ForcedCompletion" => i \in 1..N
      BY <1>1, <1>2
    <2> QED BY <1>1, <2>1 DEF Trace!Tagged
  <1> QED BY <1>4, <1>5, <1>6 DEF N
-----------------------------------------------------------------------------
(* A list that grows by one, two or three.                                 *)
LEMMA GrowsByOne ==
  ASSUME NEW s, IsList(s), NEW a
  PROVE  /\ IsList(Append(s, a)) /\ Len(Append(s, a)) = Len(s) + 1
         /\ \A i \in 1..Len(s) : Append(s, a)[i] = s[i]
         /\ Append(s, a)[Len(s) + 1] = a
  <1>1. PICK S : s \in Seq(S)
    BY DEF IsList
  <1>2. s \in Seq(S \cup {a}) /\ a \in S \cup {a}
    BY <1>1, SeqGrows
  <1> QED BY <1>2, AppendList

(* ... and by two elements ... *)
LEMMA GrowsByTwo ==
  ASSUME NEW s, IsList(s), NEW a, NEW b
  PROVE  /\ IsList(s \o <<a, b>>) /\ Len(s \o <<a, b>>) = Len(s) + 2
         /\ \A i \in 1..Len(s) : (s \o <<a, b>>)[i] = s[i]
         /\ (s \o <<a, b>>)[Len(s) + 1] = a /\ (s \o <<a, b>>)[Len(s) + 2] = b
  <1>1. PICK S : s \in Seq(S)
    BY DEF IsList
  <1>2. s \in Seq(S \cup {a, b}) /\ <<a, b>> \in Seq(S \cup {a, b})
    <2>1. s \in Seq(S \cup {a, b})
      BY <1>1, SeqGrows
    <2> QED BY <2>1
  <1> QED BY <1>2 DEF IsList

(* ... and by three.                                                       *)
LEMMA GrowsByThree ==
  ASSUME NEW s, IsList(s), NEW a, NEW b, NEW c
  PROVE  /\ IsList(s \o <<a, b, c>>) /\ Len(s \o <<a, b, c>>) = Len(s) + 3
         /\ \A i \in 1..Len(s) : (s \o <<a, b, c>>)[i] = s[i]
         /\ (s \o <<a, b, c>>)[Len(s) + 1] = a /\ (s \o <<a, b, c>>)[Len(s) + 2] = b
         /\ (s \o <<a, b, c>>)[Len(s) + 3] = c
  <1>1. PICK S : s \in Seq(S)
    BY DEF IsList
  <1>2. s \in Seq(S \cup {a, b, c}) /\ <<a, b, c>> \in Seq(S \cup {a, b, c})
    <2>1. s \in Seq(S \cup {a, b, c})
      BY <1>1, SeqGrows
    <2> QED BY <2>1
  <1> QED BY <1>2 DEF IsList

(* A trace that grows without handling anything handles what it did.       *)
LEMMA HandledGrows ==
  ASSUME NEW sel, NEW tr, NEW tr2, NEW m \in Nat, Longer(tr, tr2, m),
         \A i \in (Len(tr.observations) + 1)..(Len(tr.observations) + m) :
           tr2.observations[i].tag # "Handled",
         \A i \in Trace!Tagged(tr, "Handled") :
           LET id == tr.observations[i].messageId
           IN /\ id \notin Trace!HandledBefore(tr, i)
              /\ Trace!MessageOf(sel.protocol, id).causalParent \subseteq Trace!HandledBefore(tr, i)
  PROVE  /\ Trace!HandledIn(tr2) = Trace!HandledIn(tr)
         /\ \A i \in Trace!Tagged(tr2, "Handled") :
              LET id == tr2.observations[i].messageId
              IN /\ id \notin Trace!HandledBefore(tr2, i)
                 /\ Trace!MessageOf(sel.protocol, id).causalParent
                      \subseteq Trace!HandledBefore(tr2, i)
  <1>1. Trace!Tagged(tr2, "Handled") = Trace!Tagged(tr, "Handled")
    BY OldEvents
  <1>2. ASSUME NEW i \in Trace!Tagged(tr, "Handled")
        PROVE  /\ tr2.observations[i] = tr.observations[i]
               /\ Trace!HandledBefore(tr2, i) = Trace!HandledBefore(tr, i)
    <2>1. Len(tr.observations) \in Nat /\ i \in 1..Len(tr.observations)
      BY OldEvents DEF Trace!Tagged
    <2>2. i \in 1..(Len(tr.observations) + 1)
      BY <2>1
    <2> QED BY <2>1, <2>2, OldEvents DEF Longer
  <1>3. Trace!HandledIn(tr2) = Trace!HandledIn(tr)
    BY <1>1, <1>2 DEF Trace!HandledIn
  <1> QED BY <1>1, <1>2, <1>3

(* What a trace shows of an event is what it showed, or is new.            *)
LEMMA EventsShown ==
  ASSUME NEW tr, NEW tr2, NEW m \in Nat, Longer(tr, tr2, m)
  PROVE  \A tag :
           /\ Trace!Tagged(tr2, tag) = Trace!Tagged(tr, tag) \cup
                {i \in (Len(tr.observations) + 1)..(Len(tr.observations) + m) :
                   tr2.observations[i].tag = tag}
           /\ \A i \in Trace!Tagged(tr, tag) : tr2.observations[i] = tr.observations[i]
  <1>1. Trace!Events(tr) = 1..Len(tr.observations)
    BY OldEvents
  <1>2. ASSUME NEW tag, NEW i \in Trace!Tagged(tr, tag)
        PROVE  tr2.observations[i] = tr.observations[i]
    <2>1. i \in 1..Len(tr.observations)
      BY <1>1 DEF Trace!Tagged
    <2> QED BY <2>1 DEF Longer
  <1> QED BY <1>2, OldEvents

(* A step that forces nobody leaves the forced completions as they are.    *)
LEMMA ForcesStay ==
  ASSUME NEW steps, NEW n \in Nat, steps[n + 1].action # "complete", NEW tr, NEW tr2,
         ForcesTell(steps, n, tr),
         Trace!Tagged(tr2, "ForcedCompletion") = Trace!Tagged(tr, "ForcedCompletion")
  PROVE  ForcesTell(steps, n + 1, tr2) /\ (Forces(steps, n + 1) <=> Forces(steps, n))
  <1>1. {e \in 1..(n + 1) : steps[e].action = "complete"} = {e \in 1..n : steps[e].action = "complete"}
    <2>1. \A e \in 1..(n + 1) : steps[e].action = "complete" => e \in 1..n
      OBVIOUS
    <2>2. \A e \in 1..n : e \in 1..(n + 1)
      OBVIOUS
    <2> QED BY <2>1, <2>2
  <1>2. Forces(steps, n + 1) <=> Forces(steps, n)
    BY <1>1 DEF Forces
  <1>3. \A d \in 1..n : d \in 1..(n + 1)
    OBVIOUS
  <1> QED BY <1>1, <1>2, <1>3 DEF ForcesTell

(* The handled messages are finitely many.                                 *)
LEMMA FewHandled ==
  ASSUME NEW sel, NEW hd, hd \subseteq {IdOf(sel, op) : op \in Trace!Operations}
  PROVE  IsFiniteSet(hd) /\ Cardinality(hd) \in Nat
  <1>1. hd \subseteq {IdOf(sel, "Prepare"), IdOf(sel, "Commit"), IdOf(sel, "Ack")}
    BY DEF Trace!Operations
  <1>2. PICK x, y, z : x = IdOf(sel, "Prepare") /\ y = IdOf(sel, "Commit") /\ z = IdOf(sel, "Ack")
    OBVIOUS
  <1>3. IsFiniteSet({x})
    BY FS_Singleton
  <1>4. IsFiniteSet({x} \cup {y})
    BY <1>3, FS_AddElement
  <1>5. IsFiniteSet(({x} \cup {y}) \cup {z})
    BY <1>4, FS_AddElement
  <1>6. IsFiniteSet(hd)
    <2>1. hd \subseteq ({x} \cup {y}) \cup {z}
      BY <1>1, <1>2
    <2> QED BY <1>5, <2>1, FS_Subset
  <1> QED BY <1>6, FS_CardinalityType

(* A completion forced by a step is the only one.                          *)
LEMMA ForceTells ==
  ASSUME Trace!SelectionsAreDecoded, NEW sel, NEW steps, Ready(sel, steps), NEW n \in Nat,
         NEW tr, NEW hd, Tells(sel, steps, n, tr, hd),
         steps[n + 1].action = "complete", tr.ownerA = "waiting",
         NEW tr2, Longer(tr, tr2, 1),
         tr2.observations[Len(tr.observations) + 1].tag = "ForcedCompletion",
         tr2.ownerA = "complete", tr2.ownerB = tr.ownerB, tr2.mutations = tr.mutations + 1
  PROVE  Tells(sel, steps, n + 1, tr2, hd)
  <1> DEFINE N == Len(tr.observations)
  <1>1. Longer(tr, tr2, 1) /\ tr2.observations[N + 1].tag = "ForcedCompletion"
    OBVIOUS
  <1>2. /\ N \in Nat /\ Trace!Events(tr) = 1..N /\ Trace!Events(tr2) = 1..(N + 1)
        /\ \A i \in 1..N : tr2.observations[i] = tr.observations[i]
    BY <1>1, OldEvents DEF Longer
  <1>3. ~Forces(steps, n) /\ IdOf(sel, "Ack") \notin hd
    BY DEF Tells, OwnersTell
  <1>4. /\ ~Plays(sel, steps, n + 1, "Prepare") /\ ~Plays(sel, steps, n + 1, "Commit")
        /\ ~Plays(sel, steps, n + 1, "Ack") /\ ~Drops(sel, steps, n + 1, "Ack")
    BY DEF Plays, Drops
  <1>5. \A i \in (N + 1)..(N + 1) : tr2.observations[i].tag = "ForcedCompletion"
    BY <1>1, <1>2
  <1> HIDE DEF N
  <1>6. Trace!AttemptEvents(tr2) = Trace!AttemptEvents(tr)
    <2>1. 1..(N + 1) = (1..N) \cup {N + 1} /\ N + 1 \notin 1..N
      BY <1>2
    <2>2. ASSUME NEW i \in Trace!AttemptEvents(tr2) PROVE i \in Trace!AttemptEvents(tr)
      <3>1. i \in 1..(N + 1) /\ tr2.observations[i].tag # "ForcedCompletion"
        BY <1>2 DEF Trace!AttemptEvents, Trace!Tagged
      <3>2. i \in 1..N
        BY <1>1, <2>1, <3>1
      <3> QED BY <1>2, <3>1, <3>2 DEF Trace!AttemptEvents, Trace!Tagged
    <2>3. ASSUME NEW i \in Trace!AttemptEvents(tr) PROVE i \in Trace!AttemptEvents(tr2)
      <3>1. i \in 1..N /\ tr.observations[i].tag # "ForcedCompletion"
        BY <1>2 DEF Trace!AttemptEvents, Trace!Tagged
      <3> QED BY <1>2, <2>1, <3>1 DEF Trace!AttemptEvents, Trace!Tagged
    <2> QED BY <2>2, <2>3
  <1>7. \A i \in Trace!AttemptEvents(tr) : i \in 1..N
    BY <1>2 DEF Trace!AttemptEvents
  <1>8. FromSteps(steps, n + 1, tr2)
    <2>1. \A d \in Trace!Deliveries(steps) : d \in 1..n => d <= n + 1
      OBVIOUS
    <2> SUFFICES ASSUME NEW i \in Trace!AttemptEvents(tr)
                 PROVE  \E d \in Trace!Deliveries(steps) :
                          d <= n + 1 /\ tr2.observations[i].attemptId = steps[d].attemptId
      BY <1>6 DEF FromSteps
    <2>2. PICK d \in Trace!Deliveries(steps) :
            d <= n /\ tr.observations[i].attemptId = steps[d].attemptId
      BY DEF Tells, FromSteps
    <2>3. tr2.observations[i] = tr.observations[i]
      BY <1>2, <1>7
    <2>4. d \in Nat
      BY StepMessage DEF Trace!Deliveries
    <2> QED BY <2>2, <2>3, <2>4
  <1>9. StandsUp(sel, steps, tr2)
    BY <1>1, <1>6, <1>7, StandsUpStill DEF Tells, StandsUp, N
  <1>10. ForcesTell(steps, n + 1, tr2)
    <2>1. Trace!Tagged(tr, "ForcedCompletion") = {}
      BY <1>3 DEF Tells, ForcesTell, Forces
    <2>2. Trace!Tagged(tr2, "ForcedCompletion") = {N + 1}
      <3>1. Trace!Tagged(tr2, "ForcedCompletion") = Trace!Tagged(tr, "ForcedCompletion")
              \cup {i \in (N + 1)..(N + 1) : tr2.observations[i].tag = "ForcedCompletion"}
        BY <1>1, OldEvents DEF N
      <3>2. {i \in (N + 1)..(N + 1) : tr2.observations[i].tag = "ForcedCompletion"} = {N + 1}
        <4>1. (N + 1)..(N + 1) = {N + 1}
          BY <1>2
        <4> QED BY <1>1, <4>1
      <3> QED BY <2>1, <3>1, <3>2
    <2>3. {e \in 1..(n + 1) : steps[e].action = "complete"} = {n + 1}
      <3>1. \A e \in 1..n : steps[e].action # "complete"
        BY <1>3 DEF Forces
      <3> QED BY <3>1
    <2> QED BY <2>2, <2>3 DEF ForcesTell
  <1>11. Forces(steps, n + 1)
    BY OneMoreStep
  <1>12. HandledTell(sel, steps, n + 1, tr2, hd)
    <2>1. \A i \in (N + 1)..(N + 1) : tr2.observations[i].tag # "Handled"
      BY <1>5
    <2>2. Trace!HandledIn(tr2) = Trace!HandledIn(tr)
      BY <1>1, <2>1, HandledGrows DEF Tells, HandledTell, N
    <2>3. \A i \in Trace!Tagged(tr2, "Handled") :
              LET id == tr2.observations[i].messageId
              IN /\ id \notin Trace!HandledBefore(tr2, i)
                 /\ Trace!MessageOf(sel.protocol, id).causalParent
                      \subseteq Trace!HandledBefore(tr2, i)
      BY <1>1, <2>1, HandledGrows DEF Tells, HandledTell, N
    <2>4. /\ Prepares(sel, steps, n + 1) <=> Prepares(sel, steps, n)
          /\ Commits(sel, steps, n + 1) <=> Commits(sel, steps, n)
      BY <1>4, OneMoreStep
    <2> QED BY <1>3, <1>11, <2>2, <2>3, <2>4 DEF Tells, HandledTell
  <1>13. EarlyTell(sel, steps, n + 1, tr2)
    <2>1. \A i \in (N + 1)..(N + 1) : tr2.observations[i].tag # "Rejected"
      BY <1>5
    <2>2. (\E d \in 1..(n + 1) : Early(sel, steps, d)) <=> \E d \in 1..n : Early(sel, steps, d)
      BY <1>4, OneMoreStep
    <2>3. Trace!Tagged(tr2, "Rejected") = Trace!Tagged(tr, "Rejected")
      BY <1>1, <2>1, EventsShown DEF N
    <2>4. \A i \in Trace!Tagged(tr, "Rejected") : tr2.observations[i] = tr.observations[i]
      BY <1>1, EventsShown
    <2> QED BY <2>2, <2>3, <2>4 DEF Tells, EarlyTell
  <1>14. DropsTell(sel, steps, n + 1, tr2)
    <2>1. \A i \in (N + 1)..(N + 1) : tr2.observations[i].tag # "Dropped"
      BY <1>5
    <2>2. (\E d \in 1..(n + 1) : Drops(sel, steps, d, "Ack")) <=>
            \E d \in 1..n : Drops(sel, steps, d, "Ack")
      BY <1>4, OneMoreStep
    <2>3. Trace!Tagged(tr2, "Dropped") = Trace!Tagged(tr, "Dropped")
      <3>1. Trace!Tagged(tr2, "Dropped") = Trace!Tagged(tr, "Dropped") \cup
              {i \in (N + 1)..(N + 1) : tr2.observations[i].tag = "Dropped"}
        BY <1>1, EventsShown DEF N
      <3> QED BY <2>1, <3>1
    <2>4. \A i \in Trace!Tagged(tr, "Dropped") : tr2.observations[i] = tr.observations[i]
      BY <1>1, EventsShown
    <2> QED BY <2>2, <2>3, <2>4 DEF Tells, DropsTell, ShowsAck
  <1>15. OwnersTell(sel, steps, n + 1, tr2, hd)
    <2>1. tr.mutations = Cardinality(hd) + 0
      BY <1>3 DEF Tells, OwnersTell
    <2>2. tr2.mutations = Cardinality(hd) + 1
      <3>1. Cardinality(hd) \in Nat
        BY FewHandled DEF Tells, HandledTell
      <3> QED BY <2>1, <3>1
    <2> QED BY <1>3, <1>11, <2>2 DEF Tells, OwnersTell
  <1> QED BY <1>1, <1>8, <1>9, <1>10, <1>12, <1>13, <1>14, <1>15 DEF Tells, Longer
(* A dropped message is sent and reaches nobody.                           *)
LEMMA DropTells ==
  ASSUME Trace!SelectionsAreDecoded, NEW sel, NEW steps, Ready(sel, steps), NEW n \in Nat,
         NEW tr, NEW hd, Tells(sel, steps, n, tr, hd),
         n + 1 \in DOMAIN steps, steps[n + 1].action = "drop",
         NEW tr2, Longer(tr, tr2, 2),
         Shows(tr2, Len(tr.observations) + 1, "Sent", steps, n + 1),
         Shows(tr2, Len(tr.observations) + 2, "Dropped", steps, n + 1),
         tr2.ownerA = tr.ownerA, tr2.ownerB = tr.ownerB, tr2.mutations = tr.mutations
  PROVE  Tells(sel, steps, n + 1, tr2, hd)
  <1> DEFINE N == Len(tr.observations)
  <1>1. /\ N \in Nat /\ Trace!Events(tr) = 1..N /\ Trace!Events(tr2) = 1..(N + 2)
        /\ \A i \in 1..N : tr2.observations[i] = tr.observations[i]
    BY OldEvents DEF Longer
  <1>2. Shows(tr2, N + 1, "Sent", steps, n + 1) /\ Shows(tr2, N + 2, "Dropped", steps, n + 1)
    OBVIOUS
  <1>3. n + 1 \in Trace!Deliveries(steps) /\ steps[n + 1].action # "complete"
    BY DEF Trace!Deliveries
  <1>4. /\ ~Plays(sel, steps, n + 1, "Prepare") /\ ~Plays(sel, steps, n + 1, "Commit")
        /\ ~Plays(sel, steps, n + 1, "Ack")
    BY DEF Plays
  <1>5. Longer(tr, tr2, 2)
    OBVIOUS
  <1> HIDE DEF N
  <1>6. (N + 1)..(N + 2) = {N + 1, N + 2}
    BY <1>1
  <1>7. /\ FromSteps(steps, n + 1, tr2)
        /\ \A tag : \A i \in (N + 1)..(N + 2) : tag # "ForcedCompletion" =>
             (Trace!Earlier(tr2, i, tag) <=> \E j \in (N + 1)..(i - 1) : tr2.observations[j].tag = tag)
        /\ Trace!Tagged(tr2, "ForcedCompletion") = Trace!Tagged(tr, "ForcedCompletion")
    <2>1. \A i \in (N + 1)..(N + 2) : /\ tr2.observations[i].tag # "ForcedCompletion"
                                      /\ tr2.observations[i].attemptId = steps[n + 1].attemptId
      BY <1>2, <1>6 DEF Shows
    <2> QED BY <1>3, <1>5, <2>1, NewEvents DEF Tells, N
  <1>8. StandsUp(sel, steps, tr2)
    <2>1. ASSUME NEW i \in Trace!AttemptEvents(tr2), i \in 1..N
          PROVE  Trace!ValidateObservation(sel, steps, tr2, i)
      BY <1>5, <2>1, StandsUpStill DEF Tells, N
    <2>2. Trace!ValidateObservation(sel, steps, tr2, N + 1)
      <3>1. \A tag : tag # "ForcedCompletion" => ~Trace!Earlier(tr2, N + 1, tag)
        <4>1. (N + 1)..((N + 1) - 1) = {}
          BY <1>1
        <4> QED BY <1>6, <1>7, <4>1
      <3>2. \A tag \in Trace!Terminal : tag # "ForcedCompletion"
        BY DEF Trace!Terminal
      <3> QED BY <1>2, <1>3, <3>1, <3>2 DEF Trace!ValidateObservation, Shows
    <2>3. Trace!ValidateObservation(sel, steps, tr2, N + 2)
      <3>1. \A tag : tag # "ForcedCompletion" => (Trace!Earlier(tr2, N + 2, tag) <=> tag = "Sent")
        <4>1. (N + 1)..((N + 2) - 1) = {N + 1}
          BY <1>1
        <4>2. \A tag : tag # "ForcedCompletion" =>
               (Trace!Earlier(tr2, N + 2, tag) <=> \E j \in {N + 1} : tr2.observations[j].tag = tag)
          BY <1>6, <1>7, <4>1
        <4> QED BY <1>2, <4>2 DEF Shows
      <3>2. \A tag \in Trace!Terminal : tag # "ForcedCompletion" /\ tag # "Sent"
        BY DEF Trace!Terminal
      <3> QED BY <1>2, <1>3, <3>1, <3>2 DEF Trace!ValidateObservation, Shows
    <2>4. \A i \in Trace!AttemptEvents(tr2) : i \in 1..N \/ i = N + 1 \/ i = N + 2
      BY <1>1 DEF Trace!AttemptEvents
    <2> QED BY <2>1, <2>2, <2>3, <2>4 DEF StandsUp
  <1>9. ForcesTell(steps, n + 1, tr2) /\ (Forces(steps, n + 1) <=> Forces(steps, n))
    BY <1>3, <1>7, ForcesStay DEF Tells
  <1>10. /\ Prepares(sel, steps, n + 1) <=> Prepares(sel, steps, n)
         /\ Commits(sel, steps, n + 1) <=> Commits(sel, steps, n)
         /\ Acknowledges(sel, steps, n + 1) <=> Acknowledges(sel, steps, n)
    BY <1>4, OneMoreStep
  <1>11. HandledTell(sel, steps, n + 1, tr2, hd)
    <2>1. \A i \in (N + 1)..(N + 2) : tr2.observations[i].tag # "Handled"
      BY <1>2, <1>6 DEF Shows
    <2>2. Trace!HandledIn(tr2) = Trace!HandledIn(tr)
      BY <1>5, <2>1, HandledGrows DEF Tells, HandledTell, N
    <2>3. \A i \in Trace!Tagged(tr2, "Handled") :
              LET id == tr2.observations[i].messageId
              IN /\ id \notin Trace!HandledBefore(tr2, i)
                 /\ Trace!MessageOf(sel.protocol, id).causalParent
                      \subseteq Trace!HandledBefore(tr2, i)
      BY <1>5, <2>1, HandledGrows DEF Tells, HandledTell, N
    <2> QED BY <1>9, <1>10, <2>2, <2>3 DEF Tells, HandledTell
  <1>12. EarlyTell(sel, steps, n + 1, tr2)
    <2>1. \A i \in (N + 1)..(N + 2) : tr2.observations[i].tag # "Rejected"
      BY <1>2, <1>6 DEF Shows
    <2>2. (\E d \in 1..(n + 1) : Early(sel, steps, d)) <=> \E d \in 1..n : Early(sel, steps, d)
      BY <1>4, OneMoreStep
    <2>3. Trace!Tagged(tr2, "Rejected") = Trace!Tagged(tr, "Rejected")
      <3>1. Trace!Tagged(tr2, "Rejected") = Trace!Tagged(tr, "Rejected") \cup
              {i \in (N + 1)..(N + 2) : tr2.observations[i].tag = "Rejected"}
        BY <1>5, EventsShown DEF N
      <3> QED BY <2>1, <3>1
    <2>4. \A i \in Trace!Tagged(tr, "Rejected") : tr2.observations[i] = tr.observations[i]
      BY <1>5, EventsShown
    <2> QED BY <2>2, <2>3, <2>4 DEF Tells, EarlyTell
  <1>13. DropsTell(sel, steps, n + 1, tr2)
    <2>1. Trace!Tagged(tr2, "Dropped") = Trace!Tagged(tr, "Dropped") \cup {N + 2}
      <3>1. Trace!Tagged(tr2, "Dropped") = Trace!Tagged(tr, "Dropped") \cup
              {i \in (N + 1)..(N + 2) : tr2.observations[i].tag = "Dropped"}
        BY <1>5, EventsShown DEF N
      <3>2. {i \in (N + 1)..(N + 2) : tr2.observations[i].tag = "Dropped"} = {N + 2}
        BY <1>2, <1>6 DEF Shows
      <3> QED BY <3>1, <3>2
    <2>2. \A i \in Trace!Tagged(tr, "Dropped") : ShowsAck(sel, tr2, i) <=> ShowsAck(sel, tr, i)
      <3>1. \A i \in Trace!Tagged(tr, "Dropped") : tr2.observations[i] = tr.observations[i]
        BY <1>5, EventsShown
      <3> QED BY <3>1 DEF ShowsAck
    <2>3. ShowsAck(sel, tr2, N + 2) <=> Drops(sel, steps, n + 1, "Ack")
      BY <1>2 DEF Shows, ShowsAck, Drops
    <2>4. (\E d \in 1..(n + 1) : Drops(sel, steps, d, "Ack")) <=>
              (\E d \in 1..n : Drops(sel, steps, d, "Ack")) \/ Drops(sel, steps, n + 1, "Ack")
      BY OneMoreStep
    <2> QED BY <2>1, <2>2, <2>3, <2>4 DEF Tells, DropsTell
  <1>14. OwnersTell(sel, steps, n + 1, tr2, hd)
    BY <1>9 DEF Tells, OwnersTell
  <1> QED BY <1>5, <1>7, <1>8, <1>9, <1>11, <1>12, <1>13, <1>14 DEF Tells, Longer
(* What a delivery shows, whatever becomes of the message.                 *)
LEMMA DeliverySeen ==
  ASSUME Trace!SelectionsAreDecoded, NEW sel, NEW steps, Ready(sel, steps), NEW n \in Nat,
         NEW tr, NEW hd, Tells(sel, steps, n, tr, hd),
         n + 1 \in DOMAIN steps, steps[n + 1].action = "deliver",
         NEW tr2, Longer(tr, tr2, 3),
         NEW tag \in {"Handled", "DuplicateIgnored", "Rejected"},
         Shows(tr2, Len(tr.observations) + 1, "Sent", steps, n + 1),
         Shows(tr2, Len(tr.observations) + 2, "Delivered", steps, n + 1),
         Shows(tr2, Len(tr.observations) + 3, tag, steps, n + 1),
         tr2.observations[Len(tr.observations) + 3].ownerId =
           Trace!MessageOf(sel.protocol, steps[n + 1].messageId).receiver,
         tag = "DuplicateIgnored" => steps[n + 1].messageId \in hd
  PROVE  /\ FromSteps(steps, n + 1, tr2) /\ StandsUp(sel, steps, tr2)
         /\ ForcesTell(steps, n + 1, tr2) /\ (Forces(steps, n + 1) <=> Forces(steps, n))
         /\ DropsTell(sel, steps, n + 1, tr2)
         /\ Trace!HandledBefore(tr2, Len(tr.observations) + 3) = hd
         /\ \A shown \in {"Handled", "Rejected"} :
              Trace!Tagged(tr2, shown) = Trace!Tagged(tr, shown) \cup
                (IF tag = shown THEN {Len(tr.observations) + 3} ELSE {})
  <1> DEFINE N == Len(tr.observations)
  <1>1. /\ N \in Nat /\ Trace!Events(tr) = 1..N /\ Trace!Events(tr2) = 1..(N + 3)
        /\ \A i \in 1..N : tr2.observations[i] = tr.observations[i]
    BY OldEvents DEF Longer
  <1>2. /\ Shows(tr2, N + 1, "Sent", steps, n + 1) /\ Shows(tr2, N + 2, "Delivered", steps, n + 1)
        /\ Shows(tr2, N + 3, tag, steps, n + 1)
        /\ tr2.observations[N + 3].ownerId =
             Trace!MessageOf(sel.protocol, steps[n + 1].messageId).receiver
    OBVIOUS
  <1>3. n + 1 \in Trace!Deliveries(steps) /\ steps[n + 1].action # "complete"
    BY DEF Trace!Deliveries
  <1>4. ~Drops(sel, steps, n + 1, "Ack")
    BY DEF Drops
  <1>5. Longer(tr, tr2, 3)
    OBVIOUS
  <1> HIDE DEF N
  <1>6. (N + 1)..(N + 3) = {N + 1, N + 2, N + 3}
    BY <1>1
  <1>7. /\ FromSteps(steps, n + 1, tr2)
        /\ \A shown : \A i \in (N + 1)..(N + 3) : shown # "ForcedCompletion" =>
             (Trace!Earlier(tr2, i, shown) <=> \E j \in (N + 1)..(i - 1) : tr2.observations[j].tag = shown)
        /\ Trace!Tagged(tr2, "ForcedCompletion") = Trace!Tagged(tr, "ForcedCompletion")
    <2>1. \A i \in (N + 1)..(N + 3) : /\ tr2.observations[i].tag # "ForcedCompletion"
                                      /\ tr2.observations[i].attemptId = steps[n + 1].attemptId
      BY <1>2, <1>6 DEF Shows
    <2> QED BY <1>3, <1>5, <2>1, NewEvents DEF Tells, N
  <1>8. \A shown : Trace!Tagged(tr2, shown) = Trace!Tagged(tr, shown) \cup
                     {i \in {N + 1, N + 2, N + 3} : tr2.observations[i].tag = shown}
    BY <1>5, <1>6, EventsShown DEF N
  <1>9. \A shown : \A i \in Trace!Tagged(tr, shown) : tr2.observations[i] = tr.observations[i]
    BY <1>5, EventsShown
  <1>10. Trace!Tagged(tr2, "Handled") =
           Trace!Tagged(tr, "Handled") \cup (IF tag = "Handled" THEN {N + 3} ELSE {})
    <2>1. {i \in {N + 1, N + 2, N + 3} : tr2.observations[i].tag = "Handled"} =
            IF tag = "Handled" THEN {N + 3} ELSE {}
      BY <1>2 DEF Shows
    <2> QED BY <1>8, <2>1
  <1>11. Trace!Tagged(tr2, "Rejected") =
           Trace!Tagged(tr, "Rejected") \cup (IF tag = "Rejected" THEN {N + 3} ELSE {})
    <2>1. {i \in {N + 1, N + 2, N + 3} : tr2.observations[i].tag = "Rejected"} =
            IF tag = "Rejected" THEN {N + 3} ELSE {}
      BY <1>2 DEF Shows
    <2> QED BY <1>8, <2>1
  <1>12. Trace!HandledBefore(tr2, N + 3) = hd
    <2>1. {k \in Trace!Tagged(tr2, "Handled") : k < N + 3} = Trace!Tagged(tr, "Handled")
      <3>1. \A k \in Trace!Tagged(tr, "Handled") : k \in 1..N
        BY <1>1 DEF Trace!Tagged
      <3>2. \A k \in Trace!Tagged(tr, "Handled") : k < N + 3
        BY <1>1, <3>1
      <3>3. ~(N + 3 < N + 3)
        BY <1>1
      <3> QED BY <1>10, <3>2, <3>3
    <2>2. hd = Trace!HandledIn(tr)
      BY DEF Tells, HandledTell
    <2>3. \A k \in Trace!Tagged(tr, "Handled") : tr2.observations[k] = tr.observations[k]
      BY <1>9
    <2> QED BY <2>1, <2>2, <2>3 DEF Trace!HandledBefore, Trace!HandledIn
  <1>13. StandsUp(sel, steps, tr2)
    <2>1. ASSUME NEW i \in Trace!AttemptEvents(tr2), i \in 1..N
          PROVE  Trace!ValidateObservation(sel, steps, tr2, i)
      BY <1>5, <2>1, StandsUpStill DEF Tells, N
    <2>2. Trace!ValidateObservation(sel, steps, tr2, N + 1)
      <3>1. \A shown : shown # "ForcedCompletion" => ~Trace!Earlier(tr2, N + 1, shown)
        <4>1. (N + 1)..((N + 1) - 1) = {}
          BY <1>1
        <4> QED BY <1>6, <1>7, <4>1
      <3>2. \A shown \in Trace!Terminal : shown # "ForcedCompletion"
        BY DEF Trace!Terminal
      <3> QED BY <1>2, <1>3, <3>1, <3>2 DEF Trace!ValidateObservation, Shows
    <2>3. Trace!ValidateObservation(sel, steps, tr2, N + 2)
      <3>1. \A shown : shown # "ForcedCompletion" =>
              (Trace!Earlier(tr2, N + 2, shown) <=> shown = "Sent")
        <4>1. (N + 1)..((N + 2) - 1) = {N + 1}
          BY <1>1
        <4>2. \A shown : shown # "ForcedCompletion" =>
               (Trace!Earlier(tr2, N + 2, shown) <=> \E j \in {N + 1} : tr2.observations[j].tag = shown)
          BY <1>6, <1>7, <4>1
        <4> QED BY <1>2, <4>2 DEF Shows
      <3>2. \A shown \in Trace!Terminal : shown # "ForcedCompletion" /\ shown # "Sent"
        BY DEF Trace!Terminal
      <3> QED BY <1>2, <1>3, <3>1, <3>2 DEF Trace!ValidateObservation, Shows
    <2>4. Trace!ValidateObservation(sel, steps, tr2, N + 3)
      <3>1. Trace!Earlier(tr2, N + 3, "Sent") /\ Trace!Earlier(tr2, N + 3, "Delivered")
        <4>1. (N + 1)..((N + 3) - 1) = {N + 1, N + 2}
          BY <1>1
        <4>2. \A shown : shown # "ForcedCompletion" =>
               (Trace!Earlier(tr2, N + 3, shown) <=>
                  \E j \in {N + 1, N + 2} : tr2.observations[j].tag = shown)
          BY <1>6, <1>7, <4>1
        <4> QED BY <1>2, <4>2 DEF Shows
      <3> QED BY <1>2, <1>3, <1>12, <3>1 DEF Trace!ValidateObservation, Shows
    <2>5. \A i \in Trace!AttemptEvents(tr2) : i \in 1..N \/ i = N + 1 \/ i = N + 2 \/ i = N + 3
      BY <1>1 DEF Trace!AttemptEvents
    <2> QED BY <2>1, <2>2, <2>3, <2>4, <2>5 DEF StandsUp
  <1>14. ForcesTell(steps, n + 1, tr2) /\ (Forces(steps, n + 1) <=> Forces(steps, n))
    BY <1>3, <1>7, ForcesStay DEF Tells
  <1>15. DropsTell(sel, steps, n + 1, tr2)
    <2>1. Trace!Tagged(tr2, "Dropped") = Trace!Tagged(tr, "Dropped")
      <3>1. {i \in {N + 1, N + 2, N + 3} : tr2.observations[i].tag = "Dropped"} = {}
        BY <1>2 DEF Shows
      <3> QED BY <1>8, <3>1
    <2>2. \A i \in Trace!Tagged(tr, "Dropped") : ShowsAck(sel, tr2, i) <=> ShowsAck(sel, tr, i)
      BY <1>9 DEF ShowsAck
    <2>3. (\E d \in 1..(n + 1) : Drops(sel, steps, d, "Ack")) <=>
            \E d \in 1..n : Drops(sel, steps, d, "Ack")
      BY <1>4, OneMoreStep
    <2> QED BY <2>1, <2>2, <2>3 DEF Tells, DropsTell
  <1> QED BY <1>7, <1>10, <1>11, <1>12, <1>13, <1>14, <1>15 DEF N
(* What is handled when a message arrives, and what the schedule says of   *)
(* it then: its cause is handled when the delivery does not come too early.*)
Arrives(sel, steps, n, m) ==
  /\ n + 1 \in DOMAIN steps /\ steps[n + 1].action = "deliver"
  /\ m = Trace!MessageOf(sel.protocol, steps[n + 1].messageId)

(* The message that arrives is the protocol's: its operation says its id.  *)
LEMMA Arrival ==
  ASSUME Trace!SelectionsAreDecoded, NEW sel, NEW steps, Ready(sel, steps), NEW n \in Nat,
         NEW m, Arrives(sel, steps, n, m)
  PROVE  /\ m \in Trace!MessagesOf(sel.protocol) /\ m.id = steps[n + 1].messageId
         /\ m.operation \in {"Prepare", "Commit", "Ack"} /\ m.id = IdOf(sel, m.operation)
         /\ Trace!MessageOf(sel.protocol, m.id) = m
         /\ \A op : Plays(sel, steps, n + 1, op) <=> m.operation = op
         /\ m.operation = "Prepare" => m.causalParent = {}
         /\ m.operation = "Commit" => m.causalParent = {IdOf(sel, "Prepare")}
         /\ m.operation = "Ack" => m.causalParent = {IdOf(sel, "Commit")}
         /\ IdOf(sel, "Prepare") # IdOf(sel, "Commit") /\ IdOf(sel, "Prepare") # IdOf(sel, "Ack")
         /\ IdOf(sel, "Commit") # IdOf(sel, "Ack")
         /\ steps[n + 1].action # "complete"
  <1>1. sel \in TraceSelections /\ Trace!ValidateSelection(sel)
    BY DEF Ready
  <1>2. n + 1 \in Trace!Deliveries(steps)
    BY DEF Arrives, Trace!Deliveries
  <1>3. m \in Trace!MessagesOf(sel.protocol) /\ m.id = steps[n + 1].messageId
    BY <1>2, StepMessage DEF Arrives
  <1>4. \A op : Plays(sel, steps, n + 1, op) <=> m.operation = op
    BY DEF Arrives, Plays
  <1>5. steps[n + 1].action # "complete"
    BY DEF Arrives
  <1> QED BY <1>1, <1>3, <1>4, <1>5, MessageNames DEF Trace!Operations

(* A delivery that handles nothing: a duplicate, one that comes too early, *)
(* or an acknowledgement that reaches an owner forced before.              *)
LEMMA DelaysTell ==
  ASSUME Trace!SelectionsAreDecoded, NEW sel, NEW steps, Ready(sel, steps), NEW n \in Nat,
         NEW tr, NEW hd, Tells(sel, steps, n, tr, hd),
         NEW m, Arrives(sel, steps, n, m),
         NEW tr2, Longer(tr, tr2, 3),
         NEW tag \in {"DuplicateIgnored", "Rejected"}, NEW reason,
         Shows(tr2, Len(tr.observations) + 1, "Sent", steps, n + 1),
         Shows(tr2, Len(tr.observations) + 2, "Delivered", steps, n + 1),
         Shows(tr2, Len(tr.observations) + 3, tag, steps, n + 1),
         tr2.observations[Len(tr.observations) + 3].ownerId = m.receiver,
         tr2.observations[Len(tr.observations) + 3].reason = reason,
         tag = "DuplicateIgnored" => m.id \in hd,
         tag = "Rejected" =>
           /\ m.id \notin hd
           /\ \/ ~(m.causalParent \subseteq hd) /\ reason = "causal-parent-not-handled"
              \/ /\ m.causalParent \subseteq hd /\ reason = "wrong-state"
                 /\ \/ m.operation = "Prepare" /\ tr.ownerB # "idle"
                    \/ m.operation = "Commit" /\ tr.ownerB # "prepared"
                    \/ m.operation = "Ack" /\ tr.ownerA # "waiting",
         tr2.ownerA = tr.ownerA, tr2.ownerB = tr.ownerB, tr2.mutations = tr.mutations
  PROVE  Tells(sel, steps, n + 1, tr2, hd)
  <1>1. /\ m \in Trace!MessagesOf(sel.protocol) /\ m.id = steps[n + 1].messageId
        /\ m.operation \in {"Prepare", "Commit", "Ack"} /\ m.id = IdOf(sel, m.operation)
        /\ \A op : Plays(sel, steps, n + 1, op) <=> m.operation = op
        /\ m.operation = "Prepare" => m.causalParent = {}
        /\ m.operation = "Commit" => m.causalParent = {IdOf(sel, "Prepare")}
        /\ m.operation = "Ack" => m.causalParent = {IdOf(sel, "Commit")}
    BY Arrival
  <1>2. /\ FromSteps(steps, n + 1, tr2) /\ StandsUp(sel, steps, tr2)
        /\ ForcesTell(steps, n + 1, tr2) /\ (Forces(steps, n + 1) <=> Forces(steps, n))
        /\ DropsTell(sel, steps, n + 1, tr2)
        /\ \A shown \in {"Handled", "Rejected"} :
              Trace!Tagged(tr2, shown) = Trace!Tagged(tr, shown) \cup
                (IF tag = shown THEN {Len(tr.observations) + 3} ELSE {})
    <2>1. /\ n + 1 \in DOMAIN steps /\ steps[n + 1].action = "deliver"
          /\ tr2.observations[Len(tr.observations) + 3].ownerId =
               Trace!MessageOf(sel.protocol, steps[n + 1].messageId).receiver
      BY DEF Arrives
    <2>2. tag = "DuplicateIgnored" => steps[n + 1].messageId \in hd
      BY <1>1
    <2>3. tag \in {"Handled", "DuplicateIgnored", "Rejected"}
      OBVIOUS
    <2> QED BY <2>1, <2>2, <2>3, DeliverySeen
  <1>3. /\ IdOf(sel, "Prepare") \in hd <=> Prepares(sel, steps, n)
        /\ IdOf(sel, "Commit") \in hd <=> Commits(sel, steps, n)
        /\ IdOf(sel, "Ack") \in hd <=> Acknowledges(sel, steps, n) /\ ~Forces(steps, n)
        /\ Commits(sel, steps, n) => Prepares(sel, steps, n)
        /\ Acknowledges(sel, steps, n) => Commits(sel, steps, n)
    BY OneMoreStep DEF Tells, HandledTell
  <1>4. /\ tr.ownerA = IF Forces(steps, n) \/ IdOf(sel, "Ack") \in hd THEN "complete" ELSE "waiting"
        /\ tr.ownerB = IF IdOf(sel, "Commit") \in hd THEN "committed"
                       ELSE IF IdOf(sel, "Prepare") \in hd THEN "prepared" ELSE "idle"
    BY DEF Tells, OwnersTell
  <1>5. /\ m.operation = "Prepare" => Prepares(sel, steps, n)
        /\ m.operation = "Commit" => Commits(sel, steps, n) \/ ~Prepares(sel, steps, n)
        /\ m.operation = "Ack" =>
             \/ ~Commits(sel, steps, n) \/ Forces(steps, n)
             \/ Acknowledges(sel, steps, n) /\ ~Forces(steps, n)
    <2>1. CASE tag = "DuplicateIgnored"
      BY <1>1, <1>3, <2>1
    <2>2. CASE tag = "Rejected" /\ ~(m.causalParent \subseteq hd)
      BY <1>1, <1>3, <2>2
    <2>3. CASE tag = "Rejected" /\ m.causalParent \subseteq hd
      <3>1. m.id \notin hd /\ \/ m.operation = "Prepare" /\ tr.ownerB # "idle"
                              \/ m.operation = "Commit" /\ tr.ownerB # "prepared"
                              \/ m.operation = "Ack" /\ tr.ownerA # "waiting"
        BY <2>3
      <3> QED BY <1>1, <1>3, <1>4, <2>3, <3>1
    <2> QED BY <2>1, <2>2, <2>3
  <1>6. tag = "Rejected" /\ reason = "causal-parent-not-handled" <=> Early(sel, steps, n + 1)
    <2>1. Early(sel, steps, n + 1) <=> \/ m.operation = "Commit" /\ ~Prepares(sel, steps, n)
                                       \/ m.operation = "Ack" /\ ~Commits(sel, steps, n)
      BY <1>1, OneMoreStep
    <2>2. CASE tag = "DuplicateIgnored"
      BY <1>1, <1>3, <2>1, <2>2
    <2>3. CASE tag = "Rejected" /\ ~(m.causalParent \subseteq hd)
      BY <1>1, <1>3, <2>1, <2>3
    <2>4. CASE tag = "Rejected" /\ m.causalParent \subseteq hd
      BY <1>1, <1>3, <2>1, <2>4
    <2> QED BY <2>2, <2>3, <2>4
  <1>7. HandledTell(sel, steps, n + 1, tr2, hd)
    <2>1. /\ Prepares(sel, steps, n + 1) <=> Prepares(sel, steps, n)
          /\ Commits(sel, steps, n + 1) <=> Commits(sel, steps, n)
          /\ Acknowledges(sel, steps, n + 1) /\ ~Forces(steps, n + 1) <=>
               Acknowledges(sel, steps, n) /\ ~Forces(steps, n)
      BY <1>1, <1>2, <1>3, <1>5, OneMoreStep
    <2>2. \A i \in (Len(tr.observations) + 1)..(Len(tr.observations) + 3) :
            tr2.observations[i].tag # "Handled"
      <3>1. Len(tr.observations) \in Nat
        BY OldEvents
      <3>2. \A i \in (Len(tr.observations) + 1)..(Len(tr.observations) + 3) :
              \/ i = Len(tr.observations) + 1 \/ i = Len(tr.observations) + 2
              \/ i = Len(tr.observations) + 3
        BY <3>1
      <3> QED BY <3>2 DEF Shows
    <2>3. Trace!HandledIn(tr2) = Trace!HandledIn(tr)
      BY <2>2, HandledGrows DEF Tells, HandledTell
    <2>4. \A i \in Trace!Tagged(tr2, "Handled") :
              LET id == tr2.observations[i].messageId
              IN /\ id \notin Trace!HandledBefore(tr2, i)
                 /\ Trace!MessageOf(sel.protocol, id).causalParent
                      \subseteq Trace!HandledBefore(tr2, i)
      BY <2>2, HandledGrows DEF Tells, HandledTell
    <2> QED BY <2>1, <2>3, <2>4 DEF Tells, HandledTell
  <1>8. EarlyTell(sel, steps, n + 1, tr2)
    <2>1. Trace!Tagged(tr2, "Rejected") = Trace!Tagged(tr, "Rejected") \cup
                (IF tag = "Rejected" THEN {Len(tr.observations) + 3} ELSE {})
      BY <1>2
    <2>2. \A i \in Trace!Tagged(tr, "Rejected") : tr2.observations[i] = tr.observations[i]
      BY EventsShown
    <2>3. (\E d \in 1..(n + 1) : Early(sel, steps, d)) <=>
            (\E d \in 1..n : Early(sel, steps, d)) \/ Early(sel, steps, n + 1)
      BY OneMoreStep
    <2>4. (\E i \in Trace!Tagged(tr, "Rejected") :
             tr.observations[i].reason = "causal-parent-not-handled")
            <=> \E d \in 1..n : Early(sel, steps, d)
      BY DEF Tells, EarlyTell
    <2> QED BY <1>6, <2>1, <2>2, <2>3, <2>4 DEF EarlyTell
  <1>9. OwnersTell(sel, steps, n + 1, tr2, hd)
    BY <1>2 DEF Tells, OwnersTell
  <1>10. IsList(tr2.observations)
    BY DEF Longer
  <1> QED BY <1>2, <1>7, <1>8, <1>9, <1>10 DEF Tells
(* A message handled: its cause was, and it was not.                       *)
LEMMA HandlingTells ==
  ASSUME Trace!SelectionsAreDecoded, NEW sel, NEW steps, Ready(sel, steps), NEW n \in Nat,
         NEW tr, NEW hd, Tells(sel, steps, n, tr, hd),
         NEW m, Arrives(sel, steps, n, m),
         NEW tr2, Longer(tr, tr2, 3),
         Shows(tr2, Len(tr.observations) + 1, "Sent", steps, n + 1),
         Shows(tr2, Len(tr.observations) + 2, "Delivered", steps, n + 1),
         Shows(tr2, Len(tr.observations) + 3, "Handled", steps, n + 1),
         tr2.observations[Len(tr.observations) + 3].ownerId = m.receiver,
         m.id \notin hd, m.causalParent \subseteq hd, m.operation = "Ack" => tr.ownerA = "waiting",
         tr2.ownerA = IF m.operation = "Ack" THEN "complete" ELSE tr.ownerA,
         m.operation = "Prepare" => tr2.ownerB = "prepared",
         m.operation = "Commit" => tr2.ownerB = "committed",
         m.operation = "Ack" => tr2.ownerB = tr.ownerB,
         tr2.mutations = tr.mutations + 1
  PROVE  Tells(sel, steps, n + 1, tr2, hd \cup {m.id})
  <1> DEFINE N == Len(tr.observations)
             hd2 == hd \cup {m.id}
  <1>1. /\ m \in Trace!MessagesOf(sel.protocol) /\ m.id = steps[n + 1].messageId
        /\ m.operation \in {"Prepare", "Commit", "Ack"} /\ m.id = IdOf(sel, m.operation)
        /\ Trace!MessageOf(sel.protocol, m.id) = m
        /\ \A op : Plays(sel, steps, n + 1, op) <=> m.operation = op
        /\ m.operation = "Prepare" => m.causalParent = {}
        /\ m.operation = "Commit" => m.causalParent = {IdOf(sel, "Prepare")}
        /\ m.operation = "Ack" => m.causalParent = {IdOf(sel, "Commit")}
        /\ IdOf(sel, "Prepare") # IdOf(sel, "Commit") /\ IdOf(sel, "Prepare") # IdOf(sel, "Ack")
        /\ IdOf(sel, "Commit") # IdOf(sel, "Ack")
    BY Arrival
  <1>2. /\ FromSteps(steps, n + 1, tr2) /\ StandsUp(sel, steps, tr2)
        /\ ForcesTell(steps, n + 1, tr2) /\ (Forces(steps, n + 1) <=> Forces(steps, n))
        /\ DropsTell(sel, steps, n + 1, tr2)
        /\ Trace!HandledBefore(tr2, N + 3) = hd
        /\ Trace!Tagged(tr2, "Handled") = Trace!Tagged(tr, "Handled") \cup {N + 3}
        /\ Trace!Tagged(tr2, "Rejected") = Trace!Tagged(tr, "Rejected")
    <2>1. /\ n + 1 \in DOMAIN steps /\ steps[n + 1].action = "deliver"
          /\ tr2.observations[N + 3].ownerId =
               Trace!MessageOf(sel.protocol, steps[n + 1].messageId).receiver
      BY DEF Arrives
    <2>2. PICK tag \in {"Handled", "DuplicateIgnored", "Rejected"} : tag = "Handled"
      OBVIOUS
    <2>3. Shows(tr2, N + 3, tag, steps, n + 1)
      BY <2>2
    <2>4. /\ FromSteps(steps, n + 1, tr2) /\ StandsUp(sel, steps, tr2)
          /\ ForcesTell(steps, n + 1, tr2) /\ (Forces(steps, n + 1) <=> Forces(steps, n))
          /\ DropsTell(sel, steps, n + 1, tr2)
          /\ Trace!HandledBefore(tr2, N + 3) = hd
          /\ \A shown \in {"Handled", "Rejected"} :
              Trace!Tagged(tr2, shown) = Trace!Tagged(tr, shown) \cup
                (IF tag = shown THEN {N + 3} ELSE {})
      BY <2>1, <2>2, <2>3, DeliverySeen
    <2>5. Trace!Tagged(tr2, "Handled") = Trace!Tagged(tr, "Handled") \cup {N + 3}
      BY <2>2, <2>4
    <2>6. Trace!Tagged(tr2, "Rejected") = Trace!Tagged(tr, "Rejected") \cup {}
      BY <2>2, <2>4
    <2> QED BY <2>4, <2>5, <2>6
  <1>3. /\ IdOf(sel, "Prepare") \in hd <=> Prepares(sel, steps, n)
        /\ IdOf(sel, "Commit") \in hd <=> Commits(sel, steps, n)
        /\ IdOf(sel, "Ack") \in hd <=> Acknowledges(sel, steps, n) /\ ~Forces(steps, n)
        /\ Commits(sel, steps, n) => Prepares(sel, steps, n)
        /\ Acknowledges(sel, steps, n) => Commits(sel, steps, n)
    BY OneMoreStep DEF Tells, HandledTell
  <1>4. /\ tr.ownerA = IF Forces(steps, n) \/ IdOf(sel, "Ack") \in hd THEN "complete" ELSE "waiting"
        /\ tr.ownerB = IF IdOf(sel, "Commit") \in hd THEN "committed"
                       ELSE IF IdOf(sel, "Prepare") \in hd THEN "prepared" ELSE "idle"
        /\ tr.mutations = Cardinality(hd) + IF Forces(steps, n) THEN 1 ELSE 0
    BY DEF Tells, OwnersTell
  <1>5. /\ m.operation = "Prepare" => ~Prepares(sel, steps, n)
        /\ m.operation = "Commit" => Prepares(sel, steps, n) /\ ~Commits(sel, steps, n)
        /\ m.operation = "Ack" =>
             Commits(sel, steps, n) /\ ~Acknowledges(sel, steps, n) /\ ~Forces(steps, n)
    BY <1>1, <1>3, <1>4
  <1>6. N \in Nat /\ Trace!Events(tr) = 1..N /\ tr2.observations[N + 3].messageId = m.id
    BY <1>1, OldEvents DEF Shows
  <1>7. \A i \in Trace!Tagged(tr, "Handled") :
          /\ tr2.observations[i] = tr.observations[i]
          /\ Trace!HandledBefore(tr2, i) = Trace!HandledBefore(tr, i)
    <2>1. \A i \in Trace!Tagged(tr, "Handled") : i \in 1..(N + 1)
      BY <1>6 DEF Trace!Tagged
    <2>2. \A i \in 1..(N + 1) : Trace!HandledBefore(tr2, i) = Trace!HandledBefore(tr, i)
      BY OldEvents
    <2>3. \A i \in Trace!Tagged(tr, "Handled") : tr2.observations[i] = tr.observations[i]
      BY EventsShown
    <2> QED BY <2>1, <2>2, <2>3
  <1>8. Longer(tr, tr2, 3)
    OBVIOUS
  <1> HIDE DEF N
  <1>9. HandledTell(sel, steps, n + 1, tr2, hd2)
    <2>1. hd2 = Trace!HandledIn(tr2)
      <3>1. hd = Trace!HandledIn(tr)
        BY DEF Tells, HandledTell
      <3> QED BY <1>2, <1>6, <1>7, <3>1 DEF Trace!HandledIn
    <2>2. hd2 \subseteq {IdOf(sel, op) : op \in Trace!Operations}
      BY <1>1 DEF Tells, HandledTell, Trace!Operations
    <2>3. /\ Prepares(sel, steps, n + 1) <=> Prepares(sel, steps, n) \/ m.operation = "Prepare"
          /\ Commits(sel, steps, n + 1) <=> Commits(sel, steps, n) \/ m.operation = "Commit"
          /\ Acknowledges(sel, steps, n + 1) <=> Acknowledges(sel, steps, n) \/ m.operation = "Ack"
      BY <1>1, <1>5, OneMoreStep
    <2>4. /\ IdOf(sel, "Prepare") \in hd2 <=> IdOf(sel, "Prepare") \in hd \/ m.operation = "Prepare"
          /\ IdOf(sel, "Commit") \in hd2 <=> IdOf(sel, "Commit") \in hd \/ m.operation = "Commit"
          /\ IdOf(sel, "Ack") \in hd2 <=> IdOf(sel, "Ack") \in hd \/ m.operation = "Ack"
      BY <1>1
    <2>5. \A i \in Trace!Tagged(tr2, "Handled") :
              LET id == tr2.observations[i].messageId
              IN /\ id \notin Trace!HandledBefore(tr2, i)
                 /\ Trace!MessageOf(sel.protocol, id).causalParent
                      \subseteq Trace!HandledBefore(tr2, i)
      <3>1. ASSUME NEW i \in Trace!Tagged(tr, "Handled")
            PROVE  LET id == tr2.observations[i].messageId
                   IN /\ id \notin Trace!HandledBefore(tr2, i)
                      /\ Trace!MessageOf(sel.protocol, id).causalParent
                           \subseteq Trace!HandledBefore(tr2, i)
        BY <1>7 DEF Tells, HandledTell
      <3>2. /\ m.id \notin Trace!HandledBefore(tr2, N + 3)
            /\ Trace!MessageOf(sel.protocol, m.id).causalParent
                 \subseteq Trace!HandledBefore(tr2, N + 3)
        BY <1>1, <1>2
      <3> QED BY <1>2, <1>6, <3>1, <3>2
    <2>6. IdOf(sel, "Ack") \in hd2 <=> Acknowledges(sel, steps, n + 1) /\ ~Forces(steps, n + 1)
      BY <1>2, <1>3, <1>5, <2>3, <2>4
    <2> HIDE DEF hd2
    <2> QED BY <1>3, <2>1, <2>2, <2>3, <2>4, <2>5, <2>6 DEF HandledTell
  <1>10. EarlyTell(sel, steps, n + 1, tr2)
    <2>1. \A i \in Trace!Tagged(tr, "Rejected") : tr2.observations[i] = tr.observations[i]
      BY EventsShown
    <2>2. ~Early(sel, steps, n + 1)
      BY <1>1, <1>5, OneMoreStep
    <2>3. (\E d \in 1..(n + 1) : Early(sel, steps, d)) <=> (\E d \in 1..n : Early(sel, steps, d))
      BY <2>2, OneMoreStep
    <2>4. (\E i \in Trace!Tagged(tr, "Rejected") :
             tr.observations[i].reason = "causal-parent-not-handled")
            <=> \E d \in 1..n : Early(sel, steps, d)
      BY DEF Tells, EarlyTell
    <2> QED BY <1>2, <2>1, <2>3, <2>4 DEF EarlyTell
  <1>11. OwnersTell(sel, steps, n + 1, tr2, hd2)
    <2>1. Cardinality(hd2) = Cardinality(hd) + 1 /\ Cardinality(hd) \in Nat
      <3>1. IsFiniteSet(hd) /\ Cardinality(hd) \in Nat
        BY FewHandled DEF Tells, HandledTell
      <3> QED BY <3>1, FS_AddElement
    <2>2. tr2.mutations = Cardinality(hd2) + IF Forces(steps, n + 1) THEN 1 ELSE 0
      BY <1>2, <1>4, <2>1
    <2>3. /\ IdOf(sel, "Prepare") \in hd2 <=> IdOf(sel, "Prepare") \in hd \/ m.operation = "Prepare"
          /\ IdOf(sel, "Commit") \in hd2 <=> IdOf(sel, "Commit") \in hd \/ m.operation = "Commit"
          /\ IdOf(sel, "Ack") \in hd2 <=> IdOf(sel, "Ack") \in hd \/ m.operation = "Ack"
      BY <1>1
    <2> HIDE DEF hd2
    <2>4. tr2.ownerA =
            IF Forces(steps, n + 1) \/ IdOf(sel, "Ack") \in hd2 THEN "complete" ELSE "waiting"
      BY <1>2, <1>4, <2>3
    <2>5. tr2.ownerB = IF IdOf(sel, "Commit") \in hd2 THEN "committed"
                       ELSE IF IdOf(sel, "Prepare") \in hd2 THEN "prepared" ELSE "idle"
      BY <1>1, <1>3, <1>4, <1>5, <2>3
    <2> QED BY <2>2, <2>4, <2>5 DEF OwnersTell
  <1>12. IsList(tr2.observations)
    BY DEF Longer
  <1> QED BY <1>2, <1>9, <1>10, <1>11, <1>12 DEF Tells
-----------------------------------------------------------------------------
(* Messages delivered in order, as the schedule tells them.                *)
LEMMA SubsequencesOf ==
  ASSUME NEW sel, NEW steps, NEW n \in Nat, NEW part, DOMAIN part = 1..n,
         \A d \in 1..n : part[d] = steps[d]
  PROVE  /\ Trace!Subsequence(part, <<"Prepare">>, sel.protocol) <=> Prepares(sel, steps, n)
         /\ Trace!Subsequence(part, <<"Prepare", "Commit">>, sel.protocol) <=> Commits(sel, steps, n)
         /\ Trace!Subsequence(part, <<"Prepare", "Commit", "Ack">>, sel.protocol)
              <=> Acknowledges(sel, steps, n)
  <1> DEFINE Fits(d, op) == /\ part[d].action = "deliver"
                            /\ Trace!MessageOf(sel.protocol, part[d].messageId).operation = op
  <1>1. \A d \in 1..n : \A op : Fits(d, op) <=> Plays(sel, steps, d, op)
    BY DEF Plays
  <1>2. \A ops : Trace!Subsequence(part, ops, sel.protocol) <=>
          \E f \in [DOMAIN ops -> 1..n] : /\ \A i \in DOMAIN ops : Fits(f[i], ops[i])
                                          /\ \A i, j \in DOMAIN ops : i < j => f[i] < f[j]
    BY DEF Trace!Subsequence
  <1> HIDE DEF Fits
  <1>3. Trace!Subsequence(part, <<"Prepare">>, sel.protocol) <=> Prepares(sel, steps, n)
    <2> DEFINE ops == <<"Prepare">>
    <2>1. DOMAIN ops = 1..1 /\ ops[1] = "Prepare" /\ 1..1 = {1}
      OBVIOUS
    <2> HIDE DEF ops
    <2>2. ASSUME NEW f \in [DOMAIN ops -> 1..n], \A i \in DOMAIN ops : Fits(f[i], ops[i])
          PROVE  Prepares(sel, steps, n)
      BY <1>1, <2>1, <2>2 DEF Prepares
    <2>3. ASSUME NEW a \in 1..n, Plays(sel, steps, a, "Prepare")
          PROVE  \E f \in [DOMAIN ops -> 1..n] : /\ \A i \in DOMAIN ops : Fits(f[i], ops[i])
                                                 /\ \A i, j \in DOMAIN ops : i < j => f[i] < f[j]
      <3>1. PICK f : f = [i \in DOMAIN ops |-> a]
        OBVIOUS
      <3>2. f \in [DOMAIN ops -> 1..n] /\ \A i \in DOMAIN ops : Fits(f[i], ops[i])
        BY <1>1, <2>1, <2>3, <3>1
      <3>3. \A i, j \in DOMAIN ops : ~(i < j)
        BY <2>1
      <3> QED BY <3>2, <3>3
    <2>4. Trace!Subsequence(part, ops, sel.protocol) <=> Prepares(sel, steps, n)
      BY <1>2, <2>2, <2>3 DEF Prepares
    <2> QED BY <2>4 DEF ops
  <1>4. Trace!Subsequence(part, <<"Prepare", "Commit">>, sel.protocol) <=> Commits(sel, steps, n)
    <2> DEFINE ops == <<"Prepare", "Commit">>
    <2>1. DOMAIN ops = 1..2 /\ ops[1] = "Prepare" /\ ops[2] = "Commit" /\ 1..2 = {1, 2}
      OBVIOUS
    <2> HIDE DEF ops
    <2>2. ASSUME NEW f \in [DOMAIN ops -> 1..n], \A i \in DOMAIN ops : Fits(f[i], ops[i]),
                 \A i, j \in DOMAIN ops : i < j => f[i] < f[j]
          PROVE  Commits(sel, steps, n)
      <3>1. f[1] \in 1..n /\ f[2] \in 1..n /\ f[1] < f[2]
        BY <2>1, <2>2
      <3>2. Plays(sel, steps, f[1], "Prepare") /\ Plays(sel, steps, f[2], "Commit")
        BY <1>1, <2>1, <2>2, <3>1
      <3> QED BY <3>1, <3>2 DEF Commits
    <2>3. ASSUME NEW a \in 1..n, NEW b \in 1..n, a < b, Plays(sel, steps, a, "Prepare"),
                 Plays(sel, steps, b, "Commit")
          PROVE  \E f \in [DOMAIN ops -> 1..n] : /\ \A i \in DOMAIN ops : Fits(f[i], ops[i])
                                                 /\ \A i, j \in DOMAIN ops : i < j => f[i] < f[j]
      <3>1. PICK f : f = [i \in DOMAIN ops |-> IF i = 1 THEN a ELSE b]
        OBVIOUS
      <3>2. f \in [DOMAIN ops -> 1..n] /\ f[1] = a /\ f[2] = b
        BY <2>1, <3>1
      <3>3. \A i \in DOMAIN ops : Fits(f[i], ops[i])
        BY <1>1, <2>1, <2>3, <3>2
      <3>4. \A i, j \in DOMAIN ops : i < j => f[i] < f[j]
        BY <2>1, <2>3, <3>2
      <3> QED BY <3>2, <3>3, <3>4
    <2>4. Trace!Subsequence(part, ops, sel.protocol) <=> Commits(sel, steps, n)
      BY <1>2, <2>2, <2>3 DEF Commits
    <2> QED BY <2>4 DEF ops
  <1>5. Trace!Subsequence(part, <<"Prepare", "Commit", "Ack">>, sel.protocol)
          <=> Acknowledges(sel, steps, n)
    <2> DEFINE ops == <<"Prepare", "Commit", "Ack">>
    <2>1. /\ DOMAIN ops = 1..3 /\ ops[1] = "Prepare" /\ ops[2] = "Commit" /\ ops[3] = "Ack"
          /\ 1..3 = {1, 2, 3}
      OBVIOUS
    <2> HIDE DEF ops
    <2>2. ASSUME NEW f \in [DOMAIN ops -> 1..n], \A i \in DOMAIN ops : Fits(f[i], ops[i]),
                 \A i, j \in DOMAIN ops : i < j => f[i] < f[j]
          PROVE  Acknowledges(sel, steps, n)
      <3>1. f[1] \in 1..n /\ f[2] \in 1..n /\ f[3] \in 1..n /\ f[1] < f[2] /\ f[2] < f[3]
        BY <2>1, <2>2
      <3>2. /\ Plays(sel, steps, f[1], "Prepare") /\ Plays(sel, steps, f[2], "Commit")
            /\ Plays(sel, steps, f[3], "Ack")
        BY <1>1, <2>1, <2>2, <3>1
      <3> QED BY <3>1, <3>2 DEF Acknowledges
    <2>3. ASSUME NEW a \in 1..n, NEW b \in 1..n, NEW c \in 1..n, a < b, b < c,
                 Plays(sel, steps, a, "Prepare"), Plays(sel, steps, b, "Commit"),
                 Plays(sel, steps, c, "Ack")
          PROVE  \E f \in [DOMAIN ops -> 1..n] : /\ \A i \in DOMAIN ops : Fits(f[i], ops[i])
                                                 /\ \A i, j \in DOMAIN ops : i < j => f[i] < f[j]
      <3>1. PICK f : f = [i \in DOMAIN ops |-> IF i = 1 THEN a ELSE IF i = 2 THEN b ELSE c]
        OBVIOUS
      <3>2. f \in [DOMAIN ops -> 1..n] /\ f[1] = a /\ f[2] = b /\ f[3] = c
        BY <2>1, <3>1
      <3>3. \A i \in DOMAIN ops : Fits(f[i], ops[i])
        BY <1>1, <2>1, <2>3, <3>2
      <3>4. \A i, j \in DOMAIN ops : i < j => f[i] < f[j]
        BY <2>1, <2>3, <3>2
      <3> QED BY <3>2, <3>3, <3>4
    <2>4. Trace!Subsequence(part, ops, sel.protocol) <=> Acknowledges(sel, steps, n)
      BY <1>2, <2>2, <2>3 DEF Acknowledges
    <2> QED BY <2>4 DEF ops
  <1> QED BY <1>3, <1>4, <1>5
(* The evaluator counts as everybody does.                                 *)
LEMMA SameCardinality == \A S : Trace!Cardinality(S) = Cardinality(S)
  BY DEF Cardinality, Trace!Cardinality

(* The evaluator reads in a whole trace what its schedule says.            *)
LEMMA EvaluationTells ==
  ASSUME Trace!SelectionsAreDecoded, NEW sel, NEW steps, Ready(sel, steps),
         NEW tr, NEW hd, Tells(sel, steps, Len(steps), tr, hd)
  PROVE  Trace!EvaluateSchedule(sel, tr) = Trace!Expected(sel, steps)
  <1> DEFINE n == Len(steps)
             forcings == Cardinality(Trace!Tagged(tr, "ForcedCompletion"))
             forced == \E i \in DOMAIN steps : steps[i].action = "complete"
             early == \E i \in DOMAIN steps :
               \/ /\ steps[i].action = "deliver"
                  /\ Trace!MessageOf(sel.protocol, steps[i].messageId).operation = "Commit"
                  /\ ~Trace!Subsequence([d \in 1..i |-> steps[d]], <<"Prepare">>, sel.protocol)
               \/ /\ steps[i].action = "deliver"
                  /\ Trace!MessageOf(sel.protocol, steps[i].messageId).operation = "Ack"
                  /\ ~Trace!Subsequence([d \in 1..i |-> steps[d]], <<"Prepare", "Commit">>, sel.protocol)
             acked == Trace!Subsequence(steps, <<"Prepare", "Commit", "Ack">>, sel.protocol) /\ ~forced
             lost == \E i \in DOMAIN steps :
               /\ steps[i].action = "drop"
               /\ Trace!MessageOf(sel.protocol, steps[i].messageId).operation = "Ack"
  <1>2. Trace!Expected(sel, steps) =
          <<"Satisfied", Trace!Violated(early), "Satisfied", Trace!Violated(forced),
            IF lost /\ forced THEN "Violated" ELSE IF ~acked THEN "Unresolved" ELSE "Satisfied">>
    BY DEF Trace!Expected
  <1>3. DOMAIN steps = 1..n /\ n \in Nat
    BY StepMessage
  <1>4. forced <=> Forces(steps, n)
    BY <1>3 DEF Forces
  <1>5. lost <=> Trace!Some(sel, tr, "Dropped", "Ack")
    BY <1>3 DEF Tells, DropsTell, ShowsAck, Drops, Trace!Some, Trace!MessageAt
  <1>6. acked <=> Acknowledges(sel, steps, n) /\ ~Forces(steps, n)
    BY <1>3, <1>4, SubsequencesOf
  <1>7. early <=> \E d \in 1..n : Early(sel, steps, d)
    <2>1. ASSUME NEW d \in 1..n
          PROVE  /\ Trace!Subsequence([e \in 1..d |-> steps[e]], <<"Prepare">>, sel.protocol)
                      <=> Prepares(sel, steps, d)
                 /\ Trace!Subsequence([e \in 1..d |-> steps[e]], <<"Prepare", "Commit">>, sel.protocol)
                      <=> Commits(sel, steps, d)
      <3>1. PICK part : part = [e \in 1..d |-> steps[e]]
        OBVIOUS
      <3>2. d \in Nat /\ DOMAIN part = 1..d /\ \A e \in 1..d : part[e] = steps[e]
        BY <1>3, <3>1
      <3> QED BY <3>1, <3>2, SubsequencesOf
    <2> QED BY <1>3, <2>1 DEF Early, Plays
  <1>8. /\ hd = Trace!HandledIn(tr)
        /\ \A i \in Trace!Tagged(tr, "Handled") :
             LET id == tr.observations[i].messageId
             IN /\ id \notin Trace!HandledBefore(tr, i)
                /\ Trace!MessageOf(sel.protocol, id).causalParent \subseteq Trace!HandledBefore(tr, i)
        /\ hd \subseteq {IdOf(sel, op) : op \in Trace!Operations}
        /\ IdOf(sel, "Ack") \in hd <=> Acknowledges(sel, steps, n) /\ ~Forces(steps, n)
    BY DEF Tells, HandledTell
  <1>9. Trace!CausalViolation(sel, tr) <=> early
    BY <1>7, <1>8 DEF Tells, EarlyTell, Trace!CausalViolation, Trace!MessageAt
  <1>10. ~Trace!AtMostOnceViolation(tr)
    <2>1. forcings = IF Forces(steps, n) THEN 1 ELSE 0
      <3>1. CASE Trace!Tagged(tr, "ForcedCompletion") = {} /\ ~Forces(steps, n)
        BY <3>1, FS_EmptySet
      <3>2. ASSUME NEW i, NEW d, Trace!Tagged(tr, "ForcedCompletion") = {i}, d \in 1..n,
                   {e \in 1..n : steps[e].action = "complete"} = {d}
            PROVE  forcings = IF Forces(steps, n) THEN 1 ELSE 0
        <4>1. forcings = 1
          BY <3>2, FS_Singleton
        <4>2. Forces(steps, n)
          BY <3>2 DEF Forces
        <4> QED BY <4>1, <4>2
      <3> QED BY <3>1, <3>2 DEF Tells, ForcesTell
    <2>2. tr.mutations = Cardinality(hd) + IF Forces(steps, n) THEN 1 ELSE 0
      BY DEF Tells, OwnersTell
    <2>3. tr.mutations = Cardinality(Trace!HandledIn(tr)) + forcings
      BY <1>8, <2>1, <2>2
    <2>4. ~\E i \in Trace!Tagged(tr, "Handled") :
            tr.observations[i].messageId \in Trace!HandledBefore(tr, i)
      BY <1>8
    <2>5. tr.mutations = Trace!Cardinality(Trace!HandledIn(tr))
                           + Trace!Cardinality(Trace!Tagged(tr, "ForcedCompletion"))
      BY <2>3, SameCardinality
    <2> QED BY <2>4, <2>5 DEF Trace!AtMostOnceViolation
  <1>11. /\ Trace!Some(sel, tr, "Handled", "Ack") <=> IdOf(sel, "Ack") \in hd
         /\ Trace!Some(sel, tr, "Handled", "Commit") <=> IdOf(sel, "Commit") \in hd
    <2>1. sel \in TraceSelections /\ Trace!ValidateSelection(sel)
      BY DEF Ready
    <2>2. ASSUME NEW op \in {"Commit", "Ack"}
          PROVE  Trace!Some(sel, tr, "Handled", op) <=> IdOf(sel, op) \in hd
      <3>1. PICK m \in Trace!MessagesOf(sel.protocol) : m.operation = op /\ m.id = IdOf(sel, op)
        BY <2>1, MessageNames DEF Trace!Operations
      <3>2. Trace!MessageOf(sel.protocol, IdOf(sel, op)).operation = op
        BY <2>1, <3>1, MessageNames
      <3>3. ASSUME NEW id \in hd, Trace!MessageOf(sel.protocol, id).operation = op
            PROVE  id = IdOf(sel, op)
        <4>1. PICK other \in Trace!Operations : id = IdOf(sel, other)
          BY <1>8
        <4>2. PICK l \in Trace!MessagesOf(sel.protocol) : l.operation = other /\ l.id = id
          BY <2>1, <4>1, MessageNames
        <4>3. Trace!MessageOf(sel.protocol, id) = l
          BY <2>1, <4>2, MessageNames
        <4> QED BY <3>3, <4>1, <4>2, <4>3
      <3>4. \A id : id \in hd <=> \E i \in Trace!Tagged(tr, "Handled") : tr.observations[i].messageId = id
        BY <1>8 DEF Trace!HandledIn
      <3> QED BY <3>2, <3>3, <3>4 DEF Trace!Some, Trace!MessageAt
    <2> QED BY <2>2
  <1>12. /\ tr.ownerA = IF Forces(steps, n) \/ IdOf(sel, "Ack") \in hd THEN "complete" ELSE "waiting"
         /\ tr.ownerB = "committed" <=> IdOf(sel, "Commit") \in hd
    BY DEF Tells, OwnersTell
  <1> HIDE DEF forced, early, acked, lost
  <1>13. Trace!CoordinationViolation(sel, tr) <=> forced
    BY <1>4, <1>8, <1>11, <1>12 DEF Trace!CoordinationViolation
  <1>14. Trace!LossStatus(sel, tr) =
           IF lost /\ forced THEN "Violated" ELSE IF ~acked THEN "Unresolved" ELSE "Satisfied"
    BY <1>4, <1>5, <1>6, <1>8, <1>11, <1>12 DEF Trace!LossStatus
  <1>15. /\ Trace!Violated(Trace!CausalViolation(sel, tr)) = Trace!Violated(early)
         /\ Trace!Violated(Trace!AtMostOnceViolation(tr)) = "Satisfied"
         /\ Trace!Violated(Trace!CoordinationViolation(sel, tr)) = Trace!Violated(forced)
    BY <1>9, <1>10, <1>13 DEF Trace!Violated
  <1> QED BY <1>2, <1>14, <1>15 DEF Trace!EvaluateSchedule

(* and never refuses it.                                                   *)
LEMMA InspectionPasses ==
  ASSUME Trace!SelectionsAreDecoded, NEW sel, NEW steps, Ready(sel, steps),
         NEW tr, NEW hd, Tells(sel, steps, Len(steps), tr, hd)
  PROVE  /\ \A i \in Trace!AttemptEvents(tr) : Trace!ValidateObservation(sel, steps, tr, i)
         /\ Cardinality(Trace!Tagged(tr, "ForcedCompletion"))
              = Cardinality(DOMAIN steps \ Trace!Deliveries(steps))
  <1>1. DOMAIN steps \ Trace!Deliveries(steps) = {e \in 1..Len(steps) : steps[e].action = "complete"}
    BY StepMessage DEF Trace!Deliveries
  <1>2. CASE /\ Trace!Tagged(tr, "ForcedCompletion") = {} /\ ~Forces(steps, Len(steps))
    <2>1. DOMAIN steps \ Trace!Deliveries(steps) = {}
      BY <1>1, <1>2 DEF Forces
    <2> QED BY <1>2, <2>1 DEF Tells, StandsUp
  <1>3. ASSUME NEW i, NEW d, Trace!Tagged(tr, "ForcedCompletion") = {i},
               {e \in 1..Len(steps) : steps[e].action = "complete"} = {d}
        PROVE  Cardinality(Trace!Tagged(tr, "ForcedCompletion"))
                 = Cardinality(DOMAIN steps \ Trace!Deliveries(steps))
    BY <1>1, <1>3, FS_Singleton
  <1> QED BY <1>2, <1>3 DEF Tells, StandsUp, ForcesTell
-----------------------------------------------------------------------------
(* A schedule that has not begun says nothing.                             *)
LEMMA NothingTold ==
  ASSUME NEW sel, NEW steps, NEW tr, tr.observations = <<>>, tr.ownerA = "waiting",
         tr.ownerB = "idle", tr.mutations = 0
  PROVE  Tells(sel, steps, 0, tr, {})
  <1>1. Trace!Events(tr) = {} /\ 1..0 = {}
    BY DEF Trace!Events
  <1>2. \A tag : Trace!Tagged(tr, tag) = {}
    BY <1>1 DEF Trace!Tagged
  <1>3. FromSteps(steps, 0, tr) /\ StandsUp(sel, steps, tr)
    BY <1>1 DEF FromSteps, StandsUp, Trace!AttemptEvents
  <1>4. /\ ~Prepares(sel, steps, 0) /\ ~Commits(sel, steps, 0) /\ ~Acknowledges(sel, steps, 0)
        /\ ~Forces(steps, 0)
    BY <1>1 DEF Prepares, Commits, Acknowledges, Forces
  <1>5. ForcesTell(steps, 0, tr) /\ EarlyTell(sel, steps, 0, tr) /\ DropsTell(sel, steps, 0, tr)
    BY <1>1, <1>2, <1>4 DEF ForcesTell, EarlyTell, DropsTell
  <1>6. Trace!HandledIn(tr) = {}
    BY <1>2 DEF Trace!HandledIn
  <1>7. HandledTell(sel, steps, 0, tr, {})
    BY <1>2, <1>4, <1>6 DEF HandledTell
  <1>8. OwnersTell(sel, steps, 0, tr, {})
    BY <1>4, FS_EmptySet DEF OwnersTell
  <1> QED BY <1>3, <1>5, <1>7, <1>8, EmptyList DEF Tells

(* The running schedule is one of a valid selection.                       *)
LEMMA RunningSchedule ==
  ASSUME Trace!SelectionsAreDecoded, VInv, stage = "execution",
         Len(traces) < Len(selection.schedules)
  PROVE  /\ Len(traces) \in Nat /\ taken \in Nat /\ Len(traces) + 1 \in DOMAIN selection.schedules
         /\ Trace!schedule = selection.schedules[Len(traces) + 1]
         /\ Ready(selection, Trace!schedule)
         /\ DOMAIN Trace!schedule = 1..Len(Trace!schedule) /\ Len(Trace!schedule) \in Nat
  <1>1. /\ selection \in TraceSelections /\ Trace!ValidateSelection(selection)
        /\ Len(traces) \in Nat /\ taken \in Nat
    BY ListLen DEF VInv, IInv, Positions
  <1>2. DOMAIN selection.schedules = 1..Len(selection.schedules) /\ Len(selection.schedules) \in Nat
    BY <1>1 DEF Trace!SelectionsAreDecoded
  <1>3. Len(traces) + 1 \in DOMAIN selection.schedules
    BY <1>1, <1>2
  <1>4. Trace!schedule = selection.schedules[Len(traces) + 1]
    BY DEF Trace!schedule
  <1>5. Ready(selection, Trace!schedule)
    BY <1>1, <1>3, <1>4 DEF Ready
  <1> QED BY <1>1, <1>3, <1>4, <1>5, StepMessage

(* A step of the running schedule that makes the trace say what the        *)
(* schedule says with the step.                                            *)
LEMMA TakenTells ==
  ASSUME VInv, Trace!StepsLeft, taken' = taken + 1, Trace!StaysInTrace,
         Tells(selection, Trace!schedule, taken + 1, Running', handled')
  PROVE  TracesInv' /\ VerdictsTellTheSchedules'
  <1>1. UNCHANGED <<selection, stage, traces>> /\ stage = "execution"
    BY DEF Trace!StaysInTrace, Trace!StepsLeft
  <1>2. Trace!schedule' = Trace!schedule
    BY <1>1 DEF Trace!schedule
  <1>3. Tells(selection', Trace!schedule', taken', Running', handled')
    BY <1>1, <1>2
  <1>4. TracesInv'
    BY <1>1, <1>3 DEF VInv, TracesInv
  <1> QED BY <1>1, <1>4 DEF VerdictsTellTheSchedules, Trace!VerdictsTellTheSchedules

(* The trace before a step of the running schedule, and the step.          *)
LEMMA StepAhead ==
  ASSUME Trace!SelectionsAreDecoded, VInv, Trace!StepsLeft
  PROVE  /\ Ready(selection, Trace!schedule) /\ taken \in Nat
         /\ Tells(selection, Trace!schedule, taken, Running, handled)
         /\ taken + 1 \in DOMAIN Trace!schedule /\ Trace!step = Trace!schedule[taken + 1]
         /\ IsList(observed)
  <1>1. stage = "execution" /\ Len(traces) < Len(selection.schedules) /\ taken < Len(Trace!schedule)
    BY DEF Trace!StepsLeft
  <1>2. /\ Ready(selection, Trace!schedule) /\ taken \in Nat
        /\ DOMAIN Trace!schedule = 1..Len(Trace!schedule) /\ Len(Trace!schedule) \in Nat
    BY <1>1, RunningSchedule
  <1>3. taken + 1 \in DOMAIN Trace!schedule
    BY <1>1, <1>2
  <1>4. Tells(selection, Trace!schedule, taken, Running, handled)
    BY <1>1 DEF VInv, TracesInv
  <1> QED BY <1>2, <1>3, <1>4 DEF VInv, IInv, Positions, Trace!step

(* A forced completion.                                                    *)
LEMMA ForceCompletionTells ==
  ASSUME Trace!SelectionsAreDecoded, VInv, Trace!ForceCompletion
  PROVE  TracesInv' /\ VerdictsTellTheSchedules'
  <1>1. /\ Trace!StepsLeft /\ Trace!step.action = "complete" /\ taken' = taken + 1
        /\ Trace!StaysInTrace
        /\ ownerA = "waiting" /\ ownerA' = "complete" /\ mutations' = mutations + 1
        /\ UNCHANGED <<ownerB, handled>>
    BY DEF Trace!ForceCompletion, Trace!Takes
  <1>2. PICK a : a.tag = "ForcedCompletion" /\ observed' = Append(observed, a)
    BY DEF Trace!ForceCompletion
  <1>3. PICK tr, tr2, steps, sel, hd, n, obs, obs2 :
          /\ tr = Running /\ tr2 = Running' /\ steps = Trace!schedule /\ sel = selection
          /\ hd = handled /\ n = taken /\ obs = observed /\ obs2 = observed'
    OBVIOUS
  <1>4. /\ Ready(sel, steps) /\ n \in Nat /\ Tells(sel, steps, n, tr, hd)
        /\ steps[n + 1].action = "complete" /\ IsList(obs)
    BY <1>1, <1>3, StepAhead
  <1>5. /\ tr.observations = obs /\ tr2.observations = obs2 /\ tr.ownerA = "waiting"
        /\ tr2.ownerA = "complete" /\ tr2.ownerB = tr.ownerB /\ tr2.mutations = tr.mutations + 1
    BY <1>1, <1>3 DEF Running
  <1>6. /\ IsList(obs2) /\ Len(obs2) = Len(obs) + 1 /\ obs2[Len(obs) + 1] = a
        /\ \A i \in 1..Len(obs) : obs2[i] = obs[i]
    BY <1>2, <1>3, <1>4, GrowsByOne
  <1>7. Longer(tr, tr2, 1) /\ tr2.observations[Len(tr.observations) + 1].tag = "ForcedCompletion"
    BY <1>2, <1>4, <1>5, <1>6 DEF Longer
  <1>8. Tells(sel, steps, n + 1, tr2, hd)
    BY <1>4, <1>5, <1>7, ForceTells
  <1> QED BY <1>1, <1>3, <1>8, TakenTells

(* A dropped message.                                                      *)
LEMMA DropMessageTells ==
  ASSUME Trace!SelectionsAreDecoded, VInv, Trace!DropMessage
  PROVE  TracesInv' /\ VerdictsTellTheSchedules'
  <1> DEFINE m == Trace!MessageOf(selection.protocol, Trace!step.messageId)
  <1>1. /\ Trace!StepsLeft /\ Trace!step.action = "drop" /\ taken' = taken + 1
        /\ Trace!StaysInTrace /\ UNCHANGED <<ownerA, ownerB, handled, mutations>>
    BY DEF Trace!DropMessage, Trace!Takes, Trace!owning
  <1>2. m.id = Trace!step.messageId
    BY <1>1, DeliveredMessage DEF VInv
  <1>3. PICK a, b : /\ a = Trace!Sent(m) /\ b = Trace!Observe("Dropped", m, "nobody", "none")
                    /\ observed' = observed \o <<a, b>>
    BY DEF Trace!DropMessage
  <1>4. /\ a.tag = "Sent" /\ a.attemptId = Trace!step.attemptId /\ a.messageId = Trace!step.messageId
        /\ b.tag = "Dropped" /\ b.attemptId = Trace!step.attemptId
        /\ b.messageId = Trace!step.messageId
    BY <1>2, <1>3 DEF Trace!Sent, Trace!Observe
  <1>5. PICK tr, tr2, steps, sel, hd, n, obs, obs2 :
          /\ tr = Running /\ tr2 = Running' /\ steps = Trace!schedule /\ sel = selection
          /\ hd = handled /\ n = taken /\ obs = observed /\ obs2 = observed'
    OBVIOUS
  <1>6. /\ Ready(sel, steps) /\ n \in Nat /\ Tells(sel, steps, n, tr, hd) /\ n + 1 \in DOMAIN steps
        /\ steps[n + 1] = Trace!step /\ IsList(obs)
    BY <1>1, <1>5, StepAhead
  <1>7. /\ tr.observations = obs /\ tr2.observations = obs2 /\ tr2.ownerA = tr.ownerA
        /\ tr2.ownerB = tr.ownerB /\ tr2.mutations = tr.mutations
    BY <1>1, <1>5 DEF Running
  <1>8. /\ IsList(obs2) /\ Len(obs2) = Len(obs) + 2
        /\ obs2[Len(obs) + 1] = a /\ obs2[Len(obs) + 2] = b
        /\ \A i \in 1..Len(obs) : obs2[i] = obs[i]
    BY <1>3, <1>5, <1>6, GrowsByTwo
  <1>9. Longer(tr, tr2, 2)
    BY <1>6, <1>7, <1>8 DEF Longer
  <1>10. /\ Shows(tr2, Len(tr.observations) + 1, "Sent", steps, n + 1)
         /\ Shows(tr2, Len(tr.observations) + 2, "Dropped", steps, n + 1)
    BY <1>4, <1>6, <1>7, <1>8 DEF Shows
  <1>11. steps[n + 1].action = "drop"
    BY <1>1, <1>6
  <1>12. Tells(sel, steps, n + 1, tr2, hd)
    BY <1>6, <1>7, <1>9, <1>10, <1>11, DropTells
  <1> QED BY <1>1, <1>5, <1>12, TakenTells

(* What a delivery adds to the running trace.                              *)
LEMMA DeliveryShown ==
  ASSUME Trace!SelectionsAreDecoded, VInv,
         NEW tag \in {"Handled", "DuplicateIgnored", "Rejected"}, Trace!DeliverMessage(tag),
         NEW m, m = Trace!MessageOf(selection.protocol, Trace!step.messageId)
  PROVE  LET N == Len(observed)
         IN /\ Trace!StepsLeft /\ taken' = taken + 1 /\ Trace!StaysInTrace
            /\ Arrives(selection, Trace!schedule, taken, m)
            /\ Trace!Judge(m)[1] = tag
            /\ Longer(Running, Running', 3)
            /\ Shows(Running', N + 1, "Sent", Trace!schedule, taken + 1)
            /\ Shows(Running', N + 2, "Delivered", Trace!schedule, taken + 1)
            /\ Shows(Running', N + 3, tag, Trace!schedule, taken + 1)
            /\ Running'.observations[N + 3].ownerId = m.receiver
            /\ Running'.observations[N + 3].reason = Trace!Judge(m)[2]
  <1>1. /\ Trace!StepsLeft /\ Trace!step.action = "deliver" /\ taken' = taken + 1
        /\ Trace!StaysInTrace /\ Trace!Judge(m)[1] = tag
    BY DEF Trace!DeliverMessage, Trace!Takes
  <1>2. m.id = Trace!step.messageId
    BY <1>1, DeliveredMessage DEF VInv
  <1>3. PICK a, b, c :
          /\ a = Trace!Sent(m) /\ b = Trace!Delivered(m)
          /\ c = Trace!Observe(tag, m, m.receiver, Trace!Judge(m)[2])
          /\ observed' = observed \o <<a, b, c>>
    BY DEF Trace!DeliverMessage
  <1>4. /\ a.tag = "Sent" /\ a.attemptId = Trace!step.attemptId /\ a.messageId = Trace!step.messageId
        /\ b.tag = "Delivered" /\ b.attemptId = Trace!step.attemptId
        /\ b.messageId = Trace!step.messageId
    BY <1>2, <1>3 DEF Trace!Sent, Trace!Delivered, Trace!Observe
  <1>5. /\ c.tag = tag /\ c.attemptId = Trace!step.attemptId /\ c.messageId = Trace!step.messageId
        /\ c.ownerId = m.receiver /\ c.reason = Trace!Judge(m)[2]
    BY <1>2, <1>3 DEF Trace!Observe
  <1>6. PICK tr, tr2, steps, n, obs, obs2 :
          /\ tr = Running /\ tr2 = Running' /\ steps = Trace!schedule
          /\ n = taken /\ obs = observed /\ obs2 = observed'
    OBVIOUS
  <1>7. /\ n \in Nat /\ n + 1 \in DOMAIN steps /\ steps[n + 1] = Trace!step /\ IsList(obs)
    BY <1>1, <1>6, StepAhead
  <1>8. tr.observations = obs /\ tr2.observations = obs2
    BY <1>6 DEF Running
  <1>9. /\ IsList(obs2) /\ Len(obs2) = Len(obs) + 3
        /\ obs2[Len(obs) + 1] = a /\ obs2[Len(obs) + 2] = b /\ obs2[Len(obs) + 3] = c
        /\ \A i \in 1..Len(obs) : obs2[i] = obs[i]
    BY <1>3, <1>6, <1>7, GrowsByThree
  <1>10. Longer(tr, tr2, 3)
    BY <1>7, <1>8, <1>9 DEF Longer
  <1>11. /\ Shows(tr2, Len(obs) + 1, "Sent", steps, n + 1)
         /\ Shows(tr2, Len(obs) + 2, "Delivered", steps, n + 1)
    BY <1>4, <1>7, <1>8, <1>9 DEF Shows
  <1>12. /\ Shows(tr2, Len(obs) + 3, tag, steps, n + 1)
         /\ tr2.observations[Len(obs) + 3].ownerId = m.receiver
         /\ tr2.observations[Len(obs) + 3].reason = Trace!Judge(m)[2]
    BY <1>5, <1>7, <1>8, <1>9 DEF Shows
  <1>13. Arrives(selection, Trace!schedule, taken, m)
    BY <1>1, <1>6, <1>7 DEF Arrives
  <1> QED BY <1>1, <1>6, <1>10, <1>11, <1>12, <1>13
(* In a valid protocol no message has the wrong recipient.                 *)
LEMMA JudgedFairly ==
  ASSUME Trace!ValidateSelection(selection), NEW m \in Trace!MessagesOf(selection.protocol)
  PROVE  /\ Trace!Judge(m)[1] = "DuplicateIgnored" => m.id \in handled
         /\ Trace!Judge(m)[1] = "Rejected" =>
              /\ m.id \notin handled
              /\ \/ ~(m.causalParent \subseteq handled) /\ Trace!Judge(m)[2] = "causal-parent-not-handled"
                 \/ /\ m.causalParent \subseteq handled /\ Trace!Judge(m)[2] = "wrong-state"
                    /\ \/ m.operation = "Prepare" /\ ownerB # "idle"
                       \/ m.operation = "Commit" /\ ownerB # "prepared"
                       \/ m.operation = "Ack" /\ ownerA # "waiting"
         /\ Trace!Judge(m)[1] = "Handled" =>
              /\ m.id \notin handled /\ m.causalParent \subseteq handled
              /\ m.operation = "Ack" => ownerA = "waiting"
  <1>1. Trace!ValidMessage(selection.protocol, m)
    BY DEF Trace!ValidateSelection, Trace!ValidateProtocol
  <1>2. <<m.sender, m.receiver>> =
          IF m.operation = "Ack"
          THEN <<selection.protocol.owners[2], selection.protocol.owners[1]>>
          ELSE <<selection.protocol.owners[1], selection.protocol.owners[2]>>
    BY <1>1 DEF Trace!ValidMessage
  <1> DEFINE wrong == \/ m.operation = "Prepare" /\ ownerB # "idle"
                      \/ m.operation = "Commit" /\ ownerB # "prepared"
                      \/ m.operation = "Ack" /\ ownerA # "waiting"
  <1>3. Trace!Judge(m) =
          IF m.id \in handled THEN <<"DuplicateIgnored", "none">>
          ELSE IF ~(m.causalParent \subseteq handled)
               THEN <<"Rejected", "causal-parent-not-handled">>
          ELSE IF wrong THEN <<"Rejected", "wrong-state">>
          ELSE <<"Handled", "none">>
    BY <1>2 DEF Trace!Judge
  <1> HIDE DEF wrong
  <1>4. CASE m.id \in handled
    BY <1>3, <1>4
  <1>5. CASE m.id \notin handled /\ ~(m.causalParent \subseteq handled)
    BY <1>3, <1>5
  <1>6. CASE m.id \notin handled /\ m.causalParent \subseteq handled /\ wrong
    BY <1>3, <1>6 DEF wrong
  <1>7. CASE m.id \notin handled /\ m.causalParent \subseteq handled /\ ~wrong
    BY <1>3, <1>7 DEF wrong
  <1> QED BY <1>4, <1>5, <1>6, <1>7

(* A duplicate and a rejection.                                            *)
LEMMA DelayedTells ==
  ASSUME Trace!SelectionsAreDecoded, VInv,
         NEW tag \in {"DuplicateIgnored", "Rejected"}, Trace!DeliverMessage(tag)
  PROVE  TracesInv' /\ VerdictsTellTheSchedules'
  <1>1. PICK m : m = Trace!MessageOf(selection.protocol, Trace!step.messageId)
    OBVIOUS
  <1>2. /\ Trace!StepsLeft /\ taken' = taken + 1 /\ Trace!StaysInTrace
        /\ Arrives(selection, Trace!schedule, taken, m)
        /\ Trace!Judge(m)[1] = tag
        /\ Longer(Running, Running', 3)
        /\ Shows(Running', Len(observed) + 1, "Sent", Trace!schedule, taken + 1)
        /\ Shows(Running', Len(observed) + 2, "Delivered", Trace!schedule, taken + 1)
        /\ Shows(Running', Len(observed) + 3, tag, Trace!schedule, taken + 1)
        /\ Running'.observations[Len(observed) + 3].ownerId = m.receiver
        /\ Running'.observations[Len(observed) + 3].reason = Trace!Judge(m)[2]
    BY <1>1, DeliveryShown
  <1>3. UNCHANGED <<ownerA, ownerB, handled, mutations>>
    BY DEF Trace!DeliverMessage, Trace!owning
  <1>4. PICK tr, tr2, steps, sel, hd, n, reason :
          /\ tr = Running /\ tr2 = Running' /\ steps = Trace!schedule /\ sel = selection
          /\ hd = handled /\ n = taken /\ reason = Trace!Judge(m)[2]
    OBVIOUS
  <1>5. Ready(sel, steps) /\ n \in Nat /\ Tells(sel, steps, n, tr, hd) /\ Arrives(sel, steps, n, m)
    BY <1>2, <1>4, StepAhead
  <1>6. /\ Len(tr.observations) = Len(observed) /\ tr.ownerA = ownerA /\ tr.ownerB = ownerB
        /\ tr2.ownerA = tr.ownerA /\ tr2.ownerB = tr.ownerB /\ tr2.mutations = tr.mutations
    BY <1>3, <1>4 DEF Running
  <1>7. Trace!ValidateSelection(selection) /\ m \in Trace!MessagesOf(selection.protocol)
    BY <1>4, <1>5, Arrival DEF Ready
  <1>8. /\ tag = "DuplicateIgnored" => m.id \in hd
        /\ tag = "Rejected" =>
             /\ m.id \notin hd
             /\ \/ ~(m.causalParent \subseteq hd) /\ reason = "causal-parent-not-handled"
                \/ /\ m.causalParent \subseteq hd /\ reason = "wrong-state"
                   /\ \/ m.operation = "Prepare" /\ tr.ownerB # "idle"
                      \/ m.operation = "Commit" /\ tr.ownerB # "prepared"
                      \/ m.operation = "Ack" /\ tr.ownerA # "waiting"
    BY <1>2, <1>4, <1>6, <1>7, JudgedFairly
  <1>9. /\ Longer(tr, tr2, 3)
        /\ Shows(tr2, Len(tr.observations) + 1, "Sent", steps, n + 1)
        /\ Shows(tr2, Len(tr.observations) + 2, "Delivered", steps, n + 1)
        /\ Shows(tr2, Len(tr.observations) + 3, tag, steps, n + 1)
        /\ tr2.observations[Len(tr.observations) + 3].ownerId = m.receiver
        /\ tr2.observations[Len(tr.observations) + 3].reason = reason
    BY <1>2, <1>4, <1>6
  <1>10. Tells(sel, steps, n + 1, tr2, hd)
    BY <1>5, <1>6, <1>8, <1>9, DelaysTell
  <1> QED BY <1>2, <1>3, <1>4, <1>10, TakenTells

(* A message handled.                                                      *)
LEMMA HandledTells ==
  ASSUME Trace!SelectionsAreDecoded, VInv, Trace!DeliverMessage("Handled")
  PROVE  TracesInv' /\ VerdictsTellTheSchedules'
  <1>1. PICK m : m = Trace!MessageOf(selection.protocol, Trace!step.messageId)
    OBVIOUS
  <1>2. /\ Trace!StepsLeft /\ taken' = taken + 1 /\ Trace!StaysInTrace
        /\ Arrives(selection, Trace!schedule, taken, m)
        /\ Trace!Judge(m)[1] = "Handled"
        /\ Longer(Running, Running', 3)
        /\ Shows(Running', Len(observed) + 1, "Sent", Trace!schedule, taken + 1)
        /\ Shows(Running', Len(observed) + 2, "Delivered", Trace!schedule, taken + 1)
        /\ Shows(Running', Len(observed) + 3, "Handled", Trace!schedule, taken + 1)
        /\ Running'.observations[Len(observed) + 3].ownerId = m.receiver
    <2>1. PICK tag \in {"Handled", "DuplicateIgnored", "Rejected"} : tag = "Handled"
      OBVIOUS
    <2>2. Trace!DeliverMessage(tag)
      BY <2>1
    <2>3. /\ Trace!StepsLeft /\ taken' = taken + 1 /\ Trace!StaysInTrace
          /\ Arrives(selection, Trace!schedule, taken, m)
          /\ Trace!Judge(m)[1] = tag
          /\ Longer(Running, Running', 3)
          /\ Shows(Running', Len(observed) + 1, "Sent", Trace!schedule, taken + 1)
          /\ Shows(Running', Len(observed) + 2, "Delivered", Trace!schedule, taken + 1)
          /\ Shows(Running', Len(observed) + 3, tag, Trace!schedule, taken + 1)
          /\ Running'.observations[Len(observed) + 3].ownerId = m.receiver
      BY <1>1, <2>2, DeliveryShown
    <2> QED BY <2>1, <2>3
  <1>3. /\ handled' = handled \cup {m.id} /\ mutations' = mutations + 1
        /\ ownerA' = IF m.operation = "Ack" THEN "complete" ELSE ownerA
        /\ m.operation = "Prepare" => ownerB' = "prepared"
        /\ m.operation = "Commit" => ownerB' = "committed"
        /\ m.operation = "Ack" => ownerB' = ownerB
    BY <1>1 DEF Trace!DeliverMessage
  <1>4. PICK tr, tr2, steps, sel, hd, n :
          /\ tr = Running /\ tr2 = Running' /\ steps = Trace!schedule /\ sel = selection
          /\ hd = handled /\ n = taken
    OBVIOUS
  <1>5. Ready(sel, steps) /\ n \in Nat /\ Tells(sel, steps, n, tr, hd) /\ Arrives(sel, steps, n, m)
    BY <1>2, <1>4, StepAhead
  <1>6. /\ Len(tr.observations) = Len(observed) /\ tr.ownerA = ownerA /\ tr.ownerB = ownerB
        /\ tr2.ownerA = IF m.operation = "Ack" THEN "complete" ELSE tr.ownerA
        /\ m.operation = "Prepare" => tr2.ownerB = "prepared"
        /\ m.operation = "Commit" => tr2.ownerB = "committed"
        /\ m.operation = "Ack" => tr2.ownerB = tr.ownerB
        /\ tr2.mutations = tr.mutations + 1
    BY <1>3, <1>4 DEF Running
  <1>7. Trace!ValidateSelection(selection) /\ m \in Trace!MessagesOf(selection.protocol)
    BY <1>4, <1>5, Arrival DEF Ready
  <1>8. /\ m.id \notin hd /\ m.causalParent \subseteq hd
        /\ m.operation = "Ack" => tr.ownerA = "waiting"
    BY <1>2, <1>4, <1>6, <1>7, JudgedFairly
  <1>9. /\ Longer(tr, tr2, 3)
        /\ Shows(tr2, Len(tr.observations) + 1, "Sent", steps, n + 1)
        /\ Shows(tr2, Len(tr.observations) + 2, "Delivered", steps, n + 1)
        /\ Shows(tr2, Len(tr.observations) + 3, "Handled", steps, n + 1)
        /\ tr2.observations[Len(tr.observations) + 3].ownerId = m.receiver
    BY <1>2, <1>4, <1>6
  <1>10. Tells(sel, steps, n + 1, tr2, hd \cup {m.id})
    BY <1>5, <1>6, <1>8, <1>9, HandlingTells
  <1> QED BY <1>2, <1>3, <1>4, <1>10, TakenTells

(* A finished schedule is kept, and the next one says nothing yet.         *)
LEMMA FinishTells ==
  ASSUME Trace!SelectionsAreDecoded, VInv, Trace!FinishSchedule
  PROVE  TracesInv' /\ VerdictsTellTheSchedules'
  <1>1. /\ stage = "execution" /\ Len(traces) < Len(selection.schedules)
        /\ taken = Len(Trace!schedule) /\ traces' = Append(traces, Running)
        /\ taken' = 0 /\ ownerA' = "waiting" /\ ownerB' = "idle" /\ handled' = {}
        /\ observed' = <<>> /\ mutations' = 0 /\ UNCHANGED <<selection, stage, report>>
    BY DEF Trace!FinishSchedule, Running
  <1>2. PICK tr, kept, kept2, sel, hd, n :
          /\ tr = Running /\ kept = traces /\ kept2 = traces' /\ sel = selection
          /\ hd = handled /\ n = Len(traces)
    OBVIOUS
  <1>3. /\ n \in Nat /\ n + 1 \in DOMAIN sel.schedules /\ Trace!schedule = sel.schedules[n + 1]
        /\ Tells(sel, sel.schedules[n + 1], Len(sel.schedules[n + 1]), tr, hd)
    <2>1. Tells(selection, Trace!schedule, taken, Running, handled)
      BY <1>1 DEF VInv, TracesInv
    <2> QED BY <1>1, <1>2, <2>1, RunningSchedule
  <1>4. /\ IsList(kept2) /\ Len(kept2) = n + 1 /\ kept2[n + 1] = tr
        /\ \A k \in 1..n : kept2[k] = kept[k]
    <2>1. IsList(kept)
      BY <1>2 DEF VInv, IInv, Positions
    <2> QED BY <1>1, <1>2, <2>1, GrowsByOne
  <1>5. ASSUME NEW k \in DOMAIN kept2
        PROVE  \E h : Tells(sel, sel.schedules[k], Len(sel.schedules[k]), kept2[k], h)
    <2>1. DOMAIN kept2 = 1..(n + 1)
      BY <1>4, ListLen
    <2>2. CASE k = n + 1
      BY <1>3, <1>4, <2>2
    <2>3. CASE k \in 1..n
      <3>1. k \in DOMAIN traces
        BY <1>2, <2>3, ListLen DEF VInv, IInv, Positions
      <3>2. \E h : Tells(selection, selection.schedules[k], Len(selection.schedules[k]), traces[k], h)
        BY <1>1, <3>1 DEF VInv, TracesInv
      <3> QED BY <1>2, <1>4, <2>3, <3>2
    <2> QED BY <1>3, <2>1, <2>2, <2>3
  <1>6. n + 1 <= Len(sel.schedules)
    <2>1. DOMAIN sel.schedules = 1..Len(sel.schedules)
      BY <1>1, <1>2 DEF Trace!SelectionsAreDecoded, VInv, IInv, Positions
    <2> QED BY <1>3, <2>1
  <1>7. Tells(selection', Trace!schedule', taken', Running', handled')
    <2>1. PICK tr2, steps2 : tr2 = Running' /\ steps2 = Trace!schedule'
      OBVIOUS
    <2>2. /\ tr2.observations = <<>> /\ tr2.ownerA = "waiting" /\ tr2.ownerB = "idle"
          /\ tr2.mutations = 0
      BY <1>1, <2>1 DEF Running
    <2>3. Tells(sel, steps2, 0, tr2, {})
      BY <2>2, NothingTold
    <2> QED BY <1>1, <1>2, <2>1, <2>3
  <1>8. TracesInv'
    BY <1>1, <1>2, <1>4, <1>5, <1>6, <1>7 DEF TracesInv
  <1> QED BY <1>1, <1>8 DEF VerdictsTellTheSchedules, Trace!VerdictsTellTheSchedules

(* Reading a valid selection starts its first schedule.                    *)
LEMMA ReadingTells ==
  ASSUME VInv, Trace!ReadSelection PROVE TracesInv' /\ VerdictsTellTheSchedules'
  <1>1. /\ AtStart /\ stage' \in {"execution", "failed"}
        /\ UNCHANGED <<traces, taken, ownerA, ownerB, handled, mutations, observed>>
    BY DEF VInv, TracesInv, Trace!ReadSelection, Trace!owning
  <1>2. Tells(selection', Trace!schedule', taken', Running', handled')
    <2>1. PICK tr2, steps2, sel2 : tr2 = Running' /\ steps2 = Trace!schedule' /\ sel2 = selection'
      OBVIOUS
    <2>2. /\ tr2.observations = <<>> /\ tr2.ownerA = "waiting" /\ tr2.ownerB = "idle"
          /\ tr2.mutations = 0
      BY <1>1, <2>1 DEF Running, AtStart
    <2>3. Tells(sel2, steps2, 0, tr2, {})
      BY <2>2, NothingTold
    <2> QED BY <1>1, <2>1, <2>3 DEF AtStart
  <1>3. stage' = "execution" => Len(traces') <= Len(selection'.schedules)
    <2>1. stage' = "execution" => selection' \in TraceSelections
      BY DEF Trace!ReadSelection
    <2>2. stage' = "execution" => Len(selection'.schedules) \in Nat
      BY <2>1, SelectionsAssumption DEF Trace!SelectionsAreDecoded
    <2> QED BY <1>1, <2>2 DEF AtStart
  <1>4. \A k \in DOMAIN traces' : FALSE
    BY <1>1 DEF AtStart
  <1>5. TracesInv'
    BY <1>1, <1>2, <1>3, <1>4 DEF TracesInv
  <1> QED BY <1>1, <1>5 DEF VerdictsTellTheSchedules, Trace!VerdictsTellTheSchedules

(* The evaluator refuses no trace, and reports what the schedules say.     *)
LEMMA EvaluatingTells ==
  ASSUME Trace!SelectionsAreDecoded, VInv, Trace!EvaluateTrace
  PROVE  TracesInv' /\ VerdictsTellTheSchedules'
  <1>1. /\ stage = "evaluation" /\ Len(traces) = Len(selection.schedules)
        /\ selection \in TraceSelections /\ Trace!ValidateSelection(selection)
        /\ UNCHANGED <<selection, traces>>
    BY DEF Trace!EvaluateTrace, VInv, TracesInv, IInv, Positions
  <1>2. DOMAIN traces = DOMAIN selection.schedules
    <2>1. DOMAIN traces = 1..Len(traces)
      BY ListLen DEF VInv, IInv, Positions
    <2>2. DOMAIN selection.schedules = 1..Len(selection.schedules)
      BY <1>1 DEF Trace!SelectionsAreDecoded
    <2> QED BY <1>1, <2>1, <2>2
  <1>3. ASSUME NEW k \in DOMAIN traces
        PROVE  /\ Ready(selection, selection.schedules[k])
               /\ \E h : Tells(selection, selection.schedules[k], Len(selection.schedules[k]), traces[k], h)
    BY <1>1, <1>2 DEF VInv, TracesInv, Ready
  <1>4. ASSUME NEW k \in DOMAIN traces
        PROVE  /\ \A i \in Trace!AttemptEvents(traces[k]) :
                    Trace!ValidateObservation(selection, selection.schedules[k], traces[k], i)
               /\ Trace!Cardinality(Trace!Tagged(traces[k], "ForcedCompletion"))
                    = Trace!Cardinality(DOMAIN selection.schedules[k]
                                          \ Trace!Deliveries(selection.schedules[k]))
               /\ Trace!EvaluateSchedule(selection, traces[k]) =
                    Trace!Expected(selection, selection.schedules[k])
    <2>1. PICK tr, steps, sel : tr = traces[k] /\ steps = selection.schedules[k] /\ sel = selection
      OBVIOUS
    <2>2. PICK h : Tells(sel, steps, Len(steps), tr, h)
      BY <1>3, <2>1
    <2>3. Ready(sel, steps)
      BY <1>3, <2>1
    <2>4. /\ \A i \in Trace!AttemptEvents(tr) : Trace!ValidateObservation(sel, steps, tr, i)
          /\ Cardinality(Trace!Tagged(tr, "ForcedCompletion"))
               = Cardinality(DOMAIN steps \ Trace!Deliveries(steps))
      BY <2>2, <2>3, InspectionPasses
    <2>5. Trace!EvaluateSchedule(sel, tr) = Trace!Expected(sel, steps)
      BY <2>2, <2>3, EvaluationTells
    <2> QED BY <2>1, <2>4, <2>5, SameCardinality
  <1>5. Trace!ValidateTraceAgainstSelection(selection)
    BY <1>1, <1>4 DEF Trace!ValidateTraceAgainstSelection
  <1>6. /\ stage' = "reported"
        /\ report' = [k \in DOMAIN traces |->
             LET verdicts == Trace!EvaluateSchedule(selection, traces[k])
             IN [obligations |-> verdicts, result |-> Trace!Result(verdicts)]]
    BY <1>5 DEF Trace!EvaluateTrace
  <1>7. \A k \in DOMAIN selection.schedules :
          report'[k].obligations = Trace!Expected(selection, selection.schedules[k])
    BY <1>2, <1>4, <1>6
  <1>8. TracesInv'
    BY <1>6 DEF TracesInv
  <1> QED BY <1>1, <1>6, <1>7, <1>8 DEF VerdictsTellTheSchedules, Trace!VerdictsTellTheSchedules

(* A refusal and the end of the execution.                                 *)
LEMMA OtherStagesTell ==
  ASSUME VInv, Trace!RefuseCompletion \/ Trace!FinishExecution
  PROVE  TracesInv' /\ VerdictsTellTheSchedules'
  <1>1. CASE Trace!RefuseCompletion
    BY <1>1 DEF Trace!RefuseCompletion, TracesInv, VerdictsTellTheSchedules,
      Trace!VerdictsTellTheSchedules
  <1>2. CASE Trace!FinishExecution
    BY <1>2 DEF Trace!FinishExecution, VInv, TracesInv, VerdictsTellTheSchedules,
      Trace!VerdictsTellTheSchedules
  <1> QED BY <1>1, <1>2

(* At the start nothing is observed and nothing is reported.               *)
LEMMA NothingReported == Trace!TraceInit => TracesInv /\ VerdictsTellTheSchedules
  BY DEF Trace!TraceInit, TracesInv, AtStart, VerdictsTellTheSchedules,
    Trace!VerdictsTellTheSchedules

(* Every step of the executor and of the evaluator keeps the invariant.    *)
LEMMA NextTells ==
  ASSUME Trace!SelectionsAreDecoded, VInv, [Trace!TraceNext]_(Trace!channel)
  PROVE  VInv'
  <1>1. IInv'
    BY NextStep DEF VInv
  <1>2. CASE UNCHANGED Trace!channel
    <2>1. /\ UNCHANGED <<selection, stage, traces, taken, ownerA, ownerB, handled, observed>>
          /\ UNCHANGED <<mutations, report>>
      BY <1>2 DEF Trace!channel
    <2>2. Running' = Running /\ Trace!schedule' = Trace!schedule /\ (AtStart' <=> AtStart)
      BY <2>1 DEF Running, Trace!schedule, AtStart
    <2>3. TracesInv'
      BY <2>1, <2>2 DEF VInv, TracesInv
    <2>4. VerdictsTellTheSchedules'
      BY <2>1 DEF VInv, VerdictsTellTheSchedules, Trace!VerdictsTellTheSchedules
    <2> QED BY <1>1, <2>3, <2>4 DEF VInv
  <1>3. CASE Trace!TraceNext
    <2>1. TracesInv' /\ VerdictsTellTheSchedules'
      BY <1>3, ReadingTells, ForceCompletionTells, OtherStagesTell, DropMessageTells, HandledTells,
         DelayedTells, FinishTells, EvaluatingTells DEF Trace!TraceNext
    <2> QED BY <1>1, <2>1 DEF VInv
  <1> QED BY <1>2, <1>3

(* bang trace reports of every schedule what the schedule itself says: it  *)
(* violates causality when a delivery comes before its cause, coordination *)
(* when it forces the first owner, loss when it also drops the             *)
(* acknowledgement, and never at-most-once; loss is unresolved while no    *)
(* acknowledgement is handled.  No trace the executor makes is refuted:    *)
(* VerdictsTellTheSchedules, for every protocol and any schedules.         *)
THEOREM VerdictsAreTheSchedules == Trace!TraceSpec => []VerdictsTellTheSchedules
  <1>1. Trace!TraceInit => VInv
    BY InitIInv, NothingReported DEF VInv
  <1>2. VInv /\ [Trace!TraceNext]_(Trace!channel) => VInv'
    BY NextTells, SelectionsAssumption
  <1>3. VInv => VerdictsTellTheSchedules
    BY DEF VInv
  <1> QED BY <1>1, <1>2, <1>3, PTL DEF Trace!TraceSpec
-----------------------------------------------------------------------------
(* The probe's phases: how many callers, what they ask, which grants have  *)
(* been issued by then, and what the callers are to be told.               *)
OnProbe == \A i \in DOMAIN phasesSeen : i \in 1..7 /\ phasesSeen[i].phase = Effect!EffectProbe[i]

TraceOf(k) ==
  IF k = 1 THEN "valid" ELSE IF k = 2 THEN "reuse" ELSE IF k = 3 THEN "competing"
  ELSE IF k = 4 THEN "wrongDestination" ELSE IF k = 5 THEN "disabled"
  ELSE IF k = 6 THEN "defect" ELSE "stale"
IssuedBy(k) == IF k = 0 THEN 0 ELSE IF k <= 2 THEN 1 ELSE IF k <= 5 THEN k - 1 ELSE 5
Callers(k) == IF k = 3 THEN 1..2 ELSE 1..1
Asked(k) == IF k = 2 THEN 1 ELSE IF k \in {3, 4} THEN 2 ELSE IF k = 5 THEN 20 ELSE IF k = 7 THEN 1 ELSE 4
Balance(k) == IF k \in {1, 6, 7} THEN 10 ELSE 6
Answer(k) ==
  IF k \in {1, 3} THEN "Success" ELSE IF k \in {2, 7} THEN "CapabilityUseRejected"
  ELSE IF k = 4 THEN "WrongDestination" ELSE IF k = 5 THEN "DomainRejected" ELSE "Defect"
Had(k) == IF k \in {2, 7} THEN 0 ELSE 1
Layer(k) == IF k \in {6, 7} THEN "defecting" ELSE "healthy"
Where(k) == IF k = 4 THEN Effect!Elsewhere ELSE Effect!Entity
Left(k) == IF k \in {4, 5} THEN 1 ELSE 0

Fields == {"pc", "grant", "destination", "state", "amount", "outcome", "remaining", "calls"}
Before == {"check", "consume", "count", "run"}
After == {"uses", "calls", "done"}

FiberFits(k, x) ==
  /\ DOMAIN x = Fields
  /\ x.grant = IssuedBy(k) /\ x.amount = Asked(k)
  /\ x.destination = Where(k)
  /\ x.pc \in Before \cup After
  /\ x.pc \in Before => x.state = Balance(k)
  /\ x.pc = "consume" => k \notin {4, 5}
  /\ x.pc \in {"count", "run"} => k \in {1, 3, 6}
  /\ x.pc \in After => (k \notin {1, 3, 6} => x.outcome = Answer(k))
  /\ x.pc \in {"calls", "done"} => x.remaining = Left(k)

(* A caller that has the use of the phase's grant, and one that has not.   *)
Won(k, x) ==
  \/ x.pc \in {"count", "run"}
  \/ x.pc \in After /\ x.outcome = Answer(k) /\ (k = 1 => x.state = 6)
Behind(x) == x.pc \in {"check", "consume"} \/ (x.pc \in After /\ x.outcome = "CapabilityUseRejected")

(* Nobody has the use that is still to be had; somebody, and only he, has  *)
(* the one that is gone.                                                   *)
Race(k) ==
  IF grantStates[IssuedBy(k)] = "available"
  THEN \A f \in Callers(k) : fibers[f].pc \in {"check", "consume"}
  ELSE \E w \in Callers(k) : Won(k, fibers[w]) /\ \A f \in Callers(k) \ {w} : Behind(fibers[f])

UnderWay(k) ==
  /\ Head(journey) = Effect!EffectProbe[k] /\ DOMAIN fibers = Callers(k)
  /\ \A f \in Callers(k) : FiberFits(k, fibers[f])
  /\ k \in {2, 7} => grantStates[IssuedBy(k)] = "consumed"
  /\ k \in {4, 5} => grantStates[IssuedBy(k)] = "available"
  /\ k \in {1, 3, 6} => Race(k)

(* What a phase that is over has shown. *)
Closed(k, shown) ==
  /\ DOMAIN shown = Callers(k)
  /\ k # 3 => shown[1].outcome = Answer(k) /\ shown[1].remaining = Left(k)
  /\ k = 1 => shown[1].state = 6
  /\ k = 3 => \E w \in Callers(3) : \A f \in Callers(3) :
                shown[f].outcome = IF f = w THEN "Success" ELSE "CapabilityUseRejected"

Over == IF fibers = <<>> THEN Len(phasesSeen) ELSE Len(phasesSeen) - 1

AsProbed ==
  /\ Len(grantStates) = IssuedBy(Len(phasesSeen))
  /\ \A i \in DOMAIN phasesSeen : phasesSeen[i].before = Had(i)
  /\ \A i \in 1..Over : Closed(i, phasesSeen[i].fibers)
  /\ Over >= 1 => grantStates[1] = "consumed"
  /\ Over >= 6 => grantStates[5] = "consumed"
  /\ fibers # <<>> => phasesSeen # <<>> /\ UnderWay(Len(phasesSeen))

SeenTyped ==
  /\ IsList(phasesSeen)
  /\ \A i \in DOMAIN phasesSeen : DOMAIN phasesSeen[i] = {"phase", "before", "fibers"}

(* The inductive invariant: a journey that has so far been the probe's has *)
(* shown so far what the probe is to show.                                 *)
PInv == BInv /\ SeenTyped /\ (OnProbe => AsProbed)

(* The probe's phases, field by field. *)
PhaseFits(k, phase) ==
  /\ phase.trace = TraceOf(k) /\ phase.layer = Layer(k) /\ phase.issues = Had(k)
  /\ DOMAIN phase.calls = Callers(k)
  /\ \A f \in Callers(k) :
       /\ phase.calls[f].back = 0 /\ phase.calls[f].amount = Asked(k)
       /\ phase.calls[f].destination = Where(k)
       /\ phase.calls[f].carries <=> k = 2
       /\ k # 2 => phase.calls[f].state = Balance(k)

(* A phase of one call is phase k of the probe when its call is as the     *)
(* table has it.                                                           *)
LEMMA OneCall ==
  ASSUME NEW k \in 1..7, k # 3, NEW c, c.back = 0, c.amount = Asked(k), c.destination = Where(k),
         c.carries <=> k = 2, k # 2 => c.state = Balance(k)
  PROVE  PhaseFits(k, Effect!Phase(TraceOf(k), Layer(k), Had(k), <<c>>))
  <1>1. /\ Effect!Phase(TraceOf(k), Layer(k), Had(k), <<c>>).trace = TraceOf(k)
        /\ Effect!Phase(TraceOf(k), Layer(k), Had(k), <<c>>).layer = Layer(k)
        /\ Effect!Phase(TraceOf(k), Layer(k), Had(k), <<c>>).issues = Had(k)
        /\ Effect!Phase(TraceOf(k), Layer(k), Had(k), <<c>>).calls = <<c>>
    BY DEF Effect!Phase
  <1>2. DOMAIN <<c>> = Callers(k) /\ \A f \in Callers(k) : <<c>>[f] = c
    BY DEF Callers
  <1> QED BY <1>1, <1>2 DEF PhaseFits

(* The seven phases of emitEffectSingleUseProbe are those of the table. *)
LEMMA ProbePhases ==
  DOMAIN Effect!EffectProbe = 1..7 /\ \A k \in 1..7 : PhaseFits(k, Effect!EffectProbe[k])
  <1>1. /\ Effect!EffectProbe[1] = Effect!Phase("valid", "healthy", 1, <<Effect!Call(0, Effect!Entity, 10, 4)>>)
        /\ Effect!EffectProbe[2] = Effect!Phase("reuse", "healthy", 0, <<Effect!CarryOn(1)>>)
        /\ Effect!EffectProbe[3] = Effect!Phase("competing", "healthy", 1,
              <<Effect!Call(0, Effect!Entity, 6, 2), Effect!Call(0, Effect!Entity, 6, 2)>>)
        /\ Effect!EffectProbe[4] = Effect!Phase("wrongDestination", "healthy", 1, <<Effect!Call(0, Effect!Elsewhere, 6, 2)>>)
        /\ Effect!EffectProbe[5] = Effect!Phase("disabled", "healthy", 1, <<Effect!Call(0, Effect!Entity, 6, 20)>>)
        /\ Effect!EffectProbe[6] = Effect!Phase("defect", "defecting", 1, <<Effect!Call(0, Effect!Entity, 10, 4)>>)
        /\ Effect!EffectProbe[7] = Effect!Phase("stale", "defecting", 0, <<Effect!Call(0, Effect!Entity, 10, 1)>>)
        /\ DOMAIN Effect!EffectProbe = 1..7
    BY DEF Effect!EffectProbe
  <1>3. \A b, d, s, a : /\ Effect!Call(b, d, s, a).back = b /\ Effect!Call(b, d, s, a).destination = d
                        /\ Effect!Call(b, d, s, a).state = s /\ Effect!Call(b, d, s, a).amount = a
                        /\ ~Effect!Call(b, d, s, a).carries
    BY DEF Effect!Call
  <1>4. /\ Effect!CarryOn(1).back = 0 /\ Effect!CarryOn(1).destination = Effect!Entity
        /\ Effect!CarryOn(1).carries /\ Effect!CarryOn(1).amount = 1
    BY DEF Effect!CarryOn
  <1> DEFINE W(k) == Effect!Call(0, Where(k), Balance(k), Asked(k))
  <1>5. \A k \in 1..7 : k \notin {2, 3} => PhaseFits(k, Effect!Phase(TraceOf(k), Layer(k), Had(k), <<W(k)>>))
    BY <1>3, OneCall
  <1>6. PhaseFits(2, Effect!Phase(TraceOf(2), Layer(2), Had(2), <<Effect!CarryOn(1)>>))
    <2>1. Where(2) = Effect!Entity /\ Asked(2) = 1 BY DEF Where, Asked
    <2> QED BY <1>4, <2>1, OneCall
  <1>7. PhaseFits(3, Effect!Phase(TraceOf(3), Layer(3), Had(3), <<W(3), W(3)>>))
    <2> DEFINE c == W(3)
               ph == Effect!Phase(TraceOf(3), Layer(3), Had(3), <<c, c>>)
    <2>1. ph.trace = TraceOf(3) /\ ph.layer = Layer(3) /\ ph.issues = Had(3) /\ ph.calls = <<c, c>>
      BY DEF Effect!Phase
    <2>2. DOMAIN <<c, c>> = Callers(3) /\ \A f \in Callers(3) : <<c, c>>[f] = c
      BY DEF Callers
    <2>3. c.back = 0 /\ c.amount = Asked(3) /\ c.destination = Where(3) /\ ~c.carries /\ c.state = Balance(3)
      BY <1>3
    <2> HIDE DEF c, ph
    <2>4. PhaseFits(3, ph)
      BY <2>1, <2>2, <2>3 DEF PhaseFits
    <2> QED BY <2>4 DEF ph, c
  <1>8. /\ TraceOf(1) = "valid" /\ TraceOf(2) = "reuse" /\ TraceOf(3) = "competing"
        /\ TraceOf(4) = "wrongDestination" /\ TraceOf(5) = "disabled" /\ TraceOf(6) = "defect"
        /\ TraceOf(7) = "stale"
    BY DEF TraceOf
  <1>9. /\ Layer(1) = "healthy" /\ Layer(2) = "healthy" /\ Layer(3) = "healthy" /\ Layer(4) = "healthy"
        /\ Layer(5) = "healthy" /\ Layer(6) = "defecting" /\ Layer(7) = "defecting"
    BY DEF Layer
  <1>10. Had(1) = 1 /\ Had(2) = 0 /\ Had(3) = 1 /\ Had(4) = 1 /\ Had(5) = 1 /\ Had(6) = 1 /\ Had(7) = 0
    BY DEF Had
  <1>11. /\ W(1) = Effect!Call(0, Effect!Entity, 10, 4) /\ W(3) = Effect!Call(0, Effect!Entity, 6, 2)
         /\ W(4) = Effect!Call(0, Effect!Elsewhere, 6, 2) /\ W(5) = Effect!Call(0, Effect!Entity, 6, 20)
         /\ W(6) = Effect!Call(0, Effect!Entity, 10, 4) /\ W(7) = Effect!Call(0, Effect!Entity, 10, 1)
    BY DEF Where, Balance, Asked
  <1> HIDE DEF W
  <1>12. PhaseFits(1, Effect!EffectProbe[1]) BY <1>1, <1>5, <1>8, <1>9, <1>10, <1>11
  <1>13. PhaseFits(2, Effect!EffectProbe[2]) BY <1>1, <1>6, <1>8, <1>9, <1>10
  <1>14. PhaseFits(3, Effect!EffectProbe[3]) BY <1>1, <1>7, <1>8, <1>9, <1>10, <1>11
  <1>15. PhaseFits(4, Effect!EffectProbe[4]) BY <1>1, <1>5, <1>8, <1>9, <1>10, <1>11
  <1>16. PhaseFits(5, Effect!EffectProbe[5]) BY <1>1, <1>5, <1>8, <1>9, <1>10, <1>11
  <1>17. PhaseFits(6, Effect!EffectProbe[6]) BY <1>1, <1>5, <1>8, <1>9, <1>10, <1>11
  <1>18. PhaseFits(7, Effect!EffectProbe[7]) BY <1>1, <1>5, <1>8, <1>9, <1>10, <1>11
  <1>19. \A k \in 1..7 : k = 1 \/ k = 2 \/ k = 3 \/ k = 4 \/ k = 5 \/ k = 6 \/ k = 7
    OBVIOUS
  <1> QED BY <1>1, <1>12, <1>13, <1>14, <1>15, <1>16, <1>17, <1>18, <1>19

(* Arithmetic of the tables. *)
LEMMA NextPhase ==
  \A k \in 1..7 : /\ IssuedBy(k) = IssuedBy(k - 1) + Had(k) /\ IssuedBy(k) \in 1..5
                  /\ Had(k) \in {0, 1} /\ (Had(k) = 0 <=> k \in {2, 7})
                  /\ IssuedBy(2) = 1 /\ IssuedBy(7) = 5 /\ IssuedBy(1) = 1 /\ IssuedBy(6) = 5
  BY DEF IssuedBy, Had

(* A new phase finds its grants as the last one left them. *)
LEMMA BeginProbes == PInv /\ Effect!Begin => PInv'
  <1> SUFFICES ASSUME PInv, Effect!Begin PROVE PInv'
    OBVIOUS
  <1>0. PICK n : n = Len(phasesSeen)
    OBVIOUS
  <1> DEFINE phase == Head(journey)
             issued == Len(grantStates) + phase.issues
             begun == [phase |-> phase, before |-> IF phase.issues > 0 THEN 1 ELSE Effect!RemainingUses(issued),
                       fibers |-> <<>>]
  <1>1. /\ fibers = <<>> /\ journey' = journey
        /\ grantStates' = grantStates \o [i \in 1..phase.issues |-> "available"]
        /\ phasesSeen' = Append(phasesSeen, begun)
        /\ fibers' = [i \in DOMAIN phase.calls |-> Effect!Fiber(phase.calls[i], issued)]
    <2>1. fibers' = [i \in DOMAIN Head(journey).calls |->
                       Effect!Fiber(Head(journey).calls[i], Len(grantStates) + Head(journey).issues)]
      BY DEF Effect!Begin
    <2> QED BY <2>1 DEF Effect!Begin
  <1>2. DOMAIN begun = {"phase", "before", "fibers"} /\ begun.phase = phase
        /\ begun.before = IF phase.issues > 0 THEN 1 ELSE Effect!RemainingUses(issued)
    OBVIOUS
  <1>3. BInv'
    BY BeginKeeps DEF PInv
  <1>4. IsList(phasesSeen) /\ n \in Nat /\ DOMAIN phasesSeen = 1..n
    BY <1>0, ListLen DEF PInv, SeenTyped
  <1> HIDE DEF begun, phase
  <1>5. /\ IsList(phasesSeen') /\ Len(phasesSeen') = n + 1 /\ DOMAIN phasesSeen' = 1..(n + 1)
        /\ phasesSeen'[n + 1] = begun /\ \A i \in 1..n : phasesSeen'[i] = phasesSeen[i]
    <2>1. IsList(phasesSeen') /\ Len(phasesSeen') = n + 1 /\ phasesSeen'[n + 1] = begun
      BY <1>1, <1>4, AppendList
    <2>2. DOMAIN phasesSeen' = 1..(n + 1)
      BY <2>1, ListLen
    <2>3. \A i \in 1..n : phasesSeen'[i] = phasesSeen[i]
      BY <1>1, <1>4 DEF IsList
    <2> QED BY <2>1, <2>2, <2>3
  <1>a. SeenTyped'
    BY <1>2, <1>4, <1>5 DEF PInv, SeenTyped
  <1>6. SUFFICES ASSUME OnProbe' PROVE AsProbed'
    BY <1>3, <1>a DEF PInv
  <1>7. OnProbe /\ n + 1 \in 1..7 /\ phase = Effect!EffectProbe[n + 1]
    BY <1>2, <1>4, <1>5, <1>6 DEF OnProbe
  <1>8. AsProbed /\ Over = n
    BY <1>0, <1>1, <1>7 DEF PInv, Over
  <1>9. PhaseFits(n + 1, phase)
    BY <1>7, ProbePhases
  <1>10. /\ phase.issues = Had(n + 1) /\ IssuedBy(n + 1) = IssuedBy(n) + Had(n + 1)
         /\ Had(n + 1) \in {0, 1} /\ IssuedBy(n) \in Nat /\ IssuedBy(n + 1) \in 1..5
         /\ Len(grantStates) = IssuedBy(n)
         /\ grantStates \in Seq({"available", "consumed"})
    <2>1. IssuedBy(n + 1) = IssuedBy(n) + Had(n + 1) /\ IssuedBy(n + 1) \in 1..5 /\ Had(n + 1) \in {0, 1}
      BY <1>4, <1>7, NextPhase
    <2>2. IssuedBy(n) \in Nat
      BY <1>4, <1>7 DEF IssuedBy
    <2> QED BY <1>8, <1>9, <2>1, <2>2, <1>0 DEF PhaseFits, AsProbed, PInv, BInv, FibersTyped
  <1>11. issued = IssuedBy(n + 1)
    BY <1>10
  <1>12. /\ Len(grantStates') = issued
         /\ \A g \in 1..Len(grantStates) : grantStates'[g] = grantStates[g]
         /\ Had(n + 1) = 1 => grantStates'[issued] = "available"
    <2>1. /\ [i \in 1..phase.issues |-> "available"] \in Seq({"available", "consumed"})
          /\ Len([i \in 1..phase.issues |-> "available"]) = phase.issues
      BY <1>10
    <2> QED BY <1>1, <1>10, <2>1
  <1>13. begun.before = Had(n + 1)
    <2>1. CASE Had(n + 1) = 1
      BY <1>2, <1>10, <2>1
    <2>2. CASE Had(n + 1) = 0
      <3>1. \/ n + 1 = 2 /\ issued = 1
            \/ n + 1 = 7 /\ issued = 5
        <4>1. n + 1 \in {2, 7}
          BY <1>7, <2>2 DEF Had
        <4>2. IssuedBy(2) = 1 /\ IssuedBy(7) = 5
          BY DEF IssuedBy
        <4> QED BY <1>11, <4>1, <4>2
      <3>2. grantStates[issued] = "consumed"
        BY <1>4, <1>8, <3>1 DEF AsProbed
      <3> QED BY <1>2, <1>10, <2>2, <3>2 DEF Effect!RemainingUses
    <2> QED BY <1>10, <2>1, <2>2
  <1>14. DOMAIN fibers' = Callers(n + 1) /\ \A f \in Callers(n + 1) : fibers'[f] = Effect!Fiber(phase.calls[f], issued)
    BY <1>1, <1>9 DEF PhaseFits
  <1>15. fibers' # <<>> /\ Over' = n
    <2>1. 1 \in DOMAIN fibers'
      BY <1>14 DEF Callers
    <2>2. fibers' # <<>>
      BY <2>1
    <2> QED BY <1>4, <1>5, <2>2 DEF Over
  <1>16. n + 1 = 2 => Effect!LastState = 6
    <2> HAVE n + 1 = 2
    <2>1. n = 1
      BY <1>4
    <2>2. phasesSeen[1].fibers[1].state = 6
      BY <1>8, <2>1 DEF AsProbed, Closed
    <2> QED BY <1>0, <2>1, <2>2 DEF Effect!LastState
  <1>17. ASSUME NEW f \in Callers(n + 1)
         PROVE  FiberFits(n + 1, fibers'[f]) /\ fibers'[f].pc = "check"
    <2> DEFINE call == phase.calls[f]
    <2>1. /\ call.back = 0 /\ call.amount = Asked(n + 1) /\ call.destination = Where(n + 1)
          /\ call.carries <=> n + 1 = 2
          /\ n + 1 # 2 => call.state = Balance(n + 1)
      BY <1>9, <1>17 DEF PhaseFits
    <2> HIDE DEF call
    <2>2. Effect!Fiber(call, issued) =
            [pc |-> "check", grant |-> issued - call.back, destination |-> call.destination,
             state |-> IF call.carries THEN Effect!LastState ELSE call.state, amount |-> call.amount,
             outcome |-> "none", remaining |-> 0, calls |-> 0]
      BY DEF Effect!Fiber
    <2> DEFINE x == Effect!Fiber(call, issued)
    <2>3. /\ DOMAIN x = Fields /\ x.pc = "check" /\ x.grant = issued - call.back
          /\ x.destination = call.destination /\ x.amount = call.amount
          /\ x.state = IF call.carries THEN Effect!LastState ELSE call.state
      BY <2>2 DEF Fields
    <2>4. x = fibers'[f]
      BY <1>14 DEF call
    <2> HIDE DEF x
    <2>5. x.grant = IssuedBy(n + 1)
      BY <1>10, <1>11, <2>1, <2>3
    <2>6. x.state = Balance(n + 1)
      BY <1>16, <2>1, <2>3 DEF Balance
    <2>7. FiberFits(n + 1, x)
      BY <2>1, <2>3, <2>5, <2>6 DEF FiberFits, Before, After
    <2> QED BY <2>3, <2>4, <2>7
  <1>18. UnderWay(n + 1)'
    <2>1. Head(journey)' = Effect!EffectProbe[n + 1]
      BY <1>1, <1>7 DEF phase
    <2>2. n + 1 \in {2, 7} => grantStates'[IssuedBy(n + 1)] = "consumed"
      <3>1. n + 1 = 2 => n = 1 /\ issued = 1 /\ grantStates[1] = "consumed" /\ 1 \in 1..Len(grantStates)
        BY <1>4, <1>7, <1>8, <1>10, <1>11, NextPhase DEF AsProbed, IssuedBy
      <3>2. n + 1 = 7 => n = 6 /\ issued = 5 /\ grantStates[5] = "consumed" /\ 5 \in 1..Len(grantStates)
        BY <1>4, <1>7, <1>8, <1>10, <1>11, NextPhase DEF AsProbed, IssuedBy
      <3> QED BY <1>11, <1>12, <3>1, <3>2
    <2>3. n + 1 \notin {2, 7} => grantStates'[IssuedBy(n + 1)] = "available"
      BY <1>7, <1>10, <1>11, <1>12, NextPhase
    <2>4. n + 1 \in {1, 3, 6} => Race(n + 1)'
      BY <1>17, <2>3 DEF Race
    <2> QED BY <1>14, <1>17, <2>1, <2>2, <2>3, <2>4 DEF UnderWay
  <1>19. \A i \in 1..(n + 1) : phasesSeen'[i].before = Had(i)
    BY <1>0, <1>4, <1>5, <1>8, <1>13 DEF AsProbed
  <1>20. \A i \in 1..n : Closed(i, phasesSeen'[i].fibers)
    BY <1>5, <1>8 DEF AsProbed
  <1>21. (n >= 1 => grantStates'[1] = "consumed") /\ (n >= 6 => grantStates'[5] = "consumed")
    BY <1>4, <1>7, <1>8, <1>10, <1>12 DEF AsProbed, IssuedBy
  <1>22. Len(grantStates') = IssuedBy(Len(phasesSeen'))
    BY <1>5, <1>11, <1>12
  <1>23. phasesSeen' # <<>> /\ UnderWay(Len(phasesSeen))'
    <2>1. phasesSeen' # <<>>
      BY <1>4, <1>5
    <2> QED BY <1>5, <1>18, <2>1 DEF UnderWay, Race
  <1> QED BY <1>5, <1>15, <1>19, <1>20, <1>21, <1>22, <1>23 DEF AsProbed

(* A list with an element replaced is a list. *)
LEMMA ReplaceInList ==
  ASSUME NEW S, NEW s \in Seq(S), NEW n, NEW x
  PROVE  [s EXCEPT ![n] = x] \in Seq(S \cup {x})
  <1>1. s \in Seq(S \cup {x})
    BY SeqGrows
  <1>2. PICK T : T = S \cup {x}
    OBVIOUS
  <1>3. x \in T /\ s \in Seq(T)
    BY <1>1, <1>2
  <1>4. [s EXCEPT ![n] = x] \in Seq(T)
    <2> DEFINE t == [s EXCEPT ![n] = x]
    <2>1. PICK m \in Nat : m = Len(s)
      BY <1>3
    <2>2. s \in [1..m -> T]
      BY <1>3, <2>1
    <2>3. t \in [1..m -> T]
      BY <1>3, <2>2
    <2> HIDE DEF t
    <2>4. t \in Seq(T)
      BY <2>3
    <2> QED BY <2>4 DEF t
  <1> QED BY <1>2, <1>4

(* A phase ends when all its calls are observed.                           *)
LEMMA FinishProbes == PInv /\ Effect!Finish => PInv'
  <1> SUFFICES ASSUME PInv, Effect!Finish PROVE PInv'
    OBVIOUS
  <1>0. PICK n : n = Len(phasesSeen)
    OBVIOUS
  <1>1. /\ fibers # <<>> /\ (\A f \in DOMAIN fibers : fibers[f].pc = "done")
        /\ phasesSeen' = [phasesSeen EXCEPT ![n].fibers = fibers]
        /\ fibers' = <<>> /\ grantStates' = grantStates
    BY <1>0 DEF Effect!Finish
  <1>2. BInv'
    BY FinishKeeps DEF PInv
  <1>3. n \in Nat /\ DOMAIN phasesSeen = 1..n
    BY <1>0, ListLen DEF PInv, SeenTyped
  <1>4. /\ IsList(phasesSeen') /\ Len(phasesSeen') = n /\ DOMAIN phasesSeen' = 1..n
        /\ \A i \in 1..n : /\ DOMAIN phasesSeen'[i] = {"phase", "before", "fibers"}
                           /\ phasesSeen'[i].phase = phasesSeen[i].phase
                           /\ phasesSeen'[i].before = phasesSeen[i].before
                           /\ phasesSeen'[i].fibers = IF i = n THEN fibers ELSE phasesSeen[i].fibers
    <2>1. PICK S : phasesSeen \in Seq(S)
      BY DEF PInv, SeenTyped, IsList
    <2> DEFINE last == [phasesSeen[n] EXCEPT !.fibers = fibers]
    <2>2. phasesSeen' \in Seq(S \cup {last})
      <3>1. phasesSeen' = [phasesSeen EXCEPT ![n] = last]
        BY <1>1
      <3> HIDE DEF last
      <3> QED BY <2>1, <3>1, ReplaceInList
    <2>3. DOMAIN phasesSeen' = 1..n
      BY <1>1, <1>3
    <2>4. Len(phasesSeen') = n
      BY <1>3, <2>2, <2>3
    <2>5. \A i \in 1..n : phasesSeen'[i] = IF i = n THEN last ELSE phasesSeen[i]
      BY <1>1, <1>3
    <2>6. \A i \in 1..n : DOMAIN phasesSeen[i] = {"phase", "before", "fibers"}
      BY <1>3 DEF PInv, SeenTyped
    <2>7. n \in 1..n => /\ DOMAIN last = {"phase", "before", "fibers"}
                        /\ last.phase = phasesSeen[n].phase /\ last.before = phasesSeen[n].before
                        /\ last.fibers = fibers
      BY <2>6
    <2> HIDE DEF last
    <2>8. IsList(phasesSeen')
      BY <2>2 DEF IsList
    <2> QED BY <2>3, <2>4, <2>5, <2>6, <2>7, <2>8
  <1>5. SeenTyped'
    BY <1>4 DEF SeenTyped
  <1>6. SUFFICES ASSUME OnProbe' PROVE AsProbed'
    BY <1>2, <1>5 DEF PInv
  <1>7. OnProbe
    BY <1>3, <1>4, <1>6 DEF OnProbe
  <1>8. AsProbed
    BY <1>7 DEF PInv
  <1>9. n \in 1..7 /\ Over = n - 1 /\ UnderWay(n) /\ Over' = n
    BY <1>0, <1>1, <1>3, <1>4, <1>7, <1>8 DEF AsProbed, Over, OnProbe
  <1>10. /\ DOMAIN fibers = Callers(n) /\ \A f \in Callers(n) : FiberFits(n, fibers[f]) /\ fibers[f].pc = "done"
    BY <1>1, <1>9 DEF UnderWay
  <1>11. \A f \in Callers(n) : /\ fibers[f].remaining = Left(n)
                               /\ n \notin {1, 3, 6} => fibers[f].outcome = Answer(n)
    BY <1>10 DEF FiberFits, After
  <1>12. n \in {1, 3, 6} =>
           /\ grantStates[IssuedBy(n)] = "consumed"
           /\ \E w \in Callers(n) : /\ fibers[w].outcome = Answer(n) /\ (n = 1 => fibers[w].state = 6)
                                    /\ \A f \in Callers(n) \ {w} : fibers[f].outcome = "CapabilityUseRejected"
    <2> HAVE n \in {1, 3, 6}
    <2>1. 1 \in Callers(n)
      BY DEF Callers
    <2>2. grantStates[IssuedBy(n)] # "available"
      BY <1>9, <1>10, <2>1 DEF UnderWay, Race
    <2>3. grantStates[IssuedBy(n)] \in {"available", "consumed"}
      <3>1. Len(grantStates) = IssuedBy(n) /\ grantStates \in Seq({"available", "consumed"})
        BY <1>0, <1>8 DEF AsProbed, PInv, BInv, FibersTyped
      <3>2. IssuedBy(n) \in 1..5
        BY <1>9, NextPhase
      <3> QED BY <3>1, <3>2
    <2>4. PICK w \in Callers(n) : Won(n, fibers[w]) /\ \A f \in Callers(n) \ {w} : Behind(fibers[f])
      BY <1>9, <2>2 DEF UnderWay, Race
    <2> QED BY <1>10, <2>2, <2>3, <2>4 DEF Won, Behind
  <1>13. Closed(n, fibers)
    <2>1. n # 3 => Callers(n) = {1}
      BY DEF Callers
    <2>2. n # 3 => fibers[1].outcome = Answer(n) /\ fibers[1].remaining = Left(n) /\ (n = 1 => fibers[1].state = 6)
      <3> HAVE n # 3
      <3>1. 1 \in Callers(n) /\ \A f \in Callers(n) : f = 1
        BY <2>1
      <3>2. fibers[1].remaining = Left(n)
        BY <1>11, <3>1
      <3>3. CASE n \in {1, 6}
        <4>1. PICK w \in Callers(n) : fibers[w].outcome = Answer(n) /\ (n = 1 => fibers[w].state = 6)
          BY <1>12, <3>3
        <4>2. w = 1
          BY <3>1
        <4> QED BY <3>2, <4>1, <4>2
      <3>4. CASE n \notin {1, 6}
        <4>1. fibers[1].outcome = Answer(n)
          BY <1>11, <3>1, <3>4
        <4> QED BY <3>2, <3>4, <4>1
      <3> QED BY <3>3, <3>4
    <2>3. n = 3 => \E w \in Callers(3) : \A f \in Callers(3) :
                     fibers[f].outcome = IF f = w THEN "Success" ELSE "CapabilityUseRejected"
      BY <1>12 DEF Answer
    <2> QED BY <1>10, <2>2, <2>3 DEF Closed
  <1>14. Len(grantStates') = IssuedBy(Len(phasesSeen'))
    BY <1>0, <1>1, <1>4, <1>8 DEF AsProbed
  <1>15. \A i \in 1..n : phasesSeen'[i].before = Had(i)
    BY <1>3, <1>4, <1>8 DEF AsProbed
  <1>16. \A i \in 1..n : Closed(i, phasesSeen'[i].fibers)
    <2> TAKE i \in 1..n
    <2>1. i # n => i \in 1..Over
      BY <1>9
    <2> QED BY <1>4, <1>8, <1>13, <2>1 DEF AsProbed
  <1>17. (n >= 1 => grantStates'[1] = "consumed") /\ (n >= 6 => grantStates'[5] = "consumed")
    <2>1. n >= 2 => grantStates[1] = "consumed"
      BY <1>8, <1>9 DEF AsProbed
    <2>2. n = 7 => grantStates[5] = "consumed"
      BY <1>8, <1>9 DEF AsProbed
    <2>3. IssuedBy(1) = 1 /\ IssuedBy(6) = 5
      BY DEF IssuedBy
    <2>4. n = 1 => grantStates[1] = "consumed"
      BY <1>12, <2>3
    <2>5. n = 6 => grantStates[5] = "consumed"
      BY <1>12, <2>3
    <2> QED BY <1>1, <1>9, <2>1, <2>2, <2>4, <2>5
  <1> QED BY <1>1, <1>4, <1>9, <1>14, <1>15, <1>16, <1>17 DEF AsProbed

(* A step of fiber f that leaves the grants alone leaves the race alone,   *)
(* when the fiber stays on its side of it.                                 *)
LEMMA RaceStays ==
  ASSUME NEW n \in 1..7, Race(n), NEW f, \A h \in Callers(n) \ {f} : fibers'[h] = fibers[h],
         grantStates' = grantStates,
         grantStates[IssuedBy(n)] = "available" /\ fibers[f].pc \in {"check", "consume"} =>
           fibers'[f].pc \in {"check", "consume"},
         Won(n, fibers[f]) => Won(n, fibers'[f]), Behind(fibers[f]) => Behind(fibers'[f])
  PROVE  Race(n)'
  <1>1. CASE grantStates[IssuedBy(n)] = "available"
    <2>1. \A h \in Callers(n) : fibers[h].pc \in {"check", "consume"}
      BY <1>1 DEF Race
    <2>2. \A h \in Callers(n) : fibers'[h].pc \in {"check", "consume"}
      BY <1>1, <2>1
    <2> QED BY <1>1, <2>2 DEF Race
  <1>2. CASE grantStates[IssuedBy(n)] # "available"
    <2>1. PICK w \in Callers(n) : Won(n, fibers[w]) /\ \A h \in Callers(n) \ {w} : Behind(fibers[h])
      BY <1>2 DEF Race
    <2>2. Won(n, fibers'[w]) /\ \A h \in Callers(n) \ {w} : Behind(fibers'[h])
      BY <2>1
    <2> QED BY <1>2, <2>2 DEF Race
  <1> QED BY <1>1, <1>2

(* What remains to be shown of a step of fiber f in the probe's phase n.   *)
StepFits(n, f) ==
  /\ FiberFits(n, fibers'[f])
  /\ n \in {2, 7} => grantStates'[IssuedBy(n)] = "consumed"
  /\ n \in {4, 5} => grantStates'[IssuedBy(n)] = "available"
  /\ n \in {1, 3, 6} => Race(n)'

(* A step of a fiber keeps the invariant when, with the probe's phase n    *)
(* under way, it leaves the fiber as that phase allows.                    *)
LEMMA StepSuffices ==
  ASSUME PInv, NEW f \in DOMAIN fibers, Effect!FiberStep(f),
         ASSUME NEW n \in 1..7, AsProbed, n = Len(phasesSeen), UnderWay(n), FiberFits(n, fibers[f]), f \in Callers(n),
                Head(journey) = Effect!EffectProbe[n],
                DOMAIN fibers' = DOMAIN fibers, \A h \in Callers(n) \ {f} : fibers'[h] = fibers[h]
         PROVE  StepFits(n, f)
  PROVE  PInv'
  <1>1. BInv' /\ OnlyMoves(f) /\ journey' = journey
    BY FiberKeeps, StepMoves DEF PInv, BInv
  <1>2. phasesSeen' = phasesSeen
    BY DEF Effect!FiberStep, Effect!Check, Effect!Consume, Effect!Count, Effect!Run,
      Effect!ReadUses, Effect!ReadCalls
  <1>3. /\ DOMAIN fibers' = DOMAIN fibers
        /\ \A h \in DOMAIN fibers \ {f} : fibers'[h] = fibers[h]
    BY DEF Effect!FiberStep, Effect!Check, Effect!Consume, Effect!Count, Effect!Run,
      Effect!ReadUses, Effect!ReadCalls, Effect!Goes, Effect!Ends
  <1>4. SUFFICES ASSUME OnProbe' PROVE AsProbed'
    BY <1>1, <1>2 DEF PInv, SeenTyped
  <1>5. PICK n : n = Len(phasesSeen)
    OBVIOUS
  <1>6. n \in Nat /\ DOMAIN phasesSeen = 1..n
    BY <1>5, ListLen DEF PInv, SeenTyped
  <1>7. OnProbe /\ AsProbed
    BY <1>2, <1>4 DEF OnProbe, PInv
  <1>8. fibers # <<>> /\ fibers' # <<>>
    BY <1>3
  <1>9. n \in 1..7 /\ UnderWay(n) /\ Over = n - 1 /\ Over' = n - 1
    <2>1. phasesSeen # <<>> /\ UnderWay(n)
      BY <1>5, <1>7, <1>8 DEF AsProbed
    <2>2. n # 0
      BY <1>5, <2>1 DEF PInv, SeenTyped, IsList
    <2>3. n \in 1..7
      <3>1. n \in DOMAIN phasesSeen
        BY <1>6, <2>2
      <3> QED BY <1>7, <3>1 DEF OnProbe
    <2> QED BY <1>2, <1>5, <1>8, <2>1, <2>3 DEF Over
  <1>10. DOMAIN fibers = Callers(n) /\ FiberFits(n, fibers[f]) /\ Head(journey) = Effect!EffectProbe[n]
    BY <1>9 DEF UnderWay
  <1>11. StepFits(n, f)
    BY <1>3, <1>5, <1>7, <1>9, <1>10
  <1>12. Len(grantStates') = Len(grantStates)
         /\ \A g \in DOMAIN grantStates : grantStates[g] = "consumed" => grantStates'[g] = "consumed"
    <2>1. \/ UNCHANGED grantStates
          \/ \E g : grantStates' = [grantStates EXCEPT ![g] = "consumed"]
      BY DEF Effect!FiberStep, Effect!Check, Effect!Consume, Effect!Count, Effect!Run,
        Effect!ReadUses, Effect!ReadCalls
    <2>2. grantStates \in Seq({"available", "consumed"})
      BY DEF PInv, BInv, FibersTyped
    <2> QED BY <2>1, <2>2
  <1>13. /\ Over >= 1 => grantStates'[1] = "consumed"
         /\ Over >= 6 => grantStates'[5] = "consumed"
    <2>1. grantStates \in Seq({"available", "consumed"}) /\ Len(grantStates) = IssuedBy(n)
      BY <1>5, <1>7 DEF PInv, BInv, FibersTyped, AsProbed
    <2>2. (Over >= 1 => 1 \in 1..IssuedBy(n)) /\ (Over >= 6 => 5 \in 1..IssuedBy(n))
      BY <1>9 DEF IssuedBy
    <2> QED BY <1>7, <1>12, <2>1, <2>2 DEF AsProbed
  <1>14. \A h \in Callers(n) : FiberFits(n, fibers'[h])
    BY <1>3, <1>9, <1>10, <1>11 DEF UnderWay, StepFits
  <1>15. UnderWay(Len(phasesSeen))'
    BY <1>1, <1>2, <1>3, <1>5, <1>10, <1>11, <1>14 DEF UnderWay, StepFits, Race
  <1> QED BY <1>2, <1>5, <1>7, <1>8, <1>9, <1>12, <1>13, <1>15 DEF AsProbed

(* A fiber that only goes on, or only ends.                                *)
LEMMA GoesTo ==
  ASSUME NEW n, NEW f \in DOMAIN fibers, FiberFits(n, fibers[f]), NEW pc
  PROVE  /\ Effect!Goes(f, pc) =>
              /\ DOMAIN fibers'[f] = Fields /\ fibers'[f].pc = pc
              /\ fibers'[f].grant = fibers[f].grant /\ fibers'[f].destination = fibers[f].destination
              /\ fibers'[f].state = fibers[f].state /\ fibers'[f].amount = fibers[f].amount
         /\ Effect!Ends(f, pc) =>
              /\ DOMAIN fibers'[f] = Fields /\ fibers'[f].pc = "uses" /\ fibers'[f].outcome = pc
              /\ fibers'[f].grant = fibers[f].grant /\ fibers'[f].destination = fibers[f].destination
              /\ fibers'[f].amount = fibers[f].amount
  <1>1. DOMAIN fibers[f] = Fields
    BY DEF FiberFits
  <1> QED BY <1>1 DEF Effect!Goes, Effect!Ends, Fields

(* What the checks say to the probe's callers. *)
LEMMA ChecksTell ==
  \A n \in 1..7 : /\ Where(n) # Effect!Entity <=> n = 4
                  /\ ~Effect!Enabled_(Balance(n), Asked(n)) <=> n = 5
  BY DEF Where, Balance, Asked, Effect!Enabled_, Effect!Entity, Effect!Elsewhere

(* The destination and enabled checks stop the callers of phases 4 and 5,  *)
(* and nobody else.                                                        *)
LEMMA CheckProbes ==
  ASSUME NEW n \in 1..7, UnderWay(n), NEW f \in DOMAIN fibers, FiberFits(n, fibers[f]),
         f \in Callers(n), \A h \in Callers(n) \ {f} : fibers'[h] = fibers[h], Effect!Check(f)
  PROVE  StepFits(n, f)
  <1>1. fibers[f].pc = "check" /\ grantStates' = grantStates
    BY DEF Effect!Check
  <1>2. /\ fibers[f].grant = IssuedBy(n) /\ fibers[f].amount = Asked(n)
        /\ fibers[f].destination = Where(n) /\ fibers[f].state = Balance(n)
    BY <1>1 DEF FiberFits, Before
  <1>3. CASE n = 4
    <2>1. Effect!Ends(f, "WrongDestination")
      BY <1>2, <1>3, ChecksTell DEF Effect!Check
    <2>2. FiberFits(n, fibers'[f])
      BY <1>2, <1>3, <2>1, GoesTo DEF FiberFits, Before, After, Answer
    <2> QED BY <1>1, <1>3, <2>2 DEF StepFits, UnderWay
  <1>4. CASE n = 5
    <2>1. Effect!Ends(f, "DomainRejected")
      BY <1>2, <1>4, ChecksTell DEF Effect!Check
    <2>2. FiberFits(n, fibers'[f])
      BY <1>2, <1>4, <2>1, GoesTo DEF FiberFits, Before, After, Answer
    <2> QED BY <1>1, <1>4, <2>2 DEF StepFits, UnderWay
  <1>5. CASE n \notin {4, 5}
    <2>1. Effect!Goes(f, "consume")
      BY <1>2, <1>5, ChecksTell DEF Effect!Check
    <2>2. fibers'[f].pc = "consume"
      BY <2>1, GoesTo
    <2>3. FiberFits(n, fibers'[f])
      BY <1>2, <1>5, <2>1, GoesTo DEF FiberFits, Before, After
    <2>4. n \in {1, 3, 6} => Race(n)'
      <3>1. ~Won(n, fibers[f]) /\ Behind(fibers'[f])
        BY <1>1, <2>2 DEF Won, Behind, After
      <3> QED BY <1>1, <2>2, <3>1, RaceStays DEF UnderWay
    <2> QED BY <1>1, <1>5, <2>3, <2>4 DEF StepFits, UnderWay
  <1> QED BY <1>3, <1>4, <1>5

(* The use goes to the first caller who asks for it; the others find it    *)
(* gone.                                                                   *)
LEMMA ConsumeProbes ==
  ASSUME PInv, NEW n \in 1..7, UnderWay(n), NEW f \in DOMAIN fibers, FiberFits(n, fibers[f]),
         AsProbed, n = Len(phasesSeen),
         f \in Callers(n), \A h \in Callers(n) \ {f} : fibers'[h] = fibers[h], Effect!Consume(f)
  PROVE  StepFits(n, f)
  <1>1. fibers[f].pc = "consume"
    BY DEF Effect!Consume
  <1>2. /\ fibers[f].grant = IssuedBy(n) /\ fibers[f].amount = Asked(n) /\ n \notin {4, 5}
        /\ fibers[f].destination = Where(n) /\ fibers[f].state = Balance(n)
    BY <1>1 DEF FiberFits, Before
  <1>3. CASE grantStates[IssuedBy(n)] = "available"
    <2>1. Effect!Goes(f, "count") /\ grantStates' = [grantStates EXCEPT ![IssuedBy(n)] = "consumed"]
      BY <1>2, <1>3 DEF Effect!Consume
    <2>2. n \in {1, 3, 6}
      BY <1>2, <1>3 DEF UnderWay
    <2>3. grantStates'[IssuedBy(n)] = "consumed"
      <3>1. Len(grantStates) = IssuedBy(n) /\ grantStates \in Seq({"available", "consumed"})
        BY DEF AsProbed, PInv, BInv, FibersTyped
      <3>2. IssuedBy(n) \in 1..5
        BY NextPhase
      <3> QED BY <2>1, <3>1, <3>2
    <2>4. fibers'[f].pc = "count"
      BY <2>1, GoesTo
    <2>5. FiberFits(n, fibers'[f])
      <3>1. /\ DOMAIN fibers'[f] = Fields /\ fibers'[f].pc = "count"
            /\ fibers'[f].grant = IssuedBy(n) /\ fibers'[f].amount = Asked(n)
            /\ fibers'[f].destination = Where(n) /\ fibers'[f].state = Balance(n)
        BY <1>2, <2>1, GoesTo
      <3> QED BY <2>2, <3>1 DEF FiberFits, Before, After
    <2>6. Race(n)'
      <3>1. \A h \in Callers(n) : fibers[h].pc \in {"check", "consume"}
        BY <1>3, <2>2 DEF UnderWay, Race
      <3>2. Won(n, fibers'[f]) /\ \A h \in Callers(n) \ {f} : Behind(fibers'[h])
        BY <2>4, <3>1 DEF Won, Behind
      <3>3. grantStates'[IssuedBy(n)] # "available"
        BY <2>3
      <3>4. \E w \in Callers(n) : Won(n, fibers'[w]) /\ \A h \in Callers(n) \ {w} : Behind(fibers'[h])
        BY <3>2
      <3> QED BY <3>2, <3>3 DEF Race
    <2> QED BY <1>2, <2>3, <2>5, <2>6 DEF StepFits
  <1>4. CASE grantStates[IssuedBy(n)] # "available"
    <2>1. Effect!Ends(f, "CapabilityUseRejected") /\ grantStates' = grantStates
      BY <1>2, <1>4 DEF Effect!Consume
    <2>2. fibers'[f].pc = "uses" /\ fibers'[f].outcome = "CapabilityUseRejected"
      BY <2>1, GoesTo
    <2>3. FiberFits(n, fibers'[f])
      <3>1. n \notin {1, 3, 6} => Answer(n) = "CapabilityUseRejected"
        BY <1>2 DEF Answer
      <3>2. /\ DOMAIN fibers'[f] = Fields
            /\ fibers'[f].grant = fibers[f].grant /\ fibers'[f].destination = fibers[f].destination
            /\ fibers'[f].amount = fibers[f].amount
        BY <2>1, GoesTo
      <3> QED BY <1>2, <2>2, <3>1, <3>2 DEF FiberFits, Before, After
    <2>4. n \in {1, 3, 6} => Race(n)'
      <3>1. ~Won(n, fibers[f]) /\ Behind(fibers'[f])
        BY <1>1, <2>2 DEF Won, Behind, After
      <3> QED BY <1>4, <2>1, <3>1, RaceStays DEF UnderWay
    <2> QED BY <1>2, <2>1, <2>3, <2>4 DEF StepFits, UnderWay
  <1> QED BY <1>3, <1>4

(* A fiber that has the use is in a phase whose grant is fresh, and the    *)
(* use is gone.                                                            *)
LEMMA RunnersWon ==
  ASSUME NEW n \in 1..7, UnderWay(n), NEW f \in Callers(n), FiberFits(n, fibers[f]),
         fibers[f].pc \in {"count", "run"}
  PROVE  n \in {1, 3, 6} /\ Race(n) /\ ~Behind(fibers[f]) /\ grantStates[IssuedBy(n)] # "available"
  <1>1. n \in {1, 3, 6}
    BY DEF FiberFits
  <1>2. Race(n)
    BY <1>1 DEF UnderWay
  <1> QED BY <1>1, <1>2 DEF Race, Behind, After

(* Counting the call leaves the winner the winner. *)
LEMMA CountProbes ==
  ASSUME NEW n \in 1..7, UnderWay(n), NEW f \in DOMAIN fibers, FiberFits(n, fibers[f]),
         f \in Callers(n), \A h \in Callers(n) \ {f} : fibers'[h] = fibers[h], Effect!Count(f)
  PROVE  StepFits(n, f)
  <1>1. fibers[f].pc = "count" /\ grantStates' = grantStates /\ Effect!Goes(f, "run")
    BY DEF Effect!Count
  <1>2. n \in {1, 3, 6} /\ Race(n) /\ ~Behind(fibers[f]) /\ grantStates[IssuedBy(n)] # "available"
    BY <1>1, RunnersWon
  <1>3. fibers'[f].pc = "run"
    BY <1>1, GoesTo
  <1>4. FiberFits(n, fibers'[f])
    BY <1>1, <1>2, GoesTo DEF FiberFits, Before, After
  <1>5. Won(n, fibers'[f])
    BY <1>3 DEF Won
  <1>6. Race(n)'
    BY <1>1, <1>2, <1>5, RaceStays
  <1> QED BY <1>2, <1>4, <1>6 DEF StepFits

(* The run answers the winner: with the new balance, or with the defect. *)
LEMMA RunProbes ==
  ASSUME NEW n \in 1..7, UnderWay(n), NEW f \in DOMAIN fibers, FiberFits(n, fibers[f]),
         f \in Callers(n), \A h \in Callers(n) \ {f} : fibers'[h] = fibers[h], Effect!Run(f)
  PROVE  StepFits(n, f)
  <1>1. fibers[f].pc = "run" /\ grantStates' = grantStates
    BY DEF Effect!Run
  <1>2. n \in {1, 3, 6} /\ Race(n) /\ ~Behind(fibers[f]) /\ grantStates[IssuedBy(n)] # "available"
    BY <1>1, RunnersWon
  <1>3. PICK outcome \in Effect!Outcomes(Head(journey).layer) :
          fibers' = [fibers EXCEPT ![f].pc = "uses", ![f].outcome = outcome,
                       ![f].state = IF outcome = "Success" THEN @ - fibers[f].amount ELSE @]
    BY DEF Effect!Run
  <1>4. outcome = Answer(n)
    <2>1. Head(journey).layer = Layer(n)
      BY ProbePhases DEF UnderWay, PhaseFits
    <2>2. /\ n \in {1, 3} => Layer(n) = "healthy" /\ Answer(n) = "Success"
          /\ n = 6 => Layer(n) = "defecting" /\ Answer(n) = "Defect"
      BY DEF Layer, Answer
    <2>3. Effect!Outcomes("healthy") = {"Success"} /\ Effect!Outcomes("defecting") = {"Defect"}
      BY DEF Effect!Outcomes
    <2> QED BY <1>2, <1>3, <2>1, <2>2, <2>3
  <1>5. /\ fibers[f].grant = IssuedBy(n) /\ fibers[f].amount = Asked(n) /\ DOMAIN fibers[f] = Fields
        /\ fibers[f].destination = Where(n) /\ fibers[f].state = Balance(n)
    BY <1>1 DEF FiberFits, Before
  <1>6. /\ DOMAIN fibers'[f] = Fields /\ fibers'[f].pc = "uses" /\ fibers'[f].outcome = outcome
        /\ fibers'[f].grant = fibers[f].grant /\ fibers'[f].destination = fibers[f].destination
        /\ fibers'[f].amount = fibers[f].amount
        /\ fibers'[f].state = IF outcome = "Success" THEN fibers[f].state - fibers[f].amount ELSE fibers[f].state
    BY <1>3, <1>5 DEF Fields
  <1>7. FiberFits(n, fibers'[f])
    BY <1>2, <1>5, <1>6 DEF FiberFits, Before, After
  <1>8. Won(n, fibers'[f])
    <2>1. n = 1 => Answer(n) = "Success" /\ Balance(n) = 10 /\ Asked(n) = 4
      BY DEF Answer, Balance, Asked
    <2>2. n = 1 => fibers'[f].state = 6
      BY <1>4, <1>5, <1>6, <2>1
    <2> QED BY <1>4, <1>6, <2>2 DEF Won, After
  <1>9. Race(n)'
    BY <1>1, <1>2, <1>8, RaceStays
  <1> QED BY <1>2, <1>7, <1>9 DEF StepFits

(* The use the observer reads: gone where somebody took it.                *)
LEMMA ReadsProbe ==
  ASSUME NEW n \in 1..7, UnderWay(n), NEW f \in DOMAIN fibers, FiberFits(n, fibers[f]),
         f \in Callers(n), \A h \in Callers(n) \ {f} : fibers'[h] = fibers[h],
         Effect!ReadUses(f) \/ Effect!ReadCalls(f)
  PROVE  StepFits(n, f)
  <1>1. fibers[f].pc \in {"uses", "calls"} /\ grantStates' = grantStates /\ fibers[f].grant = IssuedBy(n)
        /\ DOMAIN fibers[f] = Fields
    BY DEF Effect!ReadUses, Effect!ReadCalls, FiberFits
  <1>2. /\ DOMAIN fibers'[f] = Fields /\ fibers'[f].pc \in {"calls", "done"}
        /\ fibers'[f].grant = fibers[f].grant /\ fibers'[f].destination = fibers[f].destination
        /\ fibers'[f].amount = fibers[f].amount /\ fibers'[f].state = fibers[f].state
        /\ fibers'[f].outcome = fibers[f].outcome
        /\ fibers'[f].remaining = IF fibers[f].pc = "uses" THEN Effect!RemainingUses(IssuedBy(n))
                                  ELSE fibers[f].remaining
    <2>1. CASE Effect!ReadUses(f)
      BY <1>1, <2>1 DEF Effect!ReadUses, Fields
    <2>2. CASE Effect!ReadCalls(f)
      BY <1>1, <2>2 DEF Effect!ReadCalls, Fields
    <2> QED BY <2>1, <2>2
  <1>3. Effect!RemainingUses(IssuedBy(n)) = Left(n)
    <2>1. CASE n \in {1, 3, 6}
      <3>1. grantStates[IssuedBy(n)] # "available"
        BY <1>1, <2>1 DEF UnderWay, Race
      <3> QED BY <2>1, <3>1 DEF Effect!RemainingUses, Left
    <2>2. CASE n \in {2, 7}
      BY <2>2 DEF UnderWay, Effect!RemainingUses, Left
    <2>3. CASE n \in {4, 5}
      BY <2>3 DEF UnderWay, Effect!RemainingUses, Left
    <2> QED BY <2>1, <2>2, <2>3
  <1>4. FiberFits(n, fibers'[f])
    BY <1>1, <1>2, <1>3 DEF FiberFits, Before, After
  <1>5. (Won(n, fibers[f]) => Won(n, fibers'[f])) /\ (Behind(fibers[f]) => Behind(fibers'[f]))
    BY <1>1, <1>2 DEF Won, Behind, After
  <1>6. n \in {1, 3, 6} => Race(n)'
    BY <1>1, <1>5, RaceStays DEF UnderWay
  <1> QED BY <1>1, <1>4, <1>6 DEF StepFits, UnderWay

(* The steps of the journey keep to the probe's course. *)
LEMMA ProbeSteps == PInv /\ [Effect!BoundaryNext]_(Effect!boundaryVars) => PInv'
  <1> SUFFICES ASSUME PInv, [Effect!BoundaryNext]_(Effect!boundaryVars) PROVE PInv'
    OBVIOUS
  <1>1. CASE UNCHANGED Effect!boundaryVars
    <2>1. BInv'
      BY <1>1 DEF PInv, Effect!boundaryVars, BInv, FibersTyped, Balanced, Due, Effect!RemainingUses
    <2>2. (OnProbe' <=> OnProbe) /\ SeenTyped'
      BY <1>1 DEF PInv, Effect!boundaryVars, OnProbe, SeenTyped
    <2>3. AsProbed => AsProbed'
      BY <1>1 DEF Effect!boundaryVars, AsProbed, Over, UnderWay, Race
    <2> QED BY <2>1, <2>2, <2>3 DEF PInv
  <1>2. ASSUME NEW f \in DOMAIN fibers, Effect!FiberStep(f) PROVE PInv'
    <2>1. SUFFICES
            ASSUME NEW n \in 1..7, AsProbed, n = Len(phasesSeen), UnderWay(n), FiberFits(n, fibers[f]),
                   f \in Callers(n), \A h \in Callers(n) \ {f} : fibers'[h] = fibers[h]
            PROVE  StepFits(n, f)
      BY <1>2, StepSuffices
    <2> QED BY <1>2, <2>1, CheckProbes, ConsumeProbes, CountProbes, RunProbes, ReadsProbe
      DEF Effect!FiberStep
  <1> QED BY <1>1, <1>2, BeginProbes, FinishProbes DEF Effect!BoundaryNext

(* The probe's phases are told apart by their names. *)
LEMMA SeenByName ==
  ASSUME SeenTyped, Effect!Probed, NEW k \in 1..7
  PROVE  Effect!Seen(TraceOf(k)) = phasesSeen[k]
  <1>1. DOMAIN phasesSeen = 1..7 /\ \A i \in 1..7 : phasesSeen[i].phase.trace = TraceOf(i)
    <2> DEFINE phases == [i \in DOMAIN phasesSeen |-> phasesSeen[i].phase]
    <2>1. phases = Effect!EffectProbe /\ DOMAIN phases = DOMAIN phasesSeen
      BY DEF Effect!Probed
    <2>2. \A i \in DOMAIN phasesSeen : phases[i] = phasesSeen[i].phase
      OBVIOUS
    <2> HIDE DEF phases
    <2> QED BY <2>1, <2>2, ProbePhases DEF PhaseFits
  <1>2. \A i \in 1..7 : TraceOf(i) = TraceOf(k) => i = k
    BY DEF TraceOf
  <1> DEFINE named == {p \in {phasesSeen[i] : i \in DOMAIN phasesSeen} : p.phase.trace = TraceOf(k)}
  <1>3. \A p \in {phasesSeen[i] : i \in DOMAIN phasesSeen} : p.phase.trace = TraceOf(k) <=> p = phasesSeen[k]
    BY <1>1, <1>2
  <1>4. phasesSeen[k] \in {phasesSeen[i] : i \in DOMAIN phasesSeen}
    BY <1>1
  <1> QED BY <1>3, <1>4 DEF Effect!Seen

(* What the probe has heard once it is over. *)
LEMMA ProbeHeard ==
  ASSUME PInv, Effect!Probed
  PROVE  \A k \in 1..7 : /\ Effect!Seen(TraceOf(k)).before = Had(k)
                         /\ Closed(k, Effect!Seen(TraceOf(k)).fibers)
  <1>1. DOMAIN phasesSeen = 1..7 /\ OnProbe
    <2> DEFINE phases == [i \in DOMAIN phasesSeen |-> phasesSeen[i].phase]
    <2>1. phases = Effect!EffectProbe /\ DOMAIN phases = DOMAIN phasesSeen
      BY DEF Effect!Probed
    <2>2. \A i \in DOMAIN phasesSeen : phases[i] = phasesSeen[i].phase
      OBVIOUS
    <2> HIDE DEF phases
    <2> QED BY <2>1, <2>2, ProbePhases DEF OnProbe
  <1>2. Len(phasesSeen) = 7
    BY <1>1, ListLen DEF PInv, SeenTyped
  <1>3. fibers = <<>>
    BY DEF Effect!Probed, PInv, BInv, FibersTyped
  <1>4. AsProbed /\ Over = 7
    BY <1>1, <1>2, <1>3 DEF PInv, Over
  <1>5. SeenTyped
    BY DEF PInv
  <1> QED BY <1>1, <1>4, <1>5, SeenByName DEF AsProbed

(* Of the callers that compete one succeeds and the other is rejected.     *)
LEMMA CompetingCounts ==
  ASSUME PInv, Effect!Probed
  PROVE  /\ Effect!Count_("competing", "Success") = 1
         /\ Effect!Count_("competing", "CapabilityUseRejected") = 1
  <1> DEFINE shown == Effect!Seen("competing").fibers
  <1>1. Closed(3, shown)
    <2>1. TraceOf(3) = "competing"
      BY DEF TraceOf
    <2> QED BY <2>1, ProbeHeard
  <1> HIDE DEF shown
  <1>2. PICK w \in 1..2 : \A f \in 1..2 : shown[f].outcome = IF f = w THEN "Success" ELSE "CapabilityUseRejected"
    BY <1>1 DEF Closed, Callers
  <1>3. DOMAIN shown = 1..2
    BY <1>1 DEF Closed, Callers
  <1>4. /\ {f \in DOMAIN shown : shown[f].outcome = "Success"} = {w}
        /\ {f \in DOMAIN shown : shown[f].outcome = "CapabilityUseRejected"} = {3 - w}
    BY <1>2, <1>3
  <1>5. Cardinality({w}) = 1 /\ Cardinality({3 - w}) = 1
    BY FS_Singleton
  <1>6. \A S : Effect!Cardinality(S) = Cardinality(S)
    BY DEF Effect!Cardinality, Cardinality
  <1> QED BY <1>4, <1>5, <1>6 DEF Effect!Count_, shown

(* Then what the probe prints is what the evidence package demands.        *)
LEMMA ReportPasses ==
  ASSUME PInv, Effect!Probed
  PROVE  Effect!CheckObservations([target |-> "effect-typescript", id |-> [realization |-> Realization],
                                   observations |-> Effect!Normalize(Effect!EffectReport)])
  <1>1. /\ TraceOf(1) = "valid" /\ TraceOf(2) = "reuse" /\ TraceOf(3) = "competing"
        /\ TraceOf(4) = "wrongDestination" /\ TraceOf(5) = "disabled" /\ TraceOf(6) = "defect"
        /\ TraceOf(7) = "stale"
    BY DEF TraceOf
  <1>2. /\ Effect!Is("valid", "Success") /\ Effect!Is("reuse", "CapabilityUseRejected")
        /\ Effect!Is("wrongDestination", "WrongDestination") /\ Effect!Is("disabled", "DomainRejected")
        /\ Effect!Is("defect", "Defect") /\ Effect!Is("stale", "CapabilityUseRejected")
    <2>1. \A k \in 1..7 : k # 3 => Effect!Is(TraceOf(k), Answer(k))
      BY ProbeHeard DEF Closed, Effect!Is
    <2>2. /\ Answer(1) = "Success" /\ Answer(2) = "CapabilityUseRejected" /\ Answer(4) = "WrongDestination"
          /\ Answer(5) = "DomainRejected" /\ Answer(6) = "Defect" /\ Answer(7) = "CapabilityUseRejected"
      BY DEF Answer
    <2>3. /\ Effect!Is(TraceOf(1), Answer(1)) /\ Effect!Is(TraceOf(2), Answer(2))
          /\ Effect!Is(TraceOf(4), Answer(4)) /\ Effect!Is(TraceOf(5), Answer(5))
          /\ Effect!Is(TraceOf(6), Answer(6)) /\ Effect!Is(TraceOf(7), Answer(7))
      BY <2>1
    <2> QED BY <1>1, <2>2, <2>3
  <1> DEFINE passes(j) ==
        CASE j = "validCall"        -> Effect!Is("valid", "Success")
          [] j = "reuse"            -> Effect!Is("reuse", "CapabilityUseRejected")
          [] j = "competing"        -> /\ Effect!Count_("competing", "Success") = 1
                                       /\ Effect!Count_("competing", "CapabilityUseRejected") = 1
          [] j = "wrongDestination" -> Effect!Is("wrongDestination", "WrongDestination")
          [] j = "disabled"         -> Effect!Is("disabled", "DomainRejected")
          [] j = "defect"           -> Effect!Is("defect", "Defect") /\ Effect!Is("stale", "CapabilityUseRejected")
  <1>3. \A j \in Effect!Journeys : passes(j)
    <2>1. passes("validCall") BY <1>2
    <2>2. passes("reuse") BY <1>2
    <2>3. passes("competing") BY CompetingCounts
    <2>4. passes("wrongDestination") BY <1>2
    <2>5. passes("disabled") BY <1>2
    <2>6. passes("defect") BY <1>2
    <2> HIDE DEF passes
    <2> QED BY <2>1, <2>2, <2>3, <2>4, <2>5, <2>6 DEF Effect!Journeys
  <1> DEFINE left == [t \in Effect!Traces |->
               CASE t = "replacement" -> <<1, 1>>
                 [] t = "competing"   -> <<Effect!Seen(t).before, 0>>
                 [] OTHER             -> <<Effect!Seen(t).before, Effect!Seen(t).fibers[1].remaining>>]
  <1>4. \A k \in 1..7 : k # 3 => left[TraceOf(k)] = <<Had(k), Left(k)>>
    <2> TAKE k \in 1..7
    <2> HAVE k # 3
    <2>1. TraceOf(k) \in Effect!Traces /\ TraceOf(k) # "replacement" /\ TraceOf(k) # "competing"
      BY DEF TraceOf, Effect!Traces
    <2>2. Effect!Seen(TraceOf(k)).before = Had(k) /\ Effect!Seen(TraceOf(k)).fibers[1].remaining = Left(k)
      BY ProbeHeard DEF Closed
    <2> QED BY <2>1, <2>2
  <1>5. left["competing"] = <<1, 0>> /\ left["replacement"] = <<1, 1>>
    <2>1. Effect!Seen("competing").before = 1
      BY <1>1, ProbeHeard DEF Had
    <2>2. "competing" \in Effect!Traces /\ "replacement" \in Effect!Traces
      BY DEF Effect!Traces
    <2> QED BY <2>1, <2>2
  <1>6. DOMAIN left = Effect!Traces
    OBVIOUS
  <1> HIDE DEF left, passes
  <1>7. /\ left["valid"] = <<1, 0>> /\ left["reuse"] = <<0, 0>> /\ left["wrongDestination"] = <<1, 1>>
        /\ left["disabled"] = <<1, 1>> /\ left["defect"] = <<1, 0>> /\ left["stale"] = <<0, 0>>
    <2>1. /\ left[TraceOf(1)] = <<Had(1), Left(1)>> /\ left[TraceOf(2)] = <<Had(2), Left(2)>>
          /\ left[TraceOf(4)] = <<Had(4), Left(4)>> /\ left[TraceOf(5)] = <<Had(5), Left(5)>>
          /\ left[TraceOf(6)] = <<Had(6), Left(6)>> /\ left[TraceOf(7)] = <<Had(7), Left(7)>>
      BY <1>4
    <2>2. /\ Had(1) = 1 /\ Had(2) = 0 /\ Had(4) = 1 /\ Had(5) = 1 /\ Had(6) = 1 /\ Had(7) = 0
          /\ Left(1) = 0 /\ Left(2) = 0 /\ Left(4) = 1 /\ Left(5) = 1 /\ Left(6) = 0 /\ Left(7) = 0
      BY DEF Had, Left
    <2> QED BY <1>1, <2>1, <2>2
  <1>8. left = Effect!ExpectedRemaining("effect-typescript")
    <2> DEFINE expected == Effect!ExpectedRemaining("effect-typescript")
    <2>1. /\ expected = [t \in Effect!Traces |-> expected[t]] /\ DOMAIN expected = Effect!Traces
          /\ expected["valid"] = <<1, 0>> /\ expected["reuse"] = <<0, 0>>
          /\ expected["competing"] = <<1, 0>> /\ expected["wrongDestination"] = <<1, 1>>
          /\ expected["disabled"] = <<1, 1>> /\ expected["defect"] = <<1, 0>> /\ expected["stale"] = <<0, 0>>
          /\ expected["replacement"] = <<1, 1>>
      BY DEF Effect!ExpectedRemaining, Effect!Traces
    <2>2. left = [t \in Effect!Traces |-> left[t]]
      BY DEF left
    <2> HIDE DEF expected
    <2>3. \A t \in Effect!Traces : left[t] = expected[t]
      BY <1>5, <1>7, <2>1 DEF Effect!Traces
    <2>4. left = expected
      BY <2>1, <2>2, <2>3
    <2> QED BY <2>4 DEF expected
  <1>9. /\ Effect!EffectReport.target = "effect-typescript" /\ Effect!EffectReport.realization = Realization
        /\ Effect!EffectReport.passed = {j \in Effect!Journeys : passes(j)}
        /\ Effect!EffectReport.successes = Effect!Count_("competing", "Success")
        /\ Effect!EffectReport.rejections = Effect!Count_("competing", "CapabilityUseRejected")
        /\ Effect!EffectReport.remaining = left /\ Effect!EffectReport.restart = {}
    BY DEF Effect!EffectReport, left, passes
  <1>10. Effect!EffectReport.passed = Effect!Journeys
    BY <1>3, <1>9
  <1>11. /\ Effect!Normalize(Effect!EffectReport).target = "effect-typescript"
         /\ Effect!Normalize(Effect!EffectReport).realization = Realization
         /\ Effect!Normalize(Effect!EffectReport).passed = Effect!Journeys
         /\ Effect!Normalize(Effect!EffectReport).successes = 1
         /\ Effect!Normalize(Effect!EffectReport).rejections = 1
         /\ Effect!Normalize(Effect!EffectReport).remaining = Effect!ExpectedRemaining("effect-typescript")
         /\ Effect!Normalize(Effect!EffectReport).restart = {}
    BY <1>8, <1>9, <1>10, CompetingCounts DEF Effect!Normalize
  <1> QED BY <1>11 DEF Effect!CheckObservations

(* The probe of the Effect boundary prints what the evidence demands,      *)
(* however its two competitors are interleaved.                            *)
LEMMA EffectProbeShowsExactOne ==
  ASSUME Effect!JourneysAreTyped
  PROVE  Effect!BoundarySpec => []Effect!ProbeShowsExactOne
  <1>1. Effect!BoundaryInit => PInv
    <2> SUFFICES ASSUME Effect!BoundaryInit PROVE PInv
      OBVIOUS
    <2>1. BInv
      BY BoundaryInitHolds
    <2>2. phasesSeen = <<>> /\ fibers = <<>> /\ grantStates = <<>> /\ Len(phasesSeen) = 0
          /\ Len(grantStates) = 0 /\ DOMAIN phasesSeen = {}
      BY DEF Effect!BoundaryInit
    <2>3. SeenTyped
      BY <2>2, EmptyList DEF SeenTyped
    <2>4. AsProbed
      BY <2>2 DEF AsProbed, Over, IssuedBy
    <2> QED BY <2>1, <2>3, <2>4 DEF PInv
  <1>2. PInv => Effect!ProbeShowsExactOne
    BY ReportPasses DEF Effect!ProbeShowsExactOne
  <1> QED BY <1>1, <1>2, ProbeSteps, PTL DEF Effect!BoundarySpec
-----------------------------------------------------------------------------
(* The script of the supervised entity's probe, by position: what it asks, *)
Issues == {1, 8, 13, 17, 21, 27}
Withdrawals == {3, 6, 11, 15, 19, 25, 29}
OpAt(k) ==
  IF k \in Issues THEN "issue" ELSE IF k \in Withdrawals THEN "withdraw"
  ELSE IF k = 10 THEN "first" ELSE IF k = 23 THEN "defect" ELSE IF k = 31 THEN "stop" ELSE "uses"
TraceAt(k) ==
  IF k \in Issues \/ k = 31 THEN "valid"
  ELSE IF k < 5 THEN "valid" ELSE IF k < 8 THEN "reuse" ELSE IF k < 13 THEN "competing"
  ELSE IF k < 17 THEN "wrongDestination" ELSE IF k < 21 THEN "disabled"
  ELSE IF k < 24 THEN "defect" ELSE IF k < 27 THEN "stale" ELSE "replacement"
DestinationAt(k) == IF k = 15 THEN Gleam!There ELSE Gleam!Here
AmountAt(k) ==
  IF k = 3 THEN 4 ELSE IF k \in {6, 15, 23, 25} THEN 1 ELSE IF k \in {10, 11} THEN 2
  ELSE IF k = 19 THEN 9 ELSE IF k = 29 THEN 3 ELSE 0
StepAt(k) == Gleam!Step(OpAt(k), TraceAt(k), DestinationAt(k), AmountAt(k))

(* the actor once it has handled that much,                                *)
GrantOf(i, n) == [incarnation |-> i, number |-> n]
IncarnationAt(k) == IF k < 23 THEN 1 ELSE 2
BalanceAt(k) == IF k < 3 THEN 10 ELSE IF k < 10 THEN 6 ELSE IF k < 23 THEN 4 ELSE IF k < 29 THEN 10 ELSE 7
CallsAt(k) == IF k < 3 THEN 0 ELSE IF k < 10 THEN 1 ELSE IF k < 23 THEN 2 ELSE IF k < 29 THEN 0 ELSE 1
NextAt(k) ==
  IF k < 1 THEN 1 ELSE IF k < 8 THEN 2 ELSE IF k < 13 THEN 3 ELSE IF k < 17 THEN 4
  ELSE IF k < 21 THEN 5 ELSE IF k < 23 THEN 6 ELSE IF k < 27 THEN 1 ELSE 2
SpentAt(k) ==
  IF k < 3 THEN {} ELSE IF k < 10 THEN {GrantOf(1, 1)} ELSE IF k < 23 THEN {GrantOf(1, 1), GrantOf(1, 2)}
  ELSE IF k < 29 THEN {} ELSE {GrantOf(2, 1)}
StatusAt(k) == IF k = 31 THEN "stopped" ELSE "running"

(* the grant the probe then holds, and what it is told.                    *)
GrantAt(k) ==
  IF k < 1 THEN GrantOf(0, 0) ELSE IF k < 8 THEN GrantOf(1, 1) ELSE IF k < 13 THEN GrantOf(1, 2)
  ELSE IF k < 17 THEN GrantOf(1, 3) ELSE IF k < 21 THEN GrantOf(1, 4) ELSE IF k < 27 THEN GrantOf(1, 5)
  ELSE GrantOf(2, 1)
TagAt(k) ==
  IF k \in Issues THEN "Grant" ELSE IF k \in {3, 10, 29} THEN "Success"
  ELSE IF k \in {6, 11} THEN "CapabilityUseRejected" ELSE IF k = 15 THEN "WrongDestination"
  ELSE IF k = 19 THEN "DomainRejected" ELSE IF k = 25 THEN "StaleGrantRejected"
  ELSE IF k = 31 THEN "Stopped" ELSE "Uses"
LeftAt(k) == IF k \in Issues \cup {2, 9, 14, 15, 16, 18, 19, 20, 22, 28} THEN 1 ELSE 0

(* The replies a trace is made of. *)
FirstOf(t) ==
  IF t = "valid" THEN 2 ELSE IF t = "reuse" THEN 5 ELSE IF t = "competing" THEN 9
  ELSE IF t = "wrongDestination" THEN 14 ELSE IF t = "disabled" THEN 18 ELSE IF t = "defect" THEN 22
  ELSE IF t = "stale" THEN 24 ELSE 28
LastOf(t) ==
  IF t = "valid" THEN 4 ELSE IF t = "reuse" THEN 7 ELSE IF t = "competing" THEN 12
  ELSE IF t = "wrongDestination" THEN 16 ELSE IF t = "disabled" THEN 20 ELSE IF t = "defect" THEN 22
  ELSE IF t = "stale" THEN 26 ELSE 30
HeardOf(t, r) ==
  IF r < FirstOf(t) THEN 0 ELSE IF r < LastOf(t) THEN r - FirstOf(t) + 1 ELSE LastOf(t) - FirstOf(t) + 1

ActorIs(k) ==
  /\ actor.status = StatusAt(k) /\ actor.balance = BalanceAt(k) /\ actor.incarnation = IncarnationAt(k)
  /\ actor.nextGrant = NextAt(k) /\ actor.consumed = SpentAt(k) /\ actor.calls = CallsAt(k)
MessageIs(m, k) ==
  /\ m.from = Gleam!Probe /\ m.op = (IF k = 10 THEN "withdraw" ELSE OpAt(k)) /\ m.trace = TraceAt(k)
  /\ m.destination = DestinationAt(k) /\ m.amount = AmountAt(k) /\ m.grant = GrantAt(k - 1)
ReplyIs(x, k) ==
  /\ x.tag = TagAt(k) /\ x.trace = TraceAt(k) /\ x.state = BalanceAt(k)
  /\ x.remaining = LeftAt(k) /\ x.calls = CallsAt(k) /\ x.grant = GrantAt(k)

Prober == clients[Gleam!Probe]
ScriptIs(s) == Len(script) = 31 - s /\ \A i \in 1..(31 - s) : script[i] = StepAt(s + i)
MailIs(h, s) == Len(mailbox) = s - h /\ \A i \in 1..(s - h) : MessageIs(mailbox[i], h + i)
InboxIs(r, h) == Len(Prober.inbox) = h - r /\ \A i \in 1..(h - r) : ReplyIs(Prober.inbox[i], r + i)
HeardIs(r) ==
  \A t \in Gleam!Traces :
    /\ Len(heard[t]) = HeardOf(t, r)
    /\ \A i \in 1..HeardOf(t, r) : ReplyIs(heard[t][i], FirstOf(t) + i - 1)
ProberIs(status, s, r, waiting) ==
  /\ Prober.status = status /\ Prober.sent = s /\ Prober.grant = GrantAt(r) /\ Prober.waiting = waiting

(* The probe has sent s messages and had the replies to r of them, and the *)
(* actor has handled h.                                                    *)
OnCourse(s, r, h) ==
  /\ s \in 0..31 /\ r \in 0..s /\ h \in r..s
  /\ s = r \/ s = r + 1 \/ (s = 11 /\ r = 9)
  /\ r # 10 /\ (s = 23 => r = 23)
  /\ ProberIs(IF r = s \/ s = 10 THEN "idle" ELSE "waiting", s, r, s - r)
  /\ ScriptIs(s) /\ MailIs(h, s) /\ InboxIs(r, h) /\ HeardIs(r) /\ ActorIs(h)

(* The defect is on its way, and perhaps the message after it,             *)
AtDefect(s) ==
  /\ s \in {23, 24} /\ ProberIs(IF s = 23 THEN "idle" ELSE "waiting", s, 23, s - 23)
  /\ ScriptIs(s) /\ MailIs(22, s) /\ InboxIs(23, 23) /\ HeardIs(23) /\ ActorIs(22)

(* and then it has struck.                                                 *)
Down ==
  /\ ProberIs("idle", 23, 23, 0) /\ ScriptIs(23) /\ MailIs(23, 23) /\ InboxIs(23, 23) /\ HeardIs(23)
  /\ actor.status \in {"failed", "stopped"} /\ actor.incarnation = 1

OthersIdle == \A c \in Gleam!Clients \ {Gleam!Probe} : clients[c].status = "idle"
Probing ==
  /\ exactOne /\ OthersIdle
  /\ (\E s, r, h \in 0..31 : OnCourse(s, r, h)) \/ (\E s \in {23, 24} : AtDefect(s)) \/ Down

(* The probe has crashed, or waits for a message that was lost.            *)
Lost ==
  \/ Prober.status = "crashed"
  \/ /\ Prober.status = "waiting" /\ Len(Prober.inbox) < Prober.waiting /\ mailbox = <<>>
     /\ script # <<>> \/ Prober.sent > 0

(* There is no probe, only callers of the first kind of trace.             *)
OfFirstTrace(q) == \A i \in DOMAIN q : q[i].trace = "valid"
Unprobed ==
  /\ script = <<>> /\ heard["replacement"] = <<>> /\ OfFirstTrace(mailbox)
  /\ \A c \in Gleam!Clients : OfFirstTrace(clients[c].inbox)

HeardTyped == heard \in [Gleam!Traces -> Seq(Replies)]

(* The inductive invariant.                                                *)
GInv == EInv /\ HeardTyped /\ (Probing \/ Lost \/ Unprobed)
-----------------------------------------------------------------------------
(* The script, step by step. *)
LEMMA TheSteps ==
  /\ \A k \in Issues : StepAt(k) = Gleam!Issue
  /\ \A k \in {2, 4} : StepAt(k) = Gleam!Uses("valid")
  /\ \A k \in {5, 7} : StepAt(k) = Gleam!Uses("reuse")
  /\ \A k \in {9, 12} : StepAt(k) = Gleam!Uses("competing")
  /\ \A k \in {14, 16} : StepAt(k) = Gleam!Uses("wrongDestination")
  /\ \A k \in {18, 20} : StepAt(k) = Gleam!Uses("disabled")
  /\ StepAt(22) = Gleam!Uses("defect")
  /\ \A k \in {24, 26} : StepAt(k) = Gleam!Uses("stale")
  /\ \A k \in {28, 30} : StepAt(k) = Gleam!Uses("replacement")
  /\ StepAt(3) = Gleam!Withdraw("valid", Gleam!Here, 4)
  /\ StepAt(6) = Gleam!Withdraw("reuse", Gleam!Here, 1)
  /\ StepAt(10) = Gleam!Step("first", "competing", Gleam!Here, 2)
  /\ StepAt(11) = Gleam!Withdraw("competing", Gleam!Here, 2)
  /\ StepAt(15) = Gleam!Withdraw("wrongDestination", Gleam!There, 1)
  /\ StepAt(19) = Gleam!Withdraw("disabled", Gleam!Here, 9)
  /\ StepAt(23) = Gleam!Step("defect", "defect", Gleam!Here, 1)
  /\ StepAt(25) = Gleam!Withdraw("stale", Gleam!Here, 1)
  /\ StepAt(29) = Gleam!Withdraw("replacement", Gleam!Here, 3)
  /\ StepAt(31) = Gleam!Step("stop", "valid", Gleam!Here, 0)
  <1> USE DEF StepAt, OpAt, TraceAt, DestinationAt, AmountAt, Issues, Withdrawals
  <1>1. \A k \in Issues : StepAt(k) = Gleam!Issue
    BY DEF Gleam!Issue
  <1>2. /\ \A k \in {2, 4} : StepAt(k) = Gleam!Uses("valid")
        /\ \A k \in {5, 7} : StepAt(k) = Gleam!Uses("reuse")
        /\ \A k \in {9, 12} : StepAt(k) = Gleam!Uses("competing")
    BY DEF Gleam!Uses
  <1>3. /\ \A k \in {14, 16} : StepAt(k) = Gleam!Uses("wrongDestination")
        /\ \A k \in {18, 20} : StepAt(k) = Gleam!Uses("disabled")
        /\ StepAt(22) = Gleam!Uses("defect")
    BY DEF Gleam!Uses
  <1>4. /\ \A k \in {24, 26} : StepAt(k) = Gleam!Uses("stale")
        /\ \A k \in {28, 30} : StepAt(k) = Gleam!Uses("replacement")
    BY DEF Gleam!Uses
  <1>5. /\ StepAt(3) = Gleam!Withdraw("valid", Gleam!Here, 4)
        /\ StepAt(6) = Gleam!Withdraw("reuse", Gleam!Here, 1)
        /\ StepAt(11) = Gleam!Withdraw("competing", Gleam!Here, 2)
        /\ StepAt(15) = Gleam!Withdraw("wrongDestination", Gleam!There, 1)
    BY DEF Gleam!Withdraw
  <1>6. /\ StepAt(19) = Gleam!Withdraw("disabled", Gleam!Here, 9)
        /\ StepAt(25) = Gleam!Withdraw("stale", Gleam!Here, 1)
        /\ StepAt(29) = Gleam!Withdraw("replacement", Gleam!Here, 3)
    BY DEF Gleam!Withdraw
  <1>7. /\ StepAt(10) = Gleam!Step("first", "competing", Gleam!Here, 2)
        /\ StepAt(23) = Gleam!Step("defect", "defect", Gleam!Here, 1)
        /\ StepAt(31) = Gleam!Step("stop", "valid", Gleam!Here, 0)
    OBVIOUS
  <1> QED BY <1>1, <1>2, <1>3, <1>4, <1>5, <1>6, <1>7

(* A part of the script that follows n steps and is m steps long.          *)
Follows(q, n, m) ==
  q \in Seq(Steps) /\ Len(q) = m /\ \A i \in 1..m : q[i] = StepAt(n + i)

(* Two parts, one after the other. *)
LEMMA Joined ==
  ASSUME NEW p, NEW q, NEW n \in Nat, NEW m \in Nat, Follows(p, 0, n), Follows(q, n, m)
  PROVE  Follows(p \o q, 0, n + m)
  <1>1. p \in Seq(Steps) /\ q \in Seq(Steps) /\ Len(p) = n /\ Len(q) = m
    BY DEF Follows
  <1>2. p \o q \in Seq(Steps) /\ Len(p \o q) = n + m
    BY <1>1
  <1>3. ASSUME NEW i \in 1..(n + m) PROVE (p \o q)[i] = StepAt(i)
    <2>1. CASE i \in 1..n
      <3>1. (p \o q)[i] = p[i] /\ 0 + i = i
        BY <1>1, <2>1
      <3>2. p[i] = StepAt(0 + i)
        BY <2>1 DEF Follows
      <3> QED BY <3>1, <3>2
    <2>2. CASE i \notin 1..n
      <3>1. i - n \in 1..m /\ n + (i - n) = i
        BY <1>3, <2>2
      <3>2. (p \o q)[i] = q[i - n]
        BY <1>1, <1>3, <2>2
      <3>3. q[i - n] = StepAt(n + (i - n))
        BY <3>1 DEF Follows
      <3> QED BY <3>1, <3>2, <3>3
    <2> QED BY <2>1, <2>2
  <1>4. \A i \in 1..(n + m) : 0 + i = i
    OBVIOUS
  <1> QED BY <1>2, <1>3, <1>4 DEF Follows

(* One step. *)
LEMMA OneStep ==
  ASSUME NEW n \in Nat, NEW s \in Steps, s = StepAt(n + 1)
  PROVE  Follows(<<s>>, n, 1)
  <1>1. <<s>> \in Seq(Steps) /\ Len(<<s>>) = 1 /\ \A i \in 1..1 : <<s>>[i] = s /\ i = 1
    OBVIOUS
  <1> QED BY <1>1 DEF Follows

(* One step at the end. *)
LEMMA Closing ==
  ASSUME NEW p \in Seq(Steps), NEW u \in Steps
  PROVE  /\ p \o <<u>> \in Seq(Steps) /\ Len(p \o <<u>>) = Len(p) + 1
         /\ (p \o <<u>>)[Len(p) + 1] = u /\ \A i \in 1..Len(p) : (p \o <<u>>)[i] = p[i]
  <1>1. <<u>> \in Seq(Steps) /\ Len(<<u>>) = 1 /\ <<u>>[1] = u
    OBVIOUS
  <1> QED BY <1>1

(* The steps of a trace with a withdrawal, or two, between two questions.  *)
LEMMA ThreeSteps ==
  ASSUME NEW n \in Nat, NEW t \in Gleam!Traces, NEW s \in Steps,
         s = StepAt(n + 2), StepAt(n + 1) = Gleam!Uses(t), StepAt(n + 3) = Gleam!Uses(t)
  PROVE  Follows(Gleam!Between(t, <<s>>), n, 3)
  <1>1. PICK u \in Steps : u = Gleam!Uses(t)
    BY StepTyped DEF Gleam!Uses, Ops
  <1>2. PICK p : p = <<u>> \o <<s>>
    OBVIOUS
  <1>3. p \in Seq(Steps) /\ Len(p) = 2 /\ p[1] = u /\ p[2] = s
    BY <1>2
  <1>4. PICK q : q = p \o <<u>>
    OBVIOUS
  <1>5. q \in Seq(Steps) /\ Len(q) = 3 /\ q[1] = u /\ q[2] = s /\ q[3] = u
    <2>1. /\ q \in Seq(Steps) /\ Len(q) = Len(p) + 1 /\ q[Len(p) + 1] = u
          /\ \A i \in 1..Len(p) : q[i] = p[i]
      BY <1>1, <1>3, <1>4, Closing
    <2>2. Len(p) = 2 /\ Len(p) + 1 = 3
      BY <1>3
    <2> QED BY <1>3, <2>1, <2>2
  <1>6. \A i \in 1..3 : i = 1 \/ i = 2 \/ i = 3
    OBVIOUS
  <1>7. q = Gleam!Between(t, <<s>>)
    BY <1>1, <1>2, <1>4 DEF Gleam!Between
  <1> QED BY <1>1, <1>5, <1>6, <1>7 DEF Follows

(* The same with two steps. *)
LEMMA FourSteps ==
  ASSUME NEW n \in Nat, NEW t \in Gleam!Traces, NEW s1 \in Steps, NEW s2 \in Steps,
         s1 = StepAt(n + 2), s2 = StepAt(n + 3),
         StepAt(n + 1) = Gleam!Uses(t), StepAt(n + 4) = Gleam!Uses(t)
  PROVE  Follows(Gleam!Between(t, <<s1, s2>>), n, 4)
  <1>1. PICK u \in Steps : u = Gleam!Uses(t)
    BY StepTyped DEF Gleam!Uses, Ops
  <1>2. PICK p : p = <<u>> \o <<s1, s2>>
    OBVIOUS
  <1>3. p \in Seq(Steps) /\ Len(p) = 3 /\ p[1] = u /\ p[2] = s1 /\ p[3] = s2
    <2>1. <<s1, s2>> \in Seq(Steps) /\ Len(<<s1, s2>>) = 2 /\ <<s1, s2>>[1] = s1 /\ <<s1, s2>>[2] = s2
      OBVIOUS
    <2> QED BY <1>2, <2>1
  <1>4. PICK q : q = p \o <<u>>
    OBVIOUS
  <1>5. q \in Seq(Steps) /\ Len(q) = 4 /\ q[1] = u /\ q[2] = s1 /\ q[3] = s2 /\ q[4] = u
    <2>1. /\ q \in Seq(Steps) /\ Len(q) = Len(p) + 1 /\ q[Len(p) + 1] = u
          /\ \A i \in 1..Len(p) : q[i] = p[i]
      BY <1>1, <1>3, <1>4, Closing
    <2>2. Len(p) = 3 /\ Len(p) + 1 = 4
      BY <1>3
    <2> QED BY <1>3, <2>1, <2>2
  <1>6. \A i \in 1..4 : i = 1 \/ i = 2 \/ i = 3 \/ i = 4
    OBVIOUS
  <1>7. q = Gleam!Between(t, <<s1, s2>>)
    BY <1>1, <1>2, <1>4 DEF Gleam!Between
  <1> QED BY <1>1, <1>5, <1>6, <1>7 DEF Follows

(* The whole script is the table's. *)
LEMMA TheScript == Follows(Gleam!ProbeScript, 0, 31)
  <1> DEFINE W(t, d, a) == Gleam!Between(t, <<Gleam!Withdraw(t, d, a)>>)
             race == Gleam!Between("competing", <<Gleam!Step("first", "competing", Gleam!Here, 2),
                                                  Gleam!Withdraw("competing", Gleam!Here, 2)>>)
             fault == <<Gleam!Issue, Gleam!Uses("defect"), Gleam!Step("defect", "defect", Gleam!Here, 1)>>
             stop == <<Gleam!Step("stop", "valid", Gleam!Here, 0)>>
  <1>1. /\ \A t \in Gleam!Traces, d \in {Gleam!Here, Gleam!There}, a \in Int : Gleam!Withdraw(t, d, a) \in Steps
        /\ \A t \in Gleam!Traces : Gleam!Uses(t) \in Steps
        /\ Gleam!Issue \in Steps
        /\ Gleam!Step("first", "competing", Gleam!Here, 2) \in Steps
        /\ Gleam!Step("defect", "defect", Gleam!Here, 1) \in Steps
        /\ Gleam!Step("stop", "valid", Gleam!Here, 0) \in Steps
    BY StepTyped DEF Gleam!Withdraw, Gleam!Uses, Gleam!Issue, Ops, Gleam!Traces
  <1>2. {"valid", "reuse", "competing", "wrongDestination", "disabled", "defect", "stale",
         "replacement"} \subseteq Gleam!Traces
    BY DEF Gleam!Traces
  <1>3. \A n \in {0, 7, 12, 16, 26} : Follows(<<Gleam!Issue>>, n, 1)
    <2> TAKE n \in {0, 7, 12, 16, 26}
    <2>1. n \in Nat /\ Gleam!Issue = StepAt(n + 1)
      BY TheSteps DEF Issues
    <2> QED BY <1>1, <2>1, OneStep
  <1>4. Follows(W("valid", Gleam!Here, 4), 1, 3)
    BY <1>1, <1>2, TheSteps, ThreeSteps
  <1>5. Follows(W("reuse", Gleam!Here, 1), 4, 3)
    BY <1>1, <1>2, TheSteps, ThreeSteps
  <1>6. Follows(race, 8, 4)
    BY <1>1, <1>2, TheSteps, FourSteps
  <1>7. Follows(W("wrongDestination", Gleam!There, 1), 13, 3)
    BY <1>1, <1>2, TheSteps, ThreeSteps
  <1>8. Follows(W("disabled", Gleam!Here, 9), 17, 3)
    BY <1>1, <1>2, TheSteps, ThreeSteps
  <1>9. Follows(fault, 20, 3)
    <2>1. /\ fault \in Seq(Steps) /\ Len(fault) = 3 /\ fault[1] = Gleam!Issue
          /\ fault[2] = Gleam!Uses("defect") /\ fault[3] = Gleam!Step("defect", "defect", Gleam!Here, 1)
      BY <1>1, <1>2
    <2>2. \A i \in 1..3 : i = 1 \/ i = 2 \/ i = 3
      OBVIOUS
    <2>3. StepAt(20 + 1) = Gleam!Issue /\ StepAt(20 + 2) = Gleam!Uses("defect")
          /\ StepAt(20 + 3) = Gleam!Step("defect", "defect", Gleam!Here, 1)
      BY TheSteps DEF Issues
    <2> HIDE DEF fault
    <2> QED BY <2>1, <2>2, <2>3 DEF Follows
  <1>10. Follows(W("stale", Gleam!Here, 1), 23, 3)
    BY <1>1, <1>2, TheSteps, ThreeSteps
  <1>11. Follows(W("replacement", Gleam!Here, 3), 27, 3)
    BY <1>1, <1>2, TheSteps, ThreeSteps
  <1>12. Follows(stop, 30, 1)
    BY <1>1, TheSteps, OneStep
  <1> DEFINE issue == <<Gleam!Issue>>
  <1> HIDE DEF W, race, fault, stop, issue
  <1>13. Follows(issue, 0, 1) /\ Follows(issue, 7, 1) /\ Follows(issue, 12, 1) /\ Follows(issue, 16, 1)
         /\ Follows(issue, 26, 1)
    BY <1>3 DEF issue
  <1>14. PICK w1 : w1 = issue /\ \A n \in {0, 7, 12, 16, 26} : Follows(w1, n, 1)
    BY <1>13
  <1>15. PICK w2 : w2 = W("valid", Gleam!Here, 4) /\ Follows(w2, 1, 3)
    BY <1>4
  <1>16. PICK w3 : w3 = W("reuse", Gleam!Here, 1) /\ Follows(w3, 4, 3)
    BY <1>5
  <1>17. PICK w4 : w4 = race /\ Follows(w4, 8, 4)
    BY <1>6
  <1>18. PICK w5 : w5 = W("wrongDestination", Gleam!There, 1) /\ Follows(w5, 13, 3)
    BY <1>7
  <1>19. PICK w6 : w6 = W("disabled", Gleam!Here, 9) /\ Follows(w6, 17, 3)
    BY <1>8
  <1>20. PICK w7 : w7 = fault /\ Follows(w7, 20, 3)
    BY <1>9
  <1>21. PICK w8 : w8 = W("stale", Gleam!Here, 1) /\ Follows(w8, 23, 3)
    BY <1>10
  <1>22. PICK w9 : w9 = W("replacement", Gleam!Here, 3) /\ Follows(w9, 27, 3)
    BY <1>11
  <1>23. PICK w10 : w10 = stop /\ Follows(w10, 30, 1)
    BY <1>12
  <1>24. PICK p1 : p1 = w1 \o w2 /\ Follows(p1, 0, 4)
    <2>1. Follows(w1, 0, 1) /\ Follows(w2, 1, 3)
      BY <1>14, <1>15
    <2>2. Follows(w1 \o w2, 0, 1 + 3) /\ 1 + 3 = 4
      BY <2>1, Joined
    <2>3. Follows(w1 \o w2, 0, 4)
      BY <2>2
    <2> QED BY <2>3
  <1>25. PICK p2 : p2 = p1 \o w3 /\ Follows(p2, 0, 7)
    <2>1. Follows(p1, 0, 4) /\ Follows(w3, 4, 3)
      BY <1>24, <1>16
    <2>2. Follows(p1 \o w3, 0, 4 + 3) /\ 4 + 3 = 7
      BY <2>1, Joined
    <2>3. Follows(p1 \o w3, 0, 7)
      BY <2>2
    <2> QED BY <2>3
  <1>26. PICK p3 : p3 = p2 \o w1 /\ Follows(p3, 0, 8)
    <2>1. Follows(p2, 0, 7) /\ Follows(w1, 7, 1)
      BY <1>25, <1>14
    <2>2. Follows(p2 \o w1, 0, 7 + 1) /\ 7 + 1 = 8
      BY <2>1, Joined
    <2>3. Follows(p2 \o w1, 0, 8)
      BY <2>2
    <2> QED BY <2>3
  <1>27. PICK p4 : p4 = p3 \o w4 /\ Follows(p4, 0, 12)
    <2>1. Follows(p3, 0, 8) /\ Follows(w4, 8, 4)
      BY <1>26, <1>17
    <2>2. Follows(p3 \o w4, 0, 8 + 4) /\ 8 + 4 = 12
      BY <2>1, Joined
    <2>3. Follows(p3 \o w4, 0, 12)
      BY <2>2
    <2> QED BY <2>3
  <1>28. PICK p5 : p5 = p4 \o w1 /\ Follows(p5, 0, 13)
    <2>1. Follows(p4, 0, 12) /\ Follows(w1, 12, 1)
      BY <1>27, <1>14
    <2>2. Follows(p4 \o w1, 0, 12 + 1) /\ 12 + 1 = 13
      BY <2>1, Joined
    <2>3. Follows(p4 \o w1, 0, 13)
      BY <2>2
    <2> QED BY <2>3
  <1>29. PICK p6 : p6 = p5 \o w5 /\ Follows(p6, 0, 16)
    <2>1. Follows(p5, 0, 13) /\ Follows(w5, 13, 3)
      BY <1>28, <1>18
    <2>2. Follows(p5 \o w5, 0, 13 + 3) /\ 13 + 3 = 16
      BY <2>1, Joined
    <2>3. Follows(p5 \o w5, 0, 16)
      BY <2>2
    <2> QED BY <2>3
  <1>30. PICK p7 : p7 = p6 \o w1 /\ Follows(p7, 0, 17)
    <2>1. Follows(p6, 0, 16) /\ Follows(w1, 16, 1)
      BY <1>29, <1>14
    <2>2. Follows(p6 \o w1, 0, 16 + 1) /\ 16 + 1 = 17
      BY <2>1, Joined
    <2>3. Follows(p6 \o w1, 0, 17)
      BY <2>2
    <2> QED BY <2>3
  <1>31. PICK p8 : p8 = p7 \o w6 /\ Follows(p8, 0, 20)
    <2>1. Follows(p7, 0, 17) /\ Follows(w6, 17, 3)
      BY <1>30, <1>19
    <2>2. Follows(p7 \o w6, 0, 17 + 3) /\ 17 + 3 = 20
      BY <2>1, Joined
    <2>3. Follows(p7 \o w6, 0, 20)
      BY <2>2
    <2> QED BY <2>3
  <1>32. PICK p9 : p9 = p8 \o w7 /\ Follows(p9, 0, 23)
    <2>1. Follows(p8, 0, 20) /\ Follows(w7, 20, 3)
      BY <1>31, <1>20
    <2>2. Follows(p8 \o w7, 0, 20 + 3) /\ 20 + 3 = 23
      BY <2>1, Joined
    <2>3. Follows(p8 \o w7, 0, 23)
      BY <2>2
    <2> QED BY <2>3
  <1>33. PICK p10 : p10 = p9 \o w8 /\ Follows(p10, 0, 26)
    <2>1. Follows(p9, 0, 23) /\ Follows(w8, 23, 3)
      BY <1>32, <1>21
    <2>2. Follows(p9 \o w8, 0, 23 + 3) /\ 23 + 3 = 26
      BY <2>1, Joined
    <2>3. Follows(p9 \o w8, 0, 26)
      BY <2>2
    <2> QED BY <2>3
  <1>34. PICK p11 : p11 = p10 \o w1 /\ Follows(p11, 0, 27)
    <2>1. Follows(p10, 0, 26) /\ Follows(w1, 26, 1)
      BY <1>33, <1>14
    <2>2. Follows(p10 \o w1, 0, 26 + 1) /\ 26 + 1 = 27
      BY <2>1, Joined
    <2>3. Follows(p10 \o w1, 0, 27)
      BY <2>2
    <2> QED BY <2>3
  <1>35. PICK p12 : p12 = p11 \o w9 /\ Follows(p12, 0, 30)
    <2>1. Follows(p11, 0, 27) /\ Follows(w9, 27, 3)
      BY <1>34, <1>22
    <2>2. Follows(p11 \o w9, 0, 27 + 3) /\ 27 + 3 = 30
      BY <2>1, Joined
    <2>3. Follows(p11 \o w9, 0, 30)
      BY <2>2
    <2> QED BY <2>3
  <1>36. PICK p13 : p13 = p12 \o w10 /\ Follows(p13, 0, 31)
    <2>1. Follows(p12, 0, 30) /\ Follows(w10, 30, 1)
      BY <1>35, <1>23
    <2>2. Follows(p12 \o w10, 0, 30 + 1) /\ 30 + 1 = 31
      BY <2>1, Joined
    <2>3. Follows(p12 \o w10, 0, 31)
      BY <2>2
    <2> QED BY <2>3
  <1>37. p13 = Gleam!ProbeScript
    BY <1>14, <1>15, <1>16, <1>17, <1>18, <1>19, <1>20, <1>21, <1>22, <1>23, <1>24, <1>25, <1>26, <1>27, <1>28, <1>29, <1>30, <1>31, <1>32, <1>33, <1>34, <1>35, <1>36
      DEF Gleam!ProbeScript, W, race, fault, stop, issue
  <1> QED BY <1>36, <1>37
-----------------------------------------------------------------------------
(* One client changes, and the others stay. *)
LEMMA OnlyOne ==
  ASSUME EInv, NEW c \in Gleam!Clients, NEW k, clients' = [clients EXCEPT ![c] = k]
  PROVE  clients'[c] = k /\ \A d \in Gleam!Clients \ {c} : clients'[d] = clients[d]
  BY DEF EInv, ClientsAreSound

(* The probe is a client. *)
LEMMA ProberTyped ==
  ASSUME EInv
  PROVE  /\ Gleam!Probe \in Gleam!Clients /\ Prober \in ClientStates /\ Prober.inbox \in Seq(Replies)
         /\ Prober.waiting \in Nat /\ Prober.sent \in Nat
         /\ mailbox \in Seq(Messages) /\ script \in Seq(Steps) /\ actor \in Actors
  BY DEF EInv, ClientsAreSound, Gleam!Clients, Prober, ClientStates, MailIsSound, ActorTyped

(* The probe holds the grant it was issued last. *)
LEMMA GrantStays ==
  /\ \A k \in 1..31 : k \notin Issues => GrantAt(k) = GrantAt(k - 1)
  /\ \A k \in 0..31 : GrantAt(k) \in Grants
  BY DEF Issues, GrantAt, GrantOf, Grants

(* What the probe sends is the message of the step. *)
LEMMA TheMessage ==
  ASSUME NEW k \in 1..31, NEW g, g = GrantAt(k - 1), NEW m, m = Gleam!Message(Gleam!Probe, StepAt(k), g)
  PROVE  /\ MessageIs(m, k)
         /\ m.leaves = (IF k \in {10, 23} THEN "idle" ELSE "waiting")
         /\ m.op = "defect" <=> k = 23
  <1>1. PICK st : st = StepAt(k)
    OBVIOUS
  <1>2. /\ st.op = OpAt(k) /\ st.trace = TraceAt(k) /\ st.destination = DestinationAt(k)
        /\ st.amount = AmountAt(k) /\ st.leaves = (IF OpAt(k) \in {"defect", "first"} THEN "idle" ELSE "waiting")
    BY <1>1 DEF StepAt, Gleam!Step
  <1>3. /\ m.from = Gleam!Probe /\ m.op = (IF st.op = "first" THEN "withdraw" ELSE st.op)
        /\ m.trace = st.trace /\ m.destination = st.destination /\ m.amount = st.amount
        /\ m.leaves = st.leaves /\ m.grant = g
    BY <1>1 DEF Gleam!Message
  <1>4. (OpAt(k) = "first" <=> k = 10) /\ (OpAt(k) = "defect" <=> k = 23)
    BY DEF OpAt, Issues, Withdrawals
  <1>5. m.op = (IF k = 10 THEN "withdraw" ELSE OpAt(k))
    BY <1>2, <1>3, <1>4
  <1>6. m.op = "defect" <=> k = 23
    BY <1>4, <1>5
  <1>7. m.leaves = (IF k \in {10, 23} THEN "idle" ELSE "waiting")
    BY <1>2, <1>3, <1>4
  <1> QED BY <1>2, <1>3, <1>5, <1>6, <1>7 DEF MessageIs

(* A message more in the mailbox,                                          *)
LEMMA MailGrows ==
  ASSUME NEW h \in 0..31, NEW s \in h..30, MailIs(h, s), mailbox \in Seq(Messages), NEW m \in Messages,
         NEW n, n = s + 1, MessageIs(m, n), mailbox' = Append(mailbox, m)
  PROVE  MailIs(h, n)'
  <1>1. Len(mailbox) = s - h /\ \A i \in 1..(s - h) : MessageIs(mailbox[i], h + i)
    BY DEF MailIs
  <1>2. Len(mailbox') = n - h
    BY <1>1
  <1>3. ASSUME NEW i \in 1..(n - h) PROVE MessageIs(mailbox'[i], h + i)
    <2>1. CASE i \in 1..(s - h)
      <3>1. mailbox'[i] = mailbox[i]
        BY <1>1, <2>1
      <3> QED BY <1>1, <2>1, <3>1
    <2>2. CASE i \notin 1..(s - h)
      <3>1. i = (s - h) + 1 /\ h + i = n
        BY <1>3, <2>2
      <3>2. mailbox'[i] = m
        BY <1>1, <3>1
      <3> QED BY <3>1, <3>2
    <2> QED BY <2>1, <2>2
  <1> QED BY <1>2, <1>3 DEF MailIs

(* or one less.                                                            *)
LEMMA MailShrinks ==
  ASSUME NEW h \in 0..30, NEW s \in (h + 1)..31, MailIs(h, s), mailbox \in Seq(Messages), NEW n, n = h + 1
  PROVE  /\ mailbox # <<>> /\ Head(mailbox) \in Messages /\ MessageIs(Head(mailbox), n)
         /\ mailbox' = Tail(mailbox) => MailIs(n, s)'
  <1>1. Len(mailbox) = s - h /\ \A i \in 1..(s - h) : MessageIs(mailbox[i], h + i)
    BY DEF MailIs
  <1>2. mailbox # <<>> /\ Head(mailbox) = mailbox[1] /\ mailbox[1] \in Messages /\ 1 \in 1..(s - h) /\ h + 1 = n
    BY <1>1
  <1>3. ASSUME mailbox' = Tail(mailbox) PROVE MailIs(n, s)'
    <2>1. Len(mailbox') = s - n
      BY <1>1, <1>3
    <2>2. ASSUME NEW i \in 1..(s - n) PROVE MessageIs(mailbox'[i], n + i)
      <3>1. mailbox'[i] = mailbox[i + 1] /\ i + 1 \in 1..(s - h) /\ h + (i + 1) = n + i
        BY <1>1, <1>3
      <3>2. MessageIs(mailbox[i + 1], h + (i + 1))
        BY <1>1, <3>1
      <3> QED BY <3>1, <3>2
    <2> QED BY <2>1, <2>2 DEF MailIs
  <1> QED BY <1>1, <1>2, <1>3

(* The script, a step on. *)
LEMMA ScriptShrinks ==
  ASSUME NEW s \in 0..31, ScriptIs(s), script \in Seq(Steps), script # <<>>, NEW n, n = s + 1
  PROVE  /\ s \in 0..30 /\ Head(script) = StepAt(n)
         /\ script' = Tail(script) => ScriptIs(n)'
  <1>1. Len(script) = 31 - s /\ \A i \in 1..(31 - s) : script[i] = StepAt(s + i)
    BY DEF ScriptIs
  <1>2. s \in 0..30 /\ Head(script) = script[1] /\ 1 \in 1..(31 - s) /\ s + 1 = n
    BY <1>1
  <1>3. ASSUME script' = Tail(script) PROVE ScriptIs(n)'
    <2>1. Len(script') = 31 - n
      BY <1>1, <1>3
    <2>2. ASSUME NEW i \in 1..(31 - n) PROVE script'[i] = StepAt(n + i)
      <3>1. script'[i] = script[i + 1] /\ i + 1 \in 1..(31 - s) /\ s + (i + 1) = n + i
        BY <1>1, <1>3
      <3>2. script[i + 1] = StepAt(s + (i + 1))
        BY <1>1, <3>1
      <3> QED BY <3>1, <3>2
    <2> QED BY <2>1, <2>2 DEF ScriptIs
  <1> QED BY <1>1, <1>2, <1>3
-----------------------------------------------------------------------------
(* When the probe alone changes, the others go on as they were. *)
LEMMA OthersStay ==
  ASSUME EInv, OthersIdle, NEW k, clients' = [clients EXCEPT ![Gleam!Probe] = k]
  PROVE  OthersIdle' /\ Prober' = k
  <1>1. clients'[Gleam!Probe] = k /\ \A d \in Gleam!Clients \ {Gleam!Probe} : clients'[d] = clients[d]
    BY ProberTyped, OnlyOne
  <1> QED BY <1>1 DEF OthersIdle, Prober

(* The probe sends: its script is a step shorter, and it waits or goes on. *)
LEMMA SendingOn ==
  ASSUME EInv, OthersIdle, Gleam!ProbeSends, NEW s \in 0..31, NEW h \in 0..s, NEW r \in 0..31,
         NEW n, n = s + 1, ScriptIs(s), MailIs(h, s), Prober.grant = GrantAt(s), actor.status = "running"
  PROVE  /\ s \in 0..30 /\ ScriptIs(n)' /\ MailIs(h, n)' /\ OthersIdle'
         /\ Prober'.status = (IF n \in {10, 23} THEN "idle" ELSE "waiting")
         /\ Prober'.sent = Prober.sent + 1 /\ Prober'.grant = Prober.grant
         /\ Prober'.waiting = Prober.waiting + (IF n = 23 THEN 0 ELSE 1)
         /\ Prober'.inbox = Prober.inbox /\ UNCHANGED <<exactOne, actor, heard>>
  <1>1. /\ s \in 0..30 /\ Head(script) = StepAt(n) /\ ScriptIs(n)' /\ n \in 1..31 /\ n - 1 = s
    <2>1. script \in Seq(Steps) /\ script # <<>> /\ script' = Tail(script)
      BY ProberTyped DEF Gleam!ProbeSends
    <2>2. s \in 0..30 /\ Head(script) = StepAt(n) /\ ScriptIs(n)'
      BY <2>1, ScriptShrinks
    <2> QED BY <2>2
  <1>2. PICK m : m = Gleam!Message(Gleam!Probe, StepAt(n), Prober.grant)
    OBVIOUS
  <1>3. MessageIs(m, n) /\ m.leaves = (IF n \in {10, 23} THEN "idle" ELSE "waiting")
        /\ (m.op = "defect" <=> n = 23)
    BY <1>1, <1>2, TheMessage
  <1>4. m \in Messages
    <2>1. Head(script) \in Steps
      BY <1>1, ProberTyped DEF Gleam!ProbeSends
    <2>2. Prober.grant \in Grants
      BY ProberTyped DEF ClientStates
    <2> QED BY <1>1, <1>2, <2>1, <2>2, MessageTyped, ProberTyped
  <1>5. Gleam!Send(Gleam!Probe, m) /\ UNCHANGED <<exactOne, actor, heard>>
    BY <1>1, <1>2 DEF Gleam!ProbeSends, Prober
  <1>6. mailbox' = Append(mailbox, m) /\ clients' = [clients EXCEPT ![Gleam!Probe] = Gleam!Asked(Prober, m)]
    BY <1>5 DEF Gleam!Send, Prober
  <1>7. MailIs(h, n)'
    <2>1. s \in h..30 /\ h \in 0..31 /\ mailbox \in Seq(Messages)
      BY <1>1, ProberTyped
    <2> QED BY <1>3, <1>4, <1>6, <2>1, MailGrows
  <1>8. OthersIdle' /\ Prober' = Gleam!Asked(Prober, m)
    BY <1>6, OthersStay
  <1>9. PICK k : k = Gleam!Asked(Prober, m)
    OBVIOUS
  <1>10. /\ k.status = m.leaves /\ k.inbox = Prober.inbox /\ k.grant = Prober.grant
         /\ k.waiting = Prober.waiting + (IF m.op = "defect" THEN 0 ELSE 1) /\ k.sent = Prober.sent + 1
    BY <1>9 DEF Gleam!Asked
  <1> QED BY <1>1, <1>3, <1>5, <1>7, <1>8, <1>9, <1>10

(* What was heard, and what the actor is, stay while heard and actor do.   *)
LEMMA HeardStays ==
  ASSUME NEW r \in 0..31, HeardIs(r), UNCHANGED heard
  PROVE  HeardIs(r)'
  BY DEF HeardIs

(* The entity is where the table has it while the actor stays. *)
LEMMA ActorStays ==
  ASSUME NEW h \in 0..31, ActorIs(h), UNCHANGED actor
  PROVE  ActorIs(h)'
  BY DEF ActorIs

(* The prober's unread answers are those of the table while its inbox      *)
(* stays.                                                                  *)
LEMMA InboxStays ==
  ASSUME NEW h \in 0..31, NEW r \in 0..h, InboxIs(r, h), Prober'.inbox = Prober.inbox
  PROVE  InboxIs(r, h)'
  BY DEF InboxIs

(* The prober hears nothing of the defect: it waits for no answer to it. *)
LEMMA HeardDefect ==
  ASSUME HeardIs(22)
  PROVE  HeardIs(23)
  <1>1. \A t \in Gleam!Traces : HeardOf(t, 23) = HeardOf(t, 22)
    BY DEF Gleam!Traces, HeardOf, FirstOf, LastOf
  <1> QED BY <1>1 DEF HeardIs

(* From any point of the script but the defect's two, what the prober      *)
(* sends is its next step.                                                 *)
LEMMA ProbeSendsOnCourse ==
  ASSUME EInv, exactOne, OthersIdle, Gleam!ProbeSends,
         NEW s \in 0..31, NEW r \in 0..31, NEW h \in 0..31, OnCourse(s, r, h)
  PROVE  Probing'
  <1>1. /\ r \in 0..s /\ h \in r..s /\ r # 10 /\ (s = 23 => r = 23)
        /\ s = r \/ s = r + 1 \/ (s = 11 /\ r = 9)
        /\ ProberIs(IF r = s \/ s = 10 THEN "idle" ELSE "waiting", s, r, s - r)
        /\ ScriptIs(s) /\ MailIs(h, s) /\ InboxIs(r, h) /\ HeardIs(r) /\ ActorIs(h)
    BY DEF OnCourse
  <1>2. Prober.status = "idle"
    BY DEF Gleam!ProbeSends, Prober
  <1>3. r = s \/ (s = 10 /\ r = 9)
    BY <1>1, <1>2 DEF ProberIs
  <1>4. Prober.grant = GrantAt(s) /\ GrantAt(s) = GrantAt(r) /\ Prober.sent = s /\ Prober.waiting = s - r
    BY <1>1, <1>3 DEF ProberIs, GrantAt
  <1>5. s \in 0..30
    BY <1>1, ScriptShrinks, ProberTyped DEF Gleam!ProbeSends
  <1>6. actor.status = "running"
    BY <1>1, <1>5 DEF ActorIs, StatusAt
  <1> PICK n : n = s + 1
    OBVIOUS
  <1>7. /\ ScriptIs(n)' /\ MailIs(h, n)' /\ OthersIdle'
        /\ Prober'.status = (IF n \in {10, 23} THEN "idle" ELSE "waiting")
        /\ Prober'.sent = Prober.sent + 1 /\ Prober'.grant = Prober.grant
        /\ Prober'.waiting = Prober.waiting + (IF n = 23 THEN 0 ELSE 1)
        /\ Prober'.inbox = Prober.inbox /\ UNCHANGED <<exactOne, actor, heard>>
    <2>1. h \in 0..s
      BY <1>1
    <2> QED BY <1>1, <1>4, <1>6, <2>1, SendingOn
  <1>8. HeardIs(r)' /\ InboxIs(r, h)' /\ ActorIs(h)'
    BY <1>1, <1>7, HeardStays, InboxStays, ActorStays
  <1>9. CASE s # 22
    <2>2. /\ r \in 0..n /\ h \in r..n /\ n \in 0..31 /\ n # 23 /\ r # n
          /\ n = r \/ n = r + 1 \/ (n = 11 /\ r = 9)
          /\ (s - r) + 1 = n - r /\ n = s + 1
      BY <1>1, <1>3, <1>5, <1>9
    <2>4. /\ Prober'.status = (IF n = 10 THEN "idle" ELSE "waiting") /\ Prober'.sent = n
          /\ Prober'.grant = GrantAt(r) /\ Prober'.waiting = n - r
      BY <1>4, <1>7, <2>2
    <2>1. ProberIs(IF r = n \/ n = 10 THEN "idle" ELSE "waiting", n, r, n - r)'
      BY <2>2, <2>4 DEF ProberIs
    <2>3. OnCourse(n, r, h)'
      BY <1>1, <1>7, <1>8, <2>1, <2>2 DEF OnCourse
    <2> QED BY <1>7, <2>2, <2>3 DEF Probing
  <1>10. CASE s = 22
    <2>1. r = 22 /\ h = 22
      BY <1>1, <1>3, <1>10
    <2>2. ProberIs("idle", 23, 23, 0)'
      BY <1>4, <1>7, <1>10, <2>1 DEF ProberIs, GrantAt
    <2>3. HeardIs(23)'
      BY <1>8, <2>1, HeardDefect, HeardStays, <1>1, <1>7
    <2>4. InboxIs(23, 23)'
      BY <1>1, <1>7, <2>1 DEF InboxIs
    <2>5. ScriptIs(23)' /\ MailIs(22, 23)' /\ ActorIs(22)'
      BY <1>7, <1>8, <1>10, <2>1
    <2>6. AtDefect(23)'
      BY <2>2, <2>3, <2>4, <2>5 DEF AtDefect
    <2> QED BY <1>7, <2>6 DEF Probing
  <1> QED BY <1>9, <1>10
-----------------------------------------------------------------------------
(* The message after the defect may be sent before the defect strikes.     *)
LEMMA ProbeSendsAtDefect ==
  ASSUME EInv, exactOne, OthersIdle, Gleam!ProbeSends, NEW s \in {23, 24}, AtDefect(s)
  PROVE  Probing'
  <1>1. Prober.status = "idle"
    BY DEF Gleam!ProbeSends, Prober
  <1>2. /\ s = 23 /\ Prober.sent = 23 /\ Prober.grant = GrantAt(23) /\ Prober.waiting = 0
        /\ ScriptIs(s) /\ MailIs(22, s) /\ InboxIs(23, 23) /\ HeardIs(23) /\ ActorIs(22)
        /\ Prober.grant = GrantAt(s) /\ s \in 0..31 /\ 22 \in 0..s /\ 23 \in 0..31
    BY <1>1 DEF AtDefect, ProberIs
  <1>3. actor.status = "running"
    BY <1>2 DEF ActorIs, StatusAt
  <1>4. PICK n : n = s + 1
    OBVIOUS
  <1>5. /\ ScriptIs(n)' /\ MailIs(22, n)' /\ OthersIdle'
        /\ Prober'.status = (IF n \in {10, 23} THEN "idle" ELSE "waiting")
        /\ Prober'.sent = Prober.sent + 1 /\ Prober'.grant = Prober.grant
        /\ Prober'.waiting = Prober.waiting + (IF n = 23 THEN 0 ELSE 1)
        /\ Prober'.inbox = Prober.inbox /\ UNCHANGED <<exactOne, actor, heard>>
    <2>1. PICK h : h = 22
      OBVIOUS
    <2>2. h \in 0..s /\ MailIs(h, s)
      BY <1>2, <2>1
    <2>3. ScriptIs(s) /\ Prober.grant = GrantAt(s) /\ s \in 0..31 /\ 23 \in 0..31
      BY <1>2
    <2>4. MailIs(h, n)' => MailIs(22, n)'
      BY <2>1
    <2> QED BY <1>3, <1>4, <2>2, <2>3, <2>4, SendingOn
  <1>6. n = 24 /\ Prober'.status = "waiting" /\ Prober'.sent = 24 /\ Prober'.grant = GrantAt(23)
        /\ Prober'.waiting = 1
    BY <1>2, <1>4, <1>5
  <1>7. ProberIs("waiting", 24, 23, 1)'
    BY <1>6 DEF ProberIs
  <1>8. HeardIs(23)' /\ InboxIs(23, 23)' /\ ActorIs(22)'
    BY <1>2, <1>5, HeardStays, InboxStays, ActorStays
  <1>9. AtDefect(24)'
    BY <1>5, <1>6, <1>7, <1>8 DEF AtDefect
  <1> QED BY <1>5, <1>9 DEF Probing

(* A message to the name of an actor that is down ends the probe. *)
LEMMA ProbeSendsDown ==
  ASSUME EInv, Gleam!ProbeSends, Down
  PROVE  Lost'
  <1>1. actor.status # "running"
    BY DEF Down
  <1>2. PICK k : k = [Prober EXCEPT !.status = "crashed"]
    OBVIOUS
  <1>3. clients' = [clients EXCEPT ![Gleam!Probe] = k]
    BY <1>1, <1>2 DEF Gleam!ProbeSends, Gleam!Send, Prober
  <1>4. k.status = "crashed"
    BY <1>2, ProberTyped DEF ClientStates
  <1> QED BY <1>3, <1>4, OnlyOne, ProberTyped DEF Lost, Prober

(* Whatever the prober sends, the probe is under way still, or lost. *)
LEMMA ProbeSendsKeeps ==
  ASSUME EInv, Gleam!ProbeSends, Probing
  PROVE  Probing' \/ Lost'
  <1>1. exactOne /\ OthersIdle
    BY DEF Probing
  <1>2. CASE \E s, r, h \in 0..31 : OnCourse(s, r, h)
    BY <1>1, <1>2, ProbeSendsOnCourse
  <1>3. CASE \E s \in {23, 24} : AtDefect(s)
    BY <1>1, <1>3, ProbeSendsAtDefect
  <1>4. CASE Down
    BY <1>4, ProbeSendsDown
  <1> QED BY <1>2, <1>3, <1>4 DEF Probing
-----------------------------------------------------------------------------
(* The grant the k-th message is answered with.                            *)
LEMMA GrantIssued ==
  ASSUME NEW k \in Issues, NEW h, h = k - 1
  PROVE  GrantOf(IncarnationAt(h), NextAt(h)) = GrantAt(k)
  BY DEF Issues, IncarnationAt, NextAt, GrantAt, GrantOf

(* What the actor answers to the k-th message, and what it is then.        *)
LEMMA IssueOnCourse ==
  ASSUME NEW k \in Issues, NEW h, h = k - 1, ActorIs(h), actor \in Actors, NEW m \in Messages, MessageIs(m, k),
         Gleam!HandleIssue(m)
  PROVE  /\ ActorIs(k)'
         /\ \E x \in Replies : ReplyIs(x, k) /\ clients' = [clients EXCEPT ![Gleam!Probe].inbox = Append(@, x)]
  <1>1. k \in {1, 8, 13, 17, 21, 27} /\ k \in 1..30 /\ h \in 0..29 /\ k = h + 1
    BY DEF Issues
  <1>2. /\ actor.status = "running" /\ actor.balance = BalanceAt(h) /\ actor.incarnation = IncarnationAt(h)
        /\ actor.nextGrant = NextAt(h) /\ actor.consumed = SpentAt(h) /\ actor.calls = CallsAt(h)
    BY <1>1 DEF ActorIs, StatusAt
  <1>3. PICK g \in Grants : g = [incarnation |-> actor.incarnation, number |-> actor.nextGrant]
    BY DEF Actors, Grants
  <1>4. g = GrantAt(k)
    <2>1. g = GrantOf(IncarnationAt(h), NextAt(h))
      BY <1>2, <1>3 DEF GrantOf
    <2> QED BY <2>1, GrantIssued
  <1> DEFINE mm == [m EXCEPT !.grant = g]
  <1>5. mm \in Messages /\ mm.grant = g /\ mm.trace = m.trace /\ mm.from = m.from
    BY Zenon DEF Messages, Awaited
  <1>6. PICK x \in Replies : x = Gleam!Reply(mm, "Grant", actor, 1)
    BY <1>5, ReplyTyped DEF Tags
  <1>7. /\ x.tag = "Grant" /\ x.trace = m.trace /\ x.state = actor.balance /\ x.remaining = 1
        /\ x.calls = actor.calls /\ x.grant = g
    BY <1>5, <1>6 DEF Gleam!Reply
  <1>8. /\ actor' = [actor EXCEPT !.nextGrant = @ + 1]
        /\ clients' = [clients EXCEPT ![m.from].inbox = Append(@, x)]
    BY <1>3, <1>5, <1>6 DEF Gleam!HandleIssue, Gleam!Answers
  <1> HIDE DEF mm
  <1>9. /\ BalanceAt(k) = BalanceAt(h) /\ IncarnationAt(k) = IncarnationAt(h) /\ NextAt(k) = NextAt(h) + 1
        /\ SpentAt(k) = SpentAt(h) /\ CallsAt(k) = CallsAt(h) /\ StatusAt(k) = "running"
        /\ TagAt(k) = "Grant" /\ LeftAt(k) = 1
    BY <1>1 DEF BalanceAt, IncarnationAt, NextAt, SpentAt, CallsAt, StatusAt, TagAt, LeftAt, Issues
  <1>10. ActorIs(k)'
    BY <1>2, <1>8, <1>9 DEF ActorIs, Actors
  <1>11. ReplyIs(x, k)
    BY <1>2, <1>4, <1>7, <1>9 DEF ReplyIs, MessageIs
  <1> QED BY <1>8, <1>10, <1>11 DEF MessageIs
-----------------------------------------------------------------------------
(* The positions at which the probe asks how many uses are left. *)
Questions == {2, 4, 5, 7, 9, 12, 14, 16, 18, 20, 22, 24, 26, 28, 30}

(* What is left of the grant the probe holds.                              *)
LEMMA LeftOfGrant ==
  ASSUME NEW k \in Questions \cup {15, 19}, NEW h, h = k - 1, ActorIs(h)
  PROVE  Gleam!RemainingFor(GrantAt(h)) = LeftAt(k)
  <1>1. h \in 0..29 /\ k \in 1..30 /\ k = h + 1
    BY DEF Questions
  <1>2. actor.incarnation = IncarnationAt(h) /\ actor.consumed = SpentAt(h)
    BY DEF ActorIs
  <1>3. CASE h < 8
    BY <1>1, <1>2, <1>3 DEF Questions, Gleam!RemainingFor, IncarnationAt, SpentAt, GrantAt, GrantOf, LeftAt, Issues
  <1>4. CASE h \in 8..16
    BY <1>1, <1>2, <1>4 DEF Questions, Gleam!RemainingFor, IncarnationAt, SpentAt, GrantAt, GrantOf, LeftAt, Issues
  <1>5. CASE h \in 17..22
    BY <1>1, <1>2, <1>5 DEF Questions, Gleam!RemainingFor, IncarnationAt, SpentAt, GrantAt, GrantOf, LeftAt, Issues
  <1>6. CASE h \in 23..29
    BY <1>1, <1>2, <1>6 DEF Questions, Gleam!RemainingFor, IncarnationAt, SpentAt, GrantAt, GrantOf, LeftAt, Issues
  <1> QED BY <1>1, <1>3, <1>4, <1>5, <1>6

(* Where nothing is withdrawn, issued or stopped, the tables stay.         *)
LEMMA TablesStay ==
  ASSUME NEW k \in Questions \cup {6, 11, 15, 19, 25}, NEW h, h = k - 1
  PROVE  /\ h \in 0..30 /\ k \in 1..30 /\ GrantAt(k) = GrantAt(h) /\ BalanceAt(k) = BalanceAt(h)
         /\ IncarnationAt(k) = IncarnationAt(h) /\ NextAt(k) = NextAt(h) /\ SpentAt(k) = SpentAt(h)
         /\ CallsAt(k) = CallsAt(h) /\ StatusAt(k) = StatusAt(h) /\ StatusAt(h) = "running"
  BY DEF Questions, GrantAt, BalanceAt, IncarnationAt, NextAt, SpentAt, CallsAt, StatusAt

(* A message answered with the entity unchanged is answered as the table   *)
(* has it.                                                                 *)
LEMMA AnswerOnCourse ==
  ASSUME NEW k \in Questions \cup {6, 11, 15, 19, 25}, NEW h, h = k - 1, ActorIs(h), actor \in Actors,
         NEW m \in Messages, MessageIs(m, k), Gleam!Answers(m, Gleam!Reply(m, TagAt(k), actor, LeftAt(k))),
         UNCHANGED actor
  PROVE  /\ ActorIs(k)'
         /\ \E x \in Replies : ReplyIs(x, k) /\ clients' = [clients EXCEPT ![Gleam!Probe].inbox = Append(@, x)]
  <1>1. TagAt(k) \in Tags /\ LeftAt(k) \in {0, 1}
    BY DEF TagAt, Tags, LeftAt
  <1>2. PICK x \in Replies : x = Gleam!Reply(m, TagAt(k), actor, LeftAt(k))
    BY <1>1, ReplyTyped
  <1>3. /\ x.tag = TagAt(k) /\ x.trace = m.trace /\ x.state = actor.balance /\ x.remaining = LeftAt(k)
        /\ x.calls = actor.calls /\ x.grant = m.grant
    BY <1>2 DEF Gleam!Reply
  <1>4. ReplyIs(x, k)
    BY <1>3, TablesStay DEF ReplyIs, MessageIs, ActorIs
  <1>5. ActorIs(k)'
    BY TablesStay DEF ActorIs
  <1>6. clients' = [clients EXCEPT ![Gleam!Probe].inbox = Append(@, x)]
    BY <1>2 DEF Gleam!Answers, MessageIs
  <1> QED BY <1>4, <1>5, <1>6

(* Asked for the uses left, the entity answers as the table has it. *)
LEMMA UsesOnCourse ==
  ASSUME NEW k \in Questions, NEW h, h = k - 1, ActorIs(h), actor \in Actors, NEW m \in Messages, MessageIs(m, k),
         Gleam!HandleUses(m)
  PROVE  /\ ActorIs(k)'
         /\ \E x \in Replies : ReplyIs(x, k) /\ clients' = [clients EXCEPT ![Gleam!Probe].inbox = Append(@, x)]
  <1>1. TagAt(k) = "Uses"
    BY DEF Questions, TagAt, Issues
  <1>2. Gleam!RemainingFor(m.grant) = LeftAt(k)
    BY LeftOfGrant DEF MessageIs
  <1>3. Gleam!Answers(m, Gleam!Reply(m, TagAt(k), actor, LeftAt(k))) /\ UNCHANGED actor
    BY <1>1, <1>2 DEF Gleam!HandleUses
  <1> QED BY <1>3, AnswerOnCourse

(* A withdrawal is refused where it should be, and for what it should be.  *)
LEMMA RefusalOnCourse ==
  ASSUME exactOne, NEW k \in Withdrawals \cup {10, 23}, NEW h, h = k - 1, ActorIs(h), NEW m, MessageIs(m, k)
  PROVE  /\ Gleam!Refusal(m) = (IF k \in {3, 10, 23, 29} THEN "none" ELSE TagAt(k))
         /\ k \in {6, 11, 25} => LeftAt(k) = 0
         /\ k \in {15, 19} => LeftAt(k) = Gleam!RemainingFor(m.grant)
  <1>1. /\ m.destination = DestinationAt(k) /\ m.amount = AmountAt(k) /\ m.grant = GrantAt(h)
        /\ actor.balance = BalanceAt(h) /\ actor.incarnation = IncarnationAt(h) /\ actor.consumed = SpentAt(h)
    BY DEF MessageIs, ActorIs
  <1> USE DEF Gleam!Refusal, Gleam!Enabled_, Gleam!RemainingFor, IncarnationAt, SpentAt, GrantAt, GrantOf,
        BalanceAt, AmountAt, DestinationAt, TagAt, LeftAt, Issues, Gleam!Here, Gleam!There
  <1>2. CASE k = 3
    BY <1>1, <1>2
  <1>3. CASE k = 6
    BY <1>1, <1>3
  <1>4. CASE k = 10
    BY <1>1, <1>4
  <1>5. CASE k = 11
    BY <1>1, <1>5
  <1>6. CASE k = 15
    BY <1>1, <1>6
  <1>7. CASE k = 19
    BY <1>1, <1>7
  <1>8. CASE k = 23
    BY <1>1, <1>8
  <1>9. CASE k = 25
    BY <1>1, <1>9
  <1>10. CASE k = 29
    BY <1>1, <1>10
  <1> QED BY <1>2, <1>3, <1>4, <1>5, <1>6, <1>7, <1>8, <1>9, <1>10 DEF Withdrawals

(* The withdrawals of the script that are refused are answered as the      *)
(* table has it.                                                           *)
LEMMA RefuseOnCourse ==
  ASSUME exactOne, NEW k \in Withdrawals \cup {10}, NEW h, h = k - 1, ActorIs(h), actor \in Actors,
         NEW m \in Messages, MessageIs(m, k), Gleam!Refuse(m)
  PROVE  /\ ActorIs(k)'
         /\ \E x \in Replies : ReplyIs(x, k) /\ clients' = [clients EXCEPT ![Gleam!Probe].inbox = Append(@, x)]
  <1>1. PICK tag : tag = Gleam!Refusal(m)
    OBVIOUS
  <1>2. /\ tag = (IF k \in {3, 10, 23, 29} THEN "none" ELSE TagAt(k))
        /\ k \in {6, 11, 25} => LeftAt(k) = 0
        /\ k \in {15, 19} => LeftAt(k) = Gleam!RemainingFor(m.grant)
    BY <1>1, RefusalOnCourse
  <1>3. PICK n : n = IF tag \in {"StaleGrantRejected", "CapabilityUseRejected"} THEN 0
                     ELSE Gleam!RemainingFor(m.grant)
    OBVIOUS
  <1>4. tag # "none" /\ Gleam!Answers(m, Gleam!Reply(m, tag, actor, n)) /\ UNCHANGED actor
    BY <1>1, <1>3 DEF Gleam!Refuse
  <1>5. k \in {6, 11, 15, 19, 25} /\ tag = TagAt(k)
    BY <1>2, <1>4 DEF Withdrawals
  <1>6. n = LeftAt(k)
    BY <1>2, <1>3, <1>5 DEF TagAt, Issues
  <1>7. Gleam!Answers(m, Gleam!Reply(m, TagAt(k), actor, LeftAt(k)))
    BY <1>4, <1>5, <1>6
  <1> QED BY <1>4, <1>5, <1>7, AnswerOnCourse

(* The next state of an actor that runs a withdrawal. *)
LEMMA ActorRuns ==
  ASSUME actor \in Actors, exactOne, NEW g \in Grants, NEW a \in Int, NEW next,
         next = [Gleam!ConsumedState(g) EXCEPT !.balance = @ - a]
  PROVE  /\ next \in Actors /\ next.status = actor.status /\ next.balance = actor.balance - a
         /\ next.incarnation = actor.incarnation /\ next.nextGrant = actor.nextGrant
         /\ next.consumed = actor.consumed \cup {g} /\ next.calls = actor.calls + 1
  <1>1. PICK after : after = Gleam!ConsumedState(g)
    OBVIOUS
  <1>2. PICK used, calls : used = actor.consumed \cup {g} /\ calls = actor.calls + 1
    OBVIOUS
  <1>3. used \in SUBSET Grants /\ calls \in Nat
    BY <1>2 DEF Actors
  <1>4. after = [actor EXCEPT !.consumed = used, !.calls = calls]
    BY <1>1, <1>2 DEF Gleam!ConsumedState
  <1>5. /\ after \in Actors /\ after.status = actor.status /\ after.balance = actor.balance
        /\ after.incarnation = actor.incarnation /\ after.nextGrant = actor.nextGrant
        /\ after.consumed = used /\ after.calls = calls
    BY <1>3, <1>4, Zenon DEF Actors
  <1>6. PICK b \in Int : b = after.balance - a
    BY <1>5 DEF Actors
  <1>7. next = [after EXCEPT !.balance = b]
    BY <1>1, <1>6
  <1>8. /\ next \in Actors /\ next.status = after.status /\ next.balance = b
        /\ next.incarnation = after.incarnation /\ next.nextGrant = after.nextGrant
        /\ next.consumed = after.consumed /\ next.calls = after.calls
    BY <1>5, <1>7, Zenon DEF Actors
  <1> QED BY <1>2, <1>5, <1>6, <1>8

(* The withdrawals of the script that run leave the balance, the spent     *)
(* grants and the calls as the table has them.                             *)
LEMMA WithdrawOnCourse ==
  ASSUME exactOne, NEW k \in Withdrawals \cup {10}, NEW h, h = k - 1, ActorIs(h), actor \in Actors,
         NEW m \in Messages, MessageIs(m, k), Gleam!HandleWithdraw(m)
  PROVE  /\ ActorIs(k)'
         /\ \E x \in Replies : ReplyIs(x, k) /\ clients' = [clients EXCEPT ![Gleam!Probe].inbox = Append(@, x)]
  <1>1. PICK next : next = [Gleam!ConsumedState(m.grant) EXCEPT !.balance = @ - m.amount]
    OBVIOUS
  <1>2. /\ next \in Actors /\ next.status = actor.status /\ next.balance = actor.balance - m.amount
        /\ next.incarnation = actor.incarnation /\ next.nextGrant = actor.nextGrant
        /\ next.consumed = actor.consumed \cup {m.grant} /\ next.calls = actor.calls + 1
    <2>1. PICK g \in Grants, a \in Int : g = m.grant /\ a = m.amount
      BY DEF Messages
    <2>2. next = [Gleam!ConsumedState(g) EXCEPT !.balance = @ - a]
      BY <1>1, <2>1
    <2>3. /\ next \in Actors /\ next.status = actor.status /\ next.balance = actor.balance - a
          /\ next.incarnation = actor.incarnation /\ next.nextGrant = actor.nextGrant
          /\ next.consumed = actor.consumed \cup {g} /\ next.calls = actor.calls + 1
      BY <2>2, ActorRuns
    <2> QED BY <2>1, <2>3
  <1>3. /\ Gleam!Refusal(m) = "none" /\ actor' = next
        /\ Gleam!Answers(m, Gleam!Reply(m, "Success", next, 0))
    BY <1>1 DEF Gleam!HandleWithdraw
  <1>4. k \in {3, 10, 29}
    BY <1>3, RefusalOnCourse DEF Withdrawals, TagAt, Issues
  <1>5. /\ StatusAt(k) = StatusAt(h) /\ BalanceAt(k) = BalanceAt(h) - AmountAt(k)
        /\ IncarnationAt(k) = IncarnationAt(h) /\ NextAt(k) = NextAt(h)
        /\ SpentAt(k) = SpentAt(h) \cup {GrantAt(h)} /\ CallsAt(k) = CallsAt(h) + 1
        /\ TagAt(k) = "Success" /\ LeftAt(k) = 0 /\ GrantAt(k) = GrantAt(h)
    <2> USE DEF StatusAt, BalanceAt, AmountAt, IncarnationAt, NextAt, SpentAt, GrantAt, GrantOf, CallsAt, TagAt,
          LeftAt, Issues
    <2>1. CASE k = 3
      BY <2>1
    <2>2. CASE k = 10
      BY <2>2
    <2>3. CASE k = 29
      BY <2>3
    <2> QED BY <1>4, <2>1, <2>2, <2>3
  <1>6. PICK x \in Replies : x = Gleam!Reply(m, "Success", next, 0)
    BY <1>2, ReplyTyped DEF Tags
  <1>7. /\ x.tag = "Success" /\ x.trace = m.trace /\ x.state = next.balance /\ x.remaining = 0
        /\ x.calls = next.calls /\ x.grant = m.grant
    BY <1>6 DEF Gleam!Reply
  <1>8. ActorIs(k)'
    BY <1>2, <1>3, <1>5 DEF ActorIs, MessageIs
  <1>9. ReplyIs(x, k)
    BY <1>2, <1>5, <1>7 DEF ReplyIs, MessageIs, ActorIs
  <1>10. clients' = [clients EXCEPT ![Gleam!Probe].inbox = Append(@, x)]
    BY <1>3, <1>6 DEF Gleam!Answers, MessageIs
  <1> QED BY <1>8, <1>9, <1>10

(* The last step of the script stops the entity. *)
LEMMA StopOnCourse ==
  ASSUME ActorIs(30), actor \in Actors, NEW m \in Messages, MessageIs(m, 31), Gleam!HandleStop(m)
  PROVE  /\ ActorIs(31)'
         /\ \E x \in Replies : ReplyIs(x, 31) /\ clients' = [clients EXCEPT ![Gleam!Probe].inbox = Append(@, x)]
  <1>1. PICK x \in Replies : x = Gleam!Reply(m, "Stopped", actor, 0)
    BY ReplyTyped DEF Tags
  <1>2. /\ x.tag = "Stopped" /\ x.trace = m.trace /\ x.state = actor.balance /\ x.remaining = 0
        /\ x.calls = actor.calls /\ x.grant = m.grant
    BY <1>1 DEF Gleam!Reply
  <1>3. /\ clients' = [clients EXCEPT ![Gleam!Probe].inbox = Append(@, x)]
        /\ actor' = [actor EXCEPT !.status = "stopped"]
    BY <1>1 DEF Gleam!HandleStop, Gleam!Answers, MessageIs
  <1>4. /\ actor'.status = "stopped" /\ actor'.balance = actor.balance /\ actor'.incarnation = actor.incarnation
        /\ actor'.nextGrant = actor.nextGrant /\ actor'.consumed = actor.consumed /\ actor'.calls = actor.calls
    BY <1>3 DEF Actors
  <1>5. /\ BalanceAt(31) = BalanceAt(30) /\ IncarnationAt(31) = IncarnationAt(30) /\ NextAt(31) = NextAt(30)
        /\ SpentAt(31) = SpentAt(30) /\ CallsAt(31) = CallsAt(30) /\ StatusAt(31) = "stopped"
        /\ TagAt(31) = "Stopped" /\ LeftAt(31) = 0 /\ GrantAt(31) = GrantAt(30) /\ 31 - 1 = 30
    BY DEF BalanceAt, IncarnationAt, NextAt, SpentAt, CallsAt, StatusAt, TagAt, LeftAt, GrantAt, Issues
  <1>6. ActorIs(31)'
    BY <1>4, <1>5 DEF ActorIs
  <1>7. ReplyIs(x, 31)
    BY <1>2, <1>5 DEF ReplyIs, MessageIs, ActorIs
  <1> QED BY <1>3, <1>6, <1>7
-----------------------------------------------------------------------------
(* On course the actor answers each message as the tables say. *)
LEMMA Answering ==
  ASSUME EInv, exactOne, NEW k \in (1..31) \ {23}, NEW h, h = k - 1, ActorIs(h),
         NEW m \in Messages, MessageIs(m, k), Gleam!Handle, m = Head(mailbox)
  PROVE  /\ ActorIs(k)'
         /\ \E x \in Replies : ReplyIs(x, k) /\ clients' = [clients EXCEPT ![Gleam!Probe].inbox = Append(@, x)]
  <1>1. actor \in Actors
    BY ProberTyped
  <1>2. m.op = (IF k = 10 THEN "withdraw" ELSE OpAt(k))
    BY DEF MessageIs
  <1>3. k \in Issues \cup Questions \cup Withdrawals \cup {10, 31}
    BY DEF Issues, Questions, Withdrawals
  <1>4. \/ Gleam!HandleIssue(m) \/ Gleam!HandleUses(m) \/ Gleam!Refuse(m) \/ Gleam!HandleWithdraw(m)
        \/ Gleam!HandleDefect(m) \/ Gleam!HandleStop(m)
    BY DEF Gleam!Handle
  <1>5. CASE k \in Issues
    <2>1. m.op = "issue"
      BY <1>2, <1>5 DEF OpAt, Issues
    <2>2. Gleam!HandleIssue(m)
      BY <1>4, <2>1 DEF Gleam!HandleUses, Gleam!Refuse, Gleam!HandleWithdraw, Gleam!HandleDefect, Gleam!HandleStop
    <2> QED BY <1>1, <1>5, <2>2, IssueOnCourse
  <1>6. CASE k \in Questions
    <2>1. m.op = "uses"
      BY <1>2, <1>6 DEF OpAt, Questions, Issues, Withdrawals
    <2>2. Gleam!HandleUses(m)
      BY <1>4, <2>1 DEF Gleam!HandleIssue, Gleam!Refuse, Gleam!HandleWithdraw, Gleam!HandleDefect, Gleam!HandleStop
    <2> QED BY <1>1, <1>6, <2>2, UsesOnCourse
  <1>7. CASE k \in Withdrawals \cup {10}
    <2>1. m.op = "withdraw"
      BY <1>2, <1>7 DEF OpAt, Issues, Withdrawals
    <2>2. Gleam!Refuse(m) \/ Gleam!HandleWithdraw(m)
      BY <1>4, <2>1 DEF Gleam!HandleIssue, Gleam!HandleUses, Gleam!HandleDefect, Gleam!HandleStop
    <2> QED BY <1>1, <1>7, <2>2, RefuseOnCourse, WithdrawOnCourse
  <1>8. CASE k = 31
    <2>1. m.op = "stop" /\ h = 30
      BY <1>2, <1>8 DEF OpAt, Issues, Withdrawals
    <2>2. Gleam!HandleStop(m)
      BY <1>4, <2>1 DEF Gleam!HandleIssue, Gleam!HandleUses, Gleam!Refuse, Gleam!HandleWithdraw, Gleam!HandleDefect
    <2> QED BY <1>1, <1>8, <2>1, <2>2, StopOnCourse
  <1> QED BY <1>3, <1>5, <1>6, <1>7, <1>8

(* Places in the script are natural numbers.                               *)
LEMMA PlacesAreNatural ==
  ASSUME NEW h \in 0..30, NEW r \in 0..h, NEW k, k = h + 1
  PROVE  /\ k \in Nat /\ h \in Nat /\ r \in Nat
         /\ k - r = (h - r) + 1 /\ r <= h
  OBVIOUS

(* A reply more in the probe's inbox.                                      *)
LEMMA InboxGrows ==
  ASSUME EInv, OthersIdle, NEW h \in 0..30, NEW r \in 0..h, NEW k, k = h + 1, InboxIs(r, h), NEW x \in Replies,
         ReplyIs(x, k), clients' = [clients EXCEPT ![Gleam!Probe].inbox = Append(@, x)]
  PROVE  /\ InboxIs(r, k)' /\ OthersIdle' /\ Prober'.status = Prober.status /\ Prober'.sent = Prober.sent
         /\ Prober'.grant = Prober.grant /\ Prober'.waiting = Prober.waiting
  <1>1. Prober \in ClientStates /\ Prober.inbox \in Seq(Replies)
    BY ProberTyped
  <1>2. PICK q : q = Append(Prober.inbox, x)
    OBVIOUS
  <1>3. PICK p : p = [Prober EXCEPT !.inbox = q]
    OBVIOUS
  <1>4. clients' = [clients EXCEPT ![Gleam!Probe] = p]
    BY <1>2, <1>3 DEF Prober
  <1>5. OthersIdle' /\ Prober' = p
    BY <1>4, OthersStay
  <1>6. /\ p.status = Prober.status /\ p.sent = Prober.sent /\ p.grant = Prober.grant
        /\ p.waiting = Prober.waiting /\ p.inbox = q
    BY <1>1, <1>3 DEF ClientStates
  <1>7. Len(Prober.inbox) = h - r /\ \A i \in 1..(h - r) : ReplyIs(Prober.inbox[i], r + i)
    BY DEF InboxIs
  <1>0. k \in Nat /\ h \in Nat /\ r \in Nat /\ k - r = (h - r) + 1 /\ r <= h
    BY PlacesAreNatural
  <1>8. Len(q) = k - r
    <2>1. Len(q) = Len(Prober.inbox) + 1
      BY <1>1, <1>2
    <2> QED BY <1>0, <1>7, <2>1
  <1>9. ASSUME NEW i \in 1..(k - r) PROVE ReplyIs(q[i], r + i)
    <2>1. CASE i \in 1..(h - r)
      <3>1. q[i] = Prober.inbox[i]
        BY <1>1, <1>2, <1>7, <2>1
      <3> QED BY <1>7, <2>1, <3>1
    <2>2. CASE i \notin 1..(h - r)
      <3>1. i = (h - r) + 1
        BY <1>0, <1>9, <2>2
      <3>2. r + i = k
        BY <1>0, <3>1
      <3>3. q[i] = x
        BY <1>1, <1>2, <1>7, <3>1
      <3> QED BY <3>2, <3>3
    <2> QED BY <2>1, <2>2
  <1>10. InboxIs(r, k)'
    BY <1>5, <1>6, <1>8, <1>9 DEF InboxIs
  <1> QED BY <1>5, <1>6, <1>10

(* From any point of the script but the defect's, the entity handles the   *)
(* message that is next and answers it as the table has it.                *)
LEMMA HandleOnCourse ==
  ASSUME EInv, exactOne, OthersIdle, Gleam!Handle,
         NEW s \in 0..31, NEW r \in 0..31, NEW h \in 0..31, OnCourse(s, r, h)
  PROVE  Probing'
  <1>1. /\ r \in 0..s /\ h \in r..s /\ r # 10 /\ (s = 23 => r = 23)
        /\ s = r \/ s = r + 1 \/ (s = 11 /\ r = 9)
        /\ ProberIs(IF r = s \/ s = 10 THEN "idle" ELSE "waiting", s, r, s - r)
        /\ ScriptIs(s) /\ MailIs(h, s) /\ InboxIs(r, h) /\ HeardIs(r) /\ ActorIs(h)
    BY DEF OnCourse
  <1>2. /\ actor.status = "running" /\ mailbox # <<>> /\ UNCHANGED <<exactOne, script, heard>>
        /\ mailbox' = IF actor'.status = "running" THEN Tail(mailbox) ELSE <<>>
    BY DEF Gleam!Handle
  <1>3. h # s
    <2>1. Len(mailbox) # 0
      BY <1>2, ProberTyped
    <2> QED BY <1>1, <2>1 DEF MailIs
  <1>4. h \in 0..30 /\ s \in (h + 1)..31
    BY <1>1, <1>3
  <1> PICK k : k = h + 1
    OBVIOUS
  <1>5. k \in (1..31) \ {23} /\ h = k - 1 /\ k \in r..s
    BY <1>1, <1>4
  <1>6. /\ Head(mailbox) \in Messages /\ MessageIs(Head(mailbox), k)
        /\ mailbox' = Tail(mailbox) => MailIs(k, s)'
    BY <1>1, <1>4, MailShrinks, ProberTyped
  <1>7. PICK m \in Messages : m = Head(mailbox) /\ MessageIs(m, k)
    BY <1>6
  <1>8. ActorIs(k)' /\ \E x \in Replies : ReplyIs(x, k) /\ clients' = [clients EXCEPT ![Gleam!Probe].inbox = Append(@, x)]
    BY <1>1, <1>5, <1>7, Answering
  <1>9. PICK x \in Replies : ReplyIs(x, k) /\ clients' = [clients EXCEPT ![Gleam!Probe].inbox = Append(@, x)]
    BY <1>8
  <1>10. /\ InboxIs(r, k)' /\ OthersIdle' /\ Prober'.status = Prober.status /\ Prober'.sent = Prober.sent
         /\ Prober'.grant = Prober.grant /\ Prober'.waiting = Prober.waiting
    <2>1. r \in 0..h
      BY <1>1
    <2> QED BY <1>1, <1>4, <1>9, <2>1, InboxGrows
  <1>11. MailIs(k, s)'
    <2>1. CASE k # 31
      <3>1. actor'.status = "running"
        BY <1>8, <2>1 DEF ActorIs, StatusAt
      <3> QED BY <1>2, <1>6, <3>1
    <2>2. CASE k = 31
      <3>1. actor'.status = "stopped"
        BY <1>8, <2>2 DEF ActorIs, StatusAt
      <3>2. mailbox' = <<>> /\ s = 31
        BY <1>2, <1>5, <2>2, <3>1
      <3> QED BY <2>2, <3>2 DEF MailIs
    <2> QED BY <2>1, <2>2
  <1>12. HeardIs(r)' /\ ScriptIs(s)'
    BY <1>1, <1>2, HeardStays DEF ScriptIs
  <1>13. ProberIs(IF r = s \/ s = 10 THEN "idle" ELSE "waiting", s, r, s - r)'
    BY <1>1, <1>10 DEF ProberIs
  <1>14. OnCourse(s, r, k)'
    BY <1>1, <1>5, <1>8, <1>10, <1>11, <1>12, <1>13 DEF OnCourse
  <1>15. k \in 0..31
    BY <1>5
  <1> QED BY <1>2, <1>10, <1>14, <1>15 DEF Probing

(* The defect strikes: the actor goes down, with the messages it had.      *)
LEMMA HandleAtDefect ==
  ASSUME EInv, exactOne, Gleam!Handle, OthersIdle, NEW s \in {23, 24}, AtDefect(s)
  PROVE  Probing' \/ Lost'
  <1>1. /\ ProberIs(IF s = 23 THEN "idle" ELSE "waiting", s, 23, s - 23)
        /\ ScriptIs(s) /\ MailIs(22, s) /\ InboxIs(23, 23) /\ HeardIs(23) /\ ActorIs(22)
    BY DEF AtDefect
  <1>2. /\ UNCHANGED <<exactOne, script, heard>>
        /\ mailbox' = IF actor'.status = "running" THEN Tail(mailbox) ELSE <<>>
    BY DEF Gleam!Handle
  <1>3. PICK h, k : h = 22 /\ k = 23 /\ k = h + 1 /\ h = k - 1
    OBVIOUS
  <1>4. MessageIs(Head(mailbox), k) /\ Head(mailbox) \in Messages
    <2>1. MailIs(h, s) /\ h \in 0..30 /\ s \in (h + 1)..31
      BY <1>1, <1>3
    <2> QED BY <1>3, <2>1, MailShrinks, ProberTyped
  <1>5. PICK m \in Messages : m = Head(mailbox) /\ MessageIs(m, k)
    BY <1>4
  <1>6. m.op = "defect"
    BY <1>3, <1>5 DEF MessageIs, OpAt, Issues, Withdrawals
  <1>7. Gleam!HandleDefect(m)
    BY <1>5, <1>6 DEF Gleam!Handle, Gleam!HandleIssue, Gleam!HandleUses, Gleam!Refuse, Gleam!HandleWithdraw,
      Gleam!HandleStop
  <1>8. Gleam!Refusal(m) = "none"
    <2>1. ActorIs(h) /\ k \in Withdrawals \cup {10, 23} /\ k \in {3, 10, 23, 29}
      BY <1>1, <1>3
    <2> QED BY <1>3, <1>5, <2>1, RefusalOnCourse
  <1>9. actor' = [actor EXCEPT !.status = "failed"] /\ UNCHANGED clients
    BY <1>7, <1>8 DEF Gleam!HandleDefect
  <1>10. actor'.status = "failed" /\ actor'.incarnation = 1 /\ mailbox' = <<>>
    <2>1. actor'.status = "failed" /\ actor'.incarnation = actor.incarnation
      BY <1>9, ProberTyped DEF Actors
    <2>2. actor.incarnation = 1
      BY <1>1 DEF ActorIs, IncarnationAt
    <2> QED BY <1>2, <2>1, <2>2
  <1>11. CASE s = 23
    <2>1. ProberIs("idle", 23, 23, 0)' /\ ScriptIs(23)' /\ InboxIs(23, 23)'
      BY <1>1, <1>2, <1>9, <1>11 DEF ProberIs, ScriptIs, InboxIs, Prober
    <2>2. MailIs(23, 23)' /\ HeardIs(23)'
      BY <1>1, <1>2, <1>10, HeardStays DEF MailIs
    <2>3. Down' /\ OthersIdle'
      BY <1>9, <1>10, <2>1, <2>2 DEF Down, OthersIdle
    <2> QED BY <1>2, <2>3 DEF Probing
  <1>12. CASE s = 24
    <2>1. Prober.status = "waiting" /\ Prober.waiting = 1 /\ Prober.sent = 24 /\ Len(Prober.inbox) = 0
      BY <1>1, <1>12 DEF ProberIs, InboxIs
    <2> QED BY <1>9, <1>10, <2>1 DEF Lost, Prober
  <1> QED BY <1>11, <1>12

(* Whatever the entity handles, the probe is under way still, or lost. *)
LEMMA HandleKeeps ==
  ASSUME EInv, Gleam!Handle, Probing
  PROVE  Probing' \/ Lost'
  <1>1. exactOne /\ OthersIdle
    BY DEF Probing
  <1>2. CASE \E s, r, h \in 0..31 : OnCourse(s, r, h)
    BY <1>1, <1>2, HandleOnCourse
  <1>3. CASE \E s \in {23, 24} : AtDefect(s)
    BY <1>1, <1>3, HandleAtDefect
  <1>4. ~Down
    BY DEF Down, Gleam!Handle
  <1> QED BY <1>2, <1>3, <1>4 DEF Probing
-----------------------------------------------------------------------------
(* A grant, or the word that the actor stopped, adds to no trace.          *)
LEMMA HeardNothing ==
  ASSUME NEW k \in Issues \cup {31}, NEW r, r = k - 1, NEW t \in Gleam!Traces
  PROVE  HeardOf(t, k) = HeardOf(t, r)
  BY DEF HeardOf, FirstOf, LastOf, Issues, Gleam!Traces

(* The other replies that come between two messages add to one trace.      *)
LEMMA HeardTables ==
  ASSUME NEW s \in 1..31, NEW r \in 0..30, s = r + 1 \/ (s = 11 /\ r = 9), s # 23,
         NEW k, k = r + 1, k \notin Issues \cup {31}, NEW u, u = TraceAt(k)
  PROVE  /\ u \in Gleam!Traces /\ HeardOf(u, s) = HeardOf(u, r) + (s - r)
         /\ HeardOf(u, r) \in Nat /\ FirstOf(u) + HeardOf(u, r) = k
         /\ \A t \in Gleam!Traces : t # u => HeardOf(t, s) = HeardOf(t, r)
  <1>0. /\ u = TraceAt(k) /\ r = k - 1
        /\ k \in 2..4 \/ k \in 5..7 \/ k \in 9..12 \/ k \in 14..16 \/ k \in 18..20 \/ k = 22
           \/ k \in 24..26 \/ k \in 28..30
    BY DEF Issues
  <1> USE DEF HeardOf, FirstOf, LastOf
  <1>1. CASE k \in 2..4
    <2>1. u = "valid"
      BY <1>0, <1>1 DEF TraceAt, Issues
    <2> QED BY <1>1, <2>1 DEF Gleam!Traces
  <1>2. CASE k \in 5..7
    <2>1. u = "reuse"
      BY <1>0, <1>2 DEF TraceAt, Issues
    <2> QED BY <1>2, <2>1 DEF Gleam!Traces
  <1>3. CASE k \in 9..12
    <2>1. u = "competing"
      BY <1>0, <1>3 DEF TraceAt, Issues
    <2> QED BY <1>3, <2>1 DEF Gleam!Traces
  <1>4. CASE k \in 14..16
    <2>1. u = "wrongDestination"
      BY <1>0, <1>4 DEF TraceAt, Issues
    <2> QED BY <1>4, <2>1 DEF Gleam!Traces
  <1>5. CASE k \in 18..20
    <2>1. u = "disabled"
      BY <1>0, <1>5 DEF TraceAt, Issues
    <2> QED BY <1>5, <2>1 DEF Gleam!Traces
  <1>6. CASE k = 22
    <2>1. u = "defect"
      BY <1>0, <1>6 DEF TraceAt, Issues
    <2> QED BY <1>6, <2>1 DEF Gleam!Traces
  <1>7. CASE k \in 24..26
    <2>1. u = "stale"
      BY <1>0, <1>7 DEF TraceAt, Issues
    <2> QED BY <1>7, <2>1 DEF Gleam!Traces
  <1>8. CASE k \in 28..30
    <2>1. u = "replacement"
      BY <1>0, <1>8 DEF TraceAt, Issues
    <2> QED BY <1>8, <2>1 DEF Gleam!Traces
  <1> HIDE DEF HeardOf, FirstOf, LastOf
  <1> QED BY <1>0, <1>1, <1>2, <1>3, <1>4, <1>5, <1>6, <1>7, <1>8, Zenon

(* The probe takes the replies it waited for. *)
LEMMA ReceiveOnCourse ==
  ASSUME EInv, HeardTyped, exactOne, OthersIdle, Gleam!Receive(Gleam!Probe),
         NEW s \in 0..31, NEW r \in 0..31, NEW h \in 0..31, OnCourse(s, r, h)
  PROVE  Probing'
  <1>1. /\ r \in 0..s /\ h \in r..s /\ r # 10 /\ (s = 23 => r = 23)
        /\ s = r \/ s = r + 1 \/ (s = 11 /\ r = 9)
        /\ ProberIs(IF r = s \/ s = 10 THEN "idle" ELSE "waiting", s, r, s - r)
        /\ ScriptIs(s) /\ MailIs(h, s) /\ InboxIs(r, h) /\ HeardIs(r) /\ ActorIs(h)
    BY DEF OnCourse
  <1>2. Prober.status = "waiting" /\ Len(Prober.inbox) = Prober.waiting
    BY DEF Gleam!Receive, Prober
  <1>3. h = s /\ r # s /\ s # 10 /\ s # 23 /\ Len(Prober.inbox) = s - r
    BY <1>1, <1>2 DEF ProberIs, InboxIs
  <1>4. s \in 1..31 /\ r \in 0..30 /\ s - r \in {1, 2}
    BY <1>1, <1>3
  <1> PICK k : k = r + 1
    OBVIOUS
  <1>5. /\ Prober.inbox \in Seq(Replies) /\ Prober.inbox[1] \in Replies
        /\ \A i \in 1..(s - r) : ReplyIs(Prober.inbox[i], r + i)
        /\ ReplyIs(Prober.inbox[1], k)
    <2>1. Prober.inbox \in Seq(Replies)
      BY ProberTyped
    <2>2. \A i \in 1..(s - r) : ReplyIs(Prober.inbox[i], r + i)
      BY <1>1, <1>3 DEF InboxIs
    <2>3. 1 \in 1..(s - r)
      BY <1>4
    <2> QED BY <1>3, <2>1, <2>2, <2>3
  <1>6. PICK p : p = Gleam!Answered(Prober)
    OBVIOUS
  <1>7. /\ p.status = "idle" /\ p.inbox = <<>> /\ p.waiting = 0 /\ p.sent = s /\ p.grant = GrantAt(s)
    <2>1. /\ p.status = "idle" /\ p.inbox = <<>> /\ p.waiting = 0 /\ p.sent = Prober.sent
          /\ p.grant = IF Prober.inbox[1].tag = "Grant" THEN Prober.inbox[1].grant ELSE Prober.grant
      BY <1>6 DEF Gleam!Answered
    <2>2. Prober.sent = s /\ Prober.grant = GrantAt(r)
      BY <1>1 DEF ProberIs
    <2>3. Prober.inbox[1].tag = TagAt(k) /\ Prober.inbox[1].grant = GrantAt(k)
      BY <1>5 DEF ReplyIs
    <2>4. IF TagAt(k) = "Grant" THEN GrantAt(k) = GrantAt(s) ELSE GrantAt(r) = GrantAt(s)
      BY <1>1, <1>3, <1>4 DEF TagAt, Issues, GrantAt
    <2> QED BY <2>1, <2>2, <2>3, <2>4
  <1>8. clients' = [clients EXCEPT ![Gleam!Probe] = p] /\ UNCHANGED <<exactOne, actor, mailbox, script>>
    BY <1>6 DEF Gleam!Receive, Prober
  <1>9. OthersIdle' /\ Prober' = p
    BY <1>8, OthersStay
  <1>10. HeardIs(s)'
    <2>1. PICK inbox : inbox = Prober.inbox
      OBVIOUS
    <2>2. inbox[1].tag = TagAt(k) /\ inbox[1].trace = TraceAt(k)
      BY <1>5, <2>1 DEF ReplyIs
    <2>3. (TagAt(k) \in {"Grant", "Stopped"}) <=> k \in Issues \cup {31}
      BY <1>4 DEF TagAt, Issues
    <2>4. CASE k \in Issues \cup {31}
      <3>1. heard' = heard
        BY <2>1, <2>2, <2>3, <2>4 DEF Gleam!Receive, Prober
      <3>2. s = k /\ r = k - 1
        BY <1>1, <1>3, <2>4 DEF Issues
      <3>3. \A t \in Gleam!Traces : HeardOf(t, s) = HeardOf(t, r)
        BY <2>4, <3>2, HeardNothing
      <3> QED BY <1>1, <3>1, <3>3 DEF HeardIs
    <2>5. CASE k \notin Issues \cup {31}
      <3> PICK u, n, m : u = TraceAt(k) /\ n = HeardOf(u, r) /\ m = s - r
        OBVIOUS
      <3>1. heard' = [heard EXCEPT ![u] = heard[u] \o inbox]
        BY <2>1, <2>2, <2>3, <2>5 DEF Gleam!Receive, Prober
      <3>2. /\ u \in Gleam!Traces /\ n \in Nat /\ HeardOf(u, s) = n + m /\ FirstOf(u) + n = k
            /\ \A t \in Gleam!Traces \ {u} : HeardOf(t, s) = HeardOf(t, r)
        <4>1. s \in 1..31 /\ r \in 0..30 /\ (s = r + 1 \/ (s = 11 /\ r = 9)) /\ s # 23
          BY <1>1, <1>3, <1>4
        <4>2. /\ u \in Gleam!Traces /\ HeardOf(u, s) = HeardOf(u, r) + (s - r)
              /\ HeardOf(u, r) \in Nat /\ FirstOf(u) + HeardOf(u, r) = k
              /\ \A t \in Gleam!Traces : t # u => HeardOf(t, s) = HeardOf(t, r)
          BY <2>5, <4>1, HeardTables
        <4> QED BY <4>2
      <3>3. /\ heard'[u] = heard[u] \o inbox /\ heard[u] \in Seq(Replies)
            /\ \A t \in Gleam!Traces \ {u} : heard'[t] = heard[t]
        BY <3>1, <3>2 DEF HeardTyped
      <3>4. inbox \in Seq(Replies) /\ Len(inbox) = m /\ m \in Nat
        BY <1>3, <1>4, <1>5, <2>1
      <3>5. Len(heard[u]) = n /\ \A i \in 1..n : ReplyIs(heard[u][i], FirstOf(u) + i - 1)
        BY <1>1, <3>2 DEF HeardIs
      <3>6. Len(heard'[u]) = n + m
        BY <3>3, <3>4, <3>5
      <3>7. ASSUME NEW i \in 1..(n + m) PROVE ReplyIs(heard'[u][i], FirstOf(u) + i - 1)
        <4>1. CASE i \in 1..n
          <5>1. heard'[u][i] = heard[u][i]
            BY <3>3, <3>4, <3>5, <4>1
          <5> QED BY <3>5, <4>1, <5>1
        <4>2. CASE i \notin 1..n
          <5>1. i - n \in 1..m
            BY <3>2, <3>4, <3>7, <4>2
          <5>2. heard'[u][i] = inbox[i - n]
            <6>1. PICK old : old = heard[u]
              OBVIOUS
            <6>2. PICK j : j = i - n
              OBVIOUS
            <6>3. heard'[u] = old \o inbox /\ old \in Seq(Replies) /\ Len(old) = n
              BY <3>3, <3>5, <6>1
            <6>4. n \in Nat /\ j \in 1..m /\ i = n + j
              BY <3>2, <5>1, <6>2
            <6>5. (old \o inbox)[i] = inbox[j]
              BY <3>4, <6>3, <6>4
            <6> QED BY <6>2, <6>3, <6>5
          <5>3. ReplyIs(inbox[i - n], r + (i - n))
            BY <1>5, <2>1, <5>1
          <5>4. FirstOf(u) \in Int
            BY DEF FirstOf
          <5>5. r + (i - n) = FirstOf(u) + i - 1
            BY <1>4, <3>2, <5>1, <5>4
          <5> QED BY <5>2, <5>3, <5>5
        <4> QED BY <4>1, <4>2
      <3>8. ASSUME NEW t \in Gleam!Traces, t # u
            PROVE  /\ Len(heard'[t]) = HeardOf(t, s)
                   /\ \A i \in 1..HeardOf(t, s) : ReplyIs(heard'[t][i], FirstOf(t) + i - 1)
        BY <1>1, <3>2, <3>3, <3>8 DEF HeardIs
      <3>9. /\ Len(heard'[u]) = HeardOf(u, s)
            /\ \A i \in 1..HeardOf(u, s) : ReplyIs(heard'[u][i], FirstOf(u) + i - 1)
        BY <3>2, <3>6, <3>7
      <3> QED BY <3>8, <3>9 DEF HeardIs
    <2> QED BY <2>4, <2>5
  <1>11. ProberIs("idle", s, s, 0)' /\ InboxIs(s, s)'
    <2>1. ProberIs("idle", s, s, 0)'
      BY <1>7, <1>9, Zenon DEF ProberIs
    <2>2. s - s = 0 /\ 1..0 = {} /\ Len(<<>>) = 0
      BY <1>4
    <2>3. Prober'.inbox = <<>>
      BY <1>7, <1>9
    <2>4. InboxIs(s, s)'
      BY <2>2, <2>3 DEF InboxIs
    <2> QED BY <2>1, <2>4
  <1>12. ScriptIs(s)' /\ MailIs(s, s)' /\ ActorIs(s)'
    BY <1>1, <1>3, <1>8, ActorStays DEF ScriptIs, MailIs
  <1>13. s \in 0..s /\ s \in s..s /\ s - s = 0
    BY <1>4
  <1>14. OnCourse(s, s, s)'
    BY <1>3, <1>10, <1>11, <1>12, <1>13 DEF OnCourse
  <1> QED BY <1>8, <1>9, <1>14 DEF Probing

(* Traces are added to, and stay typed. *)
LEMMA HeardStaysTyped ==
  ASSUME EInv, HeardTyped, NEW c \in Gleam!Clients, Gleam!Receive(c)
  PROVE  HeardTyped'
  <1>1. clients[c].inbox \in Seq(Replies)
    BY DEF EInv, ClientsAreSound, ClientStates
  <1>2. \A t \in Gleam!Traces : heard[t] \o clients[c].inbox \in Seq(Replies)
    BY <1>1 DEF HeardTyped
  <1> QED BY <1>2 DEF HeardTyped, Gleam!Receive
-----------------------------------------------------------------------------
(* A waiting client is not another than the probe. *)
LEMMA ReceiveKeeps ==
  ASSUME EInv, HeardTyped, Probing, NEW c \in Gleam!Clients, Gleam!Receive(c)
  PROVE  Probing'
  <1>1. exactOne /\ OthersIdle
    BY DEF Probing
  <1>2. c = Gleam!Probe
    BY <1>1 DEF OthersIdle, Gleam!Receive
  <1>3. Prober.status = "waiting" /\ Len(Prober.inbox) = Prober.waiting
    BY <1>2 DEF Gleam!Receive, Prober
  <1>4. CASE \E s, r, h \in 0..31 : OnCourse(s, r, h)
    BY <1>1, <1>2, <1>4, ReceiveOnCourse
  <1>5. ~\E s \in {23, 24} : AtDefect(s)
    BY <1>3 DEF AtDefect, ProberIs, InboxIs
  <1>6. ~Down
    BY <1>3 DEF Down, ProberIs
  <1> QED BY <1>4, <1>5, <1>6 DEF Probing

(* A probe that gives up prints nothing. *)
LEMMA CallFailsKeeps ==
  ASSUME EInv, Probing, NEW c \in Gleam!Clients, Gleam!CallFails(c)
  PROVE  Lost'
  <1>1. c = Gleam!Probe
    BY DEF Probing, OthersIdle, Gleam!CallFails
  <1>2. PICK k : k = [Prober EXCEPT !.status = "crashed"]
    OBVIOUS
  <1>3. clients' = [clients EXCEPT ![Gleam!Probe] = k]
    BY <1>1, <1>2 DEF Gleam!CallFails, Prober
  <1>4. k.status = "crashed"
    BY <1>2, ProberTyped DEF ClientStates
  <1> QED BY <1>3, <1>4, OnlyOne, ProberTyped DEF Lost, Prober

(* The actor is restarted, and the probe goes on with the new incarnation. *)
LEMMA RestartKeeps ==
  ASSUME EInv, Probing, Gleam!Restart
  PROVE  Probing'
  <1>1. /\ actor.status = "failed" /\ actor' = Gleam!Fresh(actor.incarnation + 1)
        /\ UNCHANGED <<exactOne, mailbox, clients, script, heard>>
    BY DEF Gleam!Restart
  <1>2. Down
    <2>1. \A s, r, h \in 0..31 : ~OnCourse(s, r, h)
      BY <1>1 DEF OnCourse, ActorIs, StatusAt
    <2>2. \A s \in {23, 24} : ~AtDefect(s)
      BY <1>1 DEF AtDefect, ActorIs, StatusAt
    <2> QED BY <2>1, <2>2 DEF Probing
  <1>3. ActorIs(23)'
    <2>1. actor.incarnation + 1 = 2
      BY <1>2 DEF Down
    <2>2. actor' = Gleam!Fresh(2)
      BY <1>1, <2>1
    <2>3. /\ actor'.status = "running" /\ actor'.balance = 10 /\ actor'.incarnation = 2
          /\ actor'.nextGrant = 1 /\ actor'.consumed = {} /\ actor'.calls = 0
      BY <2>2 DEF Gleam!Fresh, Gleam!Initial
    <2> QED BY <2>3 DEF ActorIs, StatusAt, BalanceAt, IncarnationAt, NextAt, SpentAt, CallsAt
  <1>4. PICK s : s = 23
    OBVIOUS
  <1>5. /\ ProberIs("idle", s, s, 0)' /\ ScriptIs(s)' /\ MailIs(s, s)' /\ InboxIs(s, s)' /\ HeardIs(s)'
        /\ OthersIdle'
    BY <1>1, <1>2, <1>4 DEF Down, ProberIs, ScriptIs, MailIs, InboxIs, HeardIs, Prober, Probing, OthersIdle
  <1>6. s \in 0..31 /\ s \in 0..s /\ s \in s..s /\ s - s = 0 /\ s # 10
    BY <1>4
  <1>7. OnCourse(s, s, s)'
    BY <1>3, <1>4, <1>5, <1>6 DEF OnCourse
  <1> QED BY <1>1, <1>5, <1>6, <1>7 DEF Probing

(* A supervisor that gives up leaves the probe where it is. *)
LEMMA GiveUpKeeps ==
  ASSUME EInv, Probing, Gleam!GiveUp
  PROVE  Probing'
  <1>1. /\ actor.status = "failed" /\ actor' = [actor EXCEPT !.status = "stopped"]
        /\ UNCHANGED <<exactOne, mailbox, clients, script, heard>>
    BY DEF Gleam!GiveUp
  <1>2. Down
    <2>1. \A s, r, h \in 0..31 : ~OnCourse(s, r, h)
      BY <1>1 DEF OnCourse, ActorIs, StatusAt
    <2>2. \A s \in {23, 24} : ~AtDefect(s)
      BY <1>1 DEF AtDefect, ActorIs, StatusAt
    <2> QED BY <2>1, <2>2 DEF Probing
  <1>3. actor'.status = "stopped" /\ actor'.incarnation = 1
    BY <1>1, <1>2, ProberTyped DEF Actors, Down
  <1>4. Down'
    BY <1>1, <1>2, <1>3 DEF Down, ProberIs, ScriptIs, MailIs, InboxIs, HeardIs, Prober
  <1> QED BY <1>1, <1>4 DEF Probing, OthersIdle

(* While there is a probe, nobody else sends. *)
LEMMA RivalsHoldBack ==
  ASSUME EInv, Probing, NEW c \in Rivals
  PROVE  ~Gleam!RivalSends(c)
  <1> SUFFICES ASSUME Gleam!RivalSends(c) PROVE FALSE
    OBVIOUS
  <1>1. script = <<>> /\ Prober.sent = 0
    BY DEF Gleam!RivalSends, Prober
  <1>2. Len(script) = 0
    BY <1>1
  <1>3. \A s \in 0..31 : ScriptIs(s) => s = 31
    BY <1>2 DEF ScriptIs
  <1>4. \A s, r, h \in 0..31 : ~OnCourse(s, r, h)
    BY <1>1, <1>3 DEF OnCourse, ProberIs
  <1>5. (\A s \in {23, 24} : ~AtDefect(s)) /\ ~Down
    BY <1>3 DEF AtDefect, Down
  <1> QED BY <1>4, <1>5 DEF Probing

(* A probe that is lost stays lost. *)
LEMMA LostStays ==
  ASSUME EInv, Lost, [Gleam!EntityNext]_(Gleam!entityVars)
  PROVE  Lost'
  <1>1. CASE Prober.status = "crashed"
    <2> SUFFICES Prober'.status = "crashed"
      BY DEF Lost
    <2>1. CASE Gleam!ProbeSends
      BY <1>1, <2>1 DEF Gleam!ProbeSends, Prober
    <2>2. CASE Gleam!Handle
      <3>1. UNCHANGED clients \/ \E c, x : clients' = [clients EXCEPT ![c].inbox = Append(@, x)]
        BY <2>2 DEF Gleam!Handle, Gleam!HandleIssue, Gleam!HandleUses, Gleam!Refuse, Gleam!HandleWithdraw,
          Gleam!HandleDefect, Gleam!HandleStop, Gleam!Answers
      <3>2. ASSUME NEW c, NEW x, clients' = [clients EXCEPT ![c].inbox = Append(@, x)]
            PROVE  Prober'.status = "crashed"
        BY <1>1, <3>2, ProberTyped DEF EInv, ClientsAreSound, ClientStates, Prober
      <3> QED BY <1>1, <3>1, <3>2 DEF Prober
    <2>3. CASE Gleam!Restart \/ Gleam!GiveUp \/ UNCHANGED Gleam!entityVars
      BY <1>1, <2>3 DEF Gleam!Restart, Gleam!GiveUp, Gleam!entityVars, Prober
    <2>4. ASSUME NEW c \in Gleam!Clients, Gleam!Receive(c) PROVE Prober'.status = "crashed"
      <3>1. c # Gleam!Probe
        BY <1>1, <2>4 DEF Gleam!Receive, Prober
      <3> QED BY <1>1, <2>4, <3>1, ProberTyped DEF Gleam!Receive, EInv, ClientsAreSound, Prober
    <2>5. ASSUME NEW c \in Gleam!Clients, Gleam!CallFails(c) PROVE Prober'.status = "crashed"
      <3>1. c # Gleam!Probe
        BY <1>1, <2>5 DEF Gleam!CallFails, Prober
      <3> QED BY <1>1, <2>5, <3>1, ProberTyped DEF Gleam!CallFails, EInv, ClientsAreSound, Prober
    <2>6. ASSUME NEW c \in Rivals, Gleam!RivalSends(c) PROVE Prober'.status = "crashed"
      <3>1. c # Gleam!Probe /\ c \in Gleam!Clients
        BY <1>1, <2>6 DEF Gleam!RivalSends, Prober, Gleam!Clients
      <3>2. PICK m : Gleam!Send(c, m)
        BY <2>6 DEF Gleam!RivalSends
      <3>3. clients' = [clients EXCEPT ![c] = Gleam!Asked(@, m)] \/ clients' = [clients EXCEPT ![c].status = "crashed"]
        BY <3>2 DEF Gleam!Send
      <3> QED BY <1>1, <3>1, <3>3, ProberTyped DEF EInv, ClientsAreSound, Prober
    <2> QED BY <2>1, <2>2, <2>3, <2>4, <2>5, <2>6 DEF Gleam!EntityNext
  <1>2. CASE /\ Prober.status = "waiting" /\ Len(Prober.inbox) < Prober.waiting /\ mailbox = <<>>
             /\ script # <<>> \/ Prober.sent > 0
    <2>1. ~Gleam!ProbeSends
      BY <1>2 DEF Gleam!ProbeSends, Prober
    <2>2. ~Gleam!Handle
      BY <1>2 DEF Gleam!Handle
    <2>3. CASE Gleam!Restart \/ Gleam!GiveUp \/ UNCHANGED Gleam!entityVars
      BY <1>2, <2>3 DEF Gleam!Restart, Gleam!GiveUp, Gleam!entityVars, Prober, Lost
    <2>4. ASSUME NEW c \in Gleam!Clients, Gleam!Receive(c) PROVE Lost'
      <3>1. c # Gleam!Probe
        BY <1>2, <2>4, ProberTyped DEF Gleam!Receive, Prober
      <3>2. Prober' = Prober /\ UNCHANGED <<mailbox, script>>
        BY <2>4, <3>1, ProberTyped DEF Gleam!Receive, EInv, ClientsAreSound, Prober
      <3> QED BY <1>2, <3>2 DEF Lost
    <2>5. ASSUME NEW c \in Gleam!Clients, Gleam!CallFails(c) PROVE Lost'
      <3>1. CASE c # Gleam!Probe
        <4>1. Prober' = Prober /\ UNCHANGED <<mailbox, script>>
          BY <2>5, <3>1, ProberTyped DEF Gleam!CallFails, EInv, ClientsAreSound, Prober
        <4> QED BY <1>2, <4>1 DEF Lost
      <3>2. CASE c = Gleam!Probe
        <4>1. PICK k : k = [Prober EXCEPT !.status = "crashed"]
          OBVIOUS
        <4>2. clients' = [clients EXCEPT ![Gleam!Probe] = k]
          BY <2>5, <3>2, <4>1 DEF Gleam!CallFails, Prober
        <4>3. k.status = "crashed"
          BY <4>1, ProberTyped DEF ClientStates
        <4> QED BY <4>2, <4>3, OnlyOne, ProberTyped DEF Lost, Prober
      <3> QED BY <3>1, <3>2
    <2>6. ASSUME NEW c \in Rivals PROVE ~Gleam!RivalSends(c)
      <3>1. Gleam!RivalSends(c) => script = <<>> /\ Prober.sent = 0
        BY DEF Gleam!RivalSends, Prober
      <3> QED BY <1>2, <3>1
    <2> QED BY <2>1, <2>2, <2>3, <2>4, <2>5, <2>6 DEF Gleam!EntityNext
  <1> QED BY <1>1, <1>2 DEF Lost
-----------------------------------------------------------------------------
(* Adding to a sequence of the first trace, and taking from it.            *)
LEMMA FirstTraceGrows ==
  ASSUME NEW S, NEW q \in Seq(S), NEW x \in S, OfFirstTrace(q)
  PROVE  /\ x.trace = "valid" => OfFirstTrace(Append(q, x))
         /\ q # <<>> => Head(q).trace = "valid" /\ OfFirstTrace(Tail(q))
  <1>1. ASSUME x.trace = "valid" PROVE OfFirstTrace(Append(q, x))
    BY <1>1 DEF OfFirstTrace
  <1>2. ASSUME q # <<>> PROVE Head(q).trace = "valid" /\ OfFirstTrace(Tail(q))
    BY <1>2 DEF OfFirstTrace
  <1> QED BY <1>1, <1>2

(* An empty queue holds no other trace. *)
LEMMA FirstTraceEmpty == OfFirstTrace(<<>>)
  BY DEF OfFirstTrace

(* Without a probe the actor answers callers of the first trace only.      *)
LEMMA AnswersToFirstTrace ==
  ASSUME EInv, Gleam!Handle, Head(mailbox).trace = "valid"
  PROVE  \/ UNCHANGED clients
         \/ \E d \in Gleam!Clients, x \in Replies :
              x.trace = "valid" /\ clients' = [clients EXCEPT ![d].inbox = Append(@, x)]
  <1>1. PICK m \in Messages : m = Head(mailbox) /\ m.trace = "valid" /\ m.from \in Gleam!Clients
    BY ProberTyped DEF Gleam!Handle, Messages
  <1>2. \/ Gleam!HandleIssue(m) \/ Gleam!HandleUses(m) \/ Gleam!Refuse(m) \/ Gleam!HandleWithdraw(m)
        \/ Gleam!HandleDefect(m) \/ Gleam!HandleStop(m)
    BY <1>1 DEF Gleam!Handle
  <1>3. actor \in Actors /\ \A g : Gleam!RemainingFor(g) \in {0, 1}
    BY ProberTyped, RemainingTyped
  <1>4. ASSUME NEW mm \in Messages, mm.trace = "valid", mm.from = m.from, NEW tag \in Tags, NEW next \in Actors,
               NEW n \in {0, 1}, Gleam!Answers(mm, Gleam!Reply(mm, tag, next, n))
        PROVE  \E d \in Gleam!Clients, x \in Replies :
                 x.trace = "valid" /\ clients' = [clients EXCEPT ![d].inbox = Append(@, x)]
    <2>1. PICK x \in Replies : x = Gleam!Reply(mm, tag, next, n)
      BY ReplyTyped
    <2>2. x.trace = "valid"
      BY <1>4, <2>1 DEF Gleam!Reply
    <2>3. clients' = [clients EXCEPT ![m.from].inbox = Append(@, x)]
      BY <1>4, <2>1 DEF Gleam!Answers
    <2> QED BY <1>1, <2>2, <2>3
  <1>5. CASE Gleam!HandleIssue(m)
    <2>1. PICK g \in Grants : g = [incarnation |-> actor.incarnation, number |-> actor.nextGrant]
      BY <1>3 DEF Actors, Grants
    <2> DEFINE mm == [m EXCEPT !.grant = g]
    <2>2. mm \in Messages /\ mm.trace = "valid" /\ mm.from = m.from
      BY <1>1, Zenon DEF Messages, Awaited
    <2>3. Gleam!Answers(mm, Gleam!Reply(mm, "Grant", actor, 1))
      BY <1>5, <2>1 DEF Gleam!HandleIssue
    <2> HIDE DEF mm
    <2>4. "Grant" \in Tags /\ 1 \in {0, 1}
      BY DEF Tags
    <2> QED BY <1>3, <1>4, <2>2, <2>3, <2>4
  <1>6. CASE Gleam!HandleUses(m)
    <2>1. Gleam!Answers(m, Gleam!Reply(m, "Uses", actor, Gleam!RemainingFor(m.grant))) /\ "Uses" \in Tags
      BY <1>6 DEF Gleam!HandleUses, Tags
    <2> QED BY <1>1, <1>3, <1>4, <2>1
  <1>7. CASE Gleam!Refuse(m)
    <2>1. PICK tag, n : /\ tag = Gleam!Refusal(m)
                        /\ n = IF Gleam!Refusal(m) \in {"StaleGrantRejected", "CapabilityUseRejected"} THEN 0
                               ELSE Gleam!RemainingFor(m.grant)
      OBVIOUS
    <2>2. Gleam!Answers(m, Gleam!Reply(m, tag, actor, n))
      BY <1>7, <2>1 DEF Gleam!Refuse
    <2>3. tag \in Tags
      BY <1>7, <2>1 DEF Gleam!Refuse, Gleam!Refusal, Tags
    <2>4. n \in {0, 1}
      BY <1>3, <2>1
    <2> QED BY <1>1, <1>3, <1>4, <2>2, <2>3, <2>4
  <1>8. CASE Gleam!HandleWithdraw(m)
    <2>1. PICK next : next = [Gleam!ConsumedState(m.grant) EXCEPT !.balance = @ - m.amount]
      OBVIOUS
    <2>2. Gleam!Answers(m, Gleam!Reply(m, "Success", next, 0)) /\ actor' = next
      BY <1>8, <2>1 DEF Gleam!HandleWithdraw
    <2>3. next \in Actors
      BY <2>2, HandleHolds DEF EInv, ActorTyped
    <2>4. "Success" \in Tags /\ 0 \in {0, 1}
      BY DEF Tags
    <2> QED BY <1>1, <1>4, <2>2, <2>3, <2>4
  <1>9. CASE Gleam!HandleDefect(m)
    BY <1>9 DEF Gleam!HandleDefect
  <1>10. CASE Gleam!HandleStop(m)
    <2>1. Gleam!Answers(m, Gleam!Reply(m, "Stopped", actor, 0)) /\ "Stopped" \in Tags /\ 0 \in {0, 1}
      BY <1>10 DEF Gleam!HandleStop, Tags
    <2> QED BY <1>1, <1>3, <1>4, <2>1
  <1> QED BY <1>2, <1>5, <1>6, <1>7, <1>8, <1>9, <1>10

(* Without a probe, what the entity answers is of the first trace, like    *)
(* the message.                                                            *)
LEMMA HandleUnprobed ==
  ASSUME EInv, Unprobed, Gleam!Handle
  PROVE  Unprobed'
  <1>1. /\ mailbox # <<>> /\ mailbox' \in {Tail(mailbox), <<>>} /\ UNCHANGED <<script, heard>>
    BY DEF Gleam!Handle
  <1>2. Head(mailbox).trace = "valid" /\ OfFirstTrace(Tail(mailbox))
    <2>1. Head(mailbox) \in Messages
      BY <1>1, ProberTyped
    <2> QED BY <1>1, <2>1, ProberTyped, FirstTraceGrows DEF Unprobed
  <1>3. OfFirstTrace(mailbox')
    BY <1>1, <1>2, FirstTraceEmpty
  <1>4. CASE UNCHANGED clients
    BY <1>1, <1>3, <1>4 DEF Unprobed, OfFirstTrace
  <1>5. ASSUME NEW d \in Gleam!Clients, NEW x \in Replies, x.trace = "valid",
               clients' = [clients EXCEPT ![d].inbox = Append(@, x)]
        PROVE  Unprobed'
    <2>1. /\ clients[d] \in ClientStates /\ clients[d].inbox \in Seq(Replies)
      BY DEF EInv, ClientsAreSound, ClientStates
    <2>2. PICK k : k = [clients[d] EXCEPT !.inbox = Append(clients[d].inbox, x)]
      OBVIOUS
    <2>3. clients' = [clients EXCEPT ![d] = k]
      BY <1>5, <2>2
    <2>4. k.inbox = Append(clients[d].inbox, x)
      BY <2>1, <2>2 DEF ClientStates
    <2>5. OfFirstTrace(k.inbox)
      BY <1>5, <2>1, <2>4, FirstTraceGrows DEF Unprobed
    <2>6. clients'[d] = k /\ \A c \in Gleam!Clients \ {d} : clients'[c] = clients[c]
      BY <2>3, OnlyOne
    <2>7. \A c \in Gleam!Clients : OfFirstTrace(clients'[c].inbox)
      BY <2>5, <2>6 DEF Unprobed
    <2> QED BY <1>1, <1>3, <2>7 DEF Unprobed, OfFirstTrace
  <1> QED BY <1>2, <1>4, <1>5, AnswersToFirstTrace

(* Rivals send for the first trace only. *)
LEMMA RivalsUnprobed ==
  ASSUME Gleam!AmountsAreIntegers, EInv, Unprobed, NEW c \in Rivals, Gleam!RivalSends(c)
  PROVE  Unprobed'
  <1>1. PICK op \in {"issue", "withdraw", "defect", "stop"}, destination \in {Gleam!Here, Gleam!There},
             amount \in RivalAmounts, grant \in granted \cup {Gleam!NoGrant} :
          Gleam!Send(c, Gleam!Message(c, Gleam!Step(op, "valid", destination, amount), grant))
    BY DEF Gleam!RivalSends
  <1>2. PICK st \in Steps : st = Gleam!Step(op, "valid", destination, amount) /\ st.trace = "valid"
    <2>1. Gleam!Step(op, "valid", destination, amount) \in Steps
      BY StepTyped DEF Gleam!AmountsAreIntegers, Ops, Gleam!Traces
    <2>2. Gleam!Step(op, "valid", destination, amount).trace = "valid"
      BY DEF Gleam!Step
    <2> QED BY <2>1, <2>2
  <1>3. c \in Gleam!Clients /\ grant \in Grants
    <2>1. granted \subseteq Grants /\ Gleam!NoGrant \in Grants
      BY DEF EInv, ActorTyped, Gleam!NoGrant, Grants
    <2> QED BY <2>1 DEF Gleam!Clients
  <1>4. PICK m \in Messages : m = Gleam!Message(c, st, grant) /\ m.trace = "valid"
    <2>1. Gleam!Message(c, st, grant) \in Messages
      BY <1>3, MessageTyped
    <2>2. Gleam!Message(c, st, grant).trace = "valid"
      BY <1>2 DEF Gleam!Message
    <2> QED BY <2>1, <2>2
  <1>5. Gleam!Send(c, m) /\ UNCHANGED <<script, heard>>
    BY <1>1, <1>2, <1>4 DEF Gleam!RivalSends
  <1>6. clients[c] \in ClientStates
    BY <1>3 DEF EInv, ClientsAreSound
  <1>7. OfFirstTrace(mailbox')
    <2>1. mailbox' = Append(mailbox, m) \/ mailbox' = mailbox
      BY <1>5 DEF Gleam!Send
    <2>2. OfFirstTrace(mailbox) /\ mailbox \in Seq(Messages)
      BY ProberTyped DEF Unprobed
    <2> QED BY <1>4, <2>1, <2>2, FirstTraceGrows
  <1>8. \E k : clients' = [clients EXCEPT ![c] = k] /\ k.inbox = clients[c].inbox
    <2>1. CASE actor.status = "running"
      <3>1. clients' = [clients EXCEPT ![c] = Gleam!Asked(clients[c], m)]
        BY <1>5, <2>1 DEF Gleam!Send
      <3>2. Gleam!Asked(clients[c], m).inbox = clients[c].inbox
        BY DEF Gleam!Asked
      <3> QED BY <3>1, <3>2
    <2>2. CASE actor.status # "running"
      <3>1. PICK k : k = [clients[c] EXCEPT !.status = "crashed"]
        OBVIOUS
      <3>2. clients' = [clients EXCEPT ![c] = k] /\ k.inbox = clients[c].inbox
        BY <1>5, <1>6, <2>2, <3>1 DEF Gleam!Send, ClientStates
      <3> QED BY <3>2
    <2> QED BY <2>1, <2>2
  <1>9. PICK k : clients' = [clients EXCEPT ![c] = k] /\ k.inbox = clients[c].inbox
    BY <1>8
  <1>10. clients'[c] = k /\ \A d \in Gleam!Clients \ {c} : clients'[d] = clients[d]
    BY <1>3, <1>9, OnlyOne
  <1>11. \A d \in Gleam!Clients : OfFirstTrace(clients'[d].inbox)
    BY <1>9, <1>10 DEF Unprobed
  <1> QED BY <1>5, <1>7, <1>11 DEF Unprobed, OfFirstTrace

(* What rivals hear is of the first trace. *)
LEMMA ReceiveUnprobed ==
  ASSUME EInv, HeardTyped, Unprobed, NEW c \in Gleam!Clients, Gleam!Receive(c)
  PROVE  Unprobed'
  <1>1. /\ clients[c].status = "waiting" /\ Len(clients[c].inbox) = clients[c].waiting
        /\ clients' = [clients EXCEPT ![c] = Gleam!Answered(clients[c])] /\ UNCHANGED <<mailbox, script>>
    BY DEF Gleam!Receive
  <1>2. /\ clients[c].inbox \in Seq(Replies) /\ clients[c].waiting > 0 /\ clients[c].waiting \in Nat
    BY <1>1 DEF EInv, ClientsAreSound, ClientStates, IsSound
  <1>3. clients[c].inbox[1].trace = "valid"
    <2>1. 1 \in DOMAIN clients[c].inbox
      BY <1>1, <1>2
    <2> QED BY <2>1 DEF Unprobed, OfFirstTrace
  <1>4. heard'["replacement"] = heard["replacement"]
    <2>1. \/ heard' = heard
          \/ heard' = [heard EXCEPT !["valid"] = @ \o clients[c].inbox]
      BY <1>3 DEF Gleam!Receive
    <2> QED BY <2>1 DEF HeardTyped, Gleam!Traces
  <1>5. Gleam!Answered(clients[c]).inbox = <<>>
    BY DEF Gleam!Answered
  <1>6. PICK k : k = Gleam!Answered(clients[c])
    OBVIOUS
  <1>7. clients'[c] = k /\ \A d \in Gleam!Clients \ {c} : clients'[d] = clients[d]
    BY <1>1, <1>6, OnlyOne
  <1>8. \A d \in Gleam!Clients : OfFirstTrace(clients'[d].inbox)
    BY <1>5, <1>6, <1>7, FirstTraceEmpty DEF Unprobed
  <1> QED BY <1>1, <1>4, <1>8 DEF Unprobed, OfFirstTrace

(* A caller whose call fails hears nothing. *)
LEMMA CallFailsUnprobed ==
  ASSUME EInv, Unprobed, NEW c \in Gleam!Clients, Gleam!CallFails(c)
  PROVE  Unprobed'
  <1>1. PICK k : k = [clients[c] EXCEPT !.status = "crashed"]
    OBVIOUS
  <1>2. clients' = [clients EXCEPT ![c] = k] /\ UNCHANGED <<mailbox, script, heard>>
    BY <1>1 DEF Gleam!CallFails
  <1>3. k.inbox = clients[c].inbox
    BY <1>1 DEF EInv, ClientsAreSound, ClientStates
  <1>4. clients'[c] = k /\ \A d \in Gleam!Clients \ {c} : clients'[d] = clients[d]
    BY <1>2, OnlyOne
  <1>5. \A d \in Gleam!Clients : OfFirstTrace(clients'[d].inbox)
    BY <1>3, <1>4 DEF Unprobed
  <1> QED BY <1>2, <1>5 DEF Unprobed, OfFirstTrace

(* Without a probe nothing is ever heard of a replacement. *)
LEMMA UnprobedStays ==
  ASSUME Gleam!AmountsAreIntegers, EInv, HeardTyped, Unprobed, [Gleam!EntityNext]_(Gleam!entityVars)
  PROVE  Unprobed'
  <1>1. ~Gleam!ProbeSends
    BY DEF Unprobed, Gleam!ProbeSends
  <1>2. CASE Gleam!Handle
    BY <1>2, HandleUnprobed
  <1>3. CASE Gleam!Restart \/ Gleam!GiveUp \/ UNCHANGED Gleam!entityVars
    BY <1>3 DEF Gleam!Restart, Gleam!GiveUp, Gleam!entityVars, Unprobed, OfFirstTrace
  <1>4. ASSUME NEW c \in Gleam!Clients, Gleam!Receive(c) \/ Gleam!CallFails(c) PROVE Unprobed'
    BY <1>4, ReceiveUnprobed, CallFailsUnprobed
  <1>5. ASSUME NEW c \in Rivals, Gleam!RivalSends(c) PROVE Unprobed'
    BY <1>5, RivalsUnprobed
  <1> QED BY <1>1, <1>2, <1>3, <1>4, <1>5 DEF Gleam!EntityNext
-----------------------------------------------------------------------------
(* A probe under way stays so, or is lost.                                 *)
LEMMA ProbingKeeps ==
  ASSUME EInv, HeardTyped, Probing, [Gleam!EntityNext]_(Gleam!entityVars)
  PROVE  Probing' \/ Lost'
  <1>1. CASE Gleam!ProbeSends
    BY <1>1, ProbeSendsKeeps
  <1>2. CASE Gleam!Handle
    BY <1>2, HandleKeeps
  <1>3. CASE Gleam!Restart \/ Gleam!GiveUp
    BY <1>3, RestartKeeps, GiveUpKeeps
  <1>4. ASSUME NEW c \in Gleam!Clients, Gleam!Receive(c) \/ Gleam!CallFails(c) PROVE Probing' \/ Lost'
    BY <1>4, ReceiveKeeps, CallFailsKeeps
  <1>5. \A c \in Rivals : ~Gleam!RivalSends(c)
    BY RivalsHoldBack
  <1>6. CASE UNCHANGED Gleam!entityVars
    <2>1. UNCHANGED <<exactOne, actor, mailbox, clients, script, heard>>
      BY <1>6 DEF Gleam!entityVars
    <2>2. \A s, r, h \in 0..31 : OnCourse(s, r, h) => OnCourse(s, r, h)'
      BY <2>1 DEF OnCourse, ProberIs, ScriptIs, MailIs, InboxIs, HeardIs, ActorIs, Prober
    <2>3. \A s \in {23, 24} : AtDefect(s) => AtDefect(s)'
      BY <2>1 DEF AtDefect, ProberIs, ScriptIs, MailIs, InboxIs, HeardIs, ActorIs, Prober
    <2>4. Down => Down'
      BY <2>1 DEF Down, ProberIs, ScriptIs, MailIs, InboxIs, HeardIs, Prober
    <2> QED BY <2>1, <2>2, <2>3, <2>4 DEF Probing, OthersIdle
  <1> QED BY <1>1, <1>2, <1>3, <1>4, <1>5, <1>6 DEF Gleam!EntityNext

(* What has been heard stays a list of replies, trace by trace. *)
LEMMA HeardKeeps ==
  ASSUME EInv, HeardTyped, [Gleam!EntityNext]_(Gleam!entityVars)
  PROVE  HeardTyped'
  <1>1. CASE \E c \in Gleam!Clients : Gleam!Receive(c)
    BY <1>1, HeardStaysTyped
  <1>2. CASE ~\E c \in Gleam!Clients : Gleam!Receive(c)
    <2>1. heard' = heard
      BY <1>2 DEF Gleam!EntityNext, Gleam!entityVars, Gleam!ProbeSends, Gleam!Handle, Gleam!Restart,
        Gleam!GiveUp, Gleam!CallFails, Gleam!RivalSends
    <2> QED BY <2>1 DEF HeardTyped
  <1> QED BY <1>1, <1>2

(* Either there is no probe, or it is about to send its first message.     *)
LEMMA ProbeStarts == Gleam!EntityInit => GInv
  <1> SUFFICES ASSUME Gleam!EntityInit PROVE GInv
    OBVIOUS
  <1>1. EInv
    BY EntityInitHolds
  <1>2. /\ actor = Gleam!Fresh(1) /\ mailbox = <<>> /\ clients = [c \in Gleam!Clients |-> Gleam!Client]
        /\ script \in {<<>>} \cup (IF exactOne THEN {Gleam!ProbeScript} ELSE {}) /\ exactOne \in BOOLEAN
        /\ heard = [t \in Gleam!Traces |-> <<>>]
    BY DEF Gleam!EntityInit
  <1>3. HeardTyped
    BY <1>2 DEF HeardTyped
  <1>4. /\ Gleam!Client.status = "idle" /\ Gleam!Client.waiting = 0 /\ Gleam!Client.inbox = <<>>
        /\ Gleam!Client.grant = GrantAt(0) /\ Gleam!Client.sent = 0
    BY DEF Gleam!Client, Gleam!NoGrant, GrantAt, GrantOf
  <1>5. CASE script = <<>>
    <2>1. "replacement" \in Gleam!Traces
      BY DEF Gleam!Traces
    <2>2. heard["replacement"] = <<>>
      BY <1>2, <2>1
    <2>3. \A c \in Gleam!Clients : OfFirstTrace(clients[c].inbox)
      BY <1>2, <1>4, FirstTraceEmpty
    <2>4. Unprobed
      BY <1>2, <1>5, <2>2, <2>3, FirstTraceEmpty DEF Unprobed
    <2> QED BY <1>1, <1>3, <2>4 DEF GInv
  <1>6. CASE script # <<>>
    <2>1. exactOne /\ script = Gleam!ProbeScript
      BY <1>2, <1>6
    <2>2. Prober = Gleam!Client /\ OthersIdle
      BY <1>1, <1>2, <1>4, ProberTyped DEF Prober, OthersIdle
    <2> PICK s : s = 0
      OBVIOUS
    <2>3. ScriptIs(s)
      <3>1. Follows(script, 0, 31)
        BY <2>1, TheScript
      <3>2. 31 - s = 31 /\ Len(script) = 31 /\ \A i \in 1..31 : script[i] = StepAt(s + i)
        BY <3>1 DEF Follows
      <3> QED BY <3>2 DEF ScriptIs
    <2>4. MailIs(s, s) /\ InboxIs(s, s) /\ ProberIs("idle", s, s, 0)
      BY <1>2, <1>4, <2>2 DEF MailIs, InboxIs, ProberIs
    <2>5. ActorIs(s)
      BY <1>2 DEF ActorIs, Gleam!Fresh, Gleam!Initial, StatusAt, BalanceAt, IncarnationAt, NextAt, SpentAt, CallsAt
    <2>6. HeardIs(s)
      <3>1. \A t \in Gleam!Traces : HeardOf(t, s) = 0 /\ heard[t] = <<>>
        BY <1>2 DEF HeardOf, FirstOf, Gleam!Traces
      <3> QED BY <3>1 DEF HeardIs
    <2>7. s \in 0..31 /\ s \in 0..s /\ s \in s..s /\ s - s = 0 /\ s # 10 /\ s # 23
      OBVIOUS
    <2>8. OnCourse(s, s, s)
      BY <2>3, <2>4, <2>5, <2>6, <2>7 DEF OnCourse
    <2> QED BY <1>1, <1>3, <2>1, <2>2, <2>7, <2>8 DEF GInv, Probing
  <1> QED BY <1>5, <1>6
-----------------------------------------------------------------------------
(* A probe that prints has had every reply.                                *)
LEMMA ProbeIsOver ==
  ASSUME GInv, Gleam!Probed
  PROVE  HeardIs(31)
  <1>1. heard["replacement"] # <<>> /\ script = <<>> /\ Prober.status = "idle"
    BY DEF Gleam!Probed, Prober
  <1>2. Probing
    BY <1>1 DEF GInv, Lost, Unprobed
  <1>3. \A s \in 0..31 : ScriptIs(s) => s = 31
    <2>1. Len(script) = 0
      BY <1>1
    <2> QED BY <2>1 DEF ScriptIs
  <1>4. (\A s \in {23, 24} : ~AtDefect(s)) /\ ~Down
    BY <1>3 DEF AtDefect, Down
  <1>5. PICK s \in 0..31, r \in 0..31, h \in 0..31 : OnCourse(s, r, h)
    BY <1>2, <1>4 DEF Probing
  <1>6. s = 31
    BY <1>3, <1>5 DEF OnCourse
  <1>7. r = s
    BY <1>1, <1>5, <1>6 DEF OnCourse, ProberIs
  <1> QED BY <1>5, <1>6, <1>7 DEF OnCourse

(* What it has heard by then, trace by trace.                              *)
LEMMA TracesHeard ==
  ASSUME HeardIs(31)
  PROVE  /\ \A t \in {"valid", "reuse", "wrongDestination", "disabled", "stale", "replacement"} : Len(heard[t]) = 3
         /\ Len(heard["competing"]) = 4 /\ Len(heard["defect"]) = 1
         /\ \A i \in 1..3 : /\ ReplyIs(heard["valid"][i], i + 1)
                            /\ ReplyIs(heard["reuse"][i], i + 4)
                            /\ ReplyIs(heard["wrongDestination"][i], i + 13)
                            /\ ReplyIs(heard["disabled"][i], i + 17)
                            /\ ReplyIs(heard["stale"][i], i + 23)
                            /\ ReplyIs(heard["replacement"][i], i + 27)
         /\ \A i \in 1..4 : ReplyIs(heard["competing"][i], i + 8)
         /\ ReplyIs(heard["defect"][1], 22)
  <1>1. \A t \in Gleam!Traces : /\ Len(heard[t]) = HeardOf(t, 31)
                                /\ \A i \in 1..HeardOf(t, 31) : ReplyIs(heard[t][i], FirstOf(t) + i - 1)
    BY DEF HeardIs
  <1>2. /\ \A t \in {"valid", "reuse", "wrongDestination", "disabled", "stale", "replacement"} :
             t \in Gleam!Traces /\ HeardOf(t, 31) = 3
        /\ "competing" \in Gleam!Traces /\ HeardOf("competing", 31) = 4
        /\ "defect" \in Gleam!Traces /\ HeardOf("defect", 31) = 1
    BY DEF Gleam!Traces, HeardOf, FirstOf, LastOf
  <1>3. \A i \in 1..4 : /\ FirstOf("valid") + i - 1 = i + 1 /\ FirstOf("reuse") + i - 1 = i + 4
                        /\ FirstOf("wrongDestination") + i - 1 = i + 13 /\ FirstOf("disabled") + i - 1 = i + 17
                        /\ FirstOf("stale") + i - 1 = i + 23 /\ FirstOf("replacement") + i - 1 = i + 27
                        /\ FirstOf("competing") + i - 1 = i + 8
    BY DEF FirstOf
  <1>4. FirstOf("defect") + 1 - 1 = 22
    BY DEF FirstOf
  <1>5. Len(heard["competing"]) = 4 /\ Len(heard["defect"]) = 1 /\ ReplyIs(heard["defect"][1], 22)
    <2>1. 1 \in 1..HeardOf("defect", 31)
      BY <1>2
    <2>2. ReplyIs(heard["defect"][1], FirstOf("defect") + 1 - 1)
      BY <1>1, <1>2, <2>1
    <2> QED BY <1>1, <1>2, <1>4, <2>2
  <1>6. \A t \in {"valid", "reuse", "wrongDestination", "disabled", "stale", "replacement"} :
          Len(heard[t]) = 3 /\ \A i \in 1..3 : ReplyIs(heard[t][i], FirstOf(t) + i - 1)
    BY <1>1, <1>2
  <1>7. \A i \in 1..4 : ReplyIs(heard["competing"][i], i + 8)
    <2> TAKE i \in 1..4
    <2>1. ReplyIs(heard["competing"][i], FirstOf("competing") + i - 1)
      BY <1>1, <1>2
    <2> QED BY <1>3, <2>1
  <1>8. \A i \in 1..3 : /\ ReplyIs(heard["valid"][i], i + 1)
                        /\ ReplyIs(heard["reuse"][i], i + 4)
                        /\ ReplyIs(heard["wrongDestination"][i], i + 13)
                        /\ ReplyIs(heard["disabled"][i], i + 17)
                        /\ ReplyIs(heard["stale"][i], i + 23)
                        /\ ReplyIs(heard["replacement"][i], i + 27)
    <2> TAKE i \in 1..3
    <2>1. i \in 1..4
      OBVIOUS
    <2>2. /\ ReplyIs(heard["valid"][i], FirstOf("valid") + i - 1)
          /\ ReplyIs(heard["reuse"][i], FirstOf("reuse") + i - 1)
          /\ ReplyIs(heard["wrongDestination"][i], FirstOf("wrongDestination") + i - 1)
          /\ ReplyIs(heard["disabled"][i], FirstOf("disabled") + i - 1)
          /\ ReplyIs(heard["stale"][i], FirstOf("stale") + i - 1)
          /\ ReplyIs(heard["replacement"][i], FirstOf("replacement") + i - 1)
      BY <1>6
    <2> QED BY <1>3, <2>1, <2>2
  <1> QED BY <1>5, <1>6, <1>7, <1>8
-----------------------------------------------------------------------------
(* Of the two withdrawals that compete one is run, the other refused.      *)
LEMMA RaceHeard ==
  ASSUME HeardTyped, HeardIs(31)
  PROVE  /\ Gleam!Tagged("competing", "Success") = 1
         /\ Gleam!Tagged("competing", "CapabilityUseRejected") = 1
  <1>1. PICK q : q = heard["competing"] /\ q \in Seq(Replies)
    BY DEF HeardTyped, Gleam!Traces
  <1>2. Len(q) = 4 /\ \A i \in 1..4 : ReplyIs(q[i], i + 8)
    BY <1>1, TracesHeard
  <1>3. DOMAIN q = 1..4 /\ \A i \in 1..4 : q[i].tag = TagAt(i + 8)
    BY <1>1, <1>2 DEF ReplyIs
  <1>4. \A i \in 1..4 : /\ TagAt(i + 8) = "Success" <=> i = 2
                        /\ TagAt(i + 8) = "CapabilityUseRejected" <=> i = 3
    BY DEF TagAt, Issues
  <1>5. /\ {n \in DOMAIN q : q[n].tag = "Success"} = {2}
        /\ {n \in DOMAIN q : q[n].tag = "CapabilityUseRejected"} = {3}
    BY <1>3, <1>4
  <1>6. Cardinality({2}) = 1 /\ Cardinality({3}) = 1
    BY FS_Singleton
  <1>7. \A S : Gleam!Cardinality(S) = Cardinality(S)
    BY DEF Gleam!Cardinality, Cardinality
  <1> QED BY <1>1, <1>5, <1>6, <1>7 DEF Gleam!Tagged

(* The replies the report looks at.                                        *)
LEMMA ReportReads ==
  ASSUME HeardIs(31)
  PROVE  /\ Gleam!Heard("valid", 2, "Success", 6, 0, 1)
         /\ Gleam!Heard("reuse", 2, "CapabilityUseRejected", 6, 0, 1)
         /\ Gleam!Heard("competing", 2, "Success", 4, 0, 2)
         /\ Gleam!Heard("competing", 3, "CapabilityUseRejected", 4, 0, 2)
         /\ Gleam!Heard("wrongDestination", 2, "WrongDestination", 4, 1, 2)
         /\ Gleam!Heard("disabled", 2, "DomainRejected", 4, 1, 2)
         /\ Gleam!Heard("stale", 2, "StaleGrantRejected", 10, 0, 0)
         /\ Gleam!Replaced /\ heard["stale"][2].tag = "StaleGrantRejected"
  <1>1. /\ ReplyIs(heard["valid"][2], 3) /\ ReplyIs(heard["reuse"][2], 6)
        /\ ReplyIs(heard["competing"][2], 10) /\ ReplyIs(heard["competing"][3], 11)
        /\ ReplyIs(heard["wrongDestination"][2], 15) /\ ReplyIs(heard["disabled"][2], 19)
        /\ ReplyIs(heard["stale"][2], 25) /\ ReplyIs(heard["replacement"][2], 29)
        /\ ReplyIs(heard["defect"][1], 22)
    <2>1. /\ 2 \in 1..3 /\ 2 \in 1..4 /\ 3 \in 1..4 /\ 2 + 1 = 3 /\ 2 + 4 = 6 /\ 2 + 13 = 15 /\ 2 + 17 = 19
          /\ 2 + 23 = 25 /\ 2 + 27 = 29 /\ 2 + 8 = 10 /\ 3 + 8 = 11
      OBVIOUS
    <2>2. /\ ReplyIs(heard["valid"][2], 2 + 1) /\ ReplyIs(heard["reuse"][2], 2 + 4)
          /\ ReplyIs(heard["competing"][2], 2 + 8) /\ ReplyIs(heard["competing"][3], 3 + 8)
          /\ ReplyIs(heard["wrongDestination"][2], 2 + 13) /\ ReplyIs(heard["disabled"][2], 2 + 17)
          /\ ReplyIs(heard["stale"][2], 2 + 23) /\ ReplyIs(heard["replacement"][2], 2 + 27)
          /\ ReplyIs(heard["defect"][1], 22)
      BY <2>1, TracesHeard
    <2> QED BY <2>1, <2>2
  <1> USE DEF ReplyIs, TagAt, Issues, BalanceAt, LeftAt, CallsAt, Gleam!Heard
  <1>2. Gleam!Heard("valid", 2, "Success", 6, 0, 1)
    BY <1>1
  <1>3. Gleam!Heard("reuse", 2, "CapabilityUseRejected", 6, 0, 1)
    BY <1>1
  <1>4. Gleam!Heard("competing", 2, "Success", 4, 0, 2)
    BY <1>1
  <1>5. Gleam!Heard("competing", 3, "CapabilityUseRejected", 4, 0, 2)
    BY <1>1
  <1>6. Gleam!Heard("wrongDestination", 2, "WrongDestination", 4, 1, 2)
    BY <1>1
  <1>7. Gleam!Heard("disabled", 2, "DomainRejected", 4, 1, 2)
    BY <1>1
  <1>8. Gleam!Heard("stale", 2, "StaleGrantRejected", 10, 0, 0) /\ heard["stale"][2].tag = "StaleGrantRejected"
    BY <1>1
  <1>9. Gleam!Heard("replacement", 2, "Success", 7, 0, 1)
    BY <1>1
  <1>10. heard["replacement"][2].grant.incarnation = 2 /\ heard["defect"][1].grant.incarnation = 1
    BY <1>1 DEF GrantAt, GrantOf
  <1>11. Gleam!Replaced
    BY <1>9, <1>10 DEF Gleam!Replaced
  <1> QED BY <1>2, <1>3, <1>4, <1>5, <1>6, <1>7, <1>8, <1>11

(* The uses left before and after each trace.                              *)
LEMMA UsesHeard ==
  ASSUME HeardIs(31)
  PROVE  /\ heard["valid"][1].remaining = 1 /\ Gleam!Last(heard["valid"]).remaining = 0
         /\ heard["reuse"][1].remaining = 0 /\ Gleam!Last(heard["reuse"]).remaining = 0
         /\ heard["competing"][1].remaining = 1 /\ Gleam!Last(heard["competing"]).remaining = 0
         /\ heard["wrongDestination"][1].remaining = 1 /\ Gleam!Last(heard["wrongDestination"]).remaining = 1
         /\ heard["disabled"][1].remaining = 1 /\ Gleam!Last(heard["disabled"]).remaining = 1
         /\ heard["defect"][1].remaining = 1
         /\ heard["stale"][1].remaining = 0 /\ Gleam!Last(heard["stale"]).remaining = 0
         /\ heard["replacement"][1].remaining = 1 /\ Gleam!Last(heard["replacement"]).remaining = 0
  <1>1. \A q : Gleam!Last(q) = q[Len(q)]
    BY DEF Gleam!Last
  <1>2. /\ Gleam!Last(heard["valid"]) = heard["valid"][3] /\ Gleam!Last(heard["reuse"]) = heard["reuse"][3]
        /\ Gleam!Last(heard["competing"]) = heard["competing"][4]
        /\ Gleam!Last(heard["wrongDestination"]) = heard["wrongDestination"][3]
        /\ Gleam!Last(heard["disabled"]) = heard["disabled"][3] /\ Gleam!Last(heard["stale"]) = heard["stale"][3]
        /\ Gleam!Last(heard["replacement"]) = heard["replacement"][3]
    BY <1>1, TracesHeard
  <1>3. /\ \A i \in 1..3 : /\ heard["valid"][i].remaining = LeftAt(i + 1)
                           /\ heard["reuse"][i].remaining = LeftAt(i + 4)
                           /\ heard["wrongDestination"][i].remaining = LeftAt(i + 13)
                           /\ heard["disabled"][i].remaining = LeftAt(i + 17)
                           /\ heard["stale"][i].remaining = LeftAt(i + 23)
                           /\ heard["replacement"][i].remaining = LeftAt(i + 27)
        /\ \A i \in 1..4 : heard["competing"][i].remaining = LeftAt(i + 8)
        /\ heard["defect"][1].remaining = LeftAt(22)
    BY TracesHeard DEF ReplyIs
  <1>4. /\ \A i \in 1..3 : /\ i # 2 => LeftAt(i + 1) = (IF i = 1 THEN 1 ELSE 0) /\ LeftAt(i + 4) = 0
                           /\ LeftAt(i + 13) = 1 /\ LeftAt(i + 17) = 1 /\ LeftAt(i + 23) = 0
                           /\ i # 2 => LeftAt(i + 27) = (IF i = 1 THEN 1 ELSE 0)
        /\ \A i \in 1..4 : LeftAt(i + 8) = (IF i = 1 THEN 1 ELSE 0)
        /\ LeftAt(22) = 1
    BY DEF LeftAt, Issues
  <1>5. 1 \in 1..3 /\ 3 \in 1..3 /\ 1 \in 1..4 /\ 4 \in 1..4
    OBVIOUS
  <1>6. /\ heard["valid"][1].remaining = 1 /\ heard["valid"][3].remaining = 0
        /\ heard["reuse"][1].remaining = 0 /\ heard["reuse"][3].remaining = 0
        /\ heard["competing"][1].remaining = 1 /\ heard["competing"][4].remaining = 0
        /\ heard["wrongDestination"][1].remaining = 1 /\ heard["wrongDestination"][3].remaining = 1
        /\ heard["disabled"][1].remaining = 1 /\ heard["disabled"][3].remaining = 1
        /\ heard["defect"][1].remaining = 1
        /\ heard["stale"][1].remaining = 0 /\ heard["stale"][3].remaining = 0
        /\ heard["replacement"][1].remaining = 1 /\ heard["replacement"][3].remaining = 0
    BY <1>3, <1>4, <1>5
  <1> QED BY <1>2, <1>6

(* Then what the probe prints is what the evidence package demands.        *)
LEMMA EntityReportPasses ==
  ASSUME HeardTyped, HeardIs(31)
  PROVE  Gleam!CheckObservations([target |-> "gleam-beam", id |-> [realization |-> Realization],
                                  observations |-> Gleam!Normalize(Gleam!GleamReport)])
  <1> DEFINE passes(j) ==
        CASE j = "validCall"        -> Gleam!Heard("valid", 2, "Success", 6, 0, 1)
          [] j = "reuse"            -> Gleam!Heard("reuse", 2, "CapabilityUseRejected", 6, 0, 1)
          [] j = "competing"        -> /\ Gleam!Heard("competing", 2, "Success", 4, 0, 2)
                                       /\ Gleam!Heard("competing", 3, "CapabilityUseRejected", 4, 0, 2)
          [] j = "wrongDestination" -> Gleam!Heard("wrongDestination", 2, "WrongDestination", 4, 1, 2)
          [] j = "disabled"         -> Gleam!Heard("disabled", 2, "DomainRejected", 4, 1, 2)
          [] j = "defect"           -> Gleam!Heard("stale", 2, "StaleGrantRejected", 10, 0, 0)
  <1>1. \A j \in Gleam!Journeys : passes(j)
    <2>1. passes("validCall") BY ReportReads
    <2>2. passes("reuse") BY ReportReads
    <2>3. passes("competing") BY ReportReads
    <2>4. passes("wrongDestination") BY ReportReads
    <2>5. passes("disabled") BY ReportReads
    <2>6. passes("defect") BY ReportReads
    <2> HIDE DEF passes
    <2> QED BY <2>1, <2>2, <2>3, <2>4, <2>5, <2>6 DEF Gleam!Journeys
  <1> DEFINE left == [t \in Gleam!Traces |-> <<heard[t][1].remaining,
                         IF t = "defect" THEN Gleam!Last(heard["stale"]).remaining
                         ELSE Gleam!Last(heard[t]).remaining>>]
  <1>2. left = Gleam!ExpectedRemaining("gleam-beam")
    <2> DEFINE expected == Gleam!ExpectedRemaining("gleam-beam")
    <2>1. /\ expected = [t \in Gleam!Traces |-> expected[t]] /\ DOMAIN expected = Gleam!Traces
          /\ expected["valid"] = <<1, 0>> /\ expected["reuse"] = <<0, 0>>
          /\ expected["competing"] = <<1, 0>> /\ expected["wrongDestination"] = <<1, 1>>
          /\ expected["disabled"] = <<1, 1>> /\ expected["defect"] = <<1, 0>> /\ expected["stale"] = <<0, 0>>
          /\ expected["replacement"] = <<1, 0>>
      BY DEF Gleam!ExpectedRemaining, Gleam!Traces
    <2>2. /\ left["valid"] = <<1, 0>> /\ left["reuse"] = <<0, 0>> /\ left["competing"] = <<1, 0>>
          /\ left["wrongDestination"] = <<1, 1>> /\ left["disabled"] = <<1, 1>> /\ left["stale"] = <<0, 0>>
          /\ left["replacement"] = <<1, 0>> /\ left["defect"] = <<1, 0>>
      BY UsesHeard DEF Gleam!Traces
    <2>3. left = [t \in Gleam!Traces |-> left[t]]
      OBVIOUS
    <2> HIDE DEF expected, left
    <2>4. \A t \in Gleam!Traces : left[t] = expected[t]
      BY <2>1, <2>2 DEF Gleam!Traces
    <2>5. left = expected
      BY <2>1, <2>3, <2>4
    <2> QED BY <2>5 DEF expected
  <1> DEFINE flags == (IF heard["stale"][2].tag = "StaleGrantRejected" THEN {"oldGrantRejected"} ELSE {})
                      \cup (IF Gleam!Replaced THEN {"freshGrantDistinct", "replacementGrantAccepted"} ELSE {})
  <1>3. flags \cup {"supervised"} = Gleam!RestartFlags
    BY ReportReads DEF Gleam!RestartFlags
  <1> HIDE DEF left, passes, flags
  <1>4. /\ Gleam!GleamReport.target = "gleam-beam" /\ Gleam!GleamReport.realization = Realization
        /\ Gleam!GleamReport.passed = {j \in Gleam!Journeys : passes(j)}
        /\ Gleam!GleamReport.successes = Gleam!Tagged("competing", "Success")
        /\ Gleam!GleamReport.rejections = Gleam!Tagged("competing", "CapabilityUseRejected")
        /\ Gleam!GleamReport.remaining = left /\ Gleam!GleamReport.supervised = "yes"
        /\ Gleam!GleamReport.restart = {flags}
    BY DEF Gleam!GleamReport, left, passes, flags
  <1>5. Gleam!GleamReport.passed = Gleam!Journeys
    BY <1>1, <1>4
  <1>6. PICK o : o = Gleam!Normalize(Gleam!GleamReport)
    OBVIOUS
  <1>7. /\ o.target = "gleam-beam" /\ o.realization = Realization /\ o.passed = Gleam!Journeys
        /\ o.successes = 1 /\ o.rejections = 1
        /\ o.remaining = Gleam!ExpectedRemaining("gleam-beam")
    BY <1>2, <1>4, <1>5, <1>6, RaceHeard DEF Gleam!Normalize
  <1>8. o.restart = {Gleam!RestartFlags}
    <2>1. o.restart = {f \cup {"supervised"} : f \in {flags}}
      BY <1>4, <1>6 DEF Gleam!Normalize
    <2> QED BY <1>3, <2>1
  <1> QED BY <1>6, <1>7, <1>8 DEF Gleam!CheckObservations

(* The probe of the supervised entity prints what the evidence demands, or *)
(* nothing: a message lost with the actor, or sent while it is down, ends  *)
(* the probe (run_exact_one_probe).                                    *)
LEMMA EntityProbeShowsExactOne ==
  ASSUME Gleam!AmountsAreIntegers
  PROVE  Gleam!EntitySpec => []Gleam!ProbeShowsExactOne
  <1>1. Gleam!EntityInit => GInv
    BY ProbeStarts
  <1>2. GInv /\ [Gleam!EntityNext]_(Gleam!entityVars) => GInv'
    <2> SUFFICES ASSUME GInv, [Gleam!EntityNext]_(Gleam!entityVars) PROVE GInv'
      OBVIOUS
    <2>1. EInv /\ HeardTyped
      BY DEF GInv
    <2>2. EInv' /\ HeardTyped'
      BY <2>1, EntityKeeps, HeardKeeps
    <2>3. CASE Probing
      BY <2>1, <2>2, <2>3, ProbingKeeps DEF GInv
    <2>4. CASE Lost
      BY <2>1, <2>2, <2>4, LostStays DEF GInv
    <2>5. CASE Unprobed
      BY <2>1, <2>2, <2>5, UnprobedStays DEF GInv
    <2> QED BY <2>3, <2>4, <2>5 DEF GInv
  <1>3. GInv => Gleam!ProbeShowsExactOne
    BY ProbeIsOver, EntityReportPasses DEF Gleam!ProbeShowsExactOne, GInv
  <1> QED BY <1>1, <1>2, <1>3, PTL DEF Gleam!EntitySpec

(* Whatever else the boundaries are asked meanwhile, a probe prints what   *)
(* the evidence package demands of it, or nothing: the competitors of the  *)
(* Effect probe in either order, the Gleam probe through a defect that may *)
(* take its next message with it (emitEffectSingleUseProbe,                *)
(* run_exact_one_probe).                                                   *)
THEOREM ProbesShowExactOneAtBoth ==
  Effect!BoundarySpec /\ Gleam!EntitySpec => []ProbesShowExactOne
  <1>1. Effect!BoundarySpec => []Effect!ProbeShowsExactOne
    BY EffectProbeShowsExactOne, JourneysAssumption
  <1>2. Gleam!EntitySpec => []Gleam!ProbeShowsExactOne
    BY EntityProbeShowsExactOne, AmountsAssumption
  <1>3. Effect!ProbeShowsExactOne /\ Gleam!ProbeShowsExactOne => ProbesShowExactOne
    BY DEF ProbesShowExactOne
  <1> QED BY <1>1, <1>2, <1>3, PTL
=============================================================================
