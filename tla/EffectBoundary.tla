--------------------------- MODULE EffectBoundary ---------------------------
(***************************************************************************)
(* The TypeScript boundary generated for an operation that a capability    *)
(* allows exactly once, and the probe generated beside it.  The boundary   *)
(* keeps no state of its own: a caller hands it a state, and it answers    *)
(* with the next one.  What it keeps is each grant's use and the number of *)
(* calls of the implementation it wraps.                                   *)
(*                                                                         *)
(* A journey is a sequence of phases; the calls of a phase run as          *)
(* concurrent fibers, and the next phase begins when all are observed.     *)
(*   phase [trace, layer, issues, calls]   layer: what is implemented      *)
(*   call  [back, destination, carries, state, amount]                     *)
(* back counts grants from the latest; a call that carries uses the state  *)
(* the last observation ended with.                                        *)
(***************************************************************************)
EXTENDS TargetEvidence, Integers

CONSTANTS Realization,       \* whose boundary it is
          OtherJourneys      \* what else callers may do with the boundary

VARIABLES
  grantStates,          \* available or consumed, in order of issue
  implementationCalls,  \* of the layer in use
  fibers,               \* one for each call of the phase
  journey,              \* the phases to come, the one under way first
  phasesSeen,           \* the phases observed, and the one under way last: [phase, before,
                        \* fibers]
  grantRuns             \* how often each grant had the implementation run

boundaryVars == <<grantStates, implementationCalls, fibers, journey, phasesSeen, grantRuns>>

Entity == "account-1"
Elsewhere == "account-2"

(* What callers may ask for: a composing module assumes it of its journeys.*)
Calls == [back : Nat, destination : {Entity, Elsewhere}, carries : BOOLEAN, state : Int,
          amount : Int]
Phases == [trace : Traces, layer : {"healthy", "defecting", "any"}, issues : Nat,
           calls : Seq(Calls)]
JourneysAreTyped == OtherJourneys \subseteq Seq(Phases)

Call(back, destination, state, amount) ==
  [back |-> back, destination |-> destination, carries |-> FALSE, state |-> state,
   amount |-> amount]
CarryOn(amount) ==
  [back |-> 0, destination |-> Entity, carries |-> TRUE, state |-> 10, amount |-> amount]
Phase(trace, layer, issues, calls) ==
  [trace |-> trace, layer |-> layer, issues |-> issues, calls |-> calls]

EffectProbe ==
  << Phase("valid", "healthy", 1, <<Call(0, Entity, 10, 4)>>),
     Phase("reuse", "healthy", 0, <<CarryOn(1)>>),
     Phase("competing", "healthy", 1, <<Call(0, Entity, 6, 2), Call(0, Entity, 6, 2)>>),
     Phase("wrongDestination", "healthy", 1, <<Call(0, Elsewhere, 6, 2)>>),
     Phase("disabled", "healthy", 1, <<Call(0, Entity, 6, 20)>>),
     Phase("defect", "defecting", 1, <<Call(0, Entity, 10, 4)>>),
     Phase("stale", "defecting", 0, <<Call(0, Entity, 10, 1)>>) >>

RemainingUses(grant) == IF grantStates[grant] = "available" THEN 1 ELSE 0
Enabled_(state, amount) == state >= 0 /\ amount >= 0 /\ state >= amount
-----------------------------------------------------------------------------
BoundaryInit ==
  /\ journey \in {EffectProbe} \cup OtherJourneys
  /\ grantStates = <<>> /\ implementationCalls = 0
  /\ fibers = <<>> /\ phasesSeen = <<>> /\ grantRuns = <<>>

LastState == phasesSeen[Len(phasesSeen)].fibers[1].state

Fiber(call, issued) ==
  [pc |-> "check", grant |-> issued - call.back, destination |-> call.destination,
   state |-> IF call.carries THEN LastState ELSE call.state, amount |-> call.amount,
   outcome |-> "none", remaining |-> 0, calls |-> 0]

(* The phase's grants are issued and the latest one's use is read; then    *)
(* its calls start.  A layer that was not in use counts calls from nought. *)
Begin ==
  /\ journey # <<>> /\ fibers = <<>>
  /\ LET phase == Head(journey)
         fresh == [i \in 1..phase.issues |-> "available"]
         issued == Len(grantStates) + phase.issues
         first == phasesSeen = <<>> \/ phasesSeen[Len(phasesSeen)].phase.layer # phase.layer
     IN /\ grantStates' = grantStates \o fresh
        /\ grantRuns' = grantRuns \o [i \in 1..phase.issues |-> 0]
        /\ implementationCalls' = IF first THEN 0 ELSE implementationCalls
        /\ phasesSeen' = Append(phasesSeen, [phase |-> phase,
             before |-> IF phase.issues > 0 THEN 1 ELSE RemainingUses(issued), fibers |-> <<>>])
        /\ fibers' = [i \in DOMAIN phase.calls |-> Fiber(phase.calls[i], issued)]
  /\ UNCHANGED journey

Goes(f, pc) == fibers' = [fibers EXCEPT ![f].pc = pc]
Ends(f, outcome) == fibers' = [fibers EXCEPT ![f].pc = "uses", ![f].outcome = outcome]

(* The destination, then the transition's predicates; a refusal costs no   *)
(* use of the grant.                                                       *)
Check(f) ==
  /\ fibers[f].pc = "check"
  /\ IF fibers[f].destination # Entity THEN Ends(f, "WrongDestination")
     ELSE IF ~Enabled_(fibers[f].state, fibers[f].amount) THEN Ends(f, "DomainRejected")
     ELSE Goes(f, "consume")
  /\ UNCHANGED <<grantStates, implementationCalls, journey, phasesSeen, grantRuns>>

(* Faulty variant: sets the grant's state whatever it was. *)
ConsumeBySetting(f) ==
  /\ fibers[f].pc = "consume"
  /\ grantStates' = [grantStates EXCEPT ![fibers[f].grant] = "consumed"]
  /\ Goes(f, "count")
  /\ UNCHANGED <<implementationCalls, journey, phasesSeen, grantRuns>>

(* The grant's use is taken in one atomic step. *)
Consume(f) ==
  /\ fibers[f].pc = "consume"
  /\ IF grantStates[fibers[f].grant] = "available"
     THEN /\ grantStates' = [grantStates EXCEPT ![fibers[f].grant] = "consumed"]
          /\ Goes(f, "count")
     ELSE Ends(f, "CapabilityUseRejected") /\ UNCHANGED grantStates
  /\ UNCHANGED <<implementationCalls, journey, phasesSeen, grantRuns>>

Count(f) ==
  /\ fibers[f].pc = "count"
  /\ implementationCalls' = implementationCalls + 1
  /\ Goes(f, "run")
  /\ UNCHANGED <<grantStates, journey, phasesSeen, grantRuns>>

(* The implementation answers, refuses or dies; nothing gives the use back.*)
Outcomes(layer) ==
  CASE layer = "healthy"   -> {"Success"}
    [] layer = "defecting" -> {"Defect"}
    [] OTHER               -> {"Success", "DomainRejected", "Defect"}

Run(f) ==
  /\ fibers[f].pc = "run"
  /\ grantRuns' = [grantRuns EXCEPT ![fibers[f].grant] = @ + 1]
  /\ \E outcome \in Outcomes(Head(journey).layer) :
       fibers' = [fibers EXCEPT ![f].pc = "uses", ![f].outcome = outcome,
                    ![f].state = IF outcome = "Success" THEN @ - fibers[f].amount ELSE @]
  /\ UNCHANGED <<grantStates, implementationCalls, journey, phasesSeen>>

(* The observer reads the grant's use and the calls made, one after the    *)
(* other, while the phase's other calls go on.                             *)
ReadUses(f) ==
  /\ fibers[f].pc = "uses"
  /\ fibers' = [fibers EXCEPT ![f].pc = "calls", ![f].remaining = RemainingUses(fibers[f].grant)]
  /\ UNCHANGED <<grantStates, implementationCalls, journey, phasesSeen, grantRuns>>

ReadCalls(f) ==
  /\ fibers[f].pc = "calls"
  /\ fibers' = [fibers EXCEPT ![f].pc = "done", ![f].calls = implementationCalls]
  /\ UNCHANGED <<grantStates, implementationCalls, journey, phasesSeen, grantRuns>>

Finish ==
  /\ fibers # <<>> /\ \A f \in DOMAIN fibers : fibers[f].pc = "done"
  /\ phasesSeen' = [phasesSeen EXCEPT ![Len(phasesSeen)].fibers = fibers]
  /\ journey' = Tail(journey) /\ fibers' = <<>>
  /\ UNCHANGED <<grantStates, implementationCalls, grantRuns>>

FiberStep(f) == Check(f) \/ Consume(f) \/ Count(f) \/ Run(f) \/ ReadUses(f) \/ ReadCalls(f)

BoundaryNext == Begin \/ Finish \/ \E f \in DOMAIN fibers : FiberStep(f)

BoundarySpec == BoundaryInit /\ [][BoundaryNext]_boundaryVars
-----------------------------------------------------------------------------
(* What the probe prints once its own journey is over. *)
Probed == journey = <<>> /\ [i \in DOMAIN phasesSeen |-> phasesSeen[i].phase] = EffectProbe

Seen(trace) == CHOOSE p \in {phasesSeen[i] : i \in DOMAIN phasesSeen} : p.phase.trace = trace
Count_(trace, outcome) ==
  Cardinality({f \in DOMAIN Seen(trace).fibers : Seen(trace).fibers[f].outcome = outcome})
Is(trace, outcome) == Seen(trace).fibers[1].outcome = outcome

EffectReport ==
  [target |-> "effect-typescript", realization |-> Realization,
   passed |->
     {j \in Journeys :
        CASE j = "validCall"        -> Is("valid", "Success")
          [] j = "reuse"            -> Is("reuse", "CapabilityUseRejected")
          [] j = "competing"        -> /\ Count_("competing", "Success") = 1
                                       /\ Count_("competing", "CapabilityUseRejected") = 1
          [] j = "wrongDestination" -> Is("wrongDestination", "WrongDestination")
          [] j = "disabled"         -> Is("disabled", "DomainRejected")
          [] j = "defect"           -> Is("defect", "Defect") /\ Is("stale", "CapabilityUseRejected")},
   successes |-> Count_("competing", "Success"),
   rejections |-> Count_("competing", "CapabilityUseRejected"),
   remaining |->
     [t \in Traces |-> CASE t = "replacement" -> <<1, 1>>
                         [] t = "competing"   -> <<Seen(t).before, 0>>
                         [] OTHER             -> <<Seen(t).before, Seen(t).fibers[1].remaining>>],
   supervised |-> "absent", restart |-> {}]
-----------------------------------------------------------------------------
(* A grant pays for one run of the implementation: it never runs twice on  *)
(* one, however many callers compete and however a run ends, and a grant   *)
(* whose use is gone had its run, or a caller is about to run it.          *)
GrantsBuyOneRun ==
  \A g \in DOMAIN grantStates :
    LET due == {f \in DOMAIN fibers : fibers[f].grant = g /\ fibers[f].pc \in {"count", "run"}}
    IN grantRuns[g] + Cardinality(due) = 1 - RemainingUses(g)

(* Whatever order the competing fibers run in, the probe's print-out is    *)
(* what the evidence package demands of this target.                       *)
ProbeShowsExactOne ==
  Probed => CheckObservations([target |-> "effect-typescript", id |-> [realization |-> Realization],
                               observations |-> Normalize(EffectReport)])
=============================================================================
