------------------------- MODULE SingleUseEvidence -------------------------
(***************************************************************************)
(* The M018 evidence of a single-use capability: a manifest records two    *)
(* calls made on one grant, and two more on a grant whose first use ended  *)
(* in a defect.  A manifest is accepted when it says exactly that, of the  *)
(* checked Core it is read with.                                           *)
(***************************************************************************)
EXTENDS CoreLanguage

TargetWeakenings == {"forgeable-grant", "bypassable-boundary", "one-process", "no-time"}

(* A call: its place, identities and amount, the balance and uses before,  *)
(* and its outcome.                                                        *)
CallIs(call, sequence, id, grant, entity, amount) ==
  /\ call.sequence = sequence /\ call.invocation = id
  /\ call.grant = grant /\ call.destination = entity /\ call.amount = amount

Outcome(tag, balance, remaining, calls) ==
  [tag |-> tag, balance |-> balance, remaining |-> remaining, implementationCalls |-> calls]

SourceIsKnown(source) ==
  source = [machine |-> "Account", operation |-> "withdraw",
            realization |-> "WithdrawAccountOnce", capability |-> "DebitAccount",
            failure |-> "WithdrawalRejectedOnce", quantity |-> 1]

(* Four withdrawn of ten, then one refused. *)
CallsShowOneUse(observation) ==
  /\ observation.entity = "account-1" /\ observation.initial = 10
  /\ IsList(observation.calls) /\ Len(observation.calls) = 2
  /\ LET first == observation.calls[1]
         second == observation.calls[2]
     IN /\ CallIs(first, 0, "withdraw-1", observation.grant, "account-1", 4)
        /\ CallIs(second, 1, "withdraw-2", observation.grant, "account-1", 1)
        /\ first.balance = 10 /\ first.uses = 1 /\ first.outcome = Outcome("Success", 6, 0, 1)
        /\ second.balance = 6 /\ second.uses = 0
        /\ second.outcome = Outcome("CapabilityUseRejected", 6, 0, 1)

(* The defect consumed the grant, changed no state, and was not undone. *)
DefectKeepsConsumed(observation) ==
  LET defect == observation.defect
      first == defect.first
      reuse == defect.reuse
      invocations == {observation.calls[i].invocation : i \in DOMAIN observation.calls}
  IN /\ CallIs(first, 0, first.invocation, defect.grant, observation.entity, 4)
     /\ CallIs(reuse, 1, reuse.invocation, defect.grant, observation.entity, 1)
     /\ first.invocation # reuse.invocation
     /\ {first.invocation, reuse.invocation} \cap invocations = {}
     /\ first.uses = 1 /\ first.outcome = Outcome("Defect", first.balance, 0, 1)
     /\ reuse.uses = 0 /\ reuse.outcome.tag = "CapabilityUseRejected"
     /\ reuse.outcome.remaining = 0 /\ reuse.outcome.implementationCalls = 1

ValidManifest(manifest) ==
  /\ TargetWeakenings \subseteq manifest.weakenings
  /\ SourceIsKnown(manifest.source)
  /\ CallsShowOneUse(manifest.observation) /\ DefectKeepsConsumed(manifest.observation)

(* The quantity is read from Core, never trusted from the target. *)
ManifestMatchesCore(source, document) ==
  /\ \E m \in OfKind(document, "stateMachine") :
       m.id = source.machine /\ source.operation \in Ids(m.transitions)
  /\ \E c \in OfKind(document, "capability") : c.id = source.capability
  /\ \E r \in OfKind(document, "operationRealization") :
       /\ r.id = source.realization
       /\ r.machine = source.machine /\ r.operation = source.operation
       /\ r.disabled = source.failure
       /\ \E q \in Members(r.requires) :
            q.capability = source.capability /\ q.quantity = source.quantity

(* The materials in the order they are digested again. *)
MaterialOrder == <<"coreSource", "generatedBoundary", "realization">>
-----------------------------------------------------------------------------
(* What a counter of one use says of these calls: a call while a use is    *)
(* left spends it and runs the implementation, a later one does neither.   *)
CounterExplains(calls) ==
  \A i \in DOMAIN calls :
    LET spent == \E j \in DOMAIN calls : j < i /\ calls[j].grant = calls[i].grant
        outcome == calls[i].outcome
    IN /\ calls[i].uses = IF spent THEN 0 ELSE 1
       /\ outcome.remaining = 0
       /\ outcome.implementationCalls = 1
       /\ outcome.tag = "CapabilityUseRejected" <=> spent
       /\ outcome.tag = "Success" => outcome.balance = calls[i].balance - calls[i].amount
=============================================================================
