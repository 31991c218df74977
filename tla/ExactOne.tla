------------------------------ MODULE ExactOne ------------------------------
(***************************************************************************)
(* The theory of exact-one capability execution: whether it applies to a   *)
(* requirement of a checked document, and how a target's realization of    *)
(* the requirement is classified from a profile of its evidence.           *)
(***************************************************************************)
EXTENDS Normalization

Obligations == {"check-before-consumption", "consume-atomically-before-execution",
                "reject-reuse-before-execution", "no-restore-after-start"}

(* An address names a requirement as the normalized document does. *)
RealizationOf(address) ==
  IF Len(address) = 4 /\ address[1] = "operationRealization" /\ address[3] = "requirement"
  THEN address[2] ELSE "none"

RealizationAt(document, address) ==
  {d \in OfKind(document, "operationRealization") : d.id = RealizationOf(address)}

RequirementsAt(realization, address) ==
  {i \in DOMAIN realization.requires : realization.requires[i].capability = address[4]}

OperationBindings(document, realization) ==
  {b \in {"initializer", "transition"} :
     \E m \in OfKind(document, "stateMachine") :
       /\ m.id = realization.machine
       /\ realization.operation \in
            Ids(IF b = "initializer" THEN m.initializers ELSE m.transitions)}

ProvenanceOfReferents(realization, binding, address) ==
  {Part(realization, "operation", "operation"),
   <<"stateMachine", realization.machine, binding, realization.operation>>,
   <<"capability", address[4]>>}

(* The addresses of all four premises: these invalidate the result. *)
Provenance(realization, binding, address) ==
  {Root(realization), Part(realization, "operation", "operation"),
   <<"stateMachine", realization.machine, binding, realization.operation>>,
   <<"capability", address[4]>>, address}

TheoryFailure(reason) == [tag |-> "failed", reason |-> reason]

TheoryResult(requirement, address, provenance, addresses) ==
  IF ~(provenance \subseteq addresses) THEN TheoryFailure("inconsistent-checked-core")
  ELSE [tag |-> IF requirement.quantity = 1 THEN "Applicable" ELSE "NotApplicable",
        requirementAddress |-> address, invalidators |-> provenance,
        obligations |-> IF requirement.quantity = 1 THEN Obligations ELSE {}]

ResolveRequirement(document, addresses, address, realization, at) ==
  LET bindings == OperationBindings(document, realization)
  IN CASE Cardinality(at) > 1 -> TheoryFailure("ambiguous-requirement-address")
       [] at = {} -> TheoryFailure("unknown-requirement-address")
       [] OTHER ->
            IF \/ bindings = {}
               \/ \A c \in OfKind(document, "capability") : c.id # address[4]
            THEN TheoryFailure("inconsistent-checked-core")
            ELSE TheoryResult(realization.requires[CHOOSE i \in at : TRUE], address,
                   Provenance(realization,
                     IF "initializer" \in bindings THEN "initializer" ELSE "transition", address),
                   addresses)

(* consumeExactOneCapabilityExecution, of a checked document and the       *)
(* addresses of its normalization.                                         *)
ConsumeExactOne(document, addresses, address) ==
  IF RealizationAt(document, address) = {} THEN TheoryFailure("unknown-requirement-address")
  ELSE LET realization == CHOOSE d \in RealizationAt(document, address) : TRUE
       IN ResolveRequirement(document, addresses, address, realization,
                             RequirementsAt(realization, address))
-----------------------------------------------------------------------------
(* A profile gives each obligation a disposition and the classes of its    *)
(* evidence.                                                               *)
AssessmentHolds(assessment) ==
  CASE assessment.disposition = "supported" ->
         /\ assessment.evidence # {}
         /\ assessment.evidence \cap {"unsupported-by-target", "unresolved"} = {}
    [] assessment.disposition = "rejected" -> "unsupported-by-target" \in assessment.evidence
    [] OTHER -> "unsupported-by-target" \notin assessment.evidence

AssessmentsHold(assessments) ==
  /\ DOMAIN assessments = Obligations
  /\ \A o \in DOMAIN assessments : AssessmentHolds(assessments[o])

Disposed(profile, disposition) ==
  \E o \in DOMAIN profile.assessments : profile.assessments[o].disposition = disposition

ProfileHolds(profile) ==
  /\ AssessmentsHold(profile.assessments)
  /\ RealizationOf(profile.requirementAddress) = profile.realization
  /\ Disposed(profile, "rejected") <=> profile.targetRejected

HasQualification(profile) ==
  \/ profile.assumptions # {} \/ profile.weakenings # {}
  \/ \E o \in DOMAIN profile.assessments :
       profile.assessments[o].evidence \cap {"runtime-checked", "assumed-truthful"} # {}

(* rejected > unknown > qualified > admissible *)
Classified(profile) ==
  IF Disposed(profile, "rejected") THEN "Rejected"
  ELSE IF Disposed(profile, "unresolved") THEN "Unknown"
  ELSE IF HasQualification(profile) THEN "Qualified"
  ELSE "Admissible"

(* The checks of a classification result when it is decoded again. *)
ClassificationHolds(tag, profile) ==
  /\ ProfileHolds(profile)
  /\ profile.targetRejected <=> tag = "Rejected"
  /\ tag = "Rejected" <=> Disposed(profile, "rejected")
  /\ tag = "Unknown" => Disposed(profile, "unresolved")
  /\ tag \in {"Admissible", "Qualified"} =>
       /\ \A o \in Obligations : profile.assessments[o].disposition = "supported"
       /\ HasQualification(profile) <=> tag = "Qualified"

ClassifyExactOne(profile, theory) ==
  LET Fails(reason) == [tag |-> "failed", reason |-> reason]
  IN IF ~ProfileHolds(profile) THEN Fails("invalid-profile")
     ELSE IF theory.tag # "Applicable" THEN Fails("inapplicable-theory-result")
     ELSE IF theory.obligations # Obligations THEN Fails("missing-obligation")
     ELSE IF profile.requirementAddress # theory.requirementAddress THEN Fails("identity-mismatch")
     ELSE IF ClassificationHolds(Classified(profile), profile)
          THEN [tag |-> Classified(profile), profile |-> profile]
          ELSE Fails("invalid-classification")
=============================================================================
