--------------------------- MODULE TargetEvidence ---------------------------
(***************************************************************************)
(* M031 target evidence: what one fresh probe of a generated exact-one     *)
(* boundary reported, the materials it cites, and the checks the evidence  *)
(* package makes before anything may rely on it.                           *)
(*                                                                         *)
(* evidence    [target, id, selection, package, observations, materials]   *)
(* id          [artifact, theory, requirement, realization]                *)
(* observation [target, realization, passed, successes, rejections,        *)
(*              remaining, restart]: the journeys that passed, the calls   *)
(*              that competed, the remaining uses <<before, after>> of each*)
(*              trace, and {} or {the restart facts that held}.            *)
(***************************************************************************)
EXTENDS Naturals, Sequences, FiniteSets

Targets == {"effect-typescript", "gleam-beam"}
Journeys == {"validCall", "reuse", "competing", "wrongDestination", "disabled", "defect"}
Traces == {"valid", "reuse", "competing", "wrongDestination", "disabled", "defect",
           "stale", "replacement"}
RestartFlags == {"oldGrantRejected", "freshGrantDistinct", "replacementGrantAccepted",
                 "supervised"}

BoundaryRole(target) == IF target = "effect-typescript" THEN "generated-effect-boundary"
                        ELSE "generated-gleam-boundary"

(* normalizeM031ProbeObservation: a probe that reports a restart and says  *)
(* nothing of supervision is taken to be supervised.                       *)
Normalize(probe) ==
  [target |-> probe.target, realization |-> probe.realization, passed |-> probe.passed,
   successes |-> probe.successes, rejections |-> probe.rejections,
   remaining |-> probe.remaining,
   restart |-> {flags \cup (IF probe.supervised = "no" THEN {} ELSE {"supervised"}) :
                  flags \in probe.restart}]

ExpectedRemaining(target) ==
  [t \in Traces |->
     CASE t \in {"valid", "competing", "defect"}   -> <<1, 0>>
       [] t \in {"reuse", "stale"}                 -> <<0, 0>>
       [] t \in {"wrongDestination", "disabled"}   -> <<1, 1>>
       [] t = "replacement" -> IF target = "gleam-beam" THEN <<1, 0>> ELSE <<1, 1>>]

CheckObservations(evidence) ==
  LET o == evidence.observations
  IN /\ o.target = evidence.target
     /\ o.realization = evidence.id.realization
     /\ o.passed = Journeys
     /\ o.successes = 1 /\ o.rejections = 1
     /\ o.remaining = ExpectedRemaining(evidence.target)
     /\ o.restart = (IF evidence.target = "gleam-beam" THEN {RestartFlags} ELSE {})

CheckMaterialUniqueness(materials) ==
  \A i, j \in 1..Len(materials) :
    i # j => materials[i].role # materials[j].role /\ materials[i].path # materials[j].path

CheckTargetMaterials(evidence) ==
  /\ Len(evidence.materials) = 2
  /\ {"core-source", BoundaryRole(evidence.target)}
       \subseteq {evidence.materials[i].role : i \in 1..Len(evidence.materials)}

(* checkM031TargetQualificationEvidence: shape first, then the identities  *)
(* its authority expects.                                                  *)
CheckEvidence(evidence, context) ==
  /\ CheckMaterialUniqueness(evidence.materials)
  /\ CheckTargetMaterials(evidence)
  /\ CheckObservations(evidence)
  /\ evidence.target = context.target
  /\ evidence.id = context.id
  /\ evidence.package = context.package

CheckEvidenceEach(records, context) ==
  \A i \in 1..2 : CheckEvidence(records[i], [context EXCEPT !.target = records[i].target])

(* Two records, Effect before Gleam, of one subject; the only material they*)
(* may share is the same core source.                                      *)
CheckEvidenceSet(records, context) ==
  /\ Len(records) = 2
  /\ records[1].target = "effect-typescript" /\ records[2].target = "gleam-beam"
  /\ \A i \in 1..2 : CheckEvidence(records[i], [context EXCEPT !.target = records[i].target])
  /\ records[1].selection = records[2].selection
  /\ records[1].id = records[2].id /\ records[1].package = records[2].package
  /\ \A i, j \in 1..2 :
       LET m == records[1].materials[i]
           n == records[2].materials[j]
       IN m.path = n.path =>
            m.role = "core-source" /\ n.role = "core-source" /\ m.sha = n.sha

(* Every material must be at hand with the digest the record cites. *)
VerifyMaterialBytes(evidence, bytes) ==
  \A i \in 1..Len(evidence.materials) :
    LET m == evidence.materials[i]
    IN m.path \in DOMAIN bytes /\ bytes[m.path] = m.sha

PackageDigestAgrees(observed, expected) == observed = expected
=============================================================================
