------------------------------ MODULE Planning ------------------------------
(***************************************************************************)
(* The planner: an objective is an ordered list of operational demands, a  *)
(* contribution says what one target's checked evidence establishes, and   *)
(* planObjective matches the two without scores or defaults.               *)
(***************************************************************************)
EXTENDS TargetEvidence

Families == <<"runtime-model", "restart", "grant-restart">>
Unresolved == "unresolved"

DemandRank(family) == CHOOSE i \in 1..3 : Families[i] = family

(* Each family at most once, in the order of Families. *)
IsCanonicalDemandOrder(demands) ==
  \A i, j \in 1..Len(demands) :
    i < j => DemandRank(demands[i].family) < DemandRank(demands[j].family)

(* The claims each adapter makes, and the only ones planning accepts.      *)
ExpectedTargetClaims ==
  [t \in Targets |->
     IF t = "effect-typescript"
     THEN <<"in-process", Unresolved, Unresolved>>
     ELSE <<"supervised-actor", "supervised-restart", "invalidated-on-restart">>]
-----------------------------------------------------------------------------
(* A qualification is [tag, target, id], id as in the evidence. *)
EvidenceFits(target, qualification, evidence) ==
  /\ qualification.tag = "Qualified"
  /\ CheckEvidence(evidence, [target |-> target, id |-> qualification.id,
                              package |-> evidence.package])
  /\ qualification.target = target

(* One claim for each family, no family twice. *)
ClaimsCover(claims) ==
  Len(claims) = 3 /\ {claims[i].family : i \in 1..Len(claims)} = {Families[i] : i \in 1..3}

ClaimOf(claims, family) ==
  (CHOOSE c \in {claims[i] : i \in 1..Len(claims)} : c.family = family).value

Refused == [tag |-> "refused"]

MakePlanningContribution(target, qualification, evidence, claims, restart) ==
  IF ~EvidenceFits(target, qualification, evidence) \/ ~ClaimsCover(claims)
  THEN Refused
  ELSE [tag |-> "contribution", target |-> target,
        basis |-> <<evidence.id, evidence.selection, evidence.package>>,
        requirement |-> evidence.id.requirement,
        qualified |-> qualification.id,
        demands |-> [i \in 1..3 |-> ClaimOf(claims, Families[i])],
        materials |-> {evidence.materials[i] : i \in 1..Len(evidence.materials)},
        restart |-> restart]

(* What each target's adapter offers for its evidence. *)
MakeTargetContribution(target, qualification, evidence) ==
  MakePlanningContribution(target, qualification, evidence,
    [i \in 1..3 |-> [family |-> Families[i], value |-> ExpectedTargetClaims[target][i]]],
    IF target = "gleam-beam" THEN evidence.observations.restart ELSE {})
-----------------------------------------------------------------------------
SamePlanningBasis(left, right) == left.basis = right.basis

ClaimsAgree(c) ==
  \A i \in 1..3 : LET expected == ExpectedTargetClaims[c.target][i]
                  IN c.demands[i] = expected

ActorRestartSupportsGleam(c) == c.restart = {RestartFlags}

DispositionForDemand(demand, c) ==
  LET value == c.demands[DemandRank(demand.family)]
  IN IF value = Unresolved THEN "unresolved"
     ELSE IF value = demand.value THEN "satisfied"
     ELSE "contradicted"

CandidateEvaluation(demands, c) ==
  LET dispositions == [i \in 1..Len(demands) |-> DispositionForDemand(demands[i], c)]
  IN [target |-> c.target, dispositions |-> dispositions, materials |-> c.materials,
      feasible |-> \A i \in 1..Len(demands) : dispositions[i] = "satisfied"]

(* Materials only one target may cite: all but the shared inputs. *)
OwnMaterials(c) == {m.path : m \in {x \in c.materials : x.role # "core-source"}}

Admissible(selection, c) ==
  /\ ClaimsAgree(c)
  /\ IF c.target = "gleam-beam" THEN ActorRestartSupportsGleam(c) ELSE c.restart = {}
  /\ c.requirement = selection.requirement
  /\ c.qualified.requirement = selection.requirement
  /\ c.qualified.artifact = c.basis[1].artifact

AsGiven(contributions) == contributions

(* toSorted, which is stable: the Effect candidate before the Gleam one.   *)
Rank(c) == IF c.target = "effect-typescript" THEN 0 ELSE 1

Ordered(contributions) ==
  LET all == DOMAIN contributions
      rank(i) == Rank(contributions[i])
      Earlier(i) == {j \in all : rank(j) < rank(i) \/ (rank(j) = rank(i) /\ j < i)}
  IN [k \in all |-> contributions[CHOOSE i \in all : Cardinality(Earlier(i)) = k - 1]]

(* filter: the evaluations of the feasible candidates, in their order.     *)
Feasible(evaluations) ==
  LET feasible == {i \in DOMAIN evaluations : evaluations[i].feasible}
      Before(i) == {j \in feasible : j < i}
  IN [k \in 1..Cardinality(feasible) |->
        evaluations[CHOOSE i \in feasible : Cardinality(Before(i)) = k - 1]]

PlanOrdered(selection, cs) ==
  LET all  == 1..Len(cs)
      evaluations == [i \in all |-> CandidateEvaluation(selection.demands, cs[i])]
      plans == Feasible(evaluations)
  IN IF \/ ~IsCanonicalDemandOrder(selection.demands)
        \/ \E i, j \in all : i # j /\ cs[i].target = cs[j].target
        \/ \E i \in all : ~Admissible(selection, cs[i])
        \/ \E i \in all : ~SamePlanningBasis(cs[1], cs[i])
        \/ \E i, j \in all : i # j /\ OwnMaterials(cs[i]) \cap OwnMaterials(cs[j]) # {}
     THEN Refused
     ELSE CASE Len(plans) = 0 -> [tag |-> "NoPlan", plans |-> evaluations]
            [] Len(plans) = 1 -> [tag |-> "Selected", plans |-> plans]
            [] OTHER          -> [tag |-> "Incomparable", plans |-> plans]

PlanObjective(selection, contributions) == PlanOrdered(selection, Ordered(contributions))
-----------------------------------------------------------------------------
(* checkQualificationIdentity: the staged qualification holds one Qualified *)
(* result and one evidence record for each target, all of the realization  *)
(* and requirement the plan selects.                                       *)
CheckQualificationIdentity(selection, staged) ==
  /\ staged.version = 2
  /\ Len(staged.results) = 2 /\ Len(staged.evidence) = 2 /\ Len(staged.targets) = 2
  /\ {staged.results[i].target : i \in 1..2} = Targets
  /\ \A i \in 1..2 :
       LET result   == staged.results[i]
           matching == {j \in 1..2 : staged.evidence[j].target = result.target}
       IN /\ result.tag = "Qualified"
          /\ Cardinality(matching) = 1
          /\ \E k \in 1..2 : /\ staged.targets[k].target = result.target
                             /\ staged.targets[k].realization = selection.realization
          /\ result.id.realization = selection.realization
          /\ result.id.artifact = staged.artifact
          /\ result.id.requirement = selection.requirement
          /\ \A j \in matching :
               LET e == staged.evidence[j]
               IN /\ e.selection = staged.selection
                  /\ e.id = result.id
                  /\ e.observations.target = result.target
=============================================================================
