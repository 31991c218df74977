---------------------------- MODULE Normalization ----------------------------
(***************************************************************************)
(* Construct-addressed normalization: every declaration of a checked       *)
(* document, and every part of one, becomes a construct with an address,   *)
(* what it says, what it depends on directly and transitively, and the     *)
(* files it comes from; two normalized documents are compared construct by *)
(* construct.  An address is the tuple of its parts; the digest of what a  *)
(* construct says is what it says.                                         *)
(***************************************************************************)
EXTENDS CoreLanguage, SequencesExt

Each(s, Op(_)) == FlattenSeq([i \in DOMAIN s |-> Op(s[i])])

Dep(type, target) == {[type |-> type, target |-> target]}

Draft(address, kind, semantic, d, deps) ==
  << [address |-> address, kind |-> kind, semantic |-> semantic,
      declaration |-> d.id, deps |-> deps] >>

Root(d) == <<d.kind, d.id>>
Part(d, tag, name) == <<d.kind, d.id, tag, name>>
Sub(address, tag, name) == address \o <<tag, name>>

TypeDependency(id, document) ==
  IF id \in BuiltInTypes THEN {}
  ELSE IF \E d \in OfKind(document, "data") : d.id = id THEN Dep("data-reference", <<"data", id>>)
  ELSE IF \E d \in OfKind(document, "refinement") : d.id = id
  THEN Dep("type-reference", <<"refinement", id>>)
  ELSE Dep("type-reference", <<"type", id>>)

TypeDependencies(parameters, document) ==
  UNION {TypeDependency(p.type, document) : p \in Members(parameters)}

DataTypeDependencies(type, document) ==
  UNION {TypeDependency(node.ref, document) :
         node \in {x \in Members(type) : x.kind = "reference"}}

PredicateDependencies(machine, predicate) ==
  UNION {IF side.kind = "stateField"
         THEN Dep("state-operation", Sub(Part(machine, "state", machine.state), "field", side.id))
         ELSE {} : side \in {predicate.left, predicate.right}}

SortDependencies(theory, parameters) ==
  UNION {Dep("theory-reference", <<"theory", theory, "sort", p.sort>>) : p \in Members(parameters)}

(* The operations applied in a term. *)
Applications(term) == {node \in Members(term) : node.kind # "variable"}

TermDependency(theory, application) ==
  Dep("theory-reference", <<"theory", theory, "operation", application.id>>)
-----------------------------------------------------------------------------
(* The constructs of each kind of declaration, its parts before itself. *)
DataDrafts(d, document) ==
  LET Fields(c, f) == Draft(Sub(Part(d, "constructor", c.id), "field", f.id), "field", f, d,
                            DataTypeDependencies(f.type, document))
      Constructor(c) == Draft(Part(d, "constructor", c.id), "constructor", c, d, {})
                        \o Each(c.fields, LAMBDA f : Fields(c, f))
  IN Each(d.constructors, Constructor)
     \o Draft(Root(d), d.kind, d, d,
          UNION {UNION {DataTypeDependencies(f.type, document) : f \in Members(c.fields)} :
                 c \in Members(d.constructors)})

ParameterDrafts(address, parameters, d, document) ==
  Each(parameters, LAMBDA p : Draft(Sub(address, "parameter", p.id), "parameter", p, d,
                                    TypeDependency(p.type, document)))

ServiceDrafts(d, document) ==
  LET Needs(o) == TypeDependencies(o.parameters, document) \cup TypeDependency(o.result, document)
      Operation(o) == Draft(Part(d, "operation", o.id), "operation", o, d, Needs(o))
                      \o ParameterDrafts(Part(d, "operation", o.id), o.parameters, d, document)
  IN Each(d.operations, Operation)
     \o Draft(Root(d), d.kind, d, d, UNION {Needs(o) : o \in Members(d.operations)})

SortParameterDrafts(address, parameters, d) ==
  Each(parameters, LAMBDA p : Draft(Sub(address, "parameter", p.id), "parameter", p, d,
                                    SortDependencies(d.id, <<p>>)))

TheoryDrafts(d) ==
  LET Operation(o) ==
        SortParameterDrafts(Part(d, "operation", o.id), o.parameters, d)
        \o Draft(Part(d, "operation", o.id), "operation", o, d,
             SortDependencies(d.id, o.parameters) \cup
             Dep("theory-reference", <<"theory", d.id, "sort", o.result>>))
      Applied(law) == UNION {TermDependency(d.id, a) :
                             a \in Applications(law.left) \cup Applications(law.right)}
      Law(law) ==
        Draft(Part(d, "law", law.id), "law", law, d,
          SortDependencies(d.id, law.parameters) \cup Applied(law))
        \o SortParameterDrafts(Part(d, "law", law.id), law.parameters, d)
  IN Each(d.sorts, LAMBDA s : Draft(Part(d, "sort", s.id), "sort", s, d, {}))
     \o Each(d.operations, Operation) \o Each(d.laws, Law) \o Draft(Root(d), d.kind, d, d, {})

BridgeDrafts(d) ==
  LET TheoryOf(participant) == Named(d.participants, participant).theory
      Joins(p) == Dep("participant-theory", <<"theory", p.theory>>)
      Member(m) == Dep("shared-sort-member",
                       <<"theory", TheoryOf(m.participant), "sort", m.sort>>)
      Sorted(p) == Dep("shared-sort-member", Part(d, "sharedSort", p.sort))
      Applied(law) == UNION {TermDependency(TheoryOf(a.participant), a) :
                             a \in Applications(law.left) \cup Applications(law.right)}
      Shares(s) == UNION {Member(m) : m \in Members(s.members)}
      States(law) == (UNION {Sorted(p) : p \in Members(law.parameters)})
                     \cup Applied(law)
      Shared(s) ==
        Draft(Part(d, "sharedSort", s.id), "sharedSort", s, d, Shares(s))
        \o Each(s.members, LAMBDA m :
             Draft(Sub(Part(d, "sharedSort", s.id), m.participant, m.sort),
                   "sharedSortMember", m, d, Member(m)))
      Law(law) ==
        Draft(Part(d, "law", law.id), "law", law, d, States(law))
        \o Each(law.parameters, LAMBDA p :
             Draft(Sub(Part(d, "law", law.id), "parameter", p.id), "parameter", p, d, Sorted(p)))
  IN Each(d.participants, LAMBDA p :
            Draft(Part(d, "participant", p.id), "participant", p, d, Joins(p)))
     \o Each(d.sharedSorts, Shared) \o Each(d.laws, Law)
     \o Draft(Root(d), d.kind, d, d,
          UNION ({Joins(p) : p \in Members(d.participants)}
                 \cup {Shares(s) : s \in Members(d.sharedSorts)}
                 \cup {States(law) : law \in Members(d.laws)}))

Relation(d, o) == IF o.id \in Ids(d.initializers) THEN "initializer" ELSE "transition"

MachineDrafts(d, document) ==
  LET state == Part(d, "state", d.state)
      At(o) == Part(d, Relation(d, o), o.id)
      Needs(o) == TypeDependencies(o.parameters, document)
                  \cup UNION {PredicateDependencies(d, r) : r \in Members(o.requires)}
      Field(f) == Draft(Sub(state, "field", f.id), "field", f, d, TypeDependency(f.type, document))
      Operation(o) ==
        Draft(At(o), "stateOperation", o, d, Needs(o))
        \o ParameterDrafts(At(o), o.parameters, d, document)
        \o Each(o.requires, LAMBDA r :
             Draft(Sub(At(o), "requirement", r), "requirement", r, d, PredicateDependencies(d, r)))
  IN Draft(state, "state", [id |-> d.state, fields |-> d.fields], d, {})
     \o Each(d.fields, Field) \o Each(Operations(d), Operation)
     \o Each(d.invariants, LAMBDA i :
          Draft(Part(d, "invariant", i.id), "invariant", i, d,
                PredicateDependencies(d, i.proposition)))
     \o Draft(Root(d), d.kind, d, d,
          TypeDependencies(d.fields, document)
          \cup UNION ({Needs(o) : o \in Members(Operations(d))}
                      \cup {PredicateDependencies(d, i.proposition) : i \in Members(d.invariants)}))

(* The parts of a realization are members of its root, which says only its *)
(* own name.                                                               *)
RealizationDrafts(d) ==
  LET operation == Part(d, "operation", "operation")
      disabled == Part(d, "disabled", d.disabled)
      Requires(r) == Part(d, "requirement", r.capability)
  IN Draft(operation, "operation", [machine |-> d.machine, operation |-> d.operation], d,
       Dep("state-operation", <<"stateMachine", d.machine, "transition", d.operation>>))
     \o Each(d.requires, LAMBDA r :
          Draft(Requires(r), "capabilityRequirement", r, d,
                Dep("capability-requirement", <<"capability", r.capability>>)))
     \o Draft(disabled, "disabled", [id |-> d.disabled], d, {})
     \o Draft(Root(d), d.kind, [id |-> d.id], d,
          UNION {Dep("construct-member", a) :
                 a \in {operation, disabled} \cup {Requires(r) : r \in Members(d.requires)}})

ModelDrafts(d) ==
  LET Carried(c) == Dep("theory-reference", <<"theory", d.theory, "sort", c.id>>)
      Interprets(o) == Dep("theory-reference", <<"theory", d.theory, "operation", o.id>>)
      Carrier(c) ==
        Draft(Part(d, "carrier", c.id), "carrier", c, d, Carried(c))
        \o Each(c.elements, LAMBDA e :
             Draft(Sub(Part(d, "carrier", c.id), "element", e), "element", [id |-> e], d, Carried(c)))
      Operation(o) ==
        Draft(Part(d, "operation", o.id), "operation", o, d, Interprets(o))
        \o Each(o.rows, LAMBDA r :
             Draft(Sub(Part(d, "operation", o.id), "row", r.arguments), "row", r, d, Interprets(o)))
  IN Each(d.carriers, Carrier) \o Each(d.operations, Operation)
     \o Draft(Root(d), d.kind, d, d, Dep("model-theory", <<"theory", d.theory>>))

ObligationDrafts(document) ==
  LET Drafted(o) ==
        LET m == Named(document, o.machine)
            tag == IF o.relation = "establishes" THEN "initializer" ELSE "transition"
        IN Draft(<<"obligation", o.machine, o.operation, o.relation, o.invariant>>, "obligation",
             [o |-> o, operation |-> Named(Operations(m), o.operation),
              invariant |-> Named(m.invariants, o.invariant)], m,
             Dep("obligation-machine", Root(m))
             \cup Dep("obligation-operation", Part(m, tag, o.operation))
             \cup Dep("obligation-invariant", Part(m, "invariant", o.invariant)))
  IN Each(SetToSeq(StateInvariantObligations(document)), Drafted)

DraftsOf(d, document) ==
  CASE d.kind = "data" -> DataDrafts(d, document)
    [] d.kind = "service" -> ServiceDrafts(d, document)
    [] d.kind = "refinement" -> Draft(Part(d, "predicate", "predicate"), "predicate",
                                      [atLeast |-> d.atLeast], d, {})
                                \o Draft(Root(d), d.kind, d, d, {})
    [] d.kind = "theory" -> TheoryDrafts(d)
    [] d.kind = "theoryBridge" -> BridgeDrafts(d)
    [] d.kind = "stateMachine" -> MachineDrafts(d, document)
    [] d.kind = "operationRealization" -> RealizationDrafts(d)
    [] d.kind = "finiteModel" -> ModelDrafts(d)
    [] OTHER -> Draft(Root(d), d.kind, d, d, {})

BuildDrafts(document) ==
  Each(document, LAMBDA d : DraftsOf(d, document)) \o ObligationDrafts(document)
-----------------------------------------------------------------------------
Addresses(drafts) == {drafts[i].address : i \in DOMAIN drafts}

(* normalizeCore refuses: provenance that is not one path for each         *)
(* declaration, an address twice, a dependency on nothing.                 *)
DraftsClash(drafts) ==
  \/ Cardinality(Addresses(drafts)) # Len(drafts)
  \/ ~ {d.target : d \in UNION {drafts[i].deps : i \in DOMAIN drafts}} \subseteq Addresses(drafts)

NormalizationFails(document, provenance) ==
  \/ ~UniqueIds(provenance) \/ Ids(provenance) # Ids(document)
  \/ DraftsClash(BuildDrafts(document))

Extended(deps, found) == found \cup {d.target : d \in UNION {deps[a] : a \in found}}

Reach(deps, found) ==
  LET reach[s \in SUBSET DOMAIN deps] ==
        IF Extended(deps, s) = s THEN s ELSE reach[Extended(deps, s)]
  IN reach[found]

(* What a construct rests on; a cycle back to itself is left out. *)
ClosureFor(address, deps) ==
  {d \in UNION {deps[a] : a \in Reach(deps, {address})} : d.target # address}

DraftAt(drafts) ==
  [a \in Addresses(drafts) |-> drafts[CHOOSE i \in DOMAIN drafts : drafts[i].address = a]]

(* An obligation comes from the files of all it rests on, too. *)
NormalizedNode(draft, path, closure) ==
  [fingerprint |-> draft.semantic, direct |-> draft.deps, closure |-> closure,
   provenance |-> {path[draft.address]} \cup (IF draft.kind = "obligation"
                                             THEN {path[d.target] : d \in closure} ELSE {})]

NormalizedNodes(at, path, deps) ==
  [a \in DOMAIN at |-> NormalizedNode(at[a], path, ClosureFor(a, deps))]

NormalizedDrafts(at, provenance) ==
  NormalizedNodes(at, [a \in DOMAIN at |-> Named(provenance, at[a].declaration).path],
                  [a \in DOMAIN at |-> at[a].deps])

NormalizeCore(document, provenance) ==
  NormalizedDrafts(DraftAt(BuildDrafts(document)), provenance)
-----------------------------------------------------------------------------
(* What changed under a construct that both documents have. *)
Preliminary(baseline, candidate, a) ==
  IF a \notin DOMAIN baseline THEN "added"
  ELSE IF a \notin DOMAIN candidate THEN "removed"
  ELSE IF baseline[a].fingerprint # candidate[a].fingerprint THEN "changed"
  ELSE "reused"

ChangedDirectPremises(baseline, candidate, a) ==
  {d \in candidate[a].direct : Preliminary(baseline, candidate, d.target) # "reused"}

ChangedPremises(baseline, candidate, a) ==
  {d \in candidate[a].direct \cup candidate[a].closure :
     \/ d \in candidate[a].direct \ baseline[a].direct
     \/ Preliminary(baseline, candidate, d.target) # "reused"}
  \cup {d \in baseline[a].closure : d.target \notin DOMAIN candidate}

(* The comparison of one construct, from its own change and its premises'. *)
Compared(baseline, candidate, a, first, premises) ==
  IF first \in {"added", "removed"} THEN [status |-> first, invalidatedBy |-> {}]
  ELSE [invalidatedBy |-> premises,
        status |-> IF /\ first = "reused" /\ premises = {}
                      /\ baseline[a].direct = candidate[a].direct
                      /\ baseline[a].closure = candidate[a].closure
                   THEN "reused" ELSE "changed"]

CompareNormalizedCore(baseline, candidate) ==
  [a \in DOMAIN baseline \cup DOMAIN candidate |->
    Compared(baseline, candidate, a, Preliminary(baseline, candidate, a),
             ChangedPremises(baseline, candidate, a))]

(* Reused constructs are taken from the baseline, with the candidate's     *)
(* provenance; the whole must be what a clean normalization says.          *)
IncrementalCandidate(baseline, candidate, compared) ==
  [a \in DOMAIN candidate |->
    IF compared[a].status = "reused"
    THEN [baseline[a] EXCEPT !.provenance = candidate[a].provenance] ELSE candidate[a]]

CleanParity(baseline, candidate, compared) ==
  IncrementalCandidate(baseline, candidate, compared) = candidate
=============================================================================
