---------------------------- MODULE CoreLanguage ----------------------------
(***************************************************************************)
(* The checked Core language: what validateCore demands of a document, and *)
(* what later readers of a checked document rely on.  A document is a      *)
(* sequence of declarations; lists whose members must be distinct are      *)
(* sequences of records with an id.                                        *)
(***************************************************************************)
EXTENDS Integers, Sequences, FiniteSets

BuiltInTypes == {"String", "Integer"}

Members(s) == {s[i] : i \in DOMAIN s}
Ids(s) == {s[i].id : i \in DOMAIN s}
Named(s, id) == CHOOSE x \in Members(s) : x.id = id
Unique(s) == \A i, j \in DOMAIN s : i # j => s[i] # s[j]
UniqueIds(s) == \A i, j \in DOMAIN s : i # j => s[i].id # s[j].id
OfKind(document, kind) == {d \in Members(document) : d.kind = kind}
-----------------------------------------------------------------------------
(* A data type, and a term, is the list of its nodes: each after the nodes *)
(* it is made of, which it names by their places, and the whole last.      *)
Whole(nodes) == nodes[Len(nodes)]

PartsOf(node) ==
  CASE node.kind = "application" -> Members(node.arguments)
    [] node.kind = "list"        -> {node.element}
    [] node.kind = "record"      -> {f.type : f \in Members(node.fields)}
    [] OTHER                     -> {}

IsList(s) == s \in Seq(Members(s))

IsTree(nodes) ==
  /\ IsList(nodes) /\ nodes # <<>>
  /\ \A n \in DOMAIN nodes : PartsOf(nodes[n]) \subseteq 1..(n - 1)

IsTerm(nodes) ==
  /\ IsTree(nodes)
  /\ \A node \in Members(nodes) :
       \/ node.kind = "variable"
       \/ node.kind = "application" /\ IsList(node.arguments)

(* What decoding a file gives: lists where the schema has arrays, trees    *)
(* where it is recursive, and nowhere "none" or "omitted", which here      *)
(* stand for no identifier and for no element.                             *)
DecodesOperations(operations) ==
  IsList(operations) /\ \A o \in Members(operations) : IsList(o.parameters)

DecodesLaws(laws) ==
  /\ DecodesOperations(laws)
  /\ \A law \in Members(laws) : IsTerm(law.left) /\ IsTerm(law.right)

DecodesDeclaration(d) ==
  CASE d.kind = "data" ->
         /\ IsList(d.constructors)
         /\ \A c \in Members(d.constructors) :
              IsList(c.fields) /\ \A f \in Members(c.fields) : IsTree(f.type)
    [] d.kind = "theory" -> IsList(d.sorts) /\ DecodesOperations(d.operations) /\ DecodesLaws(d.laws)
    [] d.kind = "theoryBridge" ->
         /\ IsList(d.participants) /\ IsList(d.sharedSorts) /\ DecodesLaws(d.laws)
         /\ \A s \in Members(d.sharedSorts) : IsList(s.members)
    [] d.kind = "stateMachine" ->
         /\ IsList(d.fields) /\ IsList(d.invariants)
         /\ \A operations \in {d.initializers, d.transitions} :
              /\ DecodesOperations(operations)
              /\ \A o \in Members(operations) : IsList(o.requires)
    [] d.kind = "operationRealization" -> IsList(d.requires)
    [] d.kind = "finiteModel" ->
         /\ IsList(d.carriers) /\ IsList(d.operations)
         /\ \A c \in Members(d.carriers) :
              IsList(c.elements) /\ "omitted" \notin Members(c.elements)
         /\ \A o \in Members(d.operations) :
              IsList(o.rows) /\ \A r \in Members(o.rows) : IsList(r.arguments)
    [] d.kind = "service" -> DecodesOperations(d.operations)
    [] OTHER -> TRUE

Decodes(file) ==
  IsList(file) /\ \A d \in Members(file) : d.id # "none" /\ DecodesDeclaration(d)
-----------------------------------------------------------------------------

ValidDataType(type, dataIds) ==
  \A node \in Members(type) :
    /\ node.kind = "reference" => node.ref \in dataIds
    /\ node.kind = "record" => UniqueIds(node.fields)

ValidData(data, dataIds) ==
  /\ UniqueIds(data.constructors)
  /\ \A c \in Members(data.constructors) :
       /\ data.discriminator \notin Ids(c.fields) /\ UniqueIds(c.fields)
       /\ \A f \in Members(c.fields) : ValidDataType(f.type, dataIds)

(* The sort of a term, or "none" when it has none.  A variable has the     *)
(* sort of the law's parameter; an application, whose arguments are        *)
(* checked, that of the operation's result.                                *)
VariableSort(law, node) ==
  IF node.id \in Ids(law.parameters) THEN Named(law.parameters, node.id).sort ELSE "none"

NodeSort(theory, law, node) ==
  IF node.kind = "variable" THEN VariableSort(law, node)
  ELSE IF node.id \in Ids(theory.operations) THEN Named(theory.operations, node.id).result
  ELSE "none"

Applies(theory, law, term, node) ==
  LET operation == Named(theory.operations, node.id)
  IN /\ Len(node.arguments) = Len(operation.parameters)
     /\ \A i \in DOMAIN node.arguments :
          NodeSort(theory, law, term[node.arguments[i]]) = operation.parameters[i].sort

TermSort(theory, law, term) ==
  IF \A node \in Members(term) :
       /\ NodeSort(theory, law, node) # "none"
       /\ node.kind = "variable" \/ Applies(theory, law, term, node)
  THEN NodeSort(theory, law, Whole(term)) ELSE "none"

ValidTheory(theory) ==
  /\ UniqueIds(theory.sorts) /\ UniqueIds(theory.operations) /\ UniqueIds(theory.laws)
  /\ \A s \in Members(theory.sorts) : s.representation \subseteq BuiltInTypes
  /\ \A o \in Members(theory.operations) :
       /\ UniqueIds(o.parameters)
       /\ {p.sort : p \in Members(o.parameters)} \cup {o.result} \subseteq Ids(theory.sorts)
  /\ \A law \in Members(theory.laws) :
       /\ UniqueIds(law.parameters)
       /\ {p.sort : p \in Members(law.parameters)} \subseteq Ids(theory.sorts)
       /\ TermSort(theory, law, law.left) # "none"
       /\ TermSort(theory, law, law.left) = TermSort(theory, law, law.right)
-----------------------------------------------------------------------------
(* A bridge joins two theories on shared sorts; its laws speak of these.   *)
SharingFor(bridge, participant, sort) ==
  LET at == {i \in DOMAIN bridge.sharedSorts :
               [participant |-> participant, sort |-> sort]
                 \in Members(bridge.sharedSorts[i].members)}
  IN IF at = {} THEN "none"
     ELSE bridge.sharedSorts[CHOOSE i \in at : \A j \in at : i <= j].id

BridgeNodeSort(bridge, theoryOf, law, node) ==
  IF node.kind = "variable" THEN VariableSort(law, node)
  ELSE IF /\ node.participant \in DOMAIN theoryOf
          /\ node.id \in Ids(theoryOf[node.participant].operations)
  THEN SharingFor(bridge, node.participant,
                  Named(theoryOf[node.participant].operations, node.id).result)
  ELSE "none"

BridgeApplies(bridge, theoryOf, law, term, node) ==
  LET operation == Named(theoryOf[node.participant].operations, node.id)
  IN /\ Len(node.arguments) = Len(operation.parameters)
     /\ \A i \in DOMAIN node.arguments :
          BridgeNodeSort(bridge, theoryOf, law, term[node.arguments[i]])
            = SharingFor(bridge, node.participant, operation.parameters[i].sort)

BridgeTermSort(bridge, theoryOf, law, term) ==
  IF \A node \in Members(term) :
       /\ BridgeNodeSort(bridge, theoryOf, law, node) # "none"
       /\ node.kind = "variable" \/ BridgeApplies(bridge, theoryOf, law, term, node)
  THEN BridgeNodeSort(bridge, theoryOf, law, Whole(term)) ELSE "none"

ValidSharedSort(bridge, theoryOf, shared) ==
  LET MemberSorts(p) == {m.sort : m \in {x \in Members(shared.members) : x.participant = p}}
      Representation(p) ==
        {s.representation : s \in {x \in Members(theoryOf[p].sorts) : x.id \in MemberSorts(p)}}
  IN /\ Len(shared.members) = Len(bridge.participants)
     /\ Unique([i \in DOMAIN shared.members |-> shared.members[i].participant])
     /\ \A p \in Ids(bridge.participants) :
          MemberSorts(p) # {} /\ MemberSorts(p) \subseteq Ids(theoryOf[p].sorts)
     /\ Cardinality(UNION {Representation(p) : p \in Ids(bridge.participants)}) = 1

ValidBridge(bridge, theories) ==
  /\ Len(bridge.participants) = 2
  /\ UniqueIds(bridge.participants) /\ UniqueIds(bridge.sharedSorts) /\ UniqueIds(bridge.laws)
  /\ \A p \in Members(bridge.participants) : \E t \in theories : t.id = p.theory
  /\ LET theoryOf == [id \in Ids(bridge.participants) |->
            CHOOSE t \in theories : t.id = Named(bridge.participants, id).theory]
     IN /\ \A s \in Members(bridge.sharedSorts) : ValidSharedSort(bridge, theoryOf, s)
        /\ \A law \in Members(bridge.laws) :
             LET Sort(term) == BridgeTermSort(bridge, theoryOf, law, term)
             IN /\ UniqueIds(law.parameters)
                /\ {p.sort : p \in Members(law.parameters)} \subseteq Ids(bridge.sharedSorts)
                /\ Sort(law.left) # "none" /\ Sort(law.left) = Sort(law.right)
-----------------------------------------------------------------------------
(* A state machine's predicates compare integers; an initializer sees no   *)
(* state.                                                                  *)
StateValueType(machine, parameters, stateAvailable, value) ==
  CASE value.kind = "integerLiteral" -> "Integer"
    [] value.kind = "parameter" ->
         IF value.id \in Ids(parameters) THEN Named(parameters, value.id).type ELSE "none"
    [] OTHER ->
         IF stateAvailable /\ value.id \in Ids(machine.fields)
         THEN Named(machine.fields, value.id).type ELSE "none"

ValidPredicate(machine, parameters, stateAvailable, predicate) ==
  \A side \in {predicate.left, predicate.right} :
    StateValueType(machine, parameters, stateAvailable, side) = "Integer"

Operations(machine) == machine.initializers \o machine.transitions

ValidMachine(machine, knownTypes) ==
  /\ UniqueIds(machine.fields) /\ UniqueIds(Operations(machine)) /\ UniqueIds(machine.invariants)
  /\ \A f \in Members(machine.fields) : f.type \in knownTypes
  /\ \A o \in Members(Operations(machine)) :
       /\ UniqueIds(o.parameters) /\ Unique(o.requires)
       /\ \A p \in Members(o.parameters) : p.type \in knownTypes
       /\ \A r \in Members(o.requires) :
            ValidPredicate(machine, o.parameters, o.id \in Ids(machine.transitions), r)
  /\ \A i \in Members(machine.invariants) : ValidPredicate(machine, <<>>, TRUE, i.proposition)

ValidRealization(realization, document) ==
  /\ Unique([i \in DOMAIN realization.requires |-> realization.requires[i].capability])
  /\ realization.disabled \notin Ids(document)
  /\ \A other \in OfKind(document, "operationRealization") :
       other # realization => other.disabled # realization.disabled
  /\ \E m \in OfKind(document, "stateMachine") :
       m.id = realization.machine /\ realization.operation \in Ids(m.transitions)
  /\ \A r \in Members(realization.requires) :
       \E c \in OfKind(document, "capability") : c.id = r.capability
-----------------------------------------------------------------------------
(* A finite model interprets every operation of its theory on every tuple  *)
(* of its carriers, and nothing else.                                      *)
CarrierOf(model, sort) ==
  UNION {Members(c.elements) : c \in {x \in Members(model.carriers) : x.id = sort}}

Arguments(model, parameters) ==
  LET all == UNION {CarrierOf(model, p.sort) : p \in Members(parameters)}
  IN {t \in [DOMAIN parameters -> all] :
        \A i \in DOMAIN parameters : t[i] \in CarrierOf(model, parameters[i].sort)}

ValidPartialModel(model, theory) ==
  /\ UniqueIds(model.carriers) /\ UniqueIds(model.operations)
  /\ Ids(model.carriers) = Ids(theory.sorts)
  /\ \A c \in Members(model.carriers) : c.elements # <<>> /\ Unique(c.elements)
  /\ Ids(model.operations) = Ids(theory.operations)
  /\ \A o \in Members(theory.operations) :
       LET rows == Named(model.operations, o.id).rows
           at == [i \in DOMAIN rows |-> rows[i].arguments]
       IN /\ Unique(at) /\ Members(at) \subseteq Arguments(model, o.parameters)
          /\ \A r \in Members(rows) : r.result \in CarrierOf(model, o.result)

ValidModel(model, theory) ==
  /\ UniqueIds(model.carriers) /\ UniqueIds(model.operations)
  /\ Ids(model.carriers) = Ids(theory.sorts)
  /\ \A c \in Members(model.carriers) : c.elements # <<>> /\ Unique(c.elements)
  /\ Ids(model.operations) = Ids(theory.operations)
  /\ \A o \in Members(theory.operations) :
       LET rows == Named(model.operations, o.id).rows
           at == [i \in DOMAIN rows |-> rows[i].arguments]
       IN /\ Unique(at) /\ Members(at) = Arguments(model, o.parameters)
          /\ \A r \in Members(rows) : r.result \in CarrierOf(model, o.result)

KnownTypes(document) == BuiltInTypes \cup {d.id : d \in OfKind(document, "refinement")}

ValidService(service, knownTypes) ==
  /\ UniqueIds(service.operations)
  /\ \A o \in Members(service.operations) :
       /\ UniqueIds(o.parameters)
       /\ {p.type : p \in Members(o.parameters)} \cup {o.result} \subseteq knownTypes

ValidDeclaration(d, document) ==
  CASE d.kind = "data" -> ValidData(d, {x.id : x \in OfKind(document, "data")})
    [] d.kind = "theory" -> ValidTheory(d)
    [] d.kind = "theoryBridge" -> ValidBridge(d, OfKind(document, "theory"))
    [] d.kind = "stateMachine" -> ValidMachine(d, KnownTypes(document))
    [] d.kind = "operationRealization" -> ValidRealization(d, document)
    [] d.kind = "finiteModel" ->
         \E t \in OfKind(document, "theory") : t.id = d.theory /\ ValidModel(d, t)
    [] d.kind = "refinement" -> d.base = "Integer"
    [] d.kind = "service" -> ValidService(d, KnownTypes(document))
    [] OTHER -> TRUE

ValidateCore(document) ==
  UniqueIds(document) /\ \A d \in Members(document) : ValidDeclaration(d, document)
-----------------------------------------------------------------------------
(* The readers of a checked document: each looks up what the checks are    *)
(* there to guarantee, and throws when it is not found.                    *)
RowsOf(model, operation) ==
  UNION {Members(o.rows) : o \in {x \in Members(model.operations) : x.id = operation}}

ResultAt(rows, arguments) ==
  LET found == {r \in rows : r.arguments = arguments}
  IN IF found = {} THEN "omitted" ELSE (CHOOSE r \in found : TRUE).result

EvaluateTerm(term, assignment, model) ==
  LET value[n \in DOMAIN term] ==
        IF term[n].kind = "variable" THEN assignment[term[n].id]
        ELSE ResultAt(RowsOf(model, term[n].id),
                      [i \in DOMAIN term[n].arguments |-> value[term[n].arguments[i]]])
  IN value[Len(term)]

(* Both sides of every law, for every assignment of its parameters. *)
EvaluateFiniteModel(model, theory) ==
  UNION {LET law == theory.laws[i]
             Assign(tuple) == [id \in Ids(law.parameters) |->
               tuple[CHOOSE k \in DOMAIN law.parameters : law.parameters[k].id = id]]
         IN {<<i, EvaluateTerm(law.left, Assign(tuple), model),
                  EvaluateTerm(law.right, Assign(tuple), model)>> :
             tuple \in Arguments(model, law.parameters)} :
         i \in DOMAIN theory.laws}

TheoryGraph(document) ==
  [nodes |-> {t.id : t \in OfKind(document, "theory")},
   edges |-> {[bridge |-> b.id, ends |-> {p.theory : p \in Members(b.participants)},
               sharedSorts |-> Ids(b.sharedSorts), laws |-> Ids(b.laws)] :
              b \in OfKind(document, "theoryBridge")}]

(* One obligation for each operation of a machine and each invariant. *)
StateInvariantObligations(document) ==
  UNION {{[machine |-> m.id, operation |-> o.id, invariant |-> i.id,
           relation |-> IF o.id \in Ids(m.initializers) THEN "establishes" ELSE "preserves"] :
          o \in Members(Operations(m)), i \in Members(m.invariants)} :
         m \in OfKind(document, "stateMachine")}
=============================================================================
