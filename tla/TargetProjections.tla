------------------------- MODULE TargetProjections -------------------------
(***************************************************************************)
(* What the two targets accept of a checked document: the Effect boundary  *)
(* and entity, the Effect exact-one boundary, the Gleam entity and the     *)
(* Gleam exact-one entity.  A projection either emits a module or refuses; *)
(* why it refuses is not told apart.                                       *)
(***************************************************************************)
EXTENDS CoreLanguage

CONSTANTS
  TypeNames, ValueNames,    \* of a target: the identifiers it takes as a type, as a value
  SameSymbol,               \* of a target: identifiers that together give a symbol twice
  EntityNames, ActorNames   \* what a Gleam entity declares, and an exact-one one

Zero == [kind |-> "integerLiteral", value |-> 0]
Parameter(p) == [kind |-> "parameter", id |-> p.id]
StateField(f) == [kind |-> "stateField", id |-> f.id]
AtLeast(left, right) == [left |-> left, right |-> right]

Unbounded == 0  \* the quantity of a requirement is this, or the exact number of uses

OneInteger(s) == Len(s) = 1 /\ s[1].type = "Integer"

MachineOf(document, realization) ==
  {m \in OfKind(document, "stateMachine") : m.id = realization.machine}
OperationOf(machine, realization) ==
  {o \in Members(machine.transitions) : o.id = realization.operation}

(* The identifiers a single-use projection names things after. *)
SelectedTypes(machine, realization) ==
  {machine.id, machine.state, realization.id, realization.disabled,
   realization.requires[1].capability}
SelectedValues(machine, operation) ==
  {machine.fields[1].id, machine.initializers[1].id, machine.initializers[1].parameters[1].id,
   operation.id, operation.parameters[1].id, machine.invariants[1].id}
SelectedNames(machine, operation, realization) ==
  SelectedTypes(machine, realization) \cup SelectedValues(machine, operation)

NamesAreUsable(target, machine, operation, realization) ==
  /\ SelectedTypes(machine, realization) \subseteq TypeNames[target]
  /\ SelectedValues(machine, operation) \subseteq ValueNames[target]
  /\ \A clash \in SameSymbol[target] :
       ~(clash \subseteq SelectedNames(machine, operation, realization))

(* A generated name must not be that of another declaration. *)
NamesAreFree(document, generated, machine, operation, realization) ==
  Ids(document) \cap generated \subseteq SelectedNames(machine, operation, realization)
-----------------------------------------------------------------------------
RequiresOneUse(realization) ==
  Len(realization.requires) = 1 /\ realization.requires[1].quantity = 1

(* One Integer that starts at a nonnegative parameter, and one transition  *)
(* that may take from it what is there: the only machine the exact-one     *)
(* boundaries have an implementation for.                                  *)
SpendableFrom(machine, initializer) ==
  /\ OneInteger(machine.fields) /\ OneInteger(initializer.parameters)
  /\ initializer.requires = <<AtLeast(Parameter(initializer.parameters[1]), Zero)>>

SpendableByEither(machine, operation) ==
  LET amount == Parameter(operation.parameters[1])
      field  == StateField(machine.fields[1])
  IN /\ Len(operation.requires) = 2
     /\ {AtLeast(amount, Zero), AtLeast(field, amount)} \cap Members(operation.requires) # {}

SpendableBy(machine, operation) ==
  LET amount == Parameter(operation.parameters[1])
      field  == StateField(machine.fields[1])
  IN /\ Len(operation.requires) = 2
     /\ {AtLeast(amount, Zero), AtLeast(field, amount)} = Members(operation.requires)

Spendable(machine, operation) ==
  /\ Len(machine.initializers) = 1 /\ SpendableFrom(machine, machine.initializers[1])
  /\ Len(machine.transitions) = 1 /\ OneInteger(operation.parameters)
  /\ SpendableBy(machine, operation)
  /\ Len(machine.invariants) = 1
  /\ machine.invariants[1].proposition = AtLeast(StateField(machine.fields[1]), Zero)

(* resolveEffectSingleUseOperationRealization; in a checked document the   *)
(* capability, the machine and the transition exist.                       *)
EffectSingleUse(document, realization) ==
  /\ RequiresOneUse(realization)
  /\ \E m \in MachineOf(document, realization) : \E o \in OperationOf(m, realization) :
       Spendable(m, o) /\ NamesAreUsable("effect-typescript", m, o, realization)

(* projectEffectOperationRealization, and the entity around it, which      *)
(* starts every field from the initializer's parameter in its place.       *)
EffectRealization(document, realization) ==
  /\ \A r \in Members(realization.requires) : r.quantity = Unbounded
  /\ \E m \in MachineOf(document, realization) : \E o \in OperationOf(m, realization) :
       \A x \in Members(m.fields) \cup Members(o.parameters) : x.type = "Integer"

EffectEntity(document, realization) ==
  /\ EffectRealization(document, realization)
  /\ \E m \in MachineOf(document, realization) : \E o \in OperationOf(m, realization) :
       /\ Len(m.initializers) = 1 /\ o.parameters # <<>>
       /\ Len(m.initializers[1].parameters) = Len(m.fields)
       /\ \A p \in Members(m.initializers[1].parameters) : p.type = "Integer"
-----------------------------------------------------------------------------
(* selectExactOneProjection *)
GleamMachine(machine) ==
  /\ OneInteger(machine.fields)
  /\ Len(machine.initializers) = 1
  /\ LET initializer == machine.initializers[1]
     IN /\ OneInteger(initializer.parameters) /\ Len(initializer.requires) = 1
        /\ initializer.requires[1] = AtLeast(Parameter(initializer.parameters[1]), Zero)

GleamTransition(machine, operation) ==
  /\ Len(machine.transitions) = 1
  /\ OneInteger(operation.parameters) /\ Len(operation.requires) = 2
  /\ LET amount == Parameter(operation.parameters[1])
     IN {AtLeast(amount, Zero), AtLeast(StateField(machine.fields[1]), amount)}
          \subseteq Members(operation.requires)
  /\ Len(machine.invariants) = 1
  /\ machine.invariants[1].proposition = AtLeast(StateField(machine.fields[1]), Zero)

GleamExactOne(document, realization) ==
  /\ RequiresOneUse(realization)
  /\ \E m \in MachineOf(document, realization) : \E o \in OperationOf(m, realization) :
       /\ GleamMachine(m) /\ GleamTransition(m, o)
       /\ NamesAreUsable("gleam-beam", m, o, realization)
       /\ NamesAreFree(document, ActorNames, m, o, realization)

(* validateAccountProjection: one machine of one name, all of its parts    *)
(* named, and an unbounded capability.                                     *)
AccountMachine(machine) ==
  /\ machine.id = "Account" /\ machine.state = "AccountState"
  /\ machine.fields = <<[id |-> "balance", type |-> "Integer"]>>
  /\ Len(machine.initializers) = 1
  /\ machine.initializers[1] =
       [id |-> "initialize", parameters |-> <<[id |-> "initialBalance", type |-> "Integer"]>>,
        requires |-> <<AtLeast([kind |-> "parameter", id |-> "initialBalance"], Zero)>>]

AccountTransition(machine) ==
  /\ Len(machine.transitions) = 1
  /\ LET operation == machine.transitions[1]
         amount == [kind |-> "parameter", id |-> "amount"]
     IN /\ operation.id = "withdraw" /\ Len(operation.requires) = 2
        /\ operation.parameters = <<[id |-> "amount", type |-> "Integer"]>>
        /\ {AtLeast(amount, Zero), AtLeast([kind |-> "stateField", id |-> "balance"], amount)}
             \subseteq Members(operation.requires)
  /\ machine.invariants =
       <<[id |-> "nonnegativeBalance",
          proposition |-> AtLeast([kind |-> "stateField", id |-> "balance"], Zero)]>>

GleamEntity(document, realization) ==
  /\ realization.id \in TypeNames["gleam-beam"]
  /\ realization.requires = <<[capability |-> "DebitAccount", quantity |-> Unbounded]>>
  /\ realization.disabled = "WithdrawalRejected"
  /\ \E m \in MachineOf(document, realization) :
       /\ AccountMachine(m) /\ AccountTransition(m)
       /\ NamesAreFree(document, EntityNames, m, m.transitions[1], realization)
-----------------------------------------------------------------------------
(* What the generated entities do with the machine they were given: they   *)
(* start from the parameter and take the amount from the field.            *)
ValueIn(side, field, parameter) ==
  CASE side.kind = "integerLiteral" -> side.value
    [] side.kind = "stateField"     -> field
    [] OTHER                        -> parameter

Satisfied(predicate, field, parameter) ==
  ValueIn(predicate.left, field, parameter) >= ValueIn(predicate.right, field, parameter)

Enabled(operation, field, parameter) ==
  \A r \in Members(operation.requires) : Satisfied(r, field, parameter)

KeepsInvariants(machine, field) ==
  \A i \in Members(machine.invariants) : Satisfied(i.proposition, field, field)
=============================================================================
