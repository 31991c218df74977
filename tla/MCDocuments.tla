---------------------------- MODULE MCDocuments ----------------------------
(***************************************************************************)
(* A small source tree for model checking: constructors of declarations,   *)
(* the declarations of two files, and the edits an author may make.        *)
(***************************************************************************)
EXTENDS Naturals, Sequences

P(id, type) == [id |-> id, type |-> type]
SP(id, sort) == [id |-> id, sort |-> sort]
Ref(x) == << [kind |-> "reference", ref |-> x] >>
Str == << [kind |-> "builtin"] >>
ListOf(t) == Append(t, [kind |-> "list", element |-> Len(t)])
RecordOf(id, t) == Append(t, [kind |-> "record", fields |-> <<P(id, Len(t))>>])
Var(x) == << [kind |-> "variable", id |-> x] >>
To(t) == IF t = <<>> THEN <<>> ELSE <<Len(t)>>  \* the argument, when there is one
App(op, t) == Append(t, [kind |-> "application", id |-> op, arguments |-> To(t)])
AppOf(p, op, t) ==
  Append(t, [kind |-> "application", id |-> op, participant |-> p, arguments |-> To(t)])
Lit(n) == [kind |-> "integerLiteral", value |-> n]
Par(x) == [kind |-> "parameter", id |-> x]
Fld(x) == [kind |-> "stateField", id |-> x]
Cmp(l, r) == [left |-> l, right |-> r]

Shape == [kind |-> "data", id |-> "Shape", discriminator |-> "tag", constructors |->
  << [id |-> "Leaf", fields |-> <<P("name", Str)>>],
     [id |-> "Node", fields |-> <<P("below", ListOf(Ref("Shape"))),
        P("use", RecordOf("of", Ref("Other")))>>] >>]
Other == [kind |-> "data", id |-> "Other", discriminator |-> "tag",
          constructors |-> <<[id |-> "One", fields |-> <<>>]>>]
Debit == [kind |-> "capability", id |-> "DebitAccount"]
Pos == [kind |-> "refinement", id |-> "Balance", base |-> "Integer", atLeast |-> 1]
Theory(id) == [kind |-> "theory", id |-> id,
  sorts |-> <<[id |-> "Amount", representation |-> {"Integer"}]>>,
  operations |-> << [id |-> "zero", parameters |-> <<>>, result |-> "Amount"],
                    [id |-> "next", parameters |-> <<SP("x", "Amount")>>, result |-> "Amount"] >>,
  laws |-> << [id |-> "twice", parameters |-> <<SP("x", "Amount")>>,
               left |-> App("next", App("next", Var("x"))), right |-> Var("x")] >>]
Model == [kind |-> "finiteModel", id |-> "Model", theory |-> "AccountBalance",
  carriers |-> <<[id |-> "Amount", elements |-> <<"even", "odd">>]>>,
  operations |-> << [id |-> "zero", rows |-> <<[arguments |-> <<>>, result |-> "even"]>>],
    [id |-> "next", rows |-> << [arguments |-> <<"even">>, result |-> "odd"],
                                [arguments |-> <<"odd">>, result |-> "even"] >>] >>]
Bridge == [kind |-> "theoryBridge", id |-> "AccountLedger",
  participants |-> <<[id |-> "a", theory |-> "AccountBalance"],
                     [id |-> "l", theory |-> "LedgerBalance"]>>,
  sharedSorts |-> <<[id |-> "Money", members |->
    <<[participant |-> "a", sort |-> "Amount"], [participant |-> "l", sort |-> "Amount"]>>]>>,
  laws |-> <<[id |-> "agree", parameters |-> <<SP("x", "Money")>>,
    left |-> AppOf("a", "next", Var("x")), right |-> AppOf("l", "next", Var("x"))]>>]

(* The account of the bank, and its withdrawal for one grant. *)
NotNegative == Cmp(Par("amount"), Lit(0))
Available == Cmp(Fld("balance"), Par("amount"))
Account == [kind |-> "stateMachine", id |-> "Account", state |-> "AccountState",
  fields |-> <<P("balance", "Integer")>>,
  initializers |-> <<[id |-> "initialize", parameters |-> <<P("initialBalance", "Integer")>>,
                      requires |-> <<Cmp(Par("initialBalance"), Lit(0))>>]>>,
  transitions |-> <<[id |-> "withdraw", parameters |-> <<P("amount", "Integer")>>,
    requires |-> <<NotNegative, Available>>]>>,
  invariants |-> <<[id |-> "nonnegativeBalance", proposition |-> Cmp(Fld("balance"), Lit(0))]>>]
Once == [kind |-> "operationRealization", id |-> "WithdrawAccountOnce", machine |-> "Account",
  operation |-> "withdraw", requires |-> <<[capability |-> "DebitAccount", quantity |-> 1]>>,
  disabled |-> "WithdrawalRejectedOnce"]
Free == [Once EXCEPT !.id = "WithdrawAccount", !.disabled = "WithdrawalRejected",
                     !.requires = <<[capability |-> "DebitAccount", quantity |-> 0]>>]
Serve == [kind |-> "service", id |-> "Serve",
  operations |-> <<[id |-> "withdraw", parameters |-> <<P("by", "Balance")>>,
                    result |-> "String"]>>]

MCBaseline == << <<Shape, Other, Debit, Pos, Account, Once>>,
                 <<Theory("AccountBalance"), Theory("LedgerBalance"), Bridge, Model, Serve>> >>

MCAlternatives(d) ==
  CASE d.id = "Other" /\ d.kind = "data" ->
         {[d EXCEPT !.constructors[1].id = "Two"], [d EXCEPT !.id = "Message"]}
    [] d.id = "Shape" -> {[d EXCEPT !.constructors[1].fields[1].id = "tag"],
                          [d EXCEPT !.constructors[1].fields[1].type = Ref("Shape")]}
    [] d.id = "Balance" -> {[d EXCEPT !.atLeast = 2], [d EXCEPT !.id = "Least"]}
    [] d.id = "DebitAccount" -> {[d EXCEPT !.id = "Other"]}
    [] d.id = "Account" -> {[d EXCEPT !.fields[1].type = "Balance"],
         [d EXCEPT !.initializers[1].requires = <<Cmp(Fld("balance"), Lit(0))>>],
         [d EXCEPT !.transitions[1].parameters[1].type = "Balance"],
         [d EXCEPT !.transitions[1].requires = <<NotNegative>>],
         [d EXCEPT !.invariants[1].proposition.left = Par("amount")],
         [d EXCEPT !.transitions[1].id = "initialize"]}
    [] d.id = "WithdrawAccountOnce" ->
         {[d EXCEPT !.operation = "initialize"], [d EXCEPT !.disabled = "DebitAccount"],
          [d EXCEPT !.requires = <<[capability |-> "DebitAccount", quantity |-> 2]>>],
          [d EXCEPT !.requires = <<>>], Free}
    [] d.id \in {"AccountBalance", "LedgerBalance"} -> {[d EXCEPT !.sorts[1].representation = {}],
         [d EXCEPT !.operations[2].result = "Else"],
         [d EXCEPT !.laws[1].right = App("zero", <<>>)],
         [d EXCEPT !.laws[1].left = App("next", <<>>)],
         [d EXCEPT !.operations = Append(@, [id |-> "half", parameters |-> <<SP("x", "Amount")>>,
                                             result |-> "Amount"])]}
    [] d.id = "AccountLedger" -> {[d EXCEPT !.participants[2].theory = "AccountBalance"],
         [d EXCEPT !.sharedSorts[1].members[2].participant = "a"],
         [d EXCEPT !.laws[1].right = Var("x")],
         [d EXCEPT !.laws[1].left[2].participant = "none"]}
    [] d.id = "Model" -> {[d EXCEPT !.operations[2].rows[1].result = "even"],
         [d EXCEPT !.operations[2].rows = <<@[1]>>],
         [d EXCEPT !.carriers[1].elements = <<"even", "odd", "odd">>],
         [d EXCEPT !.operations[1].rows[1].result = "none"]}
    [] d.id = "Serve" -> {[d EXCEPT !.operations[1].result = "DebitAccount"],
                          [d EXCEPT !.operations[1].parameters = Append(@, @[1])]}
    [] OTHER -> {}

Again == [Once EXCEPT !.id = "WithdrawAccountAgain", !.disabled = "WithdrawalRejectedAgain"]
MCAdditions == {Other, Again}
=============================================================================
