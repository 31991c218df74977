----------------------------- MODULE MCProject -----------------------------
(***************************************************************************)
(* The repositories, selections and manifests of small project runs.       *)
(***************************************************************************)
EXTENDS MCDocuments, FiniteSets

(* Machines and realizations that only a target looks at more closely. *)
Subtle(d) ==
  CASE d.id = "Account" ->
         {[d EXCEPT !.initializers[1].requires = <<>>],
          [d EXCEPT !.initializers[1].requires[1].right = Lit(1)],
          [d EXCEPT !.transitions[1].requires = <<Available, NotNegative>>],
          [d EXCEPT !.transitions[1].requires = <<Available, Cmp(Par("amount"), Lit(1))>>],
          [d EXCEPT !.transitions[1].requires = <<NotNegative, Cmp(Par("amount"), Fld("balance"))>>],
          [d EXCEPT !.transitions = Append(@, [@[1] EXCEPT !.id = "deposit"])],
          [d EXCEPT !.invariants[1].proposition.right = Lit(1)],
          [d EXCEPT !.invariants = <<>>], [d EXCEPT !.state = "Grant"],
          [d EXCEPT !.fields = Append(@, P("limit", "Integer"))]}
    [] d.id = "WithdrawAccountOnce" -> {[d EXCEPT !.disabled = "DebitAccountGrant"]}
    [] OTHER -> {}

(* The source tree with at most one declaration edited, added or removed.  *)
Without(file, i) == SubSeq(file, 1, i - 1) \o SubSeq(file, i + 1, Len(file))
OneEdit(file) ==
  {[file EXCEPT ![i] = d] : <<i, d>> \in
     UNION {{<<i, d>> : d \in MCAlternatives(file[i]) \cup Subtle(file[i])} : i \in DOMAIN file}}
  \cup {Without(file, i) : i \in DOMAIN file}
  \cup {Append(file, d) : d \in MCAdditions}
SourceTrees ==
  {MCBaseline} \cup {[MCBaseline EXCEPT ![1] = file] : file \in OneEdit(MCBaseline[1])}
  \cup {<<Without(MCBaseline[1], 2), Append(MCBaseline[2], MCBaseline[1][2])>>,  \* moved
        <<Without(MCBaseline[1], 6), Append(MCBaseline[2], MCBaseline[1][6])>>,
        [MCBaseline EXCEPT ![2] = Without(MCBaseline[2], 4)]}

RewritesOr(garbled) ==
  << {MCBaseline[1], [MCBaseline[1] EXCEPT ![6] = Free], garbled},
     {Without(MCBaseline[2], 5)} >>

Source(f) == [id |-> f, path |-> f]
Target(adapter) == [id |-> adapter, adapter |-> adapter]
ProfileOf(adapter) == [id |-> adapter, theory |-> "t", target |-> adapter, evidence |-> "e",
                       realization |-> "WithdrawAccountOnce"]
Requirement(realization) == <<"operationRealization", realization, "requirement", "DebitAccount">>
GoodProject ==
  [sources |-> <<Source(1), Source(2)>>,
   theory |-> [id |-> "t", source |-> 1, requirement |-> Requirement("WithdrawAccountOnce")],
   targets |-> <<Target("effect-typescript"), Target("gleam-beam")>>,
   profiles |-> <<ProfileOf("effect-typescript"), ProfileOf("gleam-beam")>>,
   evidence |-> "e",
   policy |-> [assumptions |-> "report", unsupported |-> "report", unresolved |-> "report"]]
Swapped(s) == <<s[2], s[1]>>

Selections ==
  LET G == GoodProject
  IN {G, [G EXCEPT !.sources = Swapped(@), !.profiles = Swapped(@)],
      [G EXCEPT !.targets = Swapped(@)], [G EXCEPT !.sources = <<Source(1)>>],
      [G EXCEPT !.policy.assumptions = "reject"], [G EXCEPT !.policy.unsupported = "reject"],
      [G EXCEPT !.policy.unresolved = "reject"],
      [G EXCEPT !.theory.requirement = Requirement("WithdrawAccountAgain"),
                !.profiles[1].realization = "WithdrawAccountAgain",
                !.profiles[2].realization = "WithdrawAccountAgain"],
      \* and some that must be refused
      [G EXCEPT !.sources = <<>>], [G EXCEPT !.sources[2].path = 1],
      [G EXCEPT !.sources[2].id = 1], [G EXCEPT !.theory.source = 2],
      [G EXCEPT !.theory.source = 3], [G EXCEPT !.theory.requirement[4] = "Debit"],
      [G EXCEPT !.theory.requirement[3] = "disabled"],
      [G EXCEPT !.targets[2] = Target("effect-typescript")],
      [G EXCEPT !.targets[2].adapter = "effect-typescript"],
      [G EXCEPT !.targets = <<@[1]>>], [G EXCEPT !.profiles = <<@[1]>>],
      [G EXCEPT !.profiles[2].target = "effect-typescript"],
      [G EXCEPT !.profiles[1].target = "gleam-beam"],
      [G EXCEPT !.profiles[2].id = "effect-typescript"], [G EXCEPT !.profiles[1].theory = "u"],
      [G EXCEPT !.profiles[1].evidence = "u"],
      [G EXCEPT !.profiles[1].realization = "WithdrawAccount"]}

(* One departure at a time, from the selection or from the source tree. *)
MCRepositories ==
  {[selection |-> GoodProject, files |-> files] : files \in SourceTrees}
  \cup {[selection |-> s, files |-> MCBaseline] : s \in Selections}
  \cup {[selection |-> s, files |-> [MCBaseline EXCEPT ![1] = Append(@, Again)]] :
          s \in {x \in Selections : x.profiles[1].realization = "WithdrawAccountAgain"}}

Called(n, id, grant, amount, balance, uses, tag, after) ==
  [sequence |-> n, invocation |-> id, grant |-> grant, destination |-> "account-1",
   amount |-> amount, balance |-> balance, uses |-> uses,
   outcome |-> [tag |-> tag, balance |-> after, remaining |-> 0, implementationCalls |-> 1]]
GoodManifest ==
  [core |-> 1, assumptions |-> {"truthful"},
   weakenings |-> {"forgeable-grant", "bypassable-boundary", "one-process", "no-time"},
   source |-> [machine |-> "Account", operation |-> "withdraw",
               realization |-> "WithdrawAccountOnce", capability |-> "DebitAccount",
               failure |-> "WithdrawalRejectedOnce", quantity |-> 1],
   observation |->
     [entity |-> "account-1", initial |-> 10, grant |-> "g1",
      calls |-> <<Called(0, "withdraw-1", "g1", 4, 10, 1, "Success", 6),
                  Called(1, "withdraw-2", "g1", 1, 6, 0, "CapabilityUseRejected", 6)>>,
      defect |-> [grant |-> "g2", first |-> Called(0, "defect-1", "g2", 4, 10, 1, "Defect", 10),
                  reuse |-> Called(1, "defect-2", "g2", 1, 10, 0, "CapabilityUseRejected", 10)]]]

MCManifests ==
  LET G == GoodManifest
  IN {G, [G EXCEPT !.core = 2], [G EXCEPT !.assumptions = {}],
      [G EXCEPT !.weakenings = @ \ {"no-time"}], [G EXCEPT !.source.failure = "WithdrawalRejected"],
      [G EXCEPT !.source.quantity = 2], [G EXCEPT !.observation.initial = 6],
      [G EXCEPT !.observation.calls = <<@[1]>>], [G EXCEPT !.observation.calls = Swapped(@)],
      [G EXCEPT !.observation.calls[2].outcome.tag = "Success"],
      [G EXCEPT !.observation.calls[2].outcome.implementationCalls = 2],
      [G EXCEPT !.observation.calls[1].outcome.balance = 5],
      [G EXCEPT !.observation.calls[2].grant = "g2"],
      [G EXCEPT !.observation.defect.reuse.outcome.tag = "Success"],
      [G EXCEPT !.observation.defect.reuse.uses = 1],
      [G EXCEPT !.observation.defect.first.outcome.remaining = 1],
      [G EXCEPT !.observation.defect.first.outcome.balance = 6],
      [G EXCEPT !.observation.defect.first.outcome.tag = "DomainRejected"],
      [G EXCEPT !.observation.defect.first.invocation = "withdraw-1"],
      \* one grant for both: taken, the two parts are never held against each other
      [G EXCEPT !.observation.defect.grant = "g1", !.observation.defect.first.grant = "g1",
                !.observation.defect.reuse.grant = "g1"]}

Identifiers == {"Account", "AccountState", "Grant", "WithdrawAccount", "WithdrawAccountOnce",
  "WithdrawAccountAgain", "WithdrawalRejected", "WithdrawalRejectedOnce", "WithdrawalRejectedAgain",
  "DebitAccountGrant", "DebitAccount", "Other", "balance", "initialize", "initialBalance",
  "withdraw", "amount", "nonnegativeBalance"}
MCNames == [t \in {"effect-typescript", "gleam-beam"} |-> Identifiers]
MCSameSymbol == [t \in {"effect-typescript", "gleam-beam"} |->
  IF t = "gleam-beam" THEN {{"Grant"}} ELSE {{"DebitAccount", "DebitAccountGrant"}}]
MCEntityNames == {"Account", "AccountState", "Message", "DebitAccount", "WithdrawalRejected"}
MCActorNames == {"Account", "AccountState", "Message", "Grant"}
=============================================================================
