---------------------------- MODULE MCToolchain ----------------------------
EXTENDS Toolchain, TLC

CONSTANTS m1, m2, d1, d2

MCMeaningOf == "a" :> m1 @@ "b" :> m1 @@ "c" :> m2 @@ "broken" :> Invalid
MCDigestOf  == "p" :> d1 @@ "q" :> d1 @@ "r" :> d2

MCHome == [core |-> "a", pkg |-> "p", pin |-> d1, nix |-> "x"]

Good(t) ==
  [target |-> t, realization |-> "withdraw-once", passed |-> Journeys,
   successes |-> 1, rejections |-> 1, remaining |-> ExpectedRemaining(t),
   supervised |-> "absent",
   restart |-> IF t = "gleam-beam" THEN {RestartFlags \ {"supervised"}} ELSE {}]

MCProbes(t) ==
  {Good(t)} \cup
  (IF t = "effect-typescript"
   THEN {[Good(t) EXCEPT !.successes = 2, !.rejections = 0]}
   ELSE {[Good(t) EXCEPT !.remaining["stale"] = <<1, 0>>],
         [Good(t) EXCEPT !.restart = {RestartFlags \ {"oldGrantRejected"}}]})

Demand(i, v) == [family |-> Families[i], value |-> v]
MCObjectives == {
  <<Demand(1, "supervised-actor"), Demand(2, "supervised-restart"),
    Demand(3, "invalidated-on-restart")>>,
  <<Demand(1, "in-process")>>, <<>>, <<Demand(3, "survives-restart")>> }
=============================================================================
