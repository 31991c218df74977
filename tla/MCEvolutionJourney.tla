-------------------------- MODULE MCEvolutionJourney --------------------------
(* The scenario of examples/tiny-bank/evolution: 8 and 4, a transfer of 2, *)
(* the cutover, and a transfer of 1.                                       *)
EXTENDS EvolutionJourney

CONSTANTS p1, f1, src, tgt, o1, s1, s2, d1, d2, d3

MCWatchers == {src, tgt, TotalKey}
MCHome     == [x \in MCWatchers \cup {f1} |-> p1]
MCOpening  == {8, 4}
MCAmounts  == {2, 9, 1}
MCResults  == {<<6, 6>>, <<5, 7>>, <<8, 4>>, <<-1, 13>>}
MCScript   == EvolutionScript
=============================================================================
