------------------------- MODULE MCSemanticDatabase -------------------------
(* Two processes on one file: p1 with two fibers and a subscriber, p2 with *)
(* one fiber.  One account: accounts share nothing but the write lock.     *)
(* The journey is driven by f1 and listened to by s1.                      *)
EXTENDS SemanticDatabaseJourney, TLC

CONSTANTS p1, p2, f1, f2, g1, s1

MCHome == f1 :> p1 @@ f2 :> p1 @@ g1 :> p2 @@ s1 :> p1
MCSingleHome == f1 :> p1 @@ f2 :> p1 @@ s1 :> p1
MCOpening == {-1, 2}
MCAmounts == {-1, 1, 3}
MCHandler == {-1, 1}
=============================================================================
