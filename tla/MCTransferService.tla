-------------------------- MODULE MCTransferService --------------------------
(* Two fibers in two processes on two or three accounts.  The handler      *)
(* returns the lawful balances of a transfer of 1, and results that break  *)
(* the total, the equations or the sign.                                   *)
EXTENDS TransferService

CONSTANTS a1, a2, a3, p1, p2, f1, f2

MCAccounts  == {a1, a2}
MCThree     == {a1, a2, a3}
MCFibers    == {f1, f2}
TwoProcs    == {p1, p2}
HomeNoWatch == [x \in {f1, f2} |-> IF x = f2 THEN p2 ELSE p1]
MCNoWatch   == {}
MCOpening   == {-1, 1}
MCAmounts   == {0, 1}
MCResults   == {<<0, 2>>, <<1, 1>>, <<1, 2>>, <<2, 0>>}
=============================================================================
