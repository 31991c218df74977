---------------------------- MODULE Coordination ----------------------------
(***************************************************************************)
(* What the two owners of the bounded protocol promise, whatever the       *)
(* channel between them does: B prepares, then commits; A completes after  *)
(* B has committed, unless it is forced; every move is counted once, and a *)
(* new schedule starts from nothing.                                       *)
(***************************************************************************)
EXTENDS Naturals

VARIABLES ownerA, ownerB, forced, moves

owners == <<ownerA, ownerB, forced, moves>>

AtRest == ownerA = "waiting" /\ ownerB = "idle" /\ forced = FALSE /\ moves = 0

Prepare == /\ ownerB = "idle" /\ ownerB' = "prepared" /\ moves' = moves + 1
           /\ UNCHANGED <<ownerA, forced>>
Commit == /\ ownerB = "prepared" /\ ownerB' = "committed" /\ moves' = moves + 1
          /\ UNCHANGED <<ownerA, forced>>
Complete == /\ ownerA = "waiting" /\ ownerB = "committed" /\ ~forced
            /\ ownerA' = "complete" /\ moves' = moves + 1
            /\ UNCHANGED <<ownerB, forced>>
Force == /\ ownerA = "waiting" /\ ownerA' = "complete" /\ forced' = TRUE
         /\ moves' = moves + 1 /\ UNCHANGED ownerB
Restart == ownerA' = "waiting" /\ ownerB' = "idle" /\ forced' = FALSE /\ moves' = 0

Coordinate == AtRest /\ [][Prepare \/ Commit \/ Complete \/ Force \/ Restart]_owners
=============================================================================
