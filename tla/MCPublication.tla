---------------------------- MODULE MCPublication ----------------------------
(* One command that publishes three entries.  Paths are numbered in        *)
(* localeCompare order.                                                    *)
EXTENDS Publication, TLC

CONSTANTS old, new

E(x) == [path |-> x, bytes |-> new]

MCSingle == "plan" :> <<E(1), E(2), E(3)>>
=============================================================================
