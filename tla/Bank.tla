--------------------------------- MODULE Bank ---------------------------------
(***************************************************************************)
(* What the transfer service promises: accounts are opened once, with a    *)
(* balance, and afterwards money only moves between two of them, never     *)
(* more than the source holds.                                             *)
(***************************************************************************)
EXTENDS Integers

CONSTANTS Accounts, NoRow

VARIABLE balance   \* balance[a]: a natural number, or NoRow

Init == balance = [a \in Accounts |-> NoRow]

Opened(a) == balance[a] # NoRow

Open(a) ==
  /\ ~Opened(a)
  /\ balance'[a] \in Nat
  /\ balance' = [balance EXCEPT ![a] = balance'[a]]

(* Both balances change in one step. *)
Move(a, b) ==
  /\ a # b /\ Opened(a) /\ Opened(b)
  /\ \E n \in 1..balance[a] :
       balance' = [balance EXCEPT ![a] = balance[a] - n, ![b] = balance[b] + n]

Next == \/ \E a \in Accounts : Open(a)
        \/ \E a, b \in Accounts : Move(a, b)

Spec == Init /\ [][Next]_balance
=============================================================================
