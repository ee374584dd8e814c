------------------------------ MODULE Account ------------------------------
(***************************************************************************)
(* What a wallet promises its owner and the platform: money comes in, and  *)
(* never more goes out than is there.                                      *)
(***************************************************************************)
EXTENDS Naturals

CONSTANTS Owners, Sums     \* Sums: the amounts that may move

VARIABLE funds     \* [Owners -> what the owner may still spend]

Init == funds = [o \in Owners |-> 0]

Deposit(o, a) == funds' = [funds EXCEPT ![o] = @ + a]

Spend(o, a) == funds[o] >= a /\ funds' = [funds EXCEPT ![o] = @ - a]

Next == \E o \in Owners, a \in Sums : Deposit(o, a) \/ Spend(o, a)

Spec == Init /\ [][Next]_funds
=============================================================================
