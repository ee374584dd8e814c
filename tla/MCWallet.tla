------------------------------ MODULE MCWallet ------------------------------
EXTENDS Wallet, TLC

CONSTANTS c1, c2, i1, w1, w2, v1, ann, bob, keibo

AmountOf == c1 :> 100 @@ c2 :> 150 @@ i1 :> 60 @@ w1 :> 100 @@ w2 :> 51 @@ v1 :> 5000

MCAmount == [r \in Requests |-> AmountOf[r]]

\* bob withdraws what ann does not.
MCOwner == [r \in Requests |-> IF r \in {c2, w2} THEN bob ELSE ann]

\* Every request is ann's.
MCOwnerSame == [r \in Requests |-> ann]
=============================================================================
